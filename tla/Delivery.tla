------------------------------ MODULE Delivery ------------------------------
(***************************************************************************)
(* How messages reach the players (mudd/src/api/websocket.rs): each        *)
(* connection is one task with a bounded channel of its own, which it      *)
(* drains between two commands, as far as its client reads, and all share  *)
(* the map of sessions behind a lock that serves readers and writers in    *)
(* the order they came.                                                    *)
(*                                                                         *)
(* Only a broadcast keeps the lock, for reading, while it waits: for room  *)
(* in the channel of each session it sends to.                             *)
(***************************************************************************)
EXTENDS Naturals, Sequences, SequencesExt

CONSTANTS
    Players,     \* bound: those who connect, each from one place at a time
    Rooms,
    Cap,         \* messages that a channel holds
    None         \* no room

VARIABLES
    room,        \* sessions: the room of a registered player, or None
    sessions,    \* the players with a session
    chan,        \* messages in each player's channel
    at,          \* each connection's next step
    kind,        \* the command it is at work on
    queue,       \* those who wait for the lock, in order
    reading,     \* the broadcasts that keep it
    todo,        \* of each broadcast, the sessions it has yet to send to
    stalled      \* the tasks in socket.send whose clients do not read

vars == <<room, sessions, chan, at, kind, queue, reading, todo, stalled>>

\* What the steps do with the lock.
Writes == {"register", "update", "unregister"}
Reads == {"find echo", "find room", "broadcast", "find answer"}

\* Where a task awaits socket.send, which has no timeout: the two messages of a
\* connection being set up, and one from the channel.
Sockets == {"welcome", "describe", "relay"}

Init ==
    /\ room = [p \in Players |-> None]
    /\ sessions = {}
    /\ chan = [p \in Players |-> 0]
    /\ at = [p \in Players |-> "gone"]
    /\ kind = [p \in Players |-> None]
    /\ queue = <<>>
    /\ reading = {}
    /\ todo = [p \in Players |-> {}]
    /\ stalled = {}

\* The lock is granted to the first that waits, and to readers behind readers.
Granted(p) ==
    \E i \in DOMAIN queue :
        /\ queue[i] = p
        /\ IF at[p] \in Writes THEN i = 1 /\ reading = {}
           ELSE \A j \in 1..(i - 1) : at[queue[j]] \in Reads

\* The queue once p has had the lock.
Served(p) ==
    IF p \in ToSet(queue) THEN RemoveAt(queue, CHOOSE i \in DOMAIN queue : queue[i] = p)
    ELSE queue

\* A connection goes on to a step, which may have to wait for the lock.
Goto(p, step) ==
    /\ at' = [at EXCEPT ![p] = step]
    /\ queue' = IF step \in Reads \cup Writes THEN Append(Served(p), p) ELSE Served(p)

Room(p) == chan[p] < Cap
Put(p) == chan' = [chan EXCEPT ![p] = @ + 1]

----------------------------------------------------------------------------
\* A connection is made, registered with the room it spawns in, and served.
Connect(p) ==
    /\ at[p] = "gone"
    /\ Goto(p, "register")
    /\ UNCHANGED <<room, sessions, chan, kind, reading, todo, stalled>>

Register(p) ==
    /\ at[p] = "register" /\ Granted(p)
    /\ sessions' = sessions \cup {p}
    /\ \E r \in Rooms \cup {None} : room' = [room EXCEPT ![p] = r]
    /\ chan' = [chan EXCEPT ![p] = 0]
    /\ Goto(p, "welcome")
    /\ UNCHANGED <<kind, reading, todo, stalled>>

\* From now on its channel fills, but only the loop drains it: first the task sends
\* a welcome and, after move_player, the room, unless it cannot be described.
Onward(p) ==
    \/ at[p] = "welcome" /\ Goto(p, "describe")
    \/ at[p] \in Sockets /\ Goto(p, "loop")

\* socket.send returns once the socket takes the message...
Relay(p) ==
    /\ p \notin stalled /\ Onward(p)
    /\ UNCHANGED <<room, sessions, chan, kind, reading, todo, stalled>>

\* ... for which a client that has stopped reading, as it pleases, has to read on...
Stall(p) ==
    /\ at[p] \in Sockets /\ p \notin stalled
    /\ stalled' = stalled \cup {p}
    /\ UNCHANGED <<room, sessions, chan, at, kind, queue, reading, todo>>

ReadOn(p) ==
    /\ p \in stalled
    /\ stalled' = stalled \ {p}
    /\ UNCHANGED <<room, sessions, chan, at, kind, queue, reading, todo>>

\* ... or fails, when the connection is broken: the loop ends, the rest goes on.
SendFails(p) ==
    /\ IF at[p] = "relay" THEN Goto(p, "unregister") ELSE Onward(p)
    /\ stalled' = stalled \ {p}
    /\ UNCHANGED <<room, sessions, chan, kind, reading, todo>>

\* The loop: rx.recv takes a message, which is sent before anything else is done,
Take(p) ==
    /\ at[p] = "loop" /\ chan[p] > 0
    /\ chan' = [chan EXCEPT ![p] = @ - 1]
    /\ Goto(p, "relay")
    /\ UNCHANGED <<room, sessions, kind, reading, todo, stalled>>

\* a command comes,
Command(p, k) ==
    /\ at[p] = "loop"
    /\ kind' = [kind EXCEPT ![p] = k]
    /\ Goto(p, "find echo")
    /\ UNCHANGED <<room, sessions, chan, reading, todo, stalled>>

\* or the socket closes.
Close(p) ==
    /\ at[p] = "loop"
    /\ Goto(p, "unregister")
    /\ UNCHANGED <<room, sessions, chan, kind, reading, todo, stalled>>

\* The channel goes with the task.
Unregister(p) ==
    /\ at[p] = "unregister" /\ Granted(p)
    /\ sessions' = sessions \ {p}
    /\ room' = [room EXCEPT ![p] = None]
    /\ chan' = [chan EXCEPT ![p] = 0]
    /\ Goto(p, "gone")
    /\ UNCHANGED <<kind, reading, todo, stalled>>

----------------------------------------------------------------------------
\* send_to_player looks the sender up, then sends without the lock.
FindEcho(p) ==
    /\ at[p] = "find echo" /\ Granted(p)
    /\ Goto(p, "echo")
    /\ UNCHANGED <<room, sessions, chan, kind, reading, todo, stalled>>

Echo(p) ==
    /\ at[p] = "echo" /\ Room(p)
    /\ Put(p)
    /\ Goto(p, IF kind[p] \in {"move", "attack"} THEN "find room" ELSE "find answer")
    /\ UNCHANGED <<room, sessions, kind, reading, todo, stalled>>

\* get_room_id: the command fails for one who is nowhere, or where there is no
\* such exit and no such target.
FindRoom(p) ==
    /\ at[p] = "find room" /\ Granted(p)
    /\ \/ Goto(p, "find answer")
       \/ room[p] # None /\ Goto(p, IF kind[p] = "move" THEN "update" ELSE "broadcast")
    /\ UNCHANGED <<room, sessions, chan, kind, reading, todo, stalled>>

\* update_room
UpdateRoom(p) ==
    /\ at[p] = "update" /\ Granted(p)
    /\ \E r \in Rooms : room' = [room EXCEPT ![p] = r]
    /\ Goto(p, "find answer")
    /\ UNCHANGED <<sessions, chan, kind, reading, todo, stalled>>

\* broadcast_room, to the room the attacker was found in.
Broadcast(p) ==
    /\ at[p] = "broadcast" /\ Granted(p)
    /\ reading' = reading \cup {p}
    /\ todo' = [todo EXCEPT ![p] = {q \in sessions : room[q] = room[p]}]
    /\ Goto(p, "send")
    /\ UNCHANGED <<room, sessions, chan, kind, stalled>>

\* To one session after the other; which comes first is left open.
Send(p, q) ==
    /\ at[p] = "send" /\ q \in todo[p] /\ Room(q)
    /\ Put(q)
    /\ todo' = [todo EXCEPT ![p] = @ \ {q}]
    /\ UNCHANGED <<room, sessions, at, kind, queue, reading, stalled>>

\* Fault: the lock is kept to the end of the command.
SentHolds(p) ==
    /\ at[p] = "send" /\ todo[p] = {}
    /\ Goto(p, "find answer")
    /\ UNCHANGED <<room, sessions, chan, kind, reading, todo, stalled>>

Sent(p) ==
    /\ at[p] = "send" /\ todo[p] = {}
    /\ reading' = reading \ {p}
    /\ Goto(p, "find answer")
    /\ UNCHANGED <<room, sessions, chan, kind, todo, stalled>>

FindAnswer(p) ==
    /\ at[p] = "find answer" /\ Granted(p)
    /\ Goto(p, "answer")
    /\ UNCHANGED <<room, sessions, chan, kind, reading, todo, stalled>>

Answer(p) ==
    /\ at[p] = "answer" /\ Room(p)
    /\ Put(p)
    /\ kind' = [kind EXCEPT ![p] = None]
    /\ Goto(p, "loop")
    /\ UNCHANGED <<room, sessions, reading, todo, stalled>>

\* The steps that a connection takes by itself.
Step(p) ==
    \/ Register(p) \/ Unregister(p)
    \/ FindEcho(p) \/ Echo(p) \/ FindRoom(p) \/ UpdateRoom(p)
    \/ Broadcast(p) \/ (\E q \in Players : Send(p, q)) \/ Sent(p)
    \/ FindAnswer(p) \/ Answer(p)

Client(p) ==
    \/ Connect(p) \/ Close(p) \/ SendFails(p) \/ Stall(p) \/ ReadOn(p)
    \/ \E k \in {"say", "move", "attack"} : Command(p, k)

Next == \E p \in Players : Step(p) \/ Take(p) \/ Relay(p) \/ Client(p)

Spec == Init /\ [][Next]_vars

\* Tasks run on; the lock and the channels serve those who wait in order; and
\* select! takes either branch that is ready, at random.  Nobody is asked to read:
\* what is sent gets through to a client that reads, or reads on time and again.
FairSpec ==
    /\ Spec
    /\ \A p \in Players : SF_vars(Step(p)) /\ SF_vars(Take(p)) /\ SF_vars(Relay(p))

----------------------------------------------------------------------------
TypeOK ==
    /\ room \in [Players -> Rooms \cup {None}]
    /\ sessions \subseteq Players
    /\ chan \in [Players -> 0..Cap]
    /\ at \in [Players -> {"gone", "loop", "echo", "send", "answer"}
                           \cup Reads \cup Writes \cup Sockets]
    /\ kind \in [Players -> {"say", "move", "attack", None}]
    /\ queue \in Seq(Players)
    /\ reading \subseteq Players
    /\ todo \in [Players -> SUBSET Players]
    /\ stalled \subseteq Players

\* A broadcast reaches who is in the attacker's room and nobody else, however
\* long it has to wait for their channels: while it does, nobody moves, comes
\* or goes.
RoomHears ==
    \A p \in reading : room[p] # None /\ todo[p] \subseteq {q \in sessions : room[q] = room[p]}

\* At work on a command, or on the map of sessions.
Busy(p) == at[p] \in {"echo", "send", "answer"} \cup Reads \cup Writes

\* Does p wait for room in the channel of q?
Awaits(p, q) ==
    /\ ~Room(q)
    /\ \/ at[p] \in {"echo", "answer"} /\ p = q
       \/ at[p] = "send" /\ q \in todo[p]

\* Somebody waits for a channel whose own task, which alone drains it, is at work
\* itself or sits in socket.send before a client that does not read.
Clogged ==
    \E p, q \in Players : Awaits(p, q) /\ (Busy(q) \/ q \in stalled)

\* Can p, or what is on its way to p, go on?  The guards of Step, Take and Relay.
Ready(p) ==
    \/ at[p] \in Reads \cup Writes /\ Granted(p)
    \/ at[p] \in {"echo", "answer"} /\ Room(p)
    \/ at[p] = "send" /\ (todo[p] = {} \/ \E q \in todo[p] : Room(q))
    \/ at[p] = "loop" /\ chan[p] > 0
    \/ at[p] \in Sockets /\ p \notin stalled

\* Whenever somebody is at work and nobody can go on, it is for a clogged channel:
\* lock and channels close no other circle.
NoDeadlock == (\E p \in Players : Busy(p)) /\ (\A p \in Players : ~Ready(p)) => Clogged

\* A command is answered, a connection registered or unregistered, whatever the
\* others do at the same time and however clients stall for a while, unless a
\* channel is clogged for good: no order in which the lock is taken keeps anybody
\* waiting forever.
CommandsAnswered == \A p \in Players : Busy(p) ~> (~Busy(p) \/ []Clogged)
=============================================================================
