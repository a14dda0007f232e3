------------------------------ MODULE Sessions ------------------------------
(***************************************************************************)
(* One account and the WebSocket connections it opens: handle_socket and   *)
(* ConnectionManager (mudd/src/api/websocket.rs) with the player object    *)
(* behind them (mudd/src/player.rs).  Both maps of the manager are keyed   *)
(* by the player id, so for one account each holds at most one value,      *)
(* whichever connection wrote it.                                          *)
(*                                                                         *)
(* A connection runs as a task; when it ends it schedules a second task    *)
(* that drops the inventory once a grace period is over.  Every await      *)
(* between two reads or writes of shared state is a step of its own, and   *)
(* every read or write of the database may fail.                           *)
(***************************************************************************)
EXTENDS Naturals

CONSTANTS
    Sockets,    \* bound: the connections the account ever opens
    Rooms, SafeRooms, Portal,
    Items,      \* items that can be carried; none is "fixed"
    Uses,       \* the ways to use the account that are considered
    None        \* no socket, no room, no item

Player == "player"   \* an item in the player's inventory
Other  == "other"    \* an item in somebody else's

ASSUME SessionsAssumption ==
    /\ SafeRooms \subseteq Rooms /\ Portal \in SafeRooms
    /\ Uses \subseteq [goto : BOOLEAN, reconnect : {"sequential", "overlapping", "any"}]
    /\ None \notin Sockets \cup Rooms \cup Items
    /\ {Player, Other} \cap (Rooms \cup {None}) = {}

VARIABLES
    pc,        \* the next step of each connection's task
    dest,      \* its spawn_room_id or dest_room_id
    copy,      \* the player row it last read
    hand,      \* the item a Lua command moves, and where to
    task,      \* the grace task a connection left behind
    plan,      \* its current_room_id and last_safe
    left,      \* the items it has still to drop
    cut,       \* has the task's cancel_rx completed?
    session,   \* sessions[player_id]
    pending,   \* pending_disconnects[player_id]: whose cancel_tx it is
    row,       \* the player's row in the objects table
    itemAt,    \* parent_id of each item
    astray,    \* history: did the last move_player fail to move the object?
    kept,      \* history: has a grace task failed since the last one was spawned?
    use        \* chosen once and for all: has the account the goto command, and
               \* when does it connect again (see MayConnect)?

conn == <<pc, dest, copy, hand>>
grace == <<task, plan, left, cut>>
hist == <<astray, kept>>
vars == <<conn, grace, session, pending, row, itemAt, hist, use>>

Place == Rooms \cup {None}
Rows == [exists : BOOLEAN, where : Place, safe : Place]
Plans == [room : Place, home : Place]
NoSession == [owner |-> None, room |-> None]
NoPlan == [room |-> None, home |-> None]
NoHand == [item |-> None, to |-> None]

ConnOK ==
    /\ pc \in [Sockets -> {"new", "load", "create", "register", "move", "read", "write",
                           "open", "go", "lua", "schedule", "closed"}]
    /\ dest \in [Sockets -> Place]
    /\ copy \in [Sockets -> Rows]
    /\ hand \in [Sockets -> [item : Items \cup {None}, to : Place \cup {Player}]]
    /\ \A s \in Sockets : pc[s] = "lua" => hand[s].item \in Items /\ hand[s].to # None

GraceOK ==
    /\ task \in [Sockets -> {"none", "waiting", "due", "reading", "listing",
                             "dropping", "done"}]
    /\ plan \in [Sockets -> Plans]
    /\ left \in [Sockets -> SUBSET Items]
    /\ cut \in [Sockets -> BOOLEAN]
    /\ \A t \in Sockets : task[t] \in {"listing", "dropping"} => plan[t].room \in Rooms

TypeOK ==
    /\ ConnOK /\ GraceOK
    /\ session \in [owner : Sockets \cup {None}, room : Place]
    /\ pending \in Sockets \cup {None}
    /\ row \in Rows
    /\ itemAt \in [Items -> Rooms \cup {Player, Other}]
    /\ astray \in BOOLEAN /\ kept \in BOOLEAN
    /\ use \in Uses

NewRow == [exists |-> FALSE, where |-> None, safe |-> None]

Init ==
    /\ pc = [s \in Sockets |-> "new"]
    /\ dest = [s \in Sockets |-> None]
    /\ copy = [s \in Sockets |-> NewRow]
    /\ hand = [s \in Sockets |-> NoHand]
    /\ task = [s \in Sockets |-> "none"]
    /\ plan = [s \in Sockets |-> NoPlan]
    /\ left = [s \in Sockets |-> {}]
    /\ cut = [s \in Sockets |-> FALSE]
    /\ session = NoSession
    /\ pending = None
    /\ row = NewRow
    /\ itemAt \in [Items -> Rooms]
    /\ astray = FALSE /\ kept = FALSE
    /\ use \in Uses

----------------------------------------------------------------------------
Live(s) == pc[s] \notin {"new", "schedule", "closed"}
Overdue(t) == task[t] \in {"due", "reading", "listing", "dropping"}

\* sequential: only after the last connection has gone, and within its grace
\* period.  overlapping: within every grace period, but a second tab may open.
MayConnect(s) ==
    /\ use.reconnect # "any" => \A t \in Sockets : ~Overdue(t)
    /\ use.reconnect = "sequential" => \A t \in Sockets : pc[t] \in {"new", "closed"}

Step(s, label) == pc' = [pc EXCEPT ![s] = label]

\* Back to the main loop: the locals of what was done there are gone.
Return(s) ==
    /\ Step(s, "open")
    /\ dest' = [dest EXCEPT ![s] = None]
    /\ copy' = [copy EXCEPT ![s] = NewRow]
    /\ hand' = [hand EXCEPT ![s] = NoHand]

\* The grace task ends.
Finish(t) ==
    /\ task' = [task EXCEPT ![t] = "done"]
    /\ plan' = [plan EXCEPT ![t] = NoPlan]
    /\ left' = [left EXCEPT ![t] = {}]

\* Fault: a reconnection does not look for a pending disconnect.
ConnectNoCancel(s) ==
    /\ pc[s] = "new" /\ MayConnect(s)
    /\ Step(s, "load")
    /\ UNCHANGED <<dest, copy, hand, grace, session, pending, row, itemAt, hist>>

\* cancel_pending_disconnect.
Connect(s) ==
    /\ pc[s] = "new" /\ MayConnect(s)
    /\ cut' = [t \in Sockets |-> cut[t] \/ t = pending]
    /\ pending' = None
    /\ Step(s, "load")
    /\ UNCHANGED <<dest, copy, hand, task, plan, left, session, row, itemAt, hist>>

\* get_spawn_location: rooms are never deleted here.
SpawnRoom(r) ==
    IF r.safe # None THEN r.safe
    ELSE IF r.where \in SafeRooms THEN r.where ELSE Portal

LoadPlayer(s) ==
    /\ pc[s] = "load"
    /\ copy' = [copy EXCEPT ![s] = row]
    /\ dest' = [dest EXCEPT ![s] = SpawnRoom(row)]
    /\ Step(s, IF row.exists THEN "register" ELSE "create")
    /\ UNCHANGED <<hand, grace, session, pending, row, itemAt, hist>>

\* INSERT fails if another connection was first: no spawn room.
CreatePlayer(s) ==
    /\ pc[s] = "create"
    /\ row' = [row EXCEPT !.exists = TRUE]
    /\ dest' = [dest EXCEPT ![s] = IF row.exists THEN None ELSE Portal]
    /\ Step(s, "register")
    /\ UNCHANGED <<copy, hand, grace, session, pending, itemAt, hist>>

\* Either way the connection goes on without a spawn room.
LoadFails(s) ==
    /\ pc[s] \in {"load", "create"}
    /\ dest' = [dest EXCEPT ![s] = None]
    /\ Step(s, "register")
    /\ UNCHANGED <<copy, hand, grace, session, pending, row, itemAt, hist>>

Register(s) ==
    /\ pc[s] = "register"
    /\ session' = [owner |-> s, room |-> dest[s]]
    /\ IF dest[s] = None THEN Return(s)
                          ELSE Step(s, "move") /\ UNCHANGED <<dest, copy, hand>>
    /\ UNCHANGED <<grace, pending, row, itemAt, hist>>

\* move_player in three steps: the parent, then a read and a write of the
\* whole row that sets last_safe_location.
MoveObject(s) ==
    /\ pc[s] = "move"
    /\ row' = [row EXCEPT !.where = dest[s]]
    /\ astray' = FALSE
    /\ IF dest[s] \in SafeRooms THEN Step(s, "read") /\ UNCHANGED <<dest, copy, hand>>
                                 ELSE Return(s)
    /\ UNCHANGED <<grace, session, pending, itemAt, kept>>

\* The caller only warns: an exit that names no room, or a write that fails,
\* leaves the session in its new room and the object in the old one.
MoveFails(s) ==
    /\ pc[s] = "move"
    /\ astray' = TRUE
    /\ Return(s)
    /\ UNCHANGED <<grace, session, pending, row, itemAt, kept>>

\* Fault: the row read at the connection is used again.
ReadRowNot(s) ==
    /\ pc[s] = "read"
    /\ Step(s, "write")
    /\ UNCHANGED <<dest, copy, hand, grace, session, pending, row, itemAt, hist>>

ReadRow(s) ==
    /\ pc[s] = "read"
    /\ copy' = [copy EXCEPT ![s] = row]
    /\ Step(s, "write")
    /\ UNCHANGED <<dest, hand, grace, session, pending, row, itemAt, hist>>

WriteRow(s) ==
    /\ pc[s] = "write"
    /\ row' = [copy[s] EXCEPT !.safe = dest[s]]
    /\ Return(s)
    /\ UNCHANGED <<grace, session, pending, itemAt, hist>>

\* The rest of move_player fails, or the write of a Lua command does: nothing
\* is undone or tried again.
GiveUp(s) ==
    /\ pc[s] \in {"read", "write", "lua"}
    /\ Return(s)
    /\ UNCHANGED <<grace, session, pending, row, itemAt, hist>>

----------------------------------------------------------------------------
\* A direction command finds the exit of the session's room ...
Go(s, r) ==
    /\ pc[s] = "open"
    /\ session.room # None
    /\ dest' = [dest EXCEPT ![s] = r]
    /\ Step(s, "go")
    /\ UNCHANGED <<copy, hand, grace, session, pending, row, itemAt, hist>>

\* ... and update_room changes the session, whoever's it is now.
UpdateRoom(s) ==
    /\ pc[s] = "go"
    /\ session' = IF session.owner = None THEN session
                                          ELSE [session EXCEPT !.room = dest[s]]
    /\ Step(s, "move")
    /\ UNCHANGED <<dest, copy, hand, grace, pending, row, itemAt, hist>>

\* goto moves the session and not the object.
Teleport(s, r) ==
    /\ use.goto
    /\ pc[s] = "open"
    /\ session' = IF session.owner = None THEN session
                                          ELSE [session EXCEPT !.room = r]
    /\ UNCHANGED <<conn, grace, pending, row, itemAt, hist>>

\* Commands.take and Commands.drop look for the item with the object's room;
\* execute_lua needs a session.
FindItem(s, i) ==
    /\ pc[s] = "open"
    /\ session.owner # None /\ row.where # None
    /\ \/ itemAt[i] = row.where /\ hand' = [hand EXCEPT ![s] = [item |-> i, to |-> Player]]
       \/ itemAt[i] = Player /\ hand' = [hand EXCEPT ![s] = [item |-> i, to |-> row.where]]
    /\ Step(s, "lua")
    /\ UNCHANGED <<dest, copy, grace, session, pending, row, itemAt, hist>>

MoveItem(s) ==
    /\ pc[s] = "lua"
    /\ itemAt' = [itemAt EXCEPT ![hand[s].item] = hand[s].to]
    /\ Return(s)
    /\ UNCHANGED <<grace, session, pending, row, hist>>

\* Another player picks an item up or puts it down.
OtherMoves(i) ==
    /\ \/ itemAt[i] \in Rooms /\ itemAt' = [itemAt EXCEPT ![i] = Other]
       \/ itemAt[i] = Other /\ \E r \in Rooms : itemAt' = [itemAt EXCEPT ![i] = r]
    /\ UNCHANGED <<conn, grace, session, pending, row, hist>>

----------------------------------------------------------------------------
\* Fault: the session stays until the grace period is over.
CloseKeepsSession(s) ==
    /\ pc[s] = "open"
    /\ Step(s, "schedule")
    /\ UNCHANGED <<dest, copy, hand, grace, session, pending, row, itemAt, hist>>

\* The main loop ends; unregister removes the session, whoever's it is.
Close(s) ==
    /\ pc[s] = "open"
    /\ session' = NoSession
    /\ Step(s, "schedule")
    /\ UNCHANGED <<dest, copy, hand, grace, pending, row, itemAt, hist>>

\* Fault: the replaced sender is kept somewhere, not dropped.
ScheduleLeaks(s) ==
    /\ pc[s] = "schedule"
    /\ pending' = s
    /\ task' = [task EXCEPT ![s] = "waiting"]
    /\ Step(s, "closed")
    /\ UNCHANGED <<dest, copy, hand, plan, left, cut, session, row, itemAt, hist>>

\* schedule_disconnect and the spawn.  The insert drops a sender that was
\* still there, which completes its receiver.
Schedule(s) ==
    /\ pc[s] = "schedule"
    /\ cut' = [t \in Sockets |-> cut[t] \/ t = pending]
    /\ pending' = s
    /\ task' = [task EXCEPT ![s] = "waiting"]
    /\ kept' = FALSE
    /\ Step(s, "closed")
    /\ UNCHANGED <<dest, copy, hand, plan, left, session, row, itemAt, astray>>

\* The sleep ends first.  Assumed: a task cancelled before that is polled
\* before its sleep ends.
GraceOver(t) ==
    /\ task[t] = "waiting" /\ ~cut[t]
    /\ task' = [task EXCEPT ![t] = "due"]
    /\ UNCHANGED <<conn, plan, left, cut, session, pending, row, itemAt, hist>>

GraceCancelled(t) ==
    /\ task[t] \in {"waiting", "due"} /\ cut[t]
    /\ task' = [task EXCEPT ![t] = "done"]
    /\ UNCHANGED <<conn, plan, left, cut, session, pending, row, itemAt, hist>>

\* select! takes either branch when both are ready.  clear_pending_disconnect
\* removes, and so cancels, whatever entry is there.
Expire(t) ==
    /\ task[t] = "due"
    /\ cut' = [u \in Sockets |-> cut[u] \/ u = pending]
    /\ pending' = None
    /\ task' = [task EXCEPT ![t] = "reading"]
    /\ UNCHANGED <<conn, plan, left, session, row, itemAt, hist>>

\* Fault: the way home decides, not the room the player is in.
ReadPlayerHome(t) ==
    /\ task[t] = "reading"
    /\ IF row.where = None \/ row.safe # None THEN Finish(t)
       ELSE /\ plan' = [plan EXCEPT ![t] = [room |-> row.where, home |-> row.safe]]
            /\ task' = [task EXCEPT ![t] = "listing"]
            /\ UNCHANGED left
    /\ UNCHANGED <<conn, cut, session, pending, row, itemAt, hist>>

\* handle_disconnect reads the player once ...
ReadPlayer(t) ==
    /\ task[t] = "reading"
    /\ IF row.where \in SafeRooms \cup {None} THEN Finish(t)
       ELSE /\ plan' = [plan EXCEPT ![t] = [room |-> row.where, home |-> row.safe]]
            /\ task' = [task EXCEPT ![t] = "listing"]
            /\ UNCHANGED left
    /\ UNCHANGED <<conn, cut, session, pending, row, itemAt, hist>>

\* ... then the inventory once ...
ListItems(t) ==
    /\ task[t] = "listing"
    /\ left' = [left EXCEPT ![t] = {i \in Items : itemAt[i] = Player}]
    /\ task' = [task EXCEPT ![t] = "dropping"]
    /\ UNCHANGED <<conn, plan, cut, session, pending, row, itemAt, hist>>

\* ... moves the items one by one ...
DropItem(t) ==
    /\ task[t] = "dropping"
    /\ \E i \in left[t] :
          /\ itemAt' = [itemAt EXCEPT ![i] = plan[t].room]
          /\ left' = [left EXCEPT ![t] = @ \ {i}]
    /\ UNCHANGED <<conn, task, plan, cut, session, pending, row, hist>>

\* ... and the player last, to the safe room it had read.
MoveHome(t) ==
    /\ task[t] = "dropping" /\ left[t] = {}
    /\ row' = IF plan[t].home = None THEN row ELSE [row EXCEPT !.where = plan[t].home]
    /\ Finish(t)
    /\ UNCHANGED <<conn, cut, session, pending, itemAt, hist>>

\* handle_disconnect ends at the first statement that fails, and nothing tries
\* again: what was not dropped stays with the player.
DisconnectFails(t) ==
    /\ task[t] \in {"reading", "listing", "dropping"}
    /\ kept' = TRUE
    /\ Finish(t)
    /\ UNCHANGED <<conn, cut, session, pending, row, itemAt, astray>>

SocketStep(s) ==
    \/ LoadPlayer(s) \/ CreatePlayer(s) \/ LoadFails(s) \/ Register(s)
    \/ MoveObject(s) \/ MoveFails(s) \/ ReadRow(s) \/ WriteRow(s) \/ GiveUp(s)
    \/ UpdateRoom(s) \/ MoveItem(s) \/ Schedule(s)

ClientStep(s) ==
    \/ Connect(s)
    \/ Close(s)
    \/ \E r \in Rooms : Go(s, r) \/ Teleport(s, r)
    \/ \E i \in Items : FindItem(s, i)

TaskStep(t) ==
    \/ GraceOver(t) \/ GraceCancelled(t) \/ Expire(t)
    \/ ReadPlayer(t) \/ ListItems(t) \/ DropItem(t) \/ MoveHome(t)
    \/ DisconnectFails(t)

Next ==
    /\ UNCHANGED use
    /\ \/ \E s \in Sockets : SocketStep(s) \/ ClientStep(s) \/ TaskStep(s)
       \/ \E i \in Items : OtherMoves(i)

Spec == Init /\ [][Next]_vars

\* Tokio runs every task that can go on; clients promise nothing.
FairSpec ==
    /\ Spec
    /\ \A s \in Sockets : /\ WF_vars(SocketStep(s) /\ UNCHANGED use)
                         /\ WF_vars(TaskStep(s) /\ UNCHANGED use)

----------------------------------------------------------------------------
\* No message is sent to a connection that has ended: a registered session
\* belongs to one that is still running.
SessionAlive == session.owner # None => Live(session.owner)

\* A grace task that has not been cancelled can still be: its sender is the
\* one in the map.  So at most one task is counting down.
Cancellable == \A t \in Sockets : task[t] = "waiting" /\ ~cut[t] => pending = t

\* websocket.rs "This allows reconnection without dropping inventory": a grace
\* task takes nothing from a player who has an open connection, and nothing
\* from anybody else's hands.
DropsFromTheAbsent ==
    \A t \in Sockets, i \in Items :
        DropItem(t) /\ itemAt'[i] # itemAt[i] =>
           /\ itemAt[i] = Player
           /\ \A s \in Sockets : pc[s] # "open"
InventoryKept == [][DropsFromTheAbsent]_vars

\* That is so for an account that connects one time after the other.
InventoryKeptInTurn == [][use.reconnect = "sequential" => DropsFromTheAbsent]_vars

\* The room of the session, which look, exits and broadcasts use, and the
\* player object's room, which take, drop and the disconnection use, agree
\* whenever the connection waits for a command, unless the object's last move
\* failed: the next one that succeeds brings them together again.
LocationAgrees ==
    \A s \in Sockets :
        pc[s] = "open" => /\ session.owner = s
                          /\ astray \/ session.room \in {None, row.where}

\* One connection after the other, without goto.
LocationAgreesInTurn == use.reconnect = "sequential" /\ ~use.goto => LocationAgrees

\* Nobody carries items around offline: an account that has left ends up in a
\* safe room or with empty hands, unless it connects again or the database has
\* failed a grace task since it left.
Abandoned ==
    /\ \A s \in Sockets : pc[s] \in {"new", "closed"}
    /\ \E s \in Sockets : pc[s] = "closed"
    /\ ~kept
Settled ==
    \/ row.where \in SafeRooms \cup {None}
    \/ \A i \in Items : itemAt[i] # Player
AbandonedSettles == Abandoned ~> (Settled \/ ~Abandoned)
=============================================================================
