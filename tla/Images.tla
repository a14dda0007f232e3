------------------------------- MODULE Images -------------------------------
(***************************************************************************)
(* Pictures of rooms: a look at a room that has none starts a task         *)
(* (build_room_message, mudd/src/api/websocket.rs) that asks Venice twice, *)
(* within the rate limit, stores the picture under its hash and writes the *)
(* hash into the room (mudd/src/images/gen.rs, mudd/src/images/store.rs);  *)
(* game.llm_image stores a picture for a program.                          *)
(*                                                                         *)
(* The task writes the room as it was before the two slow requests.        *)
(***************************************************************************)
EXTENDS RateLimiter

CONSTANTS
    Rooms,
    Pictures,     \* what Venice may return; a picture is its own hash
    Drawers,      \* bound: tasks at a time
    MaxEdits,     \* bound: edits of rooms
    Nothing       \* no room, no picture

VARIABLES
    room,         \* a room's row: its picture and the number of its text, or Nothing
    images,       \* image_store: the reference count of a picture, or Nothing
    task,         \* each task: where it is, for whom, and what it carries
    edits

Row == [picture : Pictures \cup {Nothing}, text : Nat]

ASSUME ImagesAssumption ==
    /\ Nothing \notin Rooms \cup Pictures \cup Row
    /\ Nothing \notin Nat
    /\ MaxEdits \in Nat

imageVars == <<room, images, task, edits>>
drawVars == <<limiterVars, imageVars>>

Free == [at |-> "free", who |-> Nothing, room |-> Nothing, seen |-> Nothing, picture |-> Nothing]

ImageInit ==
    /\ LimiterInit
    /\ room = [r \in Rooms |-> [picture |-> Nothing, text |-> 0]]
    /\ images = [p \in Pictures |-> Nothing]
    /\ task = [t \in Drawers |-> Free]
    /\ edits = 0

Go(t, state) == task' = [task EXCEPT ![t] = state]

----------------------------------------------------------------------------
\* A player looks at a room: every look at one without a picture is a task, no
\* matter how many are under way.
Look(t, a, r) ==
    /\ task[t].at = "free"
    /\ room[r] # Nothing /\ room[r].picture = Nothing
    /\ Go(t, [Free EXCEPT !.at = "read", !.who = a, !.room = r])
    /\ UNCHANGED <<limiterVars, room, images, edits>>

\* game.llm_image
Draw(t, a) ==
    /\ task[t].at = "free"
    /\ Go(t, [Free EXCEPT !.at = "draw", !.who = a])
    /\ UNCHANGED <<limiterVars, room, images, edits>>

ReadRoom(t) ==
    /\ task[t].at = "read" /\ room[task[t].room] # Nothing
    /\ Go(t, [task[t] EXCEPT !.at = "chat", !.seen = room[task[t].room]])
    /\ UNCHANGED <<limiterVars, room, images, edits>>

\* venice.chat: a token is spent before the request is sent.
Chat(t) ==
    /\ task[t].at = "chat"
    /\ Consume(task[t].who)
    /\ Go(t, [task[t] EXCEPT !.at = "draw"])
    /\ UNCHANGED <<room, images, edits>>

\* venice.generate_image
Generate(t, p) ==
    /\ task[t].at = "draw"
    /\ Consume(task[t].who)
    /\ Go(t, [task[t] EXCEPT !.at = "store", !.picture = p])
    /\ UNCHANGED <<room, images, edits>>

\* Fault: a picture that is there already counts as failed, but goes on.
StoreFirstOnly(t) ==
    /\ task[t].at = "store"
    /\ images' = images
    /\ Go(t, IF task[t].room = Nothing THEN Free ELSE [task[t] EXCEPT !.at = "update"])
    /\ UNCHANGED <<limiterVars, room, edits>>

\* store: INSERT, or one more reference to a picture that is there.
Store(t) ==
    LET p == task[t].picture IN
    /\ task[t].at = "store"
    /\ images' = [images EXCEPT ![p] = IF @ = Nothing THEN 0 ELSE @ + 1]
    /\ Go(t, IF task[t].room = Nothing THEN Free ELSE [task[t] EXCEPT !.at = "update"])
    /\ UNCHANGED <<limiterVars, room, edits>>

\* update: the whole row as it was read, with the hash; nothing if it is gone.
SetPicture(t) ==
    LET r == task[t].room IN
    /\ task[t].at = "update"
    /\ room' = IF room[r] = Nothing THEN room
               ELSE [room EXCEPT ![r] = [task[t].seen EXCEPT !.picture = task[t].picture]]
    /\ Go(t, Free)
    /\ UNCHANGED <<limiterVars, images, edits>>

\* The room is gone, the rate limit refuses, a request or a statement fails.
GivesUp(t) ==
    /\ task[t].at \in {"read", "chat", "draw", "store", "update"}
    /\ Go(t, Free)
    /\ UNCHANGED <<limiterVars, room, images, edits>>

\* A builder changes or deletes the room meanwhile.
Edit(r) ==
    /\ room[r] # Nothing /\ edits < MaxEdits
    /\ edits' = edits + 1
    /\ room' = [room EXCEPT ![r].text = edits']
    /\ UNCHANGED <<limiterVars, images, task>>

Remove(r) ==
    /\ room[r] # Nothing /\ edits < MaxEdits
    /\ edits' = edits + 1
    /\ room' = [room EXCEPT ![r] = Nothing]
    /\ UNCHANGED <<limiterVars, images, task>>

ImageNext ==
    \/ Tick /\ UNCHANGED imageVars
    \/ \E t \in Drawers :
          \/ \E a \in Accounts : Draw(t, a) \/ \E r \in Rooms : Look(t, a, r)
          \/ ReadRoom(t) \/ Chat(t) \/ Store(t) \/ SetPicture(t) \/ GivesUp(t)
          \/ \E p \in Pictures : Generate(t, p)
    \/ \E r \in Rooms : Edit(r) \/ Remove(r)

ImageSpec == ImageInit /\ [][ImageNext]_drawVars

----------------------------------------------------------------------------
\* "hash never changes": a room that shows a picture shows one that GET
\* /images serves, whichever tasks draw for it at once and whatever fails.
PicturesResolve ==
    \A r \in Rooms :
        (room[r] # Nothing /\ room[r].picture # Nothing) => images[room[r].picture] # Nothing
=============================================================================
