------------------------------ MODULE Objects ------------------------------
(***************************************************************************)
(* ObjectStore (mudd/src/objects/store.rs) and those who change objects    *)
(* through it: the functions of the game table in Lua                      *)
(* (mudd/src/lua/game_api.rs) and the builders' create command             *)
(* (mudd/src/api/websocket.rs), each call running on its own.              *)
(*                                                                         *)
(* One statement creates, moves or deletes a row.  A change of a property  *)
(* and a copy read the whole row first and write a whole row later.        *)
(***************************************************************************)
EXTENDS Naturals

CONSTANTS
    Ids,          \* paths of objects
    Keys,         \* properties; the exits of a room are some of them
    Calls,        \* bound: calls in progress at a time
    MaxChanges,   \* bound: changes made, which number the values of properties
    NoObject      \* no object, no parent

Object == [parent : Ids \cup {NoObject}, props : [Keys -> 0..MaxChanges]]

ASSUME ObjectsAssumption == MaxChanges \in Nat /\ NoObject \notin Ids \cup Object

VARIABLES
    rows,         \* the table objects: the parent and the properties, 0 for none
    call,         \* each call: what it has read and is about to write
    changes,      \* how many changes have been made
    promised,     \* the objects as the calls that succeeded would have them
    overlapped    \* objects of which a write has covered a change it did not see

objectVars == <<rows, call, changes, promised, overlapped>>

ObjectTypeOK ==
    /\ rows \in [Ids -> Object \cup {NoObject}]
    /\ promised \in [Ids -> Object \cup {NoObject}]
    /\ overlapped \subseteq Ids
    /\ changes \in 0..MaxChanges
    /\ \A c \in Calls :
          /\ call[c].at \in {"idle", "update", "clone"}
          /\ call[c].at # "idle" => call[c].id \in Ids /\ call[c].row \in Object
          /\ call[c].at = "update" => call[c].to \in [key : Keys, value : 0..MaxChanges]

NoCall == [at |-> "idle", id |-> NoObject, row |-> NoObject, to |-> NoObject]

ObjectInit ==
    /\ rows = [i \in Ids |-> NoObject]
    /\ call = [c \in Calls |-> NoCall]
    /\ changes = 0
    /\ promised = rows
    /\ overlapped = {}

----------------------------------------------------------------------------
Exists(i) == rows[i] # NoObject

\* parent_id REFERENCES objects(id): NULL, the row itself or another.
Admits(i, p) == p \notin {NoObject, i} => Exists(p)

\* get_contents
Contents(p) == {i \in Ids : Exists(i) /\ rows[i].parent = p}

Numbered == changes < MaxChanges /\ changes' = changes + 1

Return(c) == call' = [call EXCEPT ![c] = NoCall]

Insert(i, row) ==
    /\ ~Exists(i) /\ Admits(i, row.parent)
    /\ rows' = [rows EXCEPT ![i] = row]
    /\ promised' = [promised EXCEPT ![i] = row]
    /\ overlapped' = overlapped \ {i}

\* The properties of a new object: those that came with the call.
Given(given) == [k \in Keys |-> IF k \in given THEN changes' ELSE 0]

\* game.create_object
Create(i, p, given) ==
    /\ Numbered
    /\ Insert(i, [parent |-> p, props |-> Given(given)])
    /\ UNCHANGED call

\* The create command does not go without a name.
CreateCommand(i, p, given) == "name" \in given /\ Create(i, p, given)

\* A path that is not valid, a builder without access to it, an id or a parent
\* the table does not admit, a write that fails: the call returns an error.
CallFails(c) ==
    /\ Return(c)
    /\ UNCHANGED <<rows, changes, promised, overlapped>>

----------------------------------------------------------------------------
\* update_object and set_exit read the row, then put a value of their own into
\* the copy; remove_exit takes one out.
UpdateObjectRead(c, i, k, drop) ==
    /\ call[c].at = "idle" /\ Exists(i)
    /\ Numbered
    /\ LET value == IF drop THEN 0 ELSE changes' IN
       call' = [call EXCEPT ![c] =
                  [at |-> "update", id |-> i, row |-> rows[i], to |-> [key |-> k, value |-> value]]]
    /\ UNCHANGED <<rows, promised, overlapped>>

Merged(row, change) == [row EXCEPT !.props[change.key] = change.value]

Overlaps(c) == Exists(call[c].id) /\ rows[call[c].id] # call[c].row

\* Fault: the statement inserts the row if it is not there.
UpdateObjectWriteUpsert(c) ==
    LET me == call[c] IN
    /\ me.at = "update" /\ Admits(me.id, me.row.parent)
    /\ rows' = [rows EXCEPT ![me.id] = Merged(me.row, me.to)]
    /\ promised' = IF promised[me.id] = NoObject THEN promised
                   ELSE [promised EXCEPT ![me.id] = Merged(@, me.to)]
    /\ overlapped' = IF Overlaps(c) THEN overlapped \cup {me.id} ELSE overlapped
    /\ Return(c)
    /\ UNCHANGED changes

\* update writes the copy, parent and all, WHERE id: nothing if it is gone.
UpdateObjectWrite(c) ==
    LET me == call[c] IN
    /\ me.at = "update" /\ Admits(me.id, me.row.parent)
    /\ rows' = IF Exists(me.id) THEN [rows EXCEPT ![me.id] = Merged(me.row, me.to)] ELSE rows
    /\ promised' = IF promised[me.id] = NoObject THEN promised
                   ELSE [promised EXCEPT ![me.id] = Merged(@, me.to)]
    /\ overlapped' = IF Overlaps(c) THEN overlapped \cup {me.id} ELSE overlapped
    /\ Return(c)
    /\ UNCHANGED changes

\* clone_object reads the original...
CloneRead(c, i, copy, p) ==
    /\ call[c].at = "idle" /\ Exists(i)
    /\ Numbered
    /\ call' = [call EXCEPT ![c] =
                  [at |-> "clone", id |-> copy, row |-> [rows[i] EXCEPT !.parent = p], to |-> NoObject]]
    /\ UNCHANGED <<rows, promised, overlapped>>

\* ... and creates another of its properties.
CloneWrite(c) ==
    /\ call[c].at = "clone"
    /\ Insert(call[c].id, call[c].row)
    /\ Return(c)
    /\ UNCHANGED changes

----------------------------------------------------------------------------
\* move_object: one column.
Move(i, p) ==
    /\ Exists(i) /\ Admits(i, p) /\ Numbered
    /\ rows' = [rows EXCEPT ![i].parent = p]
    /\ promised' = [promised EXCEPT ![i].parent = p]
    /\ UNCHANGED <<call, overlapped>>

\* delete_object, which the table refuses for an object with others in it.
Delete(i) ==
    /\ Exists(i) /\ Contents(i) \subseteq {i}
    /\ rows' = [rows EXCEPT ![i] = NoObject]
    /\ promised' = [promised EXCEPT ![i] = NoObject]
    /\ UNCHANGED <<call, changes, overlapped>>

ObjectNext ==
    \/ \E i \in Ids, p \in Ids \cup {NoObject} :
          \/ \E given \in SUBSET Keys : Create(i, p, given) \/ CreateCommand(i, p, given)
          \/ Move(i, p)
    \/ \E i \in Ids : Delete(i)
    \/ \E c \in Calls, i \in Ids :
          \/ \E k \in Keys, drop \in BOOLEAN : UpdateObjectRead(c, i, k, drop)
          \/ \E copy \in Ids, p \in Ids \cup {NoObject} : CloneRead(c, i, copy, p)
    \/ \E c \in Calls : UpdateObjectWrite(c) \/ CloneWrite(c) \/ CallFails(c)

ObjectSpec == ObjectInit /\ [][ObjectNext]_objectVars

----------------------------------------------------------------------------
\* A call that succeeded is undone only by a change of a property that had
\* read the row before it: a move, a deletion, a creation and a change stay
\* whatever else is in progress, and what was deleted does not come back.
OnlyOverlapsLose == \A i \in Ids \ overlapped : rows[i] = promised[i]
=============================================================================
