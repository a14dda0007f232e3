------------------------------- MODULE Combat -------------------------------
(***************************************************************************)
(* Players who fight NPCs with the attack command: its branch of           *)
(* execute_command (mudd/src/api/websocket.rs) and the CombatManager       *)
(* behind it (mudd/src/combat/state.rs).                                   *)
(*                                                                         *)
(* The command is a dozen awaits long and holds no lock from one to the    *)
(* next: each look at, or change of, the map of states, the combat_state   *)
(* table or the room is a step of its own.  Only NPCs can be attacked and  *)
(* NPCs do not attack, so attackers is a variable of NPCs and attacking    *)
(* one of players; in_combat says whether there is one or the other.       *)
(***************************************************************************)
EXTENDS Integers

CONSTANTS
    Players,      \* bound: those who fight, with one connection each
    Npcs,
    MaxHp,        \* an NPC's max_hp property
    StartHp,      \* its hp property
    DefaultHp,    \* the 100 of initiate, for an entity that has no state
    Damages,      \* what a hit does: plain or critical
    MaxCrashes,   \* bound: restarts
    None          \* no state, no row, no target

ASSUME CombatAssumption ==
    /\ {MaxHp, StartHp, DefaultHp} \cup Damages \subseteq Nat \ {0}
    /\ StartHp <= MaxHp
    /\ MaxCrashes \in Nat
    /\ None \notin Npcs \cup Int

VARIABLES
    hp, attackers, kept,   \* states[npc]; kept: has it a universe_id?
    attacking,             \* states[player].attacking
    row,                   \* combat_state.hp
    here,                  \* is the NPC in the room?
    pc, target, seen,      \* each player's next step, target, and copy of its state
    contested,             \* the NPCs two commands have been at work on at once
    crashes

states == <<hp, attackers, kept>>
tables == <<row, here>>
vars == <<states, attacking, tables, pc, target, seen, contested, crashes>>

Hp == Int \cup {None}
State(n) == [hp |-> hp[n], by |-> attackers[n], kept |-> kept[n]]
NoState == [hp |-> None, by |-> {}, kept |-> FALSE]

TypeOK ==
    /\ hp \in [Npcs -> Hp] /\ row \in [Npcs -> Hp]
    /\ attackers \in [Npcs -> SUBSET Players]
    /\ kept \in [Npcs -> BOOLEAN]
    /\ \A n \in Npcs : hp[n] = None => State(n) = NoState
    /\ \A n \in Npcs : kept[n] => hp[n] <= MaxHp
    /\ attacking \in [Players -> Npcs \cup {None}]
    /\ here \in [Npcs -> BOOLEAN]
    /\ pc \in [Players -> {"idle", "look", "persist", "insert", "copy", "set", "initiate",
                           "attack", "read", "save", "dead", "end", "remove", "delete",
                           "forget", "carry"}]
    /\ target \in [Players -> Npcs \cup {None}]
    /\ \A p \in Players : (pc[p] = "idle") = (target[p] = None)
    /\ seen \in [Players -> [hp : Hp, by : SUBSET Players, kept : BOOLEAN]]
    /\ contested \subseteq Npcs
    /\ crashes \in 0..MaxCrashes

Init ==
    /\ hp = [n \in Npcs |-> None] /\ row = [n \in Npcs |-> None]
    /\ attackers = [n \in Npcs |-> {}]
    /\ kept = [n \in Npcs |-> FALSE]
    /\ here = [n \in Npcs |-> TRUE]
    /\ attacking = [p \in Players |-> None]
    /\ pc = [p \in Players |-> "idle"]
    /\ target = [p \in Players |-> None]
    /\ seen = [p \in Players |-> NoState]
    /\ contested = {} /\ crashes = 0

----------------------------------------------------------------------------
\* The next step of a player's command.
Goto(p, step) == pc' = [pc EXCEPT ![p] = step]

Return(p) ==
    /\ Goto(p, "idle")
    /\ target' = [target EXCEPT ![p] = None]
    /\ seen' = [seen EXCEPT ![p] = NoState]

SetState(n, s) ==
    /\ hp' = [hp EXCEPT ![n] = s.hp]
    /\ attackers' = [attackers EXCEPT ![n] = s.by]
    /\ kept' = [kept EXCEPT ![n] = s.kept]

\* The target is among the contents of the player's room.
Find(p, n) ==
    /\ pc[p] = "idle" /\ here[n]
    /\ target' = [target EXCEPT ![p] = n]
    /\ contested' = IF \E q \in Players : target[q] = n THEN contested \cup {n} ELSE contested
    /\ Goto(p, "look")
    /\ UNCHANGED <<states, attacking, tables, seen, crashes>>

\* Fault: the state of an NPC in a fight is made anew.
LookNot(p) ==
    /\ pc[p] = "look"
    /\ Goto(p, "persist")
    /\ UNCHANGED <<states, attacking, tables, target, seen, contested, crashes>>

\* get_state(&target_id).is_none()
Look(p) ==
    /\ pc[p] = "look"
    /\ Goto(p, IF hp[target[p]] = None THEN "persist" ELSE "initiate")
    /\ UNCHANGED <<states, attacking, tables, target, seen, contested, crashes>>

\* init_entity_with_universe: INSERT OR REPLACE of a state with full hp,
Persist(p) ==
    /\ pc[p] = "persist"
    /\ row' = [row EXCEPT ![target[p]] = MaxHp]
    /\ Goto(p, "insert")
    /\ UNCHANGED <<states, attacking, here, target, seen, contested, crashes>>

\* then the insert into the map, whatever it holds by now.
Insert(p) ==
    /\ pc[p] = "insert"
    /\ SetState(target[p], [hp |-> MaxHp, by |-> {}, kept |-> TRUE])
    /\ Goto(p, "copy")
    /\ UNCHANGED <<attacking, tables, target, seen, contested, crashes>>

\* The state is copied, to be given the hp property ...
Copy(p) ==
    /\ pc[p] = "copy"
    /\ IF hp[target[p]] = None
       THEN Goto(p, "initiate") /\ seen' = seen
       ELSE Goto(p, "set") /\ seen' = [seen EXCEPT ![p] = State(target[p])]
    /\ UNCHANGED <<states, attacking, tables, target, contested, crashes>>

\* ... and put back in the map, but not in the table.
Set(p) ==
    /\ pc[p] = "set"
    /\ SetState(target[p], [seen[p] EXCEPT !.hp = StartHp])
    /\ seen' = [seen EXCEPT ![p] = NoState]
    /\ Goto(p, "initiate")
    /\ UNCHANGED <<attacking, tables, target, contested, crashes>>

\* initiate: the two states are linked; the player's former target keeps the
\* player among its attackers.
Initiate(p) ==
    LET n == target[p] IN
    /\ pc[p] = "initiate"
    /\ IF hp[n] = None
       THEN SetState(n, [hp |-> DefaultHp, by |-> {p}, kept |-> FALSE])
       ELSE SetState(n, [State(n) EXCEPT !.by = @ \cup {p}])
    /\ attacking' = [attacking EXCEPT ![p] = n]
    /\ Goto(p, "attack")
    /\ UNCHANGED <<tables, target, seen, contested, crashes>>

\* attack: no such defender, or the roll misses ...
Miss(p) ==
    /\ pc[p] = "attack"
    /\ Return(p)
    /\ UNCHANGED <<states, attacking, tables, contested, crashes>>

\* ... or it hits, and the damage is taken under the lock.
Hit(p, d) ==
    LET n == target[p] IN
    /\ pc[p] = "attack" /\ hp[n] # None
    /\ hp' = [hp EXCEPT ![n] = @ - d]
    /\ Goto(p, "read")
    /\ UNCHANGED <<attackers, kept, attacking, tables, target, seen, contested, crashes>>

\* "Persist HP change": the state is copied first,
Read(p) ==
    /\ pc[p] = "read"
    /\ IF hp[target[p]] = None
       THEN Goto(p, "dead") /\ seen' = seen
       ELSE Goto(p, "save") /\ seen' = [seen EXCEPT ![p] = State(target[p])]
    /\ UNCHANGED <<states, attacking, tables, target, contested, crashes>>

\* Fault: a state that has a row is not written again.
SaveOnce(p) ==
    LET n == target[p] IN
    /\ pc[p] = "save"
    /\ row' = [row EXCEPT ![n] = IF seen[p].kept /\ @ = None THEN seen[p].hp ELSE @]
    /\ seen' = [seen EXCEPT ![p] = NoState]
    /\ Goto(p, "dead")
    /\ UNCHANGED <<states, attacking, here, target, contested, crashes>>

\* then written; a state without a universe never is.
Save(p) ==
    LET n == target[p] IN
    /\ pc[p] = "save"
    /\ row' = [row EXCEPT ![n] = IF seen[p].kept THEN seen[p].hp ELSE @]
    /\ seen' = [seen EXCEPT ![p] = NoState]
    /\ Goto(p, "dead")
    /\ UNCHANGED <<states, attacking, here, target, contested, crashes>>

Dead(n) == hp[n] # None /\ hp[n] <= 0

\* Fault: zero hp is alive.
IsDeadBelow(p) ==
    /\ pc[p] = "dead"
    /\ IF Dead(target[p]) /\ hp[target[p]] < 0
       THEN Goto(p, "end") /\ UNCHANGED <<target, seen>>
       ELSE Return(p)
    /\ UNCHANGED <<states, attacking, tables, contested, crashes>>

\* is_dead
IsDead(p) ==
    /\ pc[p] = "dead"
    /\ IF Dead(target[p])
       THEN Goto(p, "end") /\ UNCHANGED <<target, seen>>
       ELSE Return(p)
    /\ UNCHANGED <<states, attacking, tables, contested, crashes>>

\* end_combat(player_id)
EndPlayer(p) ==
    /\ pc[p] = "end"
    /\ attackers' = [n \in Npcs |-> IF attacking[p] = n THEN attackers[n] \ {p} ELSE attackers[n]]
    /\ attacking' = [attacking EXCEPT ![p] = None]
    /\ Goto(p, "remove")
    /\ UNCHANGED <<hp, kept, tables, target, seen, contested, crashes>>

\* remove_entity(&target_id) starts with end_combat: those who attack it stop.
EndTarget(p) ==
    LET n == target[p] IN
    /\ pc[p] = "remove"
    /\ attacking' = [q \in Players |->
                        IF q \in attackers[n] /\ attacking[q] = n THEN None ELSE attacking[q]]
    /\ attackers' = [attackers EXCEPT ![n] = {}]
    /\ Goto(p, "delete")
    /\ UNCHANGED <<hp, kept, tables, target, seen, contested, crashes>>

\* Fault: the row is left.
DeleteNot(p) ==
    /\ pc[p] = "delete"
    /\ Goto(p, "forget")
    /\ UNCHANGED <<states, attacking, tables, target, seen, contested, crashes>>

Delete(p) ==
    /\ pc[p] = "delete"
    /\ row' = [row EXCEPT ![target[p]] = None]
    /\ Goto(p, "forget")
    /\ UNCHANGED <<states, attacking, here, target, seen, contested, crashes>>

Forget(p) ==
    /\ pc[p] = "forget"
    /\ SetState(target[p], NoState)
    /\ Goto(p, "carry")
    /\ UNCHANGED <<attacking, tables, target, seen, contested, crashes>>

\* The NPC's parent_id becomes NULL.
CarryOut(p) ==
    /\ pc[p] = "carry"
    /\ here' = [here EXCEPT ![target[p]] = FALSE]
    /\ Return(p)
    /\ UNCHANGED <<states, attacking, row, contested, crashes>>

\* The server restarts, and load_from_db reads what rows there are.
Crash ==
    /\ crashes < MaxCrashes
    /\ crashes' = crashes + 1
    /\ hp' = row
    /\ kept' = [n \in Npcs |-> row[n] # None]
    /\ attackers' = [n \in Npcs |-> {}]
    /\ attacking' = [p \in Players |-> None]
    /\ pc' = [p \in Players |-> "idle"]
    /\ target' = [p \in Players |-> None]
    /\ seen' = [p \in Players |-> NoState]
    /\ UNCHANGED <<tables, contested>>

Step(p) ==
    \/ Look(p) \/ Persist(p) \/ Insert(p) \/ Copy(p) \/ Set(p) \/ Initiate(p)
    \/ Miss(p) \/ (\E d \in Damages : Hit(p, d)) \/ Read(p) \/ Save(p)
    \/ IsDead(p) \/ EndPlayer(p) \/ EndTarget(p) \/ Delete(p) \/ Forget(p) \/ CarryOut(p)

Next ==
    \/ \E p \in Players : Step(p) \/ \E n \in Npcs : Find(p, n)
    \/ Crash

Spec == Init /\ [][Next]_vars

\* A command that has begun runs to its end.
FairSpec == Spec /\ \A p \in Players : WF_vars(Step(p))

----------------------------------------------------------------------------
\* No command has this NPC for its target, and no two ever had it at once.
Quiet(n) == n \notin contested /\ \A p \in Players : target[p] # n

\* design.md "combat_state: HP per entity": as long as commands on an NPC do
\* not overlap, a restart between them gives it the hp it has.
HpSaved == \A n \in Npcs : Quiet(n) /\ kept[n] => row[n] = hp[n]

\* design.md "Update HP, check death": what one player did to an NPC no other
\* undoes; fights on other NPCs, and restarts, go on meanwhile.
HpNeverRises ==
    [][crashes' = crashes =>
        \A n \in Npcs \ contested' :
            hp[n] # None /\ hp'[n] # None => hp'[n] <= hp[n]]_vars

\* state.rs "Remove entity from combat system": an NPC that was slain and
\* carried out leaves neither a state nor a row, restarts included.
SlainLeaveNothing ==
    \A n \in Npcs : Quiet(n) /\ ~here[n] => hp[n] = None /\ row[n] = None

\* Whoever a player attacks knows it, so that its death ends the fight of all
\* who came to it, one after the other.
TargetsKnow ==
    \A p \in Players : \A n \in Npcs \ contested :
        attacking[p] = n => p \in attackers[n]

\* An NPC without hp is removed, whoever struck last and whoever looked first,
\* unless the server stops in between.
DeadAreRemoved == \A n \in Npcs : Dead(n) ~> (~Dead(n) \/ crashes > 0)
=============================================================================
