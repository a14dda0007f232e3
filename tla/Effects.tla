------------------------------ MODULE Effects ------------------------------
(***************************************************************************)
(* EffectRegistry (mudd/src/combat/effects.rs) for one entity: its status  *)
(* effects in memory and the rows of active_effects, which refer to the    *)
(* entity's row of combat_state (mudd/src/combat/state.rs) and go with it. *)
(*                                                                         *)
(* Memory is changed under the lock, the table by statements of their own  *)
(* outside it: before for an effect added or removed, after for a tick.    *)
(* The server does not use the registry; its callers are any.              *)
(***************************************************************************)
EXTENDS Naturals, FiniteSets, FiniteSetsExt

CONSTANTS
    Types,        \* of effects
    Users,        \* bound: calls in progress at a time
    MaxTicks,     \* bound: the duration of an effect
    MaxPower,     \* bound: the magnitude of an effect
    NoEffect      \* no effect of a type

Effect == [ticks : Nat, power : Nat]

ASSUME EffectsAssumption == NoEffect \notin Effect

VARIABLES
    effects,      \* in memory: for each type its ticks and power, or None
    active,       \* active_effects
    fighter,      \* has the entity a row in combat_state?
    use,          \* each call: where it is, and what it carries
    mixed         \* has a crossing, a crash, a save or a failure cut them apart?

effectVars == <<effects, active, fighter, use, mixed>>

NoUse == [at |-> "idle", type |-> NoEffect, ticks |-> 0, power |-> 0, todo |-> {}]

EffectTypeOK ==
    /\ effects \in [Types -> Effect \cup {NoEffect}]
    /\ active \subseteq [type : Types, ticks : Nat, power : Nat]
    /\ fighter \in BOOLEAN /\ mixed \in BOOLEAN
    /\ use \in [Users -> [at : {"idle", "add", "remove", "sync", "insert", "clear"},
                         type : Types \cup {NoEffect}, ticks : Nat, power : Nat,
                         todo : SUBSET Types]]
    /\ \A c \in Users : use[c].at \in {"add", "remove"} => use[c].type \in Types

EffectInit ==
    /\ effects = [t \in Types |-> NoEffect]
    /\ active = {}
    /\ fighter = TRUE
    /\ use = [c \in Users |-> NoUse]
    /\ mixed = FALSE

----------------------------------------------------------------------------
Present(es) == {t \in Types : es[t] # NoEffect}
Larger(m, n) == IF m > n THEN m ELSE n

\* EntityEffects.add: a second effect of a type prolongs and strengthens it.
Add(es, t, ticks, power) ==
    [es EXCEPT ![t] = IF @ = NoEffect THEN [ticks |-> ticks, power |-> power]
                      ELSE [ticks |-> Larger(@.ticks, ticks), power |-> Larger(@.power, power)]]

\* Fault: what has just expired stays.
TickAllKeeps(es) ==
    [t \in Types |-> IF es[t] = NoEffect \/ es[t].ticks = 0 THEN NoEffect
                     ELSE [es[t] EXCEPT !.ticks = @ - 1]]

\* tick_all: one tick less of each, and the expired ones removed.
TickAll(es) ==
    [t \in Types |-> IF es[t] = NoEffect \/ es[t].ticks <= 1 THEN NoEffect
                     ELSE [es[t] EXCEPT !.ticks = @ - 1]]

\* load_from_db: the rows, added one after the other.
Loaded ==
    [t \in Types |->
       LET mine == {r \in active : r.type = t} IN
       IF mine = {} THEN NoEffect
       ELSE [ticks |-> Max({r.ticks : r \in mine}), power |-> Max({r.power : r \in mine})]]

Quiet(c) == \A d \in Users \ {c} : use[d].at = "idle"

Begin(c, r) ==
    /\ use[c].at = "idle"
    /\ use' = [use EXCEPT ![c] = r]
    /\ mixed' = (mixed \/ ~Quiet(c))

\* persist_effect, for an entity that the table lets it refer to.  Two rows that
\* only differ in their id count as one: they come and go together.
Persist(t, ticks, power) ==
    active' = IF fighter THEN active \cup {[type |-> t, ticks |-> ticks, power |-> power]}
            ELSE active

----------------------------------------------------------------------------
\* add_effect inserts a row, or warns that it could not...
AddRow(c, t, ticks, power) ==
    /\ Persist(t, ticks, power)
    /\ Begin(c, [NoUse EXCEPT !.at = "add", !.type = t, !.ticks = ticks, !.power = power])
    /\ UNCHANGED <<effects, fighter>>

\* ... and adds the effect either way.
AddEffect(c) ==
    LET me == use[c] IN
    /\ me.at = "add"
    /\ effects' = Add(effects, me.type, me.ticks, me.power)
    /\ use' = [use EXCEPT ![c] = NoUse]
    /\ mixed' = (mixed \/ ~fighter)
    /\ UNCHANGED <<active, fighter>>

\* remove_effect: the rows of the type, then the effect.
RemoveRows(c, t) ==
    /\ Begin(c, [NoUse EXCEPT !.at = "remove", !.type = t])
    /\ active' = {r \in active : r.type # t}
    /\ UNCHANGED <<effects, fighter>>

RemoveEffect(c) ==
    /\ use[c].at = "remove"
    /\ effects' = [effects EXCEPT ![use[c].type] = NoEffect]
    /\ use' = [use EXCEPT ![c] = NoUse]
    /\ UNCHANGED <<active, fighter, mixed>>

\* tick: first the memory...
Tick(c) ==
    /\ effects' = TickAll(effects)
    /\ Begin(c, [NoUse EXCEPT !.at = "sync"])
    /\ UNCHANGED <<active, fighter>>

\* ... then sync_effects_to_db: every row goes...
SyncDelete(c) ==
    /\ use[c].at = "sync"
    /\ active' = {}
    /\ use' = [use EXCEPT ![c].at = "insert", ![c].todo = Present(effects)]
    /\ UNCHANGED <<effects, fighter, mixed>>

\* ... and what is still active is inserted, one row after the other.
SyncInsert(c, t) ==
    /\ use[c].at = "insert" /\ t \in use[c].todo
    /\ IF effects[t] = NoEffect \/ effects[t].ticks = 0
       THEN UNCHANGED active
       ELSE Persist(t, effects[t].ticks, effects[t].power)
    /\ use' = [use EXCEPT ![c].todo = @ \ {t}]
    /\ UNCHANGED <<effects, fighter, mixed>>

SyncDone(c) ==
    /\ use[c].at = "insert" /\ use[c].todo = {}
    /\ use' = [use EXCEPT ![c] = NoUse]
    /\ UNCHANGED <<effects, active, fighter, mixed>>

\* clear
ClearRows(c) ==
    /\ Begin(c, [NoUse EXCEPT !.at = "clear"])
    /\ active' = {}
    /\ UNCHANGED <<effects, fighter>>

ClearEffects(c) ==
    /\ use[c].at = "clear"
    /\ effects' = [t \in Types |-> NoEffect]
    /\ use' = [use EXCEPT ![c] = NoUse]
    /\ UNCHANGED <<active, fighter, mixed>>

\* A statement of the call fails: only its memory half is done, if that comes last.
SyncFails(c) ==
    /\ use[c].at \in {"sync", "insert"}
    /\ mixed' = TRUE
    /\ use' = [use EXCEPT ![c] = NoUse]
    /\ UNCHANGED <<effects, active, fighter>>

----------------------------------------------------------------------------
\* CombatManager saves the entity with INSERT OR REPLACE: the row that is
\* replaced takes the effects' rows with it.
CombatSave ==
    /\ active' = {}
    /\ fighter' = TRUE
    /\ mixed' = (mixed \/ active # {} \/ \E c \in Users : use[c].at # "idle")
    /\ UNCHANGED <<effects, use>>

\* The entity leaves combat for good.
CombatRemove ==
    /\ fighter
    /\ active' = {}
    /\ fighter' = FALSE
    /\ mixed' = (mixed \/ active # {} \/ \E c \in Users : use[c].at # "idle")
    /\ UNCHANGED <<effects, use>>

\* A new process, which loads the table.
Restart ==
    /\ effects' = Loaded
    /\ use' = [c \in Users |-> NoUse]
    /\ mixed' = FALSE
    /\ UNCHANGED <<active, fighter>>

EffectNext ==
    \/ \E c \in Users :
          \/ \E t \in Types, ticks \in 0..MaxTicks, power \in 1..MaxPower : AddRow(c, t, ticks, power)
          \/ \E t \in Types : RemoveRows(c, t) \/ SyncInsert(c, t)
          \/ AddEffect(c) \/ RemoveEffect(c)
          \/ Tick(c) \/ SyncDelete(c) \/ SyncDone(c)
          \/ ClearRows(c) \/ ClearEffects(c) \/ SyncFails(c)
    \/ CombatSave \/ CombatRemove \/ Restart

EffectSpec == EffectInit /\ [][EffectNext]_effectVars

----------------------------------------------------------------------------
\* "Load effects from database on startup": a restart between two calls gives
\* back the effects as they were, stacked and ticked as they may be, unless
\* calls have crossed, a write failed, or combat saved the entity meanwhile.
RestartKeepsEffects ==
    (~mixed /\ \A c \in Users : use[c].at = "idle") => Loaded = effects
=============================================================================
