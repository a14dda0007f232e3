------------------------------ MODULE Classes ------------------------------
(***************************************************************************)
(* ClassRegistry (mudd/src/objects/class.rs) and its functions in Lua      *)
(* (mudd/src/lua/game_api.rs): the classes in memory, how a class inherits *)
(* from its ancestors, and the batch by which a definition is persisted.   *)
(***************************************************************************)
EXTENDS Naturals, Sequences, FiniteSets, SequencesExt

CONSTANTS
    Custom,         \* names that programs give to classes of their own
    InPlay,         \* bound: the classes they define and derive from
    Keys,           \* properties
    Universes,      \* ids of universes: what validate_universe_id lets through
    NoUniverse,     \* the empty id, which is none of Universes
    MaxDefines,     \* bound: definitions
    MaxRestarts,    \* bound: restarts
    None            \* no such class, no parent

VARIABLES
    classes,        \* the registry: each name's parent and properties
    table,          \* the tables of classes: as in the registry
    universes,      \* the table of universes
    batches,        \* definitions that a spawned task has yet to persist
    defined,        \* what programs have defined, as far as no crash cut it short
    defines, restarts

vars == <<classes, table, universes, batches, defined, defines, restarts>>

\* register_base_classes: parents; what they set, thing stands for.
Parent ==
    [thing |-> None, item |-> "thing", living |-> "thing", room |-> "thing",
     region |-> "thing", weapon |-> "item", armor |-> "item",
     container |-> "item", player |-> "living", npc |-> "living"]

Base == DOMAIN Parent
Names == Base \cup Custom

NoProps == [k \in {} |-> 0]

BaseClasses ==
    [n \in Names |->
       IF n \in Custom THEN None
       ELSE [parent |-> Parent[n],
             props |-> IF n = "thing" THEN [k \in Keys |-> 0] ELSE NoProps]]

Init ==
    /\ classes = BaseClasses
    /\ table = [n \in Names |-> None]
    /\ universes = {}
    /\ batches = {}
    /\ defined = [n \in Names |-> None]
    /\ defines = 0 /\ restarts = 0

----------------------------------------------------------------------------
Known(n) == n # None /\ classes[n] # None

Registered == {n \in Names : Known(n)}

\* A round of get_chain's loop: it goes on to the parent of the class it came
\* to, if that is known, but here not to one where it has been.
Onward(n, chain) ==
    LET next == IF chain = <<>> THEN n ELSE classes[Last(chain)].parent IN
    IF Known(next) /\ next \notin ToSet(chain) THEN Append(chain, next) ELSE chain

\* get_chain: the class and its ancestors, up to one that is not known.  As many
\* rounds as there are classes are enough.
Chain(n) ==
    LET rounds == Cardinality(Registered)
        climb[i \in 0..rounds] == IF i = 0 THEN <<>> ELSE Onward(n, climb[i - 1])
    IN climb[rounds]

\* On a class below itself get_chain does not return.
Ends(n) ==
    LET chain == Chain(n) IN
    chain = <<>> \/ LET top == classes[Last(chain)].parent IN
                    top = None \/ top \notin ToSet(chain)

IsA(n, ancestor) == ancestor \in ToSet(Chain(n))

Override(props, more) ==
    [k \in DOMAIN props \cup DOMAIN more |-> IF k \in DOMAIN more THEN more[k] ELSE props[k]]

\* Fault: without rev(), the root overrides its descendants.
GatherForward(chain) ==
    LET gather[i \in 0..Len(chain)] ==
          IF i = 0 THEN NoProps ELSE Override(gather[i - 1], classes[chain[i]].props)
    IN gather[Len(chain)]

\* From the root of a chain downwards, each class overrides what it finds.
Gather(chain) ==
    LET gather[i \in 0..Len(chain)] ==
          IF i = 0 THEN NoProps
          ELSE Override(gather[i - 1], classes[chain[Len(chain) + 1 - i]].props)
    IN gather[Len(chain)]

\* resolve_properties
Resolve(n) == Gather(Chain(n))

----------------------------------------------------------------------------
\* game.define_class: any name, any parent, known or not, and any properties.
\* The batch is persisted by a task of its own.
Define(n, parent, keys) ==
    LET def == [parent |-> parent, props |-> [k \in keys |-> defines']] IN
    /\ defines < MaxDefines
    /\ defines' = defines + 1
    /\ classes' = [classes EXCEPT ![n] = def]
    /\ batches' = batches \cup {[name |-> n, def |-> def]}
    /\ defined' = [defined EXCEPT ![n] = def]
    /\ UNCHANGED <<table, universes, restarts>>

\* The row's references: its universe, which is written as '', and its parent.
Admitted(b) ==
    /\ NoUniverse \in universes
    /\ b.def.parent # None => table[b.def.parent] # None

\* execute_batch stops at the first statement that fails, which is the row of
\* the class; it is only logged.
Persist(b) ==
    /\ b \in batches
    /\ batches' = batches \ {b}
    /\ table' = IF Admitted(b) THEN [table EXCEPT ![b.name] = b.def] ELSE table
    /\ UNCHANGED <<classes, universes, defined, defines, restarts>>

CreateUniverse(u) ==
    /\ u \notin universes
    /\ universes' = universes \cup {u}
    /\ UNCHANGED <<classes, table, batches, defined, defines, restarts>>

\* with_db and load_from_db: the base classes, and the rows of no base class.
Restart ==
    /\ restarts < MaxRestarts
    /\ restarts' = restarts + 1
    /\ classes' = [n \in Names |-> IF n \in Base THEN BaseClasses[n] ELSE table[n]]
    /\ batches' = {}
    /\ defined' = [n \in Names |-> IF \E b \in batches : b.name = n THEN None ELSE defined[n]]
    /\ UNCHANGED <<table, universes, defines>>

Next ==
    \/ \E n \in InPlay, p \in InPlay \cup {None}, keys \in SUBSET Keys : Define(n, p, keys)
    \/ \E b \in batches : Persist(b)
    \/ \E u \in Universes : CreateUniverse(u)
    \/ Restart

Spec == Init /\ [][Next]_vars

----------------------------------------------------------------------------
\* Is m the nearest of the classes of a chain that sets k?
Nearest(chain, k, m) ==
    /\ m \in ToSet(chain) /\ k \in DOMAIN classes[m].props
    /\ \A other \in ToSet(chain) : k \in DOMAIN classes[other].props => IsA(m, other)

\* "child overrides parent": however classes are redefined under and over each
\* other, a class has of every property the value of the nearest class that
\* sets it, and no property that none of them sets.
InheritsNearest ==
    \A n \in {m \in Registered : Ends(m)} :
        LET chain == Chain(n)
            props == Resolve(n)
        IN
        /\ \A k \in DOMAIN props : \E m \in ToSet(chain) :
              Nearest(chain, k, m) /\ props[k] = classes[m].props[k]
        /\ \A m \in ToSet(chain) : DOMAIN classes[m].props \subseteq DOMAIN props

\* design.md "Server restart preserves all game state": a class that a program
\* has defined is still there once the server has had the time to persist it.
ClassesSurvive ==
    batches = {} => \A n \in Custom : defined[n] # None => classes[n] = defined[n]
=============================================================================
