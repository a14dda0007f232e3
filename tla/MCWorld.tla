------------------------------ MODULE MCWorld ------------------------------
(***************************************************************************)
(* What a universe is made of, checked in one run: its libraries           *)
(* (Universes), its objects, its classes, and the status effects of a      *)
(* fighter, each while the others stay in their initial state.             *)
(***************************************************************************)
EXTENDS Universes, Objects, Effects, TLC

CONSTANTS Custom, InPlay, NoUniverse, MaxDefines, MaxRestarts   \* of Classes

VARIABLES
    part,    \* chosen once and for all
    classes, table, universes, batches, defined, defines, restarts

Cls == INSTANCE Classes

ASSUME ClassesAssumption == InPlay \subseteq Cls!Names

classVars == <<classes, table, universes, batches, defined, defines, restarts>>
mcVars == <<vars, objectVars, classVars, effectVars, part>>

MCInit ==
    /\ part \in {"universes", "objects", "classes", "effects"}
    /\ Init /\ ObjectInit /\ Cls!Init /\ EffectInit

MCNext ==
    \/ part = "universes" /\ Next /\ UNCHANGED <<objectVars, classVars, effectVars, part>>
    \/ part = "objects" /\ ObjectNext /\ UNCHANGED <<vars, classVars, effectVars, part>>
    \/ part = "classes" /\ Cls!Next /\ UNCHANGED <<vars, objectVars, effectVars, part>>
    \/ part = "effects" /\ EffectNext /\ UNCHANGED <<vars, objectVars, classVars, part>>

MCSpec == MCInit /\ [][MCNext]_mcVars

\* No definition tells one library, or one source, from another.
Symmetry == Permutations(Libs) \cup Permutations(Sources)

----------------------------------------------------------------------------
\* "child overrides parent": however classes are redefined under and over each
\* other, a class has of every property the value of the nearest class that
\* sets it, and no property that none of them sets.
InheritsNearest == Cls!InheritsNearest
=============================================================================
