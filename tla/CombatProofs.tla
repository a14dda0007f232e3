---------------------------- MODULE CombatProofs ----------------------------
(***************************************************************************)
(* Proofs about Combat, for any number of players and NPCs, any damage and *)
(* any number of restarts; and about Delivery, for any players, rooms and  *)
(* channels.                                                               *)
(***************************************************************************)
EXTENDS MCCombat, SequenceTheorems, TLAPS

USE CombatAssumption

\* The map and the tables: what has a universe has hp, and what has a row no
\* more than full hp.
Shared ==
    /\ hp \in [Npcs -> Hp] /\ row \in [Npcs -> Hp]
    /\ attackers \in [Npcs -> SUBSET Players] /\ kept \in [Npcs -> BOOLEAN]
    /\ \A n \in Npcs : hp[n] = None => attackers[n] = {} /\ ~kept[n]
    /\ \A n \in Npcs : kept[n] => hp[n] \in Int /\ hp[n] <= MaxHp
    /\ \A n \in Npcs : row[n] # None => row[n] \in Int /\ row[n] <= MaxHp
    /\ attacking \in [Players -> Npcs \cup {None}]
    /\ here \in [Npcs -> BOOLEAN]

\* The commands: a copy of a state is bounded as the state was.
Steps == {"idle", "look", "persist", "insert", "copy", "set", "initiate", "attack", "read",
          "save", "dead", "end", "remove", "delete", "forget", "carry"}
Commands ==
    /\ pc \in [Players -> Steps]
    /\ target \in [Players -> Npcs \cup {None}]
    /\ \A p \in Players : pc[p] = "idle" <=> target[p] = None
    /\ seen \in [Players -> [hp : Hp, by : SUBSET Players, kept : BOOLEAN]]
    /\ \A p \in Players : seen[p].kept => seen[p].hp \in Int /\ seen[p].hp <= MaxHp
    /\ contested \subseteq Npcs
    /\ crashes \in 0..MaxCrashes

Types == Shared /\ Commands

LEMMA TypesGiveTypeOK == Types => TypeOK
  BY DEF Types, Shared, Commands, Steps, TypeOK, State, NoState

LEMMA TypesInit == Init => Types
  BY DEF Init, Types, Shared, Commands, Steps, Hp, NoState

\* A state that is copied is bounded.
LEMMA StateType ==
  ASSUME Shared, NEW n \in Npcs
  PROVE  /\ State(n) \in [hp : Hp, by : SUBSET Players, kept : BOOLEAN]
         /\ State(n).kept => State(n).hp \in Int /\ State(n).hp <= MaxHp
BY DEF Shared, State

LEMMA NoStateType ==
  NoState \in [hp : Hp, by : SUBSET Players, kept : BOOLEAN] /\ ~NoState.kept
BY DEF NoState, Hp

LEMMA SharedStep ==
  ASSUME Types, NEW p \in Players, Step(p)
  PROVE  Shared'
<1> DEFINE n == target[p]
<1> USE DEF Types, Shared, Hp, states, tables
<1>0. pc[p] # "idle" => n \in Npcs
  BY DEF Commands
<1>a. MaxHp \in Int /\ DefaultHp \in Int /\ MaxHp # None /\ DefaultHp # None
  OBVIOUS
<1>1. CASE Look(p)  BY <1>0, <1>1 DEF Look
<1>2. CASE Persist(p)  BY <1>0, <1>2 DEF Persist
<1>3. CASE Insert(p)
  <2>1. /\ hp' = [hp EXCEPT ![n] = MaxHp]
        /\ attackers' = [attackers EXCEPT ![n] = {}]
        /\ kept' = [kept EXCEPT ![n] = TRUE]
        /\ UNCHANGED <<attacking, row, here>> /\ n \in Npcs
    BY <1>0, <1>3 DEF Insert, SetState
  <2> QED BY <1>a, <2>1
<1>4. CASE Copy(p)  BY <1>0, <1>4 DEF Copy
<1>5. CASE Set(p)  BY <1>0, <1>5 DEF Set, SetState, Commands
<1>6. CASE Initiate(p)
  <2>1. n \in Npcs /\ UNCHANGED <<row, here>> /\ attacking' = [attacking EXCEPT ![p] = n]
    BY <1>0, <1>6 DEF Initiate
  <2>2. CASE hp[n] = None
    <3>1. /\ hp' = [hp EXCEPT ![n] = DefaultHp]
          /\ attackers' = [attackers EXCEPT ![n] = {p}]
          /\ kept' = [kept EXCEPT ![n] = FALSE]
      BY <1>6, <2>2 DEF Initiate, SetState
    <3> QED BY <1>a, <2>1, <3>1
  <2>3. CASE hp[n] # None
    <3>1. /\ hp' = [hp EXCEPT ![n] = hp[n]]
          /\ attackers' = [attackers EXCEPT ![n] = attackers[n] \cup {p}]
          /\ kept' = [kept EXCEPT ![n] = kept[n]]
      BY <1>6, <2>3 DEF Initiate, SetState, State
    <3> QED BY <2>1, <2>3, <3>1
  <2> QED BY <2>2, <2>3
<1>7. CASE Miss(p)  BY <1>0, <1>7 DEF Miss
<1>8. CASE Read(p)  BY <1>0, <1>8 DEF Read
<1>9. CASE Save(p)  BY <1>0, <1>9 DEF Save, Commands
<1>10. CASE IsDead(p)  BY <1>0, <1>10 DEF IsDead
<1>11. CASE EndPlayer(p)  BY <1>0, <1>11 DEF EndPlayer
<1>12. CASE EndTarget(p)  BY <1>0, <1>12 DEF EndTarget
<1>13. CASE Delete(p)  BY <1>0, <1>13 DEF Delete
<1>14. CASE Forget(p)  BY <1>0, <1>14 DEF Forget, SetState, NoState
<1>15. CASE CarryOut(p)  BY <1>0, <1>15 DEF CarryOut
<1>16. ASSUME NEW d \in Damages, Hit(p, d) PROVE Shared'  BY <1>0, <1>16 DEF Hit
<1> QED BY <1>1, <1>2, <1>3, <1>4, <1>5, <1>6, <1>7, <1>8,
           <1>9, <1>10, <1>11, <1>12, <1>13, <1>14, <1>15, <1>16 DEF Step

LEMMA CommandsStep ==
  ASSUME Types, NEW p \in Players, Step(p)
  PROVE  Commands'
<1> USE NoStateType DEF Types, Commands, Steps, Goto, Return
<1>1. CASE Look(p)  BY <1>1 DEF Look
<1>2. CASE Persist(p)  BY <1>2 DEF Persist
<1>3. CASE Insert(p)  BY <1>3 DEF Insert
<1>4. CASE Copy(p)
  <2>1. target[p] \in Npcs  BY <1>4 DEF Copy
  <2>2. seen' = seen \/ seen' = [seen EXCEPT ![p] = State(target[p])]
    BY <1>4 DEF Copy
  <2>3. State(target[p]) \in [hp : Hp, by : SUBSET Players, kept : BOOLEAN]
    BY <2>1, StateType
  <2>4. seen' \in [Players -> [hp : Hp, by : SUBSET Players, kept : BOOLEAN]]
    BY <2>2, <2>3
  <2>5. \A q \in Players : seen'[q] \in {seen[q], State(target[p])}
    BY <2>2
  <2>6. State(target[p]).kept => State(target[p]).hp \in Int /\ State(target[p]).hp <= MaxHp
    BY <2>1, StateType
  <2>7. \A q \in Players : seen'[q].kept => seen'[q].hp \in Int /\ seen'[q].hp <= MaxHp
    BY <2>5, <2>6
  <2>8. /\ \E step \in Steps \ {"idle"} : pc' = [pc EXCEPT ![p] = step]
        /\ pc[p] # "idle" /\ UNCHANGED <<target, contested, crashes>>
    BY <1>4 DEF Copy
  <2>0. pc \in [Players -> Steps]  OBVIOUS
  <2> HIDE DEF Steps, Goto, Return, Types
  <2>9. pc' \in [Players -> Steps] /\ \A q \in Players : pc'[q] = "idle" <=> pc[q] = "idle"
    BY <2>0, <2>8
  <2> USE DEF Types
  <2> QED BY <2>4, <2>7, <2>8, <2>9
<1>5. CASE Set(p)  BY <1>5 DEF Set
<1>6. CASE Initiate(p)  BY <1>6 DEF Initiate
<1>7. CASE Miss(p)  BY <1>7 DEF Miss
<1>8. CASE Read(p)
  <2>1. target[p] \in Npcs  BY <1>8 DEF Read
  <2>2. seen' = seen \/ seen' = [seen EXCEPT ![p] = State(target[p])]
    BY <1>8 DEF Read
  <2>3. State(target[p]) \in [hp : Hp, by : SUBSET Players, kept : BOOLEAN]
    BY <2>1, StateType
  <2>4. seen' \in [Players -> [hp : Hp, by : SUBSET Players, kept : BOOLEAN]]
    BY <2>2, <2>3
  <2>5. \A q \in Players : seen'[q] \in {seen[q], State(target[p])}
    BY <2>2
  <2>6. State(target[p]).kept => State(target[p]).hp \in Int /\ State(target[p]).hp <= MaxHp
    BY <2>1, StateType
  <2>7. \A q \in Players : seen'[q].kept => seen'[q].hp \in Int /\ seen'[q].hp <= MaxHp
    BY <2>5, <2>6
  <2>8. /\ \E step \in Steps \ {"idle"} : pc' = [pc EXCEPT ![p] = step]
        /\ pc[p] # "idle" /\ UNCHANGED <<target, contested, crashes>>
    BY <1>8 DEF Read
  <2>0. pc \in [Players -> Steps]  OBVIOUS
  <2> HIDE DEF Steps, Goto, Return, Types
  <2>9. pc' \in [Players -> Steps] /\ \A q \in Players : pc'[q] = "idle" <=> pc[q] = "idle"
    BY <2>0, <2>8
  <2> USE DEF Types
  <2> QED BY <2>4, <2>7, <2>8, <2>9
<1>9. CASE Save(p)  BY <1>9 DEF Save
<1>10. CASE IsDead(p)
  <2>1. CASE Goto(p, "end") /\ UNCHANGED <<target, seen>>
    BY <1>10, <2>1 DEF IsDead
  <2>2. CASE Return(p)
    BY <1>10, <2>2 DEF IsDead
  <2> QED BY <1>10, <2>1, <2>2 DEF IsDead
<1>11. CASE EndPlayer(p)  BY <1>11 DEF EndPlayer
<1>12. CASE EndTarget(p)  BY <1>12 DEF EndTarget
<1>13. CASE Delete(p)  BY <1>13 DEF Delete
<1>14. CASE Forget(p)  BY <1>14 DEF Forget
<1>15. CASE CarryOut(p)  BY <1>15 DEF CarryOut
<1>16. ASSUME NEW d \in Damages, Hit(p, d) PROVE Commands'  BY <1>16 DEF Hit
<1> QED BY <1>1, <1>2, <1>3, <1>4, <1>5, <1>6, <1>7, <1>8,
           <1>9, <1>10, <1>11, <1>12, <1>13, <1>14, <1>15, <1>16 DEF Step

LEMMA TypesStep == Types /\ [Next]_vars => Types'
<1> SUFFICES ASSUME Types, [Next]_vars PROVE Types'
  OBVIOUS
<1>1. ASSUME NEW p \in Players, NEW n \in Npcs, Find(p, n) PROVE Types'
  BY <1>1 DEF Find, Goto, Types, Shared, Commands, Steps, states, tables
<1>2. CASE Crash
  <2>1. Shared'  BY <1>2 DEF Crash, tables, Types, Shared, Commands
  <2>2. Commands'  BY <1>2, NoStateType DEF Crash, Types, Commands, Steps
  <2> QED BY <2>1, <2>2 DEF Types
<1>3. CASE UNCHANGED vars
  BY <1>3 DEF vars, Types, Shared, Commands, states, tables
<1>4. ASSUME NEW p \in Players, Step(p) PROVE Types'
  BY <1>4, SharedStep, CommandsStep DEF Types
<1> QED BY <1>1, <1>2, <1>3, <1>4 DEF Next

\* The variables keep their types; an NPC without a state is nobody's target.
THEOREM TypeCorrect == Spec => []TypeOK
BY TypesInit, TypesStep, TypesGiveTypeOK, PTL DEF Spec

----------------------------------------------------------------------------
\* Two commands at work on an NPC have contested it.
Alone ==
    \A p, q \in Players :
       p # q /\ target[p] = target[q] /\ target[p] # None => target[p] \in contested

\* The player whose command is at work on an NPC nobody contested.
At(p, n, steps) == target[p] = n /\ pc[p] \in steps

Knows(n) == \A p \in Players : attacking[p] = n => p \in attackers[n]

\* From the look to the state being set, nobody else has made or changed one.
Opening(n) ==
    \A p \in Players :
       /\ At(p, n, {"persist", "insert"}) => hp[n] = None
       /\ At(p, n, {"insert"}) => row[n] = MaxHp
       /\ At(p, n, {"copy", "set"}) => hp[n] = MaxHp
       /\ At(p, n, {"set", "save"}) => seen[p] = State(n)

\* Once the end of the NPC has begun, nobody attacks it.
Ending(n) ==
    \A p \in Players :
       /\ At(p, n, {"delete", "forget", "carry"}) => \A q \in Players : attacking[q] # n
       /\ At(p, n, {"forget", "carry"}) => row[n] = None
       /\ At(p, n, {"carry"}) => hp[n] = None

Carried(n) ==
    ~here[n] => hp[n] = None /\ row[n] = None /\ \A p \in Players : target[p] # n

\* What a command did to the hp it is about to save, unless the NPC is going.
Saved(n) ==
    kept[n] => \/ row[n] = hp[n]
               \/ \E p \in Players : At(p, n, {"read", "save", "forget"})

Fight(n) == Knows(n) /\ Opening(n) /\ Ending(n) /\ Carried(n)

\* From initiate to the end of combat a player attacks its target or nobody.
Facing ==
    \A p \in Players :
       pc[p] \in {"attack", "read", "save", "dead", "end"} => attacking[p] \in {None, target[p]}

Inv == Alone /\ Facing /\ \A n \in Npcs \ contested : Fight(n)

LEMMA InvInit == Init => Inv
  BY DEF Init, Inv, Alone, Facing, Fight, Knows, Opening, Ending, Carried, At

LEMMA StepInv ==
  ASSUME Types, Inv, NEW p \in Players, Step(p)
  PROVE  Inv'
<1> USE DEF Types, Shared, Commands, Steps, states, tables, Goto, Return, SetState, State, NoState,
            Inv, Alone, Facing, Fight, Knows, Opening, Ending, Carried, At
<1>1. CASE Look(p)  BY <1>1 DEF Look
<1>2. CASE Persist(p)  BY <1>2 DEF Persist
<1>3. CASE Insert(p)
  <2>1. Alone' /\ Facing'  BY <1>3 DEF Insert
  <2>2. ASSUME NEW n \in Npcs \ contested PROVE Fight(n)'
    <3>1. Knows(n)'  BY <1>3 DEF Insert
    <3>2. Opening(n)'
      <4>1. CASE n = target[p]  BY <1>3, <4>1 DEF Insert
      <4>2. CASE n # target[p]
        <5>1. hp'[n] = hp[n] /\ State(n)' = State(n)  BY <1>3, <4>2 DEF Insert
        <5>2. \A q \in Players : At(q, n, Steps)' => q # p /\ pc'[q] = pc[q]
          BY <1>3, <4>2 DEF Insert
        <5>3. UNCHANGED <<target, seen, row>>  BY <1>3 DEF Insert
        <5> QED BY <5>1, <5>2, <5>3
      <4> QED BY <4>1, <4>2
    <3>3. Ending(n)'  BY <1>3 DEF Insert
    <3>4. Carried(n)'  BY <1>3 DEF Insert
    <3> QED BY <3>1, <3>2, <3>3, <3>4
  <2> QED BY <1>3, <2>1, <2>2 DEF Insert
<1>4. CASE Copy(p)  BY <1>4 DEF Copy
<1>5. CASE Set(p)  BY <1>5 DEF Set
<1>6. CASE Initiate(p)  BY <1>6 DEF Initiate
<1>7. CASE Miss(p)  BY <1>7 DEF Miss
<1>8. CASE Read(p)  BY <1>8 DEF Read
<1>9. CASE Save(p)  BY <1>9 DEF Save
<1>10. CASE IsDead(p)
  <2>0. \/ pc' = [pc EXCEPT ![p] = "end"] /\ UNCHANGED target
        \/ pc' = [pc EXCEPT ![p] = "idle"] /\ target' = [target EXCEPT ![p] = None]
    BY <1>10 DEF IsDead
  <2>1. Alone' /\ Facing'
    <3>1. pc[p] = "dead" /\ UNCHANGED <<attacking, contested>>  BY <1>10 DEF IsDead
    <3>2. Alone'  BY <2>0, <3>1
    <3>3. Facing'  BY <2>0, <3>1
    <3> QED BY <3>2, <3>3
  <2>2. ASSUME NEW n \in Npcs \ contested PROVE Fight(n)'
    <3>1. Knows(n)'  BY <1>10 DEF IsDead
    <3>2. Opening(n)'  BY <1>10 DEF IsDead
    <3>3. Ending(n)'  BY <1>10 DEF IsDead
    <3>4. Carried(n)'  BY <1>10 DEF IsDead
    <3> QED BY <3>1, <3>2, <3>3, <3>4
  <2> QED BY <1>10, <2>1, <2>2 DEF IsDead
<1>11. CASE EndPlayer(p)
  <2>1. Alone' /\ Facing'  BY <1>11 DEF EndPlayer
  <2>2. ASSUME NEW n \in Npcs \ contested PROVE Fight(n)'
    <3>1. Knows(n)'  BY <1>11 DEF EndPlayer
    <3>2. Opening(n)'
      <4>1. \A q \in Players : At(q, n, {"set", "save"})' => target[p] # n
        BY <1>11 DEF EndPlayer
      <4>2. target[p] # n => attackers'[n] = attackers[n]
        BY <1>11 DEF EndPlayer
      <4>3. UNCHANGED <<hp, kept, target, seen, row>>  BY <1>11 DEF EndPlayer
      <4>4. \A q \in Players : q # p => pc'[q] = pc[q]  BY <1>11 DEF EndPlayer
      <4>5. pc'[p] = "remove"  BY <1>11 DEF EndPlayer
      <4> QED BY <4>1, <4>2, <4>3, <4>4, <4>5
    <3>3. Ending(n)'  BY <1>11 DEF EndPlayer
    <3>4. Carried(n)'  BY <1>11 DEF EndPlayer
    <3> QED BY <3>1, <3>2, <3>3, <3>4
  <2> QED BY <1>11, <2>1, <2>2 DEF EndPlayer
<1>12. CASE EndTarget(p)  BY <1>12 DEF EndTarget
<1>13. CASE Delete(p)  BY <1>13 DEF Delete
<1>14. CASE Forget(p)
  <2>1. Alone' /\ Facing'  BY <1>14 DEF Forget
  <2>2. ASSUME NEW n \in Npcs \ contested PROVE Fight(n)'
    <3>1. Knows(n)'  BY <1>14 DEF Forget
    <3>2. Opening(n)'
      <4>1. CASE n = target[p]  BY <1>14, <4>1 DEF Forget
      <4>2. CASE n # target[p]
        <5>1. hp'[n] = hp[n] /\ State(n)' = State(n)  BY <1>14, <4>2 DEF Forget
        <5>2. \A q \in Players : At(q, n, Steps)' => q # p /\ pc'[q] = pc[q]
          BY <1>14, <4>2 DEF Forget
        <5>3. UNCHANGED <<target, seen, row>>  BY <1>14 DEF Forget
        <5> QED BY <5>1, <5>2, <5>3
      <4> QED BY <4>1, <4>2
    <3>3. Ending(n)'  BY <1>14 DEF Forget
    <3>4. Carried(n)'  BY <1>14 DEF Forget
    <3> QED BY <3>1, <3>2, <3>3, <3>4
  <2> QED BY <1>14, <2>1, <2>2 DEF Forget
<1>15. CASE CarryOut(p)  BY <1>15 DEF CarryOut
<1>16. ASSUME NEW d \in Damages, Hit(p, d) PROVE Inv'  BY <1>16 DEF Hit
<1> QED BY <1>1, <1>2, <1>3, <1>4, <1>5, <1>6, <1>7, <1>8,
           <1>9, <1>10, <1>11, <1>12, <1>13, <1>14, <1>15, <1>16 DEF Step

LEMMA FindInv ==
  ASSUME Types, Inv, NEW p \in Players, NEW n \in Npcs, Find(p, n)
  PROVE  Inv'
<1> USE DEF Types, Commands, Steps, states, tables, Goto, Find, Inv
<1>1. contested \subseteq contested'  OBVIOUS
<1>2. Alone' /\ Facing'  BY DEF Alone, Facing
<1>3. ASSUME NEW m \in Npcs \ contested' PROVE Fight(m)'
  BY <1>1 DEF Fight, Knows, Opening, Ending, Carried, At, State
<1> QED BY <1>2, <1>3

LEMMA InvStep == Types /\ Inv /\ [Next]_vars => Inv'
<1> SUFFICES ASSUME Types, Inv, [Next]_vars PROVE Inv'
  OBVIOUS
<1> USE DEF Types, Shared, Commands, states, tables, Inv, Alone, Facing, Fight, Knows,
            Opening, Ending, Carried, At, State
<1>1. CASE Crash  BY <1>1 DEF Crash
<1>2. CASE UNCHANGED vars  BY <1>2 DEF vars
<1> QED BY <1>1, <1>2, StepInv, FindInv DEF Next

LEMMA Invariance == Spec => [](Types /\ Inv)
BY TypesInit, TypesStep, InvInit, InvStep, PTL DEF Spec

\* Whoever attacks an NPC that nobody contested is known to it, whatever other
\* fights, ends and restarts there are.
THEOREM TargetsKnowThem == Spec => []TargetsKnow
<1>1. Inv => TargetsKnow  BY DEF Inv, Fight, Knows, TargetsKnow
<1> QED BY <1>1, Invariance, PTL

\* A slain NPC that nobody contested leaves neither a state nor a row.
THEOREM SlainAreForgotten == Spec => []SlainLeaveNothing
<1>1. Inv => SlainLeaveNothing
  BY DEF Inv, Fight, Carried, SlainLeaveNothing, Quiet
<1> QED BY <1>1, Invariance, PTL

----------------------------------------------------------------------------
\* One step of one command lowers the hp of its target, or makes a state where
\* there was none, or writes full hp over full hp.
LEMMA HpStep ==
  ASSUME Types, Inv, NEW p \in Players, Step(p),
         NEW n \in Npcs \ contested, hp[n] # None, hp'[n] # None
  PROVE  hp'[n] <= hp[n]
<1> USE DEF Types, Shared, Commands, Hp, states, SetState
<1>1. CASE Insert(p)
  <2>1. target[p] # n  BY <1>1 DEF Insert, Inv, Fight, Opening, At
  <2> QED BY <1>1, <2>1 DEF Insert
<1>2. CASE Set(p)  BY <1>2 DEF Set, Inv, Fight, Opening, At
<1>3. CASE Initiate(p)  BY <1>3 DEF Initiate, State
<1>4. ASSUME NEW d \in Damages, Hit(p, d) PROVE hp'[n] <= hp[n]  BY <1>4 DEF Hit
<1>5. CASE Forget(p)  BY <1>5 DEF Forget, NoState
<1>6. CASE UNCHANGED hp  BY <1>6
<1> QED BY <1>1, <1>2, <1>3, <1>4, <1>5, <1>6 DEF Step, Look, Persist, Copy, Miss, Read,
           Save, IsDead, EndPlayer, EndTarget, Delete, CarryOut

\* No player's command undoes the damage another player did before it.
THEOREM DamageStays == Spec => HpNeverRises
<1> DEFINE A == crashes' = crashes =>
                  \A n \in Npcs \ contested' :
                     hp[n] # None /\ hp'[n] # None => hp'[n] <= hp[n]
<1>1. ASSUME Types, Inv, [Next]_vars PROVE [A]_vars
  <2>1. ASSUME NEW p \in Players, Step(p) PROVE A
    <3>1. contested' = contested
      BY <2>1 DEF Step, Look, Persist, Insert, Copy, Set, Initiate, Miss, Hit, Read, Save,
         IsDead, EndPlayer, EndTarget, Delete, Forget, CarryOut
    <3> QED BY <1>1, <2>1, <3>1, HpStep
  <2>2. ASSUME NEW p \in Players, NEW n \in Npcs, Find(p, n) PROVE A
    BY <1>1, <2>2 DEF Find, states, Types, Shared, Hp
  <2>3. Crash => A
    BY <1>1 DEF Crash, Types, Commands
  <2> QED BY <1>1, <2>1, <2>2, <2>3 DEF Next
<1> QED BY <1>1, Invariance, PTL DEF Spec, HpNeverRises

----------------------------------------------------------------------------
\* The hp property of an NPC says what its maximum is.
FullStart == StartHp = MaxHp

SavedInv == \A n \in Npcs \ contested : Saved(n)

LEMMA SavedStep ==
  ASSUME FullStart, Types, Inv, SavedInv, NEW p \in Players, Step(p)
  PROVE  SavedInv'
<1> USE DEF Types, Shared, Commands, Steps, states, tables, Goto, Return, SetState, State, NoState,
            Inv, Alone, Facing, Fight, Opening, Ending, Carried, At, SavedInv, Saved
<1>1. CASE Look(p)  BY <1>1 DEF Look
<1>2. CASE Persist(p)  BY <1>2 DEF Persist
<1>3. CASE Insert(p)
  <2> SUFFICES ASSUME NEW n \in Npcs \ contested PROVE Saved(n)'
    BY <1>3 DEF Insert
  <2>1. CASE n = target[p]
    <3>1. row[n] = MaxHp  BY <1>3, <2>1 DEF Insert
    <3> QED BY <1>3, <2>1, <3>1 DEF Insert
  <2>2. CASE n # target[p]
    <3>1. hp'[n] = hp[n] /\ kept'[n] = kept[n] /\ row'[n] = row[n]
      BY <1>3, <2>2 DEF Insert
    <3>2. \A q \in Players : At(q, n, {"read", "save", "forget"}) => q # p /\ pc'[q] = pc[q]
      BY <1>3, <2>2 DEF Insert
    <3>3. UNCHANGED target  BY <1>3 DEF Insert
    <3>4. CASE row[n] = hp[n]  BY <3>1, <3>4
    <3>5. CASE \E q \in Players : At(q, n, {"read", "save", "forget"})
      <4>1. PICK q \in Players : At(q, n, {"read", "save", "forget"})  BY <3>5
      <4>2. At(q, n, {"read", "save", "forget"})'  BY <3>2, <3>3, <4>1
      <4> QED BY <4>2
    <3>6. CASE ~kept[n]  BY <3>1, <3>6
    <3> QED BY <3>4, <3>5, <3>6
  <2> QED BY <2>1, <2>2
<1>4. CASE Copy(p)  BY <1>4 DEF Copy
<1>5. CASE Set(p)
  <2> SUFFICES ASSUME NEW n \in Npcs \ contested PROVE Saved(n)'
    BY <1>5 DEF Set
  <2>1. CASE n = target[p]
    <3>1. row'[n] = hp'[n] \/ ~kept'[n]  BY <1>5, <2>1 DEF Set, FullStart
    <3> QED BY <3>1
  <2>2. CASE n # target[p]
    <3>1. hp'[n] = hp[n] /\ kept'[n] = kept[n] /\ row'[n] = row[n]
      BY <1>5, <2>2 DEF Set
    <3>2. UNCHANGED target  BY <1>5 DEF Set
    <3>3. \A q \in Players : At(q, n, {"read", "save", "forget"}) => q # p /\ pc'[q] = pc[q]
      BY <1>5, <2>2 DEF Set
    <3>4. \A q \in Players :
            At(q, n, {"read", "save", "forget"}) => At(q, n, {"read", "save", "forget"})'
      BY <3>2, <3>3
    <3> HIDE DEF At, Inv, Types
    <3> QED BY <3>1, <3>4
  <2> QED BY <2>1, <2>2
<1>6. CASE Initiate(p)  BY <1>6 DEF Initiate
<1>7. CASE Miss(p)  BY <1>7 DEF Miss
<1>8. CASE Read(p)  BY <1>8 DEF Read
<1>9. CASE Save(p)  BY <1>9 DEF Save
<1>10. CASE IsDead(p)
  <2>1. CASE Goto(p, "end") /\ UNCHANGED <<target, seen>>
    BY <1>10, <2>1 DEF IsDead
  <2>2. CASE Return(p)
    BY <1>10, <2>2 DEF IsDead
  <2> QED BY <1>10, <2>1, <2>2 DEF IsDead
<1>11. CASE EndPlayer(p)  BY <1>11 DEF EndPlayer
<1>12. CASE EndTarget(p)
  <2>1. UNCHANGED <<hp, kept, row, target, contested>>
    BY <1>12 DEF EndTarget
  <2>2. \A q \in Players, n \in Npcs :
          At(q, n, {"read", "save", "forget"}) => At(q, n, {"read", "save", "forget"})'
    BY <1>12, <2>1 DEF EndTarget
  <2> HIDE DEF At, Inv, Types
  <2> QED BY <2>1, <2>2
<1>13. CASE Delete(p)  BY <1>13 DEF Delete
<1>14. CASE Forget(p)  BY <1>14 DEF Forget
<1>15. CASE CarryOut(p)  BY <1>15 DEF CarryOut
<1>16. ASSUME NEW d \in Damages, Hit(p, d) PROVE SavedInv'  BY <1>16 DEF Hit
<1> QED BY <1>1, <1>2, <1>3, <1>4, <1>5, <1>6, <1>7, <1>8,
           <1>9, <1>10, <1>11, <1>12, <1>13, <1>14, <1>15, <1>16 DEF Step

LEMMA SavedNext == FullStart /\ Types /\ Inv /\ SavedInv /\ [Next]_vars => SavedInv'
<1> SUFFICES ASSUME FullStart, Types, Inv, SavedInv, [Next]_vars PROVE SavedInv'
  OBVIOUS
<1>1. ASSUME NEW p \in Players, NEW n \in Npcs, Find(p, n) PROVE SavedInv'
  BY <1>1 DEF Find, Goto, states, tables, Types, Commands, SavedInv, Saved, At
<1>2. CASE Crash  BY <1>2 DEF Crash, tables, Types, Shared, SavedInv, Saved
<1>3. CASE UNCHANGED vars  BY <1>3 DEF vars, states, tables, SavedInv, Saved, At
<1> QED BY <1>1, <1>2, <1>3, SavedStep DEF Next

\* Between commands that did not overlap a restart gives an NPC the hp it has,
\* if it started with full hp.
THEOREM HpIsSaved == FullStart /\ Spec => []HpSaved
<1> SUFFICES ASSUME FullStart PROVE Spec => []HpSaved
  OBVIOUS
<1>1. Init => SavedInv  BY DEF Init, SavedInv, Saved
<1>2. Types /\ Inv /\ SavedInv /\ [Next]_vars => SavedInv'  BY SavedNext
<1>3. SavedInv => HpSaved  BY DEF SavedInv, Saved, At, HpSaved, Quiet
<1> QED BY <1>1, <1>2, <1>3, Invariance, PTL DEF Spec

----------------------------------------------------------------------------
(***************************************************************************)
(* Delivery.                                                               *)
(***************************************************************************)
HIDE CombatAssumption

\* The queue holds those who want the lock, each once.
Line ==
    /\ \A i, j \in DOMAIN queue : queue[i] = queue[j] => i = j
    /\ \A p \in Players : at[p] \in Del!Reads \cup Del!Writes <=> p \in Del!ToSet(queue)

\* Only a broadcast that sends keeps the lock.
Holders == reading = {p \in Players : at[p] = "send"}

\* Who moves or attacks does so from a room.
Found == \A p \in Players : at[p] \in {"update", "broadcast", "send"} => room[p] # None

\* Who has a session is served.
Present == \A p \in sessions : at[p] \notin {"gone", "register"}

DeliveryInv == Del!TypeOK /\ Line /\ Holders /\ Found /\ Present /\ Del!RoomHears

\* What is left of a sequence without its k-th element.
LEMMA RestOfSeq ==
    ASSUME NEW S, NEW seq \in Seq(S), NEW k \in 1..Len(seq)
    PROVE  LET rest == SubSeq(seq, 1, k - 1) \o SubSeq(seq, k + 1, Len(seq)) IN
           /\ rest \in Seq(S)
           /\ Len(rest) = Len(seq) - 1
           /\ \A i \in 1..(Len(seq) - 1) : rest[i] = seq[IF i < k THEN i ELSE i + 1]
<1> DEFINE before == SubSeq(seq, 1, k - 1)
           behind == SubSeq(seq, k + 1, Len(seq))
           rest == before \o behind
<1>1. Len(seq) \in Nat /\ k \in Nat /\ 1 <= k /\ k <= Len(seq)
  OBVIOUS
<1>2. \A i \in 1..Len(seq) : seq[i] \in S
  OBVIOUS
<1>3. /\ before \in Seq(S) /\ Len(before) = k - 1
      /\ \A i \in 1..(k - 1) : before[i] = seq[i]
  BY <1>1, <1>2, SubSeqProperties
<1>4. /\ behind \in Seq(S) /\ Len(behind) = Len(seq) - k
      /\ \A i \in 1..(Len(seq) - k) : behind[i] = seq[k + i]
  BY <1>1, <1>2, SubSeqProperties
<1> HIDE DEF before, behind
<1>5. /\ rest \in Seq(S)
      /\ Len(rest) = Len(before) + Len(behind)
      /\ \A i \in 1..(Len(before) + Len(behind)) :
            rest[i] = IF i <= Len(before) THEN before[i] ELSE behind[i - Len(before)]
  <2>1. before \in Seq(S) /\ behind \in Seq(S)
    BY <1>3, <1>4
  <2> QED
    BY <2>1, ConcatProperties, Zenon
<1> HIDE DEF rest
<1>6. Len(rest) = Len(seq) - 1
  BY <1>1, <1>3, <1>4, <1>5
<1>7. ASSUME NEW i \in 1..(Len(seq) - 1)
      PROVE  rest[i] = seq[IF i < k THEN i ELSE i + 1]
  <2>1. i \in 1..(Len(before) + Len(behind))
    BY <1>1, <1>3, <1>4
  <2>2. CASE i < k
    BY <1>1, <1>3, <1>5, <2>1, <2>2
  <2>3. CASE i >= k
    <3> DEFINE m == i - (k - 1)
    <3>1. m \in 1..(Len(seq) - k) /\ k + m = i + 1
      BY <1>1, <2>3
    <3>2. rest[i] = behind[m]
      BY <1>1, <1>3, <1>5, <2>1, <2>3
    <3>3. behind[m] = seq[i + 1]
      BY <1>4, <3>1
    <3> QED
      BY <1>1, <2>3, <3>2, <3>3
  <2> QED
    BY <1>1, <2>2, <2>3
<1> QED
  BY <1>5, <1>6, <1>7 DEF rest, before, behind

\* Whoever has been served leaves the others in their order.
LEMMA ServedLeaves ==
    ASSUME Del!TypeOK, Line, NEW p \in Players
    PROVE  /\ Del!Served(p) \in Seq(Players)
           /\ \A i, j \in DOMAIN Del!Served(p) : Del!Served(p)[i] = Del!Served(p)[j] => i = j
           /\ Del!ToSet(Del!Served(p)) = Del!ToSet(queue) \ {p}
<1> DEFINE k == CHOOSE i \in DOMAIN queue : queue[i] = p
           rest == SubSeq(queue, 1, k - 1) \o SubSeq(queue, k + 1, Len(queue))
<1>1. queue \in Seq(Players) /\ DOMAIN queue = 1..Len(queue) /\ Len(queue) \in Nat
  BY DEF Del!TypeOK
<1>2. CASE p \notin Del!ToSet(queue)
  BY <1>1, <1>2 DEF Del!Served, Line
<1>3. CASE p \in Del!ToSet(queue)
  <2>1. k \in DOMAIN queue /\ queue[k] = p
    BY <1>3 DEF Del!ToSet
  <2>2. Del!Served(p) = rest
    BY <1>3 DEF Del!Served, Del!RemoveAt
  <2> HIDE DEF k
  <2>5. /\ rest \in Seq(Players)
        /\ Len(rest) = Len(queue) - 1
        /\ \A i \in 1..(Len(queue) - 1) : rest[i] = queue[IF i < k THEN i ELSE i + 1]
    BY <1>1, <2>1, RestOfSeq
  <2> HIDE DEF rest
  <2>6. DOMAIN rest = 1..(Len(queue) - 1)
    BY <2>5
  <2>7. \A i, j \in DOMAIN rest : rest[i] = rest[j] => i = j
    <3>1. \A i \in DOMAIN rest : (IF i < k THEN i ELSE i + 1) \in DOMAIN queue
      BY <1>1, <2>1, <2>6
    <3>2. SUFFICES ASSUME NEW i \in DOMAIN rest, NEW j \in DOMAIN rest, rest[i] = rest[j]
                   PROVE  i = j
      OBVIOUS
    <3>3. (IF i < k THEN i ELSE i + 1) = (IF j < k THEN j ELSE j + 1)
      BY <2>5, <2>6, <3>1, <3>2 DEF Line
    <3> QED
      BY <1>1, <2>1, <2>6, <3>3
  <2>8. Del!ToSet(rest) \subseteq Del!ToSet(queue) \ {p}
    <3>1. ASSUME NEW i \in DOMAIN rest PROVE rest[i] \in Del!ToSet(queue) /\ rest[i] # p
      <4> DEFINE m == IF i < k THEN i ELSE i + 1
      <4>1. m \in DOMAIN queue /\ m # k
        BY <1>1, <2>1, <2>6
      <4>2. rest[i] = queue[m]
        BY <2>5, <2>6
      <4> HIDE DEF m
      <4> QED
        BY <2>1, <4>1, <4>2 DEF Line, Del!ToSet
    <3> QED
      BY <3>1 DEF Del!ToSet
  <2>9. ASSUME NEW q \in Del!ToSet(queue), q # p PROVE q \in Del!ToSet(rest)
    <3>1. PICK i \in DOMAIN queue : queue[i] = q
      BY <2>9 DEF Del!ToSet
    <3>2. CASE i < k
      BY <1>1, <2>1, <2>5, <2>6, <3>1, <3>2 DEF Del!ToSet
    <3>3. CASE i > k
      <4>1. i - 1 \in DOMAIN rest /\ rest[i - 1] = q
        BY <1>1, <2>1, <2>5, <2>6, <3>1, <3>3
      <4>2. QED
        BY <4>1 DEF Del!ToSet
    <3>4. i # k
      BY <2>1, <2>9, <3>1
    <3> QED
      BY <1>1, <2>1, <3>1, <3>2, <3>3, <3>4
  <2> QED
    BY <2>2, <2>5, <2>7, <2>8, <2>9
<1> QED
  BY <1>2, <1>3

Places == {"gone", "loop", "echo", "send", "answer"}
             \cup Del!Reads \cup Del!Writes \cup Del!Sockets

\* A connection that goes on keeps the queue to those who want the lock.
LEMMA GotoKeepsLine ==
    ASSUME Del!TypeOK, Line, NEW p \in Players, NEW step \in Places, Del!Goto(p, step)
    PROVE  /\ Line'
           /\ queue' \in Seq(Players)
           /\ at' = [at EXCEPT ![p] = step] /\ at' \in [Players -> Places]
<1> DEFINE rest == Del!Served(p)
<1>1. /\ rest \in Seq(Players)
      /\ \A i, j \in DOMAIN rest : rest[i] = rest[j] => i = j
      /\ Del!ToSet(rest) = Del!ToSet(queue) \ {p}
  BY ServedLeaves
<1>2. at' = [at EXCEPT ![p] = step] /\ at' \in [Players -> Places]
  BY DEF Del!TypeOK, Del!Goto, Places
<1>3. queue' = IF step \in Del!Reads \cup Del!Writes THEN Append(rest, p) ELSE rest
  BY DEF Del!Goto
<1> HIDE DEF rest
<1>4. CASE step \in Del!Reads \cup Del!Writes
  <2>1. queue' = Append(rest, p)
    BY <1>3, <1>4
  <2>2. /\ queue' \in Seq(Players)
        /\ DOMAIN rest = 1..Len(rest) /\ DOMAIN queue' = 1..(Len(rest) + 1) /\ Len(rest) \in Nat
        /\ \A i \in 1..Len(rest) : queue'[i] = rest[i]
        /\ queue'[Len(rest) + 1] = p
    BY <1>1, <2>1
  <2>3. \A i \in DOMAIN rest : rest[i] # p
    BY <1>1 DEF Del!ToSet
  <2>4. \A i, j \in DOMAIN queue' : queue'[i] = queue'[j] => i = j
    BY <1>1, <2>2, <2>3
  <2>5. Del!ToSet(queue') = Del!ToSet(queue) \cup {p}
    <3>1. Del!ToSet(queue') = Del!ToSet(rest) \cup {p}
      BY <2>2 DEF Del!ToSet
    <3> QED
      BY <1>1, <3>1
  <2>6. \A q \in Players : at'[q] \in Del!Reads \cup Del!Writes <=> q \in Del!ToSet(queue')
    BY <1>2, <1>4, <2>5 DEF Line, Del!TypeOK
  <2> QED
    BY <1>2, <2>2, <2>4, <2>6 DEF Line, Del!ToSet, Del!Reads, Del!Writes
<1>5. CASE step \notin Del!Reads \cup Del!Writes
  <2>1. queue' = rest
    BY <1>3, <1>5
  <2>2. \A q \in Players : at'[q] \in Del!Reads \cup Del!Writes <=> q \in Del!ToSet(queue')
    BY <1>1, <1>2, <1>5, <2>1 DEF Line, Del!TypeOK
  <2> QED
    BY <1>1, <1>2, <2>1, <2>2 DEF Line, Del!ToSet, Del!Reads, Del!Writes
<1> QED
  BY <1>4, <1>5

\* A channel that is new is within its bound.
LEMMA NoMessages == 0 \in 0..Cap
  BY DeliveryAssumption

LEMMA DeliveryInit == Del!Init => DeliveryInv
<1> SUFFICES ASSUME Del!Init PROVE DeliveryInv
  OBVIOUS
<1>1. Del!TypeOK
  BY DeliveryAssumption DEF Del!Init, Del!TypeOK
<1>2. Line /\ Holders /\ Found /\ Present /\ Del!RoomHears
  BY DEF Del!Init, Line, Holders, Found, Present, Del!RoomHears, Del!ToSet, Del!Reads, Del!Writes
<1> QED
  BY <1>1, <1>2 DEF DeliveryInv

\* While nobody changes rooms and sessions, broadcasts go on as they should.
LEMMA RoomsStay ==
    ASSUME DeliveryInv, NEW p \in Players, NEW step \in Places \ {"send"},
           step \in {"update", "broadcast"} => room[p] # None,
           step \in {"gone", "register"} => at[p] = "gone",
           at[p] # "send", Del!Goto(p, step), UNCHANGED <<room, sessions, reading, todo>>
    PROVE  Line' /\ Holders' /\ Found' /\ Present' /\ Del!RoomHears' /\ queue' \in Seq(Players)
           /\ at' \in [Players -> Places]
<1>1. /\ Line' /\ queue' \in Seq(Players)
      /\ at' = [at EXCEPT ![p] = step] /\ at' \in [Players -> Places]
  BY GotoKeepsLine DEF DeliveryInv
<1>2. at \in [Players -> Places]
  BY DEF DeliveryInv, Del!TypeOK, Places
<1>3. Holders'
  BY <1>1, <1>2 DEF DeliveryInv, Holders
<1>4. Found'
  BY <1>1, <1>2 DEF DeliveryInv, Found
<1>5. Del!RoomHears'
  BY DEF DeliveryInv, Del!RoomHears
<1>6. Present'
  BY <1>1, <1>2 DEF DeliveryInv, Del!TypeOK, Present
<1> QED
  BY <1>1, <1>3, <1>4, <1>5, <1>6

\* Those who write have the lock to themselves.
LEMMA WritersAlone ==
    ASSUME DeliveryInv, NEW p \in Players, at[p] \in Del!Writes, Del!Granted(p)
    PROVE  reading = {}
  BY DEF Del!Granted

LEMMA WriterStep ==
    ASSUME DeliveryInv, NEW p \in Players,
           Del!Register(p) \/ Del!UpdateRoom(p) \/ Del!Unregister(p)
    PROVE  DeliveryInv'
<1>1. reading = {} /\ at[p] \in Del!Writes
  <2>1. at[p] \in Del!Writes /\ Del!Granted(p)
    BY DEF Del!Register, Del!UpdateRoom, Del!Unregister, Del!Writes
  <2> QED
    BY <2>1, WritersAlone
<1>2. PICK step \in {"welcome", "gone", "find answer"} : Del!Goto(p, step)
  BY DEF Del!Register, Del!UpdateRoom, Del!Unregister
<1>3. /\ Line' /\ queue' \in Seq(Players)
      /\ at' = [at EXCEPT ![p] = step] /\ at' \in [Players -> Places]
  <2>1. step \in Places
    BY DEF Places, Del!Reads, Del!Sockets
  <2> QED
    BY <1>2, <2>1, GotoKeepsLine DEF DeliveryInv
<1>4. at \in [Players -> Places] /\ room \in [Players -> Rooms \cup {None}]
  BY DEF DeliveryInv, Del!TypeOK, Places
<1>5. /\ UNCHANGED <<kind, reading, todo, stalled>>
      /\ sessions' \subseteq Players /\ chan' \in [Players -> 0..Cap]
      /\ \E r \in Rooms \cup {None} : room' = [room EXCEPT ![p] = r]
      /\ sessions' \subseteq sessions \cup {p} /\ (step = "gone" => p \notin sessions')
  <2>1. 0 \in 0..Cap /\ chan \in [Players -> 0..Cap] /\ sessions \subseteq Players
    BY NoMessages DEF DeliveryInv, Del!TypeOK
  <2>2. at'[p] = step
    BY <1>3, <1>4
  <2>3. CASE Del!Register(p)
    <3>1. at'[p] = "welcome"
      BY <1>4, <2>3 DEF Del!Register, Del!Goto
    <3> QED
      BY <2>1, <2>2, <2>3, <3>1 DEF Del!Register
  <2>4. CASE Del!UpdateRoom(p)
    <3>1. at'[p] = "find answer"
      BY <1>4, <2>4 DEF Del!UpdateRoom, Del!Goto
    <3> QED
      BY <2>1, <2>2, <2>4, <3>1 DEF Del!UpdateRoom
  <2>5. CASE Del!Unregister(p)
    BY <2>1, <2>5 DEF Del!Unregister
  <2> QED
    BY <2>3, <2>4, <2>5
<1>6. Del!TypeOK'
  <2>1. room' \in [Players -> Rooms \cup {None}]
    BY <1>4, <1>5
  <2>2. reading \subseteq Players /\ todo \in [Players -> SUBSET Players]
        /\ kind \in [Players -> {"say", "move", "attack", None}] /\ stalled \subseteq Players
    BY DEF DeliveryInv, Del!TypeOK
  <2> QED
    BY <1>3, <1>5, <2>1, <2>2 DEF Del!TypeOK, Places
<1>7. Holders'
  BY <1>1, <1>3, <1>4, <1>5 DEF DeliveryInv, Holders, Del!Writes
<1>8. Found'
  BY <1>3, <1>4, <1>5 DEF DeliveryInv, Found
<1>9. Del!RoomHears'
  BY <1>1, <1>5 DEF Del!RoomHears
<1>10. Present'
  BY <1>3, <1>4, <1>5 DEF DeliveryInv, Del!TypeOK, Present
<1> QED
  BY <1>3, <1>6, <1>7, <1>8, <1>9, <1>10 DEF DeliveryInv

\* Steps that leave sessions, rooms and broadcasts alone.
LEMMA QuietStep ==
    ASSUME DeliveryInv, NEW p \in Players,
           \/ Del!Connect(p) \/ Del!Close(p) \/ Del!FindEcho(p) \/ Del!Echo(p)
           \/ Del!FindRoom(p) \/ Del!FindAnswer(p) \/ Del!Answer(p)
           \/ Del!Relay(p) \/ Del!SendFails(p) \/ Del!Take(p)
           \/ \E k \in {"say", "move", "attack"} : Del!Command(p, k)
    PROVE  DeliveryInv'
<1>1. PICK step \in Places \ {"send"} :
        /\ Del!Goto(p, step)
        /\ step \in {"update", "broadcast"} => room[p] # None
        /\ step \in {"gone", "register"} => at[p] = "gone"
  <2> DEFINE Inner == {"loop", "unregister", "find echo", "echo", "find room", "find answer",
                       "answer", "describe", "relay"}
             Going(step) == Del!Goto(p, step) /\ (step \in {"update", "broadcast"} => room[p] # None)
                              /\ (step \in {"gone", "register"} => at[p] = "gone")
  <2>1. Inner \cup {"register", "update", "broadcast"} \subseteq Places \ {"send"}
    BY DEF Places, Del!Reads, Del!Writes, Del!Sockets
  <2>2. CASE Del!Connect(p)
    <3>1. Going("register")
      BY <2>2 DEF Del!Connect
    <3> QED
      BY <2>1, <3>1
  <2>3. CASE \E step \in Inner : Del!Goto(p, step)
    <3>1. PICK step \in Inner : Del!Goto(p, step)
      BY <2>3
    <3>2. Going(step)
      BY <3>1
    <3> QED
      BY <2>1, <3>1, <3>2
  <2>4. CASE room[p] # None /\ (Del!Goto(p, "update") \/ Del!Goto(p, "broadcast"))
    <3>1. Going("update") \/ Going("broadcast")
      BY <2>4
    <3> QED
      BY <2>1, <3>1
  <2>5. \/ Del!Connect(p)
        \/ \E step \in Inner : Del!Goto(p, step)
        \/ room[p] # None /\ (Del!Goto(p, "update") \/ Del!Goto(p, "broadcast"))
    BY DEF Del!Close, Del!FindEcho, Del!Echo, Del!FindRoom, Del!FindAnswer, Del!Answer,
           Del!Command, Del!Relay, Del!SendFails, Del!Take, Del!Onward
  <2> QED
    BY <2>2, <2>3, <2>4, <2>5
<1>2. /\ at[p] # "send" /\ UNCHANGED <<room, sessions, reading, todo>>
      /\ stalled' \subseteq stalled
      /\ \/ chan' = chan
         \/ chan[p] < Cap /\ chan' = [chan EXCEPT ![p] = @ + 1]
         \/ chan[p] > 0 /\ chan' = [chan EXCEPT ![p] = @ - 1]
      /\ \/ kind' = kind
         \/ \E k \in {"say", "move", "attack", None} : kind' = [kind EXCEPT ![p] = k]
  <2>1. CASE Del!Relay(p) \/ Del!SendFails(p) \/ Del!Take(p)
    BY <2>1 DEF Del!Relay, Del!SendFails, Del!Take, Del!Onward, Del!Sockets
  <2>2. CASE Del!Connect(p) \/ Del!Close(p) \/ Del!FindEcho(p) \/ Del!Echo(p)
               \/ Del!FindRoom(p) \/ Del!FindAnswer(p) \/ Del!Answer(p)
               \/ \E k \in {"say", "move", "attack"} : Del!Command(p, k)
    BY <2>2 DEF Del!Connect, Del!Close, Del!FindEcho, Del!Echo, Del!FindRoom, Del!FindAnswer,
                Del!Answer, Del!Command, Del!Room, Del!Put
  <2> QED
    BY <2>1, <2>2
<1>3. /\ Line' /\ Holders' /\ Found' /\ Present' /\ Del!RoomHears'
      /\ queue' \in Seq(Players) /\ at' \in [Players -> Places]
  BY <1>1, <1>2, RoomsStay
<1>4. chan' \in [Players -> 0..Cap]
  <2>1. chan \in [Players -> 0..Cap]
    BY DEF DeliveryInv, Del!TypeOK
  <2>2. /\ chan[p] < Cap => chan[p] + 1 \in 0..Cap
        /\ chan[p] > 0 => chan[p] - 1 \in 0..Cap
    BY <2>1, DeliveryAssumption
  <2> QED
    BY <1>2, <2>1, <2>2
<1>5. kind' \in [Players -> {"say", "move", "attack", None}]
  <2>1. kind \in [Players -> {"say", "move", "attack", None}]
    BY DEF DeliveryInv, Del!TypeOK
  <2> QED
    BY <1>2, <2>1
<1>6. Del!TypeOK'
  BY <1>2, <1>3, <1>4, <1>5 DEF DeliveryInv, Del!TypeOK, Places
<1> QED
  BY <1>3, <1>6 DEF DeliveryInv

\* A broadcast begins with those who are in the room, crosses one after the other
\* off, and lets the lock go when there is nobody left.
LEMMA BroadcastStep ==
    ASSUME DeliveryInv, NEW p \in Players,
           Del!Broadcast(p) \/ (\E q \in Players : Del!Send(p, q)) \/ Del!Sent(p)
    PROVE  DeliveryInv'
<1>1. /\ at \in [Players -> Places] /\ todo \in [Players -> SUBSET Players]
      /\ chan \in [Players -> 0..Cap] /\ reading \subseteq Players
      /\ sessions \subseteq Players /\ room \in [Players -> Rooms \cup {None}]
  BY DEF DeliveryInv, Del!TypeOK, Places
<1>2. CASE Del!Broadcast(p)
  <2>1. /\ Line' /\ queue' \in Seq(Players)
        /\ at' = [at EXCEPT ![p] = "send"] /\ at' \in [Players -> Places]
    <3>1. Del!Goto(p, "send") /\ "send" \in Places
      BY <1>2 DEF Del!Broadcast, Places
    <3> QED
      BY <3>1, GotoKeepsLine DEF DeliveryInv
  <2>2. /\ UNCHANGED <<room, sessions, chan, kind, stalled>> /\ at[p] = "broadcast"
        /\ reading' = reading \cup {p}
        /\ todo' = [todo EXCEPT ![p] = {q \in sessions : room[q] = room[p]}]
    BY <1>2 DEF Del!Broadcast
  <2>3. Del!TypeOK'
    BY <1>1, <2>1, <2>2 DEF DeliveryInv, Del!TypeOK, Places
  <2>4. Holders'
    BY <1>1, <2>1, <2>2 DEF DeliveryInv, Holders
  <2>5. Found'
    BY <1>1, <2>1, <2>2 DEF DeliveryInv, Found
  <2>6. Del!RoomHears'
    BY <1>1, <2>2 DEF DeliveryInv, Found, Del!RoomHears
  <2>7. Present'
    BY <1>1, <2>1, <2>2 DEF DeliveryInv, Present
  <2> QED
    BY <2>1, <2>3, <2>4, <2>5, <2>6, <2>7 DEF DeliveryInv
<1>3. ASSUME NEW q \in Players, Del!Send(p, q) PROVE DeliveryInv'
  <2>1. /\ UNCHANGED <<room, sessions, at, kind, queue, reading, stalled>>
        /\ chan[q] < Cap /\ chan' = [chan EXCEPT ![q] = @ + 1]
        /\ todo' = [todo EXCEPT ![p] = @ \ {q}]
    BY <1>3 DEF Del!Send, Del!Room, Del!Put
  <2>2. Del!TypeOK'
    <3>1. chan' \in [Players -> 0..Cap]
      BY <1>1, <2>1, DeliveryAssumption
    <3> QED
      BY <1>1, <2>1, <3>1 DEF DeliveryInv, Del!TypeOK
  <2>3. Line' /\ Holders' /\ Found' /\ Present'
    <3>1. UNCHANGED <<Line, Holders, Found, Present>>
      BY <2>1 DEF Line, Holders, Found, Present, Del!Reads, Del!Writes, Del!ToSet
    <3> QED
      BY <3>1 DEF DeliveryInv
  <2>4. Del!RoomHears'
    BY <1>1, <2>1 DEF DeliveryInv, Del!RoomHears
  <2> QED
    BY <2>2, <2>3, <2>4 DEF DeliveryInv
<1>4. CASE Del!Sent(p)
  <2>1. /\ Line' /\ queue' \in Seq(Players)
        /\ at' = [at EXCEPT ![p] = "find answer"] /\ at' \in [Players -> Places]
    <3>1. Del!Goto(p, "find answer") /\ "find answer" \in Places
      BY <1>4 DEF Del!Sent, Places, Del!Reads
    <3> QED
      BY <3>1, GotoKeepsLine DEF DeliveryInv
  <2>2. UNCHANGED <<room, sessions, chan, kind, todo, stalled>> /\ reading' = reading \ {p}
    BY <1>4 DEF Del!Sent
  <2>3. Del!TypeOK'
    BY <1>1, <2>1, <2>2 DEF DeliveryInv, Del!TypeOK, Places
  <2>4. Holders'
    BY <1>1, <2>1, <2>2 DEF DeliveryInv, Holders
  <2>5. Found' /\ Present' /\ Del!RoomHears'
    BY <1>1, <2>1, <2>2 DEF DeliveryInv, Found, Present, Del!RoomHears
  <2> QED
    BY <2>1, <2>3, <2>4, <2>5 DEF DeliveryInv
<1> QED
  BY <1>2, <1>3, <1>4

\* What the clients do is not seen by lock, rooms and sessions.
LEMMA StallStep ==
    ASSUME DeliveryInv, NEW p \in Players, Del!Stall(p) \/ Del!ReadOn(p)
    PROVE  DeliveryInv'
<1>1. /\ UNCHANGED <<room, sessions, chan, at, kind, queue, reading, todo>>
      /\ stalled' \subseteq stalled \cup {p}
  BY DEF Del!Stall, Del!ReadOn
<1>2. UNCHANGED <<Line, Holders, Found, Present, Del!RoomHears>>
  BY <1>1 DEF Line, Holders, Found, Present, Del!RoomHears, Del!Reads, Del!Writes, Del!ToSet
<1>3. Del!TypeOK'
  BY <1>1 DEF DeliveryInv, Del!TypeOK, Del!Reads, Del!Writes, Del!Sockets
<1> QED
  BY <1>2, <1>3 DEF DeliveryInv

LEMMA DeliveryNext == DeliveryInv /\ [Del!Next]_Del!vars => DeliveryInv'
<1> SUFFICES ASSUME DeliveryInv, [Del!Next]_Del!vars PROVE DeliveryInv'
  OBVIOUS
<1>1. CASE UNCHANGED Del!vars
  <2>1. UNCHANGED <<room, sessions, chan, at, kind, queue, reading, todo, stalled>>
    BY <1>1 DEF Del!vars
  <2>2. UNCHANGED <<Line, Holders, Found, Present, Del!RoomHears>>
    BY <2>1 DEF Line, Holders, Found, Present, Del!RoomHears, Del!Reads, Del!Writes, Del!ToSet
  <2>3. Del!TypeOK'
    BY <2>1 DEF DeliveryInv, Del!TypeOK, Del!Reads, Del!Writes, Del!Sockets
  <2> QED
    BY <2>2, <2>3 DEF DeliveryInv
<1>2. ASSUME NEW p \in Players, Del!Step(p) \/ Del!Take(p) \/ Del!Relay(p) \/ Del!Client(p)
      PROVE  DeliveryInv'
  BY <1>2, WriterStep, QuietStep, BroadcastStep, StallStep DEF Del!Step, Del!Client
<1> QED
  BY <1>1, <1>2 DEF Del!Next

LEMMA DeliveryInvariance == Del!Spec => []DeliveryInv
  BY DeliveryInit, DeliveryNext, PTL DEF Del!Spec

\* Sessions, channels, the lock's queue and its holders keep their types.
THEOREM DeliveryTypeCorrect == Del!Spec => []Del!TypeOK
<1>1. DeliveryInv => Del!TypeOK
  BY DEF DeliveryInv
<1> QED
  BY <1>1, DeliveryInvariance, PTL

\* While a broadcast waits for somebody's channel, those it has yet to send to
\* stay in the attacker's room and keep their sessions.
THEOREM RoomIsTold == Del!Spec => []Del!RoomHears
<1>1. DeliveryInv => Del!RoomHears
  BY DEF DeliveryInv
<1> QED
  BY <1>1, DeliveryInvariance, PTL

\* The one at the head of the queue is granted the lock as soon as no broadcast
\* keeps it.
LEMMA HeadGoes ==
    ASSUME DeliveryInv, reading = {}, NEW p \in Players, p \in Del!ToSet(queue)
    PROVE  \E q \in Players : at[q] \in Del!Reads \cup Del!Writes /\ Del!Granted(q)
<1>1. queue \in Seq(Players) /\ 1 \in DOMAIN queue
  BY DEF DeliveryInv, Del!TypeOK, Del!ToSet
<1>2. queue[1] \in Players /\ queue[1] \in Del!ToSet(queue)
  BY <1>1 DEF Del!ToSet
<1>3. at[queue[1]] \in Del!Reads \cup Del!Writes
  BY <1>2 DEF DeliveryInv, Line
<1>4. Del!Granted(queue[1])
  <2>1. \A j \in 1..(1 - 1) : at[queue[j]] \in Del!Reads
    OBVIOUS
  <2> QED
    BY <1>1, <2>1 DEF Del!Granted
<1> QED
  BY <1>2, <1>3, <1>4

\* Whenever somebody is at work and nobody can go on, not even a client that reads,
\* somebody waits for a full channel whose own task waits as well, or sits in
\* socket.send before a client that does not read: the lock alone brings nobody to
\* a halt, in whatever order it is asked for.
THEOREM SomebodyGoesOn == Del!Spec => []Del!NoDeadlock
<1>1. DeliveryInv => Del!NoDeadlock
  <2> SUFFICES ASSUME DeliveryInv, NEW p \in Players, Del!Busy(p), \A q \in Players : ~Del!Ready(q)
               PROVE  Del!Clogged
    BY DEF Del!NoDeadlock
  <2>1. /\ at \in [Players -> Places] /\ chan \in [Players -> 0..Cap]
        /\ todo \in [Players -> SUBSET Players] /\ reading \subseteq Players
    BY DEF DeliveryInv, Del!TypeOK, Places
  <2>2. CASE reading # {}
    <3>1. PICK b \in Players : b \in reading /\ at[b] = "send"
      BY <2>2 DEF DeliveryInv, Holders
    <3>2. PICK q \in Players : q \in todo[b] /\ ~Del!Room(q)
      BY <2>1, <3>1 DEF Del!Ready
    <3>3. Del!Awaits(b, q)
      BY <3>1, <3>2 DEF Del!Awaits
    <3>4. chan[q] > 0
      BY <2>1, <3>2, DeliveryAssumption DEF Del!Room
    <3>5. at[q] \notin {"gone", "loop"}
      BY <3>1, <3>2, <3>4 DEF DeliveryInv, Del!RoomHears, Present, Del!Ready
    <3>6. CASE at[q] \in Del!Sockets
      BY <3>3, <3>6 DEF Del!Ready, Del!Clogged
    <3>7. CASE at[q] \notin Del!Sockets
      <4>1. Del!Busy(q)
        BY <2>1, <3>5, <3>7 DEF Places, Del!Busy
      <4> QED
        BY <3>3, <4>1 DEF Del!Clogged
    <3> QED
      BY <3>6, <3>7
  <2>3. CASE reading = {}
    <3>1. at[p] \notin Del!Reads \cup Del!Writes
      <4>1. SUFFICES ASSUME at[p] \in Del!Reads \cup Del!Writes PROVE FALSE
        OBVIOUS
      <4>2. p \in Del!ToSet(queue)
        BY <4>1 DEF DeliveryInv, Line
      <4> QED
        BY <2>3, <4>2, HeadGoes DEF Del!Ready
    <3>2. at[p] \in {"echo", "answer"}
      BY <2>1, <2>3, <3>1 DEF Del!Busy, DeliveryInv, Holders
    <3>3. Del!Awaits(p, p)
      BY <3>2 DEF Del!Ready, Del!Awaits
    <3> QED
      BY <3>3 DEF Del!Clogged
  <2> QED
    BY <2>2, <2>3
<1> QED
  BY <1>1, DeliveryInvariance, PTL
=============================================================================
