---------------------------- MODULE TimersProofs ----------------------------
(***************************************************************************)
(* Proofs about Timers, for any number of timers, programs, callers of     *)
(* tick and restarts.  The properties are of a server whose reads and      *)
(* writes of the table succeed (failures = 0).                             *)
(***************************************************************************)
EXTENDS Timers, TLAPS

USE TimersAssumption

\* What a tick works on is due, and what a program works on exists.
Bounded ==
    /\ \A k \in Tickers : todo[k] \subseteq due /\ now[k] \in due \cup {None}
    /\ \A p \in Programs : sweep[p] \subseteq created
    /\ \A p \in Programs : pc[p] = "insert" => arg[p] \in created
    /\ \A p \in Programs : pc[p] = "forget" => arg[p] \in asked

Types == TypeOK /\ Bounded

LEMMA TypesInit == Init => Types
  BY DEF Init, Types, TypeOK, Bounded

LEMMA ProgramTypes ==
  ASSUME Types, NEW p \in Programs, Continue(p) \/ Call(p)
  PROVE  Types'
<1> USE DEF Types, TypeOK, Bounded, calls, ticks, ghosts, Written, Fails
<1>1. CASE Insert(p)  BY <1>1 DEF Insert
<1>2. CASE Forget(p)  BY <1>2 DEF Forget
<1>3. CASE SweepEnd(p)  BY <1>3 DEF SweepEnd
<1>4. ASSUME NEW t \in TimerIds, SweepOne(p, t) PROVE Types'  BY <1>4 DEF SweepOne
<1>5. CASE SweepBegin(p)  BY <1>5 DEF SweepBegin
<1>6. ASSUME NEW t \in TimerIds, Persist(p, t) PROVE Types'  BY <1>6 DEF Persist
<1>7. ASSUME NEW t \in TimerIds, Delete(p, t) PROVE Types'  BY <1>7 DEF Delete
<1> QED BY <1>1, <1>2, <1>3, <1>4, <1>5, <1>6, <1>7 DEF Continue, Call

LEMMA TickTypes ==
  ASSUME Types, NEW k \in Tickers, Tick(k)
  PROVE  Types'
<1> USE DEF Types, TypeOK, Bounded, calls, ticks, ghosts, Written, Fails
<1>1. CASE TickBegin(k)  BY <1>1 DEF TickBegin
<1>2. CASE TickForget(k)  BY <1>2 DEF TickForget
<1>3. CASE TickEnd(k)  BY <1>3 DEF TickEnd, Once
<1>4. ASSUME NEW t \in TimerIds, TickDelete(k, t) PROVE Types'  BY <1>4 DEF TickDelete
<1> QED BY <1>1, <1>2, <1>3, <1>4 DEF Tick, TickGoesOn

LEMMA TypesStep == Types /\ [Next]_vars => Types'
<1> SUFFICES ASSUME Types, [Next]_vars PROVE Types'
  OBVIOUS
<1> USE DEF Types, TypeOK, Bounded, calls, ticks, ghosts
<1>1. ASSUME NEW t \in TimerIds, ComesDue(t) PROVE Types'  BY <1>1 DEF ComesDue
<1>2. CASE Crash  BY <1>2 DEF Crash, Fails
<1>3. CASE UNCHANGED vars  BY <1>3 DEF vars
<1> QED BY <1>1, <1>2, <1>3, ProgramTypes, TickTypes DEF Next

\* The variables keep their types, and the lock of the map is held over an await
\* by the program that sweeps and nobody else.
THEOREM TypeCorrect == Spec => []TypeOK
<1>1. Types => TypeOK  BY DEF Types
<1> QED BY <1>1, TypesInit, TypesStep, PTL DEF Spec

----------------------------------------------------------------------------
\* A timer that is being scheduled is in the table, and nobody else knows it.
InsertPending ==
    \A p \in Programs : pc[p] = "insert" =>
       /\ arg[p] \in db /\ arg[p] \notin mem \cup known \cup asked
       /\ \A k \in Tickers : arg[p] \notin todo[k]
       /\ \A q \in Programs : arg[p] \notin sweep[q]
       /\ \A q \in Programs \ {p} : pc[q] = "insert" => arg[q] # arg[p]

\* One that is being cancelled, or that a tick removes, has left the table.
ForgetPending ==
    /\ \A p \in Programs : pc[p] = "forget" => arg[p] \notin db
    /\ \A k \in Tickers : tpc[k] = "forget" => now[k] \in created \ db

\* Where the map and the table differ, somebody is about to put it right.
Scheduling(t) == \E p \in Programs : pc[p] = "insert" /\ arg[p] = t
Removing(t) == \/ \E p \in Programs : pc[p] = "forget" /\ arg[p] = t
               \/ \E k \in Tickers : tpc[k] = "forget" /\ now[k] = t
Differ == /\ \A t \in db \ mem : Scheduling(t)
          /\ \A t \in mem \ db : Removing(t)

Gone == cancelled \cap (db \cup mem) = {}
Kept == \A t \in known : \/ Settled(t) \/ t \in db \/ Returning(t)
                         \/ t \in due /\ crashes > 0

Inv == InsertPending /\ ForgetPending /\ Differ /\ Gone /\ Kept
IInv == failures = 0 => Inv

LEMMA IInvInit == Init => IInv
  BY DEF Init, IInv, Inv, InsertPending, ForgetPending, Differ, Gone, Kept

LEMMA ProgramStep ==
  ASSUME Types, Inv, failures' = 0, failures = 0,
         NEW p \in Programs, Continue(p) \/ Call(p)
  PROVE  Inv'
<1> USE DEF Types, TypeOK, Bounded, calls, ticks, ghosts, Written, Fails
<1>1. CASE Insert(p)
  <2>1. InsertPending' BY <1>1 DEF Insert, Inv, InsertPending
  <2>2. ForgetPending' BY <1>1 DEF Insert, Inv, ForgetPending
  <2>3. Differ' BY <1>1 DEF Insert, Inv, InsertPending, Differ, Scheduling, Removing
  <2>4. Gone' BY <1>1 DEF Insert, Inv, InsertPending, Gone
  <2>5. Kept' BY <1>1 DEF Insert, Inv, InsertPending, Kept, Settled, Returning
  <2> QED BY <2>1, <2>2, <2>3, <2>4, <2>5 DEF Inv
<1>2. CASE Forget(p)
  <2>1. InsertPending' BY <1>2 DEF Forget, Inv, InsertPending
  <2>2. ForgetPending' BY <1>2 DEF Forget, Inv, ForgetPending
  <2>3. Differ' BY <1>2 DEF Forget, Inv, ForgetPending, Differ, Scheduling, Removing
  <2>4. Gone' BY <1>2 DEF Forget, Inv, ForgetPending, Gone
  <2>5. Kept' BY <1>2 DEF Forget, Inv, Kept, Settled, Returning
  <2> QED BY <2>1, <2>2, <2>3, <2>4, <2>5 DEF Inv
<1>3. CASE SweepEnd(p)
  <2>1. InsertPending' BY <1>3 DEF SweepEnd, Inv, InsertPending
  <2>2. ForgetPending' BY <1>3 DEF SweepEnd, Inv, ForgetPending
  <2>3. Differ' BY <1>3 DEF SweepEnd, Inv, Differ, Scheduling, Removing
  <2>4. Gone' BY <1>3 DEF SweepEnd, Inv, Gone
  <2>5. Kept' BY <1>3 DEF SweepEnd, Inv, Kept, Settled, Returning
  <2> QED BY <2>1, <2>2, <2>3, <2>4, <2>5 DEF Inv
<1>4. ASSUME NEW t \in TimerIds, SweepOne(p, t) PROVE Inv'
  <2>1. InsertPending' BY <1>4 DEF SweepOne, Inv, InsertPending
  <2>2. ForgetPending' BY <1>4 DEF SweepOne, Inv, ForgetPending
  <2>3. Differ' BY <1>4 DEF SweepOne, Inv, Differ, Scheduling, Removing
  <2>4. Gone' BY <1>4 DEF SweepOne, Inv, Gone
  <2>5. Kept' BY <1>4 DEF SweepOne, Inv, Kept, Settled, Returning
  <2> QED BY <2>1, <2>2, <2>3, <2>4, <2>5 DEF Inv
<1>5. CASE SweepBegin(p)
  <2>1. InsertPending' BY <1>5 DEF SweepBegin, Inv, InsertPending
  <2>2. ForgetPending' BY <1>5 DEF SweepBegin, Inv, ForgetPending
  <2>3. Differ' BY <1>5 DEF SweepBegin, Inv, Differ, Scheduling, Removing
  <2>4. Gone' BY <1>5 DEF SweepBegin, Inv, Gone
  <2>5. Kept' BY <1>5 DEF SweepBegin, Inv, Kept, Settled, Returning
  <2> QED BY <2>1, <2>2, <2>3, <2>4, <2>5 DEF Inv
<1>6. ASSUME NEW t \in TimerIds, Persist(p, t) PROVE Inv'
  <2>1. InsertPending' BY <1>6 DEF Persist, Inv, InsertPending
  <2>2. ForgetPending' BY <1>6 DEF Persist, Inv, ForgetPending
  <2>3. Differ' BY <1>6 DEF Persist, Inv, Differ, Scheduling, Removing
  <2>4. Gone' BY <1>6 DEF Persist, Inv, Gone
  <2>5. Kept' BY <1>6 DEF Persist, Inv, Kept, Settled, Returning
  <2> QED BY <2>1, <2>2, <2>3, <2>4, <2>5 DEF Inv
<1>7. ASSUME NEW t \in TimerIds, Delete(p, t) PROVE Inv'
  <2>1. InsertPending' BY <1>7 DEF Delete, Inv, InsertPending
  <2>2. ForgetPending' BY <1>7 DEF Delete, Inv, ForgetPending
  <2>3. Differ' BY <1>7 DEF Delete, Inv, InsertPending, Differ, Scheduling, Removing
  <2>4. Gone' BY <1>7 DEF Delete, Inv, Gone
  <2>5. Kept' BY <1>7 DEF Delete, Inv, Kept, Settled, Returning
  <2> QED BY <2>1, <2>2, <2>3, <2>4, <2>5 DEF Inv
<1> QED BY <1>1, <1>2, <1>3, <1>4, <1>5, <1>6, <1>7 DEF Continue, Call

LEMMA TickStep ==
  ASSUME Types, Inv, failures' = 0, failures = 0, NEW k \in Tickers, Tick(k)
  PROVE  Inv'
<1> USE DEF Types, TypeOK, Bounded, calls, ticks, ghosts, Written, Fails
<1>1. CASE TickBegin(k)
  <2>1. InsertPending' BY <1>1 DEF TickBegin, Inv, InsertPending
  <2>2. ForgetPending' BY <1>1 DEF TickBegin, Inv, ForgetPending
  <2>3. Differ' BY <1>1 DEF TickBegin, Inv, Differ, Scheduling, Removing
  <2>4. Gone' BY <1>1 DEF TickBegin, Inv, Gone
  <2>5. Kept' BY <1>1 DEF TickBegin, Inv, Kept, Settled, Returning
  <2> QED BY <2>1, <2>2, <2>3, <2>4, <2>5 DEF Inv
<1>2. CASE TickForget(k)
  <2>1. InsertPending' BY <1>2 DEF TickForget, Inv, InsertPending
  <2>2. ForgetPending' BY <1>2 DEF TickForget, Inv, ForgetPending
  <2>3. Differ' BY <1>2 DEF TickForget, Inv, ForgetPending, Differ, Scheduling, Removing
  <2>4. Gone' BY <1>2 DEF TickForget, Inv, Gone
  <2>5. Kept' BY <1>2 DEF TickForget, Inv, Kept, Settled, Returning
  <2> QED BY <2>1, <2>2, <2>3, <2>4, <2>5 DEF Inv
<1>3. CASE TickEnd(k)
  <2>1. InsertPending' BY <1>3 DEF TickEnd, Inv, InsertPending
  <2>2. ForgetPending' BY <1>3 DEF TickEnd, Inv, ForgetPending
  <2>3. Differ' BY <1>3 DEF TickEnd, Inv, Differ, Scheduling, Removing
  <2>4. Gone' BY <1>3 DEF TickEnd, Inv, Gone
  <2>5. Kept' BY <1>3 DEF TickEnd, Inv, Kept, Settled, Returning, Once
  <2> QED BY <2>1, <2>2, <2>3, <2>4, <2>5 DEF Inv
<1>4. ASSUME NEW t \in TimerIds, TickDelete(k, t) PROVE Inv'
  <2>1. InsertPending' BY <1>4 DEF TickDelete, Inv, InsertPending
  <2>2. ForgetPending' BY <1>4 DEF TickDelete, Inv, ForgetPending
  <2>3. Differ' BY <1>4 DEF TickDelete, Inv, Differ, Scheduling, Removing
  <2>4. Gone' BY <1>4 DEF TickDelete, Inv, Gone
  <2>5. Kept' BY <1>4 DEF TickDelete, Inv, Kept, Settled, Returning
  <2> QED BY <2>1, <2>2, <2>3, <2>4, <2>5 DEF Inv
<1> QED BY <1>1, <1>2, <1>3, <1>4 DEF Tick, TickGoesOn

LEMMA CrashStep ==
  ASSUME Types, Inv, failures' = 0, failures = 0, Crash
  PROVE  Inv'
<1> USE DEF Types, TypeOK, calls, ticks, ghosts, Fails, Crash
<1>1. mem' = db /\ UNCHANGED <<db, due, known, asked, cancelled, fired>>
  OBVIOUS
<1>2. InsertPending' /\ ForgetPending'  BY DEF InsertPending, ForgetPending
<1>3. Differ'  BY <1>1 DEF Differ
<1>4. Gone'  BY <1>1 DEF Inv, Gone
<1>5. Kept'
  BY <1>1 DEF Inv, Kept, Settled, Returning
<1> QED BY <1>2, <1>3, <1>4, <1>5 DEF Inv

\* Nothing takes a failure back.
LEMMA FailuresStay ==
  ASSUME Types, [Next]_vars, failures' = 0
  PROVE  failures = 0
BY DEF Types, TypeOK, Next, vars, calls, ticks, ghosts, Fails, Written, Continue, Call,
       Tick, TickGoesOn, Insert, Forget, SweepEnd, SweepOne, SweepBegin, Persist, Delete, TickBegin,
       TickForget, TickEnd, TickDelete, ComesDue, Crash

LEMMA IInvStep == Types /\ IInv /\ [Next]_vars => IInv'
<1> SUFFICES ASSUME Types, IInv, [Next]_vars, failures' = 0 PROVE Inv'
  BY DEF IInv
<1>1. failures = 0 /\ Inv  BY FailuresStay DEF IInv
<1>2. ASSUME NEW t \in TimerIds, ComesDue(t) PROVE Inv'
  BY <1>1, <1>2 DEF ComesDue, Types, TypeOK, calls, ticks, ghosts, Inv, InsertPending,
     ForgetPending, Differ, Scheduling, Removing, Gone, Kept, Settled, Returning
<1>3. CASE UNCHANGED vars
  BY <1>1, <1>3 DEF vars, calls, ticks, ghosts, Inv, InsertPending,
     ForgetPending, Differ, Scheduling, Removing, Gone, Kept, Settled, Returning
<1> QED BY <1>1, <1>2, <1>3, ProgramStep, TickStep, CrashStep DEF Next

LEMMA Invariance == Spec => [](Types /\ IInv)
BY TypesInit, TypesStep, IInvInit, IInvStep, PTL DEF Spec

\* A timer a program was told it removed is in neither place, so that no tick
\* and no restart brings it back.
THEOREM CancelIsFinal == Spec => []CancelledIsGone
<1>1. IInv => CancelledIsGone  BY DEF IInv, Inv, Gone, CancelledIsGone
<1> QED BY <1>1, Invariance, PTL

\* A timer is lost to nothing but a restart in the middle of a tick.
THEOREM NoTimerLost == Spec => []TimersSurvive
<1>1. IInv => TimersSurvive  BY DEF IInv, Inv, Kept, TimersSurvive
<1> QED BY <1>1, Invariance, PTL

\* Between calls the map and the table are the same set.
THEOREM MapAgrees == Spec => []MapMatchesTable
<1>1. Types /\ IInv => MapMatchesTable
  <2> SUFFICES ASSUME Types, IInv, failures = 0, ~Busy PROVE mem = db
    BY DEF MapMatchesTable
  <2>1. Differ  BY DEF IInv, Inv
  <2>2. \A t \in TimerIds : ~Scheduling(t) /\ ~Removing(t)
    BY DEF Busy, Scheduling, Removing
  <2>3. db \subseteq TimerIds /\ mem \subseteq TimerIds  BY DEF Types, TypeOK
  <2>4. \A t \in TimerIds : t \in mem <=> t \in db  BY <2>1, <2>2 DEF Differ
  <2> QED BY <2>3, <2>4
<1> QED BY <1>1, Invariance, PTL

----------------------------------------------------------------------------
\* The server, like the tests, has one loop that ticks if it has any.
OneTicker == \A j, k \in Tickers : j = k

\* A timer that is being scheduled has been nowhere yet.
Fresh ==
    /\ \A t \in TimerIds : fired[t] > 0 => t \in due
    /\ \A p \in Programs : pc[p] = "insert" =>
          /\ arg[p] \notin mem /\ fired[arg[p]] = 0
          /\ \A k \in Tickers : arg[p] \notin todo[k] \cup out[k]
          /\ \A q \in Programs \ {p} : pc[q] = "insert" => arg[q] # arg[p]

\* What a tick has still to do has not been done, what it has done or an
\* earlier tick has returned does not come back to the map, nor, if writes
\* succeed, to the table.
Pending ==
    \A k \in Tickers :
       /\ tpc[k] = "idle" => todo[k] = {} /\ out[k] = {}
       /\ \A t \in todo[k] : fired[t] = 0 /\ t \notin out[k]
       /\ \A t \in out[k] :
             /\ fired[t] = 0
             /\ t \in mem => tpc[k] = "forget" /\ now[k] = t
             /\ failures = 0 => t \notin db
Past ==
    \A t \in TimerIds : /\ fired[t] <= 1
                        /\ fired[t] = 1 => t \notin mem /\ (failures = 0 => t \notin db)

OnceInv == crashes = 0 \/ failures = 0 => Pending /\ Past

LEMMA OnceInit == Init => Fresh /\ OnceInv
  BY DEF Init, Fresh, OnceInv, Pending, Past

LEMMA FreshStep == OneTicker /\ Types /\ Fresh /\ [Next]_vars => Fresh'
<1> SUFFICES ASSUME OneTicker, Types, Fresh, [Next]_vars PROVE Fresh'
  OBVIOUS
<1> USE DEF Types, TypeOK, Bounded, calls, ticks, ghosts, Fresh
<1>1. ASSUME NEW p \in Programs, Continue(p) \/ Call(p) PROVE Fresh'
  <2>1. CASE Insert(p)  BY <2>1 DEF Insert
  <2>2. CASE Forget(p)  BY <2>2 DEF Forget
  <2>3. CASE SweepEnd(p)  BY <2>3 DEF SweepEnd
  <2>4. ASSUME NEW t \in TimerIds, SweepOne(p, t) PROVE Fresh'  BY <2>4 DEF SweepOne
  <2>5. CASE SweepBegin(p)  BY <2>5 DEF SweepBegin
  <2>6. ASSUME NEW t \in TimerIds, Persist(p, t) PROVE Fresh'  BY <2>6 DEF Persist
  <2>7. ASSUME NEW t \in TimerIds, Delete(p, t) PROVE Fresh'  BY <2>7 DEF Delete
  <2> QED BY <1>1, <2>1, <2>2, <2>3, <2>4, <2>5, <2>6, <2>7 DEF Continue, Call
<1>2. ASSUME NEW k \in Tickers, Tick(k) PROVE Fresh'
  <2>1. CASE TickBegin(k)  BY <2>1 DEF TickBegin
  <2>2. CASE TickForget(k)  BY <2>2 DEF TickForget
  <2>3. CASE TickEnd(k)  BY <2>3 DEF TickEnd, Once
  <2>4. ASSUME NEW t \in TimerIds, TickDelete(k, t) PROVE Fresh'  BY <2>4 DEF TickDelete
  <2> QED BY <1>2, <2>1, <2>2, <2>3, <2>4 DEF Tick, TickGoesOn
<1>3. ASSUME NEW t \in TimerIds, ComesDue(t) PROVE Fresh'  BY <1>3 DEF ComesDue
<1>4. CASE Crash  BY <1>4 DEF Crash, Fails
<1>5. CASE UNCHANGED vars  BY <1>5 DEF vars
<1> QED BY <1>1, <1>2, <1>3, <1>4, <1>5 DEF Next

LEMMA OnceStep == OneTicker /\ Types /\ Fresh /\ OnceInv /\ [Next]_vars => OnceInv'
<1> SUFFICES ASSUME OneTicker, Types, Fresh, OnceInv, [Next]_vars,
                    crashes' = 0 \/ failures' = 0
             PROVE  Pending' /\ Past'
  BY DEF OnceInv
<1> USE DEF Types, TypeOK, Bounded, calls, ticks, ghosts, Written, Fails
<1>1. ASSUME NEW p \in Programs, Continue(p) \/ Call(p) PROVE Pending' /\ Past'
  <2>1. CASE Insert(p)  BY <2>1 DEF Insert, Fresh, OnceInv, Pending, Past
  <2>2. CASE Forget(p)  BY <2>2 DEF Forget, OnceInv, Pending, Past
  <2>3. CASE SweepEnd(p)  BY <2>3 DEF SweepEnd, OnceInv, Pending, Past
  <2>4. ASSUME NEW t \in TimerIds, SweepOne(p, t) PROVE Pending' /\ Past'
    BY <2>4 DEF SweepOne, OnceInv, Pending, Past
  <2>5. CASE SweepBegin(p)  BY <2>5 DEF SweepBegin, OnceInv, Pending, Past
  <2>6. ASSUME NEW t \in TimerIds, Persist(p, t) PROVE Pending' /\ Past'
    BY <2>6 DEF Persist, Fresh, OnceInv, Pending, Past
  <2>7. ASSUME NEW t \in TimerIds, Delete(p, t) PROVE Pending' /\ Past'
    BY <2>7 DEF Delete, OnceInv, Pending, Past
  <2> QED BY <1>1, <2>1, <2>2, <2>3, <2>4, <2>5, <2>6, <2>7 DEF Continue, Call
<1>2. ASSUME NEW k \in Tickers, Tick(k) PROVE Pending' /\ Past'
  <2> USE DEF OneTicker
  <2>1. CASE TickBegin(k)  BY <2>1 DEF TickBegin, OnceInv, Pending, Past
  <2>2. CASE TickForget(k)  BY <2>2 DEF TickForget, OnceInv, Pending, Past
  <2>3. CASE TickEnd(k)
    <3>1. Pending /\ Past  BY <2>3 DEF TickEnd, OnceInv
    <3>2. \A j \in Tickers : out'[j] = {} /\ todo'[j] = {} /\ tpc'[j] = "idle"
      BY <2>3 DEF TickEnd
    <3>3. \A t \in TimerIds : IF t \in out[k] THEN fired'[t] = 1 ELSE fired'[t] = fired[t]
      BY <2>3, <3>1 DEF TickEnd, Once, Pending
    <3>4. \A t \in out[k] : t \notin mem /\ (failures = 0 => t \notin db)
      BY <2>3, <3>1 DEF TickEnd, Pending
    <3>5. UNCHANGED <<mem, db, failures>>  BY <2>3 DEF TickEnd
    <3> QED BY <3>1, <3>2, <3>3, <3>4, <3>5 DEF Pending, Past
  <2>4. ASSUME NEW t \in TimerIds, TickDelete(k, t) PROVE Pending' /\ Past'
    BY <2>4 DEF TickDelete, OnceInv, Pending, Past
  <2> QED BY <1>2, <2>1, <2>2, <2>3, <2>4 DEF Tick, TickGoesOn
<1>3. ASSUME NEW t \in TimerIds, ComesDue(t) PROVE Pending' /\ Past'
  BY <1>3 DEF ComesDue, OnceInv, Pending, Past
<1>4. CASE Crash
  <2>1. failures = 0 /\ mem' = db /\ UNCHANGED <<db, fired>>
    BY <1>4 DEF Crash
  <2>2. Pending'  BY <1>4 DEF Crash, Pending
  <2>3. Past'  BY <2>1 DEF OnceInv, Past
  <2> QED BY <2>2, <2>3
<1>5. CASE UNCHANGED vars  BY <1>5 DEF vars, OnceInv, Pending, Past
<1> QED BY <1>1, <1>2, <1>3, <1>4, <1>5 DEF Next

\* With one loop that ticks no callback runs twice, as long as the server does
\* not restart or its writes succeed.
THEOREM FireOnce == OneTicker /\ Spec => []FiresOnce
<1> SUFFICES ASSUME OneTicker PROVE Spec => []FiresOnce
  OBVIOUS
<1>1. Types /\ Fresh /\ [Next]_vars => Fresh'  BY FreshStep
<1>2. Types /\ Fresh /\ OnceInv /\ [Next]_vars => OnceInv'  BY OnceStep
<1>3. OnceInv => FiresOnce  BY DEF OnceInv, Past, FiresOnce
<1> QED BY <1>1, <1>2, <1>3, TypesInit, TypesStep, OnceInit, PTL DEF Spec
=============================================================================
