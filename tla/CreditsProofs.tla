--------------------------- MODULE CreditsProofs ---------------------------
(***************************************************************************)
(* Proofs about Credits, for any number of calls in progress and any       *)
(* amounts.                                                                *)
(***************************************************************************)
EXTENDS Credits, TLAPS

USE CreditsAssumption

\* What a call carries is never negative either.
NoDebt == NeverNegative /\ \A t \in Tasks : value[t] >= 0

LEMMA TypeInit == Init => TypeOK /\ NoDebt
<1> SUFFICES ASSUME Init PROVE TypeOK /\ NoDebt
  OBVIOUS
<1>1. /\ pc \in [Tasks -> {"idle", "load", "fill", "save"}]
      /\ value \in [Tasks -> Int]
      /\ price \in [Tasks -> Amounts \cup {0}]
      /\ \A t \in Tasks : pc[t] = "idle" /\ value[t] = 0
  BY DEF Init
<1>2. \A t \in Tasks : (lock = t) = (pc[t] = "save")
  BY <1>1 DEF Init
<1>3. TypeOK
  <2>1. /\ db = 0 /\ cache = None /\ lock = None /\ refused = 0 /\ crashes = 0
        /\ crossed = {} /\ parted = FALSE /\ blind = FALSE
    BY DEF Init
  <2>2. /\ db \in Int /\ cache \in Int \cup {None} /\ lock \in Tasks \cup {None}
        /\ refused \in Amounts \cup {0}
    BY <2>1
  <2>3. crossed \subseteq Tasks /\ parted \in BOOLEAN /\ blind \in BOOLEAN
    BY <2>1, Zenon
  <2>4. crashes \in 0..MaxCrashes
    BY <2>1
  <2> QED
    BY <1>1, <1>2, <2>2, <2>3, <2>4 DEF TypeOK
<1>4. NoDebt
  <2>1. db = 0 /\ cache = None
    BY DEF Init
  <2> QED
    BY <1>1, <2>1 DEF NoDebt, NeverNegative, Current
<1> QED
  BY <1>3, <1>4

LEMMA TypeStep == TypeOK /\ [Next]_vars => TypeOK'
<1> SUFFICES ASSUME TypeOK, [Next]_vars PROVE TypeOK'
  OBVIOUS
<1> USE DEF TypeOK, Current, history
<1>1. ASSUME NEW t \in Tasks, Step(t) PROVE TypeOK'
  <2>1. CASE GetLoad(t)  BY <2>1 DEF GetLoad
  <2>2. CASE GetFails(t)  BY <2>2 DEF GetFails
  <2>3. CASE GetFill(t)  BY <2>3 DEF GetFill
  <2>4. CASE SaveFails(t)  BY <2>4 DEF SaveFails, Return
  <2>5. CASE Save(t)
    <3>1. crossed' \subseteq Tasks /\ parted' \in BOOLEAN /\ UNCHANGED <<crashes, blind, cache>>
      BY <2>5 DEF Save
    <3>2. /\ db' \in Int /\ refused' = 0 /\ lock' = None
          /\ pc' = [pc EXCEPT ![t] = "idle"]
          /\ value' = [value EXCEPT ![t] = 0] /\ price' = [price EXCEPT ![t] = 0]
          /\ lock = t
      BY <2>5 DEF Save, Return
    <3> QED BY <3>1, <3>2
  <2> QED BY <1>1, <2>1, <2>2, <2>3, <2>4, <2>5 DEF Step
<1>2. ASSUME NEW t \in Tasks, Call(t) PROVE TypeOK'
  <2>1. CASE GetMiss(t)  BY <2>1 DEF GetMiss
  <2>2. ASSUME NEW a \in Amounts, Refuse(t, a) PROVE TypeOK'  BY <2>2 DEF Refuse
  <2>3. ASSUME NEW a \in Amounts, Deduct(t, a) PROVE TypeOK'  BY <2>3 DEF Deduct
  <2>4. ASSUME NEW a \in Amounts, Grant(t, a) PROVE TypeOK'  BY <2>4 DEF Grant
  <2> QED BY <1>2, <2>1, <2>2, <2>3, <2>4 DEF Call
<1>3. CASE Crash
  <2>1. /\ pc' \in [Tasks -> {"idle", "load", "fill", "save"}]
        /\ value' \in [Tasks -> Int]
        /\ price' \in [Tasks -> Amounts \cup {0}]
        /\ \A t \in Tasks : (lock' = t) = (pc'[t] = "save")
    BY <1>3 DEF Crash
  <2>2. crashes' \in 0..MaxCrashes /\ db' = db /\ refused' = 0 /\ cache' = None /\ lock' = None
    BY <1>3 DEF Crash
  <2> QED BY <1>3, <2>1, <2>2 DEF Crash
<1>4. CASE UNCHANGED vars  BY <1>4 DEF vars, history
<1> QED BY <1>1, <1>2, <1>3, <1>4 DEF Next

LEMMA NoDebtStep == TypeOK /\ NoDebt /\ [Next]_vars => NoDebt'
<1> SUFFICES ASSUME TypeOK, NoDebt, [Next]_vars PROVE NoDebt'
  OBVIOUS
<1> USE DEF TypeOK, NoDebt, NeverNegative, Current, history
<1>1. ASSUME NEW t \in Tasks, Step(t) PROVE NoDebt'
  <2>1. CASE GetLoad(t)  BY <2>1 DEF GetLoad
  <2>2. CASE GetFails(t)  BY <2>2 DEF GetFails
  <2>3. CASE GetFill(t)  BY <2>3 DEF GetFill
  <2>4. CASE SaveFails(t)  BY <2>4 DEF SaveFails, Return
  <2>5. CASE Save(t)  BY <2>5 DEF Save, Return
  <2> QED BY <1>1, <2>1, <2>2, <2>3, <2>4, <2>5 DEF Step
<1>2. ASSUME NEW t \in Tasks, Call(t) PROVE NoDebt'
  <2>1. CASE GetMiss(t)  BY <2>1 DEF GetMiss
  <2>2. ASSUME NEW a \in Amounts, Refuse(t, a) PROVE NoDebt'  BY <2>2 DEF Refuse
  <2>3. ASSUME NEW a \in Amounts, Deduct(t, a) PROVE NoDebt'  BY <2>3 DEF Deduct
  <2>4. ASSUME NEW a \in Amounts, Grant(t, a) PROVE NoDebt'  BY <2>4 DEF Grant
  <2> QED BY <1>2, <2>1, <2>2, <2>3, <2>4 DEF Call
<1>3. CASE Crash  BY <1>3 DEF Crash
<1>4. CASE UNCHANGED vars  BY <1>4 DEF vars, history
<1> QED BY <1>1, <1>2, <1>3, <1>4 DEF Next

\* The variables keep their types.
THEOREM TypeCorrect == Spec => []TypeOK
<1>1. Init => TypeOK  BY TypeInit
<1> QED BY <1>1, TypeStep, PTL DEF Spec

\* No interleaving of deduct, grant and get_balance, no failed write and no
\* restart lets a purchase take a balance below zero.
THEOREM NoOverdraft == Spec => []NeverNegative
<1>1. Init => NoDebt  BY TypeInit
<1>2. NoDebt => NeverNegative  BY DEF NoDebt
<1> QED BY <1>1, <1>2, TypeCorrect, NoDebtStep, PTL DEF Spec

----------------------------------------------------------------------------
\* The holder of the lock is about to write what is cached, and a lookup that no
\* write has overtaken is about to cache what is in the row.
AgreeInv ==
    /\ CacheMatchesRow
    /\ \A t \in Tasks : lock = t => cache = value[t]
    /\ \A t \in Tasks : pc[t] = "fill" /\ t \notin crossed => value[t] = db

LEMMA AgreeInit == Init => AgreeInv /\ RefusedMeansInsufficient
  BY DEF Init, AgreeInv, CacheMatchesRow, RefusedMeansInsufficient

LEMMA AgreeStep == TypeOK /\ AgreeInv /\ [Next]_vars => AgreeInv'
<1> SUFFICES ASSUME TypeOK, AgreeInv, [Next]_vars PROVE AgreeInv'
  OBVIOUS
<1> USE DEF TypeOK, AgreeInv, CacheMatchesRow, Current, history
<1>1. ASSUME NEW t \in Tasks, Step(t) PROVE AgreeInv'
  <2>1. CASE GetLoad(t)  BY <2>1 DEF GetLoad
  <2>2. CASE GetFails(t)  BY <2>2 DEF GetFails
  <2>3. CASE GetFill(t)  BY <2>3 DEF GetFill
  <2>4. CASE SaveFails(t)  BY <2>4 DEF SaveFails, Return
  <2>5. CASE Save(t)  BY <2>5 DEF Save, Return
  <2> QED BY <1>1, <2>1, <2>2, <2>3, <2>4, <2>5 DEF Step
<1>2. ASSUME NEW t \in Tasks, Call(t) PROVE AgreeInv'
  <2>1. CASE GetMiss(t)  BY <2>1 DEF GetMiss
  <2>2. ASSUME NEW a \in Amounts, Refuse(t, a) PROVE AgreeInv'  BY <2>2 DEF Refuse
  <2>3. ASSUME NEW a \in Amounts, Deduct(t, a) PROVE AgreeInv'  BY <2>3 DEF Deduct
  <2>4. ASSUME NEW a \in Amounts, Grant(t, a) PROVE AgreeInv'  BY <2>4 DEF Grant
  <2> QED BY <1>2, <2>1, <2>2, <2>3, <2>4 DEF Call
<1>3. CASE Crash  BY <1>3 DEF Crash
<1>4. CASE UNCHANGED vars  BY <1>4 DEF vars, history
<1> QED BY <1>1, <1>2, <1>3, <1>4 DEF Next

\* For any number of calls, with fills, failures and restarts: between writes a
\* cached balance is the row's, unless the last write failed or a lookup cached
\* what it had read before it.
THEOREM CacheAgrees == Spec => []CacheMatchesRow
<1>1. Init => AgreeInv  BY AgreeInit
<1>2. AgreeInv => CacheMatchesRow  BY DEF AgreeInv
<1> QED BY <1>1, <1>2, AgreeStep, TypeCorrect, PTL DEF Spec

\* A refusal that saw a balance which had not parted from the row saw the row,
\* and the next write ends it.
LEMMA RefusedStep ==
  TypeOK /\ AgreeInv /\ RefusedMeansInsufficient /\ [Next]_vars => RefusedMeansInsufficient'
<1> SUFFICES ASSUME TypeOK, AgreeInv, RefusedMeansInsufficient, [Next]_vars
             PROVE  RefusedMeansInsufficient'
  OBVIOUS
<1> USE DEF RefusedMeansInsufficient, history
<1>1. ASSUME NEW t \in Tasks, Step(t) PROVE RefusedMeansInsufficient'
  BY <1>1 DEF Step, GetLoad, GetFails, GetFill, SaveFails, Save
<1>2. ASSUME NEW t \in Tasks, Call(t) PROVE RefusedMeansInsufficient'
  <2>1. ASSUME NEW a \in Amounts, Refuse(t, a) PROVE RefusedMeansInsufficient'
    <3>1. cache # None /\ ~parted => Current = db
      BY <2>1 DEF Refuse, AgreeInv, CacheMatchesRow, Current
    <3> QED BY <2>1, <3>1 DEF Refuse
  <2>2. ASSUME NEW a \in Amounts, Deduct(t, a) \/ Grant(t, a)
        PROVE  RefusedMeansInsufficient'
    BY <2>2 DEF Deduct, Grant
  <2>3. CASE GetMiss(t)  BY <2>3 DEF GetMiss, history
  <2> QED BY <1>2, <2>1, <2>2, <2>3 DEF Call
<1>3. CASE Crash  BY <1>3 DEF Crash
<1>4. CASE UNCHANGED vars  BY <1>4 DEF vars, history
<1> QED BY <1>1, <1>2, <1>3, <1>4 DEF Next

\* deduct says false to a purchase that the player's row covers only if the
\* balance was not cached or had parted from the row, whatever fills, fails or
\* restarts.
THEOREM RefusalIsHonest == Spec => []RefusedMeansInsufficient
<1>1. Init => AgreeInv /\ RefusedMeansInsufficient  BY AgreeInit
<1> QED BY <1>1, AgreeStep, RefusedStep, TypeCorrect, PTL DEF Spec

----------------------------------------------------------------------------
\* One process, no failed write, and nobody asks for the balance.
Quiet ==
    /\ Operations \subseteq {"deduct", "grant"}
    /\ Failures = FALSE
    /\ MaxCrashes = 0

\* Who holds the lock is about to write; the row is one amount away from what
\* will be written, and otherwise it is what the cache says.
WriterInv ==
    /\ \A t \in Tasks : pc[t] = (IF lock = t THEN "save" ELSE "idle")
    /\ lock = None => Current = db
    /\ \A t \in Tasks : lock = t =>
          /\ cache = value[t]
          /\ \E a \in Amounts :
                \/ price[t] = a /\ db >= a /\ value[t] = db - a
                \/ price[t] = 0 /\ value[t] = db + a

LEMMA WriterInit == Init => WriterInv
  BY DEF Init, WriterInv, Current

LEMMA WriterStep == Quiet /\ TypeOK /\ WriterInv /\ [Next]_vars => WriterInv'
<1> SUFFICES ASSUME Quiet, TypeOK, WriterInv, [Next]_vars PROVE WriterInv'
  OBVIOUS
<1> USE DEF TypeOK, WriterInv, Current
<1>1. ASSUME NEW t \in Tasks, Step(t) PROVE WriterInv'
  <2>1. Save(t)
    <3>1. pc[t] \in {"save", "idle"}  OBVIOUS
    <3> QED BY <1>1, <3>1 DEF Step, GetLoad, GetFails, GetFill, SaveFails, Quiet
  <2>2. lock = t /\ lock' = None /\ db' = value[t] /\ cache' = cache
    BY <2>1 DEF Save, Return
  <2>3. \A u \in Tasks : pc'[u] = "idle"
    BY <2>1, <2>2 DEF Save, Return
  <2> QED BY <2>2, <2>3
<1>2. ASSUME NEW t \in Tasks, Call(t) PROVE WriterInv'
  <2>1. ASSUME NEW a \in Amounts, Refuse(t, a) PROVE WriterInv'  BY <2>1 DEF Refuse
  <2>2. ASSUME NEW a \in Amounts, Deduct(t, a) PROVE WriterInv'  BY <2>2 DEF Deduct
  <2>3. ASSUME NEW a \in Amounts, Grant(t, a) PROVE WriterInv'  BY <2>3 DEF Grant
  <2>4. ~GetMiss(t)  BY DEF GetMiss, Quiet
  <2> QED BY <1>2, <2>1, <2>2, <2>3, <2>4 DEF Call
<1>3. ~Crash
  <2>1. MaxCrashes = 0 /\ crashes \in 0..MaxCrashes  BY DEF Quiet
  <2> QED BY <2>1 DEF Crash
<1>4. CASE UNCHANGED vars  BY <1>4 DEF vars, history
<1> QED BY <1>1, <1>2, <1>3, <1>4 DEF Next

\* Each write of the row is a grant or a covered purchase.
LEMMA BookStep == TypeOK /\ WriterInv /\ Quiet /\ [Next]_vars => [Book!Booked]_db
<1> SUFFICES ASSUME TypeOK, WriterInv, Quiet, [Next]_vars PROVE Book!Booked \/ db' = db
  OBVIOUS
<1>1. ASSUME NEW t \in Tasks, Step(t) PROVE Book!Booked \/ db' = db
  <2>1. CASE Save(t)
    <3>1. lock = t /\ db' = value[t]
      BY <2>1 DEF Save, WriterInv
    <3>2. PICK a \in Amounts : \/ db >= a /\ value[t] = db - a
                               \/ value[t] = db + a
      BY <3>1 DEF WriterInv
    <3> QED BY <3>1, <3>2 DEF Book!Booked, Book!Granted, Book!Deducted
  <2> QED BY <1>1, <2>1 DEF Step, GetLoad, GetFails, GetFill, SaveFails
<1>2. ASSUME NEW t \in Tasks, Call(t) PROVE Book!Booked \/ db' = db
  BY <1>2 DEF Call, GetMiss, Refuse, Deduct, Grant
<1>3. CASE Crash  BY <1>3 DEF Crash
<1>4. CASE UNCHANGED vars  BY <1>4 DEF vars, history
<1> QED BY <1>1, <1>2, <1>3, <1>4 DEF Next

\* While no cache is cold, no write fails and nothing restarts, the row changes
\* as the book of credits does: holding the lock over the write keeps concurrent
\* purchases from being lost or paid twice.
THEOREM BookRefinement == Quiet /\ Spec => ImplementsCreditBook
<1> SUFFICES ASSUME Quiet PROVE Spec => ImplementsCreditBook
  OBVIOUS
<1>1. Init => Book!Opened  BY DEF Init, Book!Opened
<1>2. TypeOK /\ WriterInv /\ [Next]_vars => WriterInv'  BY WriterStep
<1>3. TypeOK /\ WriterInv /\ [Next]_vars => [Book!Booked]_db  BY BookStep
<1> QED BY <1>1, <1>2, <1>3, TypeCorrect, WriterInit, PTL
        DEF Spec, ImplementsCreditBook, Book!Spec
============================================================================
