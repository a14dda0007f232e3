------------------------- MODULE RaftStorageProofs -------------------------
(***************************************************************************)
(* What holds of RaftStorage for every value of its bounds.  A node that   *)
(* no peer sends a snapshot to keeps an inductive invariant: the progress  *)
(* counters are ordered                                                    *)
(*     purgedDb <= appliedDb <= lastApplied <= committed                   *)
(* and everything up to lastApplied has run.  The last section is about    *)
(* the one-node deployment of RaftNode, which starts over such a storage.  *)
(***************************************************************************)
EXTENDS RaftNode, TLAPS

\* No peer sends this node a snapshot.
NoPeer == PeerSnapshots = FALSE

\* The order of the counters, in the tables and in memory.
Counters ==
    /\ appliedDb <= committed
    /\ purgedDb <= appliedDb
    /\ engineSnap <= appliedDb
    /\ snapshot = 0
    /\ builder.live => builder.applied <= appliedDb
    /\ running => /\ appliedDb <= lastApplied
                  /\ lastApplied <= committed
                  /\ lastPurged <= appliedDb
    /\ running /\ op.name # "apply" => lastApplied = appliedDb
    /\ ~running => op = Idle

\* What the method in progress may still do.
InProgress ==
    /\ op.name = "vote" => op.to \in Term
    /\ op.name = "purge" => op.to <= appliedDb
    /\ op.name = "apply" => /\ op.from = lastApplied + 1
                            /\ op.from <= op.to + 1
                            /\ op.to <= committed

\* openraft knows the entry behind each committed index.
ChosenKnown == \A i \in Index : i <= committed => chosen[i] # NoRow

\* Execution has reached lastApplied, and never an index not committed.
Executed ==
    /\ \A i \in Index : execs[i] > 0 => i <= committed
    /\ \A i \in Index :
          /\ i <= appliedDb \/ (running /\ i <= lastApplied)
          /\ RunsSql(chosen[i])
          => execs[i] >= 1

IInv ==
    /\ NoPeer
    /\ TypeOK
    /\ Counters
    /\ InProgress
    /\ ChosenKnown
    /\ NoCommittedLost
    /\ Executed
    /\ ExecutedInOrder

\* The rows AppendToLog is called with start right after the last log index.
LEMMA LastLogCoversCommitted ==
    ASSUME IInv, NEW n, IsLastLog(n), NEW i \in Index, i <= committed, i > appliedDb
    PROVE  i <= n
BY DEF IInv, NoCommittedLost, ChosenKnown, IsLastLog, Stored, Index, TypeOK

LEMMA InitIInv == NoPeer /\ Init => IInv
<1> SUFFICES ASSUME NoPeer, Init PROVE IInv
  OBVIOUS
<1>1. TypeOK
  BY BoundsAssumption DEF Init, TypeOK, Index, Term, Idle, NoBuilder
<1>2. Counters /\ InProgress
  BY BoundsAssumption DEF Init, Counters, InProgress, Idle, NoBuilder
<1>3. ChosenKnown /\ NoCommittedLost /\ Executed /\ ExecutedInOrder
  BY DEF Init, ChosenKnown, NoCommittedLost, Executed, ExecutedInOrder, Index
<1> QED
  BY <1>1, <1>2, <1>3 DEF IInv, NoPeer

\* Every step keeps the invariant; one case per action of Next.
LEMMA NextIInv == IInv /\ [Next]_vars => IInv'
<1> SUFFICES ASSUME IInv, [Next]_vars PROVE IInv'
  OBVIOUS
<1> USE BoundsAssumption, NoRowAssumption DEF Index, Idle, NoBuilder, Free, tables, fields, openraft
<1> USE DEF IInv, TypeOK, Counters, InProgress, ChosenKnown, NoCommittedLost, Executed,
            ExecutedInOrder
<1>1. CASE ReadState
  <2>1. TypeOK'
    BY <1>1 DEF ReadState, vars
  <2>2. Counters'
    BY <1>1 DEF ReadState, vars
  <2>3. InProgress'
    BY <1>1 DEF ReadState, vars
  <2>4. ChosenKnown'
    BY <1>1 DEF ReadState, vars
  <2>5. NoCommittedLost'
    BY <1>1 DEF ReadState, vars
  <2>6. Executed'
    BY <1>1 DEF ReadState, vars
  <2>7. ExecutedInOrder'
    BY <1>1 DEF ReadState, vars
  <2> QED
    BY <2>1, <2>2, <2>3, <2>4, <2>5, <2>6, <2>7 DEF NoPeer
<1>2. ASSUME NEW t \in Term, SaveVoteStore(t) PROVE IInv'
  <2>1. TypeOK'
    BY <1>2 DEF Term, SaveVoteStore
  <2>2. Counters'
    BY <1>2 DEF SaveVoteStore
  <2>3. InProgress'
    BY <1>2 DEF SaveVoteStore
  <2>4. ChosenKnown'
    BY <1>2 DEF SaveVoteStore
  <2>5. NoCommittedLost'
    BY <1>2 DEF SaveVoteStore
  <2>6. Executed'
    BY <1>2 DEF SaveVoteStore
  <2>7. ExecutedInOrder'
    BY <1>2 DEF SaveVoteStore
  <2> QED
    BY <2>1, <2>2, <2>3, <2>4, <2>5, <2>6, <2>7 DEF NoPeer
<1>3. CASE SaveVoteReturn
  <2>1. TypeOK'
    BY <1>3 DEF SaveVoteReturn
  <2>2. Counters'
    BY <1>3 DEF SaveVoteReturn
  <2>3. InProgress'
    BY <1>3 DEF SaveVoteReturn
  <2>4. ChosenKnown'
    BY <1>3 DEF SaveVoteReturn
  <2>5. NoCommittedLost'
    BY <1>3 DEF SaveVoteReturn
  <2>6. Executed'
    BY <1>3 DEF SaveVoteReturn
  <2>7. ExecutedInOrder'
    BY <1>3 DEF SaveVoteReturn
  <2> QED
    BY <2>1, <2>2, <2>3, <2>4, <2>5, <2>6, <2>7 DEF NoPeer
<1>4. ASSUME NEW n \in 0..MaxIndex, NEW k \in 1..MaxBatch,
            IsLastLog(n), n + k <= MaxIndex,
            NEW rows \in [(n + 1)..(n + k) -> Row], AppendToLog(rows)
     PROVE  IInv'
  <2>1. TypeOK'
    BY <1>4, LastLogCoversCommitted DEF AppendToLog
  <2>2. Counters'
    BY <1>4, LastLogCoversCommitted DEF AppendToLog
  <2>3. InProgress'
    BY <1>4, LastLogCoversCommitted DEF AppendToLog
  <2>4. ChosenKnown'
    BY <1>4, LastLogCoversCommitted DEF AppendToLog
  <2>5. NoCommittedLost'
    BY <1>4, LastLogCoversCommitted DEF AppendToLog
  <2>6. Executed'
    BY <1>4, LastLogCoversCommitted DEF AppendToLog
  <2>7. ExecutedInOrder'
    BY <1>4, LastLogCoversCommitted DEF AppendToLog
  <2> QED
    BY <2>1, <2>2, <2>3, <2>4, <2>5, <2>6, <2>7 DEF NoPeer
<1>5. ASSUME NEW i \in Index, DeleteConflictLogsSince(i) PROVE IInv'
  <2>1. TypeOK'
    BY <1>5 DEF DeleteConflictLogsSince, Stored
  <2>2. Counters'
    BY <1>5 DEF DeleteConflictLogsSince, Stored
  <2>3. InProgress'
    BY <1>5 DEF DeleteConflictLogsSince, Stored
  <2>4. ChosenKnown'
    BY <1>5 DEF DeleteConflictLogsSince, Stored
  <2>5. NoCommittedLost'
    BY <1>5 DEF DeleteConflictLogsSince, Stored
  <2>6. Executed'
    BY <1>5 DEF DeleteConflictLogsSince, Stored
  <2>7. ExecutedInOrder'
    BY <1>5 DEF DeleteConflictLogsSince, Stored
  <2> QED
    BY <2>1, <2>2, <2>3, <2>4, <2>5, <2>6, <2>7 DEF NoPeer
<1>6. ASSUME NEW i \in Index, PurgeDelete(i) PROVE IInv'
  <2>1. TypeOK'
    BY <1>6 DEF PurgeDelete, Purgeable, LogBehind
  <2>2. Counters'
    BY <1>6 DEF PurgeDelete, Purgeable, LogBehind
  <2>3. InProgress'
    BY <1>6 DEF PurgeDelete, Purgeable, LogBehind
  <2>4. ChosenKnown'
    BY <1>6 DEF PurgeDelete, Purgeable, LogBehind
  <2>5. NoCommittedLost'
    BY <1>6 DEF PurgeDelete, Purgeable, LogBehind
  <2>6. Executed'
    BY <1>6 DEF PurgeDelete, Purgeable, LogBehind
  <2>7. ExecutedInOrder'
    BY <1>6 DEF PurgeDelete, Purgeable, LogBehind
  <2> QED
    BY <2>1, <2>2, <2>3, <2>4, <2>5, <2>6, <2>7 DEF NoPeer
<1>7. CASE PurgeRecord
  <2>1. TypeOK'
    BY <1>7 DEF PurgeRecord
  <2>2. Counters'
    BY <1>7 DEF PurgeRecord
  <2>3. InProgress'
    BY <1>7 DEF PurgeRecord
  <2>4. ChosenKnown'
    BY <1>7 DEF PurgeRecord
  <2>5. NoCommittedLost'
    BY <1>7 DEF PurgeRecord
  <2>6. Executed'
    BY <1>7 DEF PurgeRecord
  <2>7. ExecutedInOrder'
    BY <1>7 DEF PurgeRecord
  <2> QED
    BY <2>1, <2>2, <2>3, <2>4, <2>5, <2>6, <2>7 DEF NoPeer
<1>8. ASSUME NEW n \in Index, ApplyBegin(n) PROVE IInv'
  <2>1. TypeOK'
    BY <1>8 DEF ApplyBegin
  <2>2. Counters'
    BY <1>8 DEF ApplyBegin
  <2>3. InProgress'
    BY <1>8 DEF ApplyBegin
  <2>4. ChosenKnown'
    BY <1>8 DEF ApplyBegin
  <2>5. NoCommittedLost'
    BY <1>8 DEF ApplyBegin
  <2>6. Executed'
    BY <1>8 DEF ApplyBegin
  <2>7. ExecutedInOrder'
    BY <1>8 DEF ApplyBegin
  <2> QED
    BY <2>1, <2>2, <2>3, <2>4, <2>5, <2>6, <2>7 DEF NoPeer
<1>9. CASE ApplyEntry
  <2> DEFINE cur == op.from
  <2>a. /\ cur \in Index /\ cur = lastApplied + 1 /\ cur <= committed
        /\ running /\ op.name = "apply" /\ op.from <= op.to /\ op.to \in Nat
    BY <1>9 DEF ApplyEntry
  <2>b. /\ op' = [name |-> "apply", from |-> cur + 1, to |-> op.to]
        /\ lastApplied' = cur
        /\ membership' \in {cur, membership}
    BY <1>9, <2>a DEF ApplyEntry
  <2>c. /\ execs' \in [Index -> Nat]
        /\ \A i \in Index : i # cur => execs'[i] = execs[i]
        /\ execs'[cur] >= execs[cur]
        /\ RunsSql(logDb[cur]) => execs'[cur] >= 1
    BY <1>9, <2>a DEF ApplyEntry
  <2>d. /\ UNCHANGED <<logDb, voteDb, purgedDb, appliedDb, vote, lastPurged>>
        /\ UNCHANGED <<snapshot, committed, chosen, engineSnap, running, builder, crashes>>
    BY <1>9 DEF ApplyEntry
  <2>e. logDb[cur] = chosen[cur]
    BY <2>a
  <2> HIDE DEF cur
  <2>1. TypeOK'
    BY <2>a, <2>b, <2>c, <2>d
  <2>2. Counters'
    BY <2>a, <2>b, <2>d
  <2>3. InProgress'
    BY <2>a, <2>b, <2>d
  <2>4. ChosenKnown'
    BY <2>d
  <2>5. NoCommittedLost'
    BY <2>d
  <2>f. \A i \in Index : i <= cur /\ RunsSql(chosen[i]) => execs'[i] >= 1
    <3> SUFFICES ASSUME NEW i \in Index, i <= cur, RunsSql(chosen[i])
                 PROVE  execs'[i] >= 1
      OBVIOUS
    <3>1. CASE i = cur
      BY <3>1, <2>c, <2>e
    <3>2. CASE i # cur
      <4>1. i <= lastApplied
        BY <3>2, <2>a
      <4> QED
        BY <3>2, <4>1, <2>a, <2>c
    <3> QED
      BY <3>1, <3>2
  <2>g. /\ committed \in 0..MaxIndex /\ appliedDb <= cur
        /\ \A i \in Index : execs'[i] > 0 => i <= committed
    BY <2>a, <2>c
  <2>6. Executed'
    BY <2>a, <2>b, <2>d, <2>f, <2>g
  <2>7. ExecutedInOrder'
    <3> SUFFICES ASSUME NEW i \in 1..committed, NEW j \in 1..committed,
                        i < j, RunsSql(chosen[i]), execs'[j] > 0
                 PROVE  execs'[i] > 0
      BY <2>d
    <3>1. i \in Index /\ j \in Index
      BY <2>g
    <3>2. CASE j <= cur
      BY <3>1, <3>2, <2>a, <2>c, <2>f
    <3>3. CASE j > cur
      <4>1. execs[j] > 0
        BY <3>1, <3>3, <2>a, <2>c
      <4>2. execs[i] > 0
        BY <4>1
      <4>3. CASE i = cur
        BY <3>1, <4>2, <4>3, <2>c, SMTT(30)
      <4>4. CASE i # cur
        <5>1. execs'[i] = execs[i]
          BY <3>1, <4>4, <2>c
        <5> QED
          BY <4>2, <5>1
      <4> QED
        BY <4>3, <4>4
    <3> QED
      BY <3>1, <3>2, <3>3, <2>a
  <2> QED
    BY <2>1, <2>2, <2>3, <2>4, <2>5, <2>6, <2>7 DEF NoPeer
<1>10. CASE ApplyRecord
  <2>1. TypeOK'
    BY <1>10 DEF ApplyRecord
  <2>2. Counters'
    BY <1>10 DEF ApplyRecord
  <2>3. InProgress'
    BY <1>10 DEF ApplyRecord
  <2>4. ChosenKnown'
    BY <1>10 DEF ApplyRecord
  <2>5. NoCommittedLost'
    BY <1>10 DEF ApplyRecord
  <2>6. Executed'
    BY <1>10 DEF ApplyRecord
  <2>7. ExecutedInOrder'
    BY <1>10 DEF ApplyRecord
  <2> QED
    BY <2>1, <2>2, <2>3, <2>4, <2>5, <2>6, <2>7 DEF NoPeer
<1>11. CASE GetSnapshotBuilder
  <2>1. TypeOK'
    BY <1>11 DEF GetSnapshotBuilder
  <2>2. Counters'
    BY <1>11 DEF GetSnapshotBuilder
  <2>3. InProgress'
    BY <1>11 DEF GetSnapshotBuilder
  <2>4. ChosenKnown'
    BY <1>11 DEF GetSnapshotBuilder
  <2>5. NoCommittedLost'
    BY <1>11 DEF GetSnapshotBuilder
  <2>6. Executed'
    BY <1>11 DEF GetSnapshotBuilder
  <2>7. ExecutedInOrder'
    BY <1>11 DEF GetSnapshotBuilder
  <2> QED
    BY <2>1, <2>2, <2>3, <2>4, <2>5, <2>6, <2>7 DEF NoPeer
<1>12. CASE BuildSnapshot
  <2>1. TypeOK'
    BY <1>12 DEF BuildSnapshot
  <2>2. Counters'
    BY <1>12 DEF BuildSnapshot
  <2>3. InProgress'
    BY <1>12 DEF BuildSnapshot
  <2>4. ChosenKnown'
    BY <1>12 DEF BuildSnapshot
  <2>5. NoCommittedLost'
    BY <1>12 DEF BuildSnapshot
  <2>6. Executed'
    BY <1>12 DEF BuildSnapshot
  <2>7. ExecutedInOrder'
    BY <1>12 DEF BuildSnapshot
  <2> QED
    BY <2>1, <2>2, <2>3, <2>4, <2>5, <2>6, <2>7 DEF NoPeer
<1>13. ASSUME NEW n \in Index, Commit(n) PROVE IInv'
  <2>1. TypeOK'
    BY <1>13 DEF Commit
  <2>2. Counters'
    BY <1>13 DEF Commit
  <2>3. InProgress'
    BY <1>13 DEF Commit
  <2>4. ChosenKnown'
    BY <1>13 DEF Commit
  <2>5. NoCommittedLost'
    BY <1>13 DEF Commit
  <2>6. Executed'
    BY <1>13 DEF Commit
  <2>7. ExecutedInOrder'
    BY <1>13 DEF Commit
  <2> QED
    BY <2>1, <2>2, <2>3, <2>4, <2>5, <2>6, <2>7 DEF NoPeer
<1>14. CASE Crash
  <2>1. TypeOK'
    <3>1. crashes' \in 0..MaxCrashes
      BY <1>14 DEF Crash
    <3>2. op' = Idle /\ builder' = NoBuilder /\ running' = FALSE
      BY <1>14 DEF Crash
    <3>5. running' \in BOOLEAN
      BY <3>2
    <3>6. /\ op' \in [name : {"idle", "vote", "apply", "purge"}, from : Nat, to : Nat]
          /\ builder' \in [live : BOOLEAN, applied : 0..MaxIndex, membership : 0..MaxIndex]
      BY <3>2
    <3>4. engineSnap' \in 0..MaxIndex
      BY <1>14 DEF Crash
    <3>3. UNCHANGED <<logDb, voteDb, purgedDb, appliedDb, execs, vote, lastPurged,
                      lastApplied, membership, snapshot, committed, chosen>>
      BY <1>14 DEF Crash
    <3> QED
      BY <3>1, <3>3, <3>4, <3>5, <3>6
  <2>2. Counters'
    BY <1>14 DEF Crash
  <2>3. InProgress'
    BY <1>14 DEF Crash
  <2>4. ChosenKnown'
    BY <1>14 DEF Crash
  <2>5. NoCommittedLost'
    BY <1>14 DEF Crash
  <2>6. Executed'
    BY <1>14 DEF Crash
  <2>7. ExecutedInOrder'
    BY <1>14 DEF Crash
  <2> QED
    BY <2>1, <2>2, <2>3, <2>4, <2>5, <2>6, <2>7 DEF NoPeer
<1>15. CASE Restart
  <2>1. TypeOK'
    BY <1>15 DEF Restart
  <2>2. Counters'
    BY <1>15 DEF Restart
  <2>3. InProgress'
    BY <1>15 DEF Restart
  <2>4. ChosenKnown'
    BY <1>15 DEF Restart
  <2>5. NoCommittedLost'
    BY <1>15 DEF Restart
  <2>6. Executed'
    BY <1>15 DEF Restart
  <2>7. ExecutedInOrder'
    BY <1>15 DEF Restart
  <2> QED
    BY <2>1, <2>2, <2>3, <2>4, <2>5, <2>6, <2>7 DEF NoPeer
<1>16. ~\E i \in Index, m \in 0..MaxIndex :
          \E rows \in [(committed + 1)..i -> Row] : InstallSnapshot(i, m, rows)
  BY DEF IInv, NoPeer, InstallSnapshot
<1>17. CASE UNCHANGED vars
  BY <1>17, <1>1 DEF ReadState, vars, NoPeer
<1> QED
  BY <1>1, <1>2, <1>3, <1>4, <1>5, <1>6, <1>7, <1>8, <1>9,
     <1>10, <1>11, <1>12, <1>13, <1>14, <1>15, <1>16, <1>17
  DEF Next, Storage, Environment

THEOREM Invariance == NoPeer /\ Spec => []IInv
BY InitIInv, NextIInv, PTL DEF Spec

\* Every variable keeps its type, whatever the bounds.
THEOREM TypeCorrect == NoPeer /\ Spec => []TypeOK
BY Invariance, PTL DEF IInv

\* append_to_log, delete_conflict_logs_since, purge_logs_upto and a crash in
\* the middle of any of them never lose an entry a quorum holds.
THEOREM CommittedKept == NoPeer /\ Spec => []NoCommittedLost
BY Invariance, PTL DEF IInv

\* The last_applied that apply_to_state_machine records never runs ahead of
\* the statements it stands for.
THEOREM RecordedMeansExecuted == NoPeer /\ Spec => []AppliedHasEffect
<1>1. IInv => AppliedHasEffect
  BY BoundsAssumption DEF IInv, TypeOK, Counters, Executed, AppliedHasEffect, Index
<1> QED
  BY <1>1, Invariance, PTL

\* Statements reach the game tables in log order, replays included.
THEOREM InLogOrder == NoPeer /\ Spec => []ExecutedInOrder
BY Invariance, PTL DEF IInv

\* purge_logs_upto never passes the recorded last_applied.
THEOREM PurgeSafe == NoPeer /\ Spec => []PurgeBehindApplied
<1>1. IInv => PurgeBehindApplied
  BY DEF IInv, Counters, PurgeBehindApplied
<1> QED
  BY <1>1, Invariance, PTL

\* A statement that runs again after a crash is one that the recorded
\* last_applied does not cover.
THEOREM ReplayConfined == NoPeer /\ Spec => ReplayOnlyUnrecorded
<1>1. IInv /\ [Next]_vars =>
        [\A i \in Index : execs'[i] > execs[i] => i > appliedDb]_vars
  <2> SUFFICES ASSUME IInv, Next, NEW i \in Index, execs'[i] > execs[i]
               PROVE  i > appliedDb
    OBVIOUS
  <2>1. execs' # execs
    BY DEF IInv, TypeOK
  <2>2. ApplyEntry
    BY <2>1 DEF IInv, NoPeer, Next, Storage, Environment, ReadState, vars, tables, fields, openraft,
        SaveVoteStore, SaveVoteReturn, AppendToLog, DeleteConflictLogsSince,
        PurgeDelete, PurgeRecord, ApplyBegin, ApplyRecord, GetSnapshotBuilder,
        BuildSnapshot, InstallSnapshot, Commit, Crash, Restart
  <2>3. i = op.from
    BY <2>2 DEF ApplyEntry, IInv, TypeOK
  <2> QED
    BY <2>2, <2>3 DEF ApplyEntry, IInv, TypeOK, Counters, InProgress, Index
<1> QED
  BY <1>1, Invariance, PTL DEF Spec, ReplayOnlyUnrecorded

\* Every step of the storage is a step of ReplayLog or changes none of its
\* variables: a write that was accepted is applied in its turn, and a crash
\* goes back to the recorded point and no further.
THEOREM Refinement == NoPeer /\ Spec => ImplementsReplayLog
<1>1. Init => Log!Init
  BY DEF Init, Log!Init
<1>2. IInv /\ [Next]_vars => [Log!Next]_Log!vars
  <2> SUFFICES ASSUME IInv, [Next]_vars PROVE [Log!Next]_Log!vars
    OBVIOUS
  <2> USE DEF Free, Idle, tables, fields, openraft, Log!vars
  <2>1. \/ ReadState \/ SaveVoteReturn \/ PurgeRecord \/ GetSnapshotBuilder
        \/ BuildSnapshot \/ UNCHANGED vars
        \/ (\E t \in Term : SaveVoteStore(t))
        \/ (\E i \in Index : DeleteConflictLogsSince(i) \/ PurgeDelete(i) \/ ApplyBegin(i))
        => UNCHANGED Log!vars
    BY DEF ReadState, SaveVoteReturn, PurgeRecord, GetSnapshotBuilder,
       BuildSnapshot, vars, SaveVoteStore, DeleteConflictLogsSince,
       PurgeDelete, ApplyBegin
  <2>2. ASSUME NEW rows, AppendToLog(rows) PROVE UNCHANGED Log!vars
    BY <2>2 DEF AppendToLog
  <2>3. CASE ApplyEntry
    <3>1. running /\ running' /\ lastApplied' = lastApplied + 1
      BY <2>3 DEF ApplyEntry, IInv, InProgress
    <3>2. lastApplied < committed /\ UNCHANGED <<committed, appliedDb>>
      BY <2>3 DEF ApplyEntry, IInv, TypeOK, InProgress
    <3> QED
      BY <3>1, <3>2 DEF Log!Next, Log!Apply
  <2>4. CASE ApplyRecord
    BY <2>4 DEF ApplyRecord, Log!Next, Log!Record
  <2>5. ASSUME NEW n \in Index, Commit(n) PROVE Log!Next
    BY <2>5 DEF Commit, Index, Log!Next, Log!Accept
  <2>6. CASE Crash \/ Restart
    BY <2>6 DEF Crash, Restart, Log!Next, Log!Recover
  <2>7. ~\E i \in Index, m \in 0..MaxIndex :
            \E rows \in [(committed + 1)..i -> Row] : InstallSnapshot(i, m, rows)
    BY DEF IInv, NoPeer, InstallSnapshot
  <2> QED
    BY <2>1, <2>2, <2>3, <2>4, <2>5, <2>6, <2>7 DEF Next, Storage, Environment
<1> QED
  BY <1>1, <1>2, Invariance, PTL DEF Spec, ImplementsReplayLog, Log!Spec

----------------------------------------------------------------------------
\* What AppendToLog finds: rows that reach the last index, or no row at all
\* above the recorded last_applied.
LEMMA AppendExtendsRows ==
    ASSUME IInv, NoHole, Free, ~LogBehind,
           NEW n \in 0..MaxIndex, IsLastLog(n),
           NEW i \in Index, i > appliedDb, i <= n
    PROVE  logDb[i] # NoRow
<1> USE DEF IInv, TypeOK, Counters, Free, Idle, Index
<1>1. n >= lastApplied
  BY DEF LogBehind
<1>2. CASE n \in Stored
  BY <1>2 DEF Stored, NoHole
<1>3. CASE n = lastPurged
  BY <1>1, <1>3
<1> QED
  BY <1>2, <1>3 DEF IsLastLog

\* append_to_log, delete_conflict_logs_since and purge_logs_upto, cut by a
\* crash or not, leave no gap in what a restarted node has to replay.
THEOREM LogContiguous == NoPeer /\ Spec => []NoHole
<1>1. Init => NoHole
  BY DEF Init, NoHole
<1>2. IInv /\ NoHole /\ [Next]_vars => NoHole'
  <2> SUFFICES ASSUME IInv, NoHole, [Next]_vars,
                      NEW i \in Index, NEW j \in Index,
                      appliedDb' < i, i < j, logDb'[j] # NoRow
               PROVE  logDb'[i] # NoRow
    BY DEF NoHole, Index
  <2> USE BoundsAssumption DEF Index
  <2>t. /\ logDb \in [Index -> Row \cup {NoRow}]
        /\ appliedDb \in 0..MaxIndex /\ lastApplied \in 0..MaxIndex
        /\ running => appliedDb <= lastApplied
    BY DEF IInv, TypeOK, Counters
  <2>1. CASE logDb' = logDb /\ appliedDb' >= appliedDb /\ appliedDb' \in 0..MaxIndex
    BY <2>1, <2>t DEF NoHole
  <2>2. ASSUME NEW n \in 0..MaxIndex, NEW k \in 1..MaxBatch, IsLastLog(n),
               NEW rows \in [(n + 1)..(n + k) -> Row], AppendToLog(rows)
        PROVE  logDb'[i] # NoRow
    <3>1. /\ Free /\ ~LogBehind /\ appliedDb' = appliedDb
          /\ \A l \in Index : logDb'[l] = IF l \in (n + 1)..(n + k) THEN rows[l] ELSE logDb[l]
      BY <2>2 DEF AppendToLog
    <3>2. j <= n + k
      <4>1. CASE j \in (n + 1)..(n + k)
        BY <4>1
      <4>2. CASE j \notin (n + 1)..(n + k)
        BY <4>2, <3>1, <2>2 DEF IsLastLog, Stored
      <4> QED
        BY <4>1, <4>2
    <3>3. CASE i <= n
      BY <3>1, <3>3, <2>2, AppendExtendsRows, <2>t
    <3>4. CASE i > n
      BY <3>1, <3>2, <3>4, NoRowAssumption
    <3> QED
      BY <3>3, <3>4
  <2>3. ASSUME NEW d \in Index, DeleteConflictLogsSince(d) PROVE logDb'[i] # NoRow
    <3>1. appliedDb' = appliedDb /\ \A l \in Index : logDb'[l] = IF l >= d THEN NoRow ELSE logDb[l]
      BY <2>3 DEF DeleteConflictLogsSince
    <3> QED
      BY <3>1, <2>t DEF NoHole
  <2>4. ASSUME NEW d \in Index, PurgeDelete(d) PROVE logDb'[i] # NoRow
    <3>1. appliedDb' = appliedDb /\ \A l \in Index : logDb'[l] = IF l <= d THEN NoRow ELSE logDb[l]
      BY <2>4 DEF PurgeDelete
    <3>2. d <= appliedDb
      BY <2>4 DEF PurgeDelete, Purgeable, LogBehind, Free, Idle, IInv, TypeOK, Counters
    <3> QED
      BY <3>1, <3>2, <2>t DEF NoHole
  <2>5. CASE ApplyRecord
    BY <2>5, <2>1, <2>t DEF ApplyRecord
  <2>6. ASSUME \/ ReadState \/ SaveVoteReturn \/ PurgeRecord \/ ApplyEntry
               \/ GetSnapshotBuilder \/ BuildSnapshot \/ Crash \/ Restart
               \/ UNCHANGED vars
               \/ \E t \in Term : SaveVoteStore(t)
               \/ \E n \in Index : ApplyBegin(n) \/ Commit(n)
        PROVE  logDb'[i] # NoRow
    <3>1. UNCHANGED <<logDb, appliedDb>>
      BY <2>6 DEF ReadState, SaveVoteReturn, PurgeRecord, ApplyEntry, GetSnapshotBuilder,
         BuildSnapshot, Crash, Restart, SaveVoteStore, ApplyBegin, Commit, vars, tables
    <3> QED
      BY <3>1, <2>1, <2>t
  <2>7. ~\E a \in Index, m \in 0..MaxIndex :
            \E rows \in [(committed + 1)..a -> Row] : InstallSnapshot(a, m, rows)
    BY DEF IInv, NoPeer, InstallSnapshot
  <2> QED
    BY <2>2, <2>3, <2>4, <2>5, <2>6, <2>7 DEF Next, Storage, Environment
<1> QED
  BY <1>1, <1>2, Invariance, PTL DEF Spec

----------------------------------------------------------------------------
(***************************************************************************)
(* The rest holds of every node, whatever snapshots its peers send it.     *)
(***************************************************************************)

\* save_vote writes the table before the field, and nothing lowers the table.
VoteInv ==
    /\ voteDb \in Nat /\ vote \in Nat
    /\ op.name = "vote" => op.to \in Nat /\ op.to <= voteDb
    /\ VoteOnDisk

\* A vote that openraft may have answered with survives every crash.
THEOREM VotePersisted == Spec => []VoteOnDisk
<1> USE DEF VoteInv, VoteOnDisk
<1>1. Init => VoteInv
  BY DEF Init, Idle
<1>2. VoteInv /\ [Next]_vars => VoteInv'
  <2> SUFFICES ASSUME VoteInv, [Next]_vars PROVE VoteInv'
    OBVIOUS
  <2>1. ASSUME NEW t \in Term, SaveVoteStore(t) PROVE VoteInv'
    BY <2>1, BoundsAssumption DEF SaveVoteStore, fields, Term, Free
  <2>2. CASE SaveVoteReturn
    BY <2>2 DEF SaveVoteReturn, tables, Idle
  <2>3. CASE Crash
    BY <2>3 DEF Crash, tables, fields, Idle
  <2>4. CASE Restart
    BY <2>4 DEF Restart, tables
  <2>5. ASSUME \/ \E i \in Index : PurgeDelete(i) \/ ApplyBegin(i)
               \/ PurgeRecord \/ ApplyEntry \/ ApplyRecord
        PROVE  UNCHANGED <<voteDb, vote, running>> /\ op'.name # "vote"
    BY <2>5 DEF PurgeDelete, ApplyBegin, PurgeRecord, ApplyEntry, ApplyRecord,
       tables, fields, Idle
  <2>6. ASSUME \/ ReadState \/ GetSnapshotBuilder \/ BuildSnapshot \/ UNCHANGED vars
               \/ \E n \in 0..MaxIndex, k \in 1..MaxBatch :
                     \E rows \in [(n + 1)..(n + k) -> Row] : AppendToLog(rows)
               \/ \E i \in Index : DeleteConflictLogsSince(i) \/ Commit(i)
               \/ \E i \in Index, m \in 0..MaxIndex :
                     \E rows \in [(committed + 1)..i -> Row] : InstallSnapshot(i, m, rows)
        PROVE  UNCHANGED <<voteDb, vote, running, op>>
    BY <2>6 DEF ReadState, GetSnapshotBuilder, BuildSnapshot, AppendToLog,
       DeleteConflictLogsSince, Commit, InstallSnapshot, vars, tables, fields
  <2> QED
    BY <2>1, <2>2, <2>3, <2>4, <2>5, <2>6 DEF Next, Storage, Environment
<1> QED
  BY <1>1, <1>2, PTL DEF Spec

\* Only the end of apply_to_state_machine moves the recorded last_applied.
LEMMA OnlyApplyRecordRecords ==
    ASSUME [Next]_vars, appliedDb' # appliedDb PROVE ApplyRecord
BY DEF Next, Storage, Environment, vars, tables, ReadState, SaveVoteStore, SaveVoteReturn,
   AppendToLog, DeleteConflictLogsSince, PurgeDelete, PurgeRecord, ApplyBegin, ApplyEntry,
   GetSnapshotBuilder, BuildSnapshot, InstallSnapshot, Commit, Crash, Restart

\* What is applied in memory includes what is recorded, and an apply takes up
\* exactly where it stopped.
RecordInv ==
    /\ appliedDb \in 0..MaxIndex /\ lastApplied \in 0..MaxIndex
    /\ committed \in 0..MaxIndex
    /\ running => appliedDb <= lastApplied
    /\ ~running => op.name = "idle"
    /\ appliedDb <= committed /\ lastApplied <= committed
    /\ running /\ op.name = "apply" => /\ op.from \in Nat /\ op.to \in Nat
                                       /\ op.from = lastApplied + 1
                                       /\ op.to <= committed

\* The last_applied that a restart reads never goes back: not by an apply, not
\* by a crash inside one, not by a snapshot installed over it.
THEOREM RecordedGrows == Spec => RecordedNeverRegresses
<1> USE BoundsAssumption DEF RecordInv, Index
<1>1. Init => RecordInv
  BY DEF Init, Idle
<1>2. RecordInv /\ [Next]_vars => RecordInv'
  <2> SUFFICES ASSUME RecordInv, [Next]_vars PROVE RecordInv'
    OBVIOUS
  <2>1. ASSUME NEW n \in Index, ApplyBegin(n) PROVE RecordInv'
    BY <2>1 DEF ApplyBegin, tables, fields, openraft, Free
  <2>2. CASE ApplyEntry
    BY <2>2 DEF ApplyEntry, openraft
  <2>3. CASE ApplyRecord
    BY <2>3 DEF ApplyRecord, fields, openraft, Idle
  <2>4. ASSUME NEW i \in Index, NEW m \in 0..MaxIndex,
               NEW rows \in [(committed + 1)..i -> Row], InstallSnapshot(i, m, rows)
        PROVE  RecordInv'
    BY <2>4 DEF InstallSnapshot, tables, Free, Idle
  <2>5. ASSUME NEW n \in Index, Commit(n) PROVE RecordInv'
    BY <2>5 DEF Commit, tables, fields
  <2>6. CASE Crash
    BY <2>6 DEF Crash, tables, fields, Idle
  <2>7. CASE Restart
    <3>1. lastApplied' = appliedDb /\ UNCHANGED <<appliedDb, committed, op>> /\ ~running /\ running'
      BY <2>7 DEF Restart, tables, openraft
    <3>2. op'.name # "apply"
      BY <3>1
    <3> QED
      BY <3>1, <3>2
  <2>8. ASSUME \/ SaveVoteReturn \/ PurgeRecord
               \/ \E t \in Term : SaveVoteStore(t)
               \/ \E i \in Index : PurgeDelete(i)
        PROVE  RecordInv'
    <3>1. /\ running /\ op'.name # "apply"
          /\ UNCHANGED <<appliedDb, lastApplied, committed, running>>
      BY <2>8 DEF SaveVoteReturn, PurgeRecord, SaveVoteStore, PurgeDelete,
         Free, tables, fields, openraft, Idle
    <3> QED
      BY <3>1
  <2>9. ASSUME \/ ReadState \/ GetSnapshotBuilder \/ BuildSnapshot \/ UNCHANGED vars
               \/ \E n \in 0..MaxIndex, k \in 1..MaxBatch :
                     \E rows \in [(n + 1)..(n + k) -> Row] : AppendToLog(rows)
               \/ \E i \in Index : DeleteConflictLogsSince(i)
        PROVE  RecordInv'
    <3>1. UNCHANGED <<appliedDb, lastApplied, committed, running, op>>
      BY <2>9 DEF ReadState, GetSnapshotBuilder, BuildSnapshot, AppendToLog,
         DeleteConflictLogsSince, vars, tables, fields, openraft
    <3> QED
      BY <3>1
  <2> HIDE DEF RecordInv
  <2> QED
    BY <2>1, <2>2, <2>3, <2>4, <2>5, <2>6, <2>7, <2>8, <2>9 DEF Next, Storage, Environment
<1>3. RecordInv /\ [Next]_vars => [appliedDb' >= appliedDb]_vars
  <2> SUFFICES ASSUME RecordInv, [Next]_vars PROVE appliedDb' >= appliedDb
    OBVIOUS
  <2>1. CASE appliedDb' = appliedDb
    BY <2>1
  <2>2. CASE appliedDb' # appliedDb
    BY <2>2, OnlyApplyRecordRecords DEF ApplyRecord
  <2> QED
    BY <2>1, <2>2
<1> QED
  BY <1>1, <1>2, <1>3, PTL DEF Spec, RecordedNeverRegresses

----------------------------------------------------------------------------
(***************************************************************************)
(* RaftNode: Server::new over this storage, started again after a crash.   *)
(***************************************************************************)

\* The bounds leave room for what a start does: an entry per append, and a
\* term per start.
NodeBounds == MaxBatch >= 1 /\ MaxTerm > MaxCrashes

Leading == running /\ phase \in {"voted", "serving"}

\* Each start asks for one vote, so terms never outnumber starts.
VoteBound ==
    /\ voteDb <= IF running /\ phase \in {"voted", "serving", "timedOut"}
                 THEN crashes + 1 ELSE crashes
    /\ Leading => voteDb >= 1
    /\ running => IF op.name = "vote" THEN op.to = voteDb ELSE vote = voteDb

NodeInv ==
    /\ IInv
    /\ phase \in {"starting", "electing", "voted", "serving", "refused", "timedOut"}
    /\ nodeOne \in BOOLEAN
    /\ VoteBound

\* AppendRow is AppendToLog of one row, right after the last index.
LEMMA AppendRowIsAppend ==
    ASSUME NodeBounds, NEW row \in Row, AppendRow(row)
    PROVE  \E n \in 0..MaxIndex :
              /\ IsLastLog(n) /\ n + 1 \in Index
              /\ AppendToLog([i \in {n + 1} |-> row])
              /\ [i \in {n + 1} |-> row] \in [(n + 1)..(n + 1) -> Row]
              /\ logDb' = [i \in Index |-> IF i = n + 1 THEN row ELSE logDb[i]]
<1>1. PICK n \in 0..(MaxIndex - 1) : IsLastLog(n) /\ AppendToLog([i \in {n + 1} |-> row])
  BY DEF AppendRow
<1>2. (n + 1)..(n + 1) = {n + 1}
  BY BoundsAssumption
<1>4. logDb' = [i \in Index |-> IF i = n + 1 THEN row ELSE logDb[i]]
  BY <1>1 DEF AppendToLog
<1>5. n + 1 \in Index /\ n \in 0..MaxIndex
  BY BoundsAssumption DEF Index
<1> QED
  BY <1>1, <1>2, <1>4, <1>5

\* A storage step under a bigger action of the node.
LEMMA NodeStepIsStorageStep ==
    NodeBounds /\ NodeInv /\ NodeNext => [Next]_vars
<1> SUFFICES ASSUME NodeBounds, NodeInv, NodeNext PROVE [Next]_vars
  OBVIOUS
<1>1. ASSUME NEW row \in Row, AppendRow(row) PROVE Next
  <2>1. PICK n \in 0..MaxIndex :
              /\ IsLastLog(n) /\ n + 1 \in Index
              /\ AppendToLog([i \in {n + 1} |-> row])
              /\ [i \in {n + 1} |-> row] \in [(n + 1)..(n + 1) -> Row]
    BY <1>1, AppendRowIsAppend
  <2>2. 1 \in 1..MaxBatch /\ n + 1 <= MaxIndex
    BY <2>1, BoundsAssumption DEF NodeBounds, Index
  <2>3. \E rows \in [(n + 1)..(n + 1) -> Row] : AppendToLog(rows)
    BY <2>1
  <2> QED
    BY <2>1, <2>2, <2>3 DEF Next, Storage
<1>2. Members \in Row
  BY BoundsAssumption DEF NodeBounds, Members, Row
<1>3. ASSUME Leading, Free PROVE Blank(vote) \in Row /\ Normal(vote) \in Row
  <2>1. vote \in 1..MaxTerm
    BY <1>3, BoundsAssumption
    DEF NodeInv, IInv, TypeOK, VoteBound, NodeBounds, Free, Idle, Term
  <2> QED
    BY <2>1 DEF Blank, Normal, Row
<1>4. CASE Elect
  <2>1. vote + 1 \in Term
    BY <1>4, BoundsAssumption
    DEF Elect, SaveVoteStore, NodeInv, IInv, TypeOK, VoteBound, NodeBounds, Leading,
        Free, Idle, Term
  <2> QED
    BY <1>4, <2>1 DEF Elect, Next, Storage
<1>5. CASE InitializeFresh
  BY <1>1, <1>2, <1>5 DEF InitializeFresh
<1>6. ASSUME NEW row, AppendRow(row) PROVE Free
  BY <1>6 DEF AppendRow, AppendToLog
<1>7. CASE Lead \/ ClientWrite
  BY <1>1, <1>3, <1>6, <1>7 DEF Lead, ClientWrite, Leading, Free
<1>8. CASE CommitAll
  BY <1>8 DEF CommitAll, Next, Environment
<1>9. CASE Background
  BY <1>9 DEF Background, Next, Storage
<1>10. CASE NodeCrash \/ NodeRestart
  BY <1>10 DEF NodeCrash, NodeRestart, Next, Environment
<1>11. CASE InitializeAgain \/ DoNotInitialize \/ NoLeader
  BY <1>11 DEF InitializeAgain, DoNotInitialize, NoLeader
<1> QED
  BY <1>4, <1>5, <1>7, <1>8, <1>9, <1>10, <1>11 DEF NodeNext

LEMMA InitNodeInv == NoPeer /\ NodeInit => NodeInv
<1> SUFFICES ASSUME NoPeer, NodeInit PROVE NodeInv
  OBVIOUS
<1>1. IInv
  BY InitIInv DEF NodeInit
<1>2. VoteBound
  BY DEF NodeInit, Init, VoteBound, Leading, Idle
<1> QED
  BY <1>1, <1>2 DEF NodeInit, NodeInv

\* A step that appends one row leaves votes and methods alone.
LEMMA AppendKeepsVotes ==
    ASSUME NEW row, AppendRow(row)
    PROVE  running /\ UNCHANGED <<voteDb, vote, running, op, crashes>>
BY DEF AppendRow, AppendToLog, Free, Idle, fields, openraft

\* Every step of the node keeps the invariant, whatever the mode.
LEMMA NextNodeInv == NodeBounds /\ NodeInv /\ [NodeNext]_nodeVars => NodeInv'
<1> SUFFICES ASSUME NodeBounds, NodeInv, [NodeNext]_nodeVars PROVE NodeInv'
  OBVIOUS
<1>i. IInv'
  <2>1. CASE UNCHANGED nodeVars
    BY <2>1, NextIInv DEF nodeVars, NodeInv
  <2> QED
    BY <2>1, NextIInv, NodeStepIsStorageStep DEF NodeInv
<1>t. IInv /\ TypeOK /\ Counters /\ InProgress
  BY DEF NodeInv, IInv
<1>b. crashes \in Nat /\ voteDb \in Nat /\ vote \in Nat /\ voteDb' \in Nat
  BY <1>i, BoundsAssumption DEF NodeInv, IInv, TypeOK, Term
<1> USE DEF NodeInv
<1>1. CASE InitializeFresh
  <2>1. phase' = "electing" /\ running /\ UNCHANGED <<voteDb, vote, running, op, crashes, nodeOne>>
    BY <1>1, AppendKeepsVotes DEF InitializeFresh
  <2> QED
    BY <1>i, <1>1, <2>1 DEF VoteBound, Leading, InitializeFresh, Initializes
<1>2. CASE InitializeAgain \/ DoNotInitialize
  <2>1. /\ UNCHANGED <<vars, nodeOne>> /\ phase = "starting"
        /\ phase' \in {"refused", "electing"}
    BY <1>2 DEF InitializeAgain, DoNotInitialize, Initializes
  <2> QED
    BY <1>i, <2>1 DEF VoteBound, Leading, vars, tables, fields
<1>3. CASE Elect
  <2>1. /\ phase = "electing" /\ phase' = "voted" /\ running
        /\ voteDb' = vote + 1 /\ op.name = "idle"
        /\ op' = [name |-> "vote", from |-> vote + 1, to |-> vote + 1]
        /\ UNCHANGED <<running, crashes, nodeOne>>
    BY <1>3 DEF Elect, SaveVoteStore, Free, Idle, fields, openraft
  <2>2. VoteBound'
    BY <2>1, <1>b DEF VoteBound, Leading
  <2> QED
    BY <1>i, <2>1, <2>2
<1>4. CASE NoLeader
  <2>1. /\ UNCHANGED <<vars, nodeOne>> /\ phase' = "timedOut"
        /\ voteDb <= crashes + 1 /\ running
    BY <1>4, <1>b DEF NoLeader, VoteBound
  <2> QED
    BY <1>i, <1>4, <2>1 DEF VoteBound, Leading, vars, tables, fields
<1>5. CASE Lead \/ ClientWrite
  <2>1. phase \in {"voted", "serving"} /\ phase' = "serving" /\ UNCHANGED nodeOne
    BY <1>5 DEF Lead, ClientWrite
  <2>2. running /\ UNCHANGED <<voteDb, vote, running, op, crashes>>
    BY <1>5, AppendKeepsVotes DEF Lead, ClientWrite
  <2> QED
    BY <1>i, <2>1, <2>2 DEF VoteBound, Leading
<1>6. CASE CommitAll
  <2>1. UNCHANGED <<voteDb, vote, running, op, crashes, phase, nodeOne>>
    BY <1>6 DEF CommitAll, Commit, tables, fields
  <2> QED
    BY <1>i, <2>1 DEF VoteBound, Leading
<1>7. ASSUME UNCHANGED <<phase, nodeOne>>,
             \/ ReadState \/ ApplyEntry \/ ApplyRecord \/ PurgeRecord
             \/ GetSnapshotBuilder \/ BuildSnapshot
             \/ \E n \in Index : ApplyBegin(n) \/ PurgeDelete(n)
      PROVE  NodeInv'
  <2>1. UNCHANGED <<voteDb, vote, running, crashes>>
    BY <1>7 DEF ReadState, ApplyEntry, ApplyRecord, GetSnapshotBuilder, BuildSnapshot,
       ApplyBegin, PurgeDelete, PurgeRecord, vars, tables, fields, openraft
  <2>2. op' = op \/ (op.name # "vote" /\ op'.name # "vote")
    BY <1>7 DEF ReadState, ApplyEntry, ApplyRecord, GetSnapshotBuilder, BuildSnapshot,
       ApplyBegin, PurgeDelete, PurgeRecord, Free, Idle, vars
  <2> QED
    BY <1>i, <1>7, <2>1, <2>2 DEF VoteBound, Leading
<1>8. CASE SaveVoteReturn /\ UNCHANGED <<phase, nodeOne>>
  <2>1. /\ running /\ op.name = "vote" /\ vote' = op.to /\ op'.name = "idle"
        /\ UNCHANGED <<voteDb, running, crashes>>
    BY <1>8 DEF SaveVoteReturn, Idle, tables, openraft
  <2> QED
    BY <1>i, <1>8, <2>1 DEF VoteBound, Leading
<1>9. CASE NodeCrash
  <2>1. /\ UNCHANGED <<phase, nodeOne, voteDb>> /\ running' = FALSE /\ running
        /\ crashes' = crashes + 1 /\ ~Failed
    BY <1>9 DEF NodeCrash, Crash, tables
  <2> QED
    BY <1>i, <1>b, <2>1 DEF VoteBound, Leading, Failed
<1>10. CASE NodeRestart
  <2>1. /\ phase' = "starting" /\ ~running /\ running' /\ vote' = voteDb
        /\ UNCHANGED <<voteDb, op, crashes, nodeOne>>
    BY <1>10 DEF NodeRestart, Restart, tables
  <2>2. op.name = "idle"
    BY <2>1, <1>t DEF Counters, Idle
  <2> QED
    BY <1>i, <2>1, <2>2 DEF VoteBound, Leading
<1>11. CASE UNCHANGED nodeVars
  BY <1>i, <1>11 DEF nodeVars, vars, tables, fields, VoteBound, Leading
<1> QED
  BY <1>1, <1>2, <1>3, <1>4, <1>5, <1>6, <1>7, <1>8, <1>9, <1>10, <1>11
  DEF NodeNext, Background

THEOREM NodeInvariance == NodeBounds /\ NoPeer /\ NodeSpec => []NodeInv
<1> SUFFICES ASSUME NodeBounds, NoPeer PROVE NodeSpec => []NodeInv
  OBVIOUS
<1>1. NodeInit => NodeInv
  BY InitNodeInv
<1>2. NodeInv /\ [NodeNext]_nodeVars => NodeInv'
  BY NextNodeInv
<1> QED
  BY <1>1, <1>2, PTL DEF NodeSpec

\* The storage below a server takes only steps of the storage, so that what is
\* proved of it above holds of every server of a one-voter deployment; in
\* particular, its tables are a replayed log.
THEOREM NodeUsesStorage == NodeBounds /\ NoPeer /\ NodeSpec => Spec /\ ImplementsReplayLog
<1> SUFFICES ASSUME NodeBounds, NoPeer PROVE NodeSpec => Spec /\ ImplementsReplayLog
  OBVIOUS
<1>1. NodeInit => Init
  BY DEF NodeInit
<1>2. NodeInv /\ [NodeNext]_nodeVars => [Next]_vars
  BY NodeStepIsStorageStep DEF nodeVars
<1>3. NodeSpec => Spec
  BY <1>1, <1>2, NodeInvariance, PTL DEF NodeSpec, Spec
<1> QED
  BY <1>3, Refinement, PTL

\* A server that fails to start, in either mode and on any node, has lost no
\* committed entry and has recorded none that it did not execute.
THEOREM RefusalLosesNothing == NodeBounds /\ NoPeer /\ NodeSpec => []FailedKeepsWrites
<1> SUFFICES ASSUME NodeBounds, NoPeer PROVE NodeSpec => []FailedKeepsWrites
  OBVIOUS
<1>1. NodeInv => FailedKeepsWrites
  BY BoundsAssumption
  DEF NodeInv, IInv, FailedKeepsWrites, TypeOK, Counters, Executed, AppliedHasEffect, Index
<1> QED
  BY <1>1, NodeInvariance, PTL

============================================================================
