---------------------------- MODULE RaftStorage ----------------------------
(***************************************************************************)
(* CombinedStorage (mudd/src/raft/storage.rs): the SQLite tables raft_log, *)
(* raft_vote and raft_meta, the in-memory fields copied from them, and the *)
(* game tables that apply_to_state_machine writes, on one node.            *)
(*                                                                         *)
(* The Adaptor of openraft holds one lock around every method of the       *)
(* storage, so methods never overlap; but each SQL statement commits by    *)
(* itself, so a method of several statements can be cut by a crash.  The   *)
(* variable op says which method is between two of its statements.  The    *)
(* snapshot builder is a copy of the storage that runs on its own.         *)
(*                                                                         *)
(* openraft itself is not in the repository.  It appears as the guards     *)
(* under which it calls a method: it deletes only entries that are not     *)
(* committed, applies only committed ones, and purges only behind a        *)
(* snapshot it has been told of.                                           *)
(***************************************************************************)
EXTENDS Naturals

CONSTANTS
    MaxIndex,     \* bound: highest log index
    MaxTerm,      \* bound: highest term
    MaxBatch,     \* bound: entries in one append_to_log or apply call
    MaxCrashes,   \* bound: process crashes
    Keep,         \* openraft's max_in_snapshot_log_to_keep, scaled down
    PeerSnapshots,\* may a peer send this node a snapshot?
    NoRow         \* an index with no row in raft_log

ASSUME BoundsAssumption ==
    /\ MaxIndex \in Nat
    /\ MaxTerm \in Nat
    /\ MaxBatch \in Nat
    /\ MaxCrashes \in Nat
    /\ Keep \in Nat
    /\ PeerSnapshots \in BOOLEAN

Index == 1..MaxIndex
Term == 0..MaxTerm
Row == [term : 1..MaxTerm, kind : {"blank", "normal", "membership"}]

ASSUME NoRowAssumption == NoRow \notin Row

VARIABLES
    logDb,       \* raft_log
    voteDb,      \* raft_vote: the term voted in
    purgedDb,    \* raft_meta 'last_purged'; 0 is None
    appliedDb,   \* raft_meta 'last_applied'; 0 is None
    execs,       \* how often execute_sql ran the statement of an index
    running,     \* is the process up?
    vote, lastPurged, lastApplied,
    membership,  \* index of the membership entry in force; 0 is the default
    snapshot,    \* current_snapshot: the index it covers; 0 is None
    op,          \* the method that is between two of its statements
    builder,     \* the fields of the snapshot builder's copy
    committed,   \* openraft: highest index a quorum holds
    chosen,      \* openraft: the entry committed at an index
    engineSnap,  \* openraft: index of the last snapshot it was told of
    crashes

tables   == <<logDb, voteDb, purgedDb, appliedDb, execs>>
fields   == <<vote, lastPurged, lastApplied, membership, snapshot>>
openraft == <<committed, chosen, engineSnap>>
vars     == <<tables, fields, openraft, running, op, builder, crashes>>

Idle == [name |-> "idle", from |-> 0, to |-> 0]
NoBuilder == [live |-> FALSE, applied |-> 0, membership |-> 0]

TypeOK ==
    /\ logDb \in [Index -> Row \cup {NoRow}]
    /\ voteDb \in Term
    /\ purgedDb \in 0..MaxIndex
    /\ appliedDb \in 0..MaxIndex
    /\ execs \in [Index -> Nat]
    /\ running \in BOOLEAN
    /\ vote \in Term
    /\ lastPurged \in 0..MaxIndex
    /\ lastApplied \in 0..MaxIndex
    /\ membership \in 0..MaxIndex
    /\ snapshot \in 0..MaxIndex
    /\ op \in [name : {"idle", "vote", "apply", "purge"}, from : Nat, to : Nat]
    /\ builder \in [live : BOOLEAN, applied : 0..MaxIndex, membership : 0..MaxIndex]
    /\ committed \in 0..MaxIndex
    /\ chosen \in [Index -> Row \cup {NoRow}]
    /\ engineSnap \in 0..MaxIndex
    /\ crashes \in 0..MaxCrashes

Init ==
    /\ logDb = [i \in Index |-> NoRow]
    /\ voteDb = 0 /\ purgedDb = 0 /\ appliedDb = 0
    /\ execs = [i \in Index |-> 0]
    /\ running = TRUE
    /\ vote = 0 /\ lastPurged = 0 /\ lastApplied = 0
    /\ membership = 0 /\ snapshot = 0
    /\ op = Idle
    /\ builder = NoBuilder
    /\ committed = 0
    /\ chosen = [i \in Index |-> NoRow]
    /\ engineSnap = 0
    /\ crashes = 0

----------------------------------------------------------------------------
Stored == {i \in Index : logDb[i] # NoRow}

\* get_log_state: n is the last log index it reports.
IsLastLog(n) ==
    /\ n \in 0..MaxIndex
    /\ \A i \in Stored : i <= n
    /\ n \in Stored \/ (Stored = {} /\ n = lastPurged)

\* What apply_to_state_machine does with the payload of an entry.
RunsSql(row) == row.kind = "normal"
SetsMembers(row) == row.kind = "membership"

\* No method is running: the Adaptor's lock is free.
Free == running /\ op = Idle

\* A start-up that finds its log behind last_applied first purges up to it.
LogBehind == \E n \in 0..MaxIndex : IsLastLog(n) /\ n < lastApplied

\* get_log_state, read_vote, last_applied_state, get_current_snapshot and the
\* log reader change nothing.
ReadState ==
    /\ Free
    /\ UNCHANGED vars

\* Fault: the field before the table.
SaveVoteStoreMemoryFirst(t) ==
    /\ Free
    /\ t > vote
    /\ vote' = t
    /\ op' = [name |-> "vote", from |-> t, to |-> t]
    /\ UNCHANGED <<tables, lastPurged, lastApplied, membership, snapshot,
                   openraft, running, builder, crashes>>

SaveVoteStore(t) ==
    /\ Free
    /\ t > vote
    /\ voteDb' = t
    /\ op' = [name |-> "vote", from |-> t, to |-> t]
    /\ UNCHANGED <<logDb, purgedDb, appliedDb, execs, fields, openraft,
                   running, builder, crashes>>

SaveVoteReturn ==
    /\ running /\ op.name = "vote"
    /\ vote' = op.to
    /\ op' = Idle
    /\ UNCHANGED <<tables, lastPurged, lastApplied, membership, snapshot,
                   openraft, running, builder, crashes>>

\* One transaction: all the entries of the call or none.
AppendToLog(rows) ==
    /\ Free /\ ~LogBehind
    /\ logDb' = [i \in Index |-> IF i \in DOMAIN rows THEN rows[i] ELSE logDb[i]]
    /\ UNCHANGED <<voteDb, purgedDb, appliedDb, execs, fields, openraft,
                   running, op, builder, crashes>>

\* Fault: only the conflicting row goes.
DeleteConflictLogsOne(i) ==
    /\ Free
    /\ i \in Stored /\ i > committed
    /\ logDb' = [logDb EXCEPT ![i] = NoRow]
    /\ UNCHANGED <<voteDb, purgedDb, appliedDb, execs, fields, openraft,
                   running, op, builder, crashes>>

\* Fault: one row too many goes.
DeleteConflictLogsBefore(i) ==
    /\ Free
    /\ i \in Stored /\ i > committed
    /\ logDb' = [j \in Index |-> IF j + 1 >= i THEN NoRow ELSE logDb[j]]
    /\ UNCHANGED <<voteDb, purgedDb, appliedDb, execs, fields, openraft,
                   running, op, builder, crashes>>

DeleteConflictLogsSince(i) ==
    /\ Free
    /\ i \in Stored /\ i > committed
    /\ logDb' = [j \in Index |-> IF j >= i THEN NoRow ELSE logDb[j]]
    /\ UNCHANGED <<voteDb, purgedDb, appliedDb, execs, fields, openraft,
                   running, op, builder, crashes>>

\* The indices openraft may ask purge_logs_upto to drop.
Purgeable(i) ==
    /\ i > lastPurged
    /\ \/ i + Keep <= engineSnap
       \/ i <= snapshot            \* a received snapshot replaces the log
       \/ LogBehind /\ i = lastApplied

PurgeDelete(i) ==
    /\ Free
    /\ Purgeable(i)
    /\ logDb' = [j \in Index |-> IF j <= i THEN NoRow ELSE logDb[j]]
    /\ op' = [name |-> "purge", from |-> i, to |-> i]
    /\ UNCHANGED <<voteDb, purgedDb, appliedDb, execs, fields, openraft,
                   running, builder, crashes>>

PurgeRecord ==
    /\ running /\ op.name = "purge"
    /\ purgedDb' = op.to
    /\ lastPurged' = op.to
    /\ op' = Idle
    /\ UNCHANGED <<logDb, voteDb, appliedDb, execs, vote, lastApplied,
                   membership, snapshot, openraft, running, builder, crashes>>

\* Fault: only the last entry of the range is taken.
ApplyBeginLastOnly(n) ==
    /\ Free /\ ~LogBehind
    /\ n > lastApplied /\ n <= committed /\ n <= lastApplied + MaxBatch
    /\ op' = [name |-> "apply", from |-> n, to |-> n]
    /\ UNCHANGED <<tables, fields, openraft, running, builder, crashes>>

\* openraft hands over committed entries, in order, read from the log.
ApplyBegin(n) ==
    /\ Free /\ ~LogBehind
    /\ n > lastApplied /\ n <= committed /\ n <= lastApplied + MaxBatch
    /\ \A i \in (lastApplied + 1)..n : logDb[i] # NoRow
    /\ op' = [name |-> "apply", from |-> lastApplied + 1, to |-> n]
    /\ UNCHANGED <<tables, fields, openraft, running, builder, crashes>>

\* The body of the loop: last_applied moves first, then the entry runs, each
\* SQL statement in a transaction of its own.
ApplyEntry ==
    /\ running /\ op.name = "apply" /\ op.from <= op.to
    /\ lastApplied' = op.from
    /\ execs' = [execs EXCEPT ![op.from] = IF RunsSql(logDb[op.from]) THEN @ + 1 ELSE @]
    /\ membership' = IF SetsMembers(logDb[op.from]) THEN op.from ELSE membership
    /\ op' = [name |-> "apply", from |-> op.from + 1, to |-> op.to]
    /\ UNCHANGED <<logDb, voteDb, purgedDb, appliedDb, vote, lastPurged,
                   snapshot, openraft, running, builder, crashes>>

\* Fault: the end of the batch is recorded before its entries have run.
ApplyRecordEarly ==
    /\ running /\ op.name = "apply"
    /\ appliedDb' = op.to
    /\ op' = IF op.from > op.to THEN Idle ELSE op
    /\ UNCHANGED <<logDb, voteDb, purgedDb, execs, fields, openraft, running,
                   builder, crashes>>

\* Fault: last_applied stays in memory.
ApplyRecordNothing ==
    /\ running /\ op.name = "apply" /\ op.from > op.to
    /\ op' = Idle
    /\ UNCHANGED <<tables, fields, openraft, running, builder, crashes>>

ApplyRecord ==
    /\ running /\ op.name = "apply" /\ op.from > op.to
    /\ appliedDb' = lastApplied
    /\ op' = Idle
    /\ UNCHANGED <<logDb, voteDb, purgedDb, execs, fields, openraft, running,
                   builder, crashes>>

GetSnapshotBuilder ==
    /\ Free /\ ~builder.live
    /\ lastApplied > engineSnap
    /\ builder' = [live |-> TRUE, applied |-> lastApplied, membership |-> membership]
    /\ UNCHANGED <<tables, fields, openraft, running, op, crashes>>

\* Runs in the builder's copy: it is the copy's current_snapshot that is set,
\* and the copy is dropped.  openraft is told the index.
BuildSnapshot ==
    /\ running /\ builder.live
    /\ engineSnap' = IF builder.applied > engineSnap THEN builder.applied
                                                     ELSE engineSnap
    /\ builder' = NoBuilder
    /\ UNCHANGED <<tables, fields, committed, chosen, running, op, crashes>>

\* A peer's snapshot up to index i, whose membership entry is m.  db_path is
\* None in every node the program creates: the peer's snapshot has no database
\* in it, and only the fields are set.
InstallSnapshot(i, m, rows) ==
    /\ PeerSnapshots /\ Free
    /\ i > committed /\ m <= i
    /\ committed' = i
    /\ chosen' = [j \in Index |-> IF j \in (committed + 1)..i THEN rows[j]
                                                               ELSE chosen[j]]
    /\ lastApplied' = i
    /\ membership' = m
    /\ snapshot' = i
    /\ engineSnap' = i
    /\ UNCHANGED <<tables, vote, lastPurged, running, op, builder, crashes>>

\* openraft learns that a quorum holds the log up to n.
Commit(n) ==
    /\ running
    /\ n > committed
    /\ \A i \in (committed + 1)..n : logDb[i] # NoRow
    /\ committed' = n
    /\ chosen' = [i \in Index |-> IF i \in (committed + 1)..n THEN logDb[i]
                                                              ELSE chosen[i]]
    /\ UNCHANGED <<tables, fields, engineSnap, running, op, builder, crashes>>

----------------------------------------------------------------------------
Crash ==
    /\ running
    /\ crashes < MaxCrashes
    /\ crashes' = crashes + 1
    /\ running' = FALSE
    /\ op' = Idle
    /\ builder' = NoBuilder
    /\ engineSnap' = 0
    /\ UNCHANGED <<tables, fields, committed, chosen>>

\* Fault: load_state does not read last_applied.
RestartFromPurged ==
    /\ ~running
    /\ running' = TRUE
    /\ vote' = voteDb
    /\ lastPurged' = purgedDb
    /\ lastApplied' = purgedDb
    /\ membership' = 0
    /\ snapshot' = 0
    /\ UNCHANGED <<tables, openraft, op, builder, crashes>>

\* new + load_state: the membership and the snapshot are not read back.
Restart ==
    /\ ~running
    /\ running' = TRUE
    /\ vote' = voteDb
    /\ lastPurged' = purgedDb
    /\ lastApplied' = appliedDb
    /\ membership' = 0
    /\ snapshot' = 0
    /\ UNCHANGED <<tables, openraft, op, builder, crashes>>

Storage ==
    \/ ReadState
    \/ \E t \in Term : SaveVoteStore(t)
    \/ SaveVoteReturn
    \/ \E n \in 0..MaxIndex, k \in 1..MaxBatch :
          /\ IsLastLog(n) /\ n + k <= MaxIndex
          /\ \E rows \in [(n + 1)..(n + k) -> Row] : AppendToLog(rows)
    \/ \E i \in Index : DeleteConflictLogsSince(i)
    \/ \E i \in Index : PurgeDelete(i)
    \/ PurgeRecord
    \/ \E n \in Index : ApplyBegin(n)
    \/ ApplyEntry
    \/ ApplyRecord
    \/ GetSnapshotBuilder
    \/ BuildSnapshot

Environment ==
    \/ \E i \in Index : Commit(i)
    \/ \E i \in Index, m \in 0..MaxIndex :
          \E rows \in [(committed + 1)..i -> Row] : InstallSnapshot(i, m, rows)
    \/ Crash
    \/ Restart

Next == Storage \/ Environment

Spec == Init /\ [][Next]_vars

\* The tasks of openraft that call the storage keep running, and a supervisor
\* restarts the process.  Nothing obliges a vote, an append or a crash.
Fairness ==
    /\ WF_vars(SaveVoteReturn)
    /\ WF_vars(\E i \in Index : LogBehind /\ PurgeDelete(i))
    /\ WF_vars(PurgeRecord)
    /\ WF_vars(\E n \in Index : ApplyBegin(n))
    /\ WF_vars(ApplyEntry)
    /\ WF_vars(ApplyRecord)
    /\ WF_vars(Restart)

FairSpec == Spec /\ Fairness

----------------------------------------------------------------------------
\* No committed entry is lost: each one is still in raft_log as committed, or
\* the persisted last_applied already covers it.
NoCommittedLost ==
    \A i \in 1..committed : i > appliedDb => logDb[i] = chosen[i]

\* The persisted last_applied never runs ahead of the game tables: whatever it
\* covers has been executed.
AppliedHasEffect ==
    \A i \in 1..appliedDb : RunsSql(chosen[i]) => execs[i] >= 1

\* Statements reach the game tables in log order: none has run before an
\* earlier one has.
ExecutedInOrder ==
    \A i, j \in 1..committed :
        i < j /\ RunsSql(chosen[i]) /\ execs[j] > 0 => execs[i] > 0

\* What purge_logs_upto drops is never needed to recover.
PurgeBehindApplied == purgedDb <= appliedDb

\* Rows above last_applied have no hole, a crash inside purge included.
NoHole ==
    \A i, j \in Index :
        appliedDb < i /\ i < j /\ logDb[j] # NoRow => logDb[i] # NoRow

\* A vote openraft can read back, and so may have answered with, is on disk.
VoteOnDisk == running => vote <= voteDb

\* Only entries the persisted last_applied does not cover run again.
ReplayOnlyUnrecorded ==
    [][\A i \in Index : execs'[i] > execs[i] => i > appliedDb]_vars

\* Whatever is committed is in the end recorded as applied, crashes in the
\* middle of an apply or a purge included.
CommittedGetsRecorded ==
    \A i \in Index : (committed >= i) ~> (appliedDb >= i)

\* The recorded progress never goes back, not across a crash or a snapshot.
RecordedNeverRegresses == [][appliedDb' >= appliedDb]_vars

\* The storage implements the replayed log: see ReplayLog.
Log == INSTANCE ReplayLog WITH
         accepted <- committed,
         applied  <- IF running THEN lastApplied ELSE appliedDb,
         recorded <- appliedDb
ImplementsReplayLog == Log!Spec
============================================================================
