------------------------------ MODULE RaftNode ------------------------------
(***************************************************************************)
(* A one-node deployment: Server::new (mudd/src/lib.rs) opens the          *)
(* database, builds the Raft node over RaftStorage, initialises the        *)
(* cluster through RaftWriter (mudd/src/raft/writer.rs) and waits for a    *)
(* leader before it serves; then clients write and the process may crash   *)
(* and be started again over the same database.                            *)
(*                                                                         *)
(* Mode "single" is a server started without --peers, mode "cluster" one   *)
(* whose --peers names itself only.  openraft refuses initialize on a node *)
(* whose log or vote is not empty; it finds the members in the state       *)
(* machine or in the log after last_applied, and campaigns only if this    *)
(* node is one of them.                                                    *)
(***************************************************************************)
EXTENDS RaftStorage

CONSTANT Mode     \* "single" or "cluster"

VARIABLES
    phase,     \* how far Server::new has come
    nodeOne    \* is its --node-id 1?

nodeVars == <<vars, phase, nodeOne>>

\* Server::new has returned an error.
Failed == phase \in {"refused", "timedOut"}

NodeInit == Init /\ phase = "starting" /\ nodeOne \in BOOLEAN

----------------------------------------------------------------------------
Blank(t)  == [term |-> t, kind |-> "blank"]
Normal(t) == [term |-> t, kind |-> "normal"]
Members   == [term |-> 1, kind |-> "membership"]

\* The log grows by one row after its last index.
AppendRow(row) ==
    \E n \in 0..(MaxIndex - 1) : IsLastLog(n) /\ AppendToLog([i \in {n + 1} |-> row])

Pristine == IsLastLog(0) /\ vote = 0

\* openraft knows the members: from the state machine, whose membership
\* load_state does not restore, or from the entries not yet applied.
KnowsMembers ==
    \/ membership # 0
    \/ \E i \in Stored : i > lastApplied /\ SetsMembers(logDb[i])

\* single_node always calls raft.initialize; cluster only on node 1.
Initializes == phase = "starting" /\ (Mode = "single" \/ nodeOne)

InitializeFresh ==
    /\ Initializes /\ Pristine
    /\ AppendRow(Members)
    /\ phase' = "electing"
    /\ UNCHANGED nodeOne

\* raft.initialize returns NotAllowed: single_node passes the error on, and
\* cluster logs it.
InitializeAgain ==
    /\ Initializes /\ Free /\ ~Pristine
    /\ phase' = IF Mode = "single" THEN "refused" ELSE "electing"
    /\ UNCHANGED <<vars, nodeOne>>

\* A cluster node other than 1 goes straight on to wait for a leader.
DoNotInitialize ==
    /\ phase = "starting" /\ running /\ ~Initializes
    /\ phase' = "electing"
    /\ UNCHANGED <<vars, nodeOne>>

\* This node is the only voter: its own vote elects it.
Elect ==
    /\ phase = "electing" /\ KnowsMembers
    /\ SaveVoteStore(vote + 1)
    /\ phase' = "voted"
    /\ UNCHANGED nodeOne

\* Fault: wait_for_leader has no deadline.
NoLeaderWaits ==
    /\ running /\ phase \in {"electing", "voted"}
    /\ UNCHANGED nodeVars

\* wait_for_leader gives up after ten seconds, whatever the election has come to.
NoLeader ==
    /\ running /\ phase \in {"electing", "voted"}
    /\ phase' = "timedOut"
    /\ UNCHANGED <<vars, nodeOne>>

Lead ==
    /\ phase = "voted"
    /\ AppendRow(Blank(vote))
    /\ phase' = "serving"
    /\ UNCHANGED nodeOne

\* Bounded: a row stays free for the blank entry of each later start.
ClientWrite ==
    /\ phase = "serving"
    /\ \E n \in 0..MaxIndex : IsLastLog(n) /\ n + 1 + (MaxCrashes - crashes) <= MaxIndex
    /\ AppendRow(Normal(vote))
    /\ UNCHANGED <<phase, nodeOne>>

\* The only voter commits whatever it stores.
CommitAll ==
    /\ phase \in {"voted", "serving"}
    /\ \E n \in Index : IsLastLog(n) /\ Commit(n)
    /\ UNCHANGED <<phase, nodeOne>>

Background ==
    /\ \/ ReadState
       \/ SaveVoteReturn
       \/ \E i \in Index : PurgeDelete(i)
       \/ PurgeRecord
       \/ \E n \in Index : ApplyBegin(n)
       \/ ApplyEntry
       \/ ApplyRecord
       \/ GetSnapshotBuilder
       \/ BuildSnapshot
    /\ UNCHANGED <<phase, nodeOne>>

NodeCrash == Crash /\ ~Failed /\ UNCHANGED <<phase, nodeOne>>

NodeRestart == Restart /\ phase' = "starting" /\ UNCHANGED nodeOne

NodeNext ==
    \/ InitializeFresh
    \/ InitializeAgain
    \/ DoNotInitialize
    \/ Elect
    \/ NoLeader
    \/ Lead
    \/ ClientWrite
    \/ CommitAll
    \/ Background
    \/ NodeCrash
    \/ NodeRestart

NodeSpec == NodeInit /\ [][NodeNext]_nodeVars

\* Start-up is one task that runs to its end; the storage's tasks keep going.
NodeFairSpec ==
    /\ NodeSpec
    /\ WF_nodeVars(InitializeFresh)
    /\ WF_nodeVars(InitializeAgain)
    /\ WF_nodeVars(DoNotInitialize)
    /\ WF_nodeVars(Elect)
    /\ WF_nodeVars(NoLeader)
    /\ WF_nodeVars(Lead)
    /\ WF_nodeVars(SaveVoteReturn /\ UNCHANGED <<phase, nodeOne>>)
    /\ WF_nodeVars(PurgeRecord /\ UNCHANGED <<phase, nodeOne>>)
    /\ WF_nodeVars(ApplyEntry /\ UNCHANGED <<phase, nodeOne>>)
    /\ WF_nodeVars(ApplyRecord /\ UNCHANGED <<phase, nodeOne>>)
    /\ WF_nodeVars((\E i \in Index : LogBehind /\ PurgeDelete(i)) /\ UNCHANGED <<phase, nodeOne>>)
    /\ WF_nodeVars(NodeRestart)

----------------------------------------------------------------------------
\* A server that fails to start has not lost what was written before.
FailedKeepsWrites == Failed => NoCommittedLost /\ AppliedHasEffect

\* Server::new never hangs: once the crashes are over the server serves, or it
\* has reported an error.
StartSettles == <>[](phase = "serving" \/ Failed)

\* design.md "Server restarts preserve state. Single-node durability.": a
\* server is not turned away by the database it has written.
RestartServes == phase # "refused"
============================================================================
