--------------------------- MODULE MCRaftStorage ---------------------------
(***************************************************************************)
(* RaftStorage and RaftNode checked in one run under three deployments:    *)
(* "local", the storage of a node to which no peer sends a snapshot,       *)
(* whatever openraft does with it; "node", the same below a server with    *)
(* --peers that starts over it; and "peer", a storage of its own that may  *)
(* be sent snapshots.  What is not chosen stays in its initial state.      *)
(***************************************************************************)
EXTENDS RaftNode

CONSTANTS LocalIndex, LocalTerm    \* bounds: of the local deployment

VARIABLES
    deployment,   \* chosen once and for all
    peerLogDb, peerVoteDb, peerPurgedDb, peerAppliedDb, peerExecs,
    peerRunning, peerVote, peerLastPurged, peerLastApplied,
    peerMembership, peerSnapshot, peerOp, peerBuilder, peerCommitted,
    peerChosen, peerEngineSnap, peerCrashes

Peer == INSTANCE RaftStorage WITH
          PeerSnapshots <- TRUE, Keep <- 0, MaxIndex <- 2, MaxTerm <- 1,
          logDb <- peerLogDb, voteDb <- peerVoteDb, purgedDb <-
          peerPurgedDb, appliedDb <- peerAppliedDb, execs <-
          peerExecs, running <- peerRunning, vote <- peerVote,
          lastPurged <- peerLastPurged, lastApplied <-
          peerLastApplied, membership <- peerMembership, snapshot <-
          peerSnapshot, op <- peerOp, builder <- peerBuilder,
          committed <- peerCommitted, chosen <- peerChosen, engineSnap
          <- peerEngineSnap, crashes <- peerCrashes

peerVars == <<
    peerLogDb, peerVoteDb, peerPurgedDb, peerAppliedDb, peerExecs,
    peerRunning, peerVote, peerLastPurged, peerLastApplied,
    peerMembership, peerSnapshot, peerOp, peerBuilder, peerCommitted,
    peerChosen, peerEngineSnap, peerCrashes>>

mcVars == <<nodeVars, peerVars, deployment>>

MCInit ==
    /\ NodeInit /\ Peer!Init
    /\ deployment \in {"local", "node", "peer"}
    /\ deployment # "node" => nodeOne

Within ==
    /\ voteDb' <= LocalTerm
    /\ \A i \in Stored' : i <= LocalIndex /\ logDb'[i].term <= LocalTerm

LocalStep(A) ==
    /\ deployment = "local"
    /\ A /\ Within
    /\ UNCHANGED <<peerVars, phase, nodeOne, deployment>>

PeerStep == deployment = "peer" /\ Peer!Next /\ UNCHANGED <<nodeVars, deployment>>

NodeStep(A) == deployment = "node" /\ A /\ UNCHANGED <<peerVars, deployment>>

\* A step of the node's storage alone.
StorageStep(A) == NodeStep(A /\ UNCHANGED <<phase, nodeOne>>)

MCNext == LocalStep(Next) \/ PeerStep \/ NodeStep(NodeNext)

\* RaftStorage!Fairness, of the local deployment, and that of the node.
MCSpec ==
    /\ MCInit /\ [][MCNext]_mcVars
    /\ WF_mcVars(LocalStep(SaveVoteReturn))
    /\ WF_mcVars(LocalStep(\E i \in Index : LogBehind /\ PurgeDelete(i)))
    /\ WF_mcVars(LocalStep(PurgeRecord))
    /\ WF_mcVars(LocalStep(\E n \in Index : ApplyBegin(n)))
    /\ WF_mcVars(LocalStep(ApplyEntry))
    /\ WF_mcVars(LocalStep(ApplyRecord))
    /\ WF_mcVars(LocalStep(Restart))
    /\ WF_mcVars(NodeStep(InitializeFresh))
    /\ WF_mcVars(NodeStep(InitializeAgain))
    /\ WF_mcVars(NodeStep(DoNotInitialize))
    /\ WF_mcVars(NodeStep(Elect))
    /\ WF_mcVars(NodeStep(NoLeader))
    /\ WF_mcVars(NodeStep(Lead))
    /\ WF_mcVars(StorageStep(SaveVoteReturn))
    /\ WF_mcVars(StorageStep(PurgeRecord))
    /\ WF_mcVars(StorageStep(ApplyEntry))
    /\ WF_mcVars(StorageStep(ApplyRecord))
    /\ WF_mcVars(StorageStep(\E i \in Index : LogBehind /\ PurgeDelete(i)))
    /\ WF_mcVars(NodeStep(NodeRestart))

----------------------------------------------------------------------------
\* The recorded progress never goes back, not even when a peer's snapshot is
\* installed over it or a crash follows.
PeerRecordedNeverRegresses == Peer!RecordedNeverRegresses

\* Whatever is committed is in the end recorded as applied, crashes in the
\* middle of an apply or a purge included.
LocalGetsRecorded ==
    \A i \in 1..LocalIndex : (deployment = "local" /\ committed >= i) ~> (appliedDb >= i)

\* Server::new never hangs: once the crashes are over the server serves, or it
\* has reported an error.
NodeSettles == deployment = "node" => StartSettles
=============================================================================
