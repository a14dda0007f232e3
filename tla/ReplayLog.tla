----------------------------- MODULE ReplayLog -----------------------------
(***************************************************************************)
(* What the Raft storage of one node promises the game tables.  Writes are *)
(* accepted into a total order, applied one at a time in that order, and   *)
(* applying is recorded from time to time.  A crash takes the node back to *)
(* exactly the recorded point: nothing accepted is skipped, and only what  *)
(* came after the record is applied again.                                 *)
(***************************************************************************)
EXTENDS Naturals

VARIABLES
    accepted,   \* number of writes a quorum holds
    applied,    \* number of them applied by the running process
    recorded    \* number of them the node will not apply again

Init == accepted = 0 /\ applied = 0 /\ recorded = 0

Accept ==
    /\ accepted' \in Nat /\ accepted' > accepted
    /\ UNCHANGED <<applied, recorded>>

Apply ==
    /\ applied < accepted
    /\ applied' = applied + 1
    /\ UNCHANGED <<accepted, recorded>>

Record ==
    /\ recorded' = applied
    /\ UNCHANGED <<accepted, applied>>

Recover ==
    /\ applied' = recorded
    /\ UNCHANGED <<accepted, recorded>>

Next == Accept \/ Apply \/ Record \/ Recover

vars == <<accepted, applied, recorded>>

Spec == Init /\ [][Next]_vars
============================================================================
