----------------------------- MODULE MCSessions -----------------------------
(***************************************************************************)
(* Sessions checked in one run under two uses: wizards that connect when   *)
(* they like, and players without goto that connect one time after the     *)
(* other, each within the grace period of the last.                        *)
(***************************************************************************)
EXTENDS Sessions

CONSTANT Few    \* bound: the connections made when they may overlap

MCUses ==
    {[goto |-> TRUE, reconnect |-> "any"], [goto |-> FALSE, reconnect |-> "sequential"]}

TabUses == {[goto |-> FALSE, reconnect |-> "overlapping"]}

MCNext ==
    /\ Next
    /\ use.reconnect # "sequential" => \A s \in Sockets \ Few : pc'[s] = "new"

\* With the fairness of Sessions!FairSpec where connections may overlap.
MCSpec ==
    /\ Init /\ [][MCNext]_vars
    /\ \A s \in Sockets :
          /\ WF_vars(use.reconnect = "any" /\ SocketStep(s) /\ UNCHANGED use)
          /\ WF_vars(use.reconnect = "any" /\ TaskStep(s) /\ UNCHANGED use)

----------------------------------------------------------------------------
\* An account that has left ends up in a safe room or with empty hands, unless
\* it connects again or a grace task fails.
AbandonedSettlesAny == (use.reconnect = "any" /\ Abandoned) ~> (Settled \/ ~Abandoned)
=============================================================================
