------------------------------ MODULE MCCombat ------------------------------
(***************************************************************************)
(* Combat, and the delivery of what players are told of it and else, in    *)
(* one run, each while the other stays in its initial state.               *)
(***************************************************************************)
EXTENDS Combat

CONSTANTS Rooms, Cap   \* of Delivery

\* A channel of none is refused by mpsc::channel.
ASSUME DeliveryAssumption == Cap \in Nat \ {0}

VARIABLES
    part,    \* chosen once and for all
    room, sessions, chan, at, kind, queue, reading, todo, stalled

Del == INSTANCE Delivery

deliveryVars == <<room, sessions, chan, at, kind, queue, reading, todo, stalled>>
mcVars == <<vars, deliveryVars, part>>

MCInit == part \in {"combat", "delivery"} /\ Init /\ Del!Init

CombatStep(A) == part = "combat" /\ A /\ UNCHANGED <<deliveryVars, part>>

DeliveryStep(A) == part = "delivery" /\ A /\ UNCHANGED <<vars, part>>

MCNext ==
    \/ CombatStep(Next)
    \/ DeliveryStep(Del!Next)

\* The fairness of Combat!FairSpec and of Delivery!FairSpec.
MCSpec ==
    /\ MCInit /\ [][MCNext]_mcVars
    /\ \A p \in Players :
          /\ WF_mcVars(CombatStep(Step(p)))
          /\ SF_mcVars(DeliveryStep(Del!Step(p)))
          /\ SF_mcVars(DeliveryStep(Del!Take(p))) /\ SF_mcVars(DeliveryStep(Del!Relay(p)))

----------------------------------------------------------------------------
\* A command is answered, a connection registered or unregistered, whatever the
\* others do at the same time and however clients stall for a while, unless a
\* channel is clogged for good: no order in which the lock is taken keeps anybody
\* waiting forever.
CommandsAnswered == Del!CommandsAnswered
=============================================================================
