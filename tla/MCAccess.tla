------------------------------ MODULE MCAccess ------------------------------
(***************************************************************************)
(* Permissions and Accounts checked in one run.  Permissions is checked    *)
(* under three loads: "in turn", one call at a time with a restart;        *)
(* "grants cross", calls that overlap around one grant; "levels cross",    *)
(* calls that overlap around one change of a level.                        *)
(***************************************************************************)
EXTENDS Permissions, Accounts

CONSTANTS area, room   \* segments

VARIABLE part          \* chosen once and for all

mcVars == <<vars, accountVars, part>>

MCPaths == {<<area>>, <<area, room>>}

MCInit ==
    /\ part \in {"in turn", "grants cross", "levels cross", "accounts"}
    /\ Init /\ AccountInit

InTurn ==
    /\ part = "in turn"
    /\ Next
    /\ call' # call => call'[CHOOSE c \in Calls : TRUE] = Idle

Crossing ==
    /\ Next /\ restarts' = 0
    /\ \/ part = "grants cross" /\ issued' <= 1 /\ \A c \in Calls : call'[c].op # "setLevel"
       \/ part = "levels cross" /\ issued' = 0

MCNext ==
    \/ (InTurn \/ Crossing) /\ UNCHANGED <<accountVars, part>>
    \/ part = "accounts" /\ AccountNext /\ UNCHANGED <<vars, part>>

MCSpec == MCInit /\ [][MCNext]_mcVars
=============================================================================
