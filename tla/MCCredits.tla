----------------------------- MODULE MCCredits -----------------------------
(***************************************************************************)
(* What an account may spend, in one run: credits under two loads,         *)
(* "faults", every operation with failures and a restart, and "writers",   *)
(* purchases and grants while the process runs and the database answers,   *)
(* which has variables of its own; and "pictures", requests to Venice      *)
(* within the rate limit.  Whatever is not chosen stays as it began.       *)
(***************************************************************************)
EXTENDS Credits, Images

CONSTANT WriterTasks   \* bound: purchases and grants at a time

VARIABLES
    load,    \* chosen once and for all
    wDb, wCache, wLock, wPc, wValue, wPrice, wRefused, wCrashes,
    wCrossed, wParted, wBlind

Writers == INSTANCE Credits WITH
            Tasks <- WriterTasks, Amounts <- 1..3, MaxBalance <- 12,
            MaxCrashes <- 0, Operations <- {"deduct", "grant"}, Failures <- FALSE,
            db <- wDb, cache <- wCache, lock <- wLock, pc <- wPc,
            value <- wValue, price <- wPrice, refused <- wRefused,
            crashes <- wCrashes, crossed <- wCrossed, parted <- wParted, blind <- wBlind

writerVars == <<
    wDb, wCache, wLock, wPc, wValue, wPrice, wRefused, wCrashes,
    wCrossed, wParted, wBlind>>

mcVars == <<vars, writerVars, drawVars, load>>

MCInit ==
    /\ load \in {"writers", "faults", "pictures"}
    /\ Init /\ Writers!Init /\ ImageInit

FaultStep(A) == load = "faults" /\ A /\ UNCHANGED <<writerVars, drawVars, load>>

MCNext ==
    \/ FaultStep(Next)
    \/ load = "writers" /\ Writers!Next /\ UNCHANGED <<vars, drawVars, load>>
    \/ load = "pictures" /\ ImageNext /\ UNCHANGED <<vars, writerVars, load>>

\* The fairness of Credits!FairSpec, under faults.
MCSpec ==
    /\ MCInit /\ [][MCNext]_mcVars
    /\ \A t \in Tasks : SF_mcVars(FaultStep(Step(t)))

----------------------------------------------------------------------------
\* Purchases and grants that queue for the lock change the row as the book of
\* credits does, while no cache is cold, no write fails and nothing restarts.
WritersImplementCreditBook == Writers!ImplementsCreditBook
=============================================================================
