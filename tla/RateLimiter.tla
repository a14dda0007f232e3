---------------------------- MODULE RateLimiter ----------------------------
(***************************************************************************)
(* RateLimiter (mudd/src/venice/mod.rs), which counts the requests of each *)
(* account to the Venice service: whole tokens and the time of the last    *)
(* one taken, from which the tokens refilled since are worked out in f32.  *)
(*                                                                         *)
(* consume reads the clock twice, for the time that it stores and, a       *)
(* little later, for the time that has passed; whatever goes by between    *)
(* the two counts for this request and again for the next.                 *)
(***************************************************************************)
EXTENDS Integers

CONSTANTS
    Accounts,
    Unit,         \* ticks of the clock in which a token is refilled
    MaxTokens,    \* max_tokens
    Rounding,     \* how far a result in f32 may be off, in parts of 1/Unit
    Delay,        \* how many ticks may pass between the two readings
    MaxTime,      \* bound: ticks
    NoBucket      \* an account that has not asked yet

ASSUME LimiterAssumption ==
    /\ Unit \in Nat \ {0} /\ MaxTokens \in Nat \ {0} /\ MaxTime \in Nat
    /\ Rounding \in Nat /\ Delay \in Nat
    /\ NoBucket \notin [tokens : 0..MaxTokens, last : Nat]

VARIABLES
    buckets,      \* tokens and last_refill of an account, or NoBucket
    now,          \* the clock
    served        \* how often consume has said yes

limiterVars == <<buckets, now, served>>

LimiterTypeOK ==
    /\ buckets \in [Accounts -> [tokens : 0..MaxTokens, last : Nat] \cup {NoBucket}]
    /\ now \in Nat
    /\ served \in [Accounts -> Nat]
    /\ \A a \in Accounts : buckets[a] # NoBucket => buckets[a].last <= now

LimiterInit ==
    /\ buckets = [a \in Accounts |-> NoBucket]
    /\ now = 0
    /\ served = [a \in Accounts |-> 0]

Least(m, n) == IF m < n THEN m ELSE n

\* The tokens kept and those that the time since has brought, in parts of
\* 1/Unit.  A first request makes the entry: a full bucket.
Parts(a) ==
    IF buckets[a] = NoBucket THEN MaxTokens * Unit
    ELSE buckets[a].tokens * Unit + (now - buckets[a].last)

\* f32 rounds to nearest, up as well as down: a whole number is exact, and
\* anything else may come out as one next to it.
Rounded(parts) ==
    IF parts % Unit = 0 THEN {parts}
    ELSE {r \in (parts - Rounding)..(parts + Rounding) :
            /\ (parts \div Unit) * Unit <= r
            /\ r <= (parts \div Unit) * Unit + Unit}

\* Fault: what flows in is not cut at the rim.
RefilledOver(a) == Rounded(Parts(a))

\* What consume may find in the bucket, at its second reading of the clock.
Refilled(a) == {Least(r, MaxTokens * Unit) : r \in Rounded(Parts(a))}

\* The first reading, under the lock and so after those that are stored.
EarlierReading(t) ==
    /\ now - t <= Delay
    /\ \A a \in Accounts : buckets[a] # NoBucket => buckets[a].last <= t

\* consume takes a token; "as u32" drops the part of one that is left.
Consume(a) ==
    /\ \E parts \in Refilled(a), n \in 0..MaxTokens, t \in 0..now :
          /\ parts >= Unit
          /\ n * Unit <= parts - Unit /\ parts - Unit < n * Unit + Unit
          /\ EarlierReading(t)
          /\ buckets' = [buckets EXCEPT ![a] = [tokens |-> n, last |-> t]]
    /\ served' = [served EXCEPT ![a] = @ + 1]
    /\ UNCHANGED now

Tick ==
    /\ now < MaxTime
    /\ now' = now + 1
    /\ UNCHANGED <<buckets, served>>

LimiterNext == Tick \/ \E a \in Accounts : Consume(a)

LimiterSpec == LimiterInit /\ [][LimiterNext]_limiterVars

----------------------------------------------------------------------------
\* What an exact bucket would hold.
Level(a) == Least(Parts(a), MaxTokens * Unit)

\* "token bucket algorithm": an account is served from a bucket of MaxTokens
\* that takes one token in Unit ticks.  It is ahead of an exact bucket, by no
\* more for each request than one rounding and one delay between the readings
\* of the clock; that whole tokens are kept never adds to this.
Bucket == INSTANCE TokenBucket WITH
            level <- [a \in Accounts |-> Level(a)], Slack <- Rounding + Delay
ImplementsTokenBucket == Bucket!Spec
=============================================================================
