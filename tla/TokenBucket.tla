---------------------------- MODULE TokenBucket ----------------------------
(***************************************************************************)
(* What a rate limit promises: an account is served only from a bucket     *)
(* that holds so much and fills so fast, in parts of a token, and into     *)
(* which a request may slip back so much of what it takes.  It may be      *)
(* served less.                                                            *)
(***************************************************************************)
EXTENDS Integers

CONSTANTS Accounts,
          Unit,        \* parts of a token: a part flows in with each tick
          MaxTokens,   \* what the bucket holds
          Slack        \* parts by which a request may be in advance

VARIABLES level,       \* parts in each account's bucket
          served,      \* how often each account was served
          now          \* ticks since the start

bucketVars == <<level, served, now>>

Full == MaxTokens * Unit

Init ==
    /\ level = [a \in Accounts |-> Full]
    /\ served = [a \in Accounts |-> 0]
    /\ now = 0

Tick ==
    /\ now' = now + 1
    /\ level' = [a \in Accounts |-> IF level[a] < Full THEN level[a] + 1 ELSE Full]
    /\ UNCHANGED served

\* Not enabled if even the slack does not make up a token.
Serve(a) ==
    /\ \E l \in 0..Full :
          /\ l <= level[a] + Slack - Unit
          /\ level' = [level EXCEPT ![a] = l]
    /\ served' = [served EXCEPT ![a] = @ + 1]
    /\ UNCHANGED now

Next == Tick \/ \E a \in Accounts : Serve(a)

Spec == Init /\ [][Next]_bucketVars
=============================================================================
