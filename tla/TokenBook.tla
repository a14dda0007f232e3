----------------------------- MODULE TokenBook -----------------------------
(***************************************************************************)
(* What the accounts promise: a name is claimed once and stays with the    *)
(* secret it was claimed with; whoever presents that secret gets a token   *)
(* that was never in force before, which replaces the one in force; a      *)
(* token that has ended never comes back.                                  *)
(***************************************************************************)
CONSTANTS Names, Secrets, Tokens, None

VARIABLES owner,   \* the secret a name was claimed with, or None
          valid,   \* the token in force for a name, or None
          spent,   \* tokens that are or have been in force
          shown    \* the secret presented for each of them

book == <<owner, valid, spent, shown>>

Init ==
    /\ owner = [n \in Names |-> None]
    /\ valid = [n \in Names |-> None]
    /\ spent = {}
    /\ shown = [t \in Tokens |-> None]

Issue(n, s, t) ==
    /\ t \in Tokens \ spent
    /\ valid' = [valid EXCEPT ![n] = t]
    /\ spent' = spent \cup {t}
    /\ shown' = [shown EXCEPT ![t] = s]

Claim(n, s, t) ==
    /\ owner[n] = None
    /\ owner' = [owner EXCEPT ![n] = s]
    /\ Issue(n, s, t)

Renew(n, s, t) ==
    /\ owner[n] = s
    /\ Issue(n, s, t)
    /\ UNCHANGED owner

End(n) ==
    /\ valid[n] # None
    /\ valid' = [valid EXCEPT ![n] = None]
    /\ UNCHANGED <<owner, spent, shown>>

Next ==
    \E n \in Names :
        \/ \E s \in Secrets, t \in Tokens : Claim(n, s, t) \/ Renew(n, s, t)
        \/ End(n)

Spec == Init /\ [][Next]_book
=============================================================================
