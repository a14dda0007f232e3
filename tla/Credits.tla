------------------------------ MODULE Credits ------------------------------
(***************************************************************************)
(* CreditManager (mudd/src/credits/mod.rs) for one account of one          *)
(* universe: the row in the credits table, the cached balance, and the     *)
(* Lua programs that call it, each on a thread of its own.                 *)
(*                                                                         *)
(* deduct and grant hold the write lock of the cache until the row is      *)
(* written.  get_balance takes the lock twice, and reads the row between   *)
(* the two.  The process may stop and start again: the cache starts empty. *)
(***************************************************************************)
EXTENDS Integers

CONSTANTS
    Tasks,        \* bound: calls in progress at a time
    Amounts,      \* bound: the amounts granted and deducted
    MaxBalance,   \* bound: grants stop here, below the overflow of an i64
    MaxCrashes,   \* bound: restarts
    Operations,   \* which of "get", "deduct", "grant" are called
    Failures,     \* may a database read or write fail?
    None          \* no cached balance, no lock holder

ASSUME CreditsAssumption ==
    /\ Amounts \subseteq Nat \ {0}
    /\ MaxBalance \in Nat /\ MaxCrashes \in Nat
    /\ Operations \subseteq {"get", "deduct", "grant"}
    /\ Failures \in BOOLEAN
    /\ None \notin Tasks \cup Int

VARIABLES
    db,        \* credits.balance; no row reads as 0
    cache,     \* the entry of balances, or None
    lock,      \* who holds the write lock of balances
    pc, value, \* each call's next step, and the balance it carries
    price,     \* what the call deducts; 0 for a grant
    refused,   \* the amount of the deduct just refused; 0 if none
    crashes,
    crossed,   \* history: the calls that read the row before its last write
    parted,    \* history: a failed write or a late fill set cache and row apart
    blind      \* history: the refusal looked at no entry, or at a parted one

history == <<crossed, parted, blind>>
vars == <<db, cache, lock, pc, value, price, refused, crashes, history>>

TypeOK ==
    /\ db \in Int
    /\ cache \in Int \cup {None}
    /\ lock \in Tasks \cup {None}
    /\ pc \in [Tasks -> {"idle", "load", "fill", "save"}]
    /\ value \in [Tasks -> Int]
    /\ price \in [Tasks -> Amounts \cup {0}]
    /\ \A t \in Tasks : (lock = t) = (pc[t] = "save")
    /\ refused \in Amounts \cup {0}
    /\ crashes \in 0..MaxCrashes
    /\ crossed \subseteq Tasks /\ parted \in BOOLEAN /\ blind \in BOOLEAN

Init ==
    /\ db = 0 /\ cache = None /\ lock = None
    /\ pc = [t \in Tasks |-> "idle"]
    /\ value = [t \in Tasks |-> 0]
    /\ price = [t \in Tasks |-> 0]
    /\ refused = 0 /\ crashes = 0
    /\ crossed = {} /\ parted = FALSE /\ blind = FALSE

----------------------------------------------------------------------------
\* unwrap_or(&0): the cache alone decides.
Current == IF cache = None THEN 0 ELSE cache

GetMiss(t) ==
    /\ "get" \in Operations
    /\ pc[t] = "idle" /\ lock = None /\ cache = None
    /\ pc' = [pc EXCEPT ![t] = "load"]
    /\ UNCHANGED <<db, cache, lock, value, price, refused, crashes, history>>

\* load_balance reads the row under no lock.
GetLoad(t) ==
    /\ pc[t] = "load"
    /\ value' = [value EXCEPT ![t] = db]
    /\ pc' = [pc EXCEPT ![t] = "fill"]
    /\ UNCHANGED <<db, cache, lock, price, refused, crashes, history>>

\* The query fails: get_balance says 0 and caches nothing.
GetFails(t) ==
    /\ Failures
    /\ pc[t] = "load"
    /\ pc' = [pc EXCEPT ![t] = "idle"]
    /\ UNCHANGED <<db, cache, lock, value, price, refused, crashes, history>>

GetFill(t) ==
    /\ pc[t] = "fill" /\ lock = None
    /\ cache' = value[t]
    /\ pc' = [pc EXCEPT ![t] = "idle"]
    /\ value' = [value EXCEPT ![t] = 0]
    /\ parted' = (t \in crossed)
    /\ crossed' = crossed \ {t}
    /\ UNCHANGED <<db, lock, price, refused, crashes, blind>>

\* Fault: the last credit cannot be spent.
RefuseExact(t, a) ==
    /\ "deduct" \in Operations
    /\ pc[t] = "idle" /\ lock = None
    /\ Current <= a
    /\ refused' = a
    /\ blind' = (cache = None \/ parted)
    /\ UNCHANGED <<db, cache, lock, pc, value, price, crashes, crossed, parted>>

\* deduct answers false.
Refuse(t, a) ==
    /\ "deduct" \in Operations
    /\ pc[t] = "idle" /\ lock = None
    /\ Current < a
    /\ refused' = a
    /\ blind' = (cache = None \/ parted)
    /\ UNCHANGED <<db, cache, lock, pc, value, price, crashes, crossed, parted>>

\* Fault: funds are not compared.
DeductUnchecked(t, a) ==
    /\ "deduct" \in Operations
    /\ pc[t] = "idle" /\ lock = None
    /\ cache' = Current - a
    /\ value' = [value EXCEPT ![t] = Current - a]
    /\ price' = [price EXCEPT ![t] = a]
    /\ lock' = t
    /\ pc' = [pc EXCEPT ![t] = "save"]
    /\ refused' = 0
    /\ UNCHANGED <<db, crashes, history>>

Deduct(t, a) ==
    /\ "deduct" \in Operations
    /\ pc[t] = "idle" /\ lock = None
    /\ Current >= a
    /\ cache' = Current - a
    /\ value' = [value EXCEPT ![t] = Current - a]
    /\ price' = [price EXCEPT ![t] = a]
    /\ lock' = t
    /\ pc' = [pc EXCEPT ![t] = "save"]
    /\ refused' = 0
    /\ UNCHANGED <<db, crashes, history>>

Grant(t, a) ==
    /\ "grant" \in Operations
    /\ pc[t] = "idle" /\ lock = None
    /\ Current + a <= MaxBalance
    /\ cache' = Current + a
    /\ value' = [value EXCEPT ![t] = Current + a]
    /\ price' = [price EXCEPT ![t] = 0]
    /\ lock' = t
    /\ pc' = [pc EXCEPT ![t] = "save"]
    /\ refused' = 0
    /\ UNCHANGED <<db, crashes, history>>

\* The call returns, deduct with true.
Return(t) ==
    /\ lock' = None
    /\ pc' = [pc EXCEPT ![t] = "idle"]
    /\ value' = [value EXCEPT ![t] = 0]
    /\ price' = [price EXCEPT ![t] = 0]

\* Fault: the error path returns with the lock still held.
SaveFailsLocked(t) ==
    /\ Failures
    /\ pc[t] = "save"
    /\ pc' = [pc EXCEPT ![t] = "idle"]
    /\ UNCHANGED <<db, cache, lock, value, price, refused, crashes, history>>

\* The write through Raft fails, and only a warning says so.
SaveFails(t) ==
    /\ Failures
    /\ pc[t] = "save"
    /\ Return(t)
    /\ refused' = 0
    /\ parted' = TRUE
    /\ UNCHANGED <<db, cache, crashes, crossed, blind>>

\* Fault: an entry that exists is not updated.
SaveIgnored(t) ==
    /\ pc[t] = "save"
    /\ db' = IF db = 0 THEN value[t] ELSE db
    /\ Return(t)
    /\ refused' = 0
    /\ crossed' = {u \in Tasks : pc[u] = "fill"}
    /\ parted' = FALSE
    /\ UNCHANGED <<cache, crashes, blind>>

\* INSERT ... ON CONFLICT DO UPDATE SET balance.
Save(t) ==
    /\ pc[t] = "save"
    /\ db' = value[t]
    /\ Return(t)
    /\ refused' = 0
    /\ crossed' = {u \in Tasks : pc[u] = "fill"}
    /\ parted' = FALSE
    /\ UNCHANGED <<cache, crashes, blind>>

\* The process dies and is started again.
Crash ==
    /\ crashes < MaxCrashes
    /\ crashes' = crashes + 1
    /\ cache' = None /\ lock' = None
    /\ pc' = [t \in Tasks |-> "idle"]
    /\ value' = [t \in Tasks |-> 0]
    /\ price' = [t \in Tasks |-> 0]
    /\ refused' = 0
    /\ crossed' = {} /\ parted' = FALSE /\ blind' = FALSE
    /\ UNCHANGED db

Step(t) == GetLoad(t) \/ GetFails(t) \/ GetFill(t) \/ SaveFails(t) \/ Save(t)

Call(t) ==
    \/ GetMiss(t)
    \/ \E a \in Amounts : Refuse(t, a) \/ Deduct(t, a) \/ Grant(t, a)

Next == (\E t \in Tasks : Step(t) \/ Call(t)) \/ Crash

Spec == Init /\ [][Next]_vars

\* A call goes on once it has what it needs; Tokio's lock queues its waiters,
\* so a call that waits for it while others come and go gets its turn.
FairSpec == Spec /\ \A t \in Tasks : SF_vars(Step(t))

----------------------------------------------------------------------------
\* No purchase goes through without the funds: the balance stays at or above
\* zero, in memory and in the table, whatever fills, fails or restarts.
NeverNegative == db >= 0 /\ Current >= 0

\* mod.rs "In-memory cache of balances": between writes a cached balance is the
\* one in the table, through fills, failures and restarts, unless the last write
\* failed or a lookup cached what it had read before the last write.
CacheMatchesRow == lock = None /\ cache # None /\ ~parted => cache = db

\* A call that began returns, and lets others go on: the lock held over a
\* write through Raft is always given back.
CallsReturn == \A t \in Tasks : (pc[t] # "idle") ~> (pc[t] = "idle")

\* The row changes as the book of credits does.
Book == INSTANCE CreditBook WITH balance <- db
ImplementsCreditBook == Book!Spec

\* langref.md "true if successful, false if insufficient funds": a purchase
\* that the table's balance covers is refused only if the balance was not cached,
\* as after a restart, when deduct does not look at the row, or if cache and row
\* had parted; in no other way do calls, fills, failures and restarts refuse one.
RefusedMeansInsufficient == refused > 0 /\ ~blind => db < refused

\* mod.rs "Grant credits to a player": a grant adds to the balance the table
\* holds and never replaces it by less.
GrantAdds ==
    [][\A t \in Tasks : Save(t) /\ price[t] = 0 => db' > db]_vars
=============================================================================
