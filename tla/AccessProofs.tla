---------------------------- MODULE AccessProofs ----------------------------
(***************************************************************************)
(* Proofs about Permissions and Accounts.  Whatever calls cross and        *)
(* whatever caches are stale, a grant goes back to a wizard, for any       *)
(* accounts, paths and numbers of calls, grants, changes and restarts; and *)
(* the accounts implement the book of tokens.                              *)
(***************************************************************************)
EXTENDS Permissions, Accounts, TLAPS

\* The grants that go back to a wizard.
Genuine == {g \in Grant : Rooted(g)}

\* A call holds nothing else, whenever it read it.
Good(r, genuine) ==
    /\ r \in CallRecord
    /\ r.held \subseteq genuine
    /\ r.at \in {"idle", "push", "retain"} \/ r.who \in Accounts
    /\ r.at \in {"push", "delete", "retain"} => r.grant \in genuine

IInv ==
    /\ TypeOK
    /\ table \subseteq Genuine
    /\ \A a \in Accounts : grants[a] # None => grants[a] \subseteq Genuine
    /\ \A c \in Calls : Good(call[c], Genuine)

\* Covers is transitive.
LEMMA CoversTransitive ==
    ASSUME NEW p \in Paths, NEW q \in Paths, NEW r \in Paths, Covers(p, q), Covers(q, r)
    PROVE  Covers(p, r)
<1>1. p \in Seq(Segments) /\ q \in Seq(Segments) /\ r \in Seq(Segments)
  BY PermissionsAssumption
<1>2. Len(p) \in Nat /\ Len(q) \in Nat /\ Len(r) \in Nat
  BY <1>1
<1>3. Len(p) <= Len(q) /\ Len(q) <= Len(r)
  BY DEF Covers
<1>4. ASSUME NEW i \in 1..Len(p) PROVE p[i] = r[i]
  <2>1. i \in 1..Len(q)
    BY <1>2, <1>3
  <2>2. p[i] = q[i] /\ q[i] = r[i]
    BY <2>1 DEF Covers
  <2>3. QED
    BY <2>2
<1>5. QED
  BY <1>2, <1>3, <1>4 DEF Covers

\* A grant below one that may be passed on goes back to the same wizard.
LEMMA PassedOn ==
    ASSUME TypeOK, NEW h \in Genuine, h.delegate, NEW g \in Grant, Covers(h.path, g.path)
    PROVE  Rooted(g)
<1>1. h \in Grant /\ Rooted(h)
  BY DEF Genuine
<1>2. PICK r \in roots :
         \/ r = [path |-> h.path, delegate |-> h.delegate]
         \/ r.delegate /\ Covers(r.path, h.path)
  BY <1>1 DEF Rooted
<1>3. r.path \in Paths /\ h.path \in Paths /\ g.path \in Paths
  BY <1>1 DEF TypeOK, Grant
<1>4. r.delegate /\ Covers(r.path, g.path)
  BY <1>2, <1>3, CoversTransitive
<1>5. QED
  BY <1>4 DEF Rooted

\* What wizards have granted is never taken back.
LEMMA GenuineGrows == ASSUME roots \subseteq roots' PROVE Genuine \subseteq Genuine'
BY DEF Genuine, Rooted

LEMMA IdleGood == ASSUME NEW genuine PROVE Good(Idle, genuine)
BY PermissionsAssumption DEF Good, Idle, CallRecord

LEMMA InitIInv == Init => IInv
<1> SUFFICES ASSUME Init PROVE IInv
  OBVIOUS
<1>1. \A c \in Calls : call[c] = Idle /\ Good(call[c], Genuine)
  BY IdleGood DEF Init
<1>2. call \in [Calls -> CallRecord]
  BY IdleGood DEF Init, Good
<1>3. \A c \in Calls : call[c].at = "idle"
  BY <1>1 DEF Idle
<1>4. levelRow \in [Accounts -> Levels]
  BY PermissionsAssumption DEF Init
<1>5. TypeOK
  <2>1. /\ levels \in [Accounts -> Levels \cup {None}]
        /\ grants \in [Accounts -> (SUBSET Grant) \cup {None}]
    BY DEF Init
  <2>2. table \subseteq Grant /\ roots \subseteq [path : Paths, delegate : BOOLEAN]
    BY DEF Init
  <2>3. mixed \subseteq Accounts /\ issued \in Nat /\ changes \in Nat /\ restarts \in Nat
    BY DEF Init
  <2>4. QED
    BY <1>2, <1>3, <1>4, <2>1, <2>2, <2>3 DEF TypeOK
<1>6. QED
  BY <1>1, <1>5 DEF Init, IInv

\* What a step of one call has to show.
LEMMA CallStep ==
    ASSUME IInv, NEW c \in Calls,
           roots \subseteq roots', roots' \subseteq [path : Paths, delegate : BOOLEAN],
           levelRow' \in [Accounts -> Levels], levels' \in [Accounts -> Levels \cup {None}],
           issued' \in Nat, mixed' \subseteq Accounts, changes' \in Nat, restarts' \in Nat,
           table' \subseteq Genuine',
           grants' \in [Accounts -> (SUBSET Grant) \cup {None}],
           \A a \in Accounts : grants'[a] # None => grants'[a] \subseteq Genuine',
           call' = [call EXCEPT ![c] = call'[c]],
           Good(call'[c], Genuine')
    PROVE  IInv'
<1>1. Genuine \subseteq Genuine' /\ Genuine' \subseteq Grant
  BY GenuineGrows DEF Genuine
<1>2. \A d \in Calls : Good(call'[d], Genuine')
  <2> SUFFICES ASSUME NEW d \in Calls \ {c} PROVE Good(call'[d], Genuine')
    OBVIOUS
  <2>1. call'[d] = call[d]
    BY DEF IInv, TypeOK
  <2>2. Good(call[d], Genuine)
    BY DEF IInv
  <2>3. QED
    BY <1>1, <2>1, <2>2 DEF Good
<1>3. call' \in [Calls -> CallRecord]
  BY <1>2 DEF IInv, TypeOK, Good
<1>4. TypeOK'
  BY <1>1, <1>2, <1>3 DEF TypeOK, Good
<1>5. QED
  BY <1>2, <1>4 DEF IInv

\* ... and one that changes nothing but what the call carries.
LEMMA CallOnly ==
    ASSUME IInv, NEW c \in Calls, NEW r, Put(c, r), Good(r, Genuine),
           UNCHANGED <<levelRow, table, caches, ghosts>>
    PROVE  IInv'
<1>1. call'[c] = r /\ call' = [call EXCEPT ![c] = call'[c]]
  BY DEF IInv, TypeOK, Put
<1>2. Genuine' = Genuine
  BY DEF Genuine, Rooted, ghosts
<1>3. QED
  BY <1>1, <1>2, CallStep DEF IInv, TypeOK, caches, ghosts

\* The places where a call carries no grant that it relies on.
Plain == {"idle", "level", "levelFill", "grants", "grantsFill", "decide", "update", "setLevel",
          "findRow"}

LEMMA ContinueGood ==
    ASSUME NEW genuine, NEW r, Good(r, genuine), r.who \in Accounts, NEW at \in Plain
    PROVE  Good(IF at = "idle" THEN Idle ELSE [r EXCEPT !.at = at], genuine)
<1>1. CASE at = "idle"
  BY <1>1, IdleGood
<1>2. CASE at # "idle"
  BY <1>2 DEF Good, CallRecord, Plain
<1>3. QED
  BY <1>1, <1>2

LEMMA ContinueOnly ==
    ASSUME IInv, NEW c \in Calls, NEW r, Good(r, Genuine), r.who \in Accounts, NEW at \in Plain,
           Continue(c, r, at), UNCHANGED <<levelRow, table, caches, ghosts>>
    PROVE  IInv'
BY ContinueGood, CallOnly DEF Continue

LEMMA WithLevel ==
    ASSUME NEW genuine, NEW r, Good(r, genuine), NEW l \in Levels
    PROVE  Good([r EXCEPT !.level = l], genuine)
BY DEF Good, CallRecord

LEMMA WithHeld ==
    ASSUME NEW genuine, NEW r, Good(r, genuine), NEW kept, kept \subseteq genuine,
           genuine \subseteq Grant
    PROVE  Good([r EXCEPT !.held = kept], genuine)
BY DEF Good, CallRecord

LEMMA BeginStep ==
    ASSUME IInv, NEW c \in Calls, Call(c)
    PROVE  IInv'
<1>1. PICK a \in Accounts : BeginContext(c, a) \/ BeginGetGrants(c, a) \/ BeginSetLevel(c, a)
  BY DEF Call
<1>2. \A at \in Plain, op \in {"context", "list", "setLevel"} :
         Good([Idle EXCEPT !.at = at, !.op = op, !.who = a], Genuine)
  <2> SUFFICES ASSUME NEW at \in Plain, NEW op \in {"context", "list", "setLevel"}
               PROVE  Good([Idle EXCEPT !.at = at, !.op = op, !.who = a], Genuine)
    OBVIOUS
  <2> DEFINE r == [Idle EXCEPT !.at = at, !.op = op, !.who = a]
  <2>1. Idle \in CallRecord /\ Idle.held = {}
    BY IdleGood DEF Good, Idle
  <2>2. r.at = at /\ r.who = a
    BY DEF Idle
  <2>3. r \in CallRecord /\ r.held = {}
    BY <2>1 DEF CallRecord, Plain
  <2> HIDE DEF r
  <2>4. Good(r, Genuine)
    BY <2>2, <2>3 DEF Good, Plain
  <2> QED
    BY <2>4 DEF r
<1>3. PICK at \in Plain, op \in {"context", "list", "setLevel"} :
         Begin(c, [Idle EXCEPT !.at = at, !.op = op, !.who = a])
  BY <1>1 DEF BeginContext, BeginGetGrants, BeginSetLevel, Plain
<1>4. QED
  BY <1>2, <1>3, CallOnly DEF Begin

\* What is known of a call that is not at one of its last steps.
LEMMA Known ==
    ASSUME IInv, NEW c \in Calls, call[c].at \notin {"idle", "push", "retain"}
    PROVE  Good(call[c], Genuine) /\ call[c].who \in Accounts
BY DEF IInv, Good

LEMMA GenuineGrant == Genuine \subseteq Grant
BY DEF Genuine

LEMMA CachedGenuine == ASSUME IInv PROVE CachedGrants \subseteq Genuine
BY DEF IInv, CachedGrants

\* Steps that change nothing but what the call carries.
LEMMA LookStep ==
    ASSUME IInv, NEW c \in Calls,
           \/ Answered(c)
           \/ LevelCached(c) \/ LevelRead(c) \/ LevelReadFails(c)
           \/ GrantsCached(c) \/ GrantsRead(c) \/ GrantsReadFails(c)
           \/ FindCached(c) \/ FindRow(c) \/ RevokeRefused(c)
           \/ \E i \in 0..issued : FindMiss(c, i)
    PROVE  IInv'
<1> DEFINE me == call[c]
<1>1. CASE Answered(c) \/ RevokeRefused(c)
  BY <1>1, Known, ContinueOnly DEF Answered, RevokeRefused, Plain
<1>2. CASE LevelCached(c)
  <2>1. Good(me, Genuine) /\ me.who \in Accounts /\ levels[me.who] \in Levels
    BY <1>2, Known DEF LevelCached, IInv, TypeOK
  <2>2. Good([me EXCEPT !.level = levels[me.who]], Genuine)
    BY <2>1, WithLevel
  <2>3. [me EXCEPT !.level = levels[me.who]].who \in Accounts
    BY <2>1 DEF Good, CallRecord
  <2>4. QED
    BY <1>2, <2>2, <2>3, ContinueOnly DEF LevelCached, Plain
<1>3. CASE LevelRead(c)
  <2>1. Good(me, Genuine) /\ me.who \in Accounts /\ levelRow[me.who] \in Levels
    BY <1>3, Known DEF LevelRead, IInv, TypeOK
  <2>2. Good([me EXCEPT !.level = levelRow[me.who]], Genuine)
    BY <2>1, WithLevel
  <2>3. [me EXCEPT !.level = levelRow[me.who]].who \in Accounts
    BY <2>1 DEF Good, CallRecord
  <2>4. QED
    BY <1>3, <2>2, <2>3, ContinueOnly DEF LevelRead, Plain
<1>4. CASE LevelReadFails(c) \/ GrantsReadFails(c)
  BY <1>4, Known, ContinueOnly DEF LevelReadFails, GrantsReadFails, AfterGrants, Plain
<1>5. CASE GrantsCached(c)
  <2>1. Good(me, Genuine) /\ me.who \in Accounts /\ grants[me.who] \subseteq Genuine
    BY <1>5, Known DEF GrantsCached, IInv
  <2>2. Good([me EXCEPT !.held = grants[me.who]], Genuine)
    BY <2>1, WithHeld, GenuineGrant
  <2>3. [me EXCEPT !.held = grants[me.who]].who \in Accounts
    BY <2>1 DEF Good, CallRecord
  <2>4. QED
    BY <1>5, <2>2, <2>3, ContinueOnly DEF GrantsCached, AfterGrants, Plain
<1>6. CASE GrantsRead(c)
  <2>1. Good(me, Genuine) /\ me.who \in Accounts /\ RowsOf(me.who) \subseteq Genuine
    BY <1>6, Known DEF GrantsRead, IInv, RowsOf
  <2>2. Good([me EXCEPT !.held = RowsOf(me.who)], Genuine)
    BY <2>1, WithHeld, GenuineGrant
  <2>3. [me EXCEPT !.held = RowsOf(me.who)].who \in Accounts
    BY <2>1 DEF Good, CallRecord
  <2>4. QED
    BY <1>6, <2>2, <2>3, ContinueOnly DEF GrantsRead, Plain
<1>7. CASE FindCached(c)
  <2>1. PICK g \in CachedGrants :
           /\ me.at = "decide"
           /\ Put(c, [[me EXCEPT !.grant = g] EXCEPT !.at = "delete"])
           /\ UNCHANGED <<levelRow, table, caches, ghosts>>
    BY <1>7 DEF FindCached, Continue
  <2>2. Good([[me EXCEPT !.grant = g] EXCEPT !.at = "delete"], Genuine)
    BY <2>1, Known, CachedGenuine, GenuineGrant DEF Good, CallRecord
  <2>3. QED
    BY <2>1, <2>2, CallOnly
<1>8. ASSUME NEW i \in 0..issued, FindMiss(c, i) PROVE IInv'
  <2>1. Good([me EXCEPT !.id = i], Genuine) /\ [me EXCEPT !.id = i].who \in Accounts
    BY <1>8, Known DEF FindMiss, Good, CallRecord, IInv, TypeOK
  <2>2. QED
    BY <1>8, <2>1, ContinueOnly DEF FindMiss, Plain
<1>9. CASE FindRow(c)
  <2> DEFINE found == {g \in table : g.id = me.id}
  <2>1. Good(me, Genuine) /\ me.who \in Accounts
    BY <1>9, Known DEF FindRow
  <2>2. CASE found = {}
    BY <1>9, <2>1, <2>2, ContinueOnly DEF FindRow, Plain
  <2>3. CASE found # {}
    <3>1. PICK g \in found :
             /\ Put(c, [[me EXCEPT !.grant = g, !.id = 0] EXCEPT !.at = "delete"])
             /\ UNCHANGED <<levelRow, table, caches, ghosts>>
      BY <1>9, <2>3 DEF FindRow, Continue
    <3>2. g \in Genuine
      BY DEF IInv
    <3>3. Good([[me EXCEPT !.grant = g, !.id = 0] EXCEPT !.at = "delete"], Genuine)
      BY <2>1, <3>2, GenuineGrant DEF Good, CallRecord
    <3>4. QED
      BY <3>1, <3>3, CallOnly
  <2>4. QED
    BY <2>2, <2>3
<1>10. QED
  BY <1>1, <1>2, <1>3, <1>4, <1>5, <1>6, <1>7, <1>8, <1>9

\* Steps that change a level, in the table or in the cache.
LEMMA LevelStep ==
    ASSUME IInv, NEW c \in Calls,
           LevelFill(c) \/ SetLevel(c) \/ \E l \in Levels : Update(c, l) \/ UpdateFails(c, l)
    PROVE  IInv'
<1> DEFINE me == call[c]
<1>1. Good(me, Genuine) /\ me.who \in Accounts /\ me.level \in Levels
  BY Known DEF LevelFill, SetLevel, Update, UpdateFails, Good, CallRecord
<1>2. UNCHANGED <<table, grants, issued, roots, restarts>>
  BY DEF LevelFill, SetLevel, Update, UpdateFails, caches
<1>3. Genuine' = Genuine
  BY <1>2 DEF Genuine, Rooted
<1>4. /\ levelRow' \in [Accounts -> Levels] /\ levels' \in [Accounts -> Levels \cup {None}]
      /\ mixed' \subseteq Accounts /\ changes' \in Nat
  <2>1. /\ levelRow \in [Accounts -> Levels] /\ levels \in [Accounts -> Levels \cup {None}]
        /\ mixed \subseteq Accounts /\ changes \in Nat
    BY DEF IInv, TypeOK
  <2>2. CASE LevelFill(c) \/ SetLevel(c)
    BY <1>1, <2>1, <2>2 DEF LevelFill, SetLevel
  <2>3. ASSUME NEW l \in Levels, Update(c, l) \/ UpdateFails(c, l)
        PROVE  /\ levelRow' \in [Accounts -> Levels] /\ levels' = levels
               /\ mixed' = mixed /\ changes' \in Nat
    BY <1>1, <2>1, <2>3 DEF Update, UpdateFails, caches
  <2>4. QED
    BY <2>1, <2>2, <2>3
<1>5. PICK l \in Levels, at \in Plain : Continue(c, [me EXCEPT !.level = l], at)
  <2>1. [me EXCEPT !.level = me.level] = me
    BY <1>1 DEF Good, CallRecord
  <2>2. QED
    BY <1>1, <2>1 DEF LevelFill, SetLevel, Update, UpdateFails, Plain
<1>6. Good([me EXCEPT !.level = l], Genuine) /\ [me EXCEPT !.level = l].who \in Accounts
  BY <1>1, WithLevel DEF Good, CallRecord
<1>7. call' = [call EXCEPT ![c] = call'[c]] /\ Good(call'[c], Genuine)
  BY <1>5, <1>6, ContinueGood DEF Continue, Put, IInv, TypeOK
<1>8. QED
  BY <1>2, <1>3, <1>4, <1>7, CallStep DEF IInv, TypeOK

\* Steps that change the cache of grants.
LEMMA CacheStep ==
    ASSUME IInv, NEW c \in Calls, GrantsFill(c) \/ GrantPush(c) \/ RevokeRetain(c)
    PROVE  IInv'
<1> DEFINE me == call[c]
<1>1. Good(me, Genuine)
  BY DEF IInv
<1>2. UNCHANGED <<levelRow, levels, table, issued, roots, changes, restarts>>
  BY DEF GrantsFill, GrantPush, RevokeRetain, ghosts
<1>3. Genuine' = Genuine
  BY <1>2 DEF Genuine, Rooted
<1>4. PICK at \in {"idle", "decide"} : Continue(c, me, at) /\ (at = "decide" => me.at = "grantsFill")
  BY DEF GrantsFill, GrantPush, RevokeRetain, AfterGrants
<1>5. Good(call'[c], Genuine) /\ call' = [call EXCEPT ![c] = call'[c]]
  <2>1. at = "decide" => me.who \in Accounts
    BY <1>4, Known
  <2>2. Good(IF at = "idle" THEN Idle ELSE [me EXCEPT !.at = at], Genuine)
    BY <1>1, <2>1, IdleGood, ContinueGood DEF Plain
  <2>3. QED
    BY <1>4, <2>2 DEF Continue, Put, IInv, TypeOK
<1>6. PICK a \in Accounts, entry \in SUBSET Genuine :
         /\ grants' = grants \/ grants' = [grants EXCEPT ![a] = entry]
         /\ mixed' \in {mixed, mixed \cup {a}}
  <2>1. CASE GrantsFill(c)
    <3>1. me.who \in Accounts /\ me.held \in SUBSET Genuine
      BY <2>1, Known DEF GrantsFill, Good
    <3>2. QED
      BY <2>1, <3>1 DEF GrantsFill
  <2>2. CASE GrantPush(c)
    <3>1. me.grant \in Genuine /\ me.grant.to \in Accounts
      BY <1>1, <2>2, GenuineGrant DEF GrantPush, Good, Grant
    <3> DEFINE to == me.grant.to
               entry == IF grants[to] = None THEN {} ELSE grants[to]
    <3>2. entry \cup {me.grant} \in SUBSET Genuine
      BY <3>1 DEF IInv
    <3>3. grants' = [grants EXCEPT ![to] = entry \cup {me.grant}] /\ mixed' \in {mixed, mixed \cup {to}}
      BY <2>2 DEF GrantPush
    <3> HIDE DEF entry, to
    <3>4. QED
      BY <3>1, <3>2, <3>3 DEF to
  <2>3. CASE RevokeRetain(c)
    <3>1. me.grant \in Genuine /\ me.grant.to \in Accounts
      BY <1>1, <2>3, GenuineGrant DEF RevokeRetain, Good, Grant
    <3>2. mixed' = mixed
      BY <2>3 DEF RevokeRetain, ghosts
    <3>3. CASE grants[me.grant.to] = None
      BY <2>3, <3>1, <3>2, <3>3 DEF RevokeRetain
    <3>4. CASE grants[me.grant.to] # None
      <4>1. {g \in grants[me.grant.to] : g.id # me.grant.id} \in SUBSET Genuine
        BY <3>1, <3>4 DEF IInv
      <4>2. grants' = [grants EXCEPT ![me.grant.to] =
                          {g \in grants[me.grant.to] : g.id # me.grant.id}]
        BY <2>3, <3>4 DEF RevokeRetain
      <4>3. QED
        BY <3>1, <3>2, <4>1, <4>2
    <3>5. QED
      BY <3>3, <3>4
  <2>4. QED
    BY <2>1, <2>2, <2>3
<1>7. /\ grants' \in [Accounts -> (SUBSET Grant) \cup {None}] /\ mixed' \subseteq Accounts
      /\ \A b \in Accounts : grants'[b] # None => grants'[b] \subseteq Genuine
  BY <1>6, GenuineGrant DEF IInv, TypeOK
<1>8. QED
  BY <1>2, <1>3, <1>5, <1>7, CallStep DEF IInv, TypeOK

\* grant_path: by a wizard, who is recorded, or below a grant that is genuine.
LEMMA InsertStep ==
    ASSUME IInv, NEW c \in Calls, NEW to \in Accounts, NEW path \in Paths, NEW delegate \in BOOLEAN,
           GrantInsert(c, to, path, delegate)
    PROVE  IInv'
<1> DEFINE me == call[c]
           g == [id |-> issued + 1, to |-> to, path |-> path, delegate |-> delegate, by |-> me.who]
<1>1. Good(me, Genuine) /\ me.who \in Accounts
  BY Known DEF GrantInsert
<1>2. g \in Grant /\ issued' \in Nat
  BY <1>1 DEF Grant, GrantInsert, IInv, TypeOK
<1>3. /\ UNCHANGED <<levelRow, levels, grants, changes, restarts>>
      /\ table' \subseteq table \cup {g} /\ mixed' \in {mixed, mixed \cup {to}}
      /\ Put(c, [[Idle EXCEPT !.grant = g] EXCEPT !.at = "push"])
  BY DEF GrantInsert, caches, Continue
<1>4. /\ roots \subseteq roots' /\ roots' \subseteq [path : Paths, delegate : BOOLEAN]
      /\ me.level >= Wizard => [path |-> path, delegate |-> delegate] \in roots'
  BY DEF GrantInsert, IInv, TypeOK
<1>5. Genuine \subseteq Genuine'
  BY <1>4, GenuineGrows
<1>6. g \in Genuine'
  <2>1. CASE me.level >= Wizard
    BY <1>2, <1>4, <2>1 DEF Genuine, Rooted
  <2>2. CASE ~(me.level >= Wizard)
    <3>1. PICK h \in me.held : h.delegate /\ Covers(h.path, path)
      BY <2>2 DEF GrantInsert, CanDelegate
    <3>2. h \in Genuine
      BY <1>1 DEF Good
    <3>3. Rooted(g)
      BY <1>2, <3>1, <3>2, PassedOn DEF IInv
    <3>4. QED
      BY <1>2, <1>5, <3>3 DEF Genuine
  <2>3. QED
    BY <2>1, <2>2
<1>7. Good([[Idle EXCEPT !.grant = g] EXCEPT !.at = "push"], Genuine')
  BY <1>2, <1>6, IdleGood DEF Good, CallRecord, Idle
<1>8. call' = [call EXCEPT ![c] = call'[c]] /\ Good(call'[c], Genuine')
  BY <1>3, <1>7 DEF Put, IInv, TypeOK
<1>9. /\ table' \subseteq Genuine' /\ mixed' \subseteq Accounts
      /\ \A a \in Accounts : grants'[a] # None => grants'[a] \subseteq Genuine'
  BY <1>3, <1>5, <1>6 DEF IInv, TypeOK
<1>10. QED
  BY <1>2, <1>3, <1>4, <1>8, <1>9, CallStep DEF IInv, TypeOK

LEMMA DeleteStep ==
    ASSUME IInv, NEW c \in Calls, RevokeDelete(c)
    PROVE  IInv'
<1>1. Good(call[c], Genuine) /\ call[c].grant \in Genuine
  BY DEF IInv, Good, RevokeDelete
<1>2. Genuine' = Genuine /\ table' \subseteq table
  BY DEF RevokeDelete, ghosts, Genuine, Rooted
<1>3. Good([[Idle EXCEPT !.grant = call[c].grant] EXCEPT !.at = "retain"], Genuine)
  BY <1>1, IdleGood, GenuineGrant DEF Good, CallRecord, Idle
<1>4. call' = [call EXCEPT ![c] = call'[c]] /\ Good(call'[c], Genuine)
  BY <1>3 DEF RevokeDelete, Continue, Put, IInv, TypeOK
<1>5. QED
  BY <1>2, <1>4, CallStep DEF RevokeDelete, ghosts, caches, IInv, TypeOK

LEMMA RestartStep ==
    ASSUME IInv, NEW loaded \in BOOLEAN, Restart(loaded)
    PROVE  IInv'
<1>1. Genuine' = Genuine /\ table' = table
  BY DEF Restart, Genuine, Rooted
<1>2. \A c \in Calls : call'[c] = Idle /\ Good(call'[c], Genuine)
  BY IdleGood DEF Restart
<1>3. /\ grants' \in [Accounts -> (SUBSET Grant) \cup {None}]
      /\ \A a \in Accounts : grants'[a] # None => grants'[a] \subseteq Genuine
  BY GenuineGrant DEF Restart, Load, RowsOf, IInv
<1>4. call' \in [Calls -> CallRecord]
  BY <1>2 DEF Restart, Good
<1>5. levels' \in [Accounts -> Levels \cup {None}] /\ restarts' \in Nat /\ mixed' \subseteq Accounts
      /\ UNCHANGED <<levelRow, issued, roots, changes>>
  BY DEF Restart, IInv, TypeOK
<1>6. TypeOK'
  BY <1>1, <1>2, <1>3, <1>4, <1>5 DEF IInv, TypeOK, Idle
<1>7. QED
  BY <1>1, <1>2, <1>3, <1>6 DEF IInv

LEMMA NextIInv == IInv /\ [Next]_vars => IInv'
<1> SUFFICES ASSUME IInv, [Next]_vars PROVE IInv'
  OBVIOUS
<1>1. ASSUME NEW c \in Calls, Call(c) \/ Step(c) PROVE IInv'
  BY <1>1, BeginStep, LookStep, LevelStep, CacheStep, InsertStep, DeleteStep DEF Step
<1>2. ASSUME NEW loaded \in BOOLEAN, Restart(loaded) PROVE IInv'
  BY <1>2, RestartStep
<1>3. CASE UNCHANGED vars
  BY <1>3 DEF vars, caches, ghosts, IInv, TypeOK, Good, Genuine, Rooted
<1>4. QED
  BY <1>1, <1>2, <1>3 DEF Next

LEMMA SpecIInv == Spec => []IInv
BY InitIInv, NextIInv, PTL DEF Spec

\* Tables, caches and calls keep their types.
THEOREM PermissionsType == Spec => []TypeOK
<1>1. IInv => TypeOK
  BY DEF IInv
<1>2. QED
  BY <1>1, SpecIInv, PTL

\* Whoever passes grants on, through whatever stale caches and restarts, nobody
\* is granted a path that no wizard gave away.
THEOREM NoForeignGrants == Spec => []DelegationHolds
<1>1. IInv => DelegationHolds
  BY CachedGenuine DEF IInv, DelegationHolds, Genuine
<1>2. QED
  BY <1>1, SpecIInv, PTL

----------------------------------------------------------------------------
(***************************************************************************)
(* The caches and the tables.  An account that is not mixed has a cache    *)
(* that differs from its rows only by what some call is about to write to  *)
(* it.  That a call takes out of the cache what it took out of the table,  *)
(* and no more, rests on the ids: wherever a grant is remembered, its id   *)
(* is its own.                                                             *)
(***************************************************************************)

InHand(c) == IF call[c].at \in {"push", "delete", "retain"} THEN {call[c].grant} ELSE {}
Seen == table \cup CachedGrants \cup UNION {call[c].held \cup InHand(c) : c \in Calls}

OneId ==
    \A g \in Seen : /\ g.id <= issued
                    /\ \A h \in Seen : g.id = h.id => g = h

\* What a call has deleted stays deleted.
RetainedGone ==
    \A c \in Calls : call[c].at = "retain" => \A g \in table : g.id # call[c].grant.id

LevelsAgree ==
    \A a \in Accounts \ mixed :
        \/ levels[a] \in {None, levelRow[a]}
        \/ \E c \in Calls : call[c].at = "setLevel" /\ call[c].who = a

GrantsAgree ==
    \A a \in Accounts \ mixed :
        grants[a] # None =>
            /\ \A g \in RowsOf(a) \ grants[a] :
                  \E c \in Calls : call[c].at = "push" /\ call[c].grant = g
            /\ \A g \in grants[a] \ RowsOf(a) :
                  \E c \in Calls : call[c].at = "retain" /\ call[c].grant = g /\ g.to = a

CachesAgree == OneId /\ RetainedGone /\ LevelsAgree /\ GrantsAgree

\* All calls but one stay where they are.
Others(c) == \A d \in Calls \ {c} : call'[d] = call[d]

LEMMA InitCachesAgree == Init => CachesAgree
<1> SUFFICES ASSUME Init PROVE CachesAgree
  OBVIOUS
<1>1. /\ \A c \in Calls : call[c] = Idle
      /\ table = {} /\ \A a \in Accounts : grants[a] = None /\ levels[a] = None
  BY DEF Init
<1>2. Seen = {}
  BY <1>1 DEF Seen, CachedGrants, InHand, Idle
<1> QED
  BY <1>1, <1>2 DEF CachesAgree, OneId, RetainedGone, LevelsAgree, GrantsAgree, Idle

LEMMA SeenGenuine == ASSUME IInv PROVE Seen \subseteq Genuine
<1>1. table \subseteq Genuine /\ CachedGrants \subseteq Genuine
  BY CachedGenuine DEF IInv
<1>2. \A c \in Calls : call[c].held \subseteq Genuine /\ InHand(c) \subseteq Genuine
  BY DEF IInv, Good, InHand
<1> QED
  BY <1>1, <1>2 DEF Seen

\* How a step of one call changes what is remembered.
LEMMA SeenStep ==
    ASSUME NEW c \in Calls, Others(c), NEW new, table' \subseteq Seen \cup new,
           CachedGrants' \subseteq Seen \cup new, call'[c].held \subseteq Seen \cup new,
           InHand(c)' \subseteq Seen \cup new
    PROVE  Seen' \subseteq Seen \cup new
<1>1. ASSUME NEW d \in Calls PROVE call'[d].held \cup InHand(d)' \subseteq Seen \cup new
  <2>1. CASE d = c
    BY <2>1
  <2>2. CASE d # c
    BY <2>2 DEF Others, Seen, InHand
  <2> QED
    BY <2>1, <2>2
<1>2. Seen' = table' \cup CachedGrants' \cup UNION {call'[d].held \cup InHand(d)' : d \in Calls}
  BY DEF Seen
<1> QED
  BY <1>1, <1>2

LEMMA NothingNew ==
    ASSUME OneId, Seen' \subseteq Seen, issued' = issued
    PROVE  OneId'
BY DEF OneId

LEMMA OneNew ==
    ASSUME IInv, OneId, NEW g, Seen' \subseteq Seen \cup {g}, g.id = issued + 1,
           issued' = issued + 1
    PROVE  OneId'
<1>1. issued \in Nat /\ \A h \in Seen : h.id \in Nat /\ h.id <= issued
  BY SeenGenuine, GenuineGrant DEF IInv, TypeOK, OneId, Grant
<1>2. \A h \in Seen' : h.id <= issued'
  BY <1>1
<1>3. \A h, k \in Seen' : h.id = k.id => h = k
  BY <1>1 DEF OneId
<1> QED
  BY <1>2, <1>3 DEF OneId

LEMMA LevelsSame ==
    ASSUME LevelsAgree, NEW c \in Calls, Others(c), UNCHANGED <<levelRow, levels>>,
           mixed \subseteq mixed', call[c].at # "setLevel"
    PROVE  LevelsAgree'
BY DEF LevelsAgree, Others

LEMMA GrantsSame ==
    ASSUME GrantsAgree, NEW c \in Calls, Others(c), UNCHANGED <<table, grants>>,
           mixed \subseteq mixed', call[c].at \notin {"push", "retain"}
    PROVE  GrantsAgree'
BY DEF GrantsAgree, Others, RowsOf

LEMMA GoneSame ==
    ASSUME RetainedGone, NEW c \in Calls, Others(c), table' \subseteq table,
           call'[c].at # "retain"
    PROVE  RetainedGone'
BY DEF RetainedGone, Others

\* Where a call goes on to.
LEMMA GoesOn ==
    ASSUME IInv, NEW c \in Calls, NEW r \in CallRecord, NEW at, Continue(c, r, at)
    PROVE  /\ Others(c)
           /\ call'[c].at = at
           /\ call'[c].held \subseteq r.held
           /\ at # "idle" => /\ call'[c].grant = r.grant /\ call'[c].who = r.who
                             /\ call'[c].level = r.level
<1>1. call' = [call EXCEPT ![c] = IF at = "idle" THEN Idle ELSE [r EXCEPT !.at = at]]
      /\ call \in [Calls -> CallRecord]
  BY DEF Continue, Put, IInv, TypeOK
<1>2. call'[c] = IF at = "idle" THEN Idle ELSE [r EXCEPT !.at = at]
  BY <1>1
<1>3. Others(c)
  BY <1>1 DEF Others
<1> QED
  BY <1>2, <1>3 DEF Idle, CallRecord

LEMMA CallKnown ==
    ASSUME IInv, NEW c \in Calls
    PROVE  /\ call[c] \in CallRecord /\ call[c].held \subseteq Seen
           /\ call[c].at \in {"push", "delete", "retain"} => call[c].grant \in Seen \cap Grant
BY SeenGenuine, GenuineGrant DEF IInv, TypeOK, Good, Seen, InHand

\* A step that writes to no table and no cache.
LEMMA QuietStep ==
    ASSUME IInv, CachesAgree, NEW c \in Calls, Others(c),
           UNCHANGED <<levelRow, table, caches, issued, mixed>>,
           call[c].at \notin {"push", "retain", "setLevel"},
           call'[c].at \notin {"push", "retain"},
           call'[c].held \subseteq Seen, InHand(c)' \subseteq Seen
    PROVE  CachesAgree'
<1>1. table' \subseteq Seen /\ CachedGrants' \subseteq Seen
  BY DEF Seen, CachedGrants, caches
<1>2. Seen' \subseteq Seen
  BY <1>1, SeenStep DEF Seen
<1> QED
  BY <1>2, NothingNew, LevelsSame, GrantsSame, GoneSame DEF CachesAgree, caches

LEMMA BeginAgrees ==
    ASSUME IInv, CachesAgree, NEW c \in Calls, Call(c)
    PROVE  CachesAgree'
<1>1. PICK a \in Accounts : BeginContext(c, a) \/ BeginGetGrants(c, a) \/ BeginSetLevel(c, a)
  BY DEF Call
<1>2. PICK r : /\ r.held = {} /\ r.at \in {"level", "grants", "update"}
               /\ Begin(c, r)
  BY <1>1 DEF BeginContext, BeginGetGrants, BeginSetLevel, Idle
<1>3. call'[c] = r /\ Others(c) /\ call[c].at = "idle"
      /\ UNCHANGED <<levelRow, table, caches, issued, mixed>>
  BY <1>2 DEF Begin, Put, Others, IInv, TypeOK, ghosts
<1> QED
  BY <1>2, <1>3, QuietStep DEF InHand

\* Quiet steps, said with what the call goes on with.
LEMMA QuietContinue ==
    ASSUME IInv, CachesAgree, NEW c \in Calls, NEW r \in CallRecord, NEW at,
           Continue(c, r, at), UNCHANGED <<levelRow, table, caches, issued, mixed>>,
           call[c].at \notin {"push", "retain", "setLevel"}, at \notin {"push", "retain"},
           r.held \subseteq Seen, at = "delete" => r.grant \in Seen
    PROVE  CachesAgree'
<1>1. Others(c) /\ call'[c].at = at /\ call'[c].held \subseteq Seen /\ InHand(c)' \subseteq Seen
  BY GoesOn DEF InHand
<1> QED
  BY <1>1, QuietStep

LEMMA LookAgrees ==
    ASSUME IInv, CachesAgree, NEW c \in Calls,
           \/ Answered(c)
           \/ LevelCached(c) \/ LevelRead(c) \/ LevelReadFails(c)
           \/ GrantsCached(c) \/ GrantsRead(c) \/ GrantsReadFails(c)
           \/ FindCached(c) \/ FindRow(c) \/ RevokeRefused(c)
           \/ \E i \in 0..issued : FindMiss(c, i)
    PROVE  CachesAgree'
<1> DEFINE me == call[c]
<1>1. /\ me \in CallRecord /\ me.held \subseteq Seen
      /\ UNCHANGED <<levelRow, table, caches, issued, mixed>>
  BY CallKnown
  DEF Answered, LevelCached, LevelRead, LevelReadFails, GrantsCached, GrantsRead,
      GrantsReadFails, FindCached, FindRow, RevokeRefused, FindMiss, ghosts
<1>2. CASE Answered(c) \/ RevokeRefused(c) \/ LevelReadFails(c) \/ GrantsReadFails(c)
  BY <1>1, <1>2, QuietContinue
  DEF Answered, RevokeRefused, LevelReadFails, GrantsReadFails, AfterGrants
<1>3. CASE LevelCached(c) \/ LevelRead(c)
  <2>1. PICK l \in Levels, at \in {"grants", "levelFill"} : Continue(c, [me EXCEPT !.level = l], at)
    BY <1>3, Known DEF LevelCached, LevelRead, IInv, TypeOK
  <2>2. [me EXCEPT !.level = l] \in CallRecord /\ [me EXCEPT !.level = l].held = me.held
    BY <1>1 DEF CallRecord
  <2> QED
    BY <1>1, <1>3, <2>1, <2>2, QuietContinue DEF LevelCached, LevelRead
<1>4. CASE GrantsCached(c) \/ GrantsRead(c)
  <2>1. me.who \in Accounts /\ me.at = "grants"
    BY <1>4, Known DEF GrantsCached, GrantsRead
  <2>2. PICK kept \in SUBSET Seen, at \in {"idle", "decide", "grantsFill"} :
           Continue(c, [me EXCEPT !.held = kept], at)
    BY <1>4, <2>1 DEF GrantsCached, GrantsRead, AfterGrants, Seen, CachedGrants, RowsOf
  <2>3. kept \subseteq Grant
    BY SeenGenuine, GenuineGrant
  <2>4. [me EXCEPT !.held = kept] \in CallRecord /\ [me EXCEPT !.held = kept].held = kept
    BY <1>1, <2>3 DEF CallRecord
  <2> QED
    BY <1>1, <2>1, <2>2, <2>4, QuietContinue
<1>5. ASSUME NEW i \in 0..issued, FindMiss(c, i) PROVE CachesAgree'
  <2> DEFINE r == [me EXCEPT !.id = i]
  <2>1. r \in CallRecord /\ r.held = me.held
    BY <1>1 DEF CallRecord, IInv, TypeOK
  <2>2. me.at = "decide" /\ Continue(c, r, "findRow")
    BY <1>5 DEF FindMiss
  <2> HIDE DEF r
  <2> QED
    BY <1>1, <2>1, <2>2, QuietContinue
<1>6. CASE FindCached(c)
  <2>1. PICK g \in CachedGrants : /\ me.at = "decide"
                                  /\ Continue(c, [me EXCEPT !.grant = g], "delete")
    BY <1>6 DEF FindCached
  <2>2. g \in Grant /\ g \in Seen
    BY <2>1, CachedGenuine, GenuineGrant DEF Seen
  <2> DEFINE r == [me EXCEPT !.grant = g]
  <2>3. r \in CallRecord /\ r.held = me.held /\ r.grant = g /\ Continue(c, r, "delete")
    BY <1>1, <2>1, <2>2 DEF CallRecord
  <2> HIDE DEF r
  <2> QED
    BY <1>1, <2>1, <2>2, <2>3, QuietContinue
<1>7. CASE FindRow(c)
  <2>1. CASE {g \in table : g.id = me.id} = {}
    BY <1>1, <1>7, <2>1, QuietContinue DEF FindRow
  <2>2. CASE {g \in table : g.id = me.id} # {}
    <3>1. PICK g \in table : Continue(c, [me EXCEPT !.grant = g, !.id = 0], "delete")
      BY <1>7, <2>2 DEF FindRow
    <3>2. g \in Grant /\ g \in Seen
      BY <3>1, GenuineGrant DEF Seen, IInv
    <3> DEFINE r == [me EXCEPT !.grant = g, !.id = 0]
    <3>3. r \in CallRecord /\ r.held = me.held /\ r.grant = g /\ Continue(c, r, "delete")
      BY <1>1, <3>1, <3>2 DEF CallRecord
    <3>4. me.at = "findRow"
      BY <1>7 DEF FindRow
    <3> HIDE DEF r
    <3> QED
      BY <1>1, <3>2, <3>3, <3>4, QuietContinue
  <2> QED
    BY <2>1, <2>2
<1> QED
  BY <1>2, <1>3, <1>4, <1>5, <1>6, <1>7

\* A level that is cached is the row's, or the account is mixed from here on.
LEMMA LevelAgrees ==
    ASSUME IInv, CachesAgree, NEW c \in Calls,
           LevelFill(c) \/ SetLevel(c) \/ \E l \in Levels : Update(c, l) \/ UpdateFails(c, l)
    PROVE  CachesAgree'
<1> DEFINE me == call[c]
           a == me.who
<1>1. /\ me \in CallRecord /\ me.held \subseteq Seen /\ a \in Accounts
      /\ me.at \in {"levelFill", "setLevel", "update"}
      /\ UNCHANGED <<table, grants, issued>> /\ mixed \subseteq mixed'
  BY CallKnown, Known DEF LevelFill, SetLevel, Update, UpdateFails, caches
<1>2. PICK l \in Levels, at \in {"grants", "idle", "setLevel"} :
         /\ Continue(c, [me EXCEPT !.level = l], at)
         /\ at = "setLevel" <=> me.at = "update"
  <2>1. [me EXCEPT !.level = me.level] = me /\ me.level \in Levels
    BY <1>1 DEF CallRecord
  <2> QED
    BY <2>1 DEF LevelFill, SetLevel, Update, UpdateFails
<1>3. /\ [me EXCEPT !.level = l] \in CallRecord /\ [me EXCEPT !.level = l].held = me.held
      /\ [me EXCEPT !.level = l].who = a
  BY <1>1 DEF CallRecord
<1>4. /\ Others(c) /\ call'[c].at = at /\ call'[c].held \subseteq Seen
      /\ at = "setLevel" => call'[c].who = a
  <2> DEFINE r == [me EXCEPT !.level = l]
  <2>1. r \in CallRecord /\ r.held \subseteq Seen /\ r.who = a /\ Continue(c, r, at)
    BY <1>1, <1>2, <1>3
  <2> HIDE DEF r, me, a
  <2>2. Others(c) /\ call'[c].at = at /\ call'[c].held \subseteq r.held
        /\ (at # "idle" => call'[c].who = r.who)
    BY <2>1, GoesOn
  <2> QED
    BY <2>1, <2>2
<1>5. OneId' /\ RetainedGone' /\ GrantsAgree'
  <2>1. table' \subseteq Seen /\ CachedGrants' \subseteq Seen /\ InHand(c)' = {}
    BY <1>1, <1>4 DEF Seen, CachedGrants, InHand
  <2>2. Seen' \subseteq Seen
    BY <1>4, <2>1, SeenStep
  <2> QED
    BY <1>1, <1>4, <2>2, NothingNew, GrantsSame, GoneSame DEF CachesAgree
<1>6. LevelsAgree'
  <2>1. CASE LevelFill(c) \/ SetLevel(c)
    <3>1. /\ levels' = [levels EXCEPT ![a] = me.level] /\ levelRow' = levelRow
          /\ me.level = levelRow[a] \/ a \in mixed'
      BY <2>1, <1>1 DEF LevelFill, SetLevel
    <3>2. \A b \in Accounts \ mixed' : b = a => levels'[b] = levelRow'[b]
      BY <3>1 DEF IInv, TypeOK
    <3>3. \A b \in Accounts : b # a => levels'[b] = levels[b] /\ levelRow'[b] = levelRow[b]
      BY <3>1 DEF IInv, TypeOK
    <3>4. \A d \in Calls : call[d].at = "setLevel" /\ call[d].who # a => call'[d] = call[d]
      BY <1>4 DEF Others
    <3> QED
      BY <1>1, <3>2, <3>3, <3>4 DEF CachesAgree, LevelsAgree
  <2>2. ASSUME NEW k \in Levels, Update(c, k) \/ UpdateFails(c, k) PROVE LevelsAgree'
    <3>1. /\ \A b \in Accounts : b # a => levels'[b] = levels[b] /\ levelRow'[b] = levelRow[b]
          /\ me.at = "update"
      BY <2>2 DEF Update, UpdateFails, IInv, TypeOK, caches
    <3>2. call'[c].at = "setLevel" /\ call'[c].who = a
      BY <1>2, <1>4, <3>1
    <3>3. \A d \in Calls : call[d].at = "setLevel" => call'[d] = call[d]
      BY <1>4, <3>1 DEF Others
    <3> QED
      BY <1>1, <3>1, <3>2, <3>3 DEF CachesAgree, LevelsAgree
  <2> QED
    BY <2>1, <2>2
<1> QED
  BY <1>5, <1>6 DEF CachesAgree

\* A step that ends a call and writes one entry of the cache of grants, from
\* grants that are remembered.
LEMMA EntryWritten ==
    ASSUME IInv, NEW c \in Calls, NEW a \in Accounts, NEW entry \in SUBSET Seen,
           NEW at \in {"idle", "decide"}, Continue(c, call[c], at),
           grants' = [grants EXCEPT ![a] = entry], UNCHANGED <<table, issued>>, OneId
    PROVE  OneId'
<1>1. /\ Others(c) /\ call'[c].at = at /\ call'[c].held \subseteq call[c].held
      /\ call[c].held \subseteq Seen
  BY GoesOn, CallKnown
<1>2. CachedGrants' \subseteq CachedGrants \cup entry
  BY DEF CachedGrants, IInv, TypeOK
<1>3. table' \subseteq Seen /\ CachedGrants' \subseteq Seen /\ InHand(c)' = {}
  BY <1>1, <1>2 DEF Seen, InHand
<1>4. Seen' \subseteq Seen
  BY <1>1, <1>3, SeenStep
<1> QED
  BY <1>4, NothingNew

LEMMA FillAgrees ==
    ASSUME IInv, CachesAgree, NEW c \in Calls, GrantsFill(c)
    PROVE  CachesAgree'
<1> DEFINE me == call[c]
           a == me.who
<1>1. /\ me \in CallRecord /\ me.held \in SUBSET Seen /\ a \in Accounts /\ me.at = "grantsFill"
      /\ UNCHANGED <<levelRow, levels, table, issued>> /\ mixed \subseteq mixed'
      /\ grants' = [grants EXCEPT ![a] = me.held]
      /\ me.held = RowsOf(a) \/ a \in mixed'
  BY CallKnown, Known DEF GrantsFill
<1>2. PICK at \in {"idle", "decide"} : Continue(c, me, at)
  BY DEF GrantsFill, AfterGrants
<1>3. Others(c) /\ call'[c].at = at
  BY <1>1, <1>2, GoesOn
<1>4. OneId'
  BY <1>1, <1>2, EntryWritten DEF CachesAgree
<1>5. GrantsAgree'
  <2>1. \A b \in Accounts : /\ RowsOf(b)' = RowsOf(b)
                            /\ b # a => grants'[b] = grants[b]
    BY <1>1 DEF RowsOf, IInv, TypeOK
  <2>2. a \notin mixed' => grants'[a] = RowsOf(a)
    BY <1>1 DEF IInv, TypeOK
  <2>3. \A d \in Calls : call[d].at \in {"push", "retain"} => call'[d] = call[d]
    BY <1>1, <1>3 DEF Others
  <2>4. ASSUME NEW b \in Accounts \ mixed', grants'[b] # None, b # a
        PROVE  /\ \A g \in RowsOf(b)' \ grants'[b] :
                      \E d \in Calls : call'[d].at = "push" /\ call'[d].grant = g
               /\ \A g \in grants'[b] \ RowsOf(b)' :
                      \E d \in Calls : call'[d].at = "retain" /\ call'[d].grant = g /\ g.to = b
    <3>1. /\ b \in Accounts \ mixed /\ grants'[b] = grants[b] /\ RowsOf(b)' = RowsOf(b)
      BY <1>1, <2>1, <2>4 DEF RowsOf
    <3> QED
      BY <2>3, <2>4, <3>1 DEF CachesAgree, GrantsAgree
  <2>5. \A b \in Accounts \ mixed' : b = a => grants'[b] = RowsOf(b)'
    BY <2>1, <2>2
  <2> QED
    BY <2>4, <2>5 DEF GrantsAgree
<1>6. LevelsAgree' /\ RetainedGone'
  BY <1>1, <1>3, LevelsSame, GoneSame DEF CachesAgree
<1> QED
  BY <1>4, <1>5, <1>6 DEF CachesAgree

\* The grant that is pushed is in the table, and all there is if the entry was
\* empty: else the account is mixed from here on.
LEMMA PushAgrees ==
    ASSUME IInv, CachesAgree, NEW c \in Calls, GrantPush(c)
    PROVE  CachesAgree'
<1> DEFINE me == call[c]
           g == me.grant
           a == g.to
           entry == IF grants[a] = None THEN {} ELSE grants[a]
<1>1. /\ me \in CallRecord /\ me.at = "push" /\ g \in Seen /\ a \in Accounts
      /\ UNCHANGED <<levelRow, levels, table, issued>> /\ mixed \subseteq mixed'
      /\ grants' = [grants EXCEPT ![a] = entry \cup {g}]
      /\ Continue(c, me, "idle")
      /\ a \notin mixed' => g \in table /\ (grants[a] = None => RowsOf(a) = {g})
  BY CallKnown DEF GrantPush, Grant
<1>2. Others(c) /\ call'[c].at = "idle"
  BY <1>1, GoesOn
<1>3. entry \cup {g} \in SUBSET Seen
  BY <1>1 DEF Seen, CachedGrants
<1>4. OneId'
  BY <1>1, <1>3, EntryWritten DEF CachesAgree
<1>5. GrantsAgree'
  <2> SUFFICES ASSUME NEW b \in Accounts \ mixed', grants'[b] # None
               PROVE  /\ \A h \in RowsOf(b)' \ grants'[b] :
                            \E d \in Calls : call'[d].at = "push" /\ call'[d].grant = h
                      /\ \A h \in grants'[b] \ RowsOf(b)' :
                            \E d \in Calls : call'[d].at = "retain" /\ call'[d].grant = h /\ h.to = b
    BY DEF GrantsAgree
  <2>1. b \in Accounts \ mixed /\ RowsOf(b)' = RowsOf(b)
    BY <1>1 DEF RowsOf
  <2>2. \A d \in Calls : call[d].at = "retain" => call'[d] = call[d]
    BY <1>1, <1>2 DEF Others
  <2>3. \A d \in Calls : call[d].at = "push" /\ call[d].grant # g => call'[d] = call[d]
    BY <1>1, <1>2 DEF Others
  <2>4. CASE b = a /\ grants[a] = None
    <3>1. grants'[b] = RowsOf(b)'
      BY <1>1, <2>1, <2>4 DEF IInv, TypeOK
    <3> QED
      BY <3>1
  <2>5. CASE b = a /\ grants[a] # None
    <3>1. grants'[b] = grants[b] \cup {g} /\ g \in RowsOf(b)'
      BY <1>1, <2>1, <2>5 DEF IInv, TypeOK, RowsOf
    <3>2. /\ \A h \in RowsOf(b) \ grants[b] :
                \E d \in Calls : call[d].at = "push" /\ call[d].grant = h
          /\ \A h \in grants[b] \ RowsOf(b) :
                \E d \in Calls : call[d].at = "retain" /\ call[d].grant = h /\ h.to = b
      BY <2>1, <2>5 DEF CachesAgree, GrantsAgree
    <3> QED
      BY <2>1, <2>2, <2>3, <3>1, <3>2
  <2>6. CASE b # a
    <3>1. grants'[b] = grants[b] /\ \A h \in RowsOf(b) : h # g
      BY <1>1, <2>6 DEF IInv, TypeOK, RowsOf
    <3>2. /\ \A h \in RowsOf(b) \ grants[b] :
                \E d \in Calls : call[d].at = "push" /\ call[d].grant = h
          /\ \A h \in grants[b] \ RowsOf(b) :
                \E d \in Calls : call[d].at = "retain" /\ call[d].grant = h /\ h.to = b
      BY <2>1, <3>1 DEF CachesAgree, GrantsAgree
    <3> QED
      BY <2>1, <2>2, <2>3, <3>1, <3>2
  <2> QED
    BY <2>4, <2>5, <2>6
<1>6. LevelsAgree' /\ RetainedGone'
  BY <1>1, <1>2, LevelsSame, GoneSame DEF CachesAgree
<1> QED
  BY <1>4, <1>5, <1>6 DEF CachesAgree

\* A new grant is on its way to the cache, or it has replaced one.
LEMMA InsertAgrees ==
    ASSUME IInv, CachesAgree, NEW c \in Calls, NEW to \in Accounts, NEW path \in Paths,
           NEW delegate \in BOOLEAN, GrantInsert(c, to, path, delegate)
    PROVE  CachesAgree'
<1> DEFINE me == call[c]
<1>1. PICK g : /\ g = [id |-> issued + 1, to |-> to, path |-> path, delegate |-> delegate,
                       by |-> me.who]
               /\ table' = (table \ {h \in table : SameKey(g, h)}) \cup {g}
               /\ mixed' = IF {h \in table : SameKey(g, h)} = {} THEN mixed ELSE mixed \cup {g.to}
               /\ Continue(c, [Idle EXCEPT !.grant = g], "push")
  BY DEF GrantInsert
<1>2. /\ g.id = issued + 1 /\ g.to = to /\ issued' = issued + 1 /\ me.at = "decide"
      /\ UNCHANGED <<levelRow, levels, grants>>
  BY <1>1 DEF GrantInsert, caches
<1>3. g \in Grant /\ [Idle EXCEPT !.grant = g] \in CallRecord
  <2>1. me.who \in Accounts /\ Idle \in CallRecord /\ issued \in Nat
    BY <1>2, Known, IdleGood DEF Good, IInv, TypeOK
  <2>2. g \in Grant
    BY <1>1, <2>1 DEF Grant
  <2> QED
    BY <2>1, <2>2 DEF CallRecord
<1>4. Others(c) /\ call'[c].at = "push" /\ call'[c].grant = g /\ call'[c].held = {}
  BY <1>1, <1>3, GoesOn DEF Idle
<1>5. OneId'
  <2>1. /\ table' \subseteq Seen \cup {g} /\ CachedGrants' \subseteq Seen \cup {g}
        /\ InHand(c)' \subseteq Seen \cup {g}
    BY <1>1, <1>2, <1>4 DEF Seen, CachedGrants, InHand
  <2>2. Seen' \subseteq Seen \cup {g}
    BY <1>4, <2>1, SeenStep
  <2> QED
    BY <1>2, <2>2, OneNew DEF CachesAgree
<1>6. RetainedGone'
  <2> SUFFICES ASSUME NEW d \in Calls, call'[d].at = "retain", NEW h \in table'
               PROVE  h.id # call'[d].grant.id
    BY DEF RetainedGone
  <2>1. d # c /\ call'[d] = call[d]
    BY <1>4 DEF Others
  <2>2. call[d].grant \in Seen \cap Grant
    BY <2>1, CallKnown
  <2>3. call[d].grant.id \in Nat /\ call[d].grant.id <= issued /\ issued \in Nat
    BY <2>2 DEF CachesAgree, OneId, Grant, IInv, TypeOK
  <2>4. h = g \/ h \in table
    BY <1>1
  <2> QED
    BY <1>2, <2>1, <2>3, <2>4 DEF CachesAgree, RetainedGone
<1>7. GrantsAgree'
  <2> SUFFICES ASSUME NEW b \in Accounts \ mixed', grants'[b] # None
               PROVE  /\ \A h \in RowsOf(b)' \ grants'[b] :
                            \E d \in Calls : call'[d].at = "push" /\ call'[d].grant = h
                      /\ \A h \in grants'[b] \ RowsOf(b)' :
                            \E d \in Calls : call'[d].at = "retain" /\ call'[d].grant = h /\ h.to = b
    BY DEF GrantsAgree
  <2>1. b \in Accounts \ mixed /\ grants'[b] = grants[b]
    BY <1>1, <1>2
  <2>2. \A h \in RowsOf(b) : h \in RowsOf(b)'
    BY <1>1, <1>2 DEF RowsOf, SameKey
  <2>3. \A h \in RowsOf(b)' : h \in RowsOf(b) \/ h = g
    BY <1>1 DEF RowsOf
  <2>4. \A d \in Calls : call[d].at \in {"push", "retain"} => call'[d] = call[d]
    BY <1>2, <1>4 DEF Others
  <2>5. /\ \A h \in RowsOf(b) \ grants[b] :
              \E d \in Calls : call[d].at = "push" /\ call[d].grant = h
        /\ \A h \in grants[b] \ RowsOf(b) :
              \E d \in Calls : call[d].at = "retain" /\ call[d].grant = h /\ h.to = b
    BY <2>1 DEF CachesAgree, GrantsAgree
  <2> QED
    BY <1>4, <2>1, <2>2, <2>3, <2>4, <2>5
<1>8. LevelsAgree'
  <2>1. mixed \subseteq mixed'
    BY <1>1
  <2> QED
    BY <1>2, <1>4, <2>1, LevelsSame DEF CachesAgree
<1> QED
  BY <1>5, <1>6, <1>7, <1>8 DEF CachesAgree

\* A grant that is deleted is on its way out of the cache.
LEMMA DeleteAgrees ==
    ASSUME IInv, CachesAgree, NEW c \in Calls, RevokeDelete(c)
    PROVE  CachesAgree'
<1> DEFINE g == call[c].grant
<1>1. /\ call[c].at = "delete" /\ g \in Seen /\ g \in Grant
      /\ table' = {h \in table : h.id # g.id}
      /\ Continue(c, [Idle EXCEPT !.grant = g], "retain")
      /\ UNCHANGED <<levelRow, levels, grants, issued, mixed>>
  BY CallKnown DEF RevokeDelete, caches, ghosts
<1>2. [Idle EXCEPT !.grant = g] \in CallRecord
  BY <1>1, IdleGood DEF Good, CallRecord
<1>3. Others(c) /\ call'[c].at = "retain" /\ call'[c].grant = g /\ call'[c].held = {}
  BY <1>1, <1>2, GoesOn DEF Idle
<1>4. OneId'
  <2>1. table' \subseteq Seen /\ CachedGrants' \subseteq Seen /\ InHand(c)' \subseteq Seen
    BY <1>1, <1>3 DEF Seen, CachedGrants, InHand
  <2>2. Seen' \subseteq Seen
    BY <1>3, <2>1, SeenStep
  <2> QED
    BY <1>1, <2>2, NothingNew DEF CachesAgree
<1>5. RetainedGone'
  BY <1>1, <1>3 DEF CachesAgree, RetainedGone, Others
<1>6. GrantsAgree'
  <2> SUFFICES ASSUME NEW b \in Accounts \ mixed, grants[b] # None
               PROVE  /\ \A h \in RowsOf(b)' \ grants[b] :
                            \E d \in Calls : call'[d].at = "push" /\ call'[d].grant = h
                      /\ \A h \in grants[b] \ RowsOf(b)' :
                            \E d \in Calls : call'[d].at = "retain" /\ call'[d].grant = h /\ h.to = b
    BY <1>1 DEF GrantsAgree
  <2>1. RowsOf(b)' = {h \in RowsOf(b) : h.id # g.id}
    BY <1>1 DEF RowsOf
  <2>2. ASSUME NEW h \in grants[b], h \in RowsOf(b), h \notin RowsOf(b)'
        PROVE  h = g /\ h.to = b
    <3>1. h.id = g.id /\ h.to = b /\ h \in Seen
      BY <2>1, <2>2 DEF RowsOf, Seen
    <3> QED
      BY <1>1, <3>1 DEF CachesAgree, OneId
  <2>3. \A d \in Calls : call[d].at \in {"push", "retain"} => call'[d] = call[d]
    BY <1>1, <1>3 DEF Others
  <2>4. /\ \A h \in RowsOf(b) \ grants[b] :
              \E d \in Calls : call[d].at = "push" /\ call[d].grant = h
        /\ \A h \in grants[b] \ RowsOf(b) :
              \E d \in Calls : call[d].at = "retain" /\ call[d].grant = h /\ h.to = b
    BY DEF CachesAgree, GrantsAgree
  <2> HIDE DEF g
  <2> QED
    BY <1>3, <2>1, <2>2, <2>3, <2>4
<1>7. LevelsAgree'
  BY <1>1, <1>3, LevelsSame DEF CachesAgree
<1> QED
  BY <1>4, <1>5, <1>6, <1>7 DEF CachesAgree

LEMMA RetainAgrees ==
    ASSUME IInv, CachesAgree, NEW c \in Calls, RevokeRetain(c)
    PROVE  CachesAgree'
<1> DEFINE g == call[c].grant
           a == g.to
<1>1. /\ call[c].at = "retain" /\ call[c] \in CallRecord /\ g \in Grant /\ a \in Accounts
      /\ Continue(c, call[c], "idle")
      /\ UNCHANGED <<levelRow, levels, table, issued, mixed>>
  BY CallKnown DEF RevokeRetain, ghosts, Grant
<1>2. Others(c) /\ call'[c].at = "idle" /\ call'[c].held \subseteq Seen /\ InHand(c)' = {}
  BY <1>1, GoesOn, CallKnown DEF InHand
<1>3. \A b \in Accounts :
         \/ grants'[b] = grants[b] /\ (b # a \/ grants[b] = None)
         \/ b = a /\ grants[b] # None /\ grants'[b] = {h \in grants[b] : h.id # g.id}
  BY <1>1 DEF RevokeRetain, IInv, TypeOK
<1>4. OneId'
  <2>1. CASE grants[a] = None
    <3>1. CachedGrants' \subseteq Seen /\ table' \subseteq Seen
      BY <1>1, <2>1 DEF RevokeRetain, CachedGrants, Seen
    <3>2. Seen' \subseteq Seen
      BY <1>2, <3>1, SeenStep
    <3> QED
      BY <1>1, <3>2, NothingNew DEF CachesAgree
  <2>2. CASE grants[a] # None
    <3>1. {h \in grants[a] : h.id # g.id} \in SUBSET Seen
      BY <1>1, <2>2 DEF Seen, CachedGrants
    <3>2. grants' = [grants EXCEPT ![a] = {h \in grants[a] : h.id # g.id}]
      BY <2>2 DEF RevokeRetain
    <3> QED
      BY <1>1, <3>1, <3>2, EntryWritten DEF CachesAgree
  <2> QED
    BY <2>1, <2>2
<1>5. GrantsAgree'
  <2> SUFFICES ASSUME NEW b \in Accounts \ mixed, grants'[b] # None
               PROVE  /\ \A h \in RowsOf(b) \ grants'[b] :
                            \E d \in Calls : call'[d].at = "push" /\ call'[d].grant = h
                      /\ \A h \in grants'[b] \ RowsOf(b) :
                            \E d \in Calls : call'[d].at = "retain" /\ call'[d].grant = h /\ h.to = b
    BY <1>1 DEF GrantsAgree, RowsOf
  <2>1. \A d \in Calls : d # c => call'[d] = call[d]
    BY <1>2 DEF Others
  <2>2. grants[b] # None =>
          /\ \A h \in RowsOf(b) \ grants[b] :
                \E d \in Calls : call[d].at = "push" /\ call[d].grant = h
          /\ \A h \in grants[b] \ RowsOf(b) :
                \E d \in Calls : call[d].at = "retain" /\ call[d].grant = h /\ h.to = b
    BY DEF CachesAgree, GrantsAgree
  <2>3. \A h \in RowsOf(b) : h.id # g.id
    BY <1>1 DEF CachesAgree, RetainedGone, RowsOf
  <2>4. CASE grants'[b] = grants[b] /\ b # a
    BY <1>1, <2>1, <2>2, <2>4
  <2>5. CASE b = a /\ grants[b] # None /\ grants'[b] = {h \in grants[b] : h.id # g.id}
    <3>1. ASSUME NEW h \in RowsOf(b) \ grants'[b]
          PROVE  \E d \in Calls : call'[d].at = "push" /\ call'[d].grant = h
      <4>1. h \in RowsOf(b) \ grants[b]
        BY <2>3, <2>5
      <4>2. PICK d \in Calls : call[d].at = "push" /\ call[d].grant = h
        BY <2>2, <2>5, <4>1
      <4> QED
        BY <1>1, <2>1, <4>2
    <3>2. ASSUME NEW h \in grants'[b] \ RowsOf(b)
          PROVE  \E d \in Calls : call'[d].at = "retain" /\ call'[d].grant = h /\ h.to = b
      <4>1. h \in grants[b] \ RowsOf(b) /\ h.id # g.id
        BY <2>5
      <4>2. PICK d \in Calls : call[d].at = "retain" /\ call[d].grant = h /\ h.to = b
        BY <2>2, <2>5, <4>1
      <4>3. d # c
        BY <4>1, <4>2
      <4> QED
        BY <2>1, <4>2, <4>3
    <3> QED
      BY <3>1, <3>2
  <2> QED
    BY <1>3, <2>4, <2>5
<1>6. RetainedGone' /\ LevelsAgree'
  BY <1>1, <1>2, GoneSame, LevelsSame DEF CachesAgree
<1> QED
  BY <1>4, <1>5, <1>6 DEF CachesAgree

\* A restart reads the tables afresh, or leaves the caches empty.
LEMMA RestartAgrees ==
    ASSUME IInv, CachesAgree, NEW loaded \in BOOLEAN, Restart(loaded)
    PROVE  CachesAgree'
<1>1. /\ \A c \in Calls : call'[c] = Idle
      /\ \A a \in Accounts : /\ levels'[a] = None
                             /\ grants'[a] = None \/ grants'[a] = RowsOf(a)
      /\ UNCHANGED <<table, issued>>
  BY DEF Restart, Load
<1>2. \A a \in Accounts : RowsOf(a)' = RowsOf(a) /\ RowsOf(a) \subseteq table
  BY <1>1 DEF RowsOf
<1>3. Seen' \subseteq Seen
  BY <1>1, <1>2 DEF Seen, CachedGrants, InHand, Idle
<1>4. OneId'
  BY <1>1, <1>3, NothingNew DEF CachesAgree
<1>5. RetainedGone' /\ LevelsAgree' /\ GrantsAgree'
  BY <1>1, <1>2 DEF RetainedGone, LevelsAgree, GrantsAgree, Idle
<1> QED
  BY <1>4, <1>5 DEF CachesAgree

LEMMA NextCachesAgree == IInv /\ CachesAgree /\ [Next]_vars => CachesAgree'
<1> SUFFICES ASSUME IInv, CachesAgree, [Next]_vars PROVE CachesAgree'
  OBVIOUS
<1>1. ASSUME NEW c \in Calls, Call(c) \/ Step(c) PROVE CachesAgree'
  BY <1>1, BeginAgrees, LookAgrees, LevelAgrees, FillAgrees, PushAgrees, RetainAgrees,
     InsertAgrees, DeleteAgrees DEF Step
<1>2. ASSUME NEW loaded \in BOOLEAN, Restart(loaded) PROVE CachesAgree'
  BY <1>2, RestartAgrees
<1>3. CASE UNCHANGED vars
  BY <1>3 DEF vars, caches, ghosts, CachesAgree, OneId, Seen, InHand, CachedGrants,
              RetainedGone, LevelsAgree, GrantsAgree, RowsOf
<1> QED
  BY <1>1, <1>2, <1>3 DEF Next

\* Where no call is halfway, nothing is on its way to the cache.
LEMMA AgreeingAnswers == IInv /\ CachesAgree => AnswersMatchTables
<1> SUFFICES ASSUME IInv, CachesAgree, NEW a \in Accounts \ mixed, ~Halfway(a)
             PROVE  Effective(a) = Persisted(a)
  BY DEF AnswersMatchTables, SameAnswers
<1>1. levels[a] \in {None, levelRow[a]}
  BY DEF CachesAgree, LevelsAgree, Halfway
<1>2. ASSUME grants[a] # None PROVE grants[a] = RowsOf(a)
  <2>1. \A g \in RowsOf(a) : g \in grants[a]
    BY <1>2 DEF CachesAgree, GrantsAgree, Halfway, RowsOf
  <2>2. \A g \in grants[a] : g \in RowsOf(a)
    BY <1>2 DEF CachesAgree, GrantsAgree, Halfway
  <2> QED
    BY <1>2, <2>1, <2>2 DEF IInv, TypeOK
<1> QED
  BY <1>1, <1>2 DEF Effective, Persisted

\* Whatever calls cross and fail, the caches answer as the tables would for
\* every account they have not left behind, once the calls that write to both
\* are through.
THEOREM CachesAnswer == Spec => []AnswersMatchTables
<1>1. Spec => []CachesAgree
  BY InitCachesAgree, NextCachesAgree, SpecIInv, PTL DEF Spec
<1> QED
  BY <1>1, AgreeingAnswers, SpecIInv, PTL

----------------------------------------------------------------------------
(***************************************************************************)
(* Accounts.                                                               *)
(***************************************************************************)

\* The name is taken, with this password.
MayEnter(n, p) == Taken(n) /\ accounts[n].password = p

\* A token generated for a request in progress has been in no row, and is in
\* no other request's hands; the name of a login was there with the password
\* presented, and still is.
Pending ==
    \A c \in Clients : request[c].at # "idle" =>
        /\ request[c].token \in 1..tokens
        /\ request[c].token \notin spent
        /\ \A d \in Clients \ {c} :
              request[d].at # "idle" => request[d].token # request[c].token
        /\ request[c].at = "update" => MayEnter(request[c].name, request[c].password)

\* A token stands for one account.
OneOwner ==
    \A m, n \in Names :
        TokenOf(n) # Nil => /\ TokenOf(n) \in spent
                            /\ m # n => TokenOf(m) # TokenOf(n)

AccountInv == AccountsTypeOK /\ Pending /\ OneOwner

LEMMA InitAccountInv == AccountInit => AccountInv
BY AccountsAssumption
DEF AccountInit, AccountInv, AccountsTypeOK, Request, Pending, OneOwner, NoRequest, TokenOf, Taken, Token

LEMMA AskStep ==
    ASSUME AccountInv, NEW c \in Clients, NEW at \in {"insert", "update"}, NEW n \in Names,
           NEW p \in Passwords, at = "update" => MayEnter(n, p), Ask(c, at, n, p)
    PROVE  AccountInv'
<1>1. PICK t \in Token :
        /\ t = tokens + 1 /\ tokens' = t
        /\ request[c].at = "idle"
        /\ request' = [request EXCEPT ![c] =
                         [at |-> at, name |-> n, password |-> p, token |-> t]]
        /\ UNCHANGED <<accounts, held, spent, shown>>
  BY DEF Ask, Fresh
<1>2. \A d \in Clients : \/ request'[d] = request[d]
                         \/ d = c /\ request'[d] = [at |-> at, name |-> n, password |-> p, token |-> t]
  BY <1>1
<1>3. tokens \in Nat /\ tokens' \in 0..MaxTokens /\ spent \subseteq 1..tokens'
      /\ \A x \in 1..tokens : x # t
  BY <1>1, AccountsAssumption DEF AccountInv, AccountsTypeOK, Request, NoRequest, Token
<1>4. AccountsTypeOK'
  BY <1>1, <1>2, <1>3 DEF AccountInv, AccountsTypeOK, Request, NoRequest
<1>5. Pending'
  <2>1. t \in 1..tokens' /\ t \notin spent
    BY <1>1, <1>3 DEF AccountInv, AccountsTypeOK, Request, NoRequest, Token
  <2>2. \A d \in Clients : request[d].at # "idle" =>
            request[d].token \in 1..tokens' /\ request[d].token # t
    BY <1>1, <1>3 DEF AccountInv, Pending
  <2> QED
    BY <1>1, <1>2, <2>1, <2>2 DEF AccountInv, Pending, MayEnter, Taken
<1>6. OneOwner'
  BY <1>1 DEF AccountInv, OneOwner, TokenOf, Taken
<1> QED
  BY <1>4, <1>5, <1>6 DEF AccountInv

\* The write of a request puts its token into the row of its name.
Writes(c, n, row) ==
    /\ request[c].at # "idle" /\ n = request[c].name
    /\ row \in Account /\ row.token = request[c].token
    /\ row.password = request[c].password
    /\ Taken(n) => row.password = accounts[n].password
    /\ accounts' = [accounts EXCEPT ![n] = row]
    /\ spent' = spent \cup {request[c].token}
    /\ shown' = [shown EXCEPT ![request[c].token] = request[c].password]
    /\ held' = [held EXCEPT ![c] = request[c].token]
    /\ request' = [request EXCEPT ![c] = NoRequest]
    /\ UNCHANGED tokens

LEMMA WriteStep ==
    ASSUME AccountInv, NEW c \in Clients, NEW n, NEW row, Writes(c, n, row)
    PROVE  AccountInv'
<1>1. /\ n \in Names /\ request[c].token \in Token /\ request[c].token \in 1..tokens
      /\ request[c].token \notin spent /\ row # Nil
  BY AccountsAssumption DEF Writes, AccountInv, AccountsTypeOK, Request, NoRequest, Pending
<1>2. request \in [Clients -> Request \cup {NoRequest}]
  BY DEF AccountInv, AccountsTypeOK
<1>3. \A d \in Clients : request'[d] = NoRequest \/ (d # c /\ request'[d] = request[d])
  BY <1>2 DEF Writes
<1>4. /\ \A m \in Names : m # n => accounts'[m] = accounts[m]
      /\ accounts'[n] = row
      /\ accounts' \in [Names -> Account \cup {Nil}]
  BY <1>1 DEF Writes, AccountInv, AccountsTypeOK, Request, NoRequest
<1>5. AccountsTypeOK'
  BY <1>1, <1>3, <1>4 DEF Writes, AccountInv, AccountsTypeOK, Request, NoRequest
<1>6. Pending'
  <2>1. \A m \in Names : Taken(m) => accounts'[m] # Nil
    BY <1>1, <1>4 DEF Taken
  <2> SUFFICES ASSUME NEW d \in Clients, request'[d].at # "idle"
               PROVE  /\ request'[d].token \in 1..tokens'
                      /\ request'[d].token \notin spent'
                      /\ \A e \in Clients \ {d} :
                            request'[e].at # "idle" => request'[e].token # request'[d].token
                      /\ request'[d].at = "update" =>
                            /\ accounts'[request'[d].name] # Nil
                            /\ accounts'[request'[d].name].password = request'[d].password
    BY DEF Pending, MayEnter, Taken
  <2>2. d # c /\ request'[d] = request[d]
    BY <1>3 DEF NoRequest
  <2>3. /\ request[d].token \in 1..tokens /\ request[d].token \notin spent
        /\ request[d].token # request[c].token
        /\ request[d].at = "update" =>
              /\ request[d].name \in Names /\ Taken(request[d].name)
              /\ accounts[request[d].name].password = request[d].password
    BY <2>2 DEF AccountInv, AccountsTypeOK, Request, NoRequest, Pending, MayEnter, Writes
  <2>5. request[d].at = "update" =>
            accounts'[request[d].name].password = request[d].password
    BY <1>1, <1>4, <2>3 DEF Writes
  <2>4. \A e \in Clients \ {d} :
            request'[e].at # "idle" => request'[e].token # request'[d].token
    BY <1>3, <2>2 DEF AccountInv, Pending, NoRequest
  <2> QED
    BY <2>1, <2>2, <2>3, <2>4, <2>5 DEF Writes
<1>7. OneOwner'
  <2>1. \A m \in Names : m # n => TokenOf(m)' = TokenOf(m)
    BY <1>4 DEF TokenOf, Taken
  <2>2. TokenOf(n)' = request[c].token
    BY <1>1, <1>4 DEF TokenOf, Taken, Writes
  <2>3. \A m \in Names : TokenOf(m) # Nil => TokenOf(m) \in spent
    BY DEF AccountInv, OneOwner
  <2> QED
    BY <1>1, <2>1, <2>2, <2>3 DEF Writes, AccountInv, OneOwner
<1> QED
  BY <1>5, <1>6, <1>7 DEF AccountInv

LEMMA InsertWrites ==
    ASSUME AccountInv, NEW c \in Clients, Insert(c)
    PROVE  Writes(c, request[c].name,
                  [password |-> request[c].password, token |-> request[c].token])
BY DEF Insert, Writes, AccountInv, AccountsTypeOK, Request, NoRequest, Account

LEMMA RenewWrites ==
    ASSUME AccountInv, NEW c \in Clients, RenewToken(c)
    PROVE  Writes(c, request[c].name,
                  [accounts[request[c].name] EXCEPT !.token = request[c].token])
<1>1. accounts[request[c].name] \in Account
  BY DEF RenewToken, AccountInv, AccountsTypeOK, Request, NoRequest, Pending, MayEnter, Taken
<1>2. accounts[request[c].name].password = request[c].password
  BY DEF RenewToken, AccountInv, Pending, MayEnter
<1> QED
  BY <1>1, <1>2 DEF RenewToken, Writes, AccountInv, AccountsTypeOK, Request, NoRequest, Account

\* A logout ends the token in the client's hands, if it is still in force.
LEMMA LogoutStep ==
    ASSUME AccountInv, NEW c \in Clients, Logout(c)
    PROVE  /\ AccountInv'
           /\ spent' = spent /\ shown' = shown
           /\ \/ accounts' = accounts
              \/ \E n \in Names : /\ Taken(n) /\ TokenOf(n) # Nil
                                  /\ accounts' = [accounts EXCEPT ![n].token = Nil]
<1> DEFINE t == held[c]
<1>1. /\ t # Nil
      /\ accounts' = [n \in Names |-> IF TokenOf(n) = t
                                      THEN [accounts[n] EXCEPT !.token = Nil] ELSE accounts[n]]
      /\ held' = [held EXCEPT ![c] = Nil]
      /\ UNCHANGED <<request, tokens, spent, shown>>
  BY DEF Logout, Validate
<1>2. \A n \in Names : TokenOf(n) = t => /\ Taken(n) /\ accounts[n] \in Account
                                         /\ [accounts[n] EXCEPT !.token = Nil] \in Account
  BY <1>1 DEF AccountInv, AccountsTypeOK, Request, NoRequest, TokenOf, Taken, Account
<1>3. \A n \in Names : \/ accounts'[n] = accounts[n]
                       \/ /\ TokenOf(n) = t /\ accounts'[n] \in Account
                          /\ accounts'[n].token = Nil
                          /\ accounts'[n].password = accounts[n].password
  BY <1>1, <1>2 DEF Account
<1>4. \A n \in Names : /\ Taken(n)' <=> Taken(n)
                       /\ TokenOf(n)' \in {TokenOf(n), Nil}
                       /\ Taken(n) => accounts'[n].password = accounts[n].password
  BY <1>2, <1>3, AccountsAssumption DEF Taken, TokenOf, Account
<1>5. AccountInv'
  <2>1. AccountsTypeOK'
    BY <1>1, <1>2 DEF AccountInv, AccountsTypeOK, Request, NoRequest
  <2>2. Pending'
    BY <1>1, <1>4 DEF AccountInv, AccountsTypeOK, Request, NoRequest, Pending, MayEnter
  <2>3. OneOwner'
    BY <1>1, <1>4 DEF AccountInv, OneOwner
  <2> QED
    BY <2>1, <2>2, <2>3 DEF AccountInv
<1>6. CASE \E n \in Names : TokenOf(n) = t
  <2>1. PICK n \in Names : TokenOf(n) = t
    BY <1>6
  <2>2. \A m \in Names : m # n => TokenOf(m) # t
    BY <1>1, <2>1 DEF AccountInv, OneOwner
  <2>3. accounts' = [accounts EXCEPT ![n].token = Nil]
    BY <1>1, <2>1, <2>2 DEF AccountInv, AccountsTypeOK, Request, NoRequest
  <2> QED
    BY <1>1, <1>2, <1>5, <2>1, <2>3
<1>7. CASE ~\E n \in Names : TokenOf(n) = t
  <2>1. accounts' = accounts
    BY <1>1, <1>7 DEF AccountInv, AccountsTypeOK, Request, NoRequest
  <2> QED
    BY <1>1, <1>5, <2>1
<1> QED
  BY <1>6, <1>7

LEMMA NextAccountInv == AccountInv /\ [AccountNext]_accountVars => AccountInv'
<1> SUFFICES ASSUME AccountInv, [AccountNext]_accountVars PROVE AccountInv'
  OBVIOUS
<1>1. ASSUME NEW c \in Clients, NEW n \in Names, NEW p \in Passwords,
             Register(c, n, p) \/ Login(c, n, p)
      PROVE  AccountInv'
  BY <1>1, AskStep DEF Register, Login, MayEnter
<1>2. ASSUME NEW c \in Clients, Insert(c) \/ RenewToken(c) PROVE AccountInv'
  BY <1>2, InsertWrites, RenewWrites, WriteStep
<1>3. ASSUME NEW c \in Clients, Logout(c) PROVE AccountInv'
  BY <1>3, LogoutStep
<1>4. ASSUME NEW c \in Clients, WriteFails(c) PROVE AccountInv'
  <2>1. /\ \A d \in Clients : request'[d] = NoRequest \/ request'[d] = request[d]
        /\ UNCHANGED <<accounts, held, tokens, spent, shown>>
    BY <1>4 DEF WriteFails
  <2>2. AccountsTypeOK'
    <3>1. request \in [Clients -> Request \cup {NoRequest}]
      BY DEF AccountInv, AccountsTypeOK
    <3>2. request' \in [Clients -> Request \cup {NoRequest}]
      BY <1>4, <3>1 DEF WriteFails
    <3> QED
      BY <2>1, <3>2 DEF AccountInv, AccountsTypeOK
  <2>4. OneOwner'
    BY <2>1 DEF AccountInv, OneOwner, TokenOf, Taken
  <2>3. Pending'
    BY <2>1 DEF AccountInv, Pending, MayEnter, Taken, NoRequest
  <2> QED
    BY <2>2, <2>3, <2>4 DEF AccountInv
<1>5. CASE UNCHANGED accountVars
  BY <1>5 DEF accountVars, AccountInv, AccountsTypeOK, Request, NoRequest, Pending, MayEnter, OneOwner, TokenOf, Taken
<1> QED
  BY <1>1, <1>2, <1>3, <1>4, <1>5 DEF AccountNext, Rejected

LEMMA AccountInvariance == AccountSpec => []AccountInv
BY InitAccountInv, NextAccountInv, PTL DEF AccountSpec

\* Rows, requests and tokens keep their types.
THEOREM AccountsType == AccountSpec => []AccountsTypeOK
BY AccountInvariance, PTL DEF AccountInv

\* validate_token never finds two accounts.
THEOREM TokenHasOneOwner == AccountSpec => []OneOwner
BY AccountInvariance, PTL DEF AccountInv

Owner == [n \in Names |-> IF Taken(n) THEN accounts[n].password ELSE Nil]
InForce == [n \in Names |-> TokenOf(n)]

\* What a write to one row does to the book.
LEMMA RowChanges ==
    ASSUME AccountsTypeOK, NEW n \in Names, NEW row \in Account,
           accounts' = [accounts EXCEPT ![n] = row]
    PROVE  /\ InForce' = [InForce EXCEPT ![n] = row.token]
           /\ Owner' = [Owner EXCEPT ![n] = row.password]
<1>1. row # Nil /\ \A m \in Names : accounts'[m] = IF m = n THEN row ELSE accounts[m]
  BY AccountsAssumption DEF AccountsTypeOK, Request, NoRequest
<1>2. \A m \in Names : InForce'[m] = IF m = n THEN row.token ELSE InForce[m]
  BY <1>1 DEF InForce, TokenOf, Taken
<1>3. \A m \in Names : Owner'[m] = IF m = n THEN row.password ELSE Owner[m]
  BY <1>1 DEF Owner, Taken
<1>4. InForce' = [m \in Names |-> InForce'[m]] /\ Owner' = [m \in Names |-> Owner'[m]]
  BY DEF InForce, Owner
<1>5. InForce = [m \in Names |-> InForce[m]] /\ Owner = [m \in Names |-> Owner[m]]
  BY DEF InForce, Owner
<1> QED
  BY <1>2, <1>3, <1>4, <1>5

LEMMA ClaimStep ==
    ASSUME AccountInv, NEW n \in Names, NEW s \in Passwords, NEW t \in Token,
           ~Taken(n), t \notin spent, spent' = spent \cup {t},
           shown' = [shown EXCEPT ![t] = s],
           accounts' = [accounts EXCEPT ![n] = [password |-> s, token |-> t]]
    PROVE  Book!Next
<1>1. InForce' = [InForce EXCEPT ![n] = t] /\ Owner' = [Owner EXCEPT ![n] = s]
  <2> DEFINE row == [password |-> s, token |-> t]
  <2>1. row \in Account /\ row.token = t /\ row.password = s
    BY DEF Account
  <2>2. accounts' = [accounts EXCEPT ![n] = row] /\ AccountsTypeOK
    BY DEF AccountInv
  <2> HIDE DEF row
  <2> QED
    BY <2>1, <2>2, RowChanges
<1>2. Owner[n] = Nil
  BY DEF Owner
<1>3. Book!Claim(n, s, t)
  BY <1>1, <1>2 DEF Book!Claim, Book!Issue, Owner, InForce
<1> QED
  BY <1>3 DEF Book!Next

LEMMA StepIsBookStep == AccountInv /\ [AccountNext]_accountVars => [Book!Next]_Book!book
<1> SUFFICES ASSUME AccountInv, [AccountNext]_accountVars PROVE [Book!Next]_Book!book
  OBVIOUS
<1>b. Book!book = <<Owner, InForce, spent, shown>>
  BY DEF Book!book, Owner, InForce
<1>s. ASSUME UNCHANGED <<accounts, spent, shown>> PROVE UNCHANGED Book!book
  BY <1>s DEF Book!book, Taken, TokenOf
<1>1. ASSUME NEW c \in Clients, NEW n \in Names, NEW p \in Passwords,
             Register(c, n, p) \/ Login(c, n, p)
      PROVE  UNCHANGED Book!book
  BY <1>1, <1>s DEF Register, Login, Ask
<1>2. ASSUME NEW c \in Clients, Insert(c) PROVE Book!Next
  <2>1. /\ request[c].name \in Names /\ request[c].password \in Passwords
        /\ request[c].token \in Token /\ request[c].token \notin spent
    BY <1>2 DEF Insert, AccountInv, AccountsTypeOK, Request, NoRequest, Pending
  <2> QED
    BY <1>2, <2>1, ClaimStep DEF Insert
<1>3. ASSUME NEW c \in Clients, RenewToken(c) PROVE Book!Next
  <2> DEFINE n == request[c].name
             t == request[c].token
             s == request[c].password
             row == [accounts[n] EXCEPT !.token = t]
  <2>1. n \in Names /\ Taken(n) /\ t \in Token /\ t \notin spent /\ accounts[n] \in Account
        /\ s \in Passwords /\ accounts[n].password = s
    BY <1>3 DEF RenewToken, AccountInv, AccountsTypeOK, Request, NoRequest, Pending, MayEnter, Taken
  <2>2. row \in Account /\ row.token = t /\ row.password = accounts[n].password
    BY <2>1 DEF Account
  <2>3. accounts' = [accounts EXCEPT ![n] = row] /\ spent' = spent \cup {t}
        /\ shown' = [shown EXCEPT ![t] = s]
    BY <1>3, <2>1 DEF RenewToken, AccountInv, AccountsTypeOK, Request, NoRequest
  <2>4. Owner[n] = s
    BY <2>1 DEF Owner
  <2>8. row.password = s
    BY <2>1, <2>2
  <2> HIDE DEF n, s, t, row
  <2>5. InForce' = [InForce EXCEPT ![n] = t] /\ Owner' = [Owner EXCEPT ![n] = Owner[n]]
    BY <2>1, <2>2, <2>3, <2>4, <2>8, RowChanges DEF AccountInv
  <2>6. Owner' = Owner
    BY <2>5 DEF Owner
  <2>7. Book!Renew(n, s, t)
    BY <2>1, <2>3, <2>4, <2>5, <2>6 DEF Book!Renew, Book!Issue, Owner, InForce
  <2> QED
    BY <2>1, <2>7 DEF Book!Next
<1>4. ASSUME NEW c \in Clients, Logout(c) PROVE [Book!Next]_Book!book
  <2>1. CASE accounts' = accounts
    BY <2>1, <1>4, <1>s DEF Logout
  <2>2. ASSUME NEW n \in Names, Taken(n), TokenOf(n) # Nil,
               accounts' = [accounts EXCEPT ![n].token = Nil]
        PROVE  Book!Next
    <3> DEFINE row == [accounts[n] EXCEPT !.token = Nil]
    <3>1. accounts[n] \in Account
      BY <2>2 DEF AccountInv, AccountsTypeOK, Request, NoRequest, Taken
    <3>2. row \in Account /\ row.token = Nil /\ row.password = accounts[n].password
      BY <3>1 DEF Account
    <3>3. accounts' = [accounts EXCEPT ![n] = row]
      BY <2>2 DEF AccountInv, AccountsTypeOK, Request, NoRequest
    <3>4. Owner[n] = accounts[n].password
      BY <2>2 DEF Owner
    <3> HIDE DEF row
    <3>5. InForce' = [InForce EXCEPT ![n] = row.token] /\ Owner' = [Owner EXCEPT ![n] = row.password]
      BY <3>2, <3>3, RowChanges DEF AccountInv
    <3>6. InForce' = [InForce EXCEPT ![n] = Nil] /\ Owner' = [Owner EXCEPT ![n] = Owner[n]]
      BY <3>2, <3>4, <3>5
    <3>7. Owner' = Owner
      BY <3>6 DEF Owner
    <3>8. Book!End(n)
      BY <1>4, <2>2, <3>6, <3>7 DEF Book!End, Owner, InForce, Logout
    <3> QED
      BY <3>8 DEF Book!Next
  <2> QED
    BY <1>4, <2>1, <2>2, LogoutStep
<1>5. ASSUME NEW c \in Clients, WriteFails(c) \/ Rejected(c) PROVE UNCHANGED Book!book
  BY <1>5, <1>s DEF WriteFails, Rejected, accountVars
<1>6. CASE UNCHANGED accountVars
  BY <1>6, <1>s DEF accountVars
<1> QED
  BY <1>1, <1>2, <1>3, <1>4, <1>5, <1>6 DEF AccountNext

\* Whatever registrations, logins and logouts cross each other, the accounts
\* table takes the steps of the book of tokens: a name is claimed once, a token
\* is always new, and one that has ended never comes back.
THEOREM AccountsImplement == AccountSpec => ImplementsTokenBook
<1>1. AccountInit => Book!Init
  BY DEF AccountInit, Book!Init, Taken, TokenOf
<1> QED
  BY <1>1, AccountInvariance, StepIsBookStep, PTL
  DEF AccountSpec, ImplementsTokenBook, Book!Spec
=============================================================================
