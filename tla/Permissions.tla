---------------------------- MODULE Permissions ----------------------------
(***************************************************************************)
(* PermissionManager (mudd/src/permissions/mod.rs) in one universe: the    *)
(* access levels in the accounts table and the path grants in path_grants, *)
(* each with a cache of its own, and the Lua programs that read and change *)
(* them, each call on a thread of its own (mudd/src/lua/game_api.rs).      *)
(*                                                                         *)
(* A call first builds the user's context, through the caches; what it     *)
(* finds there is what it decides by, however long the decision waits.     *)
(* Table and cache are written one after the other under no common lock.   *)
(* An argument of a call is chosen where the call first looks at it.       *)
(***************************************************************************)
EXTENDS Integers, Sequences

CONSTANTS
    Accounts,     \* actors and grantees
    Calls,        \* bound: calls in progress at a time
    Segments,     \* names between the slashes of a path
    Paths,        \* object paths, as sequences of segments
    Levels,       \* bound: the access levels in use
    Wizards,      \* accounts that first-time set-up made wizards
    MaxGrants,    \* bound: grants made
    MaxChanges,   \* bound: changes of an access level
    MaxRestarts,  \* bound: restarts
    None          \* not cached, nobody, nothing

Player == 0
Wizard == 2
Admin == 3

ASSUME PermissionsAssumption ==
    /\ Levels \subseteq 0..4 /\ Player \in Levels
    /\ Paths \subseteq Seq(Segments)
    /\ MaxGrants \in Nat /\ MaxChanges \in Nat /\ MaxRestarts \in Nat
    /\ Wizard \in Levels /\ None \notin Levels

VARIABLES
    levelRow,   \* accounts.access_level
    table,      \* path_grants
    levels,     \* user_levels: a level, or None if not cached
    grants,     \* path_grants of the manager: an entry, or None
    call,       \* each call: where it is, and what it carries
    issued,     \* how many grants have an id
    roots,      \* what wizards have granted
    mixed,      \* accounts whose cache a crossing or failed write has left behind
    changes, restarts

vars == <<levelRow, table, levels, grants, call, issued, roots, mixed, changes, restarts>>
caches == <<levels, grants>>
ghosts == <<issued, roots, mixed, changes, restarts>>

Idle == [at |-> "idle", op |-> "none", who |-> None, id |-> 0,
         level |-> Player, held |-> {}, grant |-> None]

Grant == [id : Nat, to : Accounts, path : Paths, delegate : BOOLEAN, by : Accounts]

CallRecord ==
    [at : {"idle", "level", "levelFill", "grants", "grantsFill", "decide", "update", "setLevel",
           "push", "findRow", "delete", "retain"},
     op : {"none", "context", "list", "setLevel"}, who : Accounts \cup {None}, id : Nat,
     level : Levels, held : SUBSET Grant, grant : Grant \cup {None}]

TypeOK ==
    /\ levelRow \in [Accounts -> Levels]
    /\ table \subseteq Grant
    /\ levels \in [Accounts -> Levels \cup {None}]
    /\ grants \in [Accounts -> (SUBSET Grant) \cup {None}]
    /\ call \in [Calls -> CallRecord]
    /\ \A c \in Calls :
          /\ call[c].at \in {"idle", "push", "retain"} \/ call[c].who \in Accounts
          /\ call[c].at \in {"push", "delete", "retain"} => call[c].grant \in Grant
    /\ issued \in Nat
    /\ roots \subseteq [path : Paths, delegate : BOOLEAN]
    /\ mixed \subseteq Accounts
    /\ changes \in Nat /\ restarts \in Nat

Init ==
    /\ levelRow = [a \in Accounts |-> IF a \in Wizards THEN Wizard ELSE Player]
    /\ table = {}
    /\ levels = [a \in Accounts |-> None]
    /\ grants = [a \in Accounts |-> None]
    /\ call = [c \in Calls |-> Idle]
    /\ issued = 0 /\ roots = {} /\ mixed = {}
    /\ changes = 0 /\ restarts = 0

----------------------------------------------------------------------------
\* covers_path: the path itself, or one below it.
Covers(prefix, path) ==
    /\ Len(prefix) <= Len(path)
    /\ \A i \in 1..Len(prefix) : prefix[i] = path[i]

HasPathAccess(user, path) == \E g \in user.held : Covers(g.path, path)

\* Fault: a grant that may not be passed on is.
CanDelegateAny(user, path) ==
    user.level >= Wizard \/ \E g \in user.held : Covers(g.path, path)

CanDelegate(user, path) ==
    \/ user.level >= Wizard
    \/ \E g \in user.held : g.delegate /\ Covers(g.path, path)

\* check_permission: may the user do this to the object?
Check(user, action, object) ==
    CASE action \in {"admin_config", "grant_credits"} -> user.level >= Admin
      [] action = "store_code" -> user.level >= Wizard
      [] OTHER ->
           \/ user.level >= Wizard
           \/ object.owner = user.who
           \/ HasPathAccess(user, object.path)
           \/ action \in {"read", "execute"}
           \/ action = "move" /\ ~object.fixed

\* check_move_permission: both ends must be within reach.
CheckMove(user, source, target, owner) ==
    \/ user.level >= Wizard
    \/ owner = user.who
    \/ HasPathAccess(user, source) /\ HasPathAccess(user, target)

\* check_create_permission, and can_access_path.
CheckCreate(user, path) == user.level >= Wizard \/ HasPathAccess(user, path)

----------------------------------------------------------------------------
RowsOf(a) == {g \in table : g.to = a}

\* Two grants that the UNIQUE constraint of the table does not let coexist.
SameKey(g, h) == g.to = h.to /\ g.path = h.path

Put(c, r) == call' = [call EXCEPT ![c] = r]
Continue(c, r, at) == Put(c, IF at = "idle" THEN Idle ELSE [r EXCEPT !.at = at])

\* game.get_path_grants ends with the list; a context goes on to a decision.
AfterGrants(op) == IF op = "list" THEN "idle" ELSE "decide"

Begin(c, r) ==
    /\ call[c].at = "idle"
    /\ Put(c, r)
    /\ UNCHANGED <<levelRow, table, caches, ghosts>>

\* get_user_context, for any function that needs one.
BeginContext(c, a) == Begin(c, [Idle EXCEPT !.at = "level", !.op = "context", !.who = a])

BeginGetGrants(c, a) == Begin(c, [Idle EXCEPT !.at = "grants", !.op = "list", !.who = a])

BeginSetLevel(c, a) ==
    /\ changes < MaxChanges
    /\ Begin(c, [Idle EXCEPT !.at = "update", !.op = "setLevel", !.who = a])

\* game.get_access_level stops after the level; game.check_permission and
\* game.can_access_path have their answer from the context alone.
Answered(c) ==
    /\ call[c].at \in {"grants", "decide"}
    /\ Continue(c, call[c], "idle")
    /\ UNCHANGED <<levelRow, table, caches, ghosts>>

----------------------------------------------------------------------------
\* get_access_level
LevelCached(c) ==
    /\ call[c].at = "level" /\ levels[call[c].who] # None
    /\ Continue(c, [call[c] EXCEPT !.level = levels[call[c].who]],
                "grants")
    /\ UNCHANGED <<levelRow, table, caches, ghosts>>

LevelRead(c) ==
    /\ call[c].at = "level" /\ levels[call[c].who] = None
    /\ Continue(c, [call[c] EXCEPT !.level = levelRow[call[c].who]], "levelFill")
    /\ UNCHANGED <<levelRow, table, caches, ghosts>>

\* The query fails: the user counts as a player, and nothing is cached.
LevelReadFails(c) ==
    /\ call[c].at = "level" /\ levels[call[c].who] = None
    /\ Continue(c, call[c], "grants")
    /\ UNCHANGED <<levelRow, table, caches, ghosts>>

LevelFill(c) ==
    LET a == call[c].who IN
    /\ call[c].at = "levelFill"
    /\ levels' = [levels EXCEPT ![a] = call[c].level]
    /\ mixed' = IF call[c].level = levelRow[a] THEN mixed ELSE mixed \cup {a}
    /\ Continue(c, call[c], "grants")
    /\ UNCHANGED <<levelRow, table, grants, issued, roots, changes, restarts>>

\* get_path_grants
GrantsCached(c) ==
    /\ call[c].at = "grants" /\ grants[call[c].who] # None
    /\ Continue(c, [call[c] EXCEPT !.held = grants[call[c].who]],
                AfterGrants(call[c].op))
    /\ UNCHANGED <<levelRow, table, caches, ghosts>>

GrantsRead(c) ==
    /\ call[c].at = "grants" /\ grants[call[c].who] = None
    /\ Continue(c, [call[c] EXCEPT !.held = RowsOf(call[c].who)], "grantsFill")
    /\ UNCHANGED <<levelRow, table, caches, ghosts>>

GrantsReadFails(c) ==
    /\ call[c].at = "grants" /\ grants[call[c].who] = None
    /\ Continue(c, call[c], AfterGrants(call[c].op))
    /\ UNCHANGED <<levelRow, table, caches, ghosts>>

GrantsFill(c) ==
    LET a == call[c].who IN
    /\ call[c].at = "grantsFill"
    /\ grants' = [grants EXCEPT ![a] = call[c].held]
    /\ mixed' = IF call[c].held = RowsOf(a) THEN mixed ELSE mixed \cup {a}
    /\ Continue(c, call[c], AfterGrants(call[c].op))
    /\ UNCHANGED <<levelRow, table, levels, issued, roots, changes, restarts>>

----------------------------------------------------------------------------
\* set_access_level writes the row, or warns that it could not...
Update(c, l) ==
    /\ call[c].at = "update" /\ changes < MaxChanges
    /\ changes' = changes + 1
    /\ levelRow' = [levelRow EXCEPT ![call[c].who] = l]
    /\ Continue(c, [call[c] EXCEPT !.level = l], "setLevel")
    /\ UNCHANGED <<table, caches, issued, roots, mixed, restarts>>

UpdateFails(c, l) ==
    /\ call[c].at = "update" /\ changes < MaxChanges
    /\ changes' = changes + 1
    /\ Continue(c, [call[c] EXCEPT !.level = l], "setLevel")
    /\ UNCHANGED <<levelRow, table, caches, issued, roots, mixed, restarts>>

\* ... and caches the level either way.
SetLevel(c) ==
    LET a == call[c].who IN
    /\ call[c].at = "setLevel"
    /\ levels' = [levels EXCEPT ![a] = call[c].level]
    /\ mixed' = IF call[c].level = levelRow[a] THEN mixed ELSE mixed \cup {a}
    /\ Continue(c, call[c], "idle")
    /\ UNCHANGED <<levelRow, table, grants, issued, roots, changes, restarts>>

\* grant_path, unless the user may not delegate the path or the INSERT fails:
\* then the call just ends, as Answered does.
\* INSERT OR REPLACE: a grant of the same path to the same user goes.
GrantInsert(c, to, path, delegate) ==
    LET me == call[c]
        g == [id |-> issued + 1, to |-> to, path |-> path,
              delegate |-> delegate, by |-> me.who]
        again == {h \in table : SameKey(g, h)}
    IN
    /\ me.at = "decide" /\ issued < MaxGrants
    /\ CanDelegate(me, path)
    /\ table' = (table \ again) \cup {g}
    /\ issued' = issued + 1
    /\ roots' = IF me.level >= Wizard
                THEN roots \cup {[path |-> g.path, delegate |-> g.delegate]}
                ELSE roots
    /\ mixed' = IF again = {} THEN mixed ELSE mixed \cup {g.to}
    /\ Continue(c, [Idle EXCEPT !.grant = g], "push")
    /\ UNCHANGED <<levelRow, caches, changes, restarts>>

\* entry(key).or_default().push(grant)
GrantPush(c) ==
    LET g == call[c].grant
        entry == IF grants[g.to] = None THEN {} ELSE grants[g.to]
    IN
    /\ call[c].at = "push"
    /\ grants' = [grants EXCEPT ![g.to] = entry \cup {g}]
    /\ mixed' = IF /\ g \in table
                   /\ grants[g.to] = None => RowsOf(g.to) = {g}
                THEN mixed ELSE mixed \cup {g.to}
    /\ Continue(c, call[c], "idle")
    /\ UNCHANGED <<levelRow, table, levels, issued, roots, changes, restarts>>

----------------------------------------------------------------------------
CachedGrants == UNION {grants[a] : a \in {b \in Accounts : grants[b] # None}}

\* get_path_grant_by_id: the caches first, then the table.
FindCached(c) ==
    \E g \in CachedGrants :
        /\ call[c].at = "decide"
        /\ Continue(c, [call[c] EXCEPT !.grant = g], "delete")
        /\ UNCHANGED <<levelRow, table, caches, ghosts>>

FindMiss(c, i) ==
    /\ call[c].at = "decide"
    /\ \A g \in CachedGrants : g.id # i
    /\ Continue(c, [call[c] EXCEPT !.id = i], "findRow")
    /\ UNCHANGED <<levelRow, table, caches, ghosts>>

FindRow(c) ==
    /\ call[c].at = "findRow"
    /\ LET found == {g \in table : g.id = call[c].id} IN
       IF found = {} THEN Continue(c, call[c], "idle")
       ELSE \E g \in found :
              Continue(c, [call[c] EXCEPT !.grant = g, !.id = 0], "delete")
    /\ UNCHANGED <<levelRow, table, caches, ghosts>>

CanRevoke(user, g) ==
    \/ user.level >= Wizard
    \/ user.who = g.by
    \/ CanDelegate(user, g.path)

\* The revoker may not, or the DELETE fails.
RevokeRefused(c) ==
    /\ call[c].at = "delete"
    /\ Continue(c, call[c], "idle")
    /\ UNCHANGED <<levelRow, table, caches, ghosts>>

RevokeDelete(c) ==
    /\ call[c].at = "delete"
    /\ CanRevoke(call[c], call[c].grant)
    /\ table' = {g \in table : g.id # call[c].grant.id}
    /\ Continue(c, [Idle EXCEPT !.grant = call[c].grant], "retain")
    /\ UNCHANGED <<levelRow, caches, ghosts>>

\* Fault: the cache is left for the next start to clean.
RevokeRetainNot(c) ==
    /\ call[c].at = "retain"
    /\ Continue(c, call[c], "idle")
    /\ UNCHANGED <<levelRow, table, caches, ghosts>>

RevokeRetain(c) ==
    LET a == call[c].grant.to IN
    /\ call[c].at = "retain"
    /\ grants' = IF grants[a] = None THEN grants
                 ELSE [grants EXCEPT ![a] = {g \in grants[a] : g.id # call[c].grant.id}]
    /\ Continue(c, call[c], "idle")
    /\ UNCHANGED <<levelRow, table, levels, ghosts>>

----------------------------------------------------------------------------
\* load_path_grants at start-up: an entry for each grantee, or none on failure.
Load(loaded) ==
    [a \in Accounts |-> IF loaded /\ RowsOf(a) # {} THEN RowsOf(a) ELSE None]

Restart(loaded) ==
    /\ restarts < MaxRestarts
    /\ restarts' = restarts + 1
    /\ levels' = [a \in Accounts |-> None]
    /\ grants' = Load(loaded)
    /\ call' = [c \in Calls |-> Idle]
    /\ mixed' = {}
    /\ UNCHANGED <<levelRow, table, issued, roots, changes>>

Call(c) ==
    \E a \in Accounts : BeginContext(c, a) \/ BeginGetGrants(c, a) \/ BeginSetLevel(c, a)

Step(c) ==
    \/ Answered(c)
    \/ LevelCached(c) \/ LevelRead(c) \/ LevelReadFails(c) \/ LevelFill(c)
    \/ GrantsCached(c) \/ GrantsRead(c) \/ GrantsReadFails(c) \/ GrantsFill(c)
    \/ \E l \in Levels : Update(c, l) \/ UpdateFails(c, l)
    \/ SetLevel(c)
    \/ GrantPush(c)
    \/ \E a \in Accounts, p \in Paths, d \in BOOLEAN : GrantInsert(c, a, p, d)
    \/ FindCached(c) \/ FindRow(c)
    \/ \E i \in 0..issued : FindMiss(c, i)
    \/ RevokeRefused(c) \/ RevokeDelete(c) \/ RevokeRetain(c)

Next ==
    \/ \E c \in Calls : Call(c) \/ Step(c)
    \/ \E loaded \in BOOLEAN : Restart(loaded)

Spec == Init /\ [][Next]_vars

----------------------------------------------------------------------------
\* Does the grant go back to a wizard: made by one, or below what one granted
\* for others to pass on?
Rooted(g) ==
    \E r \in roots :
        \/ r = [path |-> g.path, delegate |-> g.delegate]
        \/ r.delegate /\ Covers(r.path, g.path)

\* mod.rs "Whether the grantee can sub-delegate to others": whoever passes grants on, through whatever
\* caches and restarts, nobody is granted a path that no wizard gave away.
DelegationHolds == \A g \in table \cup CachedGrants : Rooted(g)

\* The user as the caches and, where they are empty, the tables describe it...
Effective(a) ==
    [who |-> a,
     level |-> IF levels[a] = None THEN levelRow[a] ELSE levels[a],
     held |-> IF grants[a] = None THEN RowsOf(a) ELSE grants[a]]

\* ... and as the tables alone do.
Persisted(a) == [who |-> a, level |-> levelRow[a], held |-> RowsOf(a)]

SameAnswers(u, v) ==
    \/ u = v
    \/ /\ \A action \in {"read", "modify", "move", "store_code", "admin_config"},
             p \in Paths, fixed \in BOOLEAN :
             LET object == [path |-> p, owner |-> None, fixed |-> fixed] IN
             Check(u, action, object) = Check(v, action, object)
       /\ \A p, q \in Paths : CheckMove(u, p, q, None) = CheckMove(v, p, q, None)
       /\ \A p \in Paths :
             /\ CheckCreate(u, p) = CheckCreate(v, p)
             /\ CanDelegate(u, p) = CanDelegate(v, p)

\* Is some call between its write to the table and its write to the cache?
Halfway(a) ==
    \E c \in Calls :
        \/ call[c].at = "setLevel" /\ call[c].who = a
        \/ call[c].at \in {"push", "retain"} /\ call[c].grant.to = a

\* "In-memory cache": unless calls have crossed, re-granted a path or failed,
\* the caches answer every question as the tables would: a revoked path is out
\* of reach and a granted one within it, before and after a restart.
AnswersMatchTables ==
    \A a \in Accounts \ mixed :
        Halfway(a) \/ SameAnswers(Effective(a), Persisted(a))
=============================================================================
