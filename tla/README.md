# A verification of mudcroft

mudcroft is a multi-user dungeon server: a Rust process (`mudd`) with a SQLite
database replicated by Raft, a Lua sandbox for game code, a WebSocket protocol,
and a TypeScript web client.  This directory models the parts of it whose state
is shared by tasks that run concurrently and by restarts, checks the models with
TLC, and proves what matters most for every size with TLAPS.

    tlc -config RaftStorage.cfg MCRaftStorage    # a run: configuration and module
    tlapm RaftStorageProofs.tla                  # the proofs of a module

`PROJECT.json` lists the components, the runs with what each one shows, the
faults that show each property can fail, the lines of code behind every
definition, the disagreements found, the hazards and the theorems.

## 1. The system

Paths are relative to `src/mudd/src` unless they start with another directory.

| Component | State | Operations | Talks to |
|---|---|---|---|
| Raft storage (`raft/storage.rs`) | tables `raft_log`, `raft_vote`, `raft_meta`, fields copied from them, all the game tables | the methods of openraft's storage trait | called by openraft, under one lock |
| Raft writer and start-up (`raft/writer.rs`, `lib.rs`) | the openraft handle | initialise, wait for a leader, write one statement or a batch | openraft; called by nearly everything that writes |
| Sessions (`api/websocket.rs`) | `sessions` and `pending_disconnects`, both keyed by player | connect, command, close, end of grace | players, object store, Lua |
| Players (`player.rs`) | the player's object row | load or create, move, disconnect | object store |
| Credits (`credits/mod.rs`) | table `credits`, cached balances | get, deduct, grant | called from Lua; writes through Raft |
| Timers (`timers/mod.rs`) | table `timers`, map of timers, heartbeats | schedule, cancel, sweep, tick | called from Lua; writes through Raft |
| Combat (`combat/state.rs`) | table `combat_state`, map of states | initialise, initiate, attack, end, remove | the `attack` command; writes to the pool directly |
| Effects (`combat/effects.rs`) | table `active_effects`, map | add, remove, tick, clear | nothing in the server calls it; combat's statements delete its rows |
| Delivery (`api/websocket.rs`) | a channel of 32 per session, the sessions' lock | send to one, broadcast to a room | commands |
| Permissions (`permissions/mod.rs`) | access levels and path grants, each in a table and a cache | look up, check, grant, revoke, set level | Lua |
| Accounts (`auth/accounts.rs`) | table `accounts`, one token each | register, login, validate, logout | HTTP; writes to the pool directly |
| Objects (`objects/store.rs`) | tables of objects, code, exits, universes | create, read, write whole rows, move, delete, clone | Lua, players, commands |
| Classes (`objects/class.rs`) | map of classes, three tables | define, chain, inherit | Lua |
| Lua (`lua/`) | one interpreter per evaluation | run with limits | all managers |
| Venice (`venice/`) | a token bucket per account | request | HTTP services |
| Images (`images/`) | content-addressed images with a count | draw a room, store | Venice, object store |
| Universe upload (`api/universe.rs`) | none | a sequence of store calls per request or zip | object store, Lua |
| First start (`init.rs`, `db/mod.rs`) | the database file | create or upgrade, validate | accounts, object store |
| Web client (`client/src`) | socket, timers, store | connect, reconnect | the WebSocket endpoint |

The server runs on Tokio: every connection is a task, Lua programs block a
worker thread each, openraft has tasks of its own.  Shared maps are behind
`RwLock`s that are mostly released at each `await`, so nearly every manager has
the same shape: a map, a table, and two or more steps to change both.  That is
where the hard behaviour is:

* **Restarts.** Each SQL statement commits by itself.  A crash cuts a method
  between two statements and drops every field, map, task and channel.
* **Interleaving.** What was read before an `await` is used after it: whole rows
  written back, copies of a map entry saved later, caches filled late.
* **Shared keys.** Two connections of an account share one session entry and one
  countdown.
* **Halves of one change.** Table and cache are written one after the other under
  no common lock; uploads and set-up are sequences of statements that nothing
  undoes.
* **Races with time.** Reconnection against the end of the grace period, cancel
  against tick, leader election against the ten-second wait.

What makes each modelled component correct:

* Raft storage: nothing committed is lost; statements run in log order; what is
  recorded as applied has run; a restart re-runs only what was not recorded; a
  vote is on disk before it is answered with; what is committed gets recorded.
* Start-up: it ends; it succeeds the first time and every time; a refusal leaves
  the data whole.
* Sessions: no session of a dead connection; every countdown can be cancelled;
  an inventory is dropped only when its owner is gone; the two places that hold
  the player's room agree; a player who left does not keep items outside a safe
  room.
* Credits: no overdraft; cache and row agree; no purchase is refused that the
  account covers; every change of the row is one grant or one covered purchase;
  calls return.
* Timers: a timer fires once, is not lost before its time, does not come back
  after a cancel, and fires once a tick has found it due.
* Combat: a fight only lowers hp; the table keeps up with it; the slain are
  removed and leave nothing; attackers and targets know each other.
* Delivery: no order in which locks and channels are taken blocks a command; a
  broadcast goes to who is in the room, and nobody else, however long it takes.
* Permissions: nobody holds a path that no wizard gave away, through whatever
  chain of grants; caches and tables give the same answers.
* Accounts: a name is claimed once; only its password brings a token; a token that
  has ended never comes back.
* Objects: a call that succeeded is not undone by one that runs beside it.
* Classes: a class inherits from the nearest class that sets a property, and
  outlives a restart.
* Effects: a restart gives back the effects as they were.
* Libraries: whatever a universe names is in the code store; set-up, however
  often it was cut short, ends in a database that the server accepts.
* Venice and images: nobody is served more than the rate, but for what the
  arithmetic and the clock lose; a room shows only pictures that are stored.

## 2. The modules

| Module | Models | Built on |
|---|---|---|
| `ReplayLog` | what the storage promises the game tables (abstract) | |
| `RaftStorage` | `CombinedStorage` of one node, openraft as its environment | implements `ReplayLog` |
| `RaftNode` | `Server::new` and client writes of a one-voter deployment | composes with `RaftStorage` |
| `RaftStorageProofs` | theorems about both | `RaftNode` |
| `Sessions`, `SessionsProofs` | `handle_socket`, the manager's two maps, the grace task, the player's row | |
| `CreditBook` | what credits promise (abstract) | |
| `Credits`, `CreditsProofs` | `CreditManager` for one account | implements `CreditBook` |
| `Timers`, `TimersProofs` | `TimerManager`'s one-shot timers, the programs that use them, the callers of `tick` | |
| `Combat` | the attack command on NPCs and `CombatManager` behind it | |
| `Delivery` | sessions' channels, the lock, a connection's loop and its commands | |
| `CombatProofs` | theorems about combat and delivery | `Combat`, `Delivery` |
| `Permissions` | `PermissionManager` and the Lua functions that use it | |
| `TokenBook` | what accounts promise (abstract) | |
| `Accounts` | `AccountService` and the requests that reach it | implements `TokenBook` |
| `Objects` | `ObjectStore` and its callers in Lua and commands | |
| `Classes` | `ClassRegistry`, `define_class` and its batch | |
| `Effects` | `EffectRegistry`, and combat's statements on the row it refers to | |
| `Universes` | `mudd_init`, the server's check of the database, creation and update of universes | |
| `TokenBucket` | what a rate limit promises (abstract) | |
| `RateLimiter` | the limiter of `VeniceClient` | implements `TokenBucket` |
| `Images` | the tasks that draw rooms, and `ImageStore` | composes with `RateLimiter` |
| `AccessProofs` | theorems about permissions and accounts | `Permissions`, `Accounts` |
| `WorldProofs` | theorems about universes, objects, classes and effects | `Universes`, `Objects`, `Classes`, `Effects` |
| `ImagesProofs` | theorems about the limiter and the images | `Images` |
| `MCRaftStorage` | the storage alone, under `RaftNode`, and with peers | `RaftNode` |
| `MCSessions`, `MCCredits`, `MCCombat`, `MCAccess`, `MCWorld` | the modules of a run, each under its loads | |

A run may check several modules, or one under several loads: a variable (`part`,
`load`, `use`, `deployment`) says which, is chosen in the initial state and never
changes, and what is not chosen stays in its initial state.  The `MC` modules
EXTEND what they check, so that a run and a theorem speak of the same definition.
`use` is a variable of `Sessions` itself, ranging over the constant `Uses`.

An action is one step between two awaits (or between two SQL statements that
commit separately), with the guard and early returns of the code.  Definitions
whose comment begins with "Fault:" are wrong variants of the definition that follows them; no
specification uses them.  They record which mistake each property would catch.

### Raft storage

Index and term are bounded naturals, an entry is its term and kind.  `execs`
counts how often the statement of an index ran, which is all that recovery can
get wrong about it.  A method of one statement is one action; `save_vote`,
`purge_logs_upto` and `apply_to_state_machine` have a step for each statement
and `op` says how far the running one has come.  The Adaptor's lock makes
methods exclusive (`Free`); the snapshot builder runs outside it, on the copy
`get_snapshot_builder` made.  A failing SQL statement makes openraft shut the
node down, which is a `Crash`; a failing game statement still counts as run,
as `execute_sql` answers with an error response that is then recorded.

openraft is not in the repository.  Its part is in the guards: it deletes only
what is not committed, applies what is committed in order and at most `MaxBatch`
at a time, purges behind a snapshot it was told of, and purges up to
`last_applied` when the log it finds at start-up is behind it.

`RaftNode` adds the phases of `Server::new`.  `initialize` is refused on a node
with a log or a vote; `single_node` passes that error on, `cluster` calls it on
node 1 only (`nodeOne`, chosen at the start), logs the error and goes on.  The
only voter campaigns if it knows the members, from the state machine or from the
entries after `last_applied`.  `NoLeader` is the ten seconds of `wait_for_leader`
running out: it may come at any point of the election, before it or after the
node has voted for itself.

### Sessions

One account, whose connections share `session` and `pending`.  `pc` is a
connection's next step, `task` the step of the grace task it left behind.
`row` is the player object: `where` is `parent_id`, `safe` is
`last_safe_location`.  `MoveObject`, `ReadRow`, `WriteRow` are `move_player`,
whose last two steps read and write the whole row.  `select!` may take either
branch when the sleep and the cancellation are both ready, so a task that is
`due` may still be cancelled or go on.  Assumed: a task cancelled while its
sleep has time to run is polled before the sleep ends.  Any read or write of the
database may fail: without the spawn room the connection goes on nowhere
(`LoadFails`); a failed `move_player` is warned about after the session has moved
(`MoveFails`); `handle_disconnect` ends at its first failure, which nothing
repeats (`DisconnectFails`).  `astray` and `kept` are history: that the last move
of the object failed, and that a grace task did.  `use` is how the account
is used: whether it has `goto`, and when it connects again: `sequential` (after
the last connection has gone, in the grace period), `overlapping` (also a second
tab), `any` (whenever).

### Credits

One account of one universe.  `deduct` and `grant` hold the write lock of the
cache until the row is written, so they are a begin (`Deduct`, `Grant`) and an
end (`Save`, `SaveFails`); `get_balance` takes the lock twice with the query in
between.  Balances are integers; grants stop at `MaxBalance`, far below where an
i64 would overflow.  Three history variables say in which ways cache and row come
apart: `crossed`, the lookups that read the row before its last write; `parted`,
that such a value was cached or that the last write failed; `blind`, that the
last refusal looked at no entry or at a parted one.

### Timers

`db` and `mem` are sets of timers.  Scheduling, cancelling and ticking change
one and then the other; `remove_timers_for_object` holds the map's lock
throughout.  `todo` is what a tick has found due and not dealt with yet.  Time is
the action `ComesDue`, for each timer whenever it likes: two timers need not come
due in the order of their delays, which allows more than a clock does.  A restart
reads the table.  A write or a load may fail, at most `MaxFailures` times.  Heartbeats are not modelled.

### Combat

The branch of `execute_command` for `attack` is one step per await.  The dice
are the choice between `Miss` and `Hit` with some damage.  An NPC has its hp in
three places: its property (`StartHp`), the map (`hp`), the table (`row`).
Player states are taken to exist, as they do from a player's first attack on.
`contested` is a history variable: the NPCs that two commands have had for their
target at once.  Database writes are taken to succeed here, and moving a slain
NPC to its spawn place is one step, as nothing else in the module writes its row.

### Delivery

Each connection has a bounded channel and a task that drains it only between two
commands (`websocket.rs:271`).  `queue` holds those who wait for the sessions'
lock, first come first served with readers together (`Granted`), as Tokio's
`RwLock` has it; `reading` are the broadcasts that keep it while they wait for
room in channels (`:122`).  A command is its kind: `say` stands for those that
answer only, `move` for those that change the room, `attack` for those that
broadcast.

Draining is two awaits: `Take` is `rx.recv`, after which the task is in
`socket.send` (`at = "relay"`), which has no timeout and returns (`Relay`), fails
(`SendFails`: the loop ends) or waits for as long as the client does not read
(`stalled`; `Stall` and `ReadOn` are the client's).  The set-up of a connection
awaits the socket twice in the same way (`"welcome"`, `"describe"`), when it is
registered already and its channel fills.

### Permissions

One universe.  A call is the steps of one Lua function: the context of the user,
through both caches (`Level...`, `Grants...`), then a decision with what it found
there, then table and cache.  Nothing but the cache's own lock is held, so calls
cross at every step.  A grant is identified by a number; `roots` and `mixed` are
history variables: what wizards granted, and the accounts of which a crossing or
a failure has left cache and table apart.  Paths are sequences of segments.

### Accounts

A row per name with a password and a token; `held` is what each client was told,
`spent` and `shown` the tokens that were in some row and the password of the
request that put each there.  `register` and `login` look and write in two
statements (`Register`/`Insert`, `Login`/`RenewToken`), `logout` is one.  Tokens are numbered as they are generated.

### Objects, Classes, Effects

In `Objects` a value of a property is the number of the change that wrote it.
Statements on one row are one action; `update_object`, the exits and
`clone_object` read a row and write one later (`UpdateRead`/`UpdateWrite`,
`CloneRead`/`CloneWrite`).  `promised` is what the calls that succeeded add up
to, `overlapped` the objects of which a write covered a change it had not seen.

`Classes` has the registry and the table; `define_class` changes the first and
leaves a batch for a task (`Persist`), whose first statement the table's foreign
keys may refuse (`Admitted`).  `Chain` is `get_chain`, its loop written as
rounds (`Onward`) of which there are as many as classes, so that it is defined on
a class below itself as well, where the code does not return (`Ends` tells the two
apart); `Gather` is the fold of `resolve_properties` over a chain.

`Effects` is one entity.  `AddRow`/`AddEffect`, `RemoveRows`/`RemoveEffect` and
`ClearRows`/`ClearEffects` write the table first, `Tick` the memory first and then
the table row by row; `CombatSave` and `CombatRemove` are the statements of
`CombatManager` that cascade.

### Universes

A source is its own hash.  `tool` is `mudd_init`, one action per statement, and
may stop between any two; `Open` is the server, which refuses a database without
an admin; `request` are creations (`CreateRead`, `CreateStore`, `CreateInsert`)
and updates of the config from Lua (`UpdateRead`, `UpdateWrite`), which merge
whatever the program passes, hashes of code that was never stored included;
`StoreCode` is any program storing any code.  `edited` is history: the universes
whose hashes a program gave.  Assumed: the tool and the server do not run
at the same time: `mudd/docs/admin.md:70` stops the server first.

### RateLimiter, Images

Time is counted in ticks, `Unit` of which refill a token; a fraction of a token
is a number of ticks, and what `as u32` drops is dropped.  `consume` computes in
f32, which rounds to nearest: `Rounded` gives for anything but a whole number of
tokens every result within `Rounding` ticks, up to the next whole number.  It
reads the clock twice (`venice/mod.rs:218`, `:225`): the earlier reading, up to
`Delay` ticks before, is what is stored, so that the time between the two counts
twice.  `Images` has tasks,
each a chain of requests that may fail anywhere, and rooms that are edited and
removed meanwhile.

## 3. The runs

Passing runs, with their bounds and why these are enough:

| Run | Bounds | What they make happen |
|---|---|---|
| `RaftStorage` | *local*: 3 indices, 1 term, batches of 2; *node*: a one-voter cluster, 5 indices, 3 terms, its id 1 or another; both with 2 crashes and 1 entry kept behind a snapshot; *peer*: 2 indices, 2 crashes, nothing kept, a peer that sends snapshots | two apply batches, a purge, a conflict, and a crash inside the recovery from a crash; the entries of three starts, a membership entry that is applied or purged before a start, an election that outlasts the ten seconds; `install_snapshot` at any point. One term is enough for *local*: rows are compared by kind, votes only grow. The invariants are checked of *local* and *node*, progress of *local* (`LocalGetsRecorded`), start-up of *node* (`NodeSettles`). With fairness |
| `Sessions` | *any*: 2 connections (`Few`) in any order, `goto` allowed; *sequential*: 3 connections one after the other, no `goto`; 2 rooms, 2 items, any statement fails | overlapping sessions and grace tasks; the second and third connection meet a running, due or cancelled countdown; an inventory half dropped when a statement fails, a move that fails before or after the one that counts. With fairness |
| `Credits` | *writers*: 3 purchases and grants at once; *faults*: 2 calls of every kind, balances up to 3, failures, 1 restart; *pictures*: 2 drawing tasks, 2 pictures, 1 room, 2 tokens of 3 ticks each, 6 ticks, rounding and delay of 1, 1 edit | every queue of three at the lock; fill against write, failed write, lost call; refusal by the limiter, a lost fraction of a token, one rounded up to a whole, time counted twice, two tasks on one room, the same picture twice. With fairness |
| `Timers` | 2 programs, 1 ticker, 2 timers of which one belongs to the swept object, 1 restart, 1 failing read or write | a program per role in each race (schedule, cancel or sweep against tick), cut anywhere. With fairness |
| `Combat` | *combat*: 2 players, 1 NPC of 3 hp, damage 1 or 2, 1 restart; *delivery*: 2 players, 1 room, channels of 3 | overlapping and consecutive attacks, a kill by either; channels that fill while two broadcasts, a move and a close want the lock, and while a client stalls in any `socket.send`. A command sends at most three messages to its own channel, so 3 is the least that lets one go through; a player is in the room or nowhere, which is all that broadcasts tell apart (the proofs are of any rooms). With fairness |
| `Access` | *in turn*: one call at a time, 2 grants, 1 change of level, 1 restart; *grants cross*, *levels cross*: 2 calls, one grant or one change; *accounts*: 2 clients, 2 names, 2 passwords, 4 tokens; 2 accounts, a path and one below it | a grant passed on below the granted path, revoked, reloaded; a lookup between the two halves of a write; two registrations of one name, a login against a logout |
| `World` | *universes*: 2 libraries of 2 sources, 1 universe, 2 requests of which one may create, any number of starts, up to a permutation of libraries and of sources; *objects*: 2 objects, 2 properties, 2 calls, 3 changes; *classes*: 3 classes, 2 definitions, 1 restart; *effects*: 2 types, 2 calls, 2 ticks, power 1, any number of restarts | a stop in every step of set-up and upload, an override of a core library, a program that names code it never stored, crossing an update that keeps the hashes; update against move, delete and clone; a class redefined above, under and below itself; add against tick, and a save in the middle of a synchronisation |

Five runs end in a violation.  Each states what a document or comment of the
repository says, which PROJECT.json quotes:

| Run | What happens |
|---|---|
| `RaftNodeSingleRestart` | start, crash, start: `initialize` is refused and the server exits |
| `SessionsTabs` | two tabs, one closes: the countdown it starts drops the other's inventory |
| `CreditsGrant` | grant, restart, smaller grant: the row is replaced, not added to |
| `FirstStart` | `mudd_init` stops once the file is there and before the admin's account is created (TLC's trace; stopping between its creation and its promotion does the same); run again, it finds the file, skips both, ends without an error, and the server refuses the database (`--force` starts afresh) |
| `ClassesLost` | a class is defined, its batch runs and fails on the reference to a universe with an empty id: it lives until the restart |

Deadlock is checked for the timers and access.  It is not for the others, which
may really stop: a server that refused to start, an account whose connections
are all used up (a bound), an NPC that is slain, calls whose bound is reached.

The type invariants (`TypeOK`, `LimiterTypeOK`, `ObjectTypeOK`, ...) are proved
for all sizes and are in no run, nor are the properties that are steps of a proof
only: `AppliedHasEffect`, `PurgeBehindApplied`, `TargetsKnow`, `OneOwner`,
`SameObjects`.

### What the conditions in the properties leave out

Several properties hold only under a condition, or in a run that leaves some
operation out.  Each condition is as weak as TLC would let it be, and each stands for
behaviour of the code that a maintainer should know of:

* *Start-up.*  A server may fail to start in two ways, and `NodeSettles` and
  `FailedKeepsWrites` promise only that it does one or the other and loses nothing.
  With `--peers` it is the ten seconds alone that decide.  `load_state`
  (`raft/storage.rs:76`) does not restore the membership, and openraft looks for it
  from `last_applied` on: once its entry is applied, a restarted one-voter cluster
  knows no members, elects nobody and always gives up; and a node whose
  `--node-id` is not 1 is never initialised (`writer.rs:74`).
* *Snapshots.*  `build_snapshot` sets `current_snapshot` in the builder's own
  copy (`storage.rs:303`), so a node that purged its log has none to give.
  `install_snapshot` moves `last_applied` although no database comes with the
  snapshot (`storage.rs:574`; `db_path` is `None` in every node the program
  creates), so with `PeerSnapshots` entries may count as applied whose statements
  never ran.  Hence the proofs assume `NoPeer`.
* *Sessions.*  `goto` (`websocket.rs:770`) changes the session's room and not the
  player object's, so `LocationAgreesInTurn` is stated of players who cannot use
  it, and of connections that do not overlap, which `SessionsTabs` shows to be
  needed.  `astray`: a `move_player` that fails, because the exit names no room or
  the write does not get through, is only warned about when the session has moved
  (`websocket.rs:369`, `:676`); the two rooms differ until a later move succeeds.
  `kept`: `handle_disconnect` stops at the first statement that fails
  (`player.rs:162`, `:248`) and nothing tries again, so the rest of the inventory
  stays with the player; `AbandonedSettlesAny` is about the other departures.
* *Credits.*  `deduct` and `grant` take a balance that is not cached for 0
  (`credits/mod.rs:119`), so after a restart a purchase is refused whatever the
  row holds; `get_balance` (`mod.rs:91`) may cache an older value over a newer
  one; a failed write leaves the new balance in the cache.  `CacheMatchesRow` and
  `RefusedMeansInsufficient` are checked with all three, and name them: `parted`
  and `blind` become true there and nowhere else.  The load *writers* has none of
  them: with a cold cache the row does not follow the book (`CreditsGrant`).
* *Limiter.*  `ImplementsTokenBucket` gives the bucket a slack, for each request, of
  one rounding of f32 and one gap between the two readings of the clock: with
  neither, the code would serve earlier than an exact bucket.
* *Timers.*  `tick` deletes the rows before it returns the callbacks
  (`timers/mod.rs:269`): a restart in between loses them, the last disjunct of
  `TimersSurvive`.  It works on a copy (`:256`), so a timer whose removal was
  confirmed may still fire.  A row that could not be deleted comes back with a
  restart.  And nothing outside the tests calls `tick`: `Tickers` is empty in the
  server as it is built, where no timer fires at all.  Hence `FoundDueFires` starts
  from what a tick that was called has found due, and nothing says that there is
  such a tick.
* *Combat.*  What happens to an NPC while commands of two players overlap is
  `contested`, and only `DeadAreRemoved` and its type are stated of it: a second
  initialisation undoes the first player's damage (`websocket.rs:956`), an older
  copy is saved over a newer one (`combat/state.rs:441`), a late `initiate` or
  save brings the state of a slain NPC back (`:521`).  `StartHp = MaxHp`, because
  the hp property of a wounded NPC reaches the map and not the table
  (`websocket.rs:968`).  A dead NPC whose removal a restart cuts stays with its 0
  hp until somebody attacks it again, the last disjunct of `DeadAreRemoved`.
* *Delivery.*  A connection's task sends to its own channel, which only it
  drains.  When a command's messages and other players' broadcasts fill the 32
  places while the task is at work on a command, it waits for itself; when they do
  while it sits in `socket.send` because its client does not read
  (`websocket.rs:401`, and in the set-up `:362`, `:382`, `:391`), nobody drains it
  either.  A broadcast to that room then waits with the lock, and everybody for the
  broadcast (`:122`, `:271`).  One client that stops reading, for as long as its
  connection is not given up, is enough to stop the server's commands.  `Clogged` is
  that state, and `CommandsAnswered` says that nothing short of it, lasting for
  good, blocks a command.
* *Permissions.*  `mixed` collects the accounts whose cache and table may differ
  in what they allow: a lookup that cached what it had read before another call's
  write (`permissions/mod.rs:587`), a grant pushed into an entry that was never
  loaded (`:460`), a path granted again, whose old row `INSERT OR REPLACE` removes
  and whose old entry stays in the cache, a failed `UPDATE` of a level that is
  cached all the same.  `AnswersMatchTables` is about the others.  A call that
  has built its context decides by it, however stale; `DelegationHolds` therefore
  speaks of what wizards granted, not of what they have not revoked.  And
  `game.set_access_level` "requires admin" (`lua/game_api.rs:997`) but looks at
  nobody's level: any program may make anybody a wizard, whose grants then count.
* *Objects.*  `overlapped`: the last of two whole-row writes wins, and takes a
  move that came between its read and its write with it (`objects/store.rs:98`).
* *Classes.*  On a class that is its own ancestor `get_chain` (`class.rs:196`)
  does not return; `InheritsNearest` is about chains that end (`Ends`).
* *Libraries.*  `edited`: `game.update_universe` merges the config that a program
  passes (`game_api.rs:1720`, `objects/store.rs:361`) and asks of no hash in it
  whether it is stored.  `LibsResolve` is about the core libraries and about the
  universes whose hashes are those of their creation; a program of an edited one
  may run without a library (`websocket.rs:1470` warns).
* *Effects.*  `mixed`: a failed statement, calls that cross, and
  `INSERT OR REPLACE` of the entity's combat state, whose cascade empties the
  table of its effects (`combat/state.rs:305`).

## 4. Fairness

* `RaftStorage.FairSpec`: openraft's tasks finish the method they are in and
  apply what is committed; a supervisor restarts the process
  (`mudd/docs/admin.md`, `Restart=on-failure`).  Votes, appends and crashes are
  never obliged.
* `RaftNode.NodeFairSpec`: start-up is one task that runs to its end, and
  storage methods finish.
* `Sessions.FairSpec`: Tokio runs every task that can go on.  Clients are not
  obliged to anything.
* `Credits.FairSpec`, `Timers.FairSpec`: strong fairness, as a caller may find
  the lock taken again and again but Tokio's `RwLock` queues its waiters.  What is
  obliged is a call or a tick that has begun; nobody has to call `tick`, and time
  need not pass.
* `Combat.FairSpec`: a command that has begun runs to its end.
* `Delivery.FairSpec`: strong fairness for each connection's steps, for taking a
  message out of its channel and for a `socket.send` whose client reads: lock and
  channels serve those who wait in order, and `select!` picks at random among the
  branches that are ready, so neither messages nor commands win for ever.  No client
  is obliged to read.
* The `MC` modules state the same fairness of the part that is chosen.
  `Permissions`, `Accounts`, `Objects`, `Classes`, `Effects`, `Universes`,
  `RateLimiter` and `Images` have none, as nothing is claimed to happen.

## 5. What is proved

Every safety invariant and every action or refinement property of a passing run
is proved for all values of the constants, under the conditions named below where
a theorem has one.  The
theorems are of the components' own specifications; an `MC` module's is one of
these with bounds added, or several of them side by side.  Each theorem rests on
an inductive invariant, named below.

`RaftStorageProofs`, for every bound, every number of crashes and every value of
`Keep`, assuming only that no peer sends a snapshot (`NoPeer`; with one,
section 3 says which properties fail): type correctness, `NoCommittedLost`,
`AppliedHasEffect`, `ExecutedInOrder`, `PurgeBehindApplied`, `NoHole`,
`ReplayOnlyUnrecorded`, and that the storage implements `ReplayLog`.  The
invariant `IInv` adds to these the order of the counters

    purgedDb <= appliedDb <= lastApplied <= committed,

what the running method may still do (`InProgress`: an apply that stands at
`from` has executed everything before it; a purge stays behind what is recorded)
and that execution has reached `lastApplied`.  None of the properties is
inductive alone: that a purge loses nothing rests on openraft having been told
of a snapshot of recorded entries only, and that a restart re-runs only what was
not recorded rests on `lastApplied` and `appliedDb` agreeing between methods.
`VoteOnDisk` and `RecordedNeverRegresses` are proved with peers' snapshots too:
the first because the running `save_vote` carries what it has written, the
second because memory is never behind the table while the node runs.

For `RaftNode`, in both modes and on any node: `FailedKeepsWrites`, and that a
server's steps are steps of the storage (`NodeUsesStorage`), so that all of the
above holds below it.  `NodeInv` adds to `IInv` the phases and that terms do not
outnumber starts (`VoteBound`).  `NodeBounds` says that the bounds leave room for an entry per call and a
term per start.

`SessionsProofs`, for any number of connections and items and every use:
`TypeOK`, `SessionAlive`, `Cancellable`.  Each map is written by tasks that do
not look whose entry they change; the proof shows that nevertheless a close never
leaves behind a session of a dead connection, and that replacing a countdown's
sender always cancels it.  For an account that connects one time after the other,
`LocationAgreesInTurn` and `InventoryKeptInTurn`, from `InTurnInv`: one connection
or one overdue task is at work and every other countdown is cancelled
(`OneAtATime`, which needs `Cancellable`: what a reconnection cancels is the one
countdown there is); what a task has still to drop is in the player's hands
(`Carried`); and session, row and the connection's own copies of the room agree
step by step (`Located`), the row until a move of the object fails and again from
the next that succeeds.  Every statement may fail in these theorems.

`CreditsProofs`, for any number of calls of every kind, failures and restarts:
`NeverNegative`, from the fact that whatever a call carries is never negative
either; `CacheMatchesRow`, from `AgreeInv`: the holder of the lock is about to write
what is in the cache, and a lookup that carries a balance carries the row's, or is
`crossed`; and from these `RefusedMeansInsufficient`, as a refusal is decided by an
entry that is the row's unless it is `blind`.  Only the refinement of `CreditBook`
(`BookRefinement`) needs `Quiet`: no fills, failures or restarts, for `CreditsGrant`
shows that with a cold cache it does not hold.  Its invariant `WriterInv` says what
the holder of the lock is about to write.

`TimersProofs`, for any number of timers, programs, tickers and restarts:
`TypeOK`, `CancelledIsGone`, `TimersSurvive`, `MapMatchesTable`; and for one
ticker `FiresOnce`.  As in the run, they are about a server whose database calls
succeed.  `Inv` says who opened each window in which table and map may differ:
a call that schedules a timer nobody else knows yet, or a cancel or tick that has
deleted a row.  It adds that a cancelled timer is in neither place, and that a
known one has fired, is in the table or in the hands of a tick.  With two tickers
a timer may be copied by both, which is why `FireOnce` assumes one: then what the
tick is about to return has not fired and is in neither place.

`CombatProofs`, for any number of players and NPCs and any damage: `TypeOK`,
`TargetsKnow`, `SlainLeaveNothing`, `HpNeverRises`; and, if NPCs start with full
hp (`FullStart`, see section 3), `HpSaved`.  `Inv` is about one NPC at a time:
unless it is contested at most one command has it for its target (`Alone`), and
then the copy it carries is the state in the map when it writes it back, nobody
attacks the NPC once its end has begun, and what was carried out has no state, no
row and no command left (`Fight`).  `SavedInv` says which of
a command's steps may find the row behind the map.

Of the delivery, for any players and rooms and for channels of at least one place
(`DeliveryAssumption`): types; `RoomHears`, that whoever a broadcast has yet to
send to is in the attacker's room and has a session for as long as it waits; and
`NoDeadlock`, the safety half of `CommandsAnswered`: whenever somebody is at work,
somebody can go on, or it is a clogged channel that they wait for.  A task in
`socket.send` before a client that does not read does not count as able to go on.
Both rest on `Line` (the queue holds exactly those who want the lock, each once)
and on `Holders` (only broadcasts that send keep it): a writer then has the lock to
itself, the head of the queue gets it when no broadcast keeps it, and a broadcast
that cannot go on waits for a session that has a task (`Present`), which is at work
or stalled if it cannot drain its channel.

`AccessProofs`, for any accounts, paths, calls, failures and restarts: `TypeOK`,
`DelegationHolds` and `AnswersMatchTables`.  For the first the induction carries
that every grant that is in the table, in a cache, in the hands of a call or in a
context is rooted; that a grant made with a delegable one is below it rests on
`Covers` being transitive.  For the last, `CachesAgree`: an id stands for one grant
wherever it is seen (`OneId`), and of an account that is not `mixed` the cached
level and grants are those of the tables, or a call is between the two halves of
writing the difference (`LevelsAgree`, `GrantsAgree`).

Of the accounts, for any clients, names and passwords: `AccountsTypeOK`, that no
two names hold one token (`OneOwner`), and that they implement `TokenBook`, with
an owner for each name taken, its row's token in force, and each token issued for
the password that was shown.  The step that needs
an argument is the write that ends a request: `Pending` says that the token it
brings was never in force before and is in no other request, and that the password
of a login is that of the row it is about to change.

`WorldProofs`:

* *Universes*, for any libraries, sources, universes and requests: `TypeOK` and
  `LibsResolve`, with programs that put any hash into a config.  What the database
  names is stored only because of what runs know: that the library whose hash the
  tool is about to record, and every hash that a request has collected, is in the
  code store already unless a program gave it (`given`), and that code is removed
  only with everything else (`--force`, while no server runs and no request is in
  progress).  An update carries its hashes from read to write: those of a universe
  that is not edited are stored, whatever was written to it meanwhile.  That is
  `IInv`; `Begun` says what a request in each state carries.
* *Objects*, for any objects, properties and calls: `ObjectTypeOK`,
  `OnlyOverlapsLose`, and that the table has exactly the objects that it should
  (`SameObjects`), overlapped or not: `update_object` writes with `UPDATE`, which
  brings nothing back.
* *Classes*, for any names, properties, definitions and restarts, if what programs
  name are names (`ClassesAssumption`): `InheritsNearest`.  The registry is finite
  whatever was defined (`ClassInv`), so the chain of a class cannot meet new
  classes for ever: after as many rounds as there are classes it goes no further
  (`ChainComplete`), and the chain of a class on it is the rest of it
  (`ChainAbove`).  The fold over a chain then has of each property the value of
  the first class that sets it.  Rounds and fold are recursive functions; that
  they are defined, and what they are after *i* rounds, is shown with the least
  number at which it fails (`LeastNumber`), which the library's well-foundedness of
  strict inclusion on finite sets provides: its induction theorems take an
  operator and cannot be used here.
* *Effects*, for any types, calls, ticks, failures and restarts: `EffectTypeOK`
  and `RestartKeepsEffects`.  `EffectInv` says what each call in progress owes:
  while calls come in turn, rows and memory differ by what it is about to do
  (`Midway`), row by row in the synchronisation after a tick; and that rows load as
  the effect in memory when their longest and strongest add up to it (`Sums`).

`ImagesProofs`, for any capacity, refill time, rounding, delay between the two
readings of the clock, accounts, rooms and pictures: `LimiterTypeOK`; that the
limiter implements `TokenBucket`, with a slack of one rounding and one delay for
each request and the refilled tokens as its level, alone and under the tasks that
draw; and `PicturesResolve`,
which holds because a task stores its picture before it puts it into a room
(`StoredFirst`) and no count is ever taken down.  The step of the refinement that
needs an argument is `Consume`: the whole tokens it keeps are, counted from the earlier
reading, at most what was there less one and the slack.

Only model-checked, and why:

* Liveness under fairness is out of the prover's reach: `LocalGetsRecorded`,
  `NodeSettles`, `AbandonedSettlesAny`, `CallsReturn` (of credits and of timers),
  `FoundDueFires`, `DeadAreRemoved`, `CommandsAnswered`.
* `PeerRecordedNeverRegresses` is the *peer* deployment's instance of
  `RecordedNeverRegresses`, which is proved (`RecordedGrows`), and
  `WritersImplementCreditBook` the *writers*' of `ImplementsCreditBook`
  (`BookRefinement`).

## 6. What is not modelled

`PROJECT.json` gives the reason for each component.  In short: the interpreter
and pure I/O (sandbox, Venice's requests, network client, router, schema), code
that only tests reach (`raft/state_machine.rs`, `raft/snapshot.rs`,
`set_balance`, `handle_death`, deletion of images), dice, guests, the running of
`universe.lua`, the handlers of classes, and the web client.  Raft between
several nodes is openraft's and external.  A restart is not an action of
`Sessions`, nor is the loss of a write in `Combat`.  The queue that Lua's
`game.send` and its like fill (`lua/messaging.rs`) is drained by nobody, so there
is no delivery to model.

## 7. Plan

Done: all components whose state is shared by tasks or outlives a restart.  What
would add most, in this order:

1. Proofs about what is left open: what is true of contested NPCs; what a second
   ticker may do to a timer.
2. `Combat` with two NPCs, a change of target in the middle of a fight included,
   and with writes that fail.
3. `Sessions` with a restart, and with the messages of `Delivery`.
4. Handlers and code of classes, and the order of two batches of one class in a
   database whose references hold.
5. `Reconnect`: the web client's `useWebSocket`, whose closing sockets schedule
   reconnects, with a server that accepts.
