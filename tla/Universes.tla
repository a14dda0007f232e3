----------------------------- MODULE Universes -----------------------------
(***************************************************************************)
(* The libraries of universes: mudd_init (mudd/src/init.rs), which makes   *)
(* the database and stores the core libraries, the server's refusal of a   *)
(* database without an admin (mudd/src/db/mod.rs), and the requests that   *)
(* create, upload and update universes (mudd/src/api/universe.rs,          *)
(* mudd/src/objects/store.rs, mudd/src/lua/game_api.rs).                   *)
(*                                                                         *)
(* Code is stored under its hash, and referred to by it: here a source is  *)
(* its own hash.  Every statement commits by itself, and the tool, the     *)
(* server or a request may stop between any two.                           *)
(***************************************************************************)
CONSTANTS
    Libs,        \* names of libraries
    Sources,     \* what a library may contain
    Universes,   \* identifiers that validate_universe_id lets through
    Requests,    \* bound: requests in progress at a time
    Wizards,     \* the requests from accounts of that access level, or more
    Admins,      \* those from accounts of an administrator
    None

Steps == {"stopped", "account", "promote", "libs", "done"}

ASSUME UniversesAssumption ==
    /\ Libs \cap Steps = {}
    /\ None \notin Sources \cup Universes
    /\ Admins \subseteq Wizards /\ Wizards \subseteq Requests

VARIABLES
    file,        \* does the database exist, with its tables?
    admin,       \* the account of the administrator: None, "player" or "admin"
    code,        \* code_store
    core,        \* core_lib_hashes: a source, or None
    config,      \* of a universe: the library hashes of its config, or None
    tool,        \* mudd_init: how far it is, and what it has left to store
    serving,     \* has the server opened the database?
    request,     \* each request: where it is, and what it carries
    edited       \* history: the universes whose hashes a program gave

vars == <<file, admin, code, core, config, tool, serving, request, edited>>
database == <<file, admin, code, core, config, edited>>

NoLibs == [n \in Libs |-> None]
Idle == [at |-> "idle", universe |-> None, todo |-> {}, libs |-> NoLibs, hashes |-> NoLibs,
         given |-> FALSE]   \* history: did a program give the hashes?
Stopped == [at |-> "stopped", todo |-> {}, libs |-> NoLibs]

Init ==
    /\ file = FALSE /\ admin = None
    /\ code = {} /\ core = NoLibs
    /\ config = [u \in Universes |-> None]
    /\ tool = Stopped
    /\ serving = FALSE
    /\ request = [r \in Requests |-> Idle]
    /\ edited = {}

Named(libs) == {n \in Libs : libs[n] # None}

LibSets == [Libs -> Sources \cup {None}]

TypeOK ==
    /\ file \in BOOLEAN /\ admin \in {None, "player", "admin"}
    /\ code \subseteq Sources
    /\ core \in LibSets
    /\ config \in [Universes -> LibSets \cup {None}]
    /\ tool \in [at : Steps \cup Libs, todo : SUBSET Libs, libs : LibSets]
    /\ tool.todo \subseteq Named(tool.libs)
    /\ serving \in BOOLEAN
    /\ request \in [Requests -> [at : {"idle", "store", "update"}, universe : Universes \cup {None},
                                todo : SUBSET Libs, libs : LibSets, hashes : LibSets,
                                given : BOOLEAN]]
    /\ edited \subseteq Universes
    /\ \A r \in Requests : request[r].todo \subseteq Named(request[r].libs)

----------------------------------------------------------------------------
\* mudd_init, while no server runs: a file that is there is upgraded, one that
\* is not is made, with its tables; --force removes it first.  libs is what the
\* library directory now holds.
InitStart(force, libs) ==
    /\ tool.at \in {"stopped", "done"} /\ ~serving
    /\ tool' = [at |-> IF file /\ ~force THEN "libs" ELSE "account",
                todo |-> Named(libs), libs |-> libs]
    /\ file' = TRUE
    /\ IF force
       THEN /\ admin' = None /\ code' = {} /\ core' = NoLibs
            /\ config' = [u \in Universes |-> None] /\ edited' = {}
       ELSE UNCHANGED <<admin, code, core, config, edited>>
    /\ UNCHANGED <<serving, request>>

\* AccountService.create makes a player...
InitAccount ==
    /\ tool.at = "account"
    /\ admin' = "player"
    /\ tool' = [tool EXCEPT !.at = "promote"]
    /\ UNCHANGED <<file, code, core, config, serving, request, edited>>

\* ... set_access_level an admin.
InitPromote ==
    /\ tool.at = "promote"
    /\ admin' = "admin"
    /\ tool' = [tool EXCEPT !.at = "libs"]
    /\ UNCHANGED <<file, code, core, config, serving, request, edited>>

\* Fault: the hash is recorded before the code is stored.
InitCodeLast(n) ==
    /\ tool.at = "libs" /\ n \in tool.todo
    /\ core' = [core EXCEPT ![n] = tool.libs[n]]
    /\ tool' = [tool EXCEPT !.at = n]
    /\ UNCHANGED <<file, admin, code, config, serving, request, edited>>

\* store_code, store_core_lib_hash: one library after the other.
InitCode(n) ==
    /\ tool.at = "libs" /\ n \in tool.todo
    /\ code' = code \cup {tool.libs[n]}
    /\ tool' = [tool EXCEPT !.at = n]
    /\ UNCHANGED <<file, admin, core, config, serving, request, edited>>

InitHash(n) ==
    /\ tool.at = n
    /\ core' = [core EXCEPT ![n] = tool.libs[n]]
    /\ tool' = [tool EXCEPT !.at = "libs", !.todo = @ \ {n}]
    /\ UNCHANGED <<file, admin, code, config, serving, request, edited>>

InitDone ==
    /\ tool.at = "libs" /\ tool.todo = {}
    /\ tool' = [Stopped EXCEPT !.at = "done"]
    /\ UNCHANGED <<database, serving, request>>

\* A statement fails, or the tool is killed.
InitStops ==
    /\ tool.at \notin {"stopped", "done"}
    /\ tool' = Stopped
    /\ UNCHANGED <<database, serving, request>>

----------------------------------------------------------------------------
\* Database::validate
Valid == file /\ admin = "admin"

Open ==
    /\ tool.at \in {"stopped", "done"} /\ ~serving /\ Valid
    /\ serving' = TRUE
    /\ UNCHANGED <<database, tool, request>>

Stop ==
    /\ serving
    /\ serving' = FALSE
    /\ request' = [r \in Requests |-> Idle]
    /\ UNCHANGED <<database, tool>>

Put(r, state) == request' = [request EXCEPT ![r] = state]

\* authenticate and require_admin, which both handlers begin with.
MayCreate(r) == serving /\ r \in Admins

\* process_universe_request and create_universe_from_zip start from the core
\* libraries, which those of the request override...
CreateRead(r, u, libs) ==
    /\ MayCreate(r) /\ request[r].at = "idle"
    /\ Put(r, [Idle EXCEPT !.at = "store", !.universe = u, !.todo = Named(libs),
                           !.libs = libs, !.hashes = core])
    /\ UNCHANGED <<database, tool, serving>>

\* ... and store these one by one.
CreateStore(r, n) ==
    /\ request[r].at = "store" /\ n \in request[r].todo
    /\ code' = code \cup {request[r].libs[n]}
    /\ Put(r, [request[r] EXCEPT !.todo = @ \ {n}, !.hashes[n] = request[r].libs[n]])
    /\ UNCHANGED <<file, admin, core, config, tool, serving, edited>>

\* Only then is the universe created, unless its id is taken.
CreateInsert(r) ==
    LET u == request[r].universe IN
    /\ request[r].at = "store" /\ request[r].todo = {}
    /\ config[u] = None
    /\ config' = [config EXCEPT ![u] = request[r].hashes]
    /\ Put(r, Idle)
    /\ UNCHANGED <<file, admin, code, core, tool, serving, edited>>

\* game.store_code, which any program may call.
StoreCode(source) ==
    /\ serving
    /\ code' = code \cup {source}
    /\ UNCHANGED <<file, admin, core, config, tool, serving, request, edited>>

Carry(r, u, hashes, given) ==
    Put(r, [Idle EXCEPT !.at = "update", !.universe = u, !.hashes = hashes, !.given = given])

\* game.update_universe: it reads the config and puts in its place what the
\* program passes, lib_hashes too, of which it asks nothing...
UpdateRead(r, u) ==
    /\ serving /\ request[r].at = "idle" /\ r \in Wizards
    /\ config[u] # None
    /\ \/ Carry(r, u, config[u], u \in edited)
       \/ \E libs \in LibSets : Carry(r, u, libs, TRUE)
    /\ UNCHANGED <<database, tool, serving>>

\* ... and writes it with the change, whatever it is now.
UpdateWrite(r) ==
    LET u == request[r].universe IN
    /\ request[r].at = "update"
    /\ config' = [config EXCEPT ![u] = request[r].hashes]
    /\ edited' = IF request[r].given THEN edited \cup {u} ELSE edited \ {u}
    /\ Put(r, Idle)
    /\ UNCHANGED <<file, admin, code, core, tool, serving>>

\* A statement fails: what was written before stays.
Fails(r) ==
    /\ request[r].at # "idle"
    /\ Put(r, Idle)
    /\ UNCHANGED <<database, tool, serving>>

Next ==
    \/ \E force \in BOOLEAN, libs \in LibSets : InitStart(force, libs)
    \/ InitAccount \/ InitPromote \/ InitDone \/ InitStops
    \/ \E n \in Libs : InitCode(n) \/ InitHash(n)
    \/ Open \/ Stop
    \/ \E s \in Sources : StoreCode(s)
    \/ \E r \in Requests :
          \/ \E u \in Universes, libs \in LibSets : CreateRead(r, u, libs)
          \/ \E n \in Libs : CreateStore(r, n)
          \/ \E u \in Universes : UpdateRead(r, u)
          \/ CreateInsert(r) \/ UpdateWrite(r) \/ Fails(r)

Spec == Init /\ [][Next]_vars

----------------------------------------------------------------------------
\* load_universe_lib_codes: the sources that a universe's programs run.
LibCodes(libs) == {libs[n] : n \in Named(libs)} \cap code

\* "content-addressed": every library that the next universe will name, or that
\* a universe names since its creation, is in the code store, however the tool, a
\* request or the server was cut short, and whatever updates crossed.  What a
\* program put into lib_hashes itself need not be: nothing looks.
LibsResolve ==
    \A libs \in {core} \cup {config[u] : u \in {v \in Universes \ edited : config[v] # None}} :
        \A n \in Named(libs) : libs[n] \in LibCodes(libs)

\* bin/init.rs "Creates a new database or upgrades an existing one
\* (idempotent)": a run that ends without an error leaves a valid database.
InitGivesValid == tool.at = "done" => Valid
=============================================================================
