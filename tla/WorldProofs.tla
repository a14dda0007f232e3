---------------------------- MODULE WorldProofs ----------------------------
(***************************************************************************)
(* Proofs about Universes, Objects, Effects and Classes.  No library that  *)
(* set-up or a creation named is ever missing from the code store; only    *)
(* whole-row writes that overlap lose a change of an object; a restart     *)
(* keeps the status effects; and a class has of each property what the     *)
(* nearest class says.                                                     *)
(***************************************************************************)
EXTENDS MCWorld, Sequences, FiniteSetTheorems, TLAPS

\* Everything that libs names is in a code store.
Kept(libs, store) == \A n \in Libs : libs[n] # None => libs[n] \in store

\* A request in progress names a universe, and a creation takes no hashes from a
\* program.
Begun(state) ==
    /\ state.at # "idle" => state.universe \in Universes
    /\ state.at = "store" => state.given = FALSE

\* The code comes before the hash: the hash the tool is about to record, and
\* those a request carries, are stored already, unless a program gave them.  Only
\* a database that no request is at work on is removed.
IInv ==
    /\ TypeOK
    /\ Kept(core, code)
    /\ \A u \in Universes \ edited : config[u] # None => Kept(config[u], code)
    /\ \A n \in Libs : tool.at = n => tool.libs[n] \in code
    /\ \A r \in Requests : request[r].given \/ Kept(request[r].hashes, code)
    /\ \A r \in Requests : Begun(request[r])
    /\ ~serving => \A r \in Requests : request[r] = Idle

LEMMA NoLibsType == NoLibs \in LibSets /\ \A n \in Libs : NoLibs[n] = None
BY DEF NoLibs, LibSets

Request == [at : {"idle", "store", "update"}, universe : Universes \cup {None},
            todo : SUBSET Libs, libs : LibSets, hashes : LibSets, given : BOOLEAN]

LEMMA IdleType ==
    /\ Idle \in Request /\ Idle.todo = {} /\ Idle.hashes = NoLibs /\ Idle.given = FALSE
    /\ Begun(Idle)
BY NoLibsType DEF Idle, Request, Begun

LEMMA InitIInv == Init => IInv
<1> SUFFICES ASSUME Init PROVE IInv
  OBVIOUS
<1>1. \A r \in Requests : request[r] = Idle
  BY DEF Init
<1>2. request \in [Requests -> Request]
  BY IdleType DEF Init
<1>3. tool.at \notin Libs /\ tool.todo = {}
      /\ tool \in [at : Steps \cup Libs, todo : SUBSET Libs, libs : LibSets]
  BY NoLibsType, UniversesAssumption DEF Init, Stopped, Steps
<1>4. TypeOK
  BY <1>1, <1>2, <1>3, IdleType, NoLibsType DEF Init, TypeOK, Request
<1>5. QED
  BY <1>1, <1>3, <1>4, IdleType, NoLibsType DEF Init, IInv, Kept

LEMMA StartStep ==
    ASSUME IInv, NEW force \in BOOLEAN, NEW libs \in LibSets, InitStart(force, libs)
    PROVE  IInv'
<1>1. TypeOK'
  BY NoLibsType DEF IInv, TypeOK, InitStart, Steps, Named
<1>2. tool'.at \notin Libs
  BY UniversesAssumption DEF InitStart, Steps
<1>3. \A r \in Requests : request'[r] = Idle
  BY DEF IInv, InitStart
<1>4. /\ Kept(core, code)'
      /\ (\A u \in Universes \ edited : config[u] # None => Kept(config[u], code))'
  <2>1. CASE force
    BY <2>1, NoLibsType DEF InitStart, Kept
  <2>2. CASE ~force
    BY <2>2 DEF IInv, InitStart, Kept
  <2>3. QED
    BY <2>1, <2>2
<1>5. \A r \in Requests : Kept(request'[r].hashes, code') /\ Begun(request'[r])
  BY <1>3, IdleType, NoLibsType DEF Kept
<1>6. QED
  BY <1>1, <1>2, <1>3, <1>4, <1>5 DEF IInv

\* The tool's other steps touch neither config nor requests, and code only grows.
LEMMA ToolStep ==
    ASSUME IInv,
           InitAccount \/ InitPromote \/ InitDone \/ InitStops
             \/ \E n \in Libs : InitCode(n) \/ InitHash(n)
    PROVE  IInv'
<1>1. UNCHANGED <<config, serving, request, edited>> /\ code \subseteq code'
  BY DEF InitAccount, InitPromote, InitDone, InitStops, InitCode, InitHash, database
<1>2. CASE InitAccount \/ InitPromote \/ InitDone \/ InitStops
  <2>1. TypeOK'
    BY <1>2, NoLibsType
       DEF IInv, TypeOK, InitAccount, InitPromote, InitDone, InitStops, Stopped, Steps, Named,
           database
  <2>2. tool'.at \notin Libs /\ UNCHANGED <<code, core>>
    BY <1>2, UniversesAssumption
       DEF IInv, TypeOK, InitAccount, InitPromote, InitDone, InitStops, Stopped, Steps, database
  <2>3. QED
    BY <1>1, <2>1, <2>2 DEF IInv, Kept
<1>3. ASSUME NEW n \in Libs, InitCode(n) PROVE IInv'
  <2>1. tool.libs[n] \in Sources
    BY <1>3 DEF IInv, TypeOK, InitCode, LibSets, Named
  <2>2. TypeOK'
    BY <1>3, <2>1 DEF IInv, TypeOK, InitCode, Named
  <2>3. tool'.at = n /\ tool'.libs = tool.libs /\ tool.libs[n] \in code' /\ core' = core
    BY <1>3 DEF IInv, TypeOK, InitCode
  <2>4. QED
    BY <1>1, <2>2, <2>3 DEF IInv, Kept
<1>4. ASSUME NEW n \in Libs, InitHash(n) PROVE IInv'
  <2>1. tool.libs[n] \in code
    BY <1>4 DEF IInv, InitHash
  <2>2. TypeOK'
    BY <1>4 DEF IInv, TypeOK, InitHash, LibSets, Named, Steps
  <2>3. tool' = [tool EXCEPT !.at = "libs", !.todo = tool.todo \ {n}]
    BY <1>4 DEF InitHash
  <2>4. tool'.at = "libs"
    BY <2>3 DEF IInv, TypeOK
  <2>5. tool'.at \notin Libs
    BY <2>4, UniversesAssumption DEF Steps
  <2>6. core' = [core EXCEPT ![n] = tool.libs[n]] /\ code' = code
    BY <1>4 DEF InitHash
  <2>7. core \in LibSets
    BY DEF IInv, TypeOK
  <2>8. \A m \in Libs : core'[m] = IF m = n THEN tool.libs[n] ELSE core[m]
    BY <2>6, <2>7 DEF LibSets
  <2>9. Kept(core', code')
    BY <2>1, <2>6, <2>8 DEF IInv, Kept
  <2> QED
    BY <1>1, <2>2, <2>5, <2>6, <2>9 DEF IInv, Kept
<1>5. QED
  BY <1>2, <1>3, <1>4

LEMMA ServerStep == ASSUME IInv, Open \/ Stop PROVE IInv'
<1>1. UNCHANGED <<file, admin, code, core, config, tool, edited>>
  BY DEF Open, Stop, database
<1>2. CASE Open
  <2>1. UNCHANGED request /\ serving'
    BY <1>2 DEF Open
  <2>2. QED
    BY <1>1, <2>1 DEF IInv, TypeOK, Kept
<1>3. CASE Stop
  <2>1. request' \in [Requests -> Request] /\ \A r \in Requests : request'[r] = Idle
    BY <1>3, IdleType DEF Stop
  <2>2. TypeOK'
    BY <1>1, <1>3, <2>1, IdleType DEF IInv, TypeOK, Stop, Request
  <2>3. \A r \in Requests : Kept(request'[r].hashes, code') /\ Begun(request'[r])
    BY <2>1, IdleType, NoLibsType DEF Kept
  <2>4. QED
    BY <1>1, <2>1, <2>2, <2>3 DEF IInv, Kept
<1>4. QED
  BY <1>2, <1>3

\* What a step of a request has to show.
LEMMA RequestStep ==
    ASSUME IInv, NEW r \in Requests, TypeOK',
           UNCHANGED <<core, tool, serving>>, code \subseteq code',
           \A q \in Requests \ {r} : request'[q] = request[q],
           request'[r].given \/ Kept(request'[r].hashes, code'), Begun(request'[r]),
           serving \/ request'[r] = Idle,
           \A u \in Universes \ edited' :
              \/ config'[u] = config[u] /\ u \notin edited
              \/ Kept(config'[u], code')
    PROVE  IInv'
<1>1. Kept(core', code')
  BY DEF IInv, Kept
<1>2. \A q \in Requests : request'[q].given \/ Kept(request'[q].hashes, code')
  BY DEF IInv, Kept
<1>3. \A u \in Universes \ edited' : config'[u] # None => Kept(config'[u], code')
  BY DEF IInv, Kept
<1>4. ~serving' => \A q \in Requests : request'[q] = Idle
  BY DEF IInv
<1>5. \A n \in Libs : tool'.at = n => tool'.libs[n] \in code'
  BY DEF IInv
<1>6. \A q \in Requests : Begun(request'[q])
  BY DEF IInv
<1>7. QED
  BY <1>1, <1>2, <1>3, <1>4, <1>5, <1>6 DEF IInv

LEMMA RequestsStep ==
    ASSUME IInv, NEW r \in Requests,
           \/ \E u \in Universes, libs \in LibSets : CreateRead(r, u, libs)
           \/ \E n \in Libs : CreateStore(r, n)
           \/ \E u \in Universes : UpdateRead(r, u)
           \/ CreateInsert(r) \/ UpdateWrite(r) \/ Fails(r)
    PROVE  IInv'
<1> USE DEF database
<1>t. request \in [Requests -> Request] /\ \A q \in Requests : request[q].todo \subseteq Named(request[q].libs)
  BY DEF IInv, TypeOK, Request
<1>g. Begun(request[r])
  BY DEF IInv
<1>1. ASSUME NEW u \in Universes, NEW libs \in LibSets, CreateRead(r, u, libs) PROVE IInv'
  <2> DEFINE state == [Idle EXCEPT !.at = "store", !.universe = u, !.todo = Named(libs),
                                   !.libs = libs, !.hashes = core]
  <2>1. UNCHANGED <<file, admin, code, core, config, tool, serving, edited>> /\ serving
    BY <1>1 DEF CreateRead, MayCreate
  <2>2. request' = [request EXCEPT ![r] = state]
    BY <1>1 DEF CreateRead, Put
  <2>3. state \in Request /\ state.todo = Named(state.libs) /\ state.hashes = core
    BY IdleType DEF IInv, TypeOK, Request, Named, Idle
  <2>4. TypeOK'
    BY <1>t, <2>1, <2>2, <2>3 DEF IInv, TypeOK, Request
  <2>5. Kept(request'[r].hashes, code')
    BY <1>t, <2>1, <2>2, <2>3 DEF IInv
  <2>6. \A q \in Requests \ {r} : request'[q] = request[q]
    BY <1>t, <2>2
  <2>7. Begun(request'[r])
    BY <1>t, <2>2 DEF Begun, Request, Idle
  <2>8. QED
    BY <2>1, <2>4, <2>5, <2>6, <2>7, RequestStep
<1>2. ASSUME NEW n \in Libs, CreateStore(r, n) PROVE IInv'
  <2> DEFINE source == request[r].libs[n]
             state == [request[r] EXCEPT !.todo = @ \ {n}, !.hashes[n] = source]
  <2>1. /\ UNCHANGED <<file, admin, core, config, tool, serving, edited>>
        /\ code' = code \cup {source} /\ request[r].at = "store" /\ n \in request[r].todo
    BY <1>2 DEF CreateStore
  <2>2. request' = [request EXCEPT ![r] = state]
    BY <1>2 DEF CreateStore, Put
  <2>3. serving
    BY <2>1 DEF IInv, Idle
  <2>4. source \in Sources
    BY <1>t, <2>1 DEF Named, Request, LibSets
  <2>5. /\ state \in Request /\ state.todo \subseteq Named(state.libs)
        /\ state.given = request[r].given
        /\ \A m \in Libs : state.hashes[m] = IF m = n THEN source ELSE request[r].hashes[m]
    BY <1>t, <2>4 DEF Request, LibSets, Named
  <2>6. TypeOK'
    BY <1>t, <2>1, <2>2, <2>4, <2>5 DEF IInv, TypeOK, Request
  <2>7. (request[r].given \/ Kept(request[r].hashes, code)) /\ request'[r] = state
    BY <1>t, <2>2 DEF IInv
  <2>8. request'[r].given \/ Kept(request'[r].hashes, code')
    BY <2>1, <2>5, <2>7 DEF Kept
  <2>9. \A q \in Requests \ {r} : request'[q] = request[q]
    BY <1>t, <2>2
  <2>10. Begun(request'[r])
    BY <1>t, <1>g, <2>2 DEF Begun, Request
  <2>11. QED
    BY <2>1, <2>3, <2>6, <2>8, <2>9, <2>10, RequestStep
<1>3. ASSUME NEW u \in Universes, UpdateRead(r, u) PROVE IInv'
  <2>1. UNCHANGED <<file, admin, code, core, config, tool, serving, edited>> /\ serving
    BY <1>3 DEF UpdateRead
  <2>2. config[u] \in LibSets /\ (u \in edited \/ Kept(config[u], code))
    BY <1>3 DEF IInv, TypeOK, UpdateRead
  <2>3. PICK hashes \in LibSets, given \in BOOLEAN :
           /\ Carry(r, u, hashes, given)
           /\ given \/ Kept(hashes, code)
    <3>1. CASE Carry(r, u, config[u], u \in edited)
      <4>1. CASE u \in edited
        <5>1. (u \in edited) = TRUE
          BY <4>1
        <5>2. Carry(r, u, config[u], TRUE)
          BY <3>1, <5>1
        <5> QED
          BY <2>2, <5>2
      <4>2. CASE u \notin edited
        <5>1. (u \in edited) = FALSE
          BY <4>2
        <5>2. Carry(r, u, config[u], FALSE)
          BY <3>1, <5>1
        <5> QED
          BY <2>2, <4>2, <5>2
      <4> QED
        BY <4>1, <4>2
    <3>2. ASSUME NEW libs \in LibSets, Carry(r, u, libs, TRUE)
          PROVE  \E hashes \in LibSets, given \in BOOLEAN :
                    Carry(r, u, hashes, given) /\ (given \/ Kept(hashes, code))
      BY <3>2
    <3> QED
      BY <1>3, <3>1, <3>2 DEF UpdateRead
  <2> DEFINE state == [Idle EXCEPT !.at = "update", !.universe = u, !.hashes = hashes,
                                   !.given = given]
  <2>4. request' = [request EXCEPT ![r] = state]
    BY <2>3 DEF Carry, Put
  <2>5. state \in Request /\ state.todo = {} /\ state.hashes = hashes /\ state.given = given
        /\ Begun(state)
    BY IdleType DEF Request, Idle, Begun
  <2> HIDE DEF state
  <2>6. TypeOK'
    BY <1>t, <2>1, <2>4, <2>5 DEF IInv, TypeOK, Request
  <2>7. request'[r] = state
    BY <1>t, <2>4
  <2>8. request'[r].given \/ Kept(request'[r].hashes, code')
    BY <2>1, <2>3, <2>5, <2>7
  <2>9. \A q \in Requests \ {r} : request'[q] = request[q]
    BY <1>t, <2>4
  <2>10. QED
    BY <2>1, <2>5, <2>6, <2>7, <2>8, <2>9, RequestStep
<1>4. CASE CreateInsert(r) \/ UpdateWrite(r) \/ Fails(r)
  <2>1. UNCHANGED <<file, admin, code, core, tool, serving>>
    BY <1>4 DEF CreateInsert, UpdateWrite, Fails
  <2>2. request' = [request EXCEPT ![r] = Idle]
    BY <1>4 DEF CreateInsert, UpdateWrite, Fails, Put
  <2> DEFINE v == request[r].universe
  <2>3. /\ request[r].hashes \in LibSets
        /\ request[r].given \/ Kept(request[r].hashes, code)
        /\ config \in [Universes -> LibSets \cup {None}] /\ edited \subseteq Universes
    BY <1>t DEF IInv, TypeOK, Request
  <2>4. \/ config' = config /\ edited' = edited
        \/ /\ config' = [config EXCEPT ![v] = request[r].hashes]
           /\ edited' = IF request[r].given THEN edited \cup {v} ELSE edited \ {v}
        \/ /\ config' = [config EXCEPT ![v] = request[r].hashes]
           /\ edited' = edited /\ request[r].given = FALSE
    BY <1>4, <1>g DEF CreateInsert, UpdateWrite, Fails, Begun
  <2>5. /\ config' \in [Universes -> LibSets \cup {None}]
        /\ \A u \in Universes : config'[u] = IF config' # config /\ u = v THEN request[r].hashes
                                             ELSE config[u]
    BY <2>3, <2>4
  <2>6. request'[r] = Idle /\ \A q \in Requests \ {r} : request'[q] = request[q]
    BY <1>t, <2>2
  <2>7. edited' \subseteq Universes
    <3>1. v \in Universes \cup {None}
      BY <1>t DEF Request
    <3>2. edited' = edited \/ v \in Universes
      BY <1>4, <3>1, <1>g DEF CreateInsert, UpdateWrite, Fails, Begun
    <3> QED
      BY <2>3, <2>4, <3>2
  <2>8. TypeOK'
    BY <1>t, <2>1, <2>2, <2>5, <2>7, IdleType DEF IInv, TypeOK, Request
  <2>9. Kept(request'[r].hashes, code')
    BY <2>6, IdleType, NoLibsType DEF Kept
  <2>10. \A u \in Universes \ edited' :
            \/ config'[u] = config[u] /\ u \notin edited
            \/ Kept(config'[u], code')
    BY <2>1, <2>3, <2>4, <2>5
  <2>11. QED
    BY <2>1, <2>6, <2>8, <2>9, <2>10, IdleType, RequestStep
<1>5. QED
  BY <1>1, <1>2, <1>3, <1>4

\* A program may store any code, and code is never removed from under a hash.
LEMMA StoreCodeStep == ASSUME IInv, NEW s \in Sources, StoreCode(s) PROVE IInv'
<1>1. UNCHANGED <<file, admin, core, config, tool, serving, request, edited>>
      /\ code' = code \cup {s}
  BY DEF StoreCode
<1>2. TypeOK'
  BY <1>1 DEF IInv, TypeOK
<1>3. \A libs : Kept(libs, code) => Kept(libs, code')
  BY <1>1 DEF Kept
<1>4. QED
  BY <1>1, <1>2, <1>3 DEF IInv, Kept

LEMMA NextIInv == IInv /\ [Next]_vars => IInv'
<1> SUFFICES ASSUME IInv, [Next]_vars PROVE IInv'
  OBVIOUS
<1>1. CASE Next
  BY <1>1, StartStep, ToolStep, ServerStep, RequestsStep, StoreCodeStep DEF Next
<1>2. CASE UNCHANGED vars
  BY <1>2 DEF vars, IInv, TypeOK, Kept
<1>3. QED
  BY <1>1, <1>2

LEMMA SpecIInv == Spec => []IInv
BY InitIInv, NextIInv, PTL DEF Spec

\* Every variable of the tool, the server and the requests keeps its type, for
\* any libraries, universes and requests.
THEOREM UniversesType == Spec => []TypeOK
<1>1. IInv => TypeOK
  BY DEF IInv
<1>2. QED
  BY <1>1, SpecIInv, PTL

\* However mudd_init, a request or the server is cut short, every library that
\* core_lib_hashes names is in code_store, and so is every library that a
\* universe's config names, as long as no program has given it other hashes.
THEOREM UniversesResolve == Spec => []LibsResolve
<1>1. IInv => LibsResolve
  BY DEF IInv, LibsResolve, Kept, LibCodes, Named
<1>2. QED
  BY <1>1, SpecIInv, PTL

----------------------------------------------------------------------------
(***************************************************************************)
(* Objects.                                                                *)
(***************************************************************************)

\* Overlapping changes lose properties, never an object: the table has the
\* objects it was promised to have.
SameObjects == \A i \in Ids : Exists(i) <=> promised[i] # NoObject

ObjectInv == ObjectTypeOK /\ SameObjects /\ OnlyOverlapsLose

\* A change merged into a row that a call has read is a row again.
LEMMA MergedType ==
    ASSUME NEW row \in Object, NEW change \in [key : Keys, value : 0..MaxChanges]
    PROVE  Merged(row, change) \in Object
BY DEF Merged, Object

LEMMA GivenType ==
    ASSUME changes' \in 0..MaxChanges, NEW given, NEW p \in Ids \cup {NoObject}
    PROVE  [parent |-> p, props |-> Given(given)] \in Object
BY ObjectsAssumption DEF Given, Object

LEMMA InsertKeeps ==
    ASSUME ObjectInv, NEW i \in Ids, NEW row \in Object, Insert(i, row)
    PROVE  /\ rows' \in [Ids -> Object \cup {NoObject}]
           /\ promised' \in [Ids -> Object \cup {NoObject}]
           /\ overlapped' \subseteq Ids
           /\ SameObjects' /\ OnlyOverlapsLose'
BY ObjectsAssumption DEF ObjectInv, ObjectTypeOK, SameObjects, OnlyOverlapsLose, Insert, Exists

LEMMA NumberedType == ObjectInv /\ Numbered => changes' \in 0..MaxChanges
BY ObjectsAssumption DEF ObjectInv, ObjectTypeOK, Numbered

LEMMA InitObjectInv == ObjectInit => ObjectInv
BY ObjectsAssumption
DEF ObjectInit, ObjectInv, ObjectTypeOK, SameObjects, Exists, OnlyOverlapsLose, NoCall

LEMMA NextObjectInv == ObjectInv /\ [ObjectNext]_objectVars => ObjectInv'
<1> SUFFICES ASSUME ObjectInv, [ObjectNext]_objectVars PROVE ObjectInv'
  OBVIOUS
<1>t. /\ rows \in [Ids -> Object \cup {NoObject}]
      /\ promised \in [Ids -> Object \cup {NoObject}]
      /\ overlapped \subseteq Ids /\ changes \in 0..MaxChanges
      /\ \A c \in Calls :
            /\ call[c].at \in {"idle", "update", "clone"}
            /\ call[c].at # "idle" => call[c].id \in Ids /\ call[c].row \in Object
            /\ call[c].at = "update" => call[c].to \in [key : Keys, value : 0..MaxChanges]
      /\ \A i \in Ids : rows[i] # NoObject <=> promised[i] # NoObject
      /\ \A i \in Ids \ overlapped : rows[i] = promised[i]
  BY DEF ObjectInv, ObjectTypeOK, SameObjects, Exists, OnlyOverlapsLose
<1>1. ASSUME NEW i \in Ids, NEW p \in Ids \cup {NoObject}, NEW given \in SUBSET Keys,
             Create(i, p, given)
      PROVE  ObjectInv'
  <2>1. Numbered /\ Insert(i, [parent |-> p, props |-> Given(given)]) /\ UNCHANGED call
    BY <1>1 DEF Create
  <2>2. changes' \in 0..MaxChanges
    BY <2>1, NumberedType
  <2>3. [parent |-> p, props |-> Given(given)] \in Object
    BY <2>2, GivenType
  <2> QED
    BY <1>t, <2>1, <2>2, <2>3, InsertKeeps DEF ObjectInv, ObjectTypeOK
<1>2. ASSUME NEW i \in Ids, NEW p \in Ids \cup {NoObject}, Move(i, p) PROVE ObjectInv'
  <2>1. changes' \in 0..MaxChanges
    BY <1>2, NumberedType DEF Move
  <2>2. /\ rows[i] \in Object /\ promised[i] \in Object
        /\ rows' = [rows EXCEPT ![i].parent = p]
        /\ promised' = [promised EXCEPT ![i].parent = p]
        /\ UNCHANGED <<call, overlapped>>
    BY <1>2, <1>t DEF Move, Exists
  <2>3. \A o \in Object : [o EXCEPT !.parent = p] \in Object
    BY DEF Object
  <2>4. /\ rows'[i] = [rows[i] EXCEPT !.parent = p]
        /\ promised'[i] = [promised[i] EXCEPT !.parent = p]
        /\ \A j \in Ids : j # i => rows'[j] = rows[j] /\ promised'[j] = promised[j]
    BY <2>2, <1>t
  <2>5. /\ rows' \in [Ids -> Object \cup {NoObject}]
        /\ promised' \in [Ids -> Object \cup {NoObject}]
        /\ rows'[i] \in Object /\ promised'[i] \in Object
    BY <2>2, <2>3, <2>4, <1>t
  <2>6. SameObjects' /\ OnlyOverlapsLose'
    BY <2>2, <2>4, <2>5, <1>t, ObjectsAssumption DEF SameObjects, Exists, OnlyOverlapsLose
  <2> QED
    BY <1>t, <2>1, <2>2, <2>5, <2>6 DEF ObjectInv, ObjectTypeOK
<1>3. ASSUME NEW i \in Ids, Delete(i) PROVE ObjectInv'
  <2>1. /\ rows' = [rows EXCEPT ![i] = NoObject]
        /\ promised' = [promised EXCEPT ![i] = NoObject]
        /\ UNCHANGED <<call, changes, overlapped>>
    BY <1>3 DEF Delete
  <2> QED
    BY <1>t, <2>1 DEF ObjectInv, ObjectTypeOK, SameObjects, Exists, OnlyOverlapsLose
<1>4. ASSUME NEW c \in Calls, NEW i \in Ids, NEW k \in Keys, NEW drop \in BOOLEAN,
             UpdateObjectRead(c, i, k, drop)
      PROVE  ObjectInv'
  <2> DEFINE value == IF drop THEN 0 ELSE changes'
             state == [at |-> "update", id |-> i, row |-> rows[i],
                       to |-> [key |-> k, value |-> value]]
  <2>1. changes' \in 0..MaxChanges
    BY <1>4, NumberedType DEF UpdateObjectRead
  <2>2. /\ rows[i] \in Object
        /\ call' = [call EXCEPT ![c] = state]
        /\ UNCHANGED <<rows, promised, overlapped>>
    BY <1>4, <1>t DEF UpdateObjectRead, Exists
  <2>3. value \in 0..MaxChanges
    BY <2>1, ObjectsAssumption
  <2> HIDE DEF value
  <2>4. \A d \in Calls : call'[d] = IF d = c /\ c \in DOMAIN call THEN state ELSE call[d]
    BY <2>2
  <2> QED
    BY <1>t, <2>1, <2>2, <2>3, <2>4
    DEF ObjectInv, ObjectTypeOK, SameObjects, Exists, OnlyOverlapsLose
<1>5. ASSUME NEW c \in Calls, NEW i \in Ids, NEW copy \in Ids, NEW p \in Ids \cup {NoObject},
             CloneRead(c, i, copy, p)
      PROVE  ObjectInv'
  <2> DEFINE state == [at |-> "clone", id |-> copy, row |-> [rows[i] EXCEPT !.parent = p],
                       to |-> NoObject]
  <2>1. changes' \in 0..MaxChanges
    BY <1>5, NumberedType DEF CloneRead
  <2>2. /\ rows[i] \in Object
        /\ call' = [call EXCEPT ![c] = state]
        /\ UNCHANGED <<rows, promised, overlapped>>
    BY <1>5, <1>t DEF CloneRead, Exists
  <2>3. state.row \in Object
    BY <2>2 DEF Object
  <2> QED
    BY <1>t, <2>1, <2>2, <2>3
    DEF ObjectInv, ObjectTypeOK, SameObjects, Exists, OnlyOverlapsLose
<1>6. ASSUME NEW c \in Calls, UpdateObjectWrite(c) PROVE ObjectInv'
  <2> DEFINE i == call[c].id
             row == call[c].row
             change == call[c].to
  <2>1. i \in Ids /\ row \in Object /\ change \in [key : Keys, value : 0..MaxChanges]
    BY <1>6, <1>t DEF UpdateObjectWrite
  <2>2. /\ rows' = IF rows[i] # NoObject THEN [rows EXCEPT ![i] = Merged(row, change)] ELSE rows
        /\ promised' = IF promised[i] = NoObject THEN promised
                       ELSE [promised EXCEPT ![i] = Merged(@, change)]
        /\ overlapped' = IF rows[i] # NoObject /\ rows[i] # row THEN overlapped \cup {i}
                         ELSE overlapped
        /\ call' = [call EXCEPT ![c] = NoCall]
        /\ UNCHANGED changes
    BY <1>6 DEF UpdateObjectWrite, Overlaps, Exists, Return
  <2>3. \A d \in Calls : call'[d] = NoCall \/ call'[d] = call[d]
    BY <2>2
  <2> HIDE DEF i, row, change
  <2>4. CASE rows[i] = NoObject
    <3>1. UNCHANGED <<rows, promised, overlapped>>
      BY <2>1, <2>2, <2>4, <1>t
    <3> QED
      BY <3>1, <2>2, <2>3, <1>t
      DEF ObjectInv, ObjectTypeOK, SameObjects, Exists, OnlyOverlapsLose, NoCall
  <2>5. CASE rows[i] # NoObject
    <3>1. promised[i] \in Object
      BY <2>1, <2>5, <1>t
    <3>2. Merged(row, change) \in Object /\ Merged(promised[i], change) \in Object
      BY <2>1, <3>1, MergedType
    <3>3. /\ rows'[i] = Merged(row, change) /\ promised'[i] = Merged(promised[i], change)
          /\ rows' \in [Ids -> Object \cup {NoObject}]
          /\ promised' \in [Ids -> Object \cup {NoObject}]
          /\ \A j \in Ids : j # i => rows'[j] = rows[j] /\ promised'[j] = promised[j]
      BY <2>1, <2>2, <2>5, <3>1, <3>2, <1>t, ObjectsAssumption
    <3>4. SameObjects'
      BY <3>2, <3>3, <1>t, ObjectsAssumption DEF SameObjects, Exists
    <3>5. ASSUME i \notin overlapped' PROVE rows'[i] = promised'[i]
      BY <3>3, <3>5, <2>1, <2>2, <2>5, <1>t
    <3>6. OnlyOverlapsLose'
      BY <3>3, <3>5, <2>2, <1>t DEF OnlyOverlapsLose
    <3> QED
      BY <3>3, <3>4, <3>6, <2>1, <2>2, <2>3, <1>t DEF ObjectInv, ObjectTypeOK, NoCall
  <2> QED
    BY <2>4, <2>5
<1>7. ASSUME NEW c \in Calls, CloneWrite(c) PROVE ObjectInv'
  <2>1. /\ call[c].id \in Ids /\ call[c].row \in Object
        /\ Insert(call[c].id, call[c].row)
        /\ call' = [call EXCEPT ![c] = NoCall] /\ UNCHANGED changes
    BY <1>7, <1>t DEF CloneWrite, Return
  <2>2. \A d \in Calls : call'[d] = NoCall \/ call'[d] = call[d]
    BY <2>1
  <2> QED
    BY <1>t, <2>1, <2>2, InsertKeeps DEF ObjectInv, ObjectTypeOK, NoCall
<1>8. ASSUME NEW c \in Calls, CallFails(c) PROVE ObjectInv'
  <2>1. /\ \A d \in Calls : call'[d] = NoCall \/ call'[d] = call[d]
        /\ UNCHANGED <<rows, changes, promised, overlapped>>
    BY <1>8 DEF CallFails, Return
  <2> QED
    BY <1>t, <2>1 DEF ObjectInv, ObjectTypeOK, SameObjects, Exists, OnlyOverlapsLose, NoCall
<1>9. CASE UNCHANGED objectVars
  BY <1>9 DEF objectVars, ObjectInv, ObjectTypeOK, SameObjects, Exists, OnlyOverlapsLose
<1> QED
  BY <1>1, <1>2, <1>3, <1>4, <1>5, <1>6, <1>7, <1>8, <1>9 DEF ObjectNext, CreateCommand

LEMMA ObjectInvariance == ObjectSpec => []ObjectInv
BY InitObjectInv, NextObjectInv, PTL DEF ObjectSpec

\* The table of objects, and what the calls carry, keep their types.
THEOREM ObjectsType == ObjectSpec => []ObjectTypeOK
BY ObjectInvariance, PTL DEF ObjectInv

\* For any objects, properties and calls in progress: create, move, delete and
\* clone stay, and a change is lost only to a whole-row write that had not
\* seen it.
THEOREM ObjectsKept == ObjectSpec => []OnlyOverlapsLose
BY ObjectInvariance, PTL DEF ObjectInv

\* Even such a write neither brings a deleted object back nor loses one.
THEOREM NoObjectReturns == ObjectSpec => []SameObjects
BY ObjectInvariance, PTL DEF ObjectInv
----------------------------------------------------------------------------
(***************************************************************************)
(* Effects.  While calls come one at a time, the one in progress has left  *)
(* the rows as memory will be, or memory as the rows will be.              *)
(***************************************************************************)

\* The effect that some rows of one type load as.
Sums(e, some) ==
    IF some = {} THEN e = NoEffect
    ELSE /\ e # NoEffect
         /\ \E r \in some : r.ticks = e.ticks
         /\ \E r \in some : r.power = e.power
         /\ \A r \in some : r.ticks <= e.ticks /\ r.power <= e.power

\* Rows of one type have a longest and a strongest one.
Topped(some) ==
    some # {} => /\ \E r \in some : \A s \in some : s.ticks <= r.ticks
                 /\ \E r \in some : \A s \in some : s.power <= r.power

RowsOf(t) == {r \in active : r.type = t}
Matches(es) == \A t \in Types : Sums(es[t], RowsOf(t))

Midway(c) ==
    LET me == use[c] IN
    /\ me.at = "add" /\ fighter => Matches(Add(effects, me.type, me.ticks, me.power))
    /\ me.at = "remove" => Matches([effects EXCEPT ![me.type] = NoEffect])
    /\ me.at = "clear" => active = {}
    /\ me.at = "sync" => \A t \in Types : effects[t] # NoEffect => fighter /\ effects[t].ticks >= 1
    /\ me.at = "insert" =>
          \A t \in Types :
             IF t \in me.todo
             THEN RowsOf(t) = {} /\ effects[t] # NoEffect /\ fighter /\ effects[t].ticks >= 1
             ELSE Sums(effects[t], RowsOf(t))

InTurn ==
    /\ (\A c \in Users : use[c].at = "idle") => Matches(effects)
    /\ \A c \in Users : use[c].at # "idle" => Midway(c) /\ Quiet(c)

EffectInv ==
    /\ EffectTypeOK
    /\ \A t \in Types : Topped(RowsOf(t))
    /\ ~fighter => active = {}
    /\ ~mixed => InTurn

EffectRow == [type : Types, ticks : Nat, power : Nat]

LEMMA SumsOfMore ==
    ASSUME NEW e \in Effect \cup {NoEffect}, NEW some \in SUBSET EffectRow, Sums(e, some),
           NEW row \in EffectRow
    PROVE  Sums(IF e = NoEffect THEN [ticks |-> row.ticks, power |-> row.power]
                ELSE [ticks |-> Larger(e.ticks, row.ticks), power |-> Larger(e.power, row.power)],
                some \cup {row})
<1>1. row.ticks \in Nat /\ row.power \in Nat
  BY DEF EffectRow
<1>2. CASE e = NoEffect
  <2>1. some = {}
    BY <1>2 DEF Sums
  <2>2. [ticks |-> row.ticks, power |-> row.power] # NoEffect
    BY <1>1, EffectsAssumption DEF Effect
  <2> QED
    BY <1>1, <1>2, <2>1, <2>2 DEF Sums
<1>3. CASE e # NoEffect
  <2> DEFINE f == [ticks |-> Larger(e.ticks, row.ticks), power |-> Larger(e.power, row.power)]
  <2>1. some # {} /\ e.ticks \in Nat /\ e.power \in Nat
    BY <1>3 DEF Sums, Effect
  <2>2. /\ f.ticks = Larger(e.ticks, row.ticks) /\ f.power = Larger(e.power, row.power)
        /\ f # NoEffect
    BY <1>1, <2>1, EffectsAssumption DEF Effect, Larger
  <2>3. \A r \in some : r.ticks \in Nat /\ r.power \in Nat
    BY DEF EffectRow
  <2> HIDE DEF f
  <2>4. \A r \in some \cup {row} : r.ticks <= f.ticks /\ r.power <= f.power
    BY <1>1, <1>3, <2>1, <2>2, <2>3 DEF Sums, Larger
  <2>5. /\ \E r \in some \cup {row} : r.ticks = f.ticks
        /\ \E r \in some \cup {row} : r.power = f.power
    BY <1>1, <1>3, <2>1, <2>2 DEF Sums, Larger
  <2>6. Sums(f, some \cup {row})
    BY <2>2, <2>4, <2>5 DEF Sums
  <2> QED
    BY <1>3, <2>6 DEF f
<1> QED
  BY <1>2, <1>3

LEMMA ToppedMore ==
    ASSUME NEW some \in SUBSET EffectRow, Topped(some), NEW row \in EffectRow
    PROVE  Topped(some \cup {row})
<1>1. \A r \in some \cup {row} : r.ticks \in Nat /\ r.power \in Nat
  BY DEF EffectRow
<1>2. CASE some = {}
  BY <1>1, <1>2 DEF Topped
<1>3. CASE some # {}
  <2>1. PICK r \in some : \A s \in some : s.ticks <= r.ticks
    BY <1>3 DEF Topped
  <2>2. PICK q \in some : \A s \in some : s.power <= q.power
    BY <1>3 DEF Topped
  <2>3. \E k \in some \cup {row} : \A s \in some \cup {row} : s.ticks <= k.ticks
    <3>1. CASE row.ticks <= r.ticks
      BY <2>1, <3>1
    <3>2. CASE ~(row.ticks <= r.ticks)
      BY <1>1, <2>1, <3>2
    <3> QED
      BY <3>1, <3>2
  <2>4. \E k \in some \cup {row} : \A s \in some \cup {row} : s.power <= k.power
    <3>1. CASE row.power <= q.power
      BY <2>2, <3>1
    <3>2. CASE ~(row.power <= q.power)
      BY <1>1, <2>2, <3>2
    <3> QED
      BY <3>1, <3>2
  <2> QED
    BY <2>3, <2>4 DEF Topped
<1> QED
  BY <1>2, <1>3

LEMMA MaxIs ==
    ASSUME NEW S \in SUBSET Nat, NEW m \in S, \A x \in S : x <= m
    PROVE  Max(S) = m
<1>1. \A x \in S : m >= x
  OBVIOUS
<1>2. Max(S) \in S /\ \A x \in S : Max(S) >= x
  BY <1>1 DEF Max
<1>3. Max(S) \in Nat /\ m \in Nat /\ Max(S) <= m /\ Max(S) >= m
  BY <1>2
<1> QED
  BY <1>3

\* load_from_db gives for each type the one effect its rows add up to.
LEMMA LoadedSums ==
    ASSUME NEW some \in SUBSET EffectRow, NEW e \in Effect \cup {NoEffect}, Sums(e, some)
    PROVE  e = IF some = {} THEN NoEffect
               ELSE [ticks |-> Max({r.ticks : r \in some}), power |-> Max({r.power : r \in some})]
<1>1. CASE some = {}
  BY <1>1 DEF Sums
<1>2. CASE some # {}
  <2>1. e \in Effect
    BY <1>2 DEF Sums
  <2>2. {r.ticks : r \in some} \in SUBSET Nat /\ {r.power : r \in some} \in SUBSET Nat
    BY DEF EffectRow
  <2>3. e.ticks \in {r.ticks : r \in some} /\ \A x \in {r.ticks : r \in some} : x <= e.ticks
    BY <1>2 DEF Sums
  <2>4. e.power \in {r.power : r \in some} /\ \A x \in {r.power : r \in some} : x <= e.power
    BY <1>2 DEF Sums
  <2>5. Max({r.ticks : r \in some}) = e.ticks /\ Max({r.power : r \in some}) = e.power
    BY <2>2, <2>3, <2>4, MaxIs
  <2> QED
    BY <1>2, <2>1, <2>5 DEF Effect
<1> QED
  BY <1>1, <1>2

\* ... and there always is one.
LEMMA ToppedLoads ==
    ASSUME NEW some \in SUBSET EffectRow, Topped(some)
    PROVE  \E e \in Effect \cup {NoEffect} : Sums(e, some)
<1>1. CASE some = {}
  BY <1>1 DEF Sums
<1>2. CASE some # {}
  <2>1. PICK r \in some : \A s \in some : s.ticks <= r.ticks
    BY <1>2 DEF Topped
  <2>2. PICK q \in some : \A s \in some : s.power <= q.power
    BY <1>2 DEF Topped
  <2> DEFINE e == [ticks |-> r.ticks, power |-> q.power]
  <2>3. e \in Effect /\ e # NoEffect /\ e.ticks = r.ticks /\ e.power = q.power
    BY EffectsAssumption DEF Effect, EffectRow
  <2> HIDE DEF e
  <2>4. Sums(e, some)
    BY <1>2, <2>1, <2>2, <2>3 DEF Sums
  <2> QED
    BY <2>3, <2>4
<1> QED
  BY <1>1, <1>2

LEMMA MatchesIsLoaded ==
    ASSUME EffectTypeOK, NEW es \in [Types -> Effect \cup {NoEffect}], Matches(es)
    PROVE  Loaded = es
<1>1. ASSUME NEW t \in Types PROVE Loaded[t] = es[t]
  <2>1. RowsOf(t) \in SUBSET EffectRow /\ Sums(es[t], RowsOf(t)) /\ es[t] \in Effect \cup {NoEffect}
    BY DEF EffectTypeOK, RowsOf, EffectRow, Matches
  <2>2. es[t] = IF RowsOf(t) = {} THEN NoEffect
                ELSE [ticks |-> Max({r.ticks : r \in RowsOf(t)}),
                      power |-> Max({r.power : r \in RowsOf(t)})]
    BY <2>1, LoadedSums
  <2> QED
    BY <2>2 DEF Loaded, RowsOf
<1> QED
  BY <1>1 DEF Loaded

LEMMA LoadedMatches ==
    ASSUME EffectTypeOK, \A t \in Types : Topped(RowsOf(t))
    PROVE  Loaded \in [Types -> Effect \cup {NoEffect}] /\ Matches(Loaded)
<1>1. ASSUME NEW t \in Types
      PROVE  Loaded[t] \in Effect \cup {NoEffect} /\ Sums(Loaded[t], RowsOf(t))
  <2>1. RowsOf(t) \in SUBSET EffectRow /\ Topped(RowsOf(t))
    BY DEF EffectTypeOK, RowsOf, EffectRow
  <2>2. PICK e \in Effect \cup {NoEffect} : Sums(e, RowsOf(t))
    BY <2>1, ToppedLoads
  <2>3. e = IF RowsOf(t) = {} THEN NoEffect
            ELSE [ticks |-> Max({r.ticks : r \in RowsOf(t)}),
                  power |-> Max({r.power : r \in RowsOf(t)})]
    BY <2>1, <2>2, LoadedSums
  <2>4. Loaded[t] = e
    BY <2>3 DEF Loaded, RowsOf
  <2> QED
    BY <2>2, <2>4
<1> QED
  BY <1>1 DEF Loaded, Matches
LEMMA InitEffectInv == EffectInit => EffectInv
<1> SUFFICES ASSUME EffectInit PROVE EffectInv
  OBVIOUS
<1>1. /\ \A c \in Users : use[c] = NoUse /\ use[c].at = "idle"
      /\ active = {} /\ \A t \in Types : effects[t] = NoEffect
  BY DEF EffectInit, NoUse
<1>2. \A t \in Types : RowsOf(t) = {}
  BY <1>1 DEF RowsOf
<1>3. EffectTypeOK
  BY DEF EffectInit, EffectTypeOK, NoUse
<1> QED
  BY <1>1, <1>2, <1>3 DEF EffectInv, InTurn, Matches, Sums, Topped, EffectInit

\* A step of one call while the others are idle.
LEMMA AloneStep ==
    ASSUME EffectTypeOK, NEW c \in Users, Quiet(c),
           \A d \in Users \ {c} : use'[d] = use[d],
           use'[c].at = "idle" => Matches(effects)',
           use'[c].at # "idle" => Midway(c)'
    PROVE  InTurn'
<1>1. \A d \in Users \ {c} : use'[d].at = "idle"
  BY DEF Quiet
<1> QED
  BY <1>1 DEF InTurn, Quiet

\* How a statement changes the rows of a type.
LEMMA PersistRows ==
    ASSUME EffectTypeOK, NEW t \in Types, NEW ticks \in Nat, NEW power \in Nat,
           Persist(t, ticks, power)
    PROVE  /\ active' \subseteq EffectRow
           /\ \A s \in Types : RowsOf(s)' = IF s = t /\ fighter
                 THEN RowsOf(s) \cup {[type |-> t, ticks |-> ticks, power |-> power]}
                 ELSE RowsOf(s)
           /\ ~fighter => active' = active
BY DEF Persist, RowsOf, EffectTypeOK, EffectRow

LEMMA TickAllType ==
    ASSUME NEW es \in [Types -> Effect \cup {NoEffect}]
    PROVE  /\ TickAll(es) \in [Types -> Effect \cup {NoEffect}]
           /\ \A t \in Types : TickAll(es)[t] # NoEffect =>
                 es[t] # NoEffect /\ TickAll(es)[t].ticks >= 1
<1>1. ASSUME NEW t \in Types
      PROVE  /\ TickAll(es)[t] \in Effect \cup {NoEffect}
             /\ TickAll(es)[t] # NoEffect => es[t] # NoEffect /\ TickAll(es)[t].ticks >= 1
  <2>1. CASE es[t] = NoEffect \/ es[t].ticks <= 1
    BY <2>1 DEF TickAll
  <2>2. CASE ~(es[t] = NoEffect \/ es[t].ticks <= 1)
    <3>1. es[t] \in Effect /\ es[t].ticks \in Nat /\ es[t].ticks > 1
      BY <2>2 DEF Effect
    <3>2. TickAll(es)[t] = [es[t] EXCEPT !.ticks = es[t].ticks - 1]
      BY <2>2 DEF TickAll
    <3>3. TickAll(es)[t] \in Effect /\ TickAll(es)[t].ticks = es[t].ticks - 1
      BY <3>1, <3>2 DEF Effect
    <3> QED
      BY <2>2, <3>1, <3>3
  <2> QED
    BY <2>1, <2>2
<1> QED
  BY <1>1 DEF TickAll

LEMMA AddType ==
    ASSUME NEW es \in [Types -> Effect \cup {NoEffect}], NEW t, NEW ticks \in Nat, NEW power \in Nat
    PROVE  Add(es, t, ticks, power) \in [Types -> Effect \cup {NoEffect}]
<1>1. t \in Types => (IF es[t] = NoEffect THEN [ticks |-> ticks, power |-> power]
       ELSE [ticks |-> Larger(es[t].ticks, ticks), power |-> Larger(es[t].power, power)]) \in Effect
  BY DEF Effect, Larger
<1> QED
  BY <1>1 DEF Add

\* Types, tops and the rows' reference to combat_state, whatever crosses.
EffectBasics ==
    /\ EffectTypeOK
    /\ \A t \in Types : Topped(RowsOf(t))
    /\ ~fighter => active = {}

Use == [at : {"idle", "add", "remove", "sync", "insert", "clear"},
        type : Types \cup {NoEffect}, ticks : Nat, power : Nat, todo : SUBSET Types]

LEMMA BasicsStep ==
    ASSUME EffectBasics, effects' \in [Types -> Effect \cup {NoEffect}],
           use' \in [Users -> Use],
           \A c \in Users : use'[c].at \in {"add", "remove"} => use'[c].type \in Types,
           mixed' \in BOOLEAN, fighter' \in BOOLEAN, active' \subseteq EffectRow,
           \A t \in Types : Topped(RowsOf(t)'),
           ~fighter' => active' = {}
    PROVE  EffectBasics'
BY DEF EffectBasics, EffectTypeOK, Use, EffectRow, Topped

\* What the rows of the table become in any step.
LEMMA RowsStep ==
    ASSUME EffectBasics, [EffectNext]_effectVars
    PROVE  /\ active' \subseteq EffectRow
           /\ \A t \in Types : Topped(RowsOf(t)')
           /\ ~fighter' => active' = {}
           /\ fighter' \in BOOLEAN
<1>1. ASSUME NEW t \in Types, NEW ticks \in Nat, NEW power \in Nat, Persist(t, ticks, power),
             fighter' = fighter
      PROVE  /\ active' \subseteq EffectRow /\ \A s \in Types : Topped(RowsOf(s)')
             /\ ~fighter' => active' = {}
  <2>1. [type |-> t, ticks |-> ticks, power |-> power] \in EffectRow
    BY DEF EffectRow
  <2>2. \A s \in Types : RowsOf(s) \in SUBSET EffectRow /\ Topped(RowsOf(s))
    BY DEF EffectBasics, EffectTypeOK, EffectRow, RowsOf
  <2> QED
    BY <1>1, <2>1, <2>2, PersistRows, ToppedMore DEF EffectBasics
<1>2. ASSUME active' = active, fighter' = fighter
      PROVE  /\ active' \subseteq EffectRow /\ \A s \in Types : Topped(RowsOf(s)')
             /\ ~fighter' => active' = {}
  BY <1>2 DEF EffectBasics, EffectTypeOK, EffectRow, RowsOf
<1>3. ASSUME active' = {}
      PROVE  /\ active' \subseteq EffectRow /\ \A s \in Types : Topped(RowsOf(s)')
             /\ ~fighter' => active' = {}
  BY <1>3 DEF RowsOf, Topped
<1>4. ASSUME NEW c \in Users, NEW t \in Types, RemoveRows(c, t)
      PROVE  /\ active' \subseteq EffectRow /\ \A s \in Types : Topped(RowsOf(s)')
             /\ ~fighter' => active' = {}
  <2>1. \A s \in Types : RowsOf(s)' = IF s = t THEN {} ELSE RowsOf(s)
    BY <1>4 DEF RemoveRows, RowsOf
  <2> QED
    BY <1>4, <2>1 DEF RemoveRows, EffectBasics, EffectTypeOK, EffectRow, Topped
<1>5. ASSUME NEW c \in Users, NEW t \in Types, SyncInsert(c, t)
      PROVE  /\ active' \subseteq EffectRow /\ \A s \in Types : Topped(RowsOf(s)')
             /\ ~fighter' => active' = {}
  <2>1. CASE effects[t] = NoEffect \/ effects[t].ticks = 0
    BY <1>2, <1>5, <2>1 DEF SyncInsert
  <2>2. CASE ~(effects[t] = NoEffect \/ effects[t].ticks = 0)
    <3>1. effects[t].ticks \in Nat /\ effects[t].power \in Nat
      BY <2>2 DEF EffectBasics, EffectTypeOK, Effect
    <3> QED
      BY <1>1, <1>5, <2>2, <3>1 DEF SyncInsert
  <2> QED
    BY <2>1, <2>2
<1>6. ASSUME NEW c \in Users, NEW t \in Types, NEW ticks \in 0..MaxTicks, NEW power \in 1..MaxPower,
             AddRow(c, t, ticks, power)
      PROVE  /\ active' \subseteq EffectRow /\ \A s \in Types : Topped(RowsOf(s)')
             /\ ~fighter' => active' = {}
  BY <1>1, <1>6 DEF AddRow
<1>7. fighter' \in BOOLEAN
  BY DEF EffectNext, effectVars, AddRow, RemoveRows, SyncInsert, AddEffect, RemoveEffect, Tick,
         SyncDelete, SyncDone, ClearRows, ClearEffects, SyncFails, CombatSave, CombatRemove,
         Restart, EffectBasics, EffectTypeOK
<1> QED
  BY <1>2, <1>3, <1>4, <1>5, <1>6, <1>7
  DEF EffectNext, effectVars, AddEffect, RemoveEffect, Tick, SyncDelete, SyncDone, ClearRows,
      ClearEffects, SyncFails, CombatSave, CombatRemove, Restart
LEMMA BeginType ==
    ASSUME EffectTypeOK, NEW c \in Users, NEW r \in Use, Begin(c, r),
           r.at \in {"add", "remove"} => r.type \in Types
    PROVE  /\ use' \in [Users -> Use] /\ mixed' \in BOOLEAN
           /\ \A d \in Users : use'[d].at \in {"add", "remove"} => use'[d].type \in Types
BY DEF EffectTypeOK, Begin, Use

LEMMA EndType ==
    ASSUME EffectTypeOK, NEW c \in Users, use' = [use EXCEPT ![c] = NoUse]
    PROVE  /\ use' \in [Users -> Use]
           /\ \A d \in Users : use'[d].at \in {"add", "remove"} => use'[d].type \in Types
<1>1. NoUse \in Use /\ NoUse.at = "idle"
  BY DEF NoUse, Use
<1> QED
  BY <1>1 DEF EffectTypeOK, Use

LEMMA NextBasics == EffectBasics /\ [EffectNext]_effectVars => EffectBasics'
<1> SUFFICES ASSUME EffectBasics, [EffectNext]_effectVars PROVE EffectBasics'
  OBVIOUS
<1> DEFINE Typed == /\ effects' \in [Types -> Effect \cup {NoEffect}]
                    /\ use' \in [Users -> Use] /\ mixed' \in BOOLEAN
                    /\ \A c \in Users : use'[c].at \in {"add", "remove"} => use'[c].type \in Types
<1>t. EffectTypeOK /\ effects \in [Types -> Effect \cup {NoEffect}] /\ mixed \in BOOLEAN
      /\ use \in [Users -> Use]
      /\ \A c \in Users : use[c].at \in {"add", "remove"} => use[c].type \in Types
  BY DEF EffectBasics, EffectTypeOK, Use
<1>1. ASSUME NEW c \in Users, NEW t \in Types, NEW ticks \in 0..MaxTicks, NEW power \in 1..MaxPower,
             AddRow(c, t, ticks, power)
      PROVE  Typed
  <2> DEFINE r == [NoUse EXCEPT !.at = "add", !.type = t, !.ticks = ticks, !.power = power]
  <2>3. ticks \in Nat /\ power \in Nat
    OBVIOUS
  <2>1. r \in Use /\ r.type = t
    BY <2>3 DEF NoUse, Use
  <2>2. Begin(c, r) /\ effects' = effects
    BY <1>1 DEF AddRow
  <2> HIDE DEF r
  <2> QED
    BY <1>t, <2>1, <2>2, BeginType
<1>2. ASSUME NEW c \in Users, NEW t \in Types, RemoveRows(c, t) PROVE Typed
  <2> DEFINE r == [NoUse EXCEPT !.at = "remove", !.type = t]
  <2>1. r \in Use /\ r.type = t
    BY DEF NoUse, Use
  <2>2. Begin(c, r) /\ effects' = effects
    BY <1>2 DEF RemoveRows
  <2> HIDE DEF r
  <2> QED
    BY <1>t, <2>1, <2>2, BeginType
<1>3. ASSUME NEW c \in Users, Tick(c) \/ ClearRows(c) PROVE Typed
  <2>1. PICK r \in Use : Begin(c, r) /\ r.at \in {"sync", "clear"}
    BY <1>3 DEF Tick, ClearRows, NoUse, Use
  <2>2. effects' = effects \/ effects' = TickAll(effects)
    BY <1>3 DEF Tick, ClearRows
  <2> QED
    BY <1>t, <2>1, <2>2, BeginType, TickAllType
<1>4. ASSUME NEW c \in Users, NEW t \in Types, SyncInsert(c, t) PROVE Typed
  BY <1>t, <1>4 DEF SyncInsert, Use
<1>5. ASSUME NEW c \in Users, SyncDelete(c) PROVE Typed
  <2> DEFINE r == [use[c] EXCEPT !.at = "insert", !.todo = Present(effects)]
  <2>1. r \in Use /\ r.at = "insert"
    BY <1>t DEF Use, Present
  <2>2. use' = [use EXCEPT ![c] = r] /\ effects' = effects /\ mixed' = mixed
    BY <1>5, <1>t DEF SyncDelete
  <2> HIDE DEF r
  <2>3. use' \in [Users -> Use]
    BY <1>t, <2>1, <2>2
  <2>4. \A d \in Users : use'[d].at \in {"add", "remove"} => use'[d].type \in Types
    BY <1>t, <2>1, <2>2
  <2> QED
    BY <1>t, <2>2, <2>3, <2>4
<1>6. ASSUME NEW c \in Users, AddEffect(c) PROVE Typed
  <2>1. use[c].ticks \in Nat /\ use[c].power \in Nat
    BY <1>t DEF Use
  <2>2. effects' = Add(effects, use[c].type, use[c].ticks, use[c].power)
        /\ use' = [use EXCEPT ![c] = NoUse] /\ mixed' \in BOOLEAN
    BY <1>6, <1>t DEF AddEffect
  <2> QED
    BY <1>t, <2>1, <2>2, AddType, EndType
<1>7. ASSUME NEW c \in Users, RemoveEffect(c) \/ ClearEffects(c) \/ SyncDone(c) \/ SyncFails(c)
      PROVE  Typed
  <2>1. use' = [use EXCEPT ![c] = NoUse] /\ mixed' \in BOOLEAN
        /\ effects' \in [Types -> Effect \cup {NoEffect}]
    BY <1>t, <1>7 DEF RemoveEffect, ClearEffects, SyncDone, SyncFails
  <2> QED
    BY <1>t, <2>1, EndType
<1>8. ASSUME CombatSave \/ CombatRemove \/ UNCHANGED effectVars PROVE Typed
  <2>1. effects' = effects /\ use' = use
    BY <1>8 DEF CombatSave, CombatRemove, effectVars
  <2>2. mixed' \in BOOLEAN
    BY <1>t, <1>8 DEF CombatSave, CombatRemove, effectVars
  <2> QED
    BY <1>t, <2>1, <2>2
<1>9. ASSUME Restart PROVE Typed
  <2>1. Loaded \in [Types -> Effect \cup {NoEffect}]
    BY <1>t, LoadedMatches DEF EffectBasics
  <2>2. NoUse \in Use /\ NoUse.at = "idle"
    BY DEF NoUse, Use
  <2>3. /\ effects' = Loaded /\ use' = [d \in Users |-> NoUse] /\ mixed' = FALSE
    BY <1>9 DEF Restart
  <2>4. use' \in [Users -> Use] /\ \A d \in Users : use'[d].at = "idle"
    BY <2>2, <2>3
  <2> QED
    BY <2>1, <2>3, <2>4
<1>10. Typed
  <2> HIDE DEF Typed
  <2> QED
    BY <1>1, <1>2, <1>3, <1>4, <1>5, <1>6, <1>7, <1>8, <1>9 DEF EffectNext
<1> QED
  BY <1>10, RowsStep, BasicsStep

\* The call that begins finds rows and memory agreeing.
LEMMA BeginAlone ==
    ASSUME EffectInv, NEW c \in Users, NEW r, Begin(c, r), ~mixed'
    PROVE  /\ Quiet(c) /\ Matches(effects) /\ use'[c] = r
           /\ \A d \in Users \ {c} : use'[d] = use[d]
<1>1. ~mixed /\ Quiet(c) /\ use[c].at = "idle"
  BY DEF Begin
<1> QED
  BY <1>1 DEF Begin, EffectInv, InTurn, Quiet, EffectTypeOK

\* A step of the call in progress.
LEMMA GoAlone ==
    ASSUME EffectInv, NEW c \in Users, use[c].at # "idle", ~mixed,
           \A d \in Users \ {c} : use'[d] = use[d],
           use'[c].at = "idle" => Matches(effects)',
           use'[c].at # "idle" => Midway(c)'
    PROVE  InTurn'
<1>1. Quiet(c) /\ EffectTypeOK
  BY DEF EffectInv, InTurn
<1> QED
  BY <1>1, AloneStep
LEMMA AddRowTurn ==
    ASSUME EffectInv, NEW c \in Users, NEW t \in Types, NEW ticks \in Nat, NEW power \in Nat,
           AddRow(c, t, ticks, power), ~mixed'
    PROVE  InTurn'
<1> DEFINE r == [NoUse EXCEPT !.at = "add", !.type = t, !.ticks = ticks, !.power = power]
           row == [type |-> t, ticks |-> ticks, power |-> power]
<1>1. /\ Begin(c, r) /\ Persist(t, ticks, power) /\ UNCHANGED <<effects, fighter>>
      /\ r.at = "add" /\ r.type = t /\ r.ticks = ticks /\ r.power = power
  BY DEF AddRow, NoUse
<1>2. row \in EffectRow /\ row.ticks = ticks /\ row.power = power /\ EffectTypeOK
  BY DEF EffectRow, EffectInv
<1> HIDE DEF r
<1>3. Quiet(c) /\ Matches(effects) /\ use'[c] = r /\ \A d \in Users \ {c} : use'[d] = use[d]
  BY <1>1, BeginAlone
<1>4. ASSUME fighter PROVE Matches(Add(effects, t, ticks, power))'
  <2> SUFFICES ASSUME NEW s \in Types PROVE Sums(Add(effects, t, ticks, power)[s], RowsOf(s)')
    BY <1>1 DEF Matches
  <2>1. /\ Sums(effects[s], RowsOf(s)) /\ effects[s] \in Effect \cup {NoEffect}
        /\ RowsOf(s) \in SUBSET EffectRow
        /\ RowsOf(s)' = IF s = t THEN RowsOf(s) \cup {row} ELSE RowsOf(s)
    BY <1>1, <1>2, <1>3, <1>4, PersistRows DEF Matches, EffectTypeOK, EffectRow, RowsOf
  <2>2. CASE s # t
    BY <1>2, <2>1, <2>2 DEF Add, EffectTypeOK
  <2>3. CASE s = t
    <3>1. Add(effects, t, ticks, power)[s] =
            IF effects[s] = NoEffect THEN [ticks |-> row.ticks, power |-> row.power]
            ELSE [ticks |-> Larger(effects[s].ticks, row.ticks),
                  power |-> Larger(effects[s].power, row.power)]
      BY <1>2, <2>3 DEF Add, EffectTypeOK
    <3> HIDE DEF row
    <3> QED
      BY <1>2, <2>1, <2>3, <3>1, SumsOfMore
  <2> QED
    BY <2>2, <2>3
<1>5. Midway(c)'
  BY <1>1, <1>3, <1>4 DEF Midway
<1> QED
  BY <1>1, <1>2, <1>3, <1>5, AloneStep

LEMMA RemoveRowsTurn ==
    ASSUME EffectInv, NEW c \in Users, NEW t \in Types, RemoveRows(c, t), ~mixed'
    PROVE  InTurn'
<1> DEFINE r == [NoUse EXCEPT !.at = "remove", !.type = t]
<1>1. /\ Begin(c, r) /\ active' = {row \in active : row.type # t} /\ effects' = effects
      /\ r.at = "remove" /\ r.type = t
  BY DEF RemoveRows, NoUse
<1>2. EffectTypeOK
  BY DEF EffectInv
<1> HIDE DEF r
<1>3. Quiet(c) /\ Matches(effects) /\ use'[c] = r /\ \A d \in Users \ {c} : use'[d] = use[d]
  BY <1>1, BeginAlone
<1>4. \A s \in Types : RowsOf(s)' = IF s = t THEN {} ELSE RowsOf(s)
  BY <1>1 DEF RowsOf
<1>5. \A s \in Types : Sums([effects EXCEPT ![t] = NoEffect][s], RowsOf(s)')
  BY <1>2, <1>3, <1>4 DEF Matches, Sums, EffectTypeOK
<1>6. Midway(c)'
  BY <1>1, <1>3, <1>5 DEF Midway, Matches
<1> QED
  BY <1>1, <1>2, <1>3, <1>6, AloneStep

LEMMA TickTurn ==
    ASSUME EffectInv, NEW c \in Users, Tick(c) \/ ClearRows(c), ~mixed'
    PROVE  InTurn'
<1>1. PICK r : /\ Begin(c, r)
               /\ \/ r.at = "sync" /\ effects' = TickAll(effects) /\ UNCHANGED <<active, fighter>>
                  \/ r.at = "clear" /\ active' = {}
  BY DEF Tick, ClearRows, NoUse
<1>2. EffectTypeOK /\ (~fighter => active = {})
  BY DEF EffectInv
<1>3. Quiet(c) /\ Matches(effects) /\ use'[c] = r /\ \A d \in Users \ {c} : use'[d] = use[d]
  BY <1>1, BeginAlone
<1>4. CASE r.at = "clear" /\ active' = {}
  <2>1. Midway(c)'
    BY <1>3, <1>4 DEF Midway
  <2> QED
    BY <1>2, <1>3, <1>4, <2>1, AloneStep
<1>5. CASE r.at = "sync" /\ effects' = TickAll(effects) /\ UNCHANGED <<active, fighter>>
  <2>1. \A t \in Types : effects[t] # NoEffect => fighter
    BY <1>2, <1>3 DEF Matches, Sums, RowsOf
  <2>2. \A t \in Types : effects'[t] # NoEffect => fighter' /\ effects'[t].ticks >= 1
    BY <1>2, <1>5, <2>1, TickAllType DEF EffectTypeOK
  <2>3. Midway(c)'
    BY <1>3, <1>5, <2>2 DEF Midway
  <2> QED
    BY <1>2, <1>3, <1>5, <2>3, AloneStep
<1> QED
  BY <1>1, <1>4, <1>5

LEMMA SyncTurn ==
    ASSUME EffectInv, NEW c \in Users, SyncDelete(c) \/ SyncDone(c), ~mixed'
    PROVE  InTurn'
<1>1. /\ use[c].at # "idle" /\ ~mixed /\ UNCHANGED <<effects, fighter>> /\ EffectTypeOK
      /\ Midway(c) /\ \A d \in Users \ {c} : use'[d] = use[d]
  BY DEF SyncDelete, SyncDone, EffectInv, InTurn, EffectTypeOK
<1>2. CASE SyncDelete(c)
  <2>1. use'[c].at = "insert" /\ use'[c].todo = Present(effects) /\ active' = {}
    BY <1>1, <1>2 DEF SyncDelete, EffectTypeOK
  <2>2. \A t \in Types : RowsOf(t)' = {}
    BY <2>1 DEF RowsOf
  <2>3. \A t \in Types : effects[t] # NoEffect => fighter /\ effects[t].ticks >= 1
    BY <1>1, <1>2 DEF SyncDelete, Midway
  <2>4. Midway(c)'
    BY <1>1, <2>1, <2>2, <2>3 DEF Midway, Present, Sums
  <2> QED
    BY <1>1, <2>1, <2>4, GoAlone
<1>3. CASE SyncDone(c)
  <2>1. /\ use'[c].at = "idle" /\ active' = active
        /\ \A t \in Types : Sums(effects[t], RowsOf(t))
    BY <1>1, <1>3 DEF SyncDone, EffectTypeOK, Midway, NoUse
  <2>2. Matches(effects)'
    BY <1>1, <2>1 DEF Matches, RowsOf
  <2> QED
    BY <1>1, <2>1, <2>2, GoAlone
<1> QED
  BY <1>2, <1>3

LEMMA SyncInsertTurn ==
    ASSUME EffectInv, NEW c \in Users, NEW t \in Types, SyncInsert(c, t), ~mixed'
    PROVE  InTurn'
<1> DEFINE e == effects[t]
           row == [type |-> t, ticks |-> e.ticks, power |-> e.power]
<1>1. /\ use[c].at = "insert" /\ t \in use[c].todo /\ ~mixed
      /\ UNCHANGED <<effects, fighter>> /\ EffectTypeOK /\ Midway(c)
      /\ use'[c].at = "insert" /\ use'[c].todo = use[c].todo \ {t}
      /\ \A d \in Users \ {c} : use'[d] = use[d]
  BY DEF SyncInsert, EffectInv, InTurn, EffectTypeOK
<1>2. /\ RowsOf(t) = {} /\ e # NoEffect /\ fighter /\ e.ticks >= 1
      /\ e \in Effect /\ e.ticks \in Nat /\ e.power \in Nat
  BY <1>1 DEF Midway, EffectTypeOK, Effect
<1>3. Persist(t, e.ticks, e.power)
  BY <1>2 DEF SyncInsert
<1>4. \A s \in Types : RowsOf(s)' = IF s = t THEN {row} ELSE RowsOf(s)
  BY <1>1, <1>2, <1>3, PersistRows
<1>5. row.ticks = e.ticks /\ row.power = e.power
  OBVIOUS
<1>6. Sums(e, {row})
  <2> HIDE DEF row
  <2> QED
    BY <1>2, <1>5 DEF Sums
<1>7. ASSUME NEW s \in Types
      PROVE  IF s \in use'[c].todo
             THEN RowsOf(s)' = {} /\ effects'[s] # NoEffect /\ fighter' /\ effects'[s].ticks >= 1
             ELSE Sums(effects'[s], RowsOf(s)')
  <2>1. CASE s = t
    BY <1>1, <1>4, <1>6, <2>1
  <2>2. CASE s # t
    BY <1>1, <1>4, <2>2 DEF Midway
  <2> QED
    BY <2>1, <2>2
<1>8. Midway(c)'
  BY <1>1, <1>7 DEF Midway
<1> QED
  BY <1>1, <1>8, GoAlone

LEMMA EndTurn ==
    ASSUME EffectInv, NEW c \in Users, AddEffect(c) \/ RemoveEffect(c) \/ ClearEffects(c), ~mixed'
    PROVE  InTurn'
<1>1. /\ use[c].at # "idle" /\ ~mixed /\ UNCHANGED <<active, fighter>> /\ EffectTypeOK
      /\ Midway(c) /\ use'[c].at = "idle" /\ \A d \in Users \ {c} : use'[d] = use[d]
  BY DEF AddEffect, RemoveEffect, ClearEffects, EffectInv, InTurn, EffectTypeOK, NoUse
<1>2. \A t \in Types : RowsOf(t)' = RowsOf(t)
  BY <1>1 DEF RowsOf
<1>3. CASE AddEffect(c) \/ RemoveEffect(c)
  <2>1. Matches(effects')
    BY <1>1, <1>3 DEF AddEffect, RemoveEffect, Midway
  <2>2. Matches(effects)'
    BY <1>2, <2>1 DEF Matches
  <2> QED
    BY <1>1, <2>2, GoAlone
<1>4. CASE ClearEffects(c)
  <2>1. active = {} /\ \A t \in Types : effects'[t] = NoEffect
    BY <1>1, <1>4 DEF ClearEffects, Midway
  <2>2. Matches(effects)'
    BY <1>2, <2>1 DEF Matches, Sums, RowsOf
  <2> QED
    BY <1>1, <2>2, GoAlone
<1> QED
  BY <1>3, <1>4

LEMMA NextInTurn ==
    ASSUME EffectInv, [EffectNext]_effectVars, ~mixed'
    PROVE  InTurn'
<1>1. ASSUME NEW c \in Users, NEW t \in Types, NEW ticks \in 0..MaxTicks, NEW power \in 1..MaxPower,
             AddRow(c, t, ticks, power)
      PROVE  InTurn'
  <2>1. ticks \in Nat /\ power \in Nat
    OBVIOUS
  <2> QED
    BY <1>1, <2>1, AddRowTurn
<1>2. CASE CombatSave \/ CombatRemove
  <2>1. /\ ~mixed /\ active = {} /\ active' = active /\ UNCHANGED <<effects, use>>
        /\ \A c \in Users : use[c].at = "idle"
    BY <1>2 DEF CombatSave, CombatRemove
  <2>2. Matches(effects) /\ \A t \in Types : RowsOf(t)' = RowsOf(t)
    BY <2>1 DEF EffectInv, InTurn, RowsOf
  <2>3. Matches(effects)'
    BY <2>1, <2>2 DEF Matches
  <2> QED
    BY <2>1, <2>3 DEF InTurn
<1>3. CASE Restart
  <2>1. Matches(Loaded) /\ effects' = Loaded /\ active' = active
        /\ use' = [c \in Users |-> NoUse]
    BY <1>3, LoadedMatches DEF Restart, EffectInv
  <2>2. Matches(effects)' /\ \A c \in Users : use'[c].at = "idle"
    BY <2>1 DEF Matches, RowsOf, NoUse
  <2> QED
    BY <2>2 DEF InTurn
<1>4. ASSUME NEW c \in Users, SyncFails(c) PROVE InTurn'
  BY <1>4 DEF SyncFails
<1>5. CASE UNCHANGED effectVars
  BY <1>5 DEF effectVars, EffectInv, InTurn, Matches, Midway, Quiet, RowsOf
<1> QED
  BY <1>1, <1>2, <1>3, <1>4, <1>5, RemoveRowsTurn, TickTurn, SyncTurn, SyncInsertTurn, EndTurn
  DEF EffectNext

LEMMA NextEffectInv == EffectInv /\ [EffectNext]_effectVars => EffectInv'
<1> SUFFICES ASSUME EffectInv, [EffectNext]_effectVars PROVE EffectInv'
  OBVIOUS
<1>1. EffectBasics'
  BY NextBasics DEF EffectInv, EffectBasics
<1> QED
  BY <1>1, NextInTurn DEF EffectInv, EffectBasics

LEMMA EffectInvariance == EffectSpec => []EffectInv
BY InitEffectInv, NextEffectInv, PTL DEF EffectSpec

\* Effects, rows and calls keep their types.
THEOREM EffectsType == EffectSpec => []EffectTypeOK
BY EffectInvariance, PTL DEF EffectInv

\* For any types, durations and numbers of calls: a restart between two calls
\* loads what was in memory, unless calls have crossed, a write has failed or
\* combat has saved the entity since the last one.
THEOREM RestartKeeps == EffectSpec => []RestartKeepsEffects
<1>1. EffectInv => RestartKeepsEffects
  <2> SUFFICES ASSUME EffectInv, ~mixed, \A c \in Users : use[c].at = "idle"
               PROVE  Loaded = effects
    BY DEF RestartKeepsEffects
  <2> QED
    BY MatchesIsLoaded DEF EffectInv, InTurn, EffectTypeOK
<1> QED
  BY <1>1, EffectInvariance, PTL

----------------------------------------------------------------------------
\* Classes.  get_chain and resolve_properties are loops, and what a loop comes to
\* needs induction: here the least-number principle, which follows from strict
\* inclusion between finite sets being well-founded.
LEMMA LeastNumber ==
    ASSUME NEW T \in SUBSET Nat, T # {}
    PROVE  \E m \in T : \A i \in T : m <= i
<1> DEFINE upTo == {0..i : i \in T}
           R == StrictSubsetOrdering(Nat)
           F == FiniteSubsetsOf(Nat)
<1>1. upTo \subseteq F /\ upTo # {}
  <2>1. \A i \in T : 0..i \in SUBSET Nat /\ IsFiniteSet(0..i)
    BY FS_Interval
  <2> QED
    BY <2>1 DEF FiniteSubsetsOf
<1>2. IsWellFoundedOn(R, F)
  BY FS_StrictSubsetOrderingWellFounded
<1>3. PICK s \in upTo : \A o \in upTo : ~ <<o, s>> \in R
  <2> HIDE DEF upTo, R, F
  <2> QED
    BY <1>1, <1>2, WFMin, Zenon
<1>4. PICK m \in T : s = 0..m
  OBVIOUS
<1>5. ASSUME NEW i \in T, i < m PROVE FALSE
  <2>1. 0..i \subseteq 0..m /\ m \in 0..m /\ m \notin 0..i
    BY <1>5
  <2>2. <<0..i, 0..m>> \in R
    BY <2>1 DEF StrictSubsetOrdering
  <2> QED
    BY <1>3, <1>4, <2>2
<1> QED
  BY <1>5

\* What a function that is defined by recursion from 0 to m satisfies, and that
\* there is one.
Recursion(f, m, base, step) == f = [i \in 0..m |-> IF i = 0 THEN base ELSE step[i][f[i - 1]]]

LEMMA RecursionExists ==
    ASSUME NEW X, NEW base \in X, NEW m \in Nat, NEW step \in [1..m -> [X -> X]]
    PROVE  \E f \in [0..m -> X] : Recursion(f, m, base, step)
<1> DEFINE Rec(f, n) == f = [i \in 0..n |-> IF i = 0 THEN base ELSE step[i][f[i - 1]]]
           T == {n \in 0..m : ~ \E f \in [0..n -> X] : Rec(f, n)}
<1>1. ASSUME T # {} PROVE FALSE
  <2>1. PICK n \in T : \A i \in T : n <= i
    <3>1. T \in SUBSET Nat
      OBVIOUS
    <3> HIDE DEF T
    <3> QED
      BY <1>1, <3>1, LeastNumber
  <2>2. CASE n = 0
    <3> DEFINE f == [i \in 0..0 |-> base]
    <3>1. f \in [0..0 -> X] /\ Rec(f, 0)
      OBVIOUS
    <3> QED
      BY <2>2, <3>1
  <2>3. CASE n # 0
    <3>0. n \in 0..m
      BY <2>1
    <3>1. n \in 1..m /\ n - 1 \in 0..m /\ n - 1 \notin T
      <4> HIDE DEF T
      <4> QED
        BY <2>1, <2>3, <3>0
    <3>2. PICK g \in [0..(n - 1) -> X] : Rec(g, n - 1)
      BY <3>1
    <3> DEFINE f == [i \in 0..n |-> IF i = n THEN step[n][g[n - 1]] ELSE g[i]]
    <3>3. f \in [0..n -> X]
      BY <3>1
    <3>4. \A i \in 0..n : f[i] = IF i = 0 THEN base ELSE step[i][f[i - 1]]
      <4> SUFFICES ASSUME NEW i \in 0..n PROVE f[i] = IF i = 0 THEN base ELSE step[i][f[i - 1]]
        OBVIOUS
      <4>1. CASE i = n
        BY <3>1, <4>1
      <4>2. CASE i # n
        <5>1. i \in 0..(n - 1) /\ f[i] = g[i] /\ (i # 0 => f[i - 1] = g[i - 1])
          BY <3>1, <4>2
        <5>2. g[i] = IF i = 0 THEN base ELSE step[i][g[i - 1]]
          BY <3>2, <5>1
        <5> QED
          BY <5>1, <5>2
      <4> QED
        BY <4>1, <4>2
    <3>5. Rec(f, n)
      <4> HIDE DEF f
      <4> QED
        BY <3>3, <3>4
    <3> QED
      BY <2>1, <3>3, <3>5
  <2> QED
    BY <2>2, <2>3
<1>2. m \in 0..m /\ m \notin T
  BY <1>1
<1> QED
  BY <1>2 DEF Recursion

\* The classes of a chain.
Elems(chain) == {chain[i] : i \in 1..Len(chain)}

\* What a class may say about some of the keys, and what it is.
Props == UNION {[ks -> Nat] : ks \in SUBSET Keys}
ClassDef == [parent : Cls!Names \cup {None}, props : Props]

\* A registry: in it only finitely many names have a class.
IsRegistry(cs) ==
    /\ cs \in [Cls!Names -> ClassDef \cup {None}]
    /\ IsFiniteSet({n \in Cls!Names : cs[n] # None})

\* Only finitely many classes are known.
LEMMA FinitelyMany ==
    ASSUME IsRegistry(classes)
    PROVE  IsFiniteSet(Cls!Registered) /\ Cardinality(Cls!Registered) \in Nat
<1>1. Cls!Registered \in SUBSET {n \in Cls!Names : classes[n] # None}
  BY DEF Cls!Registered, Cls!Known
<1>2. IsFiniteSet(Cls!Registered)
  BY <1>1, FS_Subset DEF IsRegistry
<1> QED
  BY <1>2, FS_CardinalityType

\* Where a chain goes on to.
Beyond(n, chain) == IF chain = <<>> THEN n ELSE classes[chain[Len(chain)]].parent

\* A round of the loop: either the chain has got to its end, or it grows by a
\* known class that it did not have.
LEMMA OnwardIs ==
    ASSUME IsRegistry(classes), NEW n \in Cls!Names, NEW chain \in Seq(Cls!Registered)
    PROVE  LET next == Beyond(n, chain) IN
           /\ Cls!Onward(n, chain) \in Seq(Cls!Registered)
           /\ \/ Cls!Onward(n, chain) = chain /\ (~Cls!Known(next) \/ next \in Elems(chain))
              \/ /\ Cls!Onward(n, chain) = Append(chain, next)
                 /\ next \in Cls!Registered \ Elems(chain)
<1> DEFINE next == Beyond(n, chain)
<1>1. next \in Cls!Names \cup {None}
  <2>1. ASSUME chain # <<>> PROVE chain[Len(chain)] \in Cls!Registered
    BY <2>1
  <2> QED
    BY <2>1 DEF IsRegistry, ClassDef, Beyond, Cls!Registered, Cls!Known
<1>2. Cls!Known(next) => next \in Cls!Registered
  BY <1>1 DEF Cls!Known, Cls!Registered
<1>3. Cls!Onward(n, chain) = IF Cls!Known(next) /\ next \notin Elems(chain)
                             THEN Append(chain, next) ELSE chain
  BY DEF Cls!Onward, Beyond, Elems, Cls!Last, Cls!ToSet
<1> HIDE DEF next
<1> QED
  BY <1>2, <1>3 DEF next

\* What Chain is defined by does exist: the rounds of the loop.
LEMMA ChainClimbs ==
    ASSUME IsRegistry(classes), NEW n \in Cls!Names
    PROVE  \E climb :
              /\ climb[0] = <<>>
              /\ \A i \in 1..Cardinality(Cls!Registered) : climb[i] = Cls!Onward(n, climb[i - 1])
              /\ Cls!Chain(n) = climb[Cardinality(Cls!Registered)]
<1> DEFINE m == Cardinality(Cls!Registered)
           X == Seq(Cls!Registered)
           step == [i \in 1..m |-> [chain \in X |-> Cls!Onward(n, chain)]]
           Rec(f) == f = [i \in 0..m |-> IF i = 0 THEN <<>> ELSE Cls!Onward(n, f[i - 1])]
<1>1. m \in Nat
  BY FinitelyMany
<1>2. step \in [1..m -> [X -> X]] /\ <<>> \in X
  BY OnwardIs
<1>3. \A i \in 1..m, chain \in X : step[i][chain] = Cls!Onward(n, chain)
  OBVIOUS
<1>4. PICK f \in [0..m -> X] : Recursion(f, m, <<>>, step)
  <2> HIDE DEF m, X, step
  <2> QED
    BY <1>1, <1>2, RecursionExists
<1>5. Rec(f)
  <2>1. \A i \in 0..m : i # 0 => i \in 1..m /\ f[i - 1] \in X
    <3> HIDE DEF m, X, step
    <3> QED
      BY <1>1, <1>4
  <2>2. \A i \in 0..m : f[i] = IF i = 0 THEN <<>> ELSE Cls!Onward(n, f[i - 1])
    <3> HIDE DEF m, X, step
    <3> QED
      BY <1>3, <1>4, <2>1 DEF Recursion
  <2> HIDE DEF m, X, step
  <2> QED
    BY <1>4, <2>2 DEF Recursion
<1>6. PICK g : Rec(g) /\ Cls!Chain(n) = g[m]
  <2>1. Cls!Cardinality(Cls!Registered) = m
    BY DEF Cls!Cardinality, Cardinality
  <2> QED
    BY <1>5, <2>1 DEF Cls!Chain
<1> QED
  <2>1. g[0] = <<>> /\ \A i \in 1..m : g[i] = Cls!Onward(n, g[i - 1])
    <3> HIDE DEF m
    <3> QED
      BY <1>1, <1>6
  <2> QED
    BY <1>6, <2>1

\* What get_chain has collected: n first, after each class its parent, and no
\* class twice.
Ascent(n, chain) ==
    /\ chain \in Seq(Cls!Registered)
    /\ chain # <<>> => chain[1] = n
    /\ \A j \in 1..(Len(chain) - 1) : chain[j + 1] = classes[chain[j]].parent
    /\ \A j, k \in 1..Len(chain) : chain[j] = chain[k] => j = k

\* Each round keeps it so, and makes the chain longer or leaves it as it is.
LEMMA AscentOnward ==
    ASSUME IsRegistry(classes), NEW n \in Cls!Names, NEW chain, Ascent(n, chain)
    PROVE  /\ Ascent(n, Cls!Onward(n, chain))
           /\ Cls!Onward(n, chain) = chain \/ Len(Cls!Onward(n, chain)) = Len(chain) + 1
<1> DEFINE next == Beyond(n, chain)
           longer == Append(chain, next)
<1>1. CASE Cls!Onward(n, chain) = chain
  BY <1>1
<1>2. CASE Cls!Onward(n, chain) = longer /\ next \in Cls!Registered \ Elems(chain)
  <2>1. /\ chain \in Seq(Cls!Registered) /\ longer \in Seq(Cls!Registered)
        /\ Len(chain) \in Nat /\ Len(longer) = Len(chain) + 1
        /\ \A j \in 1..Len(chain) : longer[j] = chain[j]
        /\ longer[Len(chain) + 1] = next
    BY <1>2 DEF Ascent
  <2>2. longer[1] = n
    BY <2>1 DEF Ascent, Beyond
  <2>3. \A j \in 1..Len(chain) : longer[j + 1] = classes[longer[j]].parent
    <3> SUFFICES ASSUME NEW j \in 1..Len(chain) PROVE longer[j + 1] = classes[longer[j]].parent
      OBVIOUS
    <3>1. CASE j = Len(chain)
      <4>1. next = classes[chain[Len(chain)]].parent
        BY <2>1, <3>1 DEF Beyond
      <4> QED
        BY <2>1, <3>1, <4>1
    <3>2. CASE j # Len(chain)
      <4>1. j \in 1..(Len(chain) - 1) /\ j + 1 \in 1..Len(chain)
        BY <2>1, <3>2
      <4> QED
        BY <2>1, <4>1 DEF Ascent
    <3> QED
      BY <3>1, <3>2
  <2>4. \A j, k \in 1..(Len(chain) + 1) : longer[j] = longer[k] => j = k
    <3>1. \A j \in 1..Len(chain) : longer[j] # next
      BY <1>2, <2>1 DEF Elems
    <3>2. \A j, k \in 1..Len(chain) : longer[j] = longer[k] => j = k
      BY <2>1 DEF Ascent
    <3> HIDE DEF longer, next
    <3> QED
      BY <2>1, <3>1, <3>2
  <2>5. longer # <<>> /\ Len(longer) - 1 = Len(chain)
    BY <2>1
  <2> HIDE DEF longer, next
  <2> QED
    BY <1>2, <2>1, <2>2, <2>3, <2>4, <2>5 DEF Ascent
<1> QED
  BY <1>1, <1>2, OnwardIs DEF Ascent

\* get_chain stops only where it cannot go on: as many rounds as the registry
\* has classes are enough.
LEMMA ChainComplete ==
    ASSUME IsRegistry(classes), NEW n \in Cls!Names
    PROVE  Ascent(n, Cls!Chain(n)) /\ Cls!Onward(n, Cls!Chain(n)) = Cls!Chain(n)
<1> DEFINE m == Cardinality(Cls!Registered)
           chain == Cls!Chain(n)
<1>1. m \in Nat /\ IsFiniteSet(Cls!Registered)
  BY FinitelyMany
<1>2. PICK climb : /\ climb[0] = <<>> /\ chain = climb[m]
                   /\ \A i \in 1..m : climb[i] = Cls!Onward(n, climb[i - 1])
  BY ChainClimbs
<1> DEFINE Fits(i) == /\ Ascent(n, climb[i])
                      /\ Len(climb[i]) = i \/ Cls!Onward(n, climb[i]) = climb[i]
           T == {i \in 0..m : ~Fits(i)}
<1> HIDE DEF m, chain
<1>3. ASSUME T # {} PROVE FALSE
  <2>1. PICK i \in T : \A j \in T : i <= j
    <3>1. T \in SUBSET Nat
      BY <1>1
    <3> HIDE DEF T
    <3> QED
      BY <1>3, <3>1, LeastNumber
  <2>2. i # 0
    <3>1. Fits(0)
      BY <1>2 DEF Ascent
    <3> QED
      BY <2>1, <3>1
  <2>3. i \in 1..m /\ i - 1 \in 0..m /\ Fits(i - 1)
    <3>1. i \in 1..m /\ i - 1 \in 0..m
      BY <1>1, <2>1, <2>2
    <3>2. i - 1 \notin T
      <4> HIDE DEF T
      <4> QED
        BY <2>1, <3>1
    <3> QED
      BY <3>1, <3>2
  <2>4. climb[i] = Cls!Onward(n, climb[i - 1])
    BY <1>2, <2>3
  <2>5. /\ Ascent(n, climb[i])
        /\ climb[i] = climb[i - 1] \/ Len(climb[i]) = Len(climb[i - 1]) + 1
    BY <2>3, <2>4, AscentOnward
  <2>6. Fits(i)
    <3>1. CASE climb[i] = climb[i - 1]
      <4>1. Cls!Onward(n, climb[i]) = climb[i]
        BY <2>4, <3>1
      <4> QED
        BY <2>5, <4>1
    <3>2. CASE climb[i] # climb[i - 1]
      <4>1. Len(climb[i - 1]) = i - 1
        BY <2>3, <2>4, <3>2
      <4>2. Len(climb[i]) = i
        BY <2>3, <2>5, <3>2, <4>1
      <4> QED
        BY <2>5, <4>2
    <3> QED
      BY <3>1, <3>2
  <2> QED
    BY <2>1, <2>6
<1>4. Ascent(n, chain) /\ (Len(chain) = m \/ Cls!Onward(n, chain) = chain)
  BY <1>1, <1>2, <1>3
<1>5. ASSUME Len(chain) = m PROVE Cls!Onward(n, chain) = chain
  <2> DEFINE f == [j \in 1..m |-> chain[j]]
  <2>1. f \in Injection(1..m, Cls!Registered)
    BY <1>4, <1>5 DEF Ascent, Injection, IsInjective
  <2>2. Cardinality(1..m) = Cardinality(Cls!Registered)
    BY <1>1, FS_Interval DEF m
  <2>3. f \in Surjection(1..m, Cls!Registered)
    <3> HIDE DEF f
    <3> QED
      BY <1>1, <2>1, <2>2, FS_Injection
  <2>4. Cls!Registered \subseteq Elems(chain)
    BY <1>5, <2>3 DEF Surjection, Elems
  <2> QED
    BY <1>4, <2>4, OnwardIs DEF Ascent
<1> QED
  BY <1>4, <1>5 DEF chain

\* Whatever is above a class in a chain is in the chain of that class.
LEMMA ChainAbove ==
    ASSUME IsRegistry(classes), NEW n \in Cls!Names,
           NEW j \in 1..Len(Cls!Chain(n)), NEW k \in j..Len(Cls!Chain(n))
    PROVE  Cls!IsA(Cls!Chain(n)[j], Cls!Chain(n)[k])
<1> DEFINE chain == Cls!Chain(n)
           m == chain[j]
           upper == Cls!Chain(m)
           T == {i \in j..Len(chain) : chain[i] \notin Elems(upper)}
<1>1. Ascent(n, chain) /\ Len(chain) \in Nat /\ m \in Cls!Registered /\ m \in Cls!Names
  <2>1. Ascent(n, chain)
    BY ChainComplete
  <2> HIDE DEF chain
  <2>2. chain \in Seq(Cls!Registered)
    BY <2>1 DEF Ascent
  <2>3. Len(chain) \in Nat /\ m \in Cls!Registered
    BY <2>2 DEF chain
  <2> QED
    BY <2>1, <2>3 DEF Cls!Registered
<1>2. Ascent(m, upper) /\ Cls!Onward(m, upper) = upper
  BY <1>1, ChainComplete
<1> HIDE DEF chain, m, upper
<1>3. \A i \in 1..Len(chain) : chain[i] \in Cls!Registered
  BY <1>1 DEF Ascent
<1>4. ~Cls!Known(Beyond(m, upper)) \/ Beyond(m, upper) \in Elems(upper)
  <2>1. upper \in Seq(Cls!Registered) /\ upper # Append(upper, Beyond(m, upper))
    BY <1>2 DEF Ascent
  <2> QED
    BY <1>1, <1>2, <2>1, OnwardIs
<1>5. \A o \in Cls!Registered : Cls!Known(o)
  BY DEF Cls!Registered
<1>6. m \in Elems(upper)
  <2>1. upper # <<>>
    BY <1>1, <1>4, <1>5 DEF Beyond, Elems
  <2> QED
    BY <1>2, <2>1 DEF Ascent, Elems
<1>7. ASSUME T # {} PROVE FALSE
  <2>1. PICK i \in T : \A h \in T : i <= h
    <3>1. T \in SUBSET Nat
      BY <1>1
    <3> HIDE DEF T
    <3> QED
      BY <1>7, <3>1, LeastNumber
  <2>2. i # j
    BY <1>6, <2>1 DEF m
  <2>3. i \in j..Len(chain) /\ i - 1 \in j..Len(chain) /\ i - 1 \in 1..(Len(chain) - 1)
    BY <1>1, <2>1, <2>2 DEF chain
  <2>4. chain[i - 1] \in Elems(upper)
    <3>1. i - 1 \notin T
      <4> HIDE DEF T
      <4> QED
        BY <2>1, <2>3
    <3> QED
      BY <2>3, <3>1
  <2>5. chain[i] = classes[chain[i - 1]].parent /\ chain[i] \in Cls!Registered
    BY <1>1, <1>3, <2>3 DEF Ascent
  <2>6. PICK h \in 1..Len(upper) : upper[h] = chain[i - 1]
    BY <2>4 DEF Elems
  <2>7. chain[i] \in Elems(upper)
    <3>1. CASE h = Len(upper)
      <4>1. Beyond(m, upper) = chain[i]
        BY <1>2, <2>5, <2>6, <3>1 DEF Beyond, Ascent
      <4> QED
        BY <1>4, <1>5, <2>5, <4>1
    <3>2. CASE h # Len(upper)
      <4>1. Len(upper) \in Nat
        BY <1>2 DEF Ascent
      <4>2. h \in 1..(Len(upper) - 1) /\ h + 1 \in 1..Len(upper)
        BY <3>2, <4>1
      <4>3. upper[h + 1] = chain[i]
        BY <1>2, <2>5, <2>6, <4>2 DEF Ascent
      <4> QED
        BY <4>2, <4>3 DEF Elems
    <3> QED
      BY <3>1, <3>2
  <2> QED
    BY <2>1, <2>7
<1>8. k \in j..Len(chain) /\ k \notin T
  BY <1>7 DEF chain
<1>9. chain[k] \in Elems(upper)
  BY <1>8
<1> QED
  BY <1>9 DEF Cls!IsA, Cls!ToSet, Elems, chain, m, upper

\* What one class overrides.
LEMMA OverrideIs ==
    ASSUME NEW props \in Props, NEW more \in Props
    PROVE  /\ Cls!Override(props, more) \in Props
           /\ DOMAIN Cls!Override(props, more) = DOMAIN props \cup DOMAIN more
           /\ \A k \in DOMAIN more : Cls!Override(props, more)[k] = more[k]
           /\ \A k \in DOMAIN props \ DOMAIN more : Cls!Override(props, more)[k] = props[k]
<1>1. PICK ks \in SUBSET Keys : props \in [ks -> Nat]
  BY DEF Props
<1>2. PICK ls \in SUBSET Keys : more \in [ls -> Nat]
  BY DEF Props
<1>3. Cls!Override(props, more) \in [ks \cup ls -> Nat]
  BY <1>1, <1>2 DEF Cls!Override
<1>4. Cls!Override(props, more) \in Props
  BY <1>3 DEF Props
<1> QED
  BY <1>4 DEF Cls!Override

\* What a known class says.
LEMMA PropsOf == ASSUME IsRegistry(classes), NEW m \in Cls!Registered PROVE classes[m].props \in Props
BY DEF IsRegistry, ClassDef, Cls!Registered, Cls!Known

\* props has of every key what the nearest class says, of those of the chain
\* from a place upwards, and no other key.
Gathered(chain, from, props) ==
    /\ props \in Props
    /\ \A j \in from..Len(chain) : DOMAIN classes[chain[j]].props \subseteq DOMAIN props
    /\ \A k \in DOMAIN props : \E j \in from..Len(chain) :
          /\ k \in DOMAIN classes[chain[j]].props
          /\ props[k] = classes[chain[j]].props[k]
          /\ \A i \in from..(j - 1) : k \notin DOMAIN classes[chain[i]].props

\* The class below overrides them.
LEMMA GatheredStep ==
    ASSUME IsRegistry(classes), NEW chain \in Seq(Cls!Registered), NEW from \in 1..Len(chain),
           NEW props, Gathered(chain, from + 1, props)
    PROVE  Gathered(chain, from, Cls!Override(props, classes[chain[from]].props))
<1> DEFINE more == classes[chain[from]].props
           all == Cls!Override(props, more)
<1>1. more \in Props /\ Len(chain) \in Nat /\ from \in 1..Len(chain)
  BY PropsOf
<1>2. /\ all \in Props /\ DOMAIN all = DOMAIN props \cup DOMAIN more
      /\ \A k \in DOMAIN more : all[k] = more[k]
      /\ \A k \in DOMAIN props \ DOMAIN more : all[k] = props[k]
  <2> HIDE DEF more
  <2>1. props \in Props
    BY DEF Gathered
  <2> QED
    BY <1>1, <2>1, OverrideIs
<1> HIDE DEF all
<1>3. ASSUME NEW j \in from..Len(chain) PROVE DOMAIN classes[chain[j]].props \subseteq DOMAIN all
  <2>1. CASE j = from
    BY <1>2, <2>1
  <2>2. CASE j # from
    <3>1. j \in (from + 1)..Len(chain)
      BY <1>1, <2>2
    <3> QED
      BY <1>2, <3>1 DEF Gathered
  <2> QED
    BY <2>1, <2>2
<1>4. ASSUME NEW k \in DOMAIN all
      PROVE  \E j \in from..Len(chain) :
                /\ k \in DOMAIN classes[chain[j]].props
                /\ all[k] = classes[chain[j]].props[k]
                /\ \A i \in from..(j - 1) : k \notin DOMAIN classes[chain[i]].props
  <2>1. CASE k \in DOMAIN more
    <3>1. from \in from..Len(chain) /\ from..(from - 1) = {}
      BY <1>1
    <3> QED
      BY <1>2, <2>1, <3>1
  <2>2. CASE k \notin DOMAIN more
    <3>1. PICK j \in (from + 1)..Len(chain) :
             /\ k \in DOMAIN classes[chain[j]].props
             /\ props[k] = classes[chain[j]].props[k]
             /\ \A i \in (from + 1)..(j - 1) : k \notin DOMAIN classes[chain[i]].props
      BY <1>2, <2>2 DEF Gathered
    <3>2. j \in from..Len(chain) /\ \A i \in from..(j - 1) : i = from \/ i \in (from + 1)..(j - 1)
      BY <1>1
    <3>3. all[k] = props[k]
      BY <1>2, <2>2
    <3> QED
      BY <2>2, <3>1, <3>2, <3>3
  <2> QED
    BY <2>1, <2>2
<1> HIDE DEF more
<1>5. Gathered(chain, from, all)
  BY <1>2, <1>3, <1>4 DEF Gathered
<1> QED
  BY <1>5 DEF all, more

\* What Gather is defined by does exist: the rounds of its loop.
LEMMA GatherIs ==
    ASSUME IsRegistry(classes), NEW chain \in Seq(Cls!Registered)
    PROVE  \E gather :
              /\ gather[0] = Cls!NoProps
              /\ \A i \in 1..Len(chain) :
                    gather[i] = Cls!Override(gather[i - 1], classes[chain[Len(chain) + 1 - i]].props)
              /\ Cls!Gather(chain) = gather[Len(chain)]
<1> DEFINE m == Len(chain)
           Of(i) == classes[chain[m + 1 - i]].props
           step == [i \in 1..m |-> [props \in Props |-> Cls!Override(props, Of(i))]]
           Rec(f) == f = [i \in 0..m |-> IF i = 0 THEN Cls!NoProps
                                         ELSE Cls!Override(f[i - 1], Of(i))]
<1>1. m \in Nat
  OBVIOUS
<1>2. \A i \in 1..m : Of(i) \in Props
  <2>1. \A i \in 1..m : m + 1 - i \in 1..m /\ chain[m + 1 - i] \in Cls!Registered
    OBVIOUS
  <2> QED
    BY <2>1, PropsOf
<1>3. Cls!NoProps \in Props
  <2>1. Cls!NoProps \in [{} -> Nat]
    BY DEF Cls!NoProps
  <2> QED
    BY <2>1 DEF Props
<1> HIDE DEF Of
<1>4. step \in [1..m -> [Props -> Props]]
  BY <1>2, OverrideIs
<1>5. \A i \in 1..m, props \in Props : step[i][props] = Cls!Override(props, Of(i))
  OBVIOUS
<1>6. PICK f \in [0..m -> Props] : Recursion(f, m, Cls!NoProps, step)
  <2> HIDE DEF m, step
  <2> QED
    BY <1>1, <1>3, <1>4, RecursionExists
<1>7. Rec(f)
  <2> HIDE DEF m, step
  <2>1. \A i \in 0..m : i # 0 => i \in 1..m /\ f[i - 1] \in Props
    BY <1>1, <1>6
  <2>2. \A i \in 0..m : f[i] = IF i = 0 THEN Cls!NoProps ELSE Cls!Override(f[i - 1], Of(i))
    BY <1>5, <1>6, <2>1 DEF Recursion
  <2> QED
    BY <1>6, <2>2 DEF Recursion
<1>8. PICK g : Rec(g) /\ Cls!Gather(chain) = g[m]
  BY <1>7 DEF Cls!Gather, Of
<1>9. g[0] = Cls!NoProps /\ \A i \in 1..m : g[i] = Cls!Override(g[i - 1], Of(i))
  <2> HIDE DEF m
  <2> QED
    BY <1>1, <1>8
<1> QED
  BY <1>8, <1>9 DEF Of

\* resolve_properties: what each class of a chain comes to.
LEMMA GatherNearest ==
    ASSUME IsRegistry(classes), NEW chain \in Seq(Cls!Registered)
    PROVE  Gathered(chain, 1, Cls!Gather(chain))
<1> DEFINE m == Len(chain)
<1>1. m \in Nat
  OBVIOUS
<1>2. PICK g : /\ g[0] = Cls!NoProps
               /\ \A i \in 1..m : g[i] = Cls!Override(g[i - 1], classes[chain[m + 1 - i]].props)
               /\ Cls!Gather(chain) = g[m]
  BY GatherIs
<1> DEFINE T == {i \in 0..m : ~Gathered(chain, m + 1 - i, g[i])}
<1> HIDE DEF m
<1>3. ASSUME T # {} PROVE FALSE
  <2>1. PICK i \in T : \A j \in T : i <= j
    <3>1. T \in SUBSET Nat
      BY <1>1
    <3> HIDE DEF T
    <3> QED
      BY <1>3, <3>1, LeastNumber
  <2>2. i # 0
    <3>1. Cls!NoProps \in Props /\ DOMAIN Cls!NoProps = {}
      <4>1. Cls!NoProps \in [{} -> Nat]
        BY DEF Cls!NoProps
      <4> QED
        BY <4>1 DEF Props
    <3>2. Gathered(chain, m + 1, Cls!NoProps)
      BY <1>1, <3>1 DEF Gathered, m
    <3> QED
      BY <1>1, <1>2, <2>1, <3>2
  <2>3. /\ i \in 1..m /\ i - 1 \in 0..m /\ m + 1 - i \in 1..m /\ m + 1 - (i - 1) = (m + 1 - i) + 1
        /\ Gathered(chain, (m + 1 - i) + 1, g[i - 1])
    <3>1. i \in 1..m /\ i - 1 \in 0..m /\ m + 1 - i \in 1..m /\ m + 1 - (i - 1) = (m + 1 - i) + 1
      BY <1>1, <2>1, <2>2
    <3>2. i - 1 \notin T
      <4> HIDE DEF T
      <4> QED
        BY <2>1, <3>1
    <3> QED
      BY <3>1, <3>2
  <2>4. Gathered(chain, m + 1 - i, g[i])
    BY <1>2, <2>3, GatheredStep DEF m
  <2> QED
    BY <2>1, <2>4
<1>4. m \in 0..m /\ m + 1 - m = 1
  BY <1>1
<1>5. Gathered(chain, m + 1 - m, g[m])
  BY <1>3, <1>4
<1> QED
  BY <1>2, <1>4, <1>5

\* In any registry, cyclic ones included.
LEMMA RegistryInherits == IsRegistry(classes) => Cls!InheritsNearest
<1> SUFFICES ASSUME IsRegistry(classes), NEW n \in Cls!Registered
             PROVE  LET chain == Cls!Chain(n)
                        props == Cls!Resolve(n)
                    IN
                    /\ \A k \in DOMAIN props : \E m \in Elems(chain) :
                          Cls!Nearest(chain, k, m) /\ props[k] = classes[m].props[k]
                    /\ \A m \in Elems(chain) : DOMAIN classes[m].props \subseteq DOMAIN props
  BY DEF Cls!InheritsNearest, Cls!ToSet, Elems
<1> DEFINE chain == Cls!Chain(n)
           props == Cls!Resolve(n)
<1>1. n \in Cls!Names /\ chain \in Seq(Cls!Registered) /\ Len(chain) \in Nat
  <2>1. n \in Cls!Names
    BY DEF Cls!Registered
  <2>2. Ascent(n, chain)
    BY <2>1, ChainComplete
  <2> HIDE DEF chain
  <2>3. chain \in Seq(Cls!Registered)
    BY <2>2 DEF Ascent
  <2> QED
    BY <2>1, <2>3
<1>2. Gathered(chain, 1, props)
  BY <1>1, GatherNearest DEF Cls!Resolve
<1>3. \A j \in 1..Len(chain) : \A k \in j..Len(chain) : Cls!IsA(chain[j], chain[k])
  BY <1>1, ChainAbove
<1> HIDE DEF chain, props
<1>4. ASSUME NEW k \in DOMAIN props
      PROVE  \E m \in Elems(chain) : Cls!Nearest(chain, k, m) /\ props[k] = classes[m].props[k]
  <2>1. PICK j \in 1..Len(chain) : /\ k \in DOMAIN classes[chain[j]].props
                                   /\ props[k] = classes[chain[j]].props[k]
                                   /\ \A i \in 1..(j - 1) : k \notin DOMAIN classes[chain[i]].props
    BY <1>2 DEF Gathered
  <2>2. ASSUME NEW i \in 1..Len(chain), k \in DOMAIN classes[chain[i]].props
        PROVE  Cls!IsA(chain[j], chain[i])
    <3>1. i \in j..Len(chain)
      BY <1>1, <2>1, <2>2
    <3> QED
      BY <1>3, <3>1
  <2>3. Cls!Nearest(chain, k, chain[j])
    BY <1>1, <2>1, <2>2 DEF Cls!Nearest, Cls!ToSet
  <2> QED
    BY <2>1, <2>3 DEF Elems
<1>5. ASSUME NEW m \in Elems(chain) PROVE DOMAIN classes[m].props \subseteq DOMAIN props
  BY <1>2 DEF Elems, Gathered
<1> QED
  BY <1>4, <1>5 DEF chain, props

\* The registry and its tables stay registries, and what is yet to be persisted
\* is a class.
ClassInv ==
    /\ IsRegistry(classes) /\ IsRegistry(table)
    /\ batches \subseteq [name : Cls!Names, def : ClassDef]
    /\ defines \in Nat

\* The base classes are finitely many, and so derive from one another.
LEMMA BaseIs ==
    /\ IsFiniteSet(Cls!Base)
    /\ \A n \in Cls!Base : Cls!Parent[n] \in Cls!Names \cup {None}
<1>1. Cls!Base = {"thing", "item", "living", "room", "region", "weapon", "armor", "container",
                  "player", "npc"}
  BY DEF Cls!Base, Cls!Parent
<1>2. IsFiniteSet(Cls!Base)
  <2> DEFINE names == <<"thing", "item", "living", "room", "region", "weapon", "armor",
                        "container", "player", "npc">>
             last == 10
  <2>1. names \in Surjection(1..last, Cls!Base) /\ last \in Int
    BY <1>1 DEF Surjection
  <2> HIDE DEF names, last
  <2>2. IsFiniteSet(1..last)
    BY <2>1, FS_Interval
  <2> QED
    BY <2>1, <2>2, FS_Surjection
<1>3. \A n \in Cls!Base : Cls!Parent[n] \in {None, "thing", "item", "living"}
  BY <1>1 DEF Cls!Parent
<1> QED
  BY <1>1, <1>2, <1>3 DEF Cls!Names

\* They are a registry,
LEMMA BaseClassesIs == IsRegistry(Cls!BaseClasses)
<1>1. \A n \in Cls!Names : Cls!BaseClasses[n] \in ClassDef \cup {None}
  <2> SUFFICES ASSUME NEW n \in Cls!Names, n \notin Custom PROVE Cls!BaseClasses[n] \in ClassDef
    BY DEF Cls!BaseClasses
  <2> DEFINE ps == IF n = "thing" THEN [k \in Keys |-> 0] ELSE Cls!NoProps
  <2>1. n \in Cls!Base
    BY DEF Cls!Names
  <2>2. ps \in Props
    <3>1. [k \in Keys |-> 0] \in [Keys -> Nat] /\ Cls!NoProps \in [{} -> Nat]
      BY DEF Cls!NoProps
    <3> QED
      BY <3>1 DEF Props
  <2>3. Cls!BaseClasses[n] = [parent |-> Cls!Parent[n], props |-> ps]
    BY DEF Cls!BaseClasses
  <2> HIDE DEF ps
  <2> QED
    BY <2>1, <2>2, <2>3, BaseIs DEF ClassDef
<1>2. Cls!BaseClasses \in [Cls!Names -> ClassDef \cup {None}]
  BY <1>1 DEF Cls!BaseClasses
<1>3. {n \in Cls!Names : Cls!BaseClasses[n] # None} \in SUBSET Cls!Base
  BY DEF Cls!BaseClasses, Cls!Names
<1> QED
  BY <1>2, <1>3, BaseIs, FS_Subset DEF IsRegistry

\* and so is one in which a name gets a class.
LEMMA ClassWritten ==
    ASSUME NEW cs, IsRegistry(cs), NEW n \in Cls!Names, NEW def \in ClassDef
    PROVE  IsRegistry([cs EXCEPT ![n] = def])
<1> DEFINE ds == [cs EXCEPT ![n] = def]
           old == {m \in Cls!Names : cs[m] # None}
<1>1. ds \in [Cls!Names -> ClassDef \cup {None}]
  BY DEF IsRegistry
<1>2. {m \in Cls!Names : ds[m] # None} \in SUBSET (old \cup {n})
  BY DEF IsRegistry
<1>3. IsFiniteSet(old \cup {n})
  BY FS_AddElement DEF IsRegistry
<1> HIDE DEF ds, old
<1>4. IsRegistry(ds)
  BY <1>1, <1>2, <1>3, FS_Subset DEF IsRegistry
<1> QED
  BY <1>4 DEF ds

LEMMA ClassInvInit == Cls!Init => ClassInv
<1> SUFFICES ASSUME Cls!Init PROVE ClassInv
  OBVIOUS
<1> DEFINE none == [n \in Cls!Names |-> None]
<1>1. IsRegistry(none)
  <2>1. {n \in Cls!Names : none[n] # None} = {}
    OBVIOUS
  <2> QED
    BY <2>1, FS_EmptySet DEF IsRegistry
<1> QED
  BY <1>1, BaseClassesIs DEF Cls!Init, ClassInv

LEMMA ClassInvNext == ClassInv /\ [Cls!Next]_Cls!vars => ClassInv'
<1> SUFFICES ASSUME ClassInv, [Cls!Next]_Cls!vars PROVE ClassInv'
  OBVIOUS
<1>1. ASSUME NEW n \in InPlay, NEW p \in InPlay \cup {None}, NEW ks \in SUBSET Keys,
             Cls!Define(n, p, ks)
      PROVE  ClassInv'
  <2> DEFINE ps == [k \in ks |-> defines']
             def == [parent |-> p, props |-> ps]
  <2>1. defines' \in Nat /\ UNCHANGED table
    BY <1>1 DEF Cls!Define, ClassInv
  <2>2. ps \in Props
    BY <2>1 DEF Props
  <2>3. n \in Cls!Names /\ p \in Cls!Names \cup {None}
    BY ClassesAssumption
  <2> HIDE DEF ps
  <2>4. def \in ClassDef
    BY <2>2, <2>3 DEF ClassDef
  <2>5. /\ classes' = [classes EXCEPT ![n] = def]
        /\ batches' = batches \cup {[name |-> n, def |-> def]}
    BY <1>1 DEF Cls!Define, ps
  <2> HIDE DEF def
  <2>6. IsRegistry(classes')
    BY <2>3, <2>4, <2>5, ClassWritten DEF ClassInv
  <2> QED
    BY <2>1, <2>3, <2>4, <2>5, <2>6 DEF ClassInv
<1>2. ASSUME NEW b \in batches, Cls!Persist(b) PROVE ClassInv'
  <2>1. b.name \in Cls!Names /\ b.def \in ClassDef
    BY DEF ClassInv
  <2>2. IsRegistry(table')
    BY <1>2, <2>1, ClassWritten DEF ClassInv, Cls!Persist
  <2>3. UNCHANGED <<classes, defines>> /\ batches' \subseteq batches
    BY <1>2 DEF Cls!Persist
  <2> QED
    BY <2>2, <2>3 DEF ClassInv
<1>3. CASE (\E u \in Universes : Cls!CreateUniverse(u)) \/ UNCHANGED Cls!vars
  BY <1>3 DEF Cls!CreateUniverse, Cls!vars, ClassInv
<1>4. CASE Cls!Restart
  <2> DEFINE loaded == [n \in Cls!Names |-> IF n \in Cls!Base THEN Cls!BaseClasses[n] ELSE table[n]]
             Of(cs) == {n \in Cls!Names : cs[n] # None}
  <2>1. classes' = loaded /\ UNCHANGED <<table, defines>> /\ batches' = {}
    BY <1>4 DEF Cls!Restart
  <2>2. IsRegistry(table) /\ IsRegistry(Cls!BaseClasses)
    BY BaseClassesIs DEF ClassInv
  <2>3. loaded \in [Cls!Names -> ClassDef \cup {None}]
    BY <2>2 DEF IsRegistry
  <2>4. Of(loaded) \in SUBSET (Of(table) \cup Of(Cls!BaseClasses))
    OBVIOUS
  <2>5. IsFiniteSet(Of(table) \cup Of(Cls!BaseClasses))
    BY <2>2, FS_Union DEF IsRegistry
  <2> HIDE DEF loaded
  <2>6. IsFiniteSet(Of(loaded))
    <3> HIDE DEF Of
    <3> QED
      BY <2>4, <2>5, FS_Subset
  <2>7. IsRegistry(loaded)
    BY <2>3, <2>6 DEF IsRegistry
  <2> QED
    BY <2>1, <2>2, <2>7 DEF ClassInv
<1> QED
  BY <1>1, <1>2, <1>3, <1>4 DEF Cls!Next

LEMMA ClassInvariance == Cls!Spec => []ClassInv
  BY ClassInvInit, ClassInvNext, PTL DEF Cls!Spec

\* get_chain comes to the end of every ancestry that has one: it begins with
\* the class, goes from each to its parent, comes by none twice and stops only
\* where the next is not known, or has been met.
THEOREM ChainIsWhole ==
    Cls!Spec => [](\A n \in Cls!Registered :
                     Ascent(n, Cls!Chain(n)) /\ Cls!Onward(n, Cls!Chain(n)) = Cls!Chain(n))
<1> DEFINE Whole == \A n \in Cls!Registered :
                      Ascent(n, Cls!Chain(n)) /\ Cls!Onward(n, Cls!Chain(n)) = Cls!Chain(n)
<1>1. ClassInv => Whole
  BY ChainComplete DEF ClassInv, Cls!Registered
<1> QED
  BY <1>1, ClassInvariance, PTL

\* "child overrides parent", for any names, properties, definitions and restarts:
\* however classes are redefined under and over each other, resolve_properties
\* gives of each property what the nearest class that sets it says.
THEOREM ChildOverrides == Cls!Spec => []InheritsNearest
<1>1. ClassInv => InheritsNearest
  BY RegistryInherits DEF ClassInv, InheritsNearest
<1> QED
  BY <1>1, ClassInvariance, PTL
=============================================================================
