--------------------------- MODULE SessionsProofs ---------------------------
(***************************************************************************)
(* Proofs about Sessions, for any number of connections, rooms and items   *)
(* and every way to use the account.                                       *)
(***************************************************************************)
EXTENDS Sessions, TLAPS

\* The session map and the pending-disconnect map are each changed by several
\* tasks that do not check whose entry they change.
IInv == TypeOK /\ SessionAlive /\ Cancellable

USE SessionsAssumption DEF Place, Rows, Plans, NoSession, NoPlan, NoHand, NewRow, Player, Other,
                           hist

LEMMA InitInv == Init => IInv
<1> SUFFICES ASSUME Init PROVE IInv  OBVIOUS
<1>1. /\ NoHand \in [item : Items \cup {None}, to : Place \cup {Player}]
      /\ NoPlan \in Plans /\ NewRow \in Rows
      /\ NoSession \in [owner : Sockets \cup {None}, room : Place]
  OBVIOUS
<1> HIDE DEF NoHand, NoPlan, NewRow, Place, Rows, Plans
<1>2. ConnOK  BY <1>1 DEF Init, ConnOK, Place
<1>3. GraceOK  BY <1>1 DEF Init, GraceOK
<1>4. TypeOK  BY <1>1, <1>2, <1>3 DEF Init, TypeOK
<1> QED BY <1>4 DEF Init, IInv, SessionAlive, Cancellable

\* Every step keeps the variables' types.
LEMMA TypeStep == TypeOK /\ [Next]_vars => TypeOK'
<1> SUFFICES ASSUME TypeOK, [Next]_vars PROVE TypeOK'
  OBVIOUS
<1>u. use' = use /\ ConnOK /\ GraceOK  BY DEF Next, vars, TypeOK
<1>c. ASSUME UNCHANGED conn PROVE ConnOK'  BY <1>u, <1>c DEF ConnOK, conn
<1>g. ASSUME UNCHANGED grace PROVE GraceOK'  BY <1>u, <1>g DEF GraceOK, grace
<1>r. ASSUME NEW s \in Sockets, Return(s) PROVE ConnOK'
  <2>1. None \in Place /\ NewRow \in Rows
        /\ NoHand \in [item : Items \cup {None}, to : Place \cup {Player}]
    OBVIOUS
  <2> HIDE DEF Place, Rows, NewRow, NoHand
  <2> QED BY <1>u, <1>r, <2>1 DEF Return, Step, ConnOK
<1>s. ASSUME NEW s \in Sockets, UNCHANGED <<dest, copy, hand>>,
             NEW label \in {"load", "create", "register", "move", "read", "write", "go",
                            "schedule", "closed"}, Step(s, label)
      PROVE  ConnOK'
  <2> HIDE DEF Place, Rows
  <2> QED BY <1>u, <1>s DEF ConnOK, Step
<1>d. ASSUME NEW s \in Sockets, UNCHANGED <<copy, hand>>, NEW r \in Place,
             dest' = [dest EXCEPT ![s] = r],
             NEW label \in {"create", "register", "go"}, Step(s, label)
      PROVE  ConnOK'
  <2> HIDE DEF Place, Rows
  <2> QED BY <1>u, <1>d DEF ConnOK, Step
<1>f. ASSUME NEW t \in Sockets, Finish(t), cut' = cut PROVE GraceOK'
  <2>1. NoPlan \in Plans  OBVIOUS
  <2> HIDE DEF NoPlan, Plans
  <2> QED BY <1>u, <1>f, <2>1 DEF Finish, GraceOK
<1>t. ASSUME NEW t \in Sockets, UNCHANGED <<plan, left>>, cut' \in [Sockets -> BOOLEAN],
             NEW label \in {"waiting", "due", "reading", "done"},
             task' = [task EXCEPT ![t] = label]
      PROVE  GraceOK'
  <2> HIDE DEF Plans
  <2> QED BY <1>u, <1>t DEF GraceOK
<1> USE <1>u DEF TypeOK
<1>1. ASSUME NEW s \in Sockets, SocketStep(s) PROVE TypeOK'
  <2>0. /\ pc[s] \in {"new", "load", "create", "register", "move", "read", "write",
                      "open", "go", "lua", "schedule", "closed"}
        /\ dest[s] \in Place /\ copy[s] \in Rows
        /\ hand[s] \in [item : Items \cup {None}, to : Place \cup {Player}]
        /\ pc[s] = "lua" => hand[s].item \in Items /\ hand[s].to # None
        /\ cut \in [Sockets -> BOOLEAN]
    BY DEF ConnOK, GraceOK
  <2>1. CASE LoadPlayer(s)
    <3>1. SpawnRoom(row) \in Place  BY DEF SpawnRoom
    <3>2. copy' = [copy EXCEPT ![s] = row]  BY <2>1 DEF LoadPlayer
    <3> HIDE DEF Place, Rows
    <3>3. ConnOK'  BY <2>1, <3>1, <3>2 DEF LoadPlayer, ConnOK, Step
    <3> QED BY <2>1, <3>3, <1>g DEF LoadPlayer
  <2>2. CASE CreatePlayer(s)
    <3>1. [row EXCEPT !.exists = TRUE] \in Rows  OBVIOUS
    <3>2. (IF row.exists THEN None ELSE Portal) \in Place  OBVIOUS
    <3> HIDE DEF Rows, Place
    <3>3. ConnOK'  BY <2>2, <3>2, <1>d DEF CreatePlayer
    <3> QED BY <2>2, <3>1, <3>3, <1>g DEF CreatePlayer
  <2>3. CASE Register(s)
    <3>1. session' \in [owner : Sockets \cup {None}, room : Place]
      BY <2>0, <2>3 DEF Register
    <3> HIDE DEF Rows, Place
    <3>2. ConnOK'  BY <2>3, <1>r, <1>s DEF Register
    <3> QED BY <2>3, <3>1, <3>2, <1>g DEF Register
  <2>4. CASE MoveObject(s)
    <3>1. [row EXCEPT !.where = dest[s]] \in Rows  BY <2>0
    <3> HIDE DEF Rows, Place
    <3>2. ConnOK'  BY <2>4, <1>r, <1>s DEF MoveObject
    <3> QED BY <2>4, <3>1, <3>2, <1>g DEF MoveObject
  <2>5. CASE MoveFails(s)
    <3> HIDE DEF Rows, Place
    <3> QED BY <2>5, <1>r, <1>g DEF MoveFails
  <2>6. CASE GiveUp(s)
    <3> HIDE DEF Rows, Place
    <3> QED BY <2>6, <1>r, <1>g DEF GiveUp
  <2>7. CASE LoadFails(s)
    <3>1. None \in Place  OBVIOUS
    <3> HIDE DEF Rows, Place
    <3> QED BY <2>7, <3>1, <1>d, <1>g DEF LoadFails
  <2>8. CASE ReadRow(s)
    <3> HIDE DEF Rows, Place
    <3>1. ConnOK'  BY <2>8 DEF ReadRow, ConnOK, Step
    <3> QED BY <2>8, <3>1, <1>g DEF ReadRow
  <2>9. CASE WriteRow(s)
    <3>1. [copy[s] EXCEPT !.safe = dest[s]] \in Rows  BY <2>0
    <3> HIDE DEF Rows, Place
    <3> QED BY <2>9, <3>1, <1>r, <1>g DEF WriteRow
  <2>10. CASE UpdateRoom(s)
    <3>1. session' \in [owner : Sockets \cup {None}, room : Place]
      BY <2>0, <2>10 DEF UpdateRoom
    <3> HIDE DEF Rows, Place
    <3> QED BY <2>10, <3>1, <1>s, <1>g DEF UpdateRoom
  <2>11. CASE MoveItem(s)
    <3>1. itemAt' \in [Items -> Rooms \cup {Player, Other}]  BY <2>0, <2>11 DEF MoveItem
    <3> HIDE DEF Rows, Place
    <3> QED BY <2>11, <3>1, <1>r, <1>g DEF MoveItem
  <2>12. CASE Schedule(s)
    <3> HIDE DEF Rows, Place
    <3>1. ConnOK' /\ GraceOK'  BY <2>12, <1>s, <1>t DEF Schedule
    <3> QED BY <2>12, <3>1 DEF Schedule
  <2> QED BY <1>1, <2>1, <2>2, <2>3, <2>4, <2>5, <2>6, <2>7, <2>8, <2>9, <2>10, <2>11, <2>12
          DEF SocketStep
<1>2. ASSUME NEW s \in Sockets, ClientStep(s) PROVE TypeOK'
  <2>1. CASE Connect(s)
    <3> HIDE DEF Rows, Place
    <3>1. ConnOK'  BY <2>1, <1>s DEF Connect
    <3>2. GraceOK'  BY <2>1 DEF Connect, GraceOK
    <3> QED BY <2>1, <3>1, <3>2 DEF Connect
  <2>2. CASE Close(s)
    <3>1. NoSession \in [owner : Sockets \cup {None}, room : Place]  OBVIOUS
    <3> HIDE DEF Rows, Place, NoSession
    <3> QED BY <2>2, <3>1, <1>s, <1>g DEF Close
  <2>3. ASSUME NEW r \in Rooms, Go(s, r) PROVE TypeOK'
    <3>1. r \in Place  OBVIOUS
    <3> HIDE DEF Rows, Place
    <3> QED BY <2>3, <3>1, <1>d, <1>g DEF Go
  <2>4. ASSUME NEW r \in Rooms, Teleport(s, r) PROVE TypeOK'
    <3>1. session' \in [owner : Sockets \cup {None}, room : Place]
      BY <2>4 DEF Teleport
    <3> HIDE DEF Rows, Place
    <3> QED BY <2>4, <3>1, <1>c, <1>g DEF Teleport
  <2>5. ASSUME NEW i \in Items, FindItem(s, i) PROVE TypeOK'
    <3>1. PICK to \in Rooms \cup {Player} : hand' = [hand EXCEPT ![s] = [item |-> i, to |-> to]]
      BY <2>5 DEF FindItem
    <3>2. /\ [item |-> i, to |-> to] \in [item : Items \cup {None}, to : Place \cup {Player}]
          /\ to # None
      OBVIOUS
    <3> HIDE DEF Rows, Place
    <3>3. ConnOK'  BY <2>5, <3>1, <3>2 DEF FindItem, ConnOK, Step
    <3> QED BY <2>5, <3>3, <1>g DEF FindItem
  <2> QED BY <1>2, <2>1, <2>2, <2>3, <2>4, <2>5 DEF ClientStep
<1>3. ASSUME NEW t \in Sockets, TaskStep(t) PROVE TypeOK'
  <2>c. UNCHANGED conn => ConnOK'  BY <1>c
  <2>0. cut \in [Sockets -> BOOLEAN] /\ plan[t] \in Plans  BY DEF GraceOK
  <2>1. CASE GraceOver(t)  BY <2>1, <2>0, <2>c, <1>t DEF GraceOver
  <2>2. CASE GraceCancelled(t)  BY <2>2, <2>0, <2>c, <1>t DEF GraceCancelled
  <2>3. CASE Expire(t)
    <3>1. cut' \in [Sockets -> BOOLEAN]  BY <2>0, <2>3 DEF Expire
    <3> QED BY <2>3, <3>1, <2>c, <1>t DEF Expire
  <2>4. CASE ReadPlayer(t)
    <3>1. CASE Finish(t)  BY <2>4, <3>1, <2>c, <1>f DEF ReadPlayer
    <3>2. CASE ~Finish(t)
      <4> DEFINE seen == [room |-> row.where, home |-> row.safe]
      <4>1. /\ plan' = [plan EXCEPT ![t] = seen]
            /\ task' = [task EXCEPT ![t] = "listing"]
            /\ left' = left /\ row.where \notin SafeRooms \cup {None}
        BY <2>4, <3>2 DEF ReadPlayer
      <4>2. seen \in Plans /\ seen.room \in Rooms  BY <4>1
      <4>3. cut' = cut  BY <2>4 DEF ReadPlayer
      <4> HIDE DEF Rows, Place, Plans, seen
      <4>4. GraceOK'  BY <4>1, <4>2, <4>3 DEF GraceOK
      <4> QED BY <2>4, <4>4, <2>c DEF ReadPlayer
    <3> QED BY <3>1, <3>2
  <2>5. CASE ListItems(t)
    <3> HIDE DEF Rows, Place, Plans
    <3>1. GraceOK'  BY <2>5 DEF ListItems, GraceOK
    <3> QED BY <2>5, <3>1, <2>c DEF ListItems
  <2>6. CASE DropItem(t)
    <3>1. PICK i \in left[t] :
            /\ itemAt' = [itemAt EXCEPT ![i] = plan[t].room]
            /\ left' = [left EXCEPT ![t] = @ \ {i}]
      BY <2>6 DEF DropItem
    <3>2. plan[t].room \in Rooms  BY <2>6 DEF DropItem, GraceOK
    <3>3. itemAt' \in [Items -> Rooms \cup {Player, Other}]  BY <3>1, <3>2
    <3> HIDE DEF Rows, Place, Plans
    <3>4. GraceOK'  BY <2>6, <3>1 DEF DropItem, GraceOK
    <3> QED BY <2>6, <3>3, <3>4, <2>c DEF DropItem
  <2>7. CASE MoveHome(t)
    <3>1. [row EXCEPT !.where = plan[t].home] \in Rows  BY <2>0
    <3> HIDE DEF Rows, Place, Plans
    <3> QED BY <2>7, <3>1, <2>c, <1>f DEF MoveHome
  <2>8. CASE DisconnectFails(t)
    <3> HIDE DEF Rows, Place, Plans
    <3> QED BY <2>8, <2>c, <1>f DEF DisconnectFails
  <2> QED BY <1>3, <2>1, <2>2, <2>3, <2>4, <2>5, <2>6, <2>7, <2>8 DEF TaskStep
<1>4. ASSUME NEW i \in Items, OtherMoves(i) PROVE TypeOK'
  <2>1. PICK p \in Rooms \cup {Other} : itemAt' = [itemAt EXCEPT ![i] = p]
    BY <1>4 DEF OtherMoves
  <2>2. itemAt' \in [Items -> Rooms \cup {Player, Other}]  BY <2>1
  <2> HIDE DEF Rows, Place
  <2> QED BY <1>4, <2>2, <1>c, <1>g DEF OtherMoves
<1>5. CASE UNCHANGED vars
  <2> HIDE DEF Rows, Place
  <2> QED BY <1>5, <1>c, <1>g DEF vars
<1> QED BY <1>1, <1>2, <1>3, <1>4, <1>5 DEF Next

StaysLive == pc'[session'.owner] \notin {"new", "schedule", "closed"}

LEMMA AliveStep == TypeOK /\ SessionAlive /\ [Next]_vars => SessionAlive'
<1> SUFFICES ASSUME TypeOK, SessionAlive, [Next]_vars, session'.owner # None
             PROVE  StaysLive
  BY DEF SessionAlive, Live, StaysLive
<1> USE DEF TypeOK, ConnOK, GraceOK, SessionAlive, Live, StaysLive, conn, grace, Step, Return
<1>1. ASSUME NEW s \in Sockets, SocketStep(s) PROVE StaysLive
  <2>1. CASE LoadPlayer(s)  BY <2>1 DEF LoadPlayer
  <2>2. CASE CreatePlayer(s)  BY <2>2 DEF CreatePlayer
  <2>3. CASE Register(s)  BY <2>3 DEF Register
  <2>4. CASE MoveObject(s)  BY <2>4 DEF MoveObject
  <2>5. CASE ReadRow(s)  BY <2>5 DEF ReadRow
  <2>6. CASE WriteRow(s)  BY <2>6 DEF WriteRow
  <2>7. CASE UpdateRoom(s)
    <3>1. session'.owner = session.owner  BY <2>7 DEF UpdateRoom
    <3> QED BY <2>7, <3>1 DEF UpdateRoom
  <2>8. CASE MoveItem(s)  BY <2>8 DEF MoveItem
  <2>9. CASE Schedule(s)  BY <2>9 DEF Schedule
  <2>f. CASE LoadFails(s) \/ MoveFails(s) \/ GiveUp(s)
    BY <2>f DEF LoadFails, MoveFails, GiveUp
  <2> QED BY <1>1, <2>1, <2>2, <2>3, <2>4, <2>5, <2>6, <2>7, <2>8, <2>9, <2>f DEF SocketStep
<1>2. ASSUME NEW s \in Sockets, ClientStep(s) PROVE StaysLive
  <2>1. CASE Connect(s)  BY <2>1 DEF Connect
  <2>2. CASE Close(s)  BY <2>2 DEF Close
  <2>3. ASSUME NEW r \in Rooms, Go(s, r) PROVE StaysLive  BY <2>3 DEF Go
  <2>4. ASSUME NEW r \in Rooms, Teleport(s, r) PROVE StaysLive
    <3>1. session'.owner = session.owner  BY <2>4 DEF Teleport
    <3> QED BY <2>4, <3>1 DEF Teleport
  <2>5. ASSUME NEW i \in Items, FindItem(s, i) PROVE StaysLive
    BY <2>5 DEF FindItem
  <2> QED BY <1>2, <2>1, <2>2, <2>3, <2>4, <2>5 DEF ClientStep
<1>3. ASSUME NEW t \in Sockets, TaskStep(t) PROVE StaysLive
  <2>1. UNCHANGED <<pc, session>>
    BY <1>3 DEF TaskStep, GraceOver, GraceCancelled, Expire, ReadPlayer,
                ListItems, DropItem, MoveHome, DisconnectFails
  <2> QED BY <2>1
<1>4. ASSUME NEW i \in Items, OtherMoves(i) PROVE StaysLive
  <2>1. UNCHANGED <<pc, session>>  BY <1>4 DEF OtherMoves
  <2> QED BY <2>1
<1>5. CASE UNCHANGED vars  BY <1>5 DEF vars
<1> QED BY <1>1, <1>2, <1>3, <1>4, <1>5 DEF Next

LEMMA CancellableStep == TypeOK /\ Cancellable /\ [Next]_vars => Cancellable'
<1> SUFFICES ASSUME TypeOK, Cancellable, [Next]_vars,
                    NEW u \in Sockets, task'[u] = "waiting", ~cut'[u]
             PROVE  pending' = u
  BY DEF Cancellable
<1> USE DEF TypeOK, ConnOK, GraceOK, Cancellable, conn, grace
<1>a. CASE UNCHANGED <<task, cut, pending>>  BY <1>a
<1>1. ASSUME NEW s \in Sockets, SocketStep(s) PROVE pending' = u
  <2>1. CASE Schedule(s)  BY <2>1 DEF Schedule
  <2>2. CASE ~Schedule(s)
    <3>1. UNCHANGED <<task, cut, pending>>
      BY <1>1, <2>2 DEF SocketStep, LoadPlayer, CreatePlayer, Register, MoveObject,
                        ReadRow, WriteRow, UpdateRoom, MoveItem, LoadFails, MoveFails, GiveUp
    <3> QED BY <3>1, <1>a
  <2> QED BY <2>1, <2>2
<1>2. ASSUME NEW s \in Sockets, ClientStep(s) PROVE pending' = u
  <2>1. CASE Connect(s)  BY <2>1 DEF Connect
  <2>2. CASE ~Connect(s)
    <3>1. UNCHANGED <<task, cut, pending>>
      BY <1>2, <2>2 DEF ClientStep, Close, Go, Teleport, FindItem
    <3> QED BY <3>1, <1>a
  <2> QED BY <2>1, <2>2
<1>3. ASSUME NEW t \in Sockets, TaskStep(t) PROVE pending' = u
  <2>1. CASE GraceOver(t)  BY <2>1 DEF GraceOver
  <2>2. CASE GraceCancelled(t)  BY <2>2 DEF GraceCancelled
  <2>3. CASE Expire(t)
    <3>1. cut' = [w \in Sockets |-> cut[w] \/ w = pending]
      BY <2>3 DEF Expire
    <3>2. ~cut[u] /\ u # pending  BY <3>1
    <3>3. task[u] = "waiting"  BY <2>3 DEF Expire
    <3> QED BY <3>2, <3>3
  <2>4. CASE ReadPlayer(t)  BY <2>4 DEF ReadPlayer, Finish
  <2>5. CASE ListItems(t)  BY <2>5 DEF ListItems
  <2>6. CASE DropItem(t)  BY <2>6, <1>a DEF DropItem
  <2>7. CASE MoveHome(t)  BY <2>7 DEF MoveHome, Finish
  <2>8. CASE DisconnectFails(t)  BY <2>8 DEF DisconnectFails, Finish
  <2> QED BY <1>3, <2>1, <2>2, <2>3, <2>4, <2>5, <2>6, <2>7, <2>8 DEF TaskStep
<1>4. ASSUME NEW i \in Items, OtherMoves(i) PROVE pending' = u
  <2>1. UNCHANGED <<task, cut, pending>>  BY <1>4 DEF OtherMoves
  <2> QED BY <2>1, <1>a
<1>5. CASE UNCHANGED vars  BY <1>5, <1>a DEF vars
<1> QED BY <1>1, <1>2, <1>3, <1>4, <1>5 DEF Next

\* handle_socket and the grace tasks keep IInv, in whatever order they run.
THEOREM Invariance == Spec => []IInv
<1>1. IInv /\ [Next]_vars => IInv'
  BY TypeStep, AliveStep, CancellableStep DEF IInv
<1> QED BY InitInv, <1>1, PTL DEF Spec

\* Messages never go to a connection that has ended: register, update_room
\* and unregister act on the map entry of any connection of the account, and
\* still no entry outlives the connection it belongs to.
THEOREM SessionsAlive == Spec => []SessionAlive
<1>1. IInv => SessionAlive  BY DEF IInv
<1> QED BY Invariance, <1>1, PTL

\* A reconnection finds the one countdown that is running: no task of the
\* account counts down outside pending_disconnects.
THEOREM CountdownCancellable == Spec => []Cancellable
<1>1. IInv => Cancellable  BY DEF IInv
<1> QED BY Invariance, <1>1, PTL

\* The variables keep their types.
THEOREM TypeCorrect == Spec => []TypeOK
<1>1. IInv => TypeOK  BY DEF IInv
<1> QED BY Invariance, <1>1, PTL

----------------------------------------------------------------------------
\* An account that connects one time after the other.

Busy(s) == pc[s] \notin {"new", "closed"}

\* At most one connection or one overdue task is at work, and whatever counts
\* down beside it has been cancelled.
OneAtATime ==
    \A s, t \in Sockets :
        /\ Busy(s) /\ s # t => ~Busy(t)
        /\ Busy(s) => ~Overdue(t) /\ (task[t] = "waiting" => cut[t])
        /\ Overdue(s) /\ s # t => ~Overdue(t) /\ (task[t] = "waiting" => cut[t])

\* What a task has still to drop is in the player's hands.
Carried == \A t \in Sockets : task[t] = "dropping" => \A i \in left[t] : itemAt[i] = Player

\* The session is the connection's, and follows it from step to step.
Located ==
    \A s \in Sockets :
        /\ pc[s] \in {"move", "read", "write", "open", "go", "lua"} => session.owner = s
        /\ pc[s] \in {"move", "read", "write"} => session.room = dest[s]
        /\ pc[s] \in {"read", "write"} => row.where = dest[s]
        /\ pc[s] = "write" => copy[s].where = dest[s]
        /\ pc[s] \in {"open", "lua"} => astray \/ session.room \in {None, row.where}

InTurnInv ==
    /\ IInv
    /\ use.reconnect = "sequential" => OneAtATime /\ Carried
    /\ use.reconnect = "sequential" /\ ~use.goto => Located

LEMMA InitInTurn == Init => InTurnInv
<1> SUFFICES ASSUME Init PROVE InTurnInv  OBVIOUS
<1>1. IInv  BY InitInv
<1>2. OneAtATime /\ Carried /\ Located
  BY DEF Init, OneAtATime, Carried, Located, Busy, Overdue
<1> QED BY <1>1, <1>2 DEF InTurnInv

\* A second connection is made only when nobody is at work, which leaves the
\* countdown it cancels; a grace period ends only when nobody is connected.
LEMMA OneStep ==
  ASSUME TypeOK, Cancellable, OneAtATime, use.reconnect = "sequential", [Next]_vars
  PROVE  OneAtATime'
<1> DEFINE Apart(u, v) ==
             /\ pc'[u] \notin {"new", "closed"} /\ u # v => pc'[v] \in {"new", "closed"}
             /\ pc'[u] \notin {"new", "closed"} =>
                  /\ task'[v] \notin {"due", "reading", "listing", "dropping"}
                  /\ task'[v] = "waiting" => cut'[v]
             /\ task'[u] \in {"due", "reading", "listing", "dropping"} /\ u # v =>
                  /\ task'[v] \notin {"due", "reading", "listing", "dropping"}
                  /\ task'[v] = "waiting" => cut'[v]
<1> SUFFICES ASSUME NEW u \in Sockets, NEW v \in Sockets PROVE Apart(u, v)
  BY DEF OneAtATime, Busy, Overdue
<1> USE DEF TypeOK, ConnOK, GraceOK, OneAtATime, Busy, Overdue, conn, grace, Step, Return
<1>a. ASSUME UNCHANGED <<task, cut>>, NEW s \in Sockets, Busy(s), NEW label,
             pc' = [pc EXCEPT ![s] = label]
      PROVE  Apart(u, v)
  <2>1. \A t \in Sockets : pc'[t] \notin {"new", "closed"} => t = s
    BY <1>a
  <2> QED BY <2>1, <1>a
<1>b. CASE UNCHANGED <<task, cut, pc>>  BY <1>b
<1>1. ASSUME NEW s \in Sockets, SocketStep(s) PROVE Apart(u, v)
  <2>1. CASE LoadPlayer(s)  BY <2>1, <1>a DEF LoadPlayer
  <2>2. CASE CreatePlayer(s)  BY <2>2, <1>a DEF CreatePlayer
  <2>3. CASE Register(s)
    <3>1. UNCHANGED grace /\ Busy(s) /\ (Step(s, "open") \/ Step(s, "move"))
      BY <2>3 DEF Register
    <3> QED BY <3>1, <1>a
  <2>4. CASE MoveObject(s)
    <3>1. UNCHANGED grace /\ Busy(s) /\ (Step(s, "open") \/ Step(s, "read"))
      BY <2>4 DEF MoveObject
    <3> QED BY <3>1, <1>a
  <2>5. CASE ReadRow(s)  BY <2>5, <1>a DEF ReadRow
  <2>6. CASE WriteRow(s)  BY <2>6, <1>a DEF WriteRow
  <2>7. CASE UpdateRoom(s)  BY <2>7, <1>a DEF UpdateRoom
  <2>8. CASE MoveItem(s)  BY <2>8, <1>a DEF MoveItem
  <2>9. CASE Schedule(s)
    <3>0. /\ pc[s] = "schedule" /\ pc' = [pc EXCEPT ![s] = "closed"]
          /\ task' = [task EXCEPT ![s] = "waiting"]
      BY <2>9 DEF Schedule
    <3>1. ASSUME NEW t \in Sockets
          PROVE  /\ pc'[t] \in {"new", "closed"}
                 /\ task'[t] \notin {"due", "reading", "listing", "dropping"}
      <4>1. CASE t = s  BY <3>0, <4>1
      <4>2. CASE t # s
        <5>1. Busy(s)  BY <3>0
        <5>2. ~Busy(t) /\ ~Overdue(t)  BY <5>1, <4>2
        <5>3. pc'[t] = pc[t] /\ task'[t] = task[t]  BY <3>0, <4>2
        <5> QED BY <5>2, <5>3
      <4> QED BY <4>1, <4>2
    <3> QED BY <3>1
  <2>f. CASE LoadFails(s) \/ MoveFails(s) \/ GiveUp(s)
    <3>1. UNCHANGED grace /\ Busy(s) /\ (Step(s, "open") \/ Step(s, "register"))
      BY <2>f DEF LoadFails, MoveFails, GiveUp
    <3> QED BY <3>1, <1>a
  <2> QED BY <1>1, <2>1, <2>2, <2>3, <2>4, <2>5, <2>6, <2>7, <2>8, <2>9, <2>f DEF SocketStep
<1>2. ASSUME NEW s \in Sockets, ClientStep(s) PROVE Apart(u, v)
  <2>1. CASE Connect(s)
    <3>1. \A t \in Sockets : ~Overdue(t) /\ pc[t] \in {"new", "closed"}
      BY <2>1 DEF Connect, MayConnect
    <3>2. \A t \in Sockets : task[t] = "waiting" => cut[t] \/ t = pending
      BY DEF Cancellable
    <3>3. \A t \in Sockets : /\ task'[t] = "waiting" => cut'[t]
                             /\ task'[t] \notin {"due", "reading", "listing", "dropping"}
      BY <2>1, <3>1, <3>2 DEF Connect
    <3>4. \A t \in Sockets : pc'[t] \notin {"new", "closed"} => t = s
      BY <2>1, <3>1 DEF Connect
    <3> QED BY <3>3, <3>4
  <2>2. CASE Close(s)  BY <2>2, <1>a DEF Close
  <2>3. ASSUME NEW r \in Rooms, Go(s, r) PROVE Apart(u, v)  BY <2>3, <1>a DEF Go
  <2>4. ASSUME NEW r \in Rooms, Teleport(s, r) PROVE Apart(u, v)
    BY <2>4, <1>b DEF Teleport
  <2>5. ASSUME NEW i \in Items, FindItem(s, i) PROVE Apart(u, v)
    BY <2>5, <1>a DEF FindItem
  <2> QED BY <1>2, <2>1, <2>2, <2>3, <2>4, <2>5 DEF ClientStep
<1>3. ASSUME NEW t \in Sockets, TaskStep(t) PROVE Apart(u, v)
  <2>0. pc' = pc
    BY <1>3 DEF TaskStep, GraceOver, GraceCancelled, Expire, ReadPlayer,
                ListItems, DropItem, MoveHome, DisconnectFails
  <2>a. ASSUME Overdue(t), NEW label, task' = [task EXCEPT ![t] = label],
               \A w \in Sockets : cut[w] => cut'[w]
        PROVE  Apart(u, v)
    <3>1. \A w \in Sockets : pc'[w] \in {"new", "closed"}  BY <2>0, <2>a
    <3> QED BY <3>1, <2>a
  <2>1. CASE GraceOver(t)
    <3>1. \A w \in Sockets : task[w] = "waiting" /\ w # t => cut[w]
      BY <2>1 DEF GraceOver, Cancellable
    <3>2. \A w \in Sockets : pc'[w] \in {"new", "closed"} /\ ~Overdue(w)
      BY <2>1, <2>0 DEF GraceOver
    <3> QED BY <2>1, <3>1, <3>2 DEF GraceOver
  <2>2. CASE GraceCancelled(t)  BY <2>2, <2>0 DEF GraceCancelled
  <2>3. CASE Expire(t)  BY <2>3, <2>a DEF Expire
  <2>4. CASE ReadPlayer(t)  BY <2>4, <2>a DEF ReadPlayer, Finish
  <2>5. CASE ListItems(t)  BY <2>5, <2>a DEF ListItems
  <2>6. CASE DropItem(t)  BY <2>6, <1>b DEF DropItem
  <2>7. CASE MoveHome(t)  BY <2>7, <2>a DEF MoveHome, Finish
  <2>8. CASE DisconnectFails(t)  BY <2>8, <2>a DEF DisconnectFails, Finish
  <2> QED BY <1>3, <2>1, <2>2, <2>3, <2>4, <2>5, <2>6, <2>7, <2>8 DEF TaskStep
<1>4. ASSUME NEW i \in Items, OtherMoves(i) PROVE Apart(u, v)
  BY <1>4, <1>b DEF OtherMoves
<1>5. CASE UNCHANGED vars  BY <1>5, <1>b DEF vars
<1> QED BY <1>1, <1>2, <1>3, <1>4, <1>5 DEF Next

\* Only the player's own connection puts an item down while a task drops
\* them, and there is none.
LEMMA CarriedStep ==
  ASSUME TypeOK, OneAtATime, Carried, [Next]_vars
  PROVE  Carried'
<1> SUFFICES ASSUME NEW u \in Sockets, task'[u] = "dropping", NEW i \in left'[u]
             PROVE  itemAt'[i] = Player
  BY DEF Carried
<1> USE DEF TypeOK, ConnOK, GraceOK, Carried, conn, grace
<1>a. CASE UNCHANGED <<task, left, itemAt>>  BY <1>a
<1>1. ASSUME NEW s \in Sockets, SocketStep(s) PROVE itemAt'[i] = Player
  <2>1. CASE MoveItem(s)
    <3>1. task[u] = "dropping" /\ pc[s] = "lua"  BY <2>1 DEF MoveItem
    <3>2. Busy(s) /\ Overdue(u)  BY <3>1 DEF Busy, Overdue
    <3> QED BY <3>2 DEF OneAtATime
  <2>2. CASE Schedule(s)
    <3>1. task[u] = "dropping" /\ left'[u] = left[u] /\ itemAt' = itemAt
      BY <2>2 DEF Schedule
    <3> QED BY <3>1
  <2>3. CASE ~MoveItem(s) /\ ~Schedule(s)
    <3>1. UNCHANGED <<task, left, itemAt>>
      BY <1>1, <2>3 DEF SocketStep, LoadPlayer, CreatePlayer, Register, MoveObject,
                        ReadRow, WriteRow, UpdateRoom, LoadFails, MoveFails, GiveUp
    <3> QED BY <3>1, <1>a
  <2> QED BY <2>1, <2>2, <2>3
<1>2. ASSUME NEW s \in Sockets, ClientStep(s) PROVE itemAt'[i] = Player
  <2>1. UNCHANGED <<task, left, itemAt>>
    BY <1>2 DEF ClientStep, Connect, Close, Go, Teleport, FindItem
  <2> QED BY <2>1, <1>a
<1>3. ASSUME NEW t \in Sockets, TaskStep(t) PROVE itemAt'[i] = Player
  <2>1. CASE ListItems(t)
    <3>1. CASE u = t  BY <2>1, <3>1 DEF ListItems
    <3>2. CASE u # t  BY <2>1, <3>2 DEF ListItems
    <3> QED BY <3>1, <3>2
  <2>2. CASE DropItem(t)
    <3>1. PICK j \in left[t] : /\ itemAt' = [itemAt EXCEPT ![j] = plan[t].room]
                               /\ left' = [left EXCEPT ![t] = @ \ {j}]
      BY <2>2 DEF DropItem
    <3>2. u = t  BY <2>2 DEF DropItem, OneAtATime, Overdue
    <3>3. i \in left[t] /\ i # j  BY <3>1, <3>2
    <3>4. itemAt'[i] = itemAt[i]  BY <3>1, <3>3
    <3> QED BY <2>2, <3>2, <3>3, <3>4 DEF DropItem
  <2>3. CASE ~ListItems(t) /\ ~DropItem(t)
    <3>1. itemAt' = itemAt /\ task[u] = "dropping" /\ left'[u] = left[u]
      BY <1>3, <2>3 DEF TaskStep, GraceOver, GraceCancelled, Expire, ReadPlayer, MoveHome,
                        DisconnectFails, Finish
    <3> QED BY <3>1
  <2> QED BY <2>1, <2>2, <2>3
<1>4. ASSUME NEW j \in Items, OtherMoves(j) PROVE itemAt'[i] = Player
  <2>1. itemAt[i] = Player /\ i \in Items  BY <1>4 DEF OtherMoves
  <2>2. PICK p : itemAt' = [itemAt EXCEPT ![j] = p] /\ itemAt[j] # Player
    BY <1>4 DEF OtherMoves
  <2> QED BY <2>1, <2>2
<1>5. CASE UNCHANGED vars  BY <1>5, <1>a DEF vars
<1> QED BY <1>1, <1>2, <1>3, <1>4, <1>5 DEF Next
\* Without goto the session follows the one connection at work; nothing else
\* writes the player's row, for no task is overdue beside it.
LEMMA LocatedStep ==
  ASSUME TypeOK, OneAtATime, Located, [Next]_vars,
         use.reconnect = "sequential", ~use.goto
  PROVE  Located'
<1> DEFINE Follows(u) ==
             /\ pc'[u] \in {"move", "read", "write", "open", "go", "lua"} =>
                  session'.owner = u
             /\ pc'[u] \in {"move", "read", "write"} => session'.room = dest'[u]
             /\ pc'[u] \in {"read", "write"} => row'.where = dest'[u]
             /\ pc'[u] = "write" => copy'[u].where = dest'[u]
             /\ pc'[u] \in {"open", "lua"} => astray' \/ session'.room \in {None, row'.where}
<1> SUFFICES ASSUME NEW u \in Sockets PROVE Follows(u)
  BY DEF Located
<1> USE DEF TypeOK, ConnOK, GraceOK, Located, conn, grace, Step, Return
<1>i. CASE pc'[u] \in {"new", "closed"}  BY <1>i
<1>a. CASE UNCHANGED <<conn, session, row, astray>>  BY <1>a
<1>o. ASSUME NEW s \in Sockets, Busy(s), NEW label, pc' = [pc EXCEPT ![s] = label], u # s
      PROVE  Follows(u)
  <2>1. pc'[u] = pc[u]  BY <1>o
  <2>2. pc[u] \in {"new", "closed"}  BY <1>o DEF OneAtATime, Busy
  <2> QED BY <2>1, <2>2
<1>1. ASSUME NEW s \in Sockets, SocketStep(s) PROVE Follows(u)
  <2>o. Busy(s)
    BY <1>1 DEF Busy, SocketStep, LoadPlayer, CreatePlayer, Register, MoveObject,
                ReadRow, WriteRow, UpdateRoom, MoveItem, Schedule, LoadFails, MoveFails, GiveUp
  <2>p. PICK label : pc' = [pc EXCEPT ![s] = label]
    BY <1>1 DEF SocketStep, LoadPlayer, CreatePlayer, Register, MoveObject,
                ReadRow, WriteRow, UpdateRoom, MoveItem, Schedule, LoadFails, MoveFails, GiveUp
  <2>q. CASE u # s  BY <2>o, <2>p, <2>q, <1>o
  <2>r. CASE u = s
    <3>1. CASE LoadPlayer(u)  BY <3>1 DEF LoadPlayer
    <3>2. CASE CreatePlayer(u)  BY <3>2 DEF CreatePlayer
    <3>3. CASE Register(u)  BY <3>3 DEF Register
    <3>4. CASE MoveObject(u)
      <4>1. row'.where = dest[u]  BY <3>4 DEF MoveObject
      <4> QED BY <3>4, <4>1 DEF MoveObject
    <3>5. CASE ReadRow(u)  BY <3>5 DEF ReadRow
    <3>6. CASE WriteRow(u)
      <4>1. row'.where = dest[u]  BY <3>6 DEF WriteRow
      <4> QED BY <3>6, <4>1 DEF WriteRow
    <3>7. CASE UpdateRoom(u)
      <4>1. session.owner = u /\ u # None  BY <3>7 DEF UpdateRoom
      <4>2. session' = [session EXCEPT !.room = dest[u]]  BY <3>7, <4>1 DEF UpdateRoom
      <4>3. session'.room = dest[u] /\ session'.owner = u  BY <4>1, <4>2
      <4> QED BY <3>7, <4>3 DEF UpdateRoom
    <3>8. CASE MoveItem(u)  BY <3>8 DEF MoveItem
    <3>9. CASE Schedule(u)  BY <3>9 DEF Schedule
    <3>l. CASE LoadFails(u) \/ MoveFails(u)  BY <3>l DEF LoadFails, MoveFails
    <3>g. CASE GiveUp(u)  BY <3>g DEF GiveUp
    <3> QED BY <1>1, <2>r, <3>1, <3>2, <3>3, <3>4, <3>5, <3>6, <3>7, <3>8, <3>9, <3>l, <3>g
            DEF SocketStep
  <2> QED BY <2>q, <2>r
<1>2. ASSUME NEW s \in Sockets, ClientStep(s) PROVE Follows(u)
  <2>1. CASE Connect(s)
    <3>1. pc[u] \in {"new", "closed"}  BY <2>1 DEF Connect, MayConnect
    <3> QED BY <2>1, <3>1 DEF Connect
  <2>2. CASE Close(s)
    <3>1. Busy(s)  BY <2>2 DEF Close, Busy
    <3>2. CASE u = s  BY <2>2, <3>2 DEF Close
    <3> QED BY <2>2, <3>1, <3>2, <1>o DEF Close
  <2>3. ASSUME NEW r \in Rooms, Go(s, r) PROVE Follows(u)
    <3>1. Busy(s)  BY <2>3 DEF Go, Busy
    <3>2. CASE u = s  BY <2>3, <3>2 DEF Go
    <3> QED BY <2>3, <3>1, <3>2, <1>o DEF Go
  <2>4. ASSUME NEW r \in Rooms, Teleport(s, r) PROVE Follows(u)
    BY <2>4 DEF Teleport
  <2>5. ASSUME NEW i \in Items, FindItem(s, i) PROVE Follows(u)
    <3>1. Busy(s)  BY <2>5 DEF FindItem, Busy
    <3>2. CASE u = s  BY <2>5, <3>2 DEF FindItem
    <3> QED BY <2>5, <3>1, <3>2, <1>o DEF FindItem
  <2> QED BY <1>2, <2>1, <2>2, <2>3, <2>4, <2>5 DEF ClientStep
<1>3. ASSUME NEW t \in Sockets, TaskStep(t) PROVE Follows(u)
  <2>1. CASE MoveHome(t)
    <3>1. Overdue(t)  BY <2>1 DEF MoveHome, Overdue
    <3>2. pc[u] \in {"new", "closed"}  BY <3>1 DEF OneAtATime, Busy
    <3> QED BY <2>1, <3>2 DEF MoveHome
  <2>2. CASE ~MoveHome(t)
    <3>1. UNCHANGED <<conn, session, row, astray>>
      BY <1>3, <2>2 DEF TaskStep, GraceOver, GraceCancelled, Expire, ReadPlayer,
                        ListItems, DropItem, DisconnectFails
    <3> QED BY <3>1, <1>a
  <2> QED BY <2>1, <2>2
<1>4. ASSUME NEW i \in Items, OtherMoves(i) PROVE Follows(u)
  <2>1. UNCHANGED <<conn, session, row, astray>>  BY <1>4 DEF OtherMoves
  <2> QED BY <2>1, <1>a
<1>5. CASE UNCHANGED vars  BY <1>5, <1>a DEF vars
<1> QED BY <1>1, <1>2, <1>3, <1>4, <1>5 DEF Next

\* However the tasks of one connection after the other are scheduled, one is
\* at work at a time.
THEOREM InTurn == Spec => []InTurnInv
<1>1. InTurnInv /\ [Next]_vars => InTurnInv'
  <2> SUFFICES ASSUME InTurnInv, [Next]_vars PROVE InTurnInv'  OBVIOUS
  <2>1. use' = use  BY DEF Next, vars
  <2>2. TypeOK /\ SessionAlive /\ Cancellable  BY DEF InTurnInv, IInv
  <2>3. IInv'  BY <2>2, TypeStep, AliveStep, CancellableStep DEF IInv
  <2>4. use.reconnect = "sequential" => OneAtATime' /\ Carried'
    BY <2>2, OneStep, CarriedStep DEF InTurnInv
  <2>5. use.reconnect = "sequential" /\ ~use.goto => Located'
    BY <2>2, LocatedStep DEF InTurnInv
  <2> QED BY <2>1, <2>3, <2>4, <2>5 DEF InTurnInv
<1> QED BY InitInTurn, <1>1, PTL DEF Spec

\* register, update_room and move_player write the session's room and the
\* object's one after the other; when a command is waited for they agree, for
\* an account without goto that connects one time after the other, or the last
\* move_player failed.
THEOREM LocationsAgree == Spec => []LocationAgreesInTurn
<1>1. InTurnInv => LocationAgreesInTurn
  BY DEF InTurnInv, LocationAgreesInTurn, LocationAgrees, Located
<1> QED BY InTurn, <1>1, PTL

\* The grace period of such an account takes items from nobody who is
\* connected, and only what the absent player still has: the list made by
\* handle_disconnect is not out of date when the items are moved.
THEOREM NothingTakenInTurn == Spec => InventoryKeptInTurn
<1>1. InTurnInv /\ [Next]_vars =>
        [use.reconnect = "sequential" => DropsFromTheAbsent]_vars
  <2> SUFFICES ASSUME InTurnInv, use.reconnect = "sequential",
                      NEW t \in Sockets, NEW i \in Items, DropItem(t), itemAt'[i] # itemAt[i]
               PROVE  itemAt[i] = Player /\ \A s \in Sockets : pc[s] # "open"
    BY DEF DropsFromTheAbsent
  <2>1. TypeOK /\ OneAtATime /\ Carried  BY DEF InTurnInv, IInv
  <2>2. PICK j \in left[t] : itemAt' = [itemAt EXCEPT ![j] = plan[t].room]
    BY DEF DropItem
  <2>3. i = j /\ task[t] = "dropping"  BY <2>1, <2>2 DEF TypeOK, DropItem
  <2>4. itemAt[i] = Player  BY <2>1, <2>2, <2>3 DEF Carried
  <2>5. \A s \in Sockets : pc[s] # "open"
    BY <2>1, <2>3 DEF OneAtATime, Busy, Overdue
  <2> QED BY <2>4, <2>5
<1> QED BY InTurn, <1>1, PTL DEF Spec, InventoryKeptInTurn
=============================================================================
