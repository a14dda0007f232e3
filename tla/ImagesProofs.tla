--------------------------- MODULE ImagesProofs ---------------------------
(***************************************************************************)
(* Proofs about RateLimiter and Images.  RateLimiter implements            *)
(* TokenBucket, for every rate, size of the bucket and number of accounts: *)
(* a request is ahead of an exact bucket by at most a rounding and a delay *)
(* between two readings of the clock, and the part of a token that is      *)
(* dropped is never gained.  And a room never shows a picture that is not  *)
(* stored: a task stores before it updates the room, and nothing removes a *)
(* picture.                                                                *)
(***************************************************************************)
EXTENDS Images, TLAPS

Levels == [a \in Accounts |-> Level(a)]

\* Whole tokens are no more parts than the bucket holds.
LEMMA Whole ==
    ASSUME NEW n \in 0..MaxTokens
    PROVE  n * Unit \in Nat /\ n * Unit <= MaxTokens * Unit /\ MaxTokens * Unit \in Nat
<1>1. n \in Nat /\ MaxTokens - n \in Nat /\ Unit \in Nat
  BY LimiterAssumption
<1>2. n * Unit \in Nat /\ (MaxTokens - n) * Unit \in Nat
  BY <1>1
<1>3. MaxTokens * Unit = n * Unit + (MaxTokens - n) * Unit
  BY <1>1, LimiterAssumption
<1>4. QED
  BY <1>2, <1>3

LEMMA PartsType == ASSUME LimiterTypeOK, NEW a \in Accounts PROVE Parts(a) \in Nat
<1>1. CASE buckets[a] = NoBucket
  <2>1. MaxTokens \in 0..MaxTokens
    BY LimiterAssumption
  <2> QED
    BY <1>1, <2>1, Whole DEF Parts
<1>2. CASE buckets[a] # NoBucket
  <2>1. buckets[a].tokens \in 0..MaxTokens /\ now - buckets[a].last \in Nat
    BY <1>2 DEF LimiterTypeOK
  <2>2. buckets[a].tokens * Unit \in Nat
    BY <2>1, Whole
  <2> QED
    BY <1>2, <2>1, <2>2 DEF Parts
<1> QED
  BY <1>1, <1>2

LEMMA FullType == MaxTokens * Unit \in Nat
<1>1. MaxTokens \in 0..MaxTokens
  BY LimiterAssumption
<1> QED
  BY <1>1, Whole

\* What consume finds is above what there is by no more than the rounding.
LEMMA RefilledNear ==
    ASSUME LimiterTypeOK, NEW a \in Accounts, NEW parts \in Refilled(a)
    PROVE  /\ parts \in Int /\ Level(a) \in Nat /\ Level(a) <= MaxTokens * Unit
           /\ parts <= Level(a) + Rounding
<1>1. PICK r \in Rounded(Parts(a)) : parts = Least(r, MaxTokens * Unit)
  BY DEF Refilled
<1>2. Parts(a) \in Nat /\ MaxTokens * Unit \in Nat /\ Rounding \in Nat
  BY PartsType, FullType, LimiterAssumption
<1>3. r \in Int /\ r <= Parts(a) + Rounding
  BY <1>2 DEF Rounded
<1> HIDE DEF Parts
<1> QED
  BY <1>1, <1>2, <1>3 DEF Least, Level

LEMMA InitType == LimiterInit => LimiterTypeOK
BY LimiterAssumption DEF LimiterInit, LimiterTypeOK

LEMMA NextType == LimiterTypeOK /\ [LimiterNext]_limiterVars => LimiterTypeOK'
<1> SUFFICES ASSUME LimiterTypeOK, [LimiterNext]_limiterVars PROVE LimiterTypeOK'
  OBVIOUS
<1>1. CASE Tick
  BY <1>1 DEF LimiterTypeOK, Tick
<1>2. ASSUME NEW a \in Accounts, Consume(a) PROVE LimiterTypeOK'
  <2>1. PICK n \in 0..MaxTokens, t \in 0..now :
           buckets' = [buckets EXCEPT ![a] = [tokens |-> n, last |-> t]]
    BY <1>2 DEF Consume
  <2>2. served' = [served EXCEPT ![a] = @ + 1] /\ now' = now
    BY <1>2 DEF Consume
  <2>3. QED
    BY <2>1, <2>2 DEF LimiterTypeOK
<1>3. CASE UNCHANGED limiterVars
  BY <1>3 DEF LimiterTypeOK, limiterVars
<1>4. QED
  BY <1>1, <1>2, <1>3 DEF LimiterNext

\* The buckets, the clock and the counts keep their types, and no bucket was
\* filled later than now.
THEOREM LimiterType == LimiterSpec => []LimiterTypeOK
BY InitType, NextType, PTL DEF LimiterSpec

----------------------------------------------------------------------------
LEMMA InitFull == LimiterInit => Bucket!Init
<1> SUFFICES ASSUME LimiterInit PROVE Bucket!Init
  OBVIOUS
<1>1. ASSUME NEW a \in Accounts PROVE Level(a) = MaxTokens * Unit
  <2>1. Parts(a) = MaxTokens * Unit
    BY DEF LimiterInit, Parts
  <2>2. QED
    BY <2>1, FullType DEF Level, Least
<1>2. QED
  BY <1>1 DEF LimiterInit, Bucket!Init, Bucket!Full

\* A tick lets one part flow into every bucket that is not full.
LEMMA TickFlows == ASSUME LimiterTypeOK, Tick PROVE Bucket!Tick
<1>1. now' = now + 1 /\ UNCHANGED <<buckets, served>>
  BY DEF Tick
<1>2. ASSUME NEW a \in Accounts
      PROVE  Level(a)' = IF Level(a) < MaxTokens * Unit THEN Level(a) + 1
                         ELSE MaxTokens * Unit
  <2>1. MaxTokens * Unit \in Nat /\ Parts(a) \in Nat
    BY FullType, PartsType
  <2>2. CASE buckets[a] = NoBucket
    <3>1. Parts(a) = MaxTokens * Unit /\ Parts(a)' = MaxTokens * Unit
      BY <1>1, <2>2 DEF Parts
    <3> QED
      BY <2>1, <3>1 DEF Level, Least
  <2>3. CASE buckets[a] # NoBucket
    <3>1. /\ buckets[a].tokens * Unit \in Nat
          /\ now \in Nat /\ buckets[a].last \in Nat
      <4>1. buckets[a].tokens \in 0..MaxTokens /\ now \in Nat /\ buckets[a].last \in Nat
        BY <2>3 DEF LimiterTypeOK
      <4> QED
        BY <4>1, Whole
    <3>2. Parts(a)' = Parts(a) + 1
      BY <1>1, <2>3, <3>1 DEF Parts
    <3>3. Level(a) = Least(Parts(a), MaxTokens * Unit)
      BY DEF Level
    <3>4. Level(a)' = Least(Parts(a) + 1, MaxTokens * Unit)
      BY <3>2 DEF Level
    <3> HIDE DEF Parts
    <3> QED
      BY <2>1, <3>3, <3>4 DEF Least
  <2>4. QED
    BY <2>2, <2>3
<1>3. QED
  BY <1>1, <1>2 DEF Bucket!Tick, Bucket!Full

\* A request takes a token and what is left of another, from one bucket only,
\* and leaves what went by between the two readings of the clock.
LEMMA ConsumeServes ==
    ASSUME LimiterTypeOK, NEW a \in Accounts, Consume(a)
    PROVE  Bucket!Serve(a)
<1>1. PICK parts \in Refilled(a), n \in 0..MaxTokens, t \in 0..now :
         /\ n * Unit <= parts - Unit
         /\ now - t <= Delay
         /\ buckets' = [buckets EXCEPT ![a] = [tokens |-> n, last |-> t]]
  BY DEF Consume, EarlierReading
<1>2. UNCHANGED now /\ served' = [served EXCEPT ![a] = @ + 1]
  BY DEF Consume
<1>3. /\ n * Unit \in Nat /\ n * Unit <= MaxTokens * Unit /\ MaxTokens * Unit \in Nat
      /\ now \in Nat /\ now - t \in Nat
      /\ Unit \in Nat /\ Delay \in Nat /\ Rounding \in Nat
  BY Whole, LimiterAssumption DEF LimiterTypeOK
<1>4. Level(a)' = Least(n * Unit + (now - t), MaxTokens * Unit)
  <2>1. buckets'[a] = [tokens |-> n, last |-> t] /\ buckets'[a] # NoBucket
    BY <1>1, LimiterAssumption DEF LimiterTypeOK
  <2>2. Parts(a)' = n * Unit + (now - t)
    BY <1>2, <2>1 DEF Parts
  <2>3. QED
    BY <2>2 DEF Level
<1>5. \A b \in Accounts \ {a} : Level(b)' = Level(b)
  BY <1>1, <1>2 DEF LimiterTypeOK, Level, Parts
<1>6. /\ parts \in Int /\ Level(a) \in Nat /\ parts <= Level(a) + Rounding
  BY RefilledNear
<1>7. /\ Level(a)' \in 0..(MaxTokens * Unit)
      /\ Level(a)' <= Level(a) + (Rounding + Delay) - Unit
  <2> DEFINE full == MaxTokens * Unit
             kept == n * Unit
             gone == now - t
             had == Level(a)
             has == Level(a)'
  <2>1. has = Least(kept + gone, full) /\ kept \in Nat /\ gone \in Nat /\ full \in Nat
    BY <1>3, <1>4
  <2>2. kept <= parts - Unit /\ gone <= Delay /\ parts <= had + Rounding /\ had \in Nat
    BY <1>1, <1>6
  <2> HIDE DEF full, kept, gone, had, has
  <2>3. has \in 0..full /\ has <= had + (Rounding + Delay) - Unit
    BY <1>3, <1>6, <2>1, <2>2 DEF Least
  <2> QED
    BY <2>3 DEF full, had, has
<1>8. Levels' = [Levels EXCEPT ![a] = Level(a)']
  BY <1>5 DEF Levels
<1>9. Levels[a] = Level(a)
  BY DEF Levels
<1>10. QED
  BY <1>2, <1>7, <1>8, <1>9 DEF Bucket!Serve, Bucket!Full, Levels

LEMMA Steps == LimiterTypeOK /\ [LimiterNext]_limiterVars => [Bucket!Next]_Bucket!bucketVars
<1> SUFFICES ASSUME LimiterTypeOK, [LimiterNext]_limiterVars
             PROVE  [Bucket!Next]_Bucket!bucketVars
  OBVIOUS
<1>1. CASE Tick
  BY <1>1, TickFlows DEF Bucket!Next
<1>2. ASSUME NEW a \in Accounts, Consume(a) PROVE Bucket!Next
  BY <1>2, ConsumeServes DEF Bucket!Next
<1>3. CASE UNCHANGED limiterVars
  BY <1>3 DEF limiterVars, Bucket!bucketVars, Level, Parts
<1>4. QED
  BY <1>1, <1>2, <1>3 DEF LimiterNext

\* For any capacity, rate, rounding and delay: consume serves nobody more than a
\* bucket would into which each request slips back one rounding and one delay.
THEOREM LimiterImplements == LimiterSpec => ImplementsTokenBucket
BY InitFull, Steps, LimiterType, PTL DEF LimiterSpec, ImplementsTokenBucket, Bucket!Spec

----------------------------------------------------------------------------
\* What a task carries at each point.
Carries(me) ==
    /\ me.room \in Rooms \cup {Nothing}
    /\ me.at # "free" => me.who \in Accounts
    /\ me.at \in {"read", "chat", "update"} => me.room \in Rooms
    /\ me.at \in {"chat", "draw", "store", "update"} /\ me.room # Nothing => me.seen \in Row
    /\ me.at \in {"store", "update"} => me.picture \in Pictures

Task == [at : {"free", "read", "chat", "draw", "store", "update"},
         who : Accounts \cup {Nothing}, room : Rooms \cup {Nothing},
         seen : Row \cup {Nothing}, picture : Pictures \cup {Nothing}]

ImageTypeOK ==
    /\ room \in [Rooms -> Row \cup {Nothing}]
    /\ images \in [Pictures -> Nat \cup {Nothing}]
    /\ task \in [Drawers -> Task]
    /\ edits \in Nat
    /\ \A t \in Drawers : Carries(task[t])

\* The picture that a task is about to put into a room is stored.
StoredFirst == \A t \in Drawers : task[t].at = "update" => images[task[t].picture] # Nothing

PictureInv == ImageTypeOK /\ StoredFirst /\ PicturesResolve

LEMMA InitPictureInv == ImageInit => PictureInv
<1> SUFFICES ASSUME ImageInit PROVE PictureInv
  OBVIOUS
<1>1. Free \in Task /\ Carries(Free)
  BY DEF Free, Task, Carries
<1> QED
  BY <1>1 DEF ImageInit, PictureInv, ImageTypeOK, StoredFirst, PicturesResolve, Row, Free

\* A step that only moves one task, to a state that it may be in.
LEMMA TaskMoves ==
    ASSUME PictureInv, NEW t \in Drawers, NEW state \in Task, Carries(state),
           state.at # "update" \/ images[state.picture] # Nothing,
           Go(t, state), UNCHANGED <<room, images, edits>>
    PROVE  PictureInv'
<1>1. ImageTypeOK'
  BY DEF PictureInv, ImageTypeOK, Go
<1>2. StoredFirst'
  BY DEF PictureInv, ImageTypeOK, StoredFirst, Go
<1>3. PicturesResolve'
  BY DEF PictureInv, PicturesResolve
<1> QED
  BY <1>1, <1>2, <1>3 DEF PictureInv

LEMMA NextPictureInv == PictureInv /\ [ImageNext]_drawVars => PictureInv'
<1> SUFFICES ASSUME PictureInv, [ImageNext]_drawVars PROVE PictureInv'
  OBVIOUS
<1>t. /\ room \in [Rooms -> Row \cup {Nothing}]
      /\ images \in [Pictures -> Nat \cup {Nothing}]
      /\ task \in [Drawers -> Task] /\ edits \in Nat
      /\ \A t \in Drawers : Carries(task[t])
  BY DEF PictureInv, ImageTypeOK
<1>f. Free \in Task /\ Carries(Free) /\ Free.at = "free"
  BY DEF Free, Task, Carries
<1>1. ASSUME NEW t \in Drawers, NEW a \in Accounts, NEW r \in Rooms, Look(t, a, r)
      PROVE  PictureInv'
  <2> DEFINE state == [Free EXCEPT !.at = "read", !.who = a, !.room = r]
  <2>1. state \in Task /\ Carries(state) /\ state.at # "update"
    BY DEF Free, Task, Carries
  <2>2. Go(t, state) /\ UNCHANGED <<room, images, edits>>
    BY <1>1 DEF Look
  <2> QED
    BY <2>1, <2>2, TaskMoves
<1>2. ASSUME NEW t \in Drawers, NEW a \in Accounts, Draw(t, a) PROVE PictureInv'
  <2> DEFINE state == [Free EXCEPT !.at = "draw", !.who = a]
  <2>1. state \in Task /\ Carries(state) /\ state.at # "update"
    BY DEF Free, Task, Carries
  <2>2. Go(t, state) /\ UNCHANGED <<room, images, edits>>
    BY <1>2 DEF Draw
  <2> QED
    BY <2>1, <2>2, TaskMoves
<1>3. ASSUME NEW t \in Drawers, ReadRoom(t) PROVE PictureInv'
  <2> DEFINE state == [task[t] EXCEPT !.at = "chat", !.seen = room[task[t].room]]
  <2>1. task[t].at = "read" /\ task[t].room \in Rooms /\ room[task[t].room] \in Row
    BY <1>3, <1>t DEF ReadRoom, Carries
  <2>2. state \in Task /\ Carries(state) /\ state.at # "update"
    BY <2>1, <1>t DEF Task, Carries
  <2>3. Go(t, state) /\ UNCHANGED <<room, images, edits>>
    BY <1>3 DEF ReadRoom
  <2> QED
    BY <2>2, <2>3, TaskMoves
<1>4. ASSUME NEW t \in Drawers, Chat(t) PROVE PictureInv'
  <2> DEFINE state == [task[t] EXCEPT !.at = "draw"]
  <2>1. state \in Task /\ Carries(state) /\ state.at # "update"
    BY <1>4, <1>t DEF Chat, Task, Carries
  <2>2. Go(t, state) /\ UNCHANGED <<room, images, edits>>
    BY <1>4 DEF Chat
  <2> QED
    BY <2>1, <2>2, TaskMoves
<1>5. ASSUME NEW t \in Drawers, NEW p \in Pictures, Generate(t, p) PROVE PictureInv'
  <2> DEFINE state == [task[t] EXCEPT !.at = "store", !.picture = p]
  <2>1. state \in Task /\ Carries(state) /\ state.at # "update"
    BY <1>5, <1>t DEF Generate, Task, Carries
  <2>2. Go(t, state) /\ UNCHANGED <<room, images, edits>>
    BY <1>5 DEF Generate
  <2> QED
    BY <2>1, <2>2, TaskMoves
<1>6. ASSUME NEW t \in Drawers, GivesUp(t) PROVE PictureInv'
  BY <1>6, <1>f, TaskMoves DEF GivesUp
<1>7. ASSUME NEW t \in Drawers, Store(t) PROVE PictureInv'
  <2> DEFINE p == task[t].picture
             next == IF task[t].room = Nothing THEN Free ELSE [task[t] EXCEPT !.at = "update"]
  <2>1. p \in Pictures /\ task[t].at = "store"
    BY <1>7, <1>t DEF Store, Carries
  <2>2. /\ images' = [images EXCEPT ![p] = IF @ = Nothing THEN 0 ELSE @ + 1]
        /\ Go(t, next) /\ UNCHANGED <<room, edits>>
    BY <1>7 DEF Store
  <2>3. next \in Task /\ Carries(next) /\ (next.at = "update" => next.picture = p)
    BY <1>f, <1>t, <2>1 DEF Task, Carries
  <2>4. /\ images' \in [Pictures -> Nat \cup {Nothing}]
        /\ images'[p] # Nothing
        /\ \A q \in Pictures : images[q] # Nothing => images'[q] # Nothing
    <3>1. \A n \in Nat : n + 1 \in Nat /\ n + 1 # Nothing
      BY ImagesAssumption
    <3>2. (IF images[p] = Nothing THEN 0 ELSE images[p] + 1) \in Nat
      BY <2>1, <1>t, <3>1
    <3>3. images'[p] \in Nat
      BY <2>1, <2>2, <3>2, <1>t
    <3>4. \A q \in Pictures : q # p => images'[q] = images[q]
      BY <2>2, <1>t
    <3> QED
      BY <2>2, <3>2, <3>3, <3>4, <1>t, ImagesAssumption
  <2> HIDE DEF next, p
  <2>5. ImageTypeOK'
    BY <1>t, <2>2, <2>3, <2>4 DEF ImageTypeOK, Go
  <2>6. StoredFirst'
    <3> SUFFICES ASSUME NEW u \in Drawers, task'[u].at = "update"
                 PROVE  images'[task'[u].picture] # Nothing
      BY DEF StoredFirst
    <3>1. CASE u = t
      BY <3>1, <1>t, <2>2, <2>3, <2>4 DEF Go
    <3>2. CASE u # t
      <4>1. task'[u] = task[u]
        BY <3>2, <1>t, <2>2 DEF Go
      <4> QED
        BY <4>1, <1>t, <2>4 DEF PictureInv, StoredFirst, Carries
    <3> QED
      BY <3>1, <3>2
  <2>7. PicturesResolve'
    BY <1>t, <2>2, <2>4 DEF PictureInv, PicturesResolve, Row
  <2> QED
    BY <2>5, <2>6, <2>7 DEF PictureInv
<1>8. ASSUME NEW t \in Drawers, SetPicture(t) PROVE PictureInv'
  <2> DEFINE r == task[t].room
             row == [task[t].seen EXCEPT !.picture = task[t].picture]
  <2>1. r \in Rooms /\ task[t].seen \in Row /\ task[t].picture \in Pictures
    BY <1>8, <1>t, ImagesAssumption DEF SetPicture, Carries
  <2>2. images[task[t].picture] # Nothing
    BY <1>8 DEF SetPicture, PictureInv, StoredFirst
  <2>3. row \in Row /\ row.picture = task[t].picture
    BY <2>1 DEF Row
  <2>4. /\ room' = IF room[r] = Nothing THEN room ELSE [room EXCEPT ![r] = row]
        /\ Go(t, Free) /\ UNCHANGED <<images, edits>>
    BY <1>8 DEF SetPicture
  <2> HIDE DEF r, row
  <2>5. ImageTypeOK'
    BY <1>t, <1>f, <2>1, <2>3, <2>4 DEF ImageTypeOK, Go
  <2>6. StoredFirst'
    BY <1>t, <1>f, <2>4 DEF PictureInv, StoredFirst, Go
  <2>7. PicturesResolve'
    BY <1>t, <2>1, <2>2, <2>3, <2>4 DEF PictureInv, PicturesResolve
  <2> QED
    BY <2>5, <2>6, <2>7 DEF PictureInv
<1>9. ASSUME NEW r \in Rooms, Edit(r) \/ Remove(r) PROVE PictureInv'
  <2>1. /\ edits' = edits + 1 /\ UNCHANGED <<images, task>> /\ room[r] \in Row
        /\ room' \in {[room EXCEPT ![r].text = edits'], [room EXCEPT ![r] = Nothing]}
    BY <1>9, <1>t DEF Edit, Remove
  <2>2. edits' \in Nat
    BY <2>1, <1>t
  <2>3. /\ room'[r] \in Row \cup {Nothing}
        /\ room'[r] # Nothing => room'[r].picture = room[r].picture
        /\ room' \in [Rooms -> Row \cup {Nothing}]
        /\ \A q \in Rooms : q # r => room'[q] = room[q]
    BY <2>1, <2>2, <1>t DEF Row
  <2>4. ImageTypeOK' /\ StoredFirst'
    BY <1>t, <2>1, <2>2, <2>3 DEF PictureInv, ImageTypeOK, StoredFirst
  <2>5. PicturesResolve'
    <3>1. room[r] # Nothing
      BY <2>1, ImagesAssumption
    <3> QED
      BY <2>1, <2>3, <3>1 DEF PictureInv, PicturesResolve
  <2> QED
    BY <2>4, <2>5 DEF PictureInv
<1>10. CASE UNCHANGED imageVars
  BY <1>10 DEF imageVars, PictureInv, ImageTypeOK, StoredFirst, PicturesResolve
<1> QED
  BY <1>1, <1>2, <1>3, <1>4, <1>5, <1>6, <1>7, <1>8, <1>9, <1>10 DEF ImageNext, drawVars

\* For any number of rooms, pictures and tasks at once, with failures at any
\* point: a room that shows a picture shows one that the image store has.
THEOREM PicturesStored == ImageSpec => []PicturesResolve
<1>1. PictureInv => PicturesResolve
  BY DEF PictureInv
<1> QED
  BY <1>1, InitPictureInv, NextPictureInv, PTL DEF ImageSpec

\* The tasks do nothing else to the buckets than take tokens.
LEMMA ImageStepIsLimiterStep ==
    PictureInv /\ [ImageNext]_drawVars => [LimiterNext]_limiterVars
<1> SUFFICES ASSUME PictureInv, [ImageNext]_drawVars PROVE [LimiterNext]_limiterVars
  OBVIOUS
<1>1. ASSUME NEW t \in Drawers, Chat(t) \/ \E p \in Pictures : Generate(t, p)
      PROVE  \E a \in Accounts : Consume(a)
  <2>1. task[t].at \in {"chat", "draw"} /\ Consume(task[t].who)
    BY <1>1 DEF Chat, Generate
  <2>2. task[t].who \in Accounts
    BY <2>1 DEF PictureInv, ImageTypeOK, Carries
  <2> QED
    BY <2>1, <2>2
<1>2. ASSUME \/ \E t \in Drawers :
                  \/ \E a \in Accounts : Draw(t, a) \/ \E r \in Rooms : Look(t, a, r)
                  \/ ReadRoom(t) \/ Store(t) \/ SetPicture(t) \/ GivesUp(t)
             \/ \E r \in Rooms : Edit(r) \/ Remove(r)
      PROVE  UNCHANGED limiterVars
  BY <1>2 DEF Draw, Look, ReadRoom, Store, SetPicture, GivesUp, Edit, Remove
<1> QED
  BY <1>1, <1>2 DEF ImageNext, drawVars, LimiterNext

\* The requests of pictures, too, are served within the rate limit, with the
\* same slack for each.
THEOREM ImagesImplement == ImageSpec => ImplementsTokenBucket
<1>1. ImageInit => LimiterInit
  BY DEF ImageInit
<1> QED
  BY <1>1, InitPictureInv, NextPictureInv, ImageStepIsLimiterStep, LimiterImplements, PTL
  DEF ImageSpec, LimiterSpec
=============================================================================
