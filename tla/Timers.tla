------------------------------- MODULE Timers -------------------------------
(***************************************************************************)
(* The one-shot timers of TimerManager (mudd/src/timers/mod.rs): the       *)
(* timers table, the map in memory, the Lua programs that schedule and     *)
(* cancel (call_out and remove_call_out of mudd/src/lua/game_api.rs), and  *)
(* the callers of tick.                                                    *)
(*                                                                         *)
(* Scheduling writes the row, then the map; cancelling deletes the row,    *)
(* then the entry; a tick copies the due entries, removes each as a cancel *)
(* would, and hands the callbacks out when it returns.  All the writes to  *)
(* the table go through Raft and are awaits.                               *)
(***************************************************************************)
EXTENDS Naturals

CONSTANTS
    TimerIds,     \* bound: the timers ever created; a uuid each
    Owned,        \* those of the object whose timers are removed together
    Programs,     \* bound: Lua programs that run at a time
    Tickers,      \* the callers of tick: none in the server, the tests have one
    MaxCrashes,   \* bound: restarts
    MaxFailures,  \* bound: database reads and writes that fail
    None          \* no timer, no lock holder

ASSUME TimersAssumption ==
    /\ Owned \subseteq TimerIds
    /\ MaxCrashes \in Nat /\ MaxFailures \in Nat
    /\ None \notin TimerIds \cup Programs

VARIABLES
    db, mem,        \* the table and the map
    lock,           \* who holds the write lock of the map over an await
    pc, arg, sweep, \* each program's next step, its timer, the timers it removes
    tpc, now, todo, \* each tick's next step, its timer, the copies it has left
    out,            \* the callbacks it will return
    due,            \* timers whose fire_at is past
    created, known, \* ids drawn, and ids returned to Lua
    asked,          \* timers a program called remove_timer for, or swept
    cancelled,      \* those of them that were there to remove
    fired,          \* how often a timer's callback was handed out
    crashes, failures

calls == <<pc, arg, sweep>>
ticks == <<tpc, now, todo, out>>
ghosts == <<known, asked, cancelled, fired>>
vars == <<db, mem, lock, calls, ticks, due, created, ghosts, crashes, failures>>

TypeOK ==
    /\ db \subseteq created /\ mem \subseteq created
    /\ due \subseteq created /\ known \subseteq created
    /\ cancelled \subseteq asked /\ asked \subseteq known \cup Owned
    /\ asked \subseteq created /\ created \subseteq TimerIds
    /\ lock \in Programs \cup {None}
    /\ pc \in [Programs -> {"idle", "insert", "forget", "sweep"}]
    /\ arg \in [Programs -> TimerIds \cup {None}]
    /\ sweep \in [Programs -> SUBSET Owned]
    /\ \A p \in Programs : (pc[p] = "sweep") = (lock = p)
    /\ tpc \in [Tickers -> {"idle", "next", "forget"}]
    /\ now \in [Tickers -> TimerIds \cup {None}]
    /\ todo \in [Tickers -> SUBSET TimerIds]
    /\ out \in [Tickers -> SUBSET TimerIds]
    /\ \A k \in Tickers : out[k] \subseteq due
    /\ fired \in [TimerIds -> 0..2]
    /\ crashes \in 0..MaxCrashes /\ failures \in 0..MaxFailures

Init ==
    /\ db = {} /\ mem = {} /\ lock = None
    /\ pc = [p \in Programs |-> "idle"]
    /\ arg = [p \in Programs |-> None]
    /\ sweep = [p \in Programs |-> {}]
    /\ tpc = [k \in Tickers |-> "idle"]
    /\ now = [k \in Tickers |-> None]
    /\ todo = [k \in Tickers |-> {}]
    /\ out = [k \in Tickers |-> {}]
    /\ due = {} /\ created = {} /\ known = {}
    /\ asked = {} /\ cancelled = {}
    /\ fired = [t \in TimerIds |-> 0]
    /\ crashes = 0 /\ failures = 0

----------------------------------------------------------------------------
Fails(x) == failures < MaxFailures /\ failures' = failures + 1 /\ UNCHANGED x

\* A write that fails leaves the table as it is, and only a warning says so.
Written(rows) == Fails(db) \/ (db' = rows /\ UNCHANGED failures)

\* add_timer: the row first.
Persist(p, t) ==
    /\ pc[p] = "idle" /\ t \notin created
    /\ Written(db \cup {t})
    /\ created' = created \cup {t}
    /\ pc' = [pc EXCEPT ![p] = "insert"]
    /\ arg' = [arg EXCEPT ![p] = t]
    /\ UNCHANGED <<mem, lock, sweep, ticks, due, ghosts, crashes>>

\* Then the entry; the program gets the id.
Insert(p) ==
    /\ pc[p] = "insert" /\ lock = None
    /\ mem' = mem \cup {arg[p]}
    /\ known' = known \cup {arg[p]}
    /\ pc' = [pc EXCEPT ![p] = "idle"]
    /\ arg' = [arg EXCEPT ![p] = None]
    /\ UNCHANGED <<db, lock, sweep, ticks, due,
                   created, asked, cancelled, fired, crashes, failures>>

\* Fault: a cancel forgets the row.
DeleteNothing(p, t) ==
    /\ pc[p] = "idle" /\ t \in known
    /\ asked' = asked \cup {t}
    /\ pc' = [pc EXCEPT ![p] = "forget"]
    /\ arg' = [arg EXCEPT ![p] = t]
    /\ UNCHANGED <<db, mem, lock, sweep, ticks, due, created,
                   known, cancelled, fired, crashes, failures>>

\* remove_timer, of an id that some program once got.
Delete(p, t) ==
    /\ pc[p] = "idle" /\ t \in known
    /\ Written(db \ {t})
    /\ asked' = asked \cup {t}
    /\ pc' = [pc EXCEPT ![p] = "forget"]
    /\ arg' = [arg EXCEPT ![p] = t]
    /\ UNCHANGED <<mem, lock, sweep, ticks, due, created, known, cancelled, fired, crashes>>

\* The program is told true if the entry was there.
Forget(p) ==
    /\ pc[p] = "forget" /\ lock = None
    /\ cancelled' = cancelled \cup ({arg[p]} \cap mem)
    /\ mem' = mem \ {arg[p]}
    /\ pc' = [pc EXCEPT ![p] = "idle"]
    /\ arg' = [arg EXCEPT ![p] = None]
    /\ UNCHANGED <<db, lock, sweep, ticks, due, created, known, asked, fired, crashes, failures>>

\* remove_timers_for_object: the lock is held from here to SweepEnd.
SweepBegin(p) ==
    /\ pc[p] = "idle" /\ lock = None
    /\ lock' = p
    /\ sweep' = [sweep EXCEPT ![p] = mem \cap Owned]
    /\ pc' = [pc EXCEPT ![p] = "sweep"]
    /\ UNCHANGED <<db, mem, arg, ticks, due, created, ghosts, crashes, failures>>

SweepOne(p, t) ==
    /\ pc[p] = "sweep" /\ t \in sweep[p]
    /\ mem' = mem \ {t}
    /\ Written(db \ {t})
    /\ asked' = asked \cup {t}
    /\ cancelled' = cancelled \cup {t}
    /\ sweep' = [sweep EXCEPT ![p] = @ \ {t}]
    /\ UNCHANGED <<lock, pc, arg, ticks, due, created, known, fired, crashes>>

\* Fault: the lock of the map is not given back.
SweepEndLocked(p) ==
    /\ pc[p] = "sweep" /\ sweep[p] = {}
    /\ pc' = [pc EXCEPT ![p] = "idle"]
    /\ UNCHANGED <<db, mem, lock, arg, sweep, ticks, due, created, ghosts, crashes, failures>>

SweepEnd(p) ==
    /\ pc[p] = "sweep" /\ sweep[p] = {}
    /\ lock' = None
    /\ pc' = [pc EXCEPT ![p] = "idle"]
    /\ UNCHANGED <<db, mem, arg, sweep, ticks, due, created, ghosts, crashes, failures>>

----------------------------------------------------------------------------
\* The clock reaches fire_at, of a timer a zero delay or a long one.
ComesDue(t) ==
    /\ t \in created \ due
    /\ due' = due \cup {t}
    /\ UNCHANGED <<db, mem, lock, calls, ticks, created, ghosts, crashes, failures>>

\* Fault: a tick takes timers whose time has not come.
TickBeginAll(k) ==
    /\ tpc[k] = "idle" /\ lock = None
    /\ todo' = [todo EXCEPT ![k] = mem]
    /\ tpc' = [tpc EXCEPT ![k] = "next"]
    /\ UNCHANGED <<db, mem, lock, calls, now, out, due, created, ghosts, crashes, failures>>

\* Under the read lock: the due timers are copied.
TickBegin(k) ==
    /\ tpc[k] = "idle" /\ lock = None
    /\ todo' = [todo EXCEPT ![k] = mem \cap due]
    /\ tpc' = [tpc EXCEPT ![k] = "next"]
    /\ UNCHANGED <<db, mem, lock, calls, now, out, due, created, ghosts, crashes, failures>>

\* Fault: a fired timer leaves the map and stays in the table.
TickKeepsRow(k, t) ==
    /\ tpc[k] = "next" /\ t \in todo[k]
    /\ out' = [out EXCEPT ![k] = @ \cup {t}]
    /\ todo' = [todo EXCEPT ![k] = @ \ {t}]
    /\ now' = [now EXCEPT ![k] = t]
    /\ tpc' = [tpc EXCEPT ![k] = "forget"]
    /\ UNCHANGED <<db, mem, lock, calls, due, created, ghosts, crashes, failures>>

\* One of them: its callback is noted and remove_timer starts on it.
TickDelete(k, t) ==
    /\ tpc[k] = "next" /\ t \in todo[k]
    /\ out' = [out EXCEPT ![k] = @ \cup {t}]
    /\ Written(db \ {t})
    /\ todo' = [todo EXCEPT ![k] = @ \ {t}]
    /\ now' = [now EXCEPT ![k] = t]
    /\ tpc' = [tpc EXCEPT ![k] = "forget"]
    /\ UNCHANGED <<mem, lock, calls, due, created, ghosts, crashes>>

\* Fault: a fired timer leaves the table and stays in the map.
TickForgetNot(k) ==
    /\ tpc[k] = "forget" /\ lock = None
    /\ now' = [now EXCEPT ![k] = None]
    /\ tpc' = [tpc EXCEPT ![k] = "next"]
    /\ UNCHANGED <<db, mem, lock, calls, todo, out, due, created, ghosts, crashes, failures>>

TickForget(k) ==
    /\ tpc[k] = "forget" /\ lock = None
    /\ mem' = mem \ {now[k]}
    /\ now' = [now EXCEPT ![k] = None]
    /\ tpc' = [tpc EXCEPT ![k] = "next"]
    /\ UNCHANGED <<db, lock, calls, todo, out, due, created, ghosts, crashes, failures>>

Once(n) == IF n = 2 THEN 2 ELSE n + 1

\* Fault: the callbacks are not returned.
TickEndDrops(k) ==
    /\ tpc[k] = "next" /\ todo[k] = {}
    /\ out' = [out EXCEPT ![k] = {}]
    /\ tpc' = [tpc EXCEPT ![k] = "idle"]
    /\ UNCHANGED <<db, mem, lock, calls, now, todo, due, created, ghosts, crashes, failures>>

\* tick returns, and its caller runs the callbacks.
TickEnd(k) ==
    /\ tpc[k] = "next" /\ todo[k] = {}
    /\ fired' = [t \in TimerIds |-> IF t \in out[k] THEN Once(fired[t]) ELSE fired[t]]
    /\ out' = [out EXCEPT ![k] = {}]
    /\ tpc' = [tpc EXCEPT ![k] = "idle"]
    /\ UNCHANGED <<db, mem, lock, calls, now, todo, due,
                   created, known, asked, cancelled, crashes, failures>>

----------------------------------------------------------------------------
\* The server stops and starts again; load_from_db reads the table before the
\* first request, and the server runs on if it fails.
Crash ==
    /\ crashes < MaxCrashes
    /\ crashes' = crashes + 1
    /\ \/ mem' = db /\ UNCHANGED failures
       \/ mem' = {} /\ Fails(db)
    /\ lock' = None
    /\ pc' = [p \in Programs |-> "idle"]
    /\ arg' = [p \in Programs |-> None]
    /\ sweep' = [p \in Programs |-> {}]
    /\ tpc' = [k \in Tickers |-> "idle"]
    /\ now' = [k \in Tickers |-> None]
    /\ todo' = [k \in Tickers |-> {}]
    /\ out' = [k \in Tickers |-> {}]
    /\ UNCHANGED <<db, due, created, ghosts>>

Continue(p) ==
    \/ Insert(p) \/ Forget(p) \/ SweepEnd(p)
    \/ \E t \in TimerIds : SweepOne(p, t)

Call(p) == SweepBegin(p) \/ \E t \in TimerIds : Persist(p, t) \/ Delete(p, t)

TickGoesOn(k) ==
    \/ TickForget(k) \/ TickEnd(k)
    \/ \E t \in TimerIds : TickDelete(k, t)

Tick(k) == TickBegin(k) \/ TickGoesOn(k)

Next ==
    \/ \E p \in Programs : Continue(p) \/ Call(p)
    \/ \E k \in Tickers : Tick(k)
    \/ \E t \in TimerIds : ComesDue(t)
    \/ Crash

Spec == Init /\ [][Next]_vars

\* A call or a tick that has begun goes on; Tokio's lock queues its waiters.
\* That anybody calls tick is not assumed, nor that time passes.
FairSpec ==
    /\ Spec
    /\ \A p \in Programs : SF_vars(Continue(p))
    /\ \A k \in Tickers : SF_vars(TickGoesOn(k))

----------------------------------------------------------------------------
\* langtutor.md "One-shot, fires once after delay": no tick, cancel or restart
\* makes a callback run twice.  Only a row that could not be deleted comes back.
FiresOnce == crashes = 0 \/ failures = 0 => \A t \in TimerIds : fired[t] <= 1

\* A timer a program was told it removed, or swept, is in neither place, so
\* that no later tick and no restart brings it back.
CancelledIsGone == failures = 0 => cancelled \cap (db \cup mem) = {}

Settled(t) == fired[t] > 0 \/ t \in asked
Returning(t) == \E k \in Tickers : t \in out[k]

\* mod.rs "Timers survive server restart": a timer whose id a program was given
\* is never lost, whatever tick, cancel, sweep or restart happens meanwhile,
\* until its time has come; and then only to a restart.
TimersSurvive ==
    failures = 0 =>
       \A t \in known : \/ Settled(t) \/ t \in db \/ Returning(t)
                        \/ t \in due /\ crashes > 0

\* Between calls the map holds what the table holds: what a restart would
\* fire is what the running server would.
Busy == (\E p \in Programs : pc[p] # "idle") \/ (\E k \in Tickers : tpc[k] = "forget")
MapMatchesTable == failures = 0 /\ ~Busy => mem = db

\* A call that has begun returns: the lock that a sweep keeps over its deletes
\* through Raft comes free again, also if they fail, for those who wait for it.
CallsReturn == \A p \in Programs : (pc[p] # "idle") ~> (pc[p] = "idle")

\* langref.md "Schedule a one-shot timer callback": a timer that a tick has found
\* due is handed out, whatever is cancelled, swept or fails meanwhile, unless
\* the server stops.
FoundDueFires ==
    \A k \in Tickers, t \in TimerIds : (t \in todo[k]) ~> (fired[t] > 0 \/ crashes > 0)
=============================================================================
