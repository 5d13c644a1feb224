------------------------------- MODULE Serve -------------------------------
(***************************************************************************)
(* lastbeat serve: one process with a main loop (start-up sweep, then one  *)
(* sweep per ticker message) and a goroutine per request.  All of them     *)
(* share the state under one mutex; what runs under it (read the clock,    *)
(* change the state, save it) is one step here.  Alerts are delivered with *)
(* the mutex free, by the goroutine that raised them, and a request is     *)
(* answered after its alerts.  The process may die at any step and be      *)
(* started again from the file, which the death of a process leaves as the *)
(* latest Save made it.                                                    *)
(*                                                                         *)
(* Left out: /status and /healthz, which change nothing that is kept; the  *)
(* power loss that takes the file back to an older document, since Save    *)
(* does not sync the directory (AtomicFile, PowerLoss); a request whose    *)
(* body stalls, for it is read before the request arrives here.            *)
(***************************************************************************)
EXTENDS MonitorOps

CONSTANTS
  Handler,       \* requests that may be in progress at the same time
  Idle,          \* a handler without a request
  Cfg,           \* the configuration
  SweepEvery,    \* the ticker's period
  MaxClock,      \* bound on the clock
  MaxRequests,   \* bound on the requests
  MaxStarts,     \* bound on the starts of the server
  MaxBadSaves    \* bound on the saves that fail

Requests == [cmd : {"ping", "fail"}, check : Name]

\* What names an alert: its check and its position in the feed of that check.
AlertId == Name \X (Nat \ {0})

\* A request in progress: it has arrived, or it has been recorded, at the instant
\* now, and its alerts are being delivered.
Request ==
  [ at : {"arrived", "dispatch"}, args : Requests, now : Nat, queue : Seq(AlertId) ]

ASSUME ServeAssumption ==
  /\ Cfg \in Config
  /\ Idle \notin Handler /\ Idle \notin Request
  /\ SweepEvery \in Nat \ {0}
  /\ MaxClock \in Nat \ {0}
  /\ MaxRequests \in Nat /\ MaxStarts \in Nat /\ MaxBadSaves \in Nat

VARIABLES
  clock,     \* the wall clock
  file,      \* the state the file holds
  st,        \* Server.st; NoChecks while the server is stopped
  main,      \* where the main goroutine is
  queue,     \* the alerts it has yet to deliver
  tick,      \* a message is in the ticker's channel (capacity one)
  nextTick,  \* when the ticker sends the next one
  req,       \* per handler: its request, or Idle
  raised,    \* history: per check, the alerts raised and what became of them
  acked,     \* history: per check, the latest contact answered "ok", unless a
             \* process died while the file was behind
  behind,    \* history: the latest save failed
  called,    \* history: the instant of the latest call of the monitor
  requests, starts, badSaves      \* counters for the bounds

server   == << main, queue, tick, nextTick >>
history  == << acked, called >>
counters == << requests, starts, badSaves >>
vars == << clock, file, st, server, req, raised, acked, behind, called, counters >>

Phases == {"stopped", "boot", "dispatch", "wait", "stopping"}

Up == main # "stopped"
Listening == main \in {"boot", "dispatch", "wait"}
Busy(h) == req[h] # Idle

-----------------------------------------------------------------------------
Init ==
  /\ clock = 1
  /\ file = NoChecks /\ st = NoChecks
  /\ main = "stopped" /\ queue = << >> /\ tick = FALSE /\ nextTick = 0
  /\ req = [h \in Handler |-> Idle]
  /\ raised = [n \in Name |-> << >>]
  /\ acked = [n \in Name |-> ZeroTime]
  /\ behind = FALSE /\ called = ZeroTime
  /\ requests = 0 /\ starts = 0 /\ badSaves = 0

Tick ==
  /\ clock < MaxClock
  /\ clock' = clock + 1
  /\ UNCHANGED << file, st, server, req, raised, history, behind, counters >>

\* time.Ticker (external): a message that finds the channel full is dropped,
\* and so are the messages of periods that have passed meanwhile.
TickerFires ==
  /\ Up /\ clock >= nextTick
  /\ tick' = TRUE
  /\ nextTick' = nextTick + SweepEvery * (1 + (clock - nextTick) \div SweepEvery)
  /\ UNCHANGED << clock, file, st, main, queue, req, raised, history, behind, counters >>

\* mutant: the server starts from nothing and catches up with the next save
StartBug ==
  /\ ~Up
  /\ starts < MaxStarts /\ starts' = starts + 1
  /\ main' = "boot" /\ queue' = << >>
  /\ st' = NoChecks
  /\ tick' = FALSE /\ nextTick' = clock + SweepEvery
  /\ behind' = FALSE
  /\ UNCHANGED << clock, file, req, raised, history, requests, badSaves >>

\* mutant: the loop begins without the start-up sweep
StartNoSweepBug ==
  /\ ~Up
  /\ starts < MaxStarts /\ starts' = starts + 1
  /\ main' = "wait" /\ queue' = << >>
  /\ st' = file
  /\ tick' = FALSE /\ nextTick' = clock + SweepEvery
  /\ behind' = FALSE
  /\ UNCHANGED << clock, file, req, raised, history, requests, badSaves >>

\* New loads the file; Run listens, serves and makes the ticker.  Requests are
\* accepted from here on, before the start-up sweep.
Start ==
  /\ ~Up
  /\ starts < MaxStarts /\ starts' = starts + 1
  /\ main' = "boot" /\ queue' = << >>
  /\ st' = file
  /\ tick' = FALSE /\ nextTick' = clock + SweepEvery
  /\ behind' = FALSE
  /\ UNCHANGED << clock, file, req, raised, history, requests, badSaves >>

\* mutant: nothing is saved unless there is an alert
PersistBug(ok, evs) ==
  /\ badSaves' = badSaves
  /\ file' = IF ok /\ evs # << >> THEN st' ELSE file
  /\ behind' = ~ok

\* persistLocked: an error is logged and nothing else.
Persist(ok, evs) ==
  /\ ~ok => badSaves < MaxBadSaves
  /\ badSaves' = IF ok THEN badSaves ELSE badSaves + 1
  /\ file' = IF ok THEN st' ELSE file
  /\ behind' = ~ok

\* The alerts of one call enter the feed as pending; the goroutine keeps what
\* names them: the check and the position in its feed.
About(n, evs) == Keep(evs, {e \in Elements(evs) : e.check = n})

Raise(evs) ==
  raised' = [n \in Name |-> raised[n] \o
    [i \in DOMAIN About(n, evs) |->
       [type |-> About(n, evs)[i].type, prev |-> About(n, evs)[i].prev,
        fate |-> "pending"]]]

\* (At most one per check in one call.)
Ids(evs) == [i \in DOMAIN evs |-> << evs[i].check, Len(raised[evs[i].check]) + 1 >>]

-----------------------------------------------------------------------------
(* Requests. *)

Arrive(h, r) ==
  /\ Listening /\ ~Busy(h)
  /\ requests < MaxRequests /\ requests' = requests + 1
  /\ req' = [req EXCEPT ![h] =
       [at |-> "arrived", args |-> r, now |-> ZeroTime, queue |-> << >>]]
  /\ UNCHANGED << clock, file, st, server, raised, history, behind, starts, badSaves >>

\* An unknown check, a bad path, method or key: an error, and nothing changed.
Refuse(h) ==
  /\ Busy(h) /\ req[h].at = "arrived"
  /\ req[h].args.check \notin Configured(Cfg)
  /\ req' = [req EXCEPT ![h] = Idle]
  /\ UNCHANGED << clock, file, st, server, raised, history, behind, counters >>

Contact(r, cs, now) ==
  IF r.cmd = "ping" THEN PingCheck(cs, 0, now) ELSE FailCheck(cs, 0, now)

ContactEvents(r, cs, now) ==
  IF r.cmd = "ping" THEN PingEvents(r.check, cs, 0, now)
                    ELSE FailEvents(r.check, cs, 0, now)

\* The instant of a request is read under the mutex.
RecordAt(h, now, ok) ==
  /\ Busy(h) /\ req[h].at = "arrived"
  /\ req[h].args.check \in Configured(Cfg)
  /\ LET r == req[h].args IN
     \E evs \in {ContactEvents(r, st[r.check], now)} :
         /\ st' = [st EXCEPT ![r.check] = Contact(r, st[r.check], now)]
         /\ Raise(evs)
         /\ Persist(ok, evs)
         /\ req' = [req EXCEPT
              ![h] = [at |-> "dispatch", args |-> r, now |-> now, queue |-> Ids(evs)]]
  /\ called' = now
  /\ UNCHANGED << clock, server, acked, requests, starts >>

\* mutant: the clock is read before the mutex is taken
RecordBug(h, ok) ==
  \E now \in {clock - 1, clock} \ {ZeroTime} : RecordAt(h, now, ok)

\* mutant: the mutex is held until the alerts are delivered
RecordLockedBug(h, ok) ==
  /\ \A o \in Handler : Busy(o) => req[o].at # "dispatch"
  /\ RecordAt(h, clock, ok)

Record(h, ok) == RecordAt(h, clock, ok)

\* Dispatch returns: the alert was delivered or it failed or timed out.  A
\* failure is logged; the alert is not sent again.
Settle(id, fate) == raised' = [raised EXCEPT ![id[1]][id[2]].fate = fate]

HandlerDispatch(h, fate) ==
  /\ Busy(h) /\ req[h].at = "dispatch" /\ req[h].queue # << >>
  /\ Settle(Head(req[h].queue), fate)
  /\ req' = [req EXCEPT ![h].queue = Tail(@)]
  /\ UNCHANGED << clock, file, st, server, history, behind, counters >>

\* mutant: answers before it has told anybody
ReplyBug(h) ==
  /\ Busy(h) /\ req[h].at = "dispatch"
  /\ req' = [req EXCEPT ![h] = Idle]
  /\ UNCHANGED << clock, file, st, server, raised, history, behind, counters >>

Reply(h) ==
  /\ Busy(h) /\ req[h].at = "dispatch" /\ req[h].queue = << >>
  /\ LET n == req[h].args.check IN
     acked' = [acked EXCEPT ![n] = IF req[h].now > @ THEN req[h].now ELSE @]
  /\ req' = [req EXCEPT ![h] = Idle]
  /\ UNCHANGED << clock, file, st, server, raised, behind, called, counters >>

-----------------------------------------------------------------------------
(* The main goroutine. *)

\* mutant: handlePing unlocks after it has delivered, not before
SweepLockedBug(ok) ==
  \E evs \in {SweepEvents(Cfg, st, clock)} :
  /\ \A h \in Handler : Busy(h) => req[h].at # "dispatch"
  /\ st' = Sweep(Cfg, st, clock)
  /\ Raise(evs)
  /\ Persist(ok, evs)
  /\ main' = "dispatch" /\ queue' = Ids(evs)
  /\ called' = clock
  /\ UNCHANGED << clock, req, acked, requests, starts, nextTick >>

\* mutant: the file is loaded again before each sweep
SweepLockedReloadBug(ok) ==
  \E evs \in {SweepEvents(Cfg, file, clock)} :
  /\ st' = Sweep(Cfg, file, clock)
  /\ Raise(evs)
  /\ Persist(ok, evs)
  /\ main' = "dispatch" /\ queue' = Ids(evs)
  /\ called' = clock
  /\ UNCHANGED << clock, req, acked, requests, starts, nextTick >>

\* evs is the one value in that set: TLC computes it once.
SweepLocked(ok) ==
  \E evs \in {SweepEvents(Cfg, st, clock)} :
  /\ st' = Sweep(Cfg, st, clock)
  /\ Raise(evs)
  /\ Persist(ok, evs)
  /\ main' = "dispatch" /\ queue' = Ids(evs)
  /\ called' = clock
  /\ UNCHANGED << clock, req, acked, requests, starts, nextTick >>

\* "Catch anything that went silent while we were not running."
SweepAtBoot(ok) == main = "boot" /\ SweepLocked(ok) /\ UNCHANGED tick

SweepOnTick(ok) == main = "wait" /\ tick /\ tick' = FALSE /\ SweepLocked(ok)

MainDispatch(fate) ==
  /\ main = "dispatch" /\ queue # << >>
  /\ Settle(Head(queue), fate)
  /\ queue' = Tail(queue)
  /\ UNCHANGED << clock, file, st, main, tick, nextTick, req, history, behind, counters >>

\* mutant: the loop goes on when the first delivery is done
SweepReturnsBug ==
  /\ main = "dispatch"
  /\ main' = "wait" /\ queue' = << >>
  /\ UNCHANGED << clock, file, st, tick, nextTick, req, raised, history, behind, counters >>

SweepReturns ==
  /\ main = "dispatch" /\ queue = << >>
  /\ main' = "wait"
  /\ UNCHANGED << clock, file, st, queue, tick, nextTick, req, raised, history, behind, counters >>

\* SIGINT or SIGTERM, which only the select sees: Shutdown closes the listener.
Stop ==
  /\ main = "wait"
  /\ main' = "stopping"
  /\ UNCHANGED << clock, file, st, queue, tick, nextTick, req, raised, history, behind, counters >>

\* mutant: requests outlive the process
GoneBug ==
  /\ main' = "stopped" /\ queue' = << >> /\ tick' = FALSE /\ nextTick' = 0
  /\ st' = NoChecks
  /\ behind' = FALSE
  /\ UNCHANGED << clock, file, req, raised, acked, called, counters >>

\* The process is gone, with the state, the requests and the alerts in it.
Gone ==
  /\ main' = "stopped" /\ queue' = << >> /\ tick' = FALSE /\ nextTick' = 0
  /\ st' = NoChecks
  /\ req' = [h \in Handler |-> Idle]
  /\ raised' = [n \in Name |-> [i \in DOMAIN raised[n] |->
       [raised[n][i] EXCEPT !.fate = IF @ = "pending" THEN "lost" ELSE @]]]
  /\ acked' = IF behind THEN [n \in Name |-> ZeroTime] ELSE acked
  /\ behind' = FALSE
  /\ UNCHANGED << clock, file, called, counters >>

\* mutant: Shutdown without a timeout
ShutdownTimesOutBug == FALSE

\* Shutdown waits for the requests in progress, for five seconds: those that
\* take longer die with the process.
ShutdownDone     == main = "stopping" /\ (\A h \in Handler : ~Busy(h)) /\ Gone
ShutdownTimesOut == main = "stopping" /\ (\E h \in Handler : Busy(h)) /\ Gone

\* A kill, an error of Serve: the death of the process, and no more than that.
\* (A power loss may also take the file back: AtomicFile, PowerLoss.)
Crash == Up /\ Gone

-----------------------------------------------------------------------------
Fates == {"delivered", "failed"}

MainStep ==
  \/ \E ok \in BOOLEAN : SweepAtBoot(ok) \/ SweepOnTick(ok)
  \/ \E fate \in Fates : MainDispatch(fate)
  \/ SweepReturns

HandlerRuns(h) ==
  \/ Refuse(h)
  \/ \E ok \in BOOLEAN : Record(h, ok)
  \/ Reply(h)

HandlerStep(h) == HandlerRuns(h) \/ \E fate \in Fates : HandlerDispatch(h, fate)

Next ==
  \/ Tick
  \/ TickerFires
  \/ Start
  \/ MainStep
  \/ \E h \in Handler : HandlerStep(h) \/ \E r \in Requests : Arrive(h, r)
  \/ Stop \/ ShutdownDone \/ ShutdownTimesOut \/ Crash

Spec == Init /\ [][Next]_vars

\* The Go scheduler and the mutex starve no goroutine, the ticker ticks, and
\* Shutdown has a timeout.  Nothing makes the server start, stop or die, or
\* requests arrive.  Deliveries of the main goroutine end; what is assumed of
\* those of requests is said below.
BaseFairness ==
  /\ WF_vars(Tick) /\ WF_vars(TickerFires)
  /\ WF_vars(MainStep)
  /\ WF_vars(ShutdownDone \/ ShutdownTimesOut)

\* A delivery of a request may hang for ever (a command whose offspring keeps
\* stderr open).
HangSpec == Spec /\ BaseFairness /\ \A h \in Handler : WF_vars(HandlerRuns(h))

-----------------------------------------------------------------------------
(***************************************************************************)
(* Properties.                                                             *)
(***************************************************************************)
Pending(n) == {i \in DOMAIN raised[n] : raised[n][i].fate = "pending"}

Alert == [type : EventTypes, prev : Statuses, fate : Fates \cup {"pending", "lost"}]

\* Types of the variables, and no goroutine outside the running server.
TypeOK ==
  /\ clock \in 1..MaxClock /\ called \in 0..clock
  /\ file \in [Name -> CheckState] /\ st \in [Name -> CheckState]
  /\ main \in Phases /\ queue \in Seq(AlertId)
  /\ tick \in BOOLEAN /\ nextTick \in Nat
  /\ req \in [Handler -> Request \cup {Idle}]
  /\ raised \in [Name -> Seq(Alert)]
  /\ acked \in [Name -> 0..clock] /\ behind \in BOOLEAN
  /\ requests \in 0..MaxRequests /\ starts \in 0..MaxStarts /\ badSaves \in 0..MaxBadSaves
  /\ ~Up => \A h \in Handler : ~Busy(h)
  /\ main # "dispatch" => queue = << >>

Mon == INSTANCE Monitor WITH
  Configs <- {Cfg}, Instants <- 1..MaxClock, Notes <- {0}, Monotone <- TRUE,
  MaxContacts <- MaxRequests,
  cfg <- Cfg, clock <- called,
  st <- IF Up THEN st ELSE file,
  raised <- [n \in Name |-> [i \in DOMAIN raised[n] |->
              [type |-> raised[n][i].type, prev |-> raised[n][i].prev]]]

\* The server with its concurrent requests, its deaths and its restarts is the
\* monitor: every step is one call of it, at instants that never go back, or
\* invisible.  One step is neither: the end of a process whose latest save failed
\* takes the state back to what the file holds.
LosesUnsaved == behind /\ Up /\ ~Up'

ImplementsMonitor == Mon!Init /\ [][Mon!Next \/ LosesUnsaved]_(Mon!vars)

\* An alert is pending exactly while one goroutine, and only one, has it to
\* deliver: none is forgotten, none is delivered twice, and only the death of
\* the process loses one.
Carries(h) == IF Busy(h) THEN {req[h].queue[k] : k \in DOMAIN req[h].queue} ELSE {}

Holders(id) ==
  {h \in Handler : id \in Carries(h)}
    \cup {q \in {Idle} : \E k \in DOMAIN queue : queue[k] = id}

AlertsAccounted ==
  \A n \in Name : \A i \in DOMAIN raised[n] :
    IF i \in Pending(n) THEN \E q \in Handler \cup {Idle} : Holders(<< n, i >>) = {q}
                        ELSE Holders(<< n, i >>) = {}

\* A contact that was answered "ok" is not lost: the running server has it or
\* a later one, whatever overlapped with it, and so has the file, unless the
\* latest save failed; so the next save that succeeds makes up for it.  This is
\* about the death of processes: a power loss may take back a file that was saved.
AckedKept ==
  \A n \in Name :
    /\ Up => st[n].lastPing >= acked[n]
    /\ ~behind => file[n].lastPing >= acked[n]

Overdue(n) == st[n].status \in {"up", "late"} /\ clock > GraceEnd(Cfg, n, st[n])

\* Run: the start-up sweep catches "anything that went silent while we were not
\* running".  When the loop is entered, after whatever requests came first, each
\* check that is silent beyond its grace is down, and the latest alert about it,
\* of this process or of one before it, has said so (unless a save has failed); a
\* contact that came first is all that can hide an outage.
Silent(n) == st[n].status # "waiting" /\ clock > GraceEnd(Cfg, n, st[n])

ToldDown(n) ==
  /\ st[n].status = "down"
  /\ badSaves = 0 =>
       raised[n] # << >> /\ raised[n][Len(raised[n])].type \in {"down", "failed"}

Looping == main \in {"dispatch", "wait", "stopping"}

CaughtUpAtStart ==
  [][ ~Looping /\ Looping' => \A n \in Configured(Cfg) : Silent(n)' => ToldDown(n)' ]_vars

\* Silence is noticed: a check whose grace has run out while the server is up
\* is declared down or pings, or the server stops; even if the deliveries of
\* requests hang, since they do not hold the mutex.
SilenceNoticed ==
  \A n \in Configured(Cfg) : (Up /\ Overdue(n)) ~> (~Overdue(n) \/ ~Listening)

\* An alert that no request has to deliver (a sweep raised it) meets its fate,
\* even if the deliveries of requests hang.
NotWithRequests(n) ==
  {i \in Pending(n) : \A h \in Handler : << n, i >> \notin Carries(h)}

AlertsSettle ==
  \A n \in Configured(Cfg) : NotWithRequests(n) # {} ~> NotWithRequests(n) = {}

\* Every request whose body has been read is answered, or the server is gone,
\* unless its own delivery hangs for ever: those of the others do not hold it up.
Hangs(h) == [](Carries(h) # {})

RequestsAnswered == \A h \in Handler : Busy(h) ~> (~Busy(h) \/ Hangs(h))

\* A signal ends the process, whatever the requests in progress do.
ShutdownEnds == main = "stopping" ~> ~Up
=============================================================================
