----------------------------- MODULE Daemonless -----------------------------
(***************************************************************************)
(* lastbeat without a daemon: cron starts ping, fail and sweep processes   *)
(* which share nothing but the state file, and take no lock on it.  Each   *)
(* loads the configuration, reads the clock, loads the state, computes the *)
(* new one, saves it, delivers the alerts, and exits; it may be killed     *)
(* between any two of these.  Saving replaces the file at one instant or   *)
(* fails and leaves it alone (StateFile implements AtomicFile).  Left out: *)
(* status and checks, which only read, and the power loss that takes the   *)
(* file back to an older document (AtomicFile, PowerLoss).                 *)
(***************************************************************************)
EXTENDS MonitorOps, FiniteSets

CONSTANTS
  Proc,          \* processes that may run at the same time
  NoRun,         \* a process slot that is not in use
  Cfg,           \* the configuration, of all checks in Name
  MaxClock,      \* bound on the clock
  MaxRuns        \* bound on the processes cron starts

\* Command lines: ping NAME, fail NAME, sweep.
Contacts == [cmd : {"ping", "fail"}, check : Name]
Commands == Contacts \cup {[cmd |-> "sweep"]}

\* A process that runs: what it was asked to do, how far it is, its instant, the
\* state it is about to save, the events it has yet to deliver.  alone is
\* history: no other process has run beside it.
Process ==
  [ args : Commands, at : {"started", "loaded", "saved"}, now : Nat,
    st : [Name -> CheckState], evs : Seq(Event), alone : BOOLEAN ]

ASSUME DaemonlessAssumption ==
  /\ Cfg \in Config /\ Configured(Cfg) = Name
  /\ NoRun \notin Process
  /\ MaxClock \in Nat \ {0} /\ MaxRuns \in Nat

VARIABLES
  clock,     \* the wall clock
  file,      \* the state the file holds
  run,       \* per process: its locals, or NoRun
  runs,      \* number of processes started, for the bound
  raised,    \* history: per check, the alerts of the saved transitions
  sent,      \* history: per check, the alerts delivered
  acked,     \* history: per check, the latest ping a process exited 0 for
  solo,      \* history: the same for pings and failures of processes that ran
             \* with no other process beside them
  updatedAt  \* the file's updated_at: the instant of the process that saved

vars == << clock, file, run, runs, raised, sent, acked, solo, updatedAt >>

Running(p) == run[p] # NoRun

-----------------------------------------------------------------------------
Init ==
  /\ clock = 1
  /\ file = NoChecks
  /\ run = [p \in Proc |-> NoRun]
  /\ runs = 0
  /\ raised = [n \in Name |-> << >>]
  /\ sent = [n \in Name |-> << >>]
  /\ acked = [n \in Name |-> ZeroTime]
  /\ solo = [n \in Name |-> ZeroTime]
  /\ updatedAt = ZeroTime

Tick ==
  /\ clock < MaxClock
  /\ clock' = clock + 1
  /\ UNCHANGED << file, run, runs, raised, sent, acked, solo, updatedAt >>

\* mutant: the instant is rounded up to the next second
StartBug(p, c) ==
  /\ ~Running(p)
  /\ runs < MaxRuns /\ runs' = runs + 1
  /\ run' = [run EXCEPT ![p] =
       [args |-> c, at |-> "started", now |-> clock + 1,
        st |-> NoChecks, evs |-> << >>, alone |-> FALSE]]
  /\ UNCHANGED << clock, file, raised, sent, acked, solo, updatedAt >>

\* cron starts a process; it loads the configuration and reads the clock.
\* From now on no process that is running is alone.
Start(p, c) ==
  /\ ~Running(p)
  /\ runs < MaxRuns /\ runs' = runs + 1
  /\ run' = [q \in Proc |->
       IF q = p
         THEN [args |-> c, at |-> "started", now |-> clock,
               st |-> NoChecks, evs |-> << >>,
               alone |-> \A o \in Proc \ {p} : ~Running(o)]
       ELSE IF Running(q) THEN [run[q] EXCEPT !.alone = FALSE]
       ELSE NoRun]
  /\ UNCHANGED << clock, file, raised, sent, acked, solo, updatedAt >>

\* state.Load, then RecordPing, RecordFail or Sweep on what was loaded.
Outcome(r, st) ==
  LET n == r.args.check IN
  CASE r.args.cmd = "ping"  -> [st EXCEPT ![n] = PingCheck(st[n], 0, r.now)]
    [] r.args.cmd = "fail"  -> [st EXCEPT ![n] = FailCheck(st[n], 0, r.now)]
    [] r.args.cmd = "sweep" -> Sweep(Cfg, st, r.now)

OutcomeEvents(r, st) ==
  LET n == r.args.check IN
  CASE r.args.cmd = "ping"  -> PingEvents(n, st[n], 0, r.now)
    [] r.args.cmd = "fail"  -> FailEvents(n, st[n], 0, r.now)
    [] r.args.cmd = "sweep" -> SweepEvents(Cfg, st, r.now)

LoadState(p) ==
  /\ Running(p) /\ run[p].at = "started"
  /\ run' = [run EXCEPT ![p].at  = "loaded",
                        ![p].st  = Outcome(run[p], file),
                        ![p].evs = OutcomeEvents(run[p], file)]
  /\ UNCHANGED << clock, file, runs, raised, sent, acked, solo, updatedAt >>

\* What receivers tell alerts apart by.
Told(e) == [type |-> e.type, prev |-> e.prev]

\* The alerts among evs that are about check n.
About(n, evs) ==
  LET mine == Keep(evs, {e \in Elements(evs) : e.check = n})
  IN  [i \in DOMAIN mine |-> Told(mine[i])]

\* mutant: nothing is written when there is nothing to tell
SaveBug(p) ==
  /\ Running(p) /\ run[p].at = "loaded"
  /\ file' = IF run[p].evs = << >> THEN file ELSE run[p].st
  /\ run' = [run EXCEPT ![p].at = "saved", ![p].st = NoChecks]
  /\ raised' = [n \in Name |-> raised[n] \o About(n, run[p].evs)]
  /\ updatedAt' = run[p].now
  /\ UNCHANGED << clock, runs, sent, acked, solo >>

\* mutant: the later of the two last pings is kept, and nothing else merged
SaveMergeBug(p) ==
  /\ Running(p) /\ run[p].at = "loaded"
  /\ file' = [n \in Name |->
       IF file[n].lastPing > run[p].st[n].lastPing
         THEN [run[p].st[n] EXCEPT !.lastPing = file[n].lastPing]
         ELSE run[p].st[n]]
  /\ run' = [run EXCEPT ![p].at = "saved", ![p].st = NoChecks]
  /\ raised' = [n \in Name |-> raised[n] \o About(n, run[p].evs)]
  /\ updatedAt' = run[p].now
  /\ UNCHANGED << clock, runs, sent, acked, solo >>

Save(p) ==
  /\ Running(p) /\ run[p].at = "loaded"
  /\ file' = run[p].st
  /\ run' = [run EXCEPT ![p].at = "saved", ![p].st = NoChecks]
  /\ raised' = [n \in Name |-> raised[n] \o About(n, run[p].evs)]
  /\ updatedAt' = run[p].now
  /\ UNCHANGED << clock, runs, sent, acked, solo >>

\* mutant: the error is a warning and the alerts go out all the same
SaveFailsBug(p) ==
  /\ Running(p) /\ run[p].at = "loaded"
  /\ run' = [run EXCEPT ![p].at = "saved", ![p].st = NoChecks]
  /\ UNCHANGED << clock, file, runs, raised, sent, acked, solo, updatedAt >>

\* Exit 3: the transition is not recorded, so nobody is told of it.
SaveFails(p) ==
  /\ Running(p) /\ run[p].at = "loaded"
  /\ run' = [run EXCEPT ![p] = NoRun]
  /\ UNCHANGED << clock, file, runs, raised, sent, acked, solo, updatedAt >>

\* mutant: an answer that comes too late is taken for a failure and the event
\* is sent again
DispatchBug(p, delivered) ==
  /\ Running(p) /\ run[p].at = "saved" /\ run[p].evs # << >>
  /\ LET e == Head(run[p].evs)
     IN  sent' = [sent EXCEPT ![e.check] = Append(@, Told(e))]
  /\ run' = IF delivered THEN [run EXCEPT ![p].evs = Tail(@)] ELSE run
  /\ \A n \in Name : Len(sent[n]) < 2 * MaxRuns
  /\ UNCHANGED << clock, file, runs, raised, acked, solo, updatedAt >>

\* One event at a time, once each: a delivery that fails is a warning on
\* stderr and is not repeated.
Dispatch(p, delivered) ==
  /\ Running(p) /\ run[p].at = "saved" /\ run[p].evs # << >>
  /\ LET e == Head(run[p].evs)
     IN  sent' = IF delivered
                   THEN [sent EXCEPT ![e.check] = Append(@, Told(e))]
                   ELSE sent
  /\ run' = [run EXCEPT ![p].evs = Tail(@)]
  /\ UNCHANGED << clock, file, runs, raised, acked, solo, updatedAt >>

\* The process exits 0: whoever started it may rely on what it recorded.
Later(f, n, t) == [f EXCEPT ![n] = IF t > @ THEN t ELSE @]

Exit(p) ==
  /\ Running(p) /\ run[p].at = "saved" /\ run[p].evs = << >>
  /\ run' = [run EXCEPT ![p] = NoRun]
  /\ LET c == run[p].args IN
     /\ acked' = IF c \in Contacts /\ c.cmd = "ping"
                   THEN Later(acked, c.check, run[p].now) ELSE acked
     /\ solo' = IF c \in Contacts /\ run[p].alone
                  THEN Later(solo, c.check, run[p].now) ELSE solo
  /\ UNCHANGED << clock, file, runs, raised, sent, updatedAt >>

Kill(p) ==
  /\ Running(p)
  /\ run' = [run EXCEPT ![p] = NoRun]
  /\ UNCHANGED << clock, file, runs, raised, sent, acked, solo, updatedAt >>

Step(p) ==
  \/ \E c \in Commands : Start(p, c)
  \/ LoadState(p)
  \/ Save(p) \/ SaveFails(p)
  \/ \E delivered \in BOOLEAN : Dispatch(p, delivered)
  \/ Exit(p)
  \/ Kill(p)

Next == Tick \/ \E p \in Proc : Step(p)

Spec == Init /\ [][Next]_vars

-----------------------------------------------------------------------------
(***************************************************************************)
(* Properties.                                                             *)
(***************************************************************************)
Alert == [type : EventTypes, prev : Statuses]

\* Types of the variables, and no process ahead of the clock.
TypeOK ==
  /\ clock \in 1..MaxClock /\ runs \in 0..MaxRuns /\ updatedAt \in 0..clock
  /\ file \in [Name -> CheckState]
  /\ run \in [Proc -> Process \cup {NoRun}]
  /\ \A p \in Proc : Running(p) => run[p].now \in 1..clock
  /\ raised \in [Name -> Seq(Alert)] /\ sent \in [Name -> Seq(Alert)]
  /\ acked \in [Name -> 0..clock] /\ solo \in [Name -> 0..clock]

Mon == INSTANCE Monitor WITH
  Configs <- {Cfg}, Instants <- 1..MaxClock, Notes <- {0}, Monotone <- TRUE,
  MaxContacts <- MaxRuns,
  cfg <- Cfg, clock <- updatedAt, st <- file, raised <- raised

\* A command that has run with no other beside it until it saves is its one call
\* of Monitor on the state the file holds, whatever overlapped before it, however
\* many were killed and however many saves failed.
Saves(p) == Running(p) /\ run[p].at = "loaded" /\ run'[p] # NoRun /\ run'[p].at = "saved"

CallOf(r) ==
  CASE r.args.cmd = "ping"  -> Mon!RecordPing(r.args.check, 0, r.now)
    [] r.args.cmd = "fail"  -> Mon!RecordFail(r.args.check, 0, r.now)
    [] r.args.cmd = "sweep" -> Mon!SweepAll(r.now)

SoloSavesAreCalls ==
  [][\A p \in Proc : Saves(p) /\ run[p].alone => CallOf(run[p])]_vars

\* Receivers are told nothing more often than it was recorded: kills and failed
\* deliveries leave gaps, no more.
Count(s, al) == Cardinality({i \in DOMAIN s : s[i] = al})

NothingInvented ==
  \A n \in Name : \A al \in Alert : Count(sent[n], al) <= Count(raised[n], al)

\* Whatever runs beside what, the file holds entries that explain themselves.
EntriesExplained == \A n \in Name : Mon!EntryExplained(file[n])

\* A ping or failure report whose process ran with no other beside it is never
\* lost, whatever runs side by side later and is killed.
SoloContactsKept == \A n \in Name : file[n].lastPing >= solo[n]

\* A down alert is unfounded if the latest ping a process has exited 0 for was
\* made before the instant of the alert, and recently enough.
Founded(e) ==
  \/ acked[e.check] >= e.at
  \/ acked[e.check] + Cfg.interval[e.check] + Cfg.grace[e.check] < e.at

\* docs/config.md: down fires when "a check passes interval + grace without
\* pinging": no process is about to deliver an unfounded one, were it one that
\* has run with no other beside it.
NoFalseDown ==
  \A p \in Proc : Running(p) /\ run[p].at = "saved" /\ run[p].alone =>
    \A i \in DOMAIN run[p].evs : run[p].evs[i].type = "down" => Founded(run[p].evs[i])
=============================================================================
