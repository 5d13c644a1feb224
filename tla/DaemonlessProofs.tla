-------------------------- MODULE DaemonlessProofs --------------------------
(***************************************************************************)
(* Proofs about Daemonless, for any number of processes side by side,      *)
(* killed anywhere: what survives without a lock on the file.  Entries     *)
(* explain themselves, a process that ran alone is not lost and is one     *)
(* call of the monitor, and receivers are told nothing that was not        *)
(* recorded.                                                               *)
(***************************************************************************)
EXTENDS Daemonless, MonitorOpsProofs, FiniteSetTheorems

\* What was proved of the monitor, with the file for its state.
MonP == INSTANCE MonitorProofs WITH
  Configs <- {Cfg}, Instants <- 1..MaxClock, Notes <- {0}, Monotone <- TRUE,
  MaxContacts <- MaxRuns,
  cfg <- Cfg, clock <- updatedAt, st <- file, raised <- raised

-----------------------------------------------------------------------------
(***************************************************************************)
(* The inductive invariant.                                                *)
(***************************************************************************)
Loaded(p) == Running(p) /\ run[p].at = "loaded"
Saved(p)  == Running(p) /\ run[p].at = "saved"

\* What the file holds and what a process is about to save explains itself.
Explained ==
  /\ EntriesExplained
  /\ \A p \in Proc : Loaded(p) => \A n \in Name : Mon!EntryExplained(run[p].st[n])

\* A process has at most one event per check, and none before it has loaded.
FewEvents == \A p \in Proc : Running(p) => OnePerCheck(run[p].evs)

\* Each contact in an entry is one of a process that has been started, and not of
\* one that has yet to save.
Unsaved == {p \in Proc : Running(p) /\ run[p].at \in {"started", "loaded"}}

Made(cs) == cs.pings + cs.fails

ContactsCounted ==
  /\ IsFiniteSet(Unsaved)
  /\ \A n \in Name : Made(file[n]) + Cardinality(Unsaved) <= runs
  /\ \A p \in Proc : Loaded(p) =>
       \A n \in Name : Made(run[p].st[n]) + Cardinality(Unsaved) <= runs + 1

\* No running process can save a state from before a contact that counts.
SoloKept ==
  /\ SoloContactsKept
  /\ \A p \in Proc : Running(p) => \A n \in Name : run[p].now >= solo[n]
  /\ \A p \in Proc : Loaded(p) => \A n \in Name : run[p].st[n].lastPing >= solo[n]

\* The file is what a process that is alone has found and left.
AloneOK(p) ==
  /\ \A q \in Proc : Running(q) => q = p
  /\ run[p].now >= updatedAt
  /\ Loaded(p) => /\ run[p].st = Outcome(run[p], file)
                  /\ run[p].evs = OutcomeEvents(run[p], file)
  /\ Saved(p) /\ run[p].args \in Contacts => file[run[p].args.check].lastPing = run[p].now

AloneUndisturbed == \A p \in Proc : Running(p) /\ run[p].alone => AloneOK(p)

\* Each alert sent about n, and each that a process still has to send, has been
\* recorded, and no two of them by the same record.
Owes(R, p, n) ==
  /\ R[p] # NoRun /\ R[p].at = "saved"
  /\ \E k \in DOMAIN R[p].evs : R[p].evs[k].check = n

Has(R, p, n, al) ==
  \E k \in DOMAIN R[p].evs : R[p].evs[k].check = n /\ Told(R[p].evs[k]) = al

Backing(n, R, f, g, s, r) ==
  /\ f \in [DOMAIN s -> DOMAIN r] /\ g \in [Proc -> DOMAIN r \cup {0}]
  /\ \A i \in DOMAIN s : r[f[i]] = s[i]
  /\ \A i, j \in DOMAIN s : f[i] = f[j] => i = j
  /\ \A p \in Proc : Owes(R, p, n) =>
       /\ g[p] \in DOMAIN r /\ Has(R, p, n, r[g[p]])
       /\ \A i \in DOMAIN s : g[p] # f[i]
       /\ \A q \in Proc : Owes(R, q, n) /\ g[p] = g[q] => p = q

IsBacked(n, R, s, r) ==
  \E f \in [DOMAIN s -> DOMAIN r], g \in [Proc -> DOMAIN r \cup {0}] : Backing(n, R, f, g, s, r)

Backed == \A n \in Name : IsBacked(n, run, sent[n], raised[n])

IInv ==
  /\ TypeOK /\ Explained /\ FewEvents /\ ContactsCounted /\ SoloKept /\ AloneUndisturbed
  /\ Backed

-----------------------------------------------------------------------------
(***************************************************************************)
(* What a process computes.                                                *)
(***************************************************************************)

\* A command line is a contact of some check, or a sweep.
LEMMA CommandIs ==
  ASSUME NEW c \in Commands
  PROVE  \/ c \in Contacts /\ c.cmd \in {"ping", "fail"} /\ c.check \in Name
         \/ c \notin Contacts /\ c.cmd = "sweep"
BY DEF Commands, Contacts

\* The two modules have the same monitor functions.
LEMMA SameMonitor ==
  /\ MonP!CheckState = CheckState /\ MonP!Config = Config /\ MonP!ZeroTime = ZeroTime
  /\ \A cs, note, now : MonP!PingCheck(cs, note, now) = PingCheck(cs, note, now)
  /\ \A cs, note, now : MonP!FailCheck(cs, note, now) = FailCheck(cs, note, now)
  /\ \A c, n, cs, now : MonP!SweepCheck(c, n, cs, now) = SweepCheck(c, n, cs, now)
  /\ \A cs : MonP!EntryExplained(cs) = Mon!EntryExplained(cs)
  /\ MonP!Fresh = Fresh
<1>1. /\ MonP!CheckState = CheckState /\ MonP!Config = Config /\ MonP!ZeroTime = ZeroTime
      /\ MonP!Fresh = Fresh
  BY DEF MonP!CheckState, CheckState, MonP!Config, Config, MonP!ZeroTime, ZeroTime,
         MonP!Statuses, Statuses, MonP!EventTypes, EventTypes, MonP!NoEventYet, NoEventYet,
         MonP!Fresh, Fresh
<1>2. \A note : MonP!ClipNote(note) = ClipNote(note)
  BY DEF MonP!ClipNote, ClipNote
<1>3. /\ \A cs, note, now : MonP!PingCheck(cs, note, now) = PingCheck(cs, note, now)
      /\ \A cs, note, now : MonP!FailCheck(cs, note, now) = FailCheck(cs, note, now)
  BY <1>2 DEF MonP!PingCheck, PingCheck, MonP!FailCheck, FailCheck
<1>4. \A c, n, cs : /\ MonP!Deadline(c, n, cs) = Deadline(c, n, cs)
                    /\ MonP!GraceEnd(c, n, cs) = GraceEnd(c, n, cs)
  BY DEF MonP!Deadline, Deadline, MonP!GraceEnd, GraceEnd
<1>5. \A c, n, cs, now : /\ MonP!GoesDown(c, n, cs, now) = GoesDown(c, n, cs, now)
                         /\ MonP!GoesLate(c, n, cs, now) = GoesLate(c, n, cs, now)
  BY <1>4 DEF MonP!GoesDown, GoesDown, MonP!GoesLate, GoesLate
<1>6. \A c, n, cs, now : /\ MonP!Fires(c, n, cs, now) = Fires(c, n, cs, now)
                         /\ MonP!SweptTo(c, n, cs, now) = SweptTo(c, n, cs, now)
  BY <1>5 DEF MonP!Fires, Fires, MonP!SweptTo, SweptTo
<1>7. \A c, n, cs, now : MonP!SweepCheck(c, n, cs, now) = SweepCheck(c, n, cs, now)
  BY <1>6 DEF MonP!SweepCheck, SweepCheck
<1>8. \A cs : MonP!EntryExplained(cs) = Mon!EntryExplained(cs)
  BY DEF MonP!EntryExplained, Mon!EntryExplained, MonP!ZeroTime, Mon!ZeroTime,
         MonP!NoEventYet, Mon!NoEventYet, MonP!Opening, Mon!Opening
<1> QED BY <1>1, <1>3, <1>7, <1>8

\* An entry that explains itself still does after a call, at any instant: what
\* MonitorProofs shows of entries, which does not need the calls to be in order.
LEMMA ExplainedCall ==
  ASSUME NEW cs \in CheckState, Mon!EntryExplained(cs), NEW n \in Name, NEW now \in Nat \ {0}
  PROVE  /\ Mon!EntryExplained(PingCheck(cs, 0, now))
         /\ Mon!EntryExplained(FailCheck(cs, 0, now))
         /\ Mon!EntryExplained(SweepCheck(Cfg, n, cs, now))
<1>1. cs \in MonP!CheckState /\ MonP!EntryExplained(cs) /\ Cfg \in MonP!Config
  BY SameMonitor, DaemonlessAssumption
<1>2. now \in Nat \ {MonP!ZeroTime} /\ 0 \in Nat
  BY SameMonitor DEF ZeroTime
<1>3. /\ MonP!EntryExplained(MonP!PingCheck(cs, 0, now))
      /\ MonP!EntryExplained(MonP!FailCheck(cs, 0, now))
      /\ MonP!EntryExplained(MonP!SweepCheck(Cfg, n, cs, now))
  <2>1. MonP!MaxNoteAssumption
    BY MaxNoteAssumption
  <2>2. MonP!MonitorAssumption
    BY DaemonlessAssumption, SameMonitor DEF ZeroTime
  <2> QED BY <1>1, <1>2, <2>1, <2>2, MonP!EntryStep
<1> QED BY <1>3, SameMonitor

\* A command computes well-formed entries and events, counts one contact at the
\* most, and contacts a check at its own instant or not at all.
LEMMA OutcomeIs ==
  ASSUME NEW r \in Process, r.now # 0, NEW s \in [Name -> CheckState]
  PROVE  /\ Outcome(r, s) \in [Name -> CheckState]
         /\ OnePerCheck(OutcomeEvents(r, s))
         /\ \A n \in Name :
              /\ Made(Outcome(r, s)[n]) <= Made(s[n]) + 1
              /\ Outcome(r, s)[n].lastPing \in {s[n].lastPing, r.now}
              /\ Mon!EntryExplained(s[n]) => Mon!EntryExplained(Outcome(r, s)[n])
         /\ r.args \in Contacts => Outcome(r, s)[r.args.check].lastPing = r.now
<1>1. r.args \in Commands /\ r.now \in Nat \ {0} /\ r.now \in Nat
  BY DEF Process
<1>2. Cfg \in Config /\ Configured(Cfg) = Name
  BY DaemonlessAssumption
<1>3. \A n \in Name : s[n].pings \in Nat /\ s[n].fails \in Nat
  BY DEF CheckState
<1>4. CASE r.args.cmd = "sweep"
  <2>1. /\ Outcome(r, s) = Sweep(Cfg, s, r.now)
        /\ OutcomeEvents(r, s) = SweepEvents(Cfg, s, r.now)
    BY <1>4 DEF Outcome, OutcomeEvents
  <2>2. r.args \notin Contacts
    BY <1>4 DEF Contacts
  <2>3. Outcome(r, s) \in [Name -> CheckState] /\ OnePerCheck(OutcomeEvents(r, s))
    BY <1>1, <1>2, <2>1, SweepTypes, SweepEventsAre
  <2>4. ASSUME NEW n \in Name
        PROVE  /\ Made(Outcome(r, s)[n]) <= Made(s[n]) + 1
               /\ Outcome(r, s)[n].lastPing = s[n].lastPing
               /\ Mon!EntryExplained(s[n]) => Mon!EntryExplained(Outcome(r, s)[n])
    <3>1. Outcome(r, s)[n] = SweepCheck(Cfg, n, s[n], r.now)
      BY <1>2, <2>1 DEF Sweep
    <3>2. /\ SweepCheck(Cfg, n, s[n], r.now).lastPing = s[n].lastPing
          /\ SweepCheck(Cfg, n, s[n], r.now).pings = s[n].pings
          /\ SweepCheck(Cfg, n, s[n], r.now).fails = s[n].fails
      BY DEF SweepCheck, CheckState
    <3>3. Made(Outcome(r, s)[n]) <= Made(s[n]) + 1
      BY <1>3, <3>1, <3>2 DEF Made
    <3> QED BY <1>1, <3>1, <3>2, <3>3, ExplainedCall
  <2> QED BY <2>2, <2>3, <2>4
<1>5. CASE r.args \in Contacts /\ r.args.cmd \in {"ping", "fail"} /\ r.args.check \in Name
  <2> DEFINE m == r.args.check
             e == Outcome(r, s)[m]
  <2>1. /\ r.args.cmd = "ping" => /\ Outcome(r, s) = [s EXCEPT ![m] = PingCheck(s[m], 0, r.now)]
                                  /\ OutcomeEvents(r, s) = PingEvents(m, s[m], 0, r.now)
        /\ r.args.cmd = "fail" => /\ Outcome(r, s) = [s EXCEPT ![m] = FailCheck(s[m], 0, r.now)]
                                  /\ OutcomeEvents(r, s) = FailEvents(m, s[m], 0, r.now)
    BY DEF Outcome, OutcomeEvents
  <2>2. m \in Name /\ s[m] \in CheckState
    BY <1>5
  <2>3. /\ PingCheck(s[m], 0, r.now) \in CheckState /\ FailCheck(s[m], 0, r.now) \in CheckState
    BY <1>1, <1>2, <2>2, CheckTypes, 0 \in Nat
  <2>4. /\ PingCheck(s[m], 0, r.now).lastPing = r.now
        /\ FailCheck(s[m], 0, r.now).lastPing = r.now
        /\ Made(PingCheck(s[m], 0, r.now)) = Made(s[m]) + 1
        /\ Made(FailCheck(s[m], 0, r.now)) = Made(s[m]) + 1
    <3>1. /\ PingCheck(s[m], 0, r.now).pings = s[m].pings + 1
          /\ PingCheck(s[m], 0, r.now).fails = s[m].fails
          /\ FailCheck(s[m], 0, r.now).pings = s[m].pings
          /\ FailCheck(s[m], 0, r.now).fails = s[m].fails + 1
          /\ PingCheck(s[m], 0, r.now).lastPing = r.now
          /\ FailCheck(s[m], 0, r.now).lastPing = r.now
      BY DEF PingCheck, FailCheck
    <3>2. s[m].pings \in Nat /\ s[m].fails \in Nat
      BY <1>3, <2>2
    <3> HIDE DEF m
    <3> QED BY <3>1, <3>2 DEF Made
  <2>5. \A evs \in {PingEvents(m, s[m], 0, r.now), FailEvents(m, s[m], 0, r.now)} : OnePerCheck(evs)
    <3> HIDE DEF m
    <3> QED BY <1>1, <2>2, ContactEventsAre, 0 \in Nat
  <2>6. /\ Mon!EntryExplained(s[m]) => Mon!EntryExplained(PingCheck(s[m], 0, r.now))
        /\ Mon!EntryExplained(s[m]) => Mon!EntryExplained(FailCheck(s[m], 0, r.now))
    <3> HIDE DEF m
    <3> QED BY <1>1, <2>2, ExplainedCall
  <2>7. /\ Outcome(r, s) \in [Name -> CheckState] /\ OnePerCheck(OutcomeEvents(r, s))
        /\ e.lastPing = r.now /\ Made(e) = Made(s[m]) + 1
        /\ Mon!EntryExplained(s[m]) => Mon!EntryExplained(e)
        /\ \A n \in Name : n # m => Outcome(r, s)[n] = s[n]
    <3> HIDE DEF m
    <3>1. CASE r.args.cmd = "ping"
      BY <2>1, <2>2, <2>3, <2>4, <2>5, <2>6, <3>1
    <3>2. CASE r.args.cmd = "fail"
      BY <2>1, <2>2, <2>3, <2>4, <2>5, <2>6, <3>2
    <3> QED BY <1>5, <3>1, <3>2
  <2>8. \A n \in Name : Made(s[n]) \in Nat
    BY <1>3 DEF Made
  <2> HIDE DEF m
  <2>9. \A n \in Name :
          /\ Made(Outcome(r, s)[n]) <= Made(s[n]) + 1
          /\ Outcome(r, s)[n].lastPing \in {s[n].lastPing, r.now}
          /\ Mon!EntryExplained(s[n]) => Mon!EntryExplained(Outcome(r, s)[n])
    <3> TAKE n \in Name
    <3>1. CASE n = m
      BY <2>2, <2>7, <2>8, <3>1
    <3>2. CASE n # m
      BY <2>7, <2>8, <3>2
    <3> QED BY <3>1, <3>2
  <2> QED BY <2>7, <2>9 DEF m
<1> QED BY <1>1, <1>4, <1>5, CommandIs

\* What a command computes depends on what it was asked to do, and when.
LEMMA OutcomeOf ==
  ASSUME NEW r, NEW q, q.args = r.args, q.now = r.now, NEW s
  PROVE  Outcome(q, s) = Outcome(r, s) /\ OutcomeEvents(q, s) = OutcomeEvents(r, s)
BY DEF Outcome, OutcomeEvents

-----------------------------------------------------------------------------
(***************************************************************************)
(* The steps.                                                              *)
(***************************************************************************)

\* A running process has all its locals.
LEMMA RunningIs ==
  ASSUME TypeOK, NEW p \in Proc, Running(p)
  PROVE  /\ run[p] \in Process /\ run[p].args \in Commands
         /\ run[p].at \in {"started", "loaded", "saved"}
         /\ run[p].now \in 1..clock /\ run[p].now \in Nat /\ run[p].now # 0
         /\ run[p].st \in [Name -> CheckState] /\ run[p].evs \in Seq(Event)
         /\ run[p].alone \in BOOLEAN
<1>1. run[p] \in Process /\ run[p].now \in 1..clock /\ clock \in Nat
  BY DaemonlessAssumption DEF TypeOK, Running
<1> QED BY <1>1 DEF Process

\* No process is the mark of a free slot.
LEMMA ProcessIs ==
  ASSUME NEW r \in Process
  PROVE  r # NoRun
BY DaemonlessAssumption

\* A process goes on as it was, though maybe no longer alone.
Undisturbed(q) ==
  /\ Running(q)' <=> Running(q)
  /\ Running(q) =>
       /\ run'[q] \in Process
       /\ run'[q].args = run[q].args /\ run'[q].at = run[q].at /\ run'[q].now = run[q].now
       /\ run'[q].st = run[q].st /\ run'[q].evs = run[q].evs
       /\ run'[q].alone => run[q].alone

OthersUndisturbed(p) == \A q \in Proc : q # p => Undisturbed(q)

\* p is gone, or has another record.
Left(p)       == run' \in [Proc -> Process \cup {NoRun}] /\ run'[p] = NoRun
Continues(p)  == run' \in [Proc -> Process \cup {NoRun}] /\ run'[p] \in Process
SameOrders(p) == run'[p].args = run[p].args /\ run'[p].now = run[p].now /\ run'[p].alone = run[p].alone

\* Replacing the record of p leaves the others as they are.
LEMMA ReplaceIs ==
  ASSUME TypeOK, NEW p \in Proc, NEW r \in Process \cup {NoRun}, run' = [run EXCEPT ![p] = r]
  PROVE  /\ run' \in [Proc -> Process \cup {NoRun}] /\ run'[p] = r
         /\ OthersUndisturbed(p)
<1>1. run \in [Proc -> Process \cup {NoRun}]
  BY DEF TypeOK
<1>2. \A q \in Proc : q # p => run'[q] = run[q]
  BY <1>1
<1>3. OthersUndisturbed(p)
  BY <1>1, <1>2 DEF OthersUndisturbed, Undisturbed, Running
<1> QED BY <1>1, <1>3

\* The records a process has on its way.
AtLoaded(r, s, evs) == [r EXCEPT !.at = "loaded", !.st = s, !.evs = evs]
AtSaved(r)          == [r EXCEPT !.at = "saved", !.st = NoChecks]
WithEvents(r, evs)  == [r EXCEPT !.evs = evs]

\* The record of a process that has loaded the state and computed on it.
LEMMA LoadedRecord ==
  ASSUME NEW r \in Process, NEW s \in [Name -> CheckState], NEW evs \in Seq(Event)
  PROVE  /\ AtLoaded(r, s, evs) \in Process
         /\ AtLoaded(r, s, evs).at = "loaded" /\ AtLoaded(r, s, evs).st = s
         /\ AtLoaded(r, s, evs).evs = evs /\ AtLoaded(r, s, evs).args = r.args
         /\ AtLoaded(r, s, evs).now = r.now /\ AtLoaded(r, s, evs).alone = r.alone
BY DEF AtLoaded, Process

\* The record of a process that has saved: its events are still to be sent.
LEMMA SavedRecord ==
  ASSUME NEW r \in Process
  PROVE  /\ AtSaved(r) \in Process
         /\ AtSaved(r).at = "saved" /\ AtSaved(r).st = NoChecks
         /\ AtSaved(r).evs = r.evs /\ AtSaved(r).args = r.args
         /\ AtSaved(r).now = r.now /\ AtSaved(r).alone = r.alone
<1>1. NoChecks \in [Name -> CheckState]
  BY MaxNoteAssumption DEF NoChecks, Fresh, CheckState, Statuses, EventTypes, ZeroTime
<1> QED BY <1>1 DEF AtSaved, Process

\* The record of a process that has sent an event.
LEMMA ToldRecord ==
  ASSUME NEW r \in Process, NEW evs \in Seq(Event)
  PROVE  /\ WithEvents(r, evs) \in Process
         /\ WithEvents(r, evs).at = r.at /\ WithEvents(r, evs).st = r.st
         /\ WithEvents(r, evs).evs = evs /\ WithEvents(r, evs).args = r.args
         /\ WithEvents(r, evs).now = r.now /\ WithEvents(r, evs).alone = r.alone
BY DEF WithEvents, Process

\* cron starts a process: it has computed nothing, and nobody is alone any longer.
LEMMA StartIs ==
  ASSUME TypeOK, NEW p \in Proc, NEW c \in Commands, Start(p, c)
  PROVE  /\ ~Running(p) /\ runs < MaxRuns /\ runs' = runs + 1
         /\ Continues(p) /\ OthersUndisturbed(p)
         /\ run'[p].args = c /\ run'[p].at = "started" /\ run'[p].now = clock
         /\ run'[p].evs = << >>
         /\ run'[p].alone => \A q \in Proc : q # p => ~Running(q)
         /\ \A q \in Proc : q # p /\ Running(q) => ~run'[q].alone
         /\ UNCHANGED << clock, file, raised, sent, acked, solo, updatedAt >>
<1> DEFINE new == [args |-> c, at |-> "started", now |-> clock, st |-> NoChecks,
                   evs |-> << >>, alone |-> \A o \in Proc \ {p} : ~Running(o)]
<1>1. /\ ~Running(p) /\ runs < MaxRuns /\ runs' = runs + 1
      /\ run' = [q \in Proc |->
           IF q = p THEN new
           ELSE IF Running(q) THEN [run[q] EXCEPT !.alone = FALSE] ELSE NoRun]
      /\ UNCHANGED << clock, file, raised, sent, acked, solo, updatedAt >>
  BY DEF Start
<1>2. new \in Process
  <2>1. NoChecks \in [Name -> CheckState]
    BY MaxNoteAssumption DEF NoChecks, Fresh, CheckState, Statuses, EventTypes, ZeroTime
  <2>2. << >> \in Seq(Event) /\ clock \in Nat
    BY EmptySeq DEF TypeOK
  <2>3. (\A o \in Proc \ {p} : ~Running(o)) \in BOOLEAN
    OBVIOUS
  <2> QED BY <2>1, <2>2, <2>3 DEF Process
<1>3. new.args = c /\ new.at = "started" /\ new.now = clock /\ new.evs = << >>
  OBVIOUS
<1>4. new.alone => \A q \in Proc : q # p => ~Running(q)
  OBVIOUS
<1> HIDE DEF new
<1>5. run'[p] = new
  BY <1>1
<1>6. ASSUME NEW q \in Proc, q # p
      PROVE  Undisturbed(q) /\ (Running(q) => ~run'[q].alone) /\ run'[q] \in Process \cup {NoRun}
  <2>1. CASE Running(q)
    <3>1. run'[q] = [run[q] EXCEPT !.alone = FALSE] /\ run[q] \in Process
      BY <1>1, <1>6, <2>1, RunningIs
    <3>2. /\ run'[q] \in Process
          /\ run'[q].args = run[q].args /\ run'[q].at = run[q].at /\ run'[q].now = run[q].now
          /\ run'[q].st = run[q].st /\ run'[q].evs = run[q].evs /\ ~run'[q].alone
      BY <3>1 DEF Process
    <3>3. Running(q)'
      BY <3>2, ProcessIs DEF Running
    <3> QED BY <2>1, <3>2, <3>3 DEF Undisturbed
  <2>2. CASE ~Running(q)
    <3>1. run'[q] = NoRun
      BY <1>1, <1>6, <2>2
    <3> QED BY <2>2, <3>1 DEF Undisturbed, Running
  <2> QED BY <2>1, <2>2
<1>7. run' \in [Proc -> Process \cup {NoRun}]
  BY <1>1, <1>2, <1>5, <1>6
<1> QED BY <1>1, <1>2, <1>3, <1>4, <1>5, <1>6, <1>7 DEF Continues, OthersUndisturbed

\* The process computes its new state and events on what the file holds.
LEMMA LoadIs ==
  ASSUME TypeOK, NEW p \in Proc, LoadState(p)
  PROVE  /\ Running(p) /\ run[p].at = "started"
         /\ Continues(p) /\ SameOrders(p) /\ OthersUndisturbed(p)
         /\ run'[p].at = "loaded"
         /\ run'[p].st = Outcome(run[p], file) /\ run'[p].evs = OutcomeEvents(run[p], file)
         /\ UNCHANGED << clock, file, runs, raised, sent, acked, solo, updatedAt >>
<1> DEFINE s == Outcome(run[p], file)
           evs == OutcomeEvents(run[p], file)
<1>1. /\ Running(p) /\ run[p].at = "started"
      /\ UNCHANGED << clock, file, runs, raised, sent, acked, solo, updatedAt >>
  BY DEF LoadState
<1>2. run[p] \in Process /\ run[p].now # 0 /\ file \in [Name -> CheckState]
  BY <1>1, RunningIs DEF TypeOK
<1>3. s \in [Name -> CheckState] /\ evs \in Seq(Event)
  BY <1>2, OutcomeIs DEF OnePerCheck
<1>4. run' = [run EXCEPT ![p].at = "loaded", ![p].st = s, ![p].evs = evs]
  BY DEF LoadState
<1> HIDE DEF s, evs
<1>5. run \in [Proc -> Process \cup {NoRun}]
  BY DEF TypeOK
<1>6. run' = [run EXCEPT ![p] = AtLoaded(run[p], s, evs)]
  BY <1>4, <1>5 DEF AtLoaded
<1>7. /\ AtLoaded(run[p], s, evs) \in Process /\ AtLoaded(run[p], s, evs).at = "loaded"
      /\ AtLoaded(run[p], s, evs).st = s /\ AtLoaded(run[p], s, evs).evs = evs
      /\ AtLoaded(run[p], s, evs).args = run[p].args
      /\ AtLoaded(run[p], s, evs).now = run[p].now
      /\ AtLoaded(run[p], s, evs).alone = run[p].alone
  BY <1>2, <1>3, LoadedRecord
<1>8. /\ run' \in [Proc -> Process \cup {NoRun}] /\ run'[p] = AtLoaded(run[p], s, evs)
      /\ OthersUndisturbed(p)
  BY <1>6, <1>7, ReplaceIs
<1> QED BY <1>1, <1>7, <1>8 DEF Continues, SameOrders, s, evs

\* The file is what the process has computed, and its alerts are recorded.
LEMMA SaveIs ==
  ASSUME TypeOK, NEW p \in Proc, Save(p)
  PROVE  /\ Loaded(p) /\ Continues(p) /\ SameOrders(p) /\ OthersUndisturbed(p)
         /\ run'[p].at = "saved" /\ run'[p].evs = run[p].evs
         /\ file' = run[p].st /\ updatedAt' = run[p].now
         /\ raised' = [n \in Name |-> raised[n] \o About(n, run[p].evs)]
         /\ UNCHANGED << clock, runs, sent, acked, solo >>
<1>1. /\ Loaded(p)
      /\ file' = run[p].st /\ updatedAt' = run[p].now
      /\ raised' = [n \in Name |-> raised[n] \o About(n, run[p].evs)]
      /\ UNCHANGED << clock, runs, sent, acked, solo >>
  BY DEF Save, Loaded
<1>2. run[p] \in Process /\ run \in [Proc -> Process \cup {NoRun}]
  BY <1>1, RunningIs DEF Loaded, TypeOK
<1>3. run' = [run EXCEPT ![p].at = "saved", ![p].st = NoChecks]
  BY DEF Save
<1>4. run' = [run EXCEPT ![p] = AtSaved(run[p])]
  BY <1>2, <1>3 DEF AtSaved
<1>5. run[p].st \in [Name -> CheckState] /\ run[p].evs \in Seq(Event)
  BY <1>2 DEF Process
<1>6. /\ AtSaved(run[p]) \in Process /\ AtSaved(run[p]).at = "saved"
      /\ AtSaved(run[p]).evs = run[p].evs /\ AtSaved(run[p]).args = run[p].args
      /\ AtSaved(run[p]).now = run[p].now /\ AtSaved(run[p]).alone = run[p].alone
  BY <1>2, SavedRecord
<1>7. /\ run' \in [Proc -> Process \cup {NoRun}] /\ run'[p] = AtSaved(run[p])
      /\ OthersUndisturbed(p)
  BY <1>4, <1>6, ReplaceIs
<1> QED BY <1>1, <1>6, <1>7 DEF Continues, SameOrders

\* The process ends: it exits, is killed, or its save has failed.
LEMMA LeavesIs ==
  ASSUME TypeOK, NEW p \in Proc, SaveFails(p) \/ Exit(p) \/ Kill(p)
  PROVE  /\ Running(p) /\ Left(p) /\ OthersUndisturbed(p)
         /\ UNCHANGED << clock, file, runs, raised, sent, updatedAt >>
<1>1. /\ Running(p) /\ run' = [run EXCEPT ![p] = NoRun]
      /\ UNCHANGED << clock, file, runs, raised, sent, updatedAt >>
  BY DEF SaveFails, Exit, Kill
<1> QED BY <1>1, ReplaceIs DEF Left

\* What an alert tells is well formed.
LEMMA ToldIs ==
  ASSUME NEW e \in Event
  PROVE  Told(e) \in Alert
BY DEF Event, Told, Alert

\* The first event is sent, or fails to be, and is forgotten either way.
LEMMA DispatchIs ==
  ASSUME TypeOK, NEW p \in Proc, NEW delivered \in BOOLEAN, Dispatch(p, delivered)
  PROVE  LET e == Head(run[p].evs) IN
         /\ Saved(p) /\ run[p].evs # << >> /\ e \in Event /\ e = run[p].evs[1]
         /\ 1 \in DOMAIN run[p].evs
         /\ Continues(p) /\ SameOrders(p) /\ OthersUndisturbed(p)
         /\ run'[p].at = "saved" /\ run'[p].evs = Tail(run[p].evs)
         /\ Tail(run[p].evs) \in Seq(Event)
         /\ \/ sent' = [sent EXCEPT ![e.check] = Append(sent[e.check], Told(e))]
            \/ sent' = sent
         /\ UNCHANGED << clock, file, runs, raised, acked, solo, updatedAt >>
<1> DEFINE e == Head(run[p].evs)
           t == Tail(run[p].evs)
<1>1. /\ Saved(p) /\ run[p].evs # << >>
      /\ \/ sent' = [sent EXCEPT ![e.check] = Append(sent[e.check], Told(e))]
         \/ sent' = sent
      /\ run' = [run EXCEPT ![p].evs = t]
      /\ UNCHANGED << clock, file, runs, raised, acked, solo, updatedAt >>
  BY DEF Dispatch, Saved
<1>2. run[p] \in Process /\ run[p].evs \in Seq(Event) /\ run \in [Proc -> Process \cup {NoRun}]
  BY <1>1, RunningIs DEF Saved, TypeOK
<1>3. t \in Seq(Event) /\ e \in Event /\ e = run[p].evs[1] /\ 1 \in DOMAIN run[p].evs
  BY <1>1, <1>2, HeadTailProperties, LenProperties, EmptySeq
<1> HIDE DEF e, t
<1>4. run' = [run EXCEPT ![p] = WithEvents(run[p], t)]
  BY <1>1, <1>2 DEF WithEvents
<1>5. /\ WithEvents(run[p], t) \in Process
      /\ WithEvents(run[p], t).at = run[p].at /\ WithEvents(run[p], t).evs = t
      /\ WithEvents(run[p], t).args = run[p].args
      /\ WithEvents(run[p], t).now = run[p].now
      /\ WithEvents(run[p], t).alone = run[p].alone
  BY <1>2, <1>3, ToldRecord
<1>6. /\ run' \in [Proc -> Process \cup {NoRun}] /\ run'[p] = WithEvents(run[p], t)
      /\ OthersUndisturbed(p)
  BY <1>4, <1>5, ReplaceIs
<1> QED BY <1>1, <1>3, <1>5, <1>6 DEF Continues, SameOrders, Saved, e, t

\* Of the alerts of a command, those about one check are none or one.
LEMMA AboutIs ==
  ASSUME NEW evs, OnePerCheck(evs), NEW n
  PROVE  /\ (\A k \in DOMAIN evs : evs[k].check # n) => About(n, evs) = << >>
         /\ \A k \in DOMAIN evs : evs[k].check = n => About(n, evs) = << Told(evs[k]) >>
         /\ About(n, evs) \in Seq(Alert)
<1> DEFINE mine == EventsOf(n, evs)
<1>1. About(n, evs) = [i \in DOMAIN mine |-> Told(mine[i])]
  BY DEF About, EventsOf
<1>2. /\ (\A k \in DOMAIN evs : evs[k].check # n) => mine = << >>
      /\ \A k \in DOMAIN evs : evs[k].check = n => mine = << evs[k] >>
  BY EventsOfOne
<1> HIDE DEF mine
<1>3. ASSUME mine = << >>
      PROVE  About(n, evs) = << >>
  <2>1. DOMAIN mine = {}
    BY <1>3, EmptySeq
  <2> QED BY <1>1, <2>1
<1>4. ASSUME NEW e, mine = << e >>
      PROVE  About(n, evs) = << Told(e) >>
  <2>1. DOMAIN mine = 1..1 /\ mine[1] = e
    BY <1>4
  <2> QED BY <1>1, <2>1
<1>5. About(n, evs) \in Seq(Alert)
  <2>1. CASE \A k \in DOMAIN evs : evs[k].check # n
    BY <1>2, <1>3, <2>1, EmptySeq
  <2>2. CASE \E k \in DOMAIN evs : evs[k].check = n
    <3>1. PICK k \in DOMAIN evs : evs[k].check = n
      BY <2>2
    <3>2. evs[k] \in Event
      BY <3>1, LenProperties, ElementOfSeq DEF OnePerCheck
    <3>3. About(n, evs) = << Told(evs[k]) >> /\ Told(evs[k]) \in Alert
      BY <1>2, <1>4, <3>1, <3>2, ToldIs
    <3> QED BY <3>3
  <2> QED BY <2>1, <2>2
<1> QED BY <1>2, <1>3, <1>4, <1>5

\* What a process that exits leaves in the histories.
LEMMA ExitIs ==
  ASSUME TypeOK, NEW p \in Proc, Exit(p)
  PROVE  /\ Saved(p) /\ run[p].evs = << >>
         /\ acked' \in [Name -> 0..clock] /\ solo' \in [Name -> 0..clock]
         /\ \/ solo' = solo
            \/ /\ run[p].args \in Contacts /\ run[p].alone
               /\ \A n \in Name : n # run[p].args.check => solo'[n] = solo[n]
               /\ solo'[run[p].args.check] \in {solo[run[p].args.check], run[p].now}
<1>1. /\ Saved(p) /\ run[p].evs = << >>
      /\ acked' = IF run[p].args \in Contacts /\ run[p].args.cmd = "ping"
                    THEN Later(acked, run[p].args.check, run[p].now) ELSE acked
      /\ solo' = IF run[p].args \in Contacts /\ run[p].alone
                   THEN Later(solo, run[p].args.check, run[p].now) ELSE solo
  BY DEF Exit, Saved
<1>2. /\ run[p].now \in 0..clock /\ clock \in Nat
      /\ acked \in [Name -> 0..clock] /\ solo \in [Name -> 0..clock]
  BY <1>1, RunningIs, DaemonlessAssumption DEF TypeOK, Saved
<1>3. ASSUME NEW f \in [Name -> 0..clock], NEW n \in Name, NEW t \in 0..clock
      PROVE  /\ Later(f, n, t) \in [Name -> 0..clock]
             /\ \A m \in Name : m # n => Later(f, n, t)[m] = f[m]
             /\ Later(f, n, t)[n] \in {f[n], t}
  BY <1>3 DEF Later
<1>4. run[p].args \in Contacts => run[p].args.check \in Name
  BY DEF Contacts
<1> QED BY <1>1, <1>2, <1>3, <1>4

\* Most steps leave most processes alone.
LEMMA SameRun ==
  ASSUME TypeOK, run' = run
  PROVE  run' \in [Proc -> Process \cup {NoRun}] /\ \A q \in Proc : Undisturbed(q)
<1>1. run \in [Proc -> Process \cup {NoRun}]
  BY DEF TypeOK
<1>2. \A q \in Proc : Running(q) => run[q] \in Process
  BY RunningIs
<1> QED BY <1>1, <1>2 DEF Undisturbed, Running

-----------------------------------------------------------------------------
(***************************************************************************)
(* One lemma per part of the invariant.                                    *)
(***************************************************************************)
LEMMA InitIs ==
  ASSUME Init
  PROVE  IInv
<1>1. NoChecks \in [Name -> CheckState] /\ \A n \in Name : NoChecks[n] = Fresh
  BY MaxNoteAssumption DEF NoChecks, Fresh, CheckState, Statuses, EventTypes, ZeroTime
<1>2. \A p \in Proc : ~Running(p)
  BY DEF Init, Running
<1>3. TypeOK
  BY <1>1, <1>2, DaemonlessAssumption, EmptySeq DEF Init, TypeOK, ZeroTime
<1>4. Explained
  <2>1. Mon!EntryExplained(Fresh)
    BY DEF Mon!EntryExplained, Fresh, Mon!ZeroTime, ZeroTime, Mon!NoEventYet, NoEventYet, Mon!Opening
  <2> QED BY <1>1, <1>2, <2>1 DEF Explained, EntriesExplained, Loaded, Init
<1>5. FewEvents
  BY <1>2 DEF FewEvents
<1>6. ContactsCounted
  <2>1. Unsaved = {}
    BY <1>2 DEF Unsaved
  <2>2. IsFiniteSet(Unsaved) /\ Cardinality(Unsaved) = 0
    BY <2>1, FS_EmptySet
  <2>3. \A n \in Name : Made(file[n]) = 0
    BY <1>1 DEF Init, Made, Fresh
  <2> QED BY <1>2, <2>2, <2>3 DEF ContactsCounted, Loaded, Init
<1>7. SoloKept
  BY <1>1, <1>2 DEF SoloKept, SoloContactsKept, Loaded, Init, Fresh, ZeroTime
<1>8. AloneUndisturbed
  BY <1>2 DEF AloneUndisturbed
<1>9. Backed
  <2>1. ASSUME NEW n \in Name
        PROVE  IsBacked(n, run, sent[n], raised[n])
    <3>1. sent[n] = << >> /\ raised[n] = << >> /\ DOMAIN << >> = {}
      BY EmptySeq DEF Init
    <3> DEFINE f == [i \in {} |-> 0]
               g == [p \in Proc |-> 0]
    <3>2. f \in [DOMAIN sent[n] -> DOMAIN raised[n]] /\ g \in [Proc -> DOMAIN raised[n] \cup {0}]
      BY <3>1
    <3>3. \A p \in Proc : ~Owes(run, p, n)
      BY <1>2 DEF Owes, Running
    <3>4. Backing(n, run, f, g, sent[n], raised[n])
      BY <3>1, <3>2, <3>3 DEF Backing
    <3> QED BY <3>2, <3>4 DEF IsBacked
  <2> QED BY <2>1 DEF Backed
<1> QED BY <1>3, <1>4, <1>5, <1>6, <1>7, <1>8, <1>9 DEF IInv

\* The processes still hold what a process may hold, none ahead of the clock.
LEMMA RunsTyped ==
  ASSUME TypeOK, clock' = clock, NEW p \in Proc, OthersUndisturbed(p),
         run' \in [Proc -> Process \cup {NoRun}],
         run'[p] = NoRun \/ run'[p].now = clock \/ (Running(p) /\ run'[p].now = run[p].now)
  PROVE  /\ run' \in [Proc -> Process \cup {NoRun}]
         /\ \A q \in Proc : Running(q)' => run'[q].now \in 1..clock'
<1>1. clock \in 1..clock /\ clock \in Nat
  BY DaemonlessAssumption DEF TypeOK
<1>2. ASSUME NEW q \in Proc, Running(q)'
      PROVE  run'[q].now \in 1..clock
  <2>1. CASE q = p
    BY <1>1, <1>2, <2>1, RunningIs DEF Running
  <2>2. CASE q # p
    BY <1>2, <2>2, RunningIs DEF OthersUndisturbed, Undisturbed
  <2> QED BY <2>1, <2>2
<1> QED BY <1>2

\* Every step keeps the types.
LEMMA TypeStep ==
  ASSUME TypeOK, FewEvents, [Next]_vars
  PROVE  TypeOK'
<1> DEFINE RunsOK == /\ run' \in [Proc -> Process \cup {NoRun}]
                     /\ \A q \in Proc : Running(q)' => run'[q].now \in 1..clock'
<1>1. CASE Tick
  <2>1. /\ clock' = clock + 1 /\ clock < MaxClock /\ clock \in 1..MaxClock /\ run' = run
        /\ UNCHANGED << file, runs, raised, sent, acked, solo, updatedAt >>
    BY <1>1 DEF Tick, TypeOK
  <2>2. clock' \in 1..MaxClock /\ 0..clock \subseteq 0..clock' /\ 1..clock \subseteq 1..clock'
    BY <2>1, DaemonlessAssumption
  <2>3. RunsOK
    BY <2>1, <2>2 DEF TypeOK, Running
  <2>4. acked \in [Name -> 0..clock'] /\ solo \in [Name -> 0..clock'] /\ updatedAt \in 0..clock'
    BY <2>2 DEF TypeOK
  <2> QED BY <2>1, <2>2, <2>3, <2>4 DEF TypeOK
<1>2. ASSUME NEW p \in Proc, NEW c \in Commands, Start(p, c)
      PROVE  TypeOK'
  <2>1. /\ runs < MaxRuns /\ runs' = runs + 1 /\ Continues(p) /\ OthersUndisturbed(p)
        /\ run'[p].now = clock
        /\ UNCHANGED << clock, file, raised, sent, acked, solo, updatedAt >>
    BY <1>2, StartIs
  <2>2. RunsOK
    BY <2>1, RunsTyped DEF Continues
  <2>3. runs' \in 0..MaxRuns
    BY <2>1, DaemonlessAssumption DEF TypeOK
  <2> QED BY <2>1, <2>2, <2>3 DEF TypeOK
<1>3. ASSUME NEW p \in Proc, LoadState(p)
      PROVE  TypeOK'
  <2>1. /\ Running(p) /\ Continues(p) /\ OthersUndisturbed(p) /\ run'[p].now = run[p].now
        /\ UNCHANGED << clock, file, runs, raised, sent, acked, solo, updatedAt >>
    BY <1>3, LoadIs DEF SameOrders
  <2>2. RunsOK
    BY <2>1, RunsTyped DEF Continues
  <2> QED BY <2>1, <2>2 DEF TypeOK
<1>4. ASSUME NEW p \in Proc, Save(p)
      PROVE  TypeOK'
  <2>1. /\ Running(p) /\ Continues(p) /\ OthersUndisturbed(p) /\ run'[p].now = run[p].now
        /\ file' = run[p].st /\ updatedAt' = run[p].now
        /\ raised' = [n \in Name |-> raised[n] \o About(n, run[p].evs)]
        /\ UNCHANGED << clock, runs, sent, acked, solo >>
    BY <1>4, SaveIs DEF SameOrders, Loaded
  <2>2. RunsOK
    BY <2>1, RunsTyped DEF Continues
  <2>3. file' \in [Name -> CheckState] /\ updatedAt' \in 0..clock /\ OnePerCheck(run[p].evs)
    BY <2>1, RunningIs, DaemonlessAssumption DEF TypeOK, FewEvents
  <2>4. raised' \in [Name -> Seq(Alert)]
    <3>1. ASSUME NEW n \in Name
          PROVE  raised[n] \o About(n, run[p].evs) \in Seq(Alert)
      <4>1. raised[n] \in Seq(Alert) /\ About(n, run[p].evs) \in Seq(Alert)
        BY <2>3, AboutIs DEF TypeOK
      <4> QED BY <4>1, ConcatProperties
    <3> QED BY <2>1, <3>1
  <2> QED BY <2>1, <2>2, <2>3, <2>4 DEF TypeOK
<1>5. ASSUME NEW p \in Proc, SaveFails(p) \/ Exit(p) \/ Kill(p)
      PROVE  TypeOK'
  <2>1. /\ Left(p) /\ OthersUndisturbed(p)
        /\ UNCHANGED << clock, file, runs, raised, sent, updatedAt >>
    BY <1>5, LeavesIs
  <2>2. RunsOK
    BY <2>1, RunsTyped DEF Left
  <2>3. acked' \in [Name -> 0..clock] /\ solo' \in [Name -> 0..clock]
    <3>1. CASE Exit(p)
      BY <3>1, ExitIs
    <3>2. CASE SaveFails(p) \/ Kill(p)
      BY <3>2 DEF SaveFails, Kill, TypeOK
    <3> QED BY <1>5, <3>1, <3>2
  <2> QED BY <2>1, <2>2, <2>3 DEF TypeOK
<1>6. ASSUME NEW p \in Proc, NEW delivered \in BOOLEAN, Dispatch(p, delivered)
      PROVE  TypeOK'
  <2> DEFINE e == Head(run[p].evs)
  <2>1. /\ Running(p) /\ Continues(p) /\ OthersUndisturbed(p) /\ run'[p].now = run[p].now
        /\ e \in Event
        /\ \/ sent' = [sent EXCEPT ![e.check] = Append(sent[e.check], Told(e))]
           \/ sent' = sent
        /\ UNCHANGED << clock, file, runs, raised, acked, solo, updatedAt >>
    BY <1>6, DispatchIs DEF SameOrders, Saved
  <2> HIDE DEF e
  <2>2. RunsOK
    BY <2>1, RunsTyped DEF Continues
  <2>3. sent' \in [Name -> Seq(Alert)]
    <3>1. e.check \in Name /\ Told(e) \in Alert
      BY <2>1, ToldIs DEF Event
    <3>2. sent[e.check] \in Seq(Alert) /\ sent \in [Name -> Seq(Alert)]
      BY <3>1 DEF TypeOK
    <3>3. Append(sent[e.check], Told(e)) \in Seq(Alert)
      BY <3>1, <3>2, AppendProperties
    <3> QED BY <2>1, <3>1, <3>2, <3>3
  <2> QED BY <2>1, <2>2, <2>3 DEF TypeOK
<1>7. CASE UNCHANGED vars
  BY <1>7 DEF vars, TypeOK, Running
<1> QED BY <1>1, <1>2, <1>3, <1>4, <1>5, <1>6, <1>7 DEF Next, Step

\* What a step may do to the processes: p goes on or ends, the others are as
\* they were, and nobody but p may come to hold a state to save.
LEMMA NobodyLoads ==
  ASSUME NEW p \in Proc, OthersUndisturbed(p), Running(p)' => run'[p].at # "loaded"
  PROVE  \A q \in Proc : Loaded(q)' => /\ Loaded(q) /\ q # p
                                      /\ run'[q].st = run[q].st /\ run'[q].evs = run[q].evs
                                      /\ run'[q].now = run[q].now
BY DEF Loaded, OthersUndisturbed, Undisturbed

\* A process that goes on is running.
LEMMA ContinuesIs ==
  ASSUME NEW p \in Proc, Continues(p)
  PROVE  Running(p)'
BY ProcessIs DEF Continues, Running

\* A process that has left is not.
LEMMA LeftIs ==
  ASSUME NEW p \in Proc, Left(p)
  PROVE  ~Running(p)'
BY DEF Left, Running

\* Entries are computed from entries that explain themselves, and so do they.
LEMMA ExplainedStep ==
  ASSUME TypeOK, Explained, [Next]_vars
  PROVE  Explained'
<1> DEFINE OK(f) == \A n \in Name : Mon!EntryExplained(f[n])
           Stays == \A q \in Proc : Loaded(q)' => Loaded(q) /\ run'[q].st = run[q].st
<1>1. OK(file) /\ \A q \in Proc : Loaded(q) => OK(run[q].st)
  BY DEF Explained, EntriesExplained
<1>2. ASSUME OK(file'), \A q \in Proc : Loaded(q)' => OK(run'[q].st)
      PROVE  Explained'
  BY <1>2 DEF Explained, EntriesExplained
<1>3. ASSUME file' = file, Stays
      PROVE  Explained'
  BY <1>1, <1>2, <1>3
<1>4. CASE Tick \/ UNCHANGED vars
  <2>1. file' = file /\ run' = run
    BY <1>4 DEF Tick, vars
  <2> QED BY <1>3, <2>1 DEF Loaded, Running
<1>5. ASSUME NEW p \in Proc, NEW c \in Commands, Start(p, c)
      PROVE  Explained'
  <2>1. file' = file /\ OthersUndisturbed(p) /\ run'[p].at = "started"
    BY <1>5, StartIs
  <2>2. Stays
    BY <2>1, NobodyLoads
  <2> QED BY <1>3, <2>1, <2>2
<1>6. ASSUME NEW p \in Proc, LoadState(p)
      PROVE  Explained'
  <2>1. /\ Running(p) /\ OthersUndisturbed(p) /\ file' = file
        /\ run'[p].st = Outcome(run[p], file)
    BY <1>6, LoadIs
  <2>2. OK(Outcome(run[p], file))
    BY <1>1, <2>1, RunningIs, OutcomeIs DEF TypeOK
  <2>3. ASSUME NEW q \in Proc, Loaded(q)'
        PROVE  OK(run'[q].st)
    <3>1. CASE q = p
      BY <2>1, <2>2, <3>1
    <3>2. CASE q # p
      BY <1>1, <2>1, <2>3, <3>2 DEF OthersUndisturbed, Undisturbed, Loaded
    <3> QED BY <3>1, <3>2
  <2> QED BY <1>1, <1>2, <2>1, <2>3
<1>7. ASSUME NEW p \in Proc, Save(p)
      PROVE  Explained'
  <2>1. Loaded(p) /\ file' = run[p].st /\ OthersUndisturbed(p) /\ run'[p].at = "saved"
    BY <1>7, SaveIs
  <2>2. Stays
    BY <2>1, NobodyLoads
  <2>3. OK(file')
    BY <1>1, <2>1
  <2> QED BY <1>1, <1>2, <2>2, <2>3
<1>8. ASSUME NEW p \in Proc, SaveFails(p) \/ Exit(p) \/ Kill(p)
      PROVE  Explained'
  <2>1. file' = file /\ OthersUndisturbed(p) /\ ~Running(p)'
    BY <1>8, LeavesIs, LeftIs
  <2>2. Stays
    BY <2>1, NobodyLoads
  <2> QED BY <1>3, <2>1, <2>2
<1>9. ASSUME NEW p \in Proc, NEW delivered \in BOOLEAN, Dispatch(p, delivered)
      PROVE  Explained'
  <2>1. file' = file /\ OthersUndisturbed(p) /\ run'[p].at = "saved"
    BY <1>9, DispatchIs
  <2>2. Stays
    BY <2>1, NobodyLoads
  <2> QED BY <1>3, <2>1, <2>2
<1> QED BY <1>4, <1>5, <1>6, <1>7, <1>8, <1>9 DEF Next, Step

\* What is left of at most one event per check.
LEMMA TailFew ==
  ASSUME NEW evs, OnePerCheck(evs), evs # << >>
  PROVE  /\ OnePerCheck(Tail(evs))
         /\ \A i \in DOMAIN Tail(evs) : i + 1 \in DOMAIN evs /\ Tail(evs)[i] = evs[i + 1]
         /\ \A k \in DOMAIN evs : k = 1 \/ (k - 1 \in DOMAIN Tail(evs) /\ Tail(evs)[k - 1] = evs[k])
         /\ \A i \in DOMAIN Tail(evs) : Tail(evs)[i].check # evs[1].check
<1>1. evs \in Seq(Event)
  BY DEF OnePerCheck
<1>2. /\ Tail(evs) \in Seq(Event) /\ Len(Tail(evs)) = Len(evs) - 1 /\ Len(evs) \in Nat \ {0}
      /\ DOMAIN evs = 1..Len(evs) /\ DOMAIN Tail(evs) = 1..(Len(evs) - 1)
      /\ \A i \in 1..(Len(evs) - 1) : Tail(evs)[i] = evs[i + 1]
  BY <1>1, HeadTailProperties, LenProperties, EmptySeq
<1>3. \A i, j \in DOMAIN evs : evs[i].check = evs[j].check => i = j
  BY DEF OnePerCheck
<1>4. \A i, j \in DOMAIN Tail(evs) : Tail(evs)[i].check = Tail(evs)[j].check => i = j
  <2> TAKE i, j \in DOMAIN Tail(evs)
  <2>1. i + 1 \in DOMAIN evs /\ j + 1 \in DOMAIN evs /\ i \in Nat /\ j \in Nat
    BY <1>2
  <2> QED BY <1>2, <1>3, <2>1
<1>5. \A i \in DOMAIN Tail(evs) : Tail(evs)[i].check # evs[1].check
  <2> TAKE i \in DOMAIN Tail(evs)
  <2>1. i + 1 \in DOMAIN evs /\ 1 \in DOMAIN evs /\ i + 1 # 1
    BY <1>2
  <2> QED BY <1>2, <1>3, <2>1
<1> QED BY <1>2, <1>4, <1>5 DEF OnePerCheck

\* Events are computed once, and sent from the front.
LEMMA FewEventsStep ==
  ASSUME TypeOK, FewEvents, [Next]_vars
  PROVE  FewEvents'
<1>1. ASSUME NEW p \in Proc, OthersUndisturbed(p), Running(p)' => OnePerCheck(run'[p].evs)
      PROVE  FewEvents'
  BY <1>1 DEF FewEvents, OthersUndisturbed, Undisturbed
<1>2. CASE Tick \/ UNCHANGED vars
  BY <1>2 DEF Tick, vars, FewEvents, Running
<1>3. ASSUME NEW p \in Proc, NEW c \in Commands, Start(p, c)
      PROVE  FewEvents'
  <2>1. OthersUndisturbed(p) /\ run'[p].evs = << >>
    BY <1>3, StartIs
  <2>2. OnePerCheck(<< >>)
    BY EmptySeq DEF OnePerCheck
  <2> QED BY <1>1, <2>1, <2>2
<1>4. ASSUME NEW p \in Proc, LoadState(p)
      PROVE  FewEvents'
  <2>1. Running(p) /\ OthersUndisturbed(p) /\ run'[p].evs = OutcomeEvents(run[p], file)
    BY <1>4, LoadIs
  <2> QED BY <1>1, <2>1, RunningIs, OutcomeIs DEF TypeOK
<1>5. ASSUME NEW p \in Proc, Save(p)
      PROVE  FewEvents'
  <2>1. Running(p) /\ OthersUndisturbed(p) /\ run'[p].evs = run[p].evs
    BY <1>5, SaveIs DEF Loaded
  <2> QED BY <1>1, <2>1 DEF FewEvents
<1>6. ASSUME NEW p \in Proc, SaveFails(p) \/ Exit(p) \/ Kill(p)
      PROVE  FewEvents'
  BY <1>1, <1>6, LeavesIs, LeftIs
<1>7. ASSUME NEW p \in Proc, NEW delivered \in BOOLEAN, Dispatch(p, delivered)
      PROVE  FewEvents'
  <2>1. /\ Running(p) /\ OthersUndisturbed(p) /\ run[p].evs # << >>
        /\ run'[p].evs = Tail(run[p].evs)
    BY <1>7, DispatchIs DEF Saved
  <2> QED BY <1>1, <2>1, TailFew DEF FewEvents
<1> QED BY <1>2, <1>3, <1>4, <1>5, <1>6, <1>7 DEF Next, Step

\* Starting a process makes room for a contact, saving takes it.
LEMMA CountStep ==
  ASSUME TypeOK, ContactsCounted, [Next]_vars
  PROVE  ContactsCounted'
<1> DEFINE U == Unsaved
           V == {q \in Proc : Running(q)' /\ run'[q].at \in {"started", "loaded"}}
           Fits(f, k, m) == \A n \in Name : Made(f[n]) + k <= m
           Stays == \A q \in Proc : Loaded(q)' => Loaded(q) /\ run'[q].st = run[q].st
<1>1. /\ IsFiniteSet(U) /\ Cardinality(U) \in Nat /\ runs \in Nat
      /\ Fits(file, Cardinality(U), runs)
      /\ \A q \in Proc : Loaded(q) => Fits(run[q].st, Cardinality(U), runs + 1)
  BY FS_CardinalityType DEF ContactsCounted, TypeOK
<1>2. /\ \A n \in Name : Made(file[n]) \in Nat
      /\ \A q \in Proc : Loaded(q) => \A n \in Name : Made(run[q].st[n]) \in Nat
  <2>1. ASSUME NEW f \in [Name -> CheckState], NEW n \in Name
        PROVE  Made(f[n]) \in Nat
    BY DEF CheckState, Made
  <2> QED BY <2>1, RunningIs DEF TypeOK, Loaded
<1>3. Unsaved' = V
  BY DEF Unsaved
<1>4. ASSUME IsFiniteSet(V), Fits(file', Cardinality(V), runs'),
             \A q \in Proc : Loaded(q)' => Fits(run'[q].st, Cardinality(V), runs' + 1)
      PROVE  ContactsCounted'
  BY <1>3, <1>4 DEF ContactsCounted
<1> HIDE DEF U, V
<1>5. ASSUME file' = file, runs' = runs, Stays, V \subseteq U
      PROVE  ContactsCounted'
  <2>1. IsFiniteSet(V) /\ Cardinality(V) <= Cardinality(U) /\ Cardinality(V) \in Nat
    BY <1>1, <1>5, FS_Subset, FS_CardinalityType
  <2>2. Fits(file', Cardinality(V), runs')
    BY <1>1, <1>2, <1>5, <2>1
  <2>3. \A q \in Proc : Loaded(q)' => Fits(run'[q].st, Cardinality(V), runs' + 1)
    <3> SUFFICES ASSUME NEW q \in Proc, Loaded(q)', NEW n \in Name
                 PROVE  Made(run'[q].st[n]) + Cardinality(V) <= runs' + 1
      OBVIOUS
    <3>1. /\ Made(run[q].st[n]) + Cardinality(U) <= runs + 1 /\ Made(run[q].st[n]) \in Nat
          /\ run'[q].st = run[q].st
      BY <1>1, <1>2, <1>5
    <3> QED BY <1>1, <1>5, <2>1, <3>1
  <2> QED BY <1>4, <2>1, <2>2, <2>3
<1>6. CASE Tick \/ UNCHANGED vars
  <2>1. file' = file /\ runs' = runs /\ run' = run
    BY <1>6 DEF Tick, vars
  <2>2. V = U
    BY <2>1 DEF U, V, Unsaved, Running
  <2>3. Stays
    BY <2>1 DEF Loaded, Running
  <2> QED BY <1>5, <2>1, <2>2, <2>3
<1>7. ASSUME NEW p \in Proc, NEW c \in Commands, Start(p, c)
      PROVE  ContactsCounted'
  <2>1. /\ ~Running(p) /\ Running(p)' /\ OthersUndisturbed(p) /\ run'[p].at = "started"
        /\ file' = file /\ runs' = runs + 1
    BY <1>7, StartIs, ContinuesIs
  <2>2. V = U \cup {p} /\ p \notin U
    BY <2>1 DEF U, V, Unsaved, OthersUndisturbed, Undisturbed
  <2>3. IsFiniteSet(V) /\ Cardinality(V) = Cardinality(U) + 1
    BY <1>1, <2>2, FS_AddElement
  <2>4. Stays
    BY <2>1, NobodyLoads
  <2>5. Fits(file', Cardinality(V), runs')
    BY <1>1, <1>2, <2>1, <2>3
  <2>6. \A q \in Proc : Loaded(q)' => Fits(run'[q].st, Cardinality(V), runs' + 1)
    <3> SUFFICES ASSUME NEW q \in Proc, Loaded(q)', NEW n \in Name
                 PROVE  Made(run'[q].st[n]) + Cardinality(V) <= runs' + 1
      OBVIOUS
    <3>1. /\ Made(run[q].st[n]) + Cardinality(U) <= runs + 1 /\ Made(run[q].st[n]) \in Nat
          /\ run'[q].st = run[q].st
      BY <1>1, <1>2, <2>4
    <3> QED BY <1>1, <2>1, <2>3, <3>1
  <2> QED BY <1>4, <2>3, <2>5, <2>6
<1>8. ASSUME NEW p \in Proc, LoadState(p)
      PROVE  ContactsCounted'
  <2>1. /\ Running(p) /\ run[p].at = "started" /\ Running(p)' /\ run'[p].at = "loaded"
        /\ OthersUndisturbed(p) /\ file' = file /\ runs' = runs
        /\ run'[p].st = Outcome(run[p], file)
    BY <1>8, LoadIs, ContinuesIs
  <2>2. V = U
    BY <2>1 DEF U, V, Unsaved, OthersUndisturbed, Undisturbed
  <2>3. \A n \in Name : Made(Outcome(run[p], file)[n]) <= Made(file[n]) + 1
    BY <2>1, RunningIs, OutcomeIs DEF TypeOK
  <2>4. \A n \in Name : Made(Outcome(run[p], file)[n]) \in Nat
    <3>1. Outcome(run[p], file) \in [Name -> CheckState]
      BY <2>1, RunningIs, OutcomeIs DEF TypeOK
    <3> QED BY <3>1 DEF CheckState, Made
  <2>5. \A q \in Proc : Loaded(q)' => Fits(run'[q].st, Cardinality(V), runs' + 1)
    <3> SUFFICES ASSUME NEW q \in Proc, Loaded(q)', NEW n \in Name
                 PROVE  Made(run'[q].st[n]) + Cardinality(V) <= runs' + 1
      OBVIOUS
    <3>1. CASE q = p
      <4>1. /\ Made(file[n]) + Cardinality(U) <= runs /\ Made(file[n]) \in Nat
            /\ Made(run'[p].st[n]) <= Made(file[n]) + 1 /\ Made(run'[p].st[n]) \in Nat
        BY <1>1, <1>2, <2>1, <2>3, <2>4
      <4> QED BY <1>1, <2>1, <2>2, <3>1, <4>1
    <3>2. CASE q # p
      <4>1. Loaded(q) /\ run'[q].st = run[q].st
        BY <2>1, <3>2 DEF OthersUndisturbed, Undisturbed, Loaded
      <4> QED BY <1>1, <2>1, <2>2, <4>1
    <3> QED BY <3>1, <3>2
  <2> QED BY <1>1, <1>4, <2>1, <2>2, <2>5
<1>9. ASSUME NEW p \in Proc, Save(p)
      PROVE  ContactsCounted'
  <2>1. /\ Loaded(p) /\ OthersUndisturbed(p) /\ run'[p].at = "saved" /\ Running(p)'
        /\ file' = run[p].st /\ runs' = runs
    BY <1>9, SaveIs, ContinuesIs
  <2>2. V = U \ {p} /\ p \in U
    BY <2>1 DEF U, V, Unsaved, OthersUndisturbed, Undisturbed, Loaded
  <2>3. IsFiniteSet(V) /\ Cardinality(V) = Cardinality(U) - 1 /\ Cardinality(V) \in Nat
    BY <1>1, <2>2, FS_RemoveElement, FS_CardinalityType
  <2>4. Stays
    BY <2>1, NobodyLoads
  <2>5. Fits(file', Cardinality(V), runs')
    BY <1>1, <1>2, <2>1, <2>3
  <2>6. \A q \in Proc : Loaded(q)' => Fits(run'[q].st, Cardinality(V), runs' + 1)
    <3> SUFFICES ASSUME NEW q \in Proc, Loaded(q)', NEW n \in Name
                 PROVE  Made(run'[q].st[n]) + Cardinality(V) <= runs' + 1
      OBVIOUS
    <3>1. /\ Made(run[q].st[n]) + Cardinality(U) <= runs + 1 /\ Made(run[q].st[n]) \in Nat
          /\ run'[q].st = run[q].st
      BY <1>1, <1>2, <2>4
    <3> QED BY <1>1, <2>1, <2>3, <3>1
  <2> QED BY <1>4, <2>3, <2>5, <2>6
<1>10. ASSUME NEW p \in Proc, SaveFails(p) \/ Exit(p) \/ Kill(p)
       PROVE  ContactsCounted'
  <2>1. file' = file /\ runs' = runs /\ OthersUndisturbed(p) /\ ~Running(p)'
    BY <1>10, LeavesIs, LeftIs
  <2>2. V \subseteq U
    BY <2>1 DEF U, V, Unsaved, OthersUndisturbed, Undisturbed
  <2>3. Stays
    BY <2>1, NobodyLoads
  <2> QED BY <1>5, <2>1, <2>2, <2>3
<1>11. ASSUME NEW p \in Proc, NEW delivered \in BOOLEAN, Dispatch(p, delivered)
       PROVE  ContactsCounted'
  <2>1. /\ file' = file /\ runs' = runs /\ OthersUndisturbed(p)
        /\ run'[p].at = "saved"
    BY <1>11, DispatchIs
  <2>2. V \subseteq U
    BY <2>1 DEF U, V, Unsaved, OthersUndisturbed, Undisturbed
  <2>3. Stays
    BY <2>1, NobodyLoads
  <2> QED BY <1>5, <2>1, <2>2, <2>3
<1> QED BY <1>6, <1>7, <1>8, <1>9, <1>10, <1>11 DEF Next, Step

\* A contact of a process that ran alone reaches every process that starts later,
\* and those that run already are none.
LEMMA SoloStep ==
  ASSUME TypeOK, SoloKept, AloneUndisturbed, [Next]_vars
  PROVE  SoloKept'
<1> DEFINE NotBehind(f) == \A n \in Name : f[n].lastPing >= solo[n]
           Stays == \A q \in Proc : Loaded(q)' => Loaded(q) /\ run'[q].st = run[q].st
<1>1. /\ NotBehind(file)
      /\ \A q \in Proc : Running(q) => \A n \in Name : run[q].now >= solo[n]
      /\ \A q \in Proc : Loaded(q) => NotBehind(run[q].st)
  BY DEF SoloKept, SoloContactsKept
<1>2. ASSUME solo' = solo, NotBehind(file'),
             \A q \in Proc : Running(q)' => \A n \in Name : run'[q].now >= solo[n],
             \A q \in Proc : Loaded(q)' => NotBehind(run'[q].st)
      PROVE  SoloKept'
  BY <1>2 DEF SoloKept, SoloContactsKept
<1>3. ASSUME NEW p \in Proc, OthersUndisturbed(p),
             Running(p)' => \A n \in Name : run'[p].now >= solo[n]
      PROVE  \A q \in Proc : Running(q)' => \A n \in Name : run'[q].now >= solo[n]
  BY <1>1, <1>3 DEF OthersUndisturbed, Undisturbed
<1>4. CASE Tick \/ UNCHANGED vars
  <2>1. file' = file /\ solo' = solo /\ run' = run
    BY <1>4 DEF Tick, vars
  <2> QED BY <1>1, <1>2, <2>1 DEF Loaded, Running
<1>5. ASSUME NEW p \in Proc, NEW c \in Commands, Start(p, c)
      PROVE  SoloKept'
  <2>1. /\ file' = file /\ solo' = solo /\ OthersUndisturbed(p)
        /\ run'[p].now = clock /\ run'[p].at = "started"
    BY <1>5, StartIs
  <2>2. \A n \in Name : clock >= solo[n]
    BY DEF TypeOK
  <2>3. Stays
    BY <2>1, NobodyLoads
  <2> QED BY <1>1, <1>2, <1>3, <2>1, <2>2, <2>3
<1>6. ASSUME NEW p \in Proc, LoadState(p)
      PROVE  SoloKept'
  <2>1. /\ Running(p) /\ OthersUndisturbed(p) /\ file' = file /\ solo' = solo
        /\ run'[p].now = run[p].now /\ run'[p].st = Outcome(run[p], file)
    BY <1>6, LoadIs DEF SameOrders
  <2>2. \A n \in Name : Outcome(run[p], file)[n].lastPing \in {file[n].lastPing, run[p].now}
    BY <2>1, RunningIs, OutcomeIs DEF TypeOK
  <2>3. NotBehind(Outcome(run[p], file))
    BY <1>1, <2>1, <2>2
  <2>4. ASSUME NEW q \in Proc, Loaded(q)'
        PROVE  NotBehind(run'[q].st)
    <3>1. CASE q = p
      BY <2>1, <2>3, <3>1
    <3>2. CASE q # p
      BY <1>1, <2>1, <2>4, <3>2 DEF OthersUndisturbed, Undisturbed, Loaded
    <3> QED BY <3>1, <3>2
  <2> QED BY <1>1, <1>2, <1>3, <2>1, <2>4
<1>7. ASSUME NEW p \in Proc, Save(p)
      PROVE  SoloKept'
  <2>1. /\ Loaded(p) /\ Running(p) /\ OthersUndisturbed(p) /\ file' = run[p].st /\ solo' = solo
        /\ run'[p].now = run[p].now /\ run'[p].at = "saved"
    BY <1>7, SaveIs DEF SameOrders, Loaded
  <2>2. Stays
    BY <2>1, NobodyLoads
  <2> QED BY <1>1, <1>2, <1>3, <2>1, <2>2
<1>8. ASSUME NEW p \in Proc, SaveFails(p) \/ Kill(p) \/ (Exit(p) /\ solo' = solo)
      PROVE  SoloKept'
  <2>1. file' = file /\ solo' = solo /\ OthersUndisturbed(p) /\ ~Running(p)'
    BY <1>8, LeavesIs, LeftIs DEF SaveFails, Kill
  <2>2. Stays
    BY <2>1, NobodyLoads
  <2> QED BY <1>1, <1>2, <1>3, <2>1, <2>2
<1>9. ASSUME NEW p \in Proc, Exit(p), solo' # solo
      PROVE  SoloKept'
  <2>1. /\ file' = file /\ OthersUndisturbed(p) /\ ~Running(p)' /\ Running(p)
        /\ Saved(p) /\ run[p].args \in Contacts /\ run[p].alone
        /\ \A n \in Name : n # run[p].args.check => solo'[n] = solo[n]
        /\ solo'[run[p].args.check] \in {solo[run[p].args.check], run[p].now}
    BY <1>9, LeavesIs, LeftIs, ExitIs
  <2>2. AloneOK(p)
    BY <2>1 DEF AloneUndisturbed
  <2>3. \A q \in Proc : ~Running(q)'
    BY <2>1, <2>2 DEF AloneOK, OthersUndisturbed, Undisturbed
  <2>4. file[run[p].args.check].lastPing = run[p].now /\ run[p].args.check \in Name
    BY <2>1, <2>2 DEF AloneOK, Contacts
  <2>5. run[p].now \in Nat
    BY <2>1, RunningIs
  <2>6. \A n \in Name : file'[n].lastPing >= solo'[n]
    <3> TAKE n \in Name
    <3>1. CASE n = run[p].args.check
      BY <1>1, <2>1, <2>4, <2>5, <3>1
    <3>2. CASE n # run[p].args.check
      BY <1>1, <2>1, <3>2
    <3> QED BY <3>1, <3>2
  <2> QED BY <2>3, <2>6 DEF SoloKept, SoloContactsKept, Loaded
<1>10. ASSUME NEW p \in Proc, NEW delivered \in BOOLEAN, Dispatch(p, delivered)
       PROVE  SoloKept'
  <2>1. /\ Running(p) /\ OthersUndisturbed(p) /\ file' = file /\ solo' = solo
        /\ run'[p].now = run[p].now /\ run'[p].at = "saved"
    BY <1>10, DispatchIs DEF SameOrders, Saved
  <2>2. Stays
    BY <2>1, NobodyLoads
  <2> QED BY <1>1, <1>2, <1>3, <2>1, <2>2
<1> QED BY <1>4, <1>5, <1>6, <1>7, <1>8, <1>9, <1>10 DEF Next, Step

\* A process that is alone, and takes a step, does it on the file it has left.
LEMMA AloneStep ==
  ASSUME TypeOK, AloneUndisturbed, [Next]_vars
  PROVE  AloneUndisturbed'
<1>1. \A q \in Proc : Running(q) /\ run[q].alone => AloneOK(q)
  BY DEF AloneUndisturbed
<1>2. ASSUME NEW p \in Proc, NEW q \in Proc, q # p, Running(p), OthersUndisturbed(p), Running(q)'
      PROVE  ~run'[q].alone
  <2>1. Running(q) /\ (run'[q].alone => run[q].alone)
    BY <1>2 DEF OthersUndisturbed, Undisturbed
  <2>2. ~run[q].alone
    BY <1>1, <1>2, <2>1 DEF AloneOK
  <2> QED BY <2>1, <2>2
<1>3. ASSUME NEW p \in Proc, Running(p), OthersUndisturbed(p), Running(p)' /\ run'[p].alone => AloneOK(p)'
      PROVE  AloneUndisturbed'
  BY <1>2, <1>3 DEF AloneUndisturbed
<1>4. ASSUME NEW p \in Proc, Running(p), OthersUndisturbed(p), Running(p)', SameOrders(p), run'[p].alone
      PROVE  AloneOK(p) /\ \A q \in Proc : Running(q)' => q = p
  <2>1. AloneOK(p)
    BY <1>1, <1>4 DEF SameOrders
  <2> QED BY <1>4, <2>1 DEF AloneOK, OthersUndisturbed, Undisturbed
<1>5. CASE Tick \/ UNCHANGED vars
  <2>1. file' = file /\ updatedAt' = updatedAt /\ run' = run
    BY <1>5 DEF Tick, vars
  <2>2. \A q \in Proc : AloneOK(q) => AloneOK(q)'
    BY <2>1 DEF AloneOK, Loaded, Saved, Running
  <2> QED BY <1>1, <2>1, <2>2 DEF AloneUndisturbed, Running
<1>6. ASSUME NEW p \in Proc, NEW c \in Commands, Start(p, c)
      PROVE  AloneUndisturbed'
  <2>1. /\ updatedAt' = updatedAt /\ OthersUndisturbed(p)
        /\ run'[p].now = clock /\ run'[p].at = "started"
        /\ run'[p].alone => \A q \in Proc : q # p => ~Running(q)
        /\ \A q \in Proc : q # p /\ Running(q) => ~run'[q].alone
    BY <1>6, StartIs
  <2>2. clock >= updatedAt
    BY DEF TypeOK
  <2>3. ASSUME run'[p].alone
        PROVE  AloneOK(p)'
    <3>1. \A q \in Proc : Running(q)' => q = p
      BY <2>1, <2>3 DEF OthersUndisturbed, Undisturbed
    <3> QED BY <2>1, <2>2, <3>1 DEF AloneOK, Loaded, Saved
  <2>4. ASSUME NEW q \in Proc, q # p, Running(q)'
        PROVE  ~run'[q].alone
    BY <2>1, <2>4 DEF OthersUndisturbed, Undisturbed
  <2> QED BY <2>3, <2>4 DEF AloneUndisturbed
<1>7. ASSUME NEW p \in Proc, LoadState(p)
      PROVE  AloneUndisturbed'
  <2>1. /\ Running(p) /\ OthersUndisturbed(p) /\ SameOrders(p) /\ Running(p)'
        /\ file' = file /\ updatedAt' = updatedAt /\ run'[p].at = "loaded"
        /\ run'[p].st = Outcome(run[p], file) /\ run'[p].evs = OutcomeEvents(run[p], file)
    BY <1>7, LoadIs, ContinuesIs
  <2>2. ASSUME run'[p].alone
        PROVE  AloneOK(p)'
    <3>1. AloneOK(p) /\ \A q \in Proc : Running(q)' => q = p
      BY <1>4, <2>1, <2>2
    <3>2. run'[p].st = Outcome(run'[p], file') /\ run'[p].evs = OutcomeEvents(run'[p], file')
      BY <2>1, OutcomeOf DEF SameOrders
    <3> QED BY <2>1, <3>1, <3>2 DEF AloneOK, Loaded, Saved, SameOrders
  <2> QED BY <1>3, <2>1, <2>2
<1>8. ASSUME NEW p \in Proc, Save(p)
      PROVE  AloneUndisturbed'
  <2>1. /\ Running(p) /\ OthersUndisturbed(p) /\ SameOrders(p) /\ Running(p)' /\ Loaded(p)
        /\ file' = run[p].st /\ updatedAt' = run[p].now /\ run'[p].at = "saved"
    BY <1>8, SaveIs, ContinuesIs DEF Loaded
  <2>2. ASSUME run'[p].alone
        PROVE  AloneOK(p)'
    <3>1. AloneOK(p) /\ \A q \in Proc : Running(q)' => q = p
      BY <1>4, <2>1, <2>2
    <3>2. run[p].st = Outcome(run[p], file)
      BY <2>1, <3>1 DEF AloneOK
    <3>3. run[p].args \in Contacts => file'[run[p].args.check].lastPing = run[p].now
      <4>1. run[p] \in Process /\ run[p].now # 0 /\ file \in [Name -> CheckState]
        BY <2>1, RunningIs DEF TypeOK
      <4>2. run[p].args \in Contacts => Outcome(run[p], file)[run[p].args.check].lastPing = run[p].now
        BY <4>1, OutcomeIs
      <4> QED BY <2>1, <3>2, <4>2
    <3>4. run[p].now \in Nat
      BY <2>1, RunningIs
    <3> QED BY <2>1, <3>1, <3>3, <3>4 DEF AloneOK, Loaded, Saved, SameOrders
  <2> QED BY <1>3, <2>1, <2>2
<1>9. ASSUME NEW p \in Proc, SaveFails(p) \/ Exit(p) \/ Kill(p)
      PROVE  AloneUndisturbed'
  BY <1>3, <1>9, LeavesIs, LeftIs
<1>10. ASSUME NEW p \in Proc, NEW delivered \in BOOLEAN, Dispatch(p, delivered)
       PROVE  AloneUndisturbed'
  <2>1. /\ Running(p) /\ OthersUndisturbed(p) /\ SameOrders(p) /\ Running(p)' /\ Saved(p)
        /\ file' = file /\ updatedAt' = updatedAt /\ run'[p].at = "saved"
    BY <1>10, DispatchIs, ContinuesIs DEF Saved
  <2>2. ASSUME run'[p].alone
        PROVE  AloneOK(p)'
    <3>1. AloneOK(p) /\ \A q \in Proc : Running(q)' => q = p
      BY <1>4, <2>1, <2>2
    <3> QED BY <2>1, <3>1 DEF AloneOK, Loaded, Saved, SameOrders
  <2> QED BY <1>3, <2>1, <2>2
<1> QED BY <1>5, <1>6, <1>7, <1>8, <1>9, <1>10 DEF Next, Step

-----------------------------------------------------------------------------
(***************************************************************************)
(* Alerts are sent no more often than they were recorded.  Backed has a    *)
(* record for each alert that was sent and for each that a process still   *)
(* owes; a save records what the process then owes, and a delivery turns   *)
(* a debt into an alert sent.                                              *)
(***************************************************************************)

\* Whoever still owes an alert about n owed it before.
LEMMA FewerDebts ==
  ASSUME NEW n, NEW R, NEW Q, NEW s, NEW r, IsBacked(n, R, s, r),
         \A p \in Proc : Owes(Q, p, n) =>
           /\ Owes(R, p, n)
           /\ \A al : Has(R, p, n, al) => Has(Q, p, n, al)
  PROVE  IsBacked(n, Q, s, r)
<1>1. PICK f \in [DOMAIN s -> DOMAIN r], g \in [Proc -> DOMAIN r \cup {0}] : Backing(n, R, f, g, s, r)
  BY DEF IsBacked
<1>2. Backing(n, Q, f, g, s, r)
  BY <1>1 DEF Backing
<1> QED BY <1>1, <1>2 DEF IsBacked

\* p records an alert about n, which it owes from now on.
LEMMA NewDebt ==
  ASSUME NEW n, NEW R, NEW Q, NEW s \in Seq(Alert), NEW r \in Seq(Alert), NEW al \in Alert,
         NEW p \in Proc, IsBacked(n, R, s, r), ~Owes(R, p, n), Has(Q, p, n, al),
         \A q \in Proc : q # p /\ Owes(Q, q, n) =>
           /\ Owes(R, q, n)
           /\ \A a : Has(R, q, n, a) => Has(Q, q, n, a)
  PROVE  IsBacked(n, Q, s, Append(r, al))
<1> DEFINE t == Append(r, al)
           m == Len(r) + 1
<1>1. PICK f \in [DOMAIN s -> DOMAIN r], g \in [Proc -> DOMAIN r \cup {0}] : Backing(n, R, f, g, s, r)
  BY DEF IsBacked
<1>2. /\ DOMAIN r = 1..Len(r) /\ DOMAIN t = 1..m /\ Len(r) \in Nat
      /\ t[m] = al /\ \A i \in DOMAIN r : t[i] = r[i]
  BY AppendProperties, LenProperties
<1>3. DOMAIN r \subseteq DOMAIN t /\ m \in DOMAIN t /\ m \notin DOMAIN r /\ m # 0
  BY <1>2
<1> HIDE DEF t, m
<1> DEFINE h == [g EXCEPT ![p] = m]
<1>4. f \in [DOMAIN s -> DOMAIN t] /\ h \in [Proc -> DOMAIN t \cup {0}]
  BY <1>3
<1>5. h[p] = m /\ \A q \in Proc : q # p => h[q] = g[q]
  OBVIOUS
<1> HIDE DEF h
<1>6. \A i \in DOMAIN s : t[f[i]] = s[i]
  BY <1>1, <1>2 DEF Backing
<1>7. \A i, j \in DOMAIN s : f[i] = f[j] => i = j
  BY <1>1 DEF Backing
<1>8. ASSUME NEW q \in Proc, Owes(Q, q, n)
      PROVE  /\ h[q] \in DOMAIN t /\ Has(Q, q, n, t[h[q]])
             /\ \A i \in DOMAIN s : h[q] # f[i]
             /\ \A o \in Proc : Owes(Q, o, n) /\ h[q] = h[o] => q = o
  <2>1. \A o \in Proc : o # p /\ Owes(Q, o, n) =>
          /\ Owes(R, o, n) /\ h[o] = g[o] /\ g[o] \in DOMAIN r /\ Has(Q, o, n, r[g[o]])
          /\ \A i \in DOMAIN s : g[o] # f[i]
          /\ \A u \in Proc : Owes(R, u, n) /\ g[o] = g[u] => o = u
    BY <1>1, <1>5 DEF Backing
  <2>2. CASE q = p
    <3>1. \A i \in DOMAIN s : h[q] # f[i]
      BY <1>3, <1>5, <2>2
    <3>2. \A o \in Proc : Owes(Q, o, n) /\ h[q] = h[o] => q = o
      BY <1>3, <1>5, <2>1, <2>2
    <3> QED BY <1>2, <1>3, <1>5, <2>2, <3>1, <3>2
  <2>3. CASE q # p
    <3>1. h[q] \in DOMAIN t /\ Has(Q, q, n, t[h[q]])
      BY <1>2, <1>3, <1>8, <2>1, <2>3
    <3>2. \A o \in Proc : Owes(Q, o, n) /\ h[q] = h[o] => q = o
      BY <1>3, <1>5, <1>8, <2>1, <2>3
    <3> QED BY <1>8, <2>1, <2>3, <3>1, <3>2
  <2> QED BY <2>2, <2>3
<1>9. Backing(n, Q, f, h, s, t)
  BY <1>4, <1>6, <1>7, <1>8 DEF Backing
<1>10. IsBacked(n, Q, s, t)
  BY <1>4, <1>9 DEF IsBacked
<1> QED BY <1>10 DEF t

\* p delivers the alert about n that it owes.
LEMMA DebtPaid ==
  ASSUME NEW n, NEW R, NEW Q, NEW s \in Seq(Alert), NEW r \in Seq(Alert), NEW al \in Alert,
         NEW p \in Proc, IsBacked(n, R, s, r), Owes(R, p, n), ~Owes(Q, p, n),
         \A a : Has(R, p, n, a) => a = al,
         \A q \in Proc : q # p /\ Owes(Q, q, n) =>
           /\ Owes(R, q, n)
           /\ \A a : Has(R, q, n, a) => Has(Q, q, n, a)
  PROVE  IsBacked(n, Q, Append(s, al), r)
<1> DEFINE t == Append(s, al)
           m == Len(s) + 1
<1>1. PICK f \in [DOMAIN s -> DOMAIN r], g \in [Proc -> DOMAIN r \cup {0}] : Backing(n, R, f, g, s, r)
  BY DEF IsBacked
<1>2. /\ DOMAIN s = 1..Len(s) /\ DOMAIN t = 1..m /\ Len(s) \in Nat
      /\ t[m] = al /\ \A i \in DOMAIN s : t[i] = s[i]
  BY AppendProperties, LenProperties
<1>3. DOMAIN t = DOMAIN s \cup {m} /\ m \notin DOMAIN s
  BY <1>2
<1> HIDE DEF t, m
<1> DEFINE h == [i \in DOMAIN t |-> IF i = m THEN g[p] ELSE f[i]]
<1>4. /\ g[p] \in DOMAIN r /\ r[g[p]] = al
      /\ \A i \in DOMAIN s : g[p] # f[i]
      /\ \A q \in Proc : Owes(R, q, n) /\ g[p] = g[q] => p = q
  BY <1>1 DEF Backing
<1>5. h \in [DOMAIN t -> DOMAIN r]
  BY <1>3, <1>4
<1>6. h[m] = g[p] /\ \A i \in DOMAIN s : h[i] = f[i]
  BY <1>3
<1> HIDE DEF h
<1>7. \A i \in DOMAIN t : r[h[i]] = t[i]
  BY <1>1, <1>2, <1>3, <1>4, <1>6 DEF Backing
<1>8. \A i, j \in DOMAIN t : h[i] = h[j] => i = j
  <2>1. \A i, j \in DOMAIN s : f[i] = f[j] => i = j
    BY <1>1 DEF Backing
  <2> QED BY <1>3, <1>4, <1>6, <2>1
<1>9. ASSUME NEW q \in Proc, Owes(Q, q, n)
      PROVE  /\ g[q] \in DOMAIN r /\ Has(Q, q, n, r[g[q]])
             /\ \A i \in DOMAIN t : g[q] # h[i]
             /\ \A o \in Proc : Owes(Q, o, n) /\ g[q] = g[o] => q = o
  <2>1. \A o \in Proc : Owes(Q, o, n) =>
          /\ o # p
          /\ Owes(R, o, n) /\ g[o] \in DOMAIN r /\ Has(Q, o, n, r[g[o]])
          /\ \A i \in DOMAIN s : g[o] # f[i]
          /\ \A u \in Proc : Owes(R, u, n) /\ g[o] = g[u] => o = u
    BY <1>1 DEF Backing
  <2>2. \A i \in DOMAIN t : g[q] # h[i]
    BY <1>3, <1>6, <1>9, <2>1
  <2> QED BY <1>9, <2>1, <2>2
<1>10. Backing(n, Q, h, g, t, r)
  BY <1>1, <1>5, <1>7, <1>8, <1>9 DEF Backing
<1>11. IsBacked(n, Q, t, r)
  BY <1>5, <1>10 DEF IsBacked
<1> QED BY <1>11 DEF t

\* Whoever did not step owes what it did.
LEMMA OthersOwe ==
  ASSUME NEW p \in Proc, OthersUndisturbed(p), NEW n, NEW q \in Proc, q # p, Owes(run', q, n)
  PROVE  Owes(run, q, n) /\ \A al : Has(run, q, n, al) => Has(run', q, n, al)
<1>1. run'[q] # NoRun /\ run'[q].at = "saved" /\ \E k \in DOMAIN run'[q].evs : run'[q].evs[k].check = n
  BY DEF Owes
<1>2. run[q] # NoRun /\ run'[q].at = run[q].at /\ run'[q].evs = run[q].evs
  BY <1>1 DEF OthersUndisturbed, Undisturbed, Running
<1> QED BY <1>1, <1>2 DEF Owes, Has

\* Save makes the debts, Dispatch pays them, and processes that end leave some unpaid.
LEMMA BackedStep ==
  ASSUME TypeOK, FewEvents, Backed, [Next]_vars
  PROVE  Backed'
<1> SUFFICES ASSUME NEW n \in Name
             PROVE  IsBacked(n, run', sent'[n], raised'[n])
  BY DEF Backed
<1>1. IsBacked(n, run, sent[n], raised[n]) /\ sent[n] \in Seq(Alert) /\ raised[n] \in Seq(Alert)
  BY DEF Backed, TypeOK
<1> DEFINE Unpaid(q) == Owes(run, q, n) /\ \A al : Has(run, q, n, al) => Has(run', q, n, al)
<1>2. ASSUME NEW p \in Proc, OthersUndisturbed(p), ~Owes(run', p, n),
             sent' = sent, raised'[n] = raised[n]
      PROVE  IsBacked(n, run', sent'[n], raised'[n])
  <2>1. \A q \in Proc : Owes(run', q, n) => Unpaid(q)
    BY <1>2, OthersOwe
  <2> QED BY <1>1, <1>2, <2>1, FewerDebts
<1>3. CASE Tick \/ UNCHANGED vars
  <2>1. run' = run /\ sent' = sent /\ raised' = raised
    BY <1>3 DEF Tick, vars
  <2> QED BY <1>1, <2>1
<1>4. ASSUME NEW p \in Proc, NEW c \in Commands, Start(p, c)
      PROVE  IsBacked(n, run', sent'[n], raised'[n])
  <2>1. OthersUndisturbed(p) /\ run'[p].at = "started" /\ sent' = sent /\ raised' = raised
    BY <1>4, StartIs
  <2>2. ~Owes(run', p, n)
    BY <2>1 DEF Owes
  <2> QED BY <1>2, <2>1, <2>2
<1>5. ASSUME NEW p \in Proc, LoadState(p)
      PROVE  IsBacked(n, run', sent'[n], raised'[n])
  <2>1. OthersUndisturbed(p) /\ run'[p].at = "loaded" /\ sent' = sent /\ raised' = raised
    BY <1>5, LoadIs
  <2>2. ~Owes(run', p, n)
    BY <2>1 DEF Owes
  <2> QED BY <1>2, <2>1, <2>2
<1>6. ASSUME NEW p \in Proc, Save(p)
      PROVE  IsBacked(n, run', sent'[n], raised'[n])
  <2> DEFINE evs == run[p].evs
  <2>1. /\ Loaded(p) /\ Running(p)' /\ OthersUndisturbed(p)
        /\ run'[p].at = "saved" /\ run'[p].evs = evs
        /\ raised'[n] = raised[n] \o About(n, evs) /\ sent' = sent
    BY <1>6, SaveIs, ContinuesIs
  <2>2. OnePerCheck(evs) /\ evs \in Seq(Event)
    BY <2>1 DEF FewEvents, Loaded, OnePerCheck
  <2> HIDE DEF evs
  <2>3. CASE \A k \in DOMAIN evs : evs[k].check # n
    <3>1. raised'[n] = raised[n]
      BY <1>1, <2>1, <2>2, <2>3, AboutIs, ConcatEmptySeq
    <3>2. ~Owes(run', p, n)
      BY <2>1, <2>3 DEF Owes
    <3> QED BY <1>2, <2>1, <3>1, <3>2
  <2>4. CASE \E k \in DOMAIN evs : evs[k].check = n
    <3>1. PICK k \in DOMAIN evs : evs[k].check = n
      BY <2>4
    <3> DEFINE al == Told(evs[k])
    <3>2. evs[k] \in Event /\ al \in Alert
      BY <2>2, <3>1, LenProperties, ElementOfSeq, ToldIs
    <3>3. raised'[n] = Append(raised[n], al)
      <4>1. About(n, evs) = << al >>
        BY <2>2, <3>1, AboutIs
      <4> QED BY <1>1, <2>1, <3>2, <4>1, AppendIsConcat
    <3>4. Has(run', p, n, al)
      BY <2>1, <3>1 DEF Has
    <3>5. ~Owes(run, p, n)
      BY <2>1 DEF Owes, Loaded
    <3>6. \A q \in Proc : q # p /\ Owes(run', q, n) => Unpaid(q)
      BY <2>1, OthersOwe
    <3> HIDE DEF al
    <3>7. IsBacked(n, run', sent[n], Append(raised[n], al))
      BY <1>1, <3>2, <3>4, <3>5, <3>6, NewDebt
    <3> QED BY <2>1, <3>3, <3>7
  <2> QED BY <2>3, <2>4
<1>7. ASSUME NEW p \in Proc, SaveFails(p) \/ Exit(p) \/ Kill(p)
      PROVE  IsBacked(n, run', sent'[n], raised'[n])
  <2>1. OthersUndisturbed(p) /\ run'[p] = NoRun /\ sent' = sent /\ raised' = raised
    BY <1>7, LeavesIs DEF Left
  <2>2. ~Owes(run', p, n)
    BY <2>1 DEF Owes
  <2> QED BY <1>2, <2>1, <2>2
<1>8. ASSUME NEW p \in Proc, NEW delivered \in BOOLEAN, Dispatch(p, delivered)
      PROVE  IsBacked(n, run', sent'[n], raised'[n])
  <2> DEFINE evs == run[p].evs
             e == Head(run[p].evs)
  <2>1. /\ Saved(p) /\ evs # << >> /\ e \in Event /\ e = evs[1] /\ 1 \in DOMAIN evs
        /\ OthersUndisturbed(p) /\ run'[p].at = "saved" /\ run'[p].evs = Tail(evs)
        /\ \/ sent' = [sent EXCEPT ![e.check] = Append(sent[e.check], Told(e))]
           \/ sent' = sent
        /\ raised' = raised
    BY <1>8, DispatchIs
  <2>2. OnePerCheck(evs)
    BY <2>1 DEF FewEvents, Saved
  <2> HIDE DEF evs, e
  <2>3. /\ \A i \in DOMAIN Tail(evs) : i + 1 \in DOMAIN evs /\ Tail(evs)[i] = evs[i + 1]
        /\ \A k \in DOMAIN evs : k = 1 \/ (k - 1 \in DOMAIN Tail(evs) /\ Tail(evs)[k - 1] = evs[k])
        /\ \A i \in DOMAIN Tail(evs) : Tail(evs)[i].check # e.check
    BY <2>1, <2>2, TailFew
  <2>4. CASE e.check = n
    <3>1. ~Owes(run', p, n)
      BY <2>1, <2>3, <2>4 DEF Owes
    <3>2. CASE sent' = sent
      BY <1>2, <2>1, <3>1, <3>2
    <3>3. CASE sent' = [sent EXCEPT ![e.check] = Append(sent[e.check], Told(e))]
      <4>1. sent'[n] = Append(sent[n], Told(e)) /\ Told(e) \in Alert
        <5>1. sent \in [Name -> Seq(Alert)]
          BY DEF TypeOK
        <5> QED BY <2>1, <2>4, <3>3, <5>1, ToldIs
      <4>2. Owes(run, p, n)
        BY <2>1, <2>4 DEF Owes, Saved, Running, evs
      <4>3. \A a : Has(run, p, n, a) => a = Told(e)
        <5>1. \A k \in DOMAIN evs : evs[k].check = n => k = 1
          BY <2>1, <2>2, <2>4 DEF OnePerCheck
        <5> QED BY <2>1, <5>1 DEF Has, evs
      <4>4. \A q \in Proc : q # p /\ Owes(run', q, n) => Unpaid(q)
        BY <2>1, OthersOwe
      <4>5. IsBacked(n, run', Append(sent[n], Told(e)), raised[n])
        BY <1>1, <3>1, <4>1, <4>2, <4>3, <4>4, DebtPaid
      <4> QED BY <2>1, <4>1, <4>5
    <3> QED BY <2>1, <3>2, <3>3
  <2>5. CASE e.check # n
    <3>1. sent'[n] = sent[n]
      <4>1. sent \in [Name -> Seq(Alert)]
        BY DEF TypeOK
      <4> QED BY <2>1, <2>5, <4>1
    <3>2. ASSUME Owes(run', p, n)
          PROVE  Unpaid(p)
      <4>1. PICK i \in DOMAIN Tail(evs) : Tail(evs)[i].check = n
        BY <2>1, <3>2 DEF Owes
      <4>2. Owes(run, p, n)
        BY <2>1, <2>3, <4>1 DEF Owes, Saved, Running, evs
      <4>3. ASSUME NEW al, Has(run, p, n, al)
            PROVE  Has(run', p, n, al)
        <5>1. PICK k \in DOMAIN evs : evs[k].check = n /\ Told(evs[k]) = al
          BY <4>3 DEF Has, evs
        <5>2. k - 1 \in DOMAIN Tail(evs) /\ Tail(evs)[k - 1] = evs[k]
          BY <2>1, <2>3, <2>5, <5>1
        <5> QED BY <2>1, <5>1, <5>2 DEF Has
      <4> QED BY <4>2, <4>3
    <3>3. \A q \in Proc : Owes(run', q, n) => Unpaid(q)
      BY <2>1, <3>2, OthersOwe
    <3>4. IsBacked(n, run', sent[n], raised[n])
      BY <1>1, <3>3, FewerDebts
    <3> QED BY <2>1, <3>1, <3>4
  <2> QED BY <2>4, <2>5
<1> QED BY <1>3, <1>4, <1>5, <1>6, <1>7, <1>8 DEF Next, Step

-----------------------------------------------------------------------------
(***************************************************************************)
(* A command that ran alone is a call of the monitor.                      *)
(***************************************************************************)

\* The two modules have the same monitor functions, and tell the same of an event.
LEMMA SameFunctions ==
  /\ \A cs, note, now : Mon!PingCheck(cs, note, now) = PingCheck(cs, note, now)
  /\ \A cs, note, now : Mon!FailCheck(cs, note, now) = FailCheck(cs, note, now)
  /\ \A n, cs, note, now : Mon!PingEvents(n, cs, note, now) = PingEvents(n, cs, note, now)
  /\ \A n, cs, note, now : Mon!FailEvents(n, cs, note, now) = FailEvents(n, cs, note, now)
  /\ \A c : Mon!Configured(c) = Configured(c)
  /\ \A c, n, cs, now : Mon!Fires(c, n, cs, now) = Fires(c, n, cs, now)
  /\ \A c, n, cs, now : Mon!SweepEvent(c, n, cs, now) = SweepEvent(c, n, cs, now)
  /\ \A c, s, now : Mon!Sweep(c, s, now) = Sweep(c, s, now)
  /\ \A e : Mon!AsAlert(e) = Told(e)
<1>1. \A note : Mon!ClipNote(note) = ClipNote(note)
  BY DEF Mon!ClipNote, ClipNote
<1>2. /\ \A cs, note, now : Mon!PingCheck(cs, note, now) = PingCheck(cs, note, now)
      /\ \A cs, note, now : Mon!FailCheck(cs, note, now) = FailCheck(cs, note, now)
  BY <1>1 DEF Mon!PingCheck, PingCheck, Mon!FailCheck, FailCheck
<1>3. /\ \A n, cs, note, now : Mon!PingEvents(n, cs, note, now) = PingEvents(n, cs, note, now)
      /\ \A n, cs, note, now : Mon!FailEvents(n, cs, note, now) = FailEvents(n, cs, note, now)
  BY <1>1 DEF Mon!PingEvents, PingEvents, Mon!FailEvents, FailEvents
<1>4. \A c : Mon!Configured(c) = Configured(c)
  BY DEF Mon!Configured, Configured, Mon!Elements, Elements
<1>5. \A c, n, cs : /\ Mon!Deadline(c, n, cs) = Deadline(c, n, cs)
                    /\ Mon!GraceEnd(c, n, cs) = GraceEnd(c, n, cs)
  BY DEF Mon!Deadline, Deadline, Mon!GraceEnd, GraceEnd
<1>6. \A c, n, cs, now : /\ Mon!GoesDown(c, n, cs, now) = GoesDown(c, n, cs, now)
                         /\ Mon!GoesLate(c, n, cs, now) = GoesLate(c, n, cs, now)
  BY <1>5 DEF Mon!GoesDown, GoesDown, Mon!GoesLate, GoesLate
<1>7. \A c, n, cs, now : /\ Mon!Fires(c, n, cs, now) = Fires(c, n, cs, now)
                         /\ Mon!SweptTo(c, n, cs, now) = SweptTo(c, n, cs, now)
  BY <1>6 DEF Mon!Fires, Fires, Mon!SweptTo, SweptTo
<1>8. \A c, n, cs, now : Mon!SweepEvent(c, n, cs, now) = SweepEvent(c, n, cs, now)
  BY <1>5, <1>7 DEF Mon!SweepEvent, SweepEvent
<1>9. \A c, n, cs, now : Mon!SweepCheck(c, n, cs, now) = SweepCheck(c, n, cs, now)
  BY <1>7 DEF Mon!SweepCheck, SweepCheck
<1>10. Mon!Fresh = Fresh
  BY DEF Mon!Fresh, Fresh, Mon!ZeroTime, ZeroTime, Mon!NoEventYet, NoEventYet
<1>11. \A c, s, now : Mon!Sweep(c, s, now) = Sweep(c, s, now)
  BY <1>4, <1>9, <1>10 DEF Mon!Sweep, Sweep
<1>12. \A e : Mon!AsAlert(e) = Told(e)
  BY DEF Mon!AsAlert, Told
<1> QED BY <1>2, <1>3, <1>4, <1>7, <1>8, <1>11, <1>12

\* What a process records of a check is what the monitor raises about it.
LEMMA AboutEvents ==
  ASSUME NEW n, NEW evs
  PROVE  About(n, evs) = Mon!AlertsOf(EventsOf(n, evs))
<1>1. About(n, evs) = [i \in DOMAIN EventsOf(n, evs) |-> Told(EventsOf(n, evs)[i])]
  BY DEF About, EventsOf
<1>2. Mon!AlertsOf(EventsOf(n, evs)) =
        [i \in DOMAIN EventsOf(n, evs) |-> Mon!AsAlert(EventsOf(n, evs)[i])]
  BY DEF Mon!AlertsOf
<1> QED BY <1>1, <1>2, SameFunctions

\* Of nothing, nothing is raised; of one event, one alert.
LEMMA AlertsOfFew ==
  /\ Mon!AlertsOf(<< >>) = << >>
  /\ \A e : Mon!AlertsOf(<< e >>) = << Mon!AsAlert(e) >>
<1>1. Mon!AlertsOf(<< >>) = << >>
  BY DEF Mon!AlertsOf
<1>2. ASSUME NEW e
      PROVE  Mon!AlertsOf(<< e >>) = << Mon!AsAlert(e) >>
  BY DEF Mon!AlertsOf
<1> QED BY <1>1, <1>2

\* All the events of a command are about check m.
OnlyAbout(m, evs) == \A n \in Name : EventsOf(n, evs) = IF n = m THEN evs ELSE << >>

Recorded(r, evs) == [n \in Name |-> r[n] \o About(n, evs)]
Raised(r, m, evs) == [r EXCEPT ![m] = r[m] \o Mon!AlertsOf(evs)]

\* A contact raises alerts about its own check only.
LEMMA ContactRaises ==
  ASSUME NEW r \in [Name -> Seq(Alert)], NEW m \in Name, NEW evs, OnlyAbout(m, evs)
  PROVE  Recorded(r, evs) = Raised(r, m, evs)
<1> DEFINE R == [n \in Name |-> r[n] \o About(n, evs)]
<1>1. ASSUME NEW n \in Name
      PROVE  R[n] = IF n = m THEN r[m] \o Mon!AlertsOf(evs) ELSE r[n]
  <2>1. R[n] = r[n] \o Mon!AlertsOf(EventsOf(n, evs)) /\ r[n] \in Seq(Alert)
    BY AboutEvents
  <2>2. CASE n = m
    BY <2>1, <2>2 DEF OnlyAbout
  <2>3. CASE n # m
    BY <2>1, <2>3, AlertsOfFew, ConcatEmptySeq DEF OnlyAbout
  <2> QED BY <2>2, <2>3
<1> DEFINE t == r[m] \o Mon!AlertsOf(evs)
<1>2. R = [n \in Name |-> R[n]]
  OBVIOUS
<1> HIDE DEF t, R
<1>3. R = [r EXCEPT ![m] = t]
  BY <1>1, <1>2 DEF t
<1> QED BY <1>3 DEF t, R, Recorded, Raised

\* A process that is alone saves what one call of the monitor makes of the file.
LEMMA SaveIsCall ==
  ASSUME IInv, NEW p \in Proc, Save(p), run[p].alone
  PROVE  CallOf(run[p])
<1> DEFINE m == run[p].args.check
           now == run[p].now
           evs == OutcomeEvents(run[p], file)
<1>1. TypeOK /\ ContactsCounted /\ AloneUndisturbed
  BY DEF IInv
<1>2. /\ Loaded(p) /\ file' = run[p].st /\ updatedAt' = now
      /\ raised' = [n \in Name |-> raised[n] \o About(n, run[p].evs)]
  BY <1>1, SaveIs
<1>3. run[p] \in Process /\ now \in 1..MaxClock /\ now \in Nat \ {0} /\ run[p].args \in Commands
  BY <1>1, <1>2, RunningIs, DaemonlessAssumption DEF Loaded, TypeOK
<1>4. now >= updatedAt /\ file' = Outcome(run[p], file) /\ run[p].evs = evs
  BY <1>1, <1>2 DEF AloneUndisturbed, AloneOK, Loaded
<1>5. /\ raised \in [Name -> Seq(Alert)] /\ file \in [Name -> CheckState]
      /\ Cfg \in Config /\ Configured(Cfg) = Name
  BY <1>1, DaemonlessAssumption DEF TypeOK
<1>6. raised' = [n \in Name |-> raised[n] \o About(n, evs)]
  BY <1>2, <1>4
<1>7. Mon!CallAt(now)
  BY <1>2, <1>4 DEF Mon!CallAt
<1>8. ASSUME NEW n \in Name
      PROVE  file[n].pings + file[n].fails < MaxRuns
  <2>1. p \in Unsaved /\ IsFiniteSet(Unsaved)
    BY <1>1, <1>2 DEF Unsaved, Loaded, ContactsCounted
  <2>2. /\ Cardinality(Unsaved \ {p}) = Cardinality(Unsaved) - 1 /\ IsFiniteSet(Unsaved \ {p})
        /\ Cardinality(Unsaved) \in Nat
    BY <2>1, FS_RemoveElement, FS_CardinalityType
  <2>3. Cardinality(Unsaved \ {p}) \in Nat
    BY <2>2, FS_CardinalityType
  <2>4. file[n].pings + file[n].fails + Cardinality(Unsaved) <= runs
    BY <1>1 DEF ContactsCounted, Made
  <2>5. runs <= MaxRuns /\ runs \in Nat /\ MaxRuns \in Nat
    BY <1>1, DaemonlessAssumption DEF TypeOK
  <2>6. file[n].pings \in Nat /\ file[n].fails \in Nat
    BY <1>5 DEF CheckState
  <2> QED BY <2>2, <2>3, <2>4, <2>5, <2>6
<1> HIDE DEF evs
<1>9. CASE run[p].args.cmd = "ping"
  <2>1. /\ m \in Name /\ file' = [file EXCEPT ![m] = PingCheck(file[m], 0, now)]
        /\ evs = PingEvents(m, file[m], 0, now)
    BY <1>3, <1>4, <1>9, CommandIs DEF Outcome, OutcomeEvents, evs
  <2>2. OnlyAbout(m, evs)
    <3> HIDE DEF m, now
    <3> QED BY <1>3, <1>5, <2>1, ContactEventsAre, 0 \in Nat DEF OnlyAbout
  <2>3. raised' = [raised EXCEPT ![m] = raised[m] \o Mon!AlertsOf(evs)]
    <3> HIDE DEF m, now
    <3>1. Recorded(raised, evs) = Raised(raised, m, evs)
      BY <1>5, <2>1, <2>2, ContactRaises
    <3> QED BY <1>6, <3>1 DEF Recorded, Raised
  <2>4. file' = [file EXCEPT ![m] = Mon!PingCheck(file[m], 0, now)]
    BY <2>1, SameFunctions
  <2>5. raised' = [raised EXCEPT ![m] = raised[m] \o Mon!AlertsOf(Mon!PingEvents(m, file[m], 0, now))]
    BY <2>1, <2>3, SameFunctions
  <2>6. m \in Mon!Configured(Cfg)
    BY <1>5, <2>1, SameFunctions
  <2>7. Mon!RecordPing(run[p].args.check, 0, run[p].now)
    BY <1>7, <1>8, <2>1, <2>4, <2>5, <2>6 DEF Mon!RecordPing
  <2> QED BY <1>9, <2>7 DEF CallOf
<1>10. CASE run[p].args.cmd = "fail"
  <2>1. /\ m \in Name /\ file' = [file EXCEPT ![m] = FailCheck(file[m], 0, now)]
        /\ evs = FailEvents(m, file[m], 0, now)
    BY <1>3, <1>4, <1>10, CommandIs DEF Outcome, OutcomeEvents, evs
  <2>2. OnlyAbout(m, evs)
    <3> HIDE DEF m, now
    <3> QED BY <1>3, <1>5, <2>1, ContactEventsAre, 0 \in Nat DEF OnlyAbout
  <2>3. raised' = [raised EXCEPT ![m] = raised[m] \o Mon!AlertsOf(evs)]
    <3> HIDE DEF m, now
    <3>1. Recorded(raised, evs) = Raised(raised, m, evs)
      BY <1>5, <2>1, <2>2, ContactRaises
    <3> QED BY <1>6, <3>1 DEF Recorded, Raised
  <2>4. file' = [file EXCEPT ![m] = Mon!FailCheck(file[m], 0, now)]
    BY <2>1, SameFunctions
  <2>5. raised' = [raised EXCEPT ![m] = raised[m] \o Mon!AlertsOf(Mon!FailEvents(m, file[m], 0, now))]
    BY <2>1, <2>3, SameFunctions
  <2>6. m \in Mon!Configured(Cfg)
    BY <1>5, <2>1, SameFunctions
  <2>7. Mon!RecordFail(run[p].args.check, 0, run[p].now)
    BY <1>7, <1>8, <2>1, <2>4, <2>5, <2>6 DEF Mon!RecordFail
  <2> QED BY <1>10, <2>7 DEF CallOf
<1>11. CASE run[p].args.cmd = "sweep"
  <2>1. file' = Sweep(Cfg, file, now) /\ evs = SweepEvents(Cfg, file, now)
    BY <1>4, <1>11 DEF Outcome, OutcomeEvents, evs
  <2>2. \A n \in Name : EventsOf(n, evs) = IF n \in Configured(Cfg) /\ Fires(Cfg, n, file[n], now)
                          THEN << SweepEvent(Cfg, n, file[n], now) >> ELSE << >>
    <3> HIDE DEF now
    <3> QED BY <1>3, <1>5, <2>1, SweepEventsAre
  <2>3. ASSUME NEW n \in Name
        PROVE  raised'[n] = Mon!SweepAlerts(n, now)
    <3> DEFINE e == SweepEvent(Cfg, n, file[n], now)
    <3>1. Mon!SweepAlerts(n, now) =
            IF Fires(Cfg, n, file[n], now) THEN Append(raised[n], Mon!AsAlert(e)) ELSE raised[n]
      BY <1>5, SameFunctions DEF Mon!SweepAlerts
    <3>2. raised'[n] = raised[n] \o Mon!AlertsOf(EventsOf(n, evs)) /\ raised[n] \in Seq(Alert)
      BY <1>5, <1>6, AboutEvents
    <3>3. CASE Fires(Cfg, n, file[n], now)
      <4>1. Mon!AlertsOf(EventsOf(n, evs)) = << Mon!AsAlert(e) >>
        BY <1>5, <2>2, <3>3, AlertsOfFew
      <4>2. Mon!AsAlert(e) \in Alert
        <5>1. file[n].status \in Statuses /\ e.type \in EventTypes /\ e.prev = file[n].status
          BY <1>5 DEF CheckState, SweepEvent, SweptTo, EventTypes
        <5> QED BY <5>1, SameFunctions DEF Told, Alert
      <4> HIDE DEF e
      <4>3. raised[n] \o << Mon!AsAlert(e) >> = Append(raised[n], Mon!AsAlert(e))
        BY <3>2, <4>2, AppendIsConcat
      <4> QED BY <3>1, <3>2, <3>3, <4>1, <4>3
    <3>4. CASE ~Fires(Cfg, n, file[n], now)
      BY <2>2, <3>1, <3>2, <3>4, AlertsOfFew, ConcatEmptySeq
    <3> QED BY <3>3, <3>4
  <2>4. raised' = [n \in Name |-> Mon!SweepAlerts(n, now)]
    BY <1>6, <2>3
  <2>5. file' = Mon!Sweep(Cfg, file, now)
    BY <2>1, SameFunctions
  <2>6. Mon!SweepAll(run[p].now)
    BY <1>7, <2>4, <2>5 DEF Mon!SweepAll
  <2> QED BY <1>11, <2>6 DEF CallOf
<1> QED BY <1>3, <1>9, <1>10, <1>11, CommandIs

\* Only Save saves.
LEMMA OnlySaveSaves ==
  ASSUME TypeOK, Next, NEW p \in Proc, Saves(p)
  PROVE  Save(p)
<1>1. Loaded(p) /\ Running(p)' /\ run'[p].at = "saved" /\ run[p].at = "loaded"
  BY DEF Saves, Loaded, Running
<1>2. ASSUME NEW q \in Proc, OthersUndisturbed(q)
      PROVE  q = p
  BY <1>1, <1>2 DEF OthersUndisturbed, Undisturbed, Loaded
<1>3. CASE Tick
  BY <1>1, <1>3 DEF Tick
<1>4. ASSUME NEW q \in Proc, NEW c \in Commands, Start(q, c)
      PROVE  Save(p)
  BY <1>1, <1>2, <1>4, StartIs DEF Loaded
<1>5. ASSUME NEW q \in Proc, LoadState(q)
      PROVE  Save(p)
  BY <1>1, <1>2, <1>5, LoadIs
<1>6. ASSUME NEW q \in Proc, Save(q)
      PROVE  Save(p)
  BY <1>2, <1>6, SaveIs
<1>7. ASSUME NEW q \in Proc, SaveFails(q) \/ Exit(q) \/ Kill(q)
      PROVE  Save(p)
  BY <1>1, <1>2, <1>7, LeavesIs, LeftIs
<1>8. ASSUME NEW q \in Proc, NEW delivered \in BOOLEAN, Dispatch(q, delivered)
      PROVE  Save(p)
  BY <1>1, <1>2, <1>8, DispatchIs DEF Saved
<1> QED BY <1>3, <1>4, <1>5, <1>6, <1>7, <1>8 DEF Next, Step

\* The alerts of one kind that were sent are no more than those recorded.
LEMMA BackedCount ==
  ASSUME NEW n, NEW R, NEW s \in Seq(Alert), NEW r \in Seq(Alert), IsBacked(n, R, s, r), NEW al
  PROVE  Count(s, al) <= Count(r, al)
<1> DEFINE S == {i \in DOMAIN s : s[i] = al}
           T == {i \in DOMAIN r : r[i] = al}
<1>1. PICK f \in [DOMAIN s -> DOMAIN r], g \in [Proc -> DOMAIN r \cup {0}] : Backing(n, R, f, g, s, r)
  BY DEF IsBacked
<1> DEFINE h == [i \in S |-> f[i]]
<1>2. h \in [S -> T]
  BY <1>1 DEF Backing
<1>3. \A i, j \in S : h[i] = h[j] => i = j
  BY <1>1 DEF Backing
<1>4. IsFiniteSet(T)
  <2>1. DOMAIN r = 1..Len(r) /\ Len(r) \in Nat
    BY LenProperties
  <2>2. IsFiniteSet(1..Len(r)) /\ T \in SUBSET (1..Len(r))
    BY <2>1, FS_Interval
  <2> QED BY <2>2, FS_Subset
<1> HIDE DEF S, T, h
<1>5. h \in Injection(S, T)
  BY <1>2, <1>3 DEF Injection, IsInjective
<1>6. Cardinality(S) <= Cardinality(T)
  BY <1>4, <1>5, FS_Injection
<1> QED BY <1>6 DEF Count, S, T

-----------------------------------------------------------------------------
(***************************************************************************)
(* The theorems.                                                           *)
(***************************************************************************)

\* The invariant, for any number of processes, whenever they are killed.
THEOREM Invariant == Spec => []IInv
<1>1. Init => IInv
  BY InitIs
<1>2. IInv /\ [Next]_vars => IInv'
  <2> SUFFICES ASSUME IInv, [Next]_vars
               PROVE  IInv'
    OBVIOUS
  <2>1. TypeOK /\ Explained /\ FewEvents /\ ContactsCounted /\ SoloKept /\ AloneUndisturbed /\ Backed
    BY DEF IInv
  <2>2. TypeOK' /\ Explained' /\ FewEvents' /\ ContactsCounted'
    BY <2>1, TypeStep, ExplainedStep, FewEventsStep, CountStep
  <2>3. SoloKept' /\ AloneUndisturbed' /\ Backed'
    BY <2>1, SoloStep, AloneStep, BackedStep
  <2> QED BY <2>2, <2>3 DEF IInv
<1> QED BY <1>1, <1>2, PTL DEF Spec

\* Types of the variables: no process is ahead of the clock, and whatever is
\* saved is well formed.
THEOREM TypeCorrect == Spec => []TypeOK
<1>1. IInv => TypeOK
  BY DEF IInv
<1> QED BY <1>1, Invariant, PTL

\* Without a lock on the file, whatever runs beside what, its entries explain
\* themselves.
THEOREM EntriesAlwaysExplained == Spec => []EntriesExplained
<1>1. IInv => EntriesExplained
  BY DEF IInv, Explained
<1> QED BY <1>1, Invariant, PTL

\* A contact whose process exited 0 and had no other beside it is in the file for
\* good, whatever runs side by side later.
THEOREM SoloContactsAlwaysKept == Spec => []SoloContactsKept
<1>1. IInv => SoloContactsKept
  BY DEF IInv, SoloKept
<1> QED BY <1>1, Invariant, PTL

\* Receivers are told nothing more often than it was recorded.
THEOREM NothingEverInvented == Spec => []NothingInvented
<1>1. IInv => NothingInvented
  <2> SUFFICES ASSUME IInv, NEW n \in Name, NEW al \in Alert
               PROVE  Count(sent[n], al) <= Count(raised[n], al)
    BY DEF NothingInvented
  <2>1. IsBacked(n, run, sent[n], raised[n]) /\ sent[n] \in Seq(Alert) /\ raised[n] \in Seq(Alert)
    BY DEF IInv, Backed, TypeOK
  <2> QED BY <2>1, BackedCount
<1> QED BY <1>1, Invariant, PTL

\* A command that had no other beside it until it saved is its one call of the
\* monitor on what the file held.
THEOREM SoloSavesAreMonitorCalls == Spec => SoloSavesAreCalls
<1>1. IInv /\ [Next]_vars =>
        [\A p \in Proc : Saves(p) /\ run[p].alone => CallOf(run[p])]_vars
  <2> SUFFICES ASSUME IInv, Next, NEW p \in Proc, Saves(p), run[p].alone
               PROVE  CallOf(run[p])
    OBVIOUS
  <2>1. Save(p)
    BY OnlySaveSaves DEF IInv
  <2> QED BY <2>1, SaveIsCall
<1> QED BY <1>1, Invariant, PTL DEF Spec, SoloSavesAreCalls
=============================================================================
