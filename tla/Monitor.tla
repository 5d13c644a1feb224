------------------------------ MODULE Monitor ------------------------------
(***************************************************************************)
(* The monitor state machine driven by any sequence of legal calls: pings, *)
(* explicit failures and sweeps, at the instants the callers pass in, with *)
(* the configuration file edited between calls.  One caller at a time;     *)
(* what concurrency adds is the business of Daemonless and Serve.          *)
(***************************************************************************)
EXTENDS MonitorOps

CONSTANTS
  Configs,      \* the configurations the file may hold
  Instants,     \* the instants a call may be given
  Notes,        \* lengths of the notes a job may send
  Monotone,     \* TRUE: the callers' clock never goes back;
                \* FALSE: it may (a stepped clock, LASTBEAT_NOW rehearsals)
  MaxContacts   \* bound: pings and failures counted in one entry

ASSUME MonitorAssumption ==
  /\ Configs \subseteq Config
  /\ Instants \subseteq Nat \ {ZeroTime}
  /\ Notes \subseteq Nat
  /\ Monotone \in BOOLEAN
  /\ MaxContacts \in Nat

VARIABLES
  cfg,      \* the configuration in force
  clock,    \* the instant of the latest call
  st,       \* State.Checks
  raised    \* history: the alerts each check raised since its entry exists

vars == << cfg, clock, st, raised >>

Alert == [type : EventTypes, prev : Statuses]

AsAlert(ev) == [type |-> ev.type, prev |-> ev.prev]

\* The alerts among the events of one call, for one check.
AlertsOf(evs) == [i \in DOMAIN evs |-> AsAlert(evs[i])]

-----------------------------------------------------------------------------
Init ==
  /\ cfg \in Configs
  /\ clock = ZeroTime
  /\ st = NoChecks
  /\ raised = [n \in Name |-> << >>]

CallAt(now) ==
  /\ Monotone => now >= clock
  /\ clock' = now

\* RecordPing and RecordFail refuse a check that is not configured.
RecordPing(n, note, now) ==
  /\ n \in Configured(cfg)
  /\ st[n].pings + st[n].fails < MaxContacts
  /\ CallAt(now)
  /\ st' = [st EXCEPT ![n] = PingCheck(st[n], note, now)]
  /\ raised' = [raised EXCEPT
       ![n] = raised[n] \o AlertsOf(PingEvents(n, st[n], note, now))]
  /\ UNCHANGED cfg

RecordFail(n, note, now) ==
  /\ n \in Configured(cfg)
  /\ st[n].pings + st[n].fails < MaxContacts
  /\ CallAt(now)
  /\ st' = [st EXCEPT ![n] = FailCheck(st[n], note, now)]
  /\ raised' = [raised EXCEPT
       ![n] = raised[n] \o AlertsOf(FailEvents(n, st[n], note, now))]
  /\ UNCHANGED cfg

SweepAlerts(n, now) ==
  IF n \notin Configured(cfg) THEN << >>          \* pruned: a new life starts
  ELSE IF Fires(cfg, n, st[n], now)
    THEN Append(raised[n], AsAlert(SweepEvent(cfg, n, st[n], now)))
    ELSE raised[n]

SweepAll(now) ==
  /\ CallAt(now)
  /\ st' = Sweep(cfg, st, now)
  /\ raised' = [n \in Name |-> SweepAlerts(n, now)]
  /\ UNCHANGED cfg

\* The operator edits lastbeat.toml; the next call loads the new file.
Reconfigure ==
  /\ cfg' \in Configs
  /\ UNCHANGED << clock, st, raised >>

Next ==
  \/ \E n \in Name, note \in Notes, now \in Instants : RecordPing(n, note, now)
  \/ \E n \in Name, note \in Notes, now \in Instants : RecordFail(n, note, now)
  \/ \E now \in Instants : SweepAll(now)
  \/ Reconfigure

Spec == Init /\ [][Next]_vars

-----------------------------------------------------------------------------
(***************************************************************************)
(* Properties.                                                             *)
(***************************************************************************)

\* Types of all variables: every entry is a well-formed CheckState with a
\* clipped note, every alert has one of the four event types.
TypeOK ==
  /\ cfg \in Configs
  /\ clock \in Nat
  /\ st \in [Name -> CheckState]
  /\ raised \in [Name -> Seq(Alert)]

Opening == {"down", "failed"}      \* alerts that tell of an outage

\* Whatever the order of calls, an entry explains itself: its last event,
\* counters and change time never contradict its status, so a reader of the
\* state file (or a restarted process) can trust the one without the others.
EntryExplained(cs) ==
  /\ cs.status = "waiting" <=> cs.pings + cs.fails = 0
  /\ cs.status = "waiting" <=> cs.lastPing = ZeroTime
  /\ cs.status = "waiting" => cs.lastEvent = NoEventYet
  /\ cs.status = "up" => cs.pings > 0 /\ cs.lastEvent \notin Opening
  /\ cs.status = "late" => cs.lastEvent = "late" /\ cs.lastPing < cs.lastChange
  /\ cs.status = "down" => cs.lastEvent \in Opening
  /\ cs.status = "down" /\ cs.lastEvent = "down" => cs.lastPing < cs.lastChange
  /\ cs.status = "down" /\ cs.lastEvent = "failed" =>
       cs.lastPing = cs.lastChange /\ cs.fails > 0

EntriesExplained == \A n \in Name : EntryExplained(st[n])

\* Alerts are edge-triggered: between two down alerts of a check there is a
\* recovered one, and between two recovered ones an alert of a new outage.
\* Holds over every sequence of calls, sweeps at any spacing included.
Between(s, i, j, types) == \E k \in DOMAIN s : i < k /\ k < j /\ s[k].type \in types

OncePerOutage ==
  \A n \in Name : \A i, j \in DOMAIN raised[n] : i < j =>
    /\ raised[n][i].type \in Opening /\ raised[n][j].type = "down"
         => Between(raised[n], i, j, {"recovered"})
    /\ raised[n][i].type = "recovered" /\ raised[n][j].type = "recovered"
         => Between(raised[n], i, j, Opening)

\* No outage is left dangling in the feed: once a check is not down, every
\* alert that told of an outage has a recovered after it; while it is down,
\* every recovered has the news of a later outage after it.  (This is what
\* makes OncePerOutage inductive.)
OutagesSettled ==
  \A n \in Name : \A i \in DOMAIN raised[n] :
    /\ st[n].status # "down" /\ raised[n][i].type \in Opening
         => \E k \in DOMAIN raised[n] : i < k /\ raised[n][k].type = "recovered"
    /\ st[n].status = "down" /\ raised[n][i].type = "recovered"
         => \E k \in DOMAIN raised[n] : i < k /\ raised[n][k].type \in Opening

\* A receiver that has seen every alert knows which status is in the file:
\* the last alert opened an outage exactly when the check is down.
Announced(n) ==
  IF raised[n] = << >> THEN st[n].status \in {"waiting", "up"}
  ELSE LET last == raised[n][Len(raised[n])]
       IN  /\ last.type \in Opening <=> st[n].status = "down"
           /\ st[n].status = "late" => last.type = "late"

FileMatchesFeed == \A n \in Name : Announced(n)

\* Each alert's prev_status is what the alerts before it left behind, so a
\* receiver can detect a gap in the feed.
PrevChained ==
  \A n \in Name : \A i \in DOMAIN raised[n] : i > 1 =>
    (raised[n][i].prev = "down" <=> raised[n][i-1].type \in Opening)

\* "Sweep is idempotent": sweeping again at the same instant changes nothing
\* and has no events, in every reachable state and for every instant.
SweepIdempotent ==
  \A now \in Instants :
    LET swept == Sweep(cfg, st, now)
    IN  /\ Sweep(cfg, swept, now) = swept
        /\ SweepEvents(cfg, swept, now) = << >>

\* How often sweeps run does not matter for where they end: an extra sweep at
\* an earlier instant leaves every status that a later sweep sets unchanged.
SweepSpacingIrrelevant ==
  \A early, late \in Instants : early <= late =>
    LET sparse == Sweep(cfg, st, late)
        dense  == Sweep(cfg, Sweep(cfg, st, early), late)
    IN  \A n \in Name : dense[n].status = sparse[n].status

\* The latest alert about n has told of an outage.
OutageKnown(n) ==
  raised[n] # << >> /\ raised[n][Len(raised[n])].type \in Opening

\* A line of the status document after a sweep, of a check whose entry was cs.
LineAgrees(e, cs, grace) ==
  /\ e.status = "up" => e.hasDue /\ e.due >= 0
  /\ e.status = "late" => e.hasDue /\ -e.due <= grace
  /\ ~e.hasDue => e.status = "waiting"
  /\ cs.status = "up" => (e.status # "up" <=> e.due < 0)
  /\ cs.status \in {"up", "late"} => (e.status = "down" <=> -e.due > grace)

\* The status document agrees with the alerts and the sweeps.  It never sweeps,
\* so it may show "up" what is overdue; but at any instant it counts as down
\* just the checks whose outage the receivers know of, and when a sweep has
\* come first, what is up is not due yet, what is late is past its deadline by
\* no more than its grace (by nothing, if a contact is ahead of the clock or
\* the schedule was relaxed), and nothing is expected of what never called.  The
\* sweep has alerted on just what the document calls overdue (due < 0), and as
\* down on what is so by more than its grace, at the very deadlines too.
StatusAgrees ==
  \A now \in Instants :
    LET stale == BuildStatus(cfg, st, now)
        fresh == BuildStatus(cfg, Sweep(cfg, st, now), now)
    IN  /\ stale.down = Len(Keep(cfg.checks, {n \in Configured(cfg) : OutageKnown(n)}))
        /\ \A i \in DOMAIN fresh.checks :
             LET e == fresh.checks[i]
             IN  LineAgrees(e, st[e.check], cfg.grace[e.check])

\* How a step may take a check out of down.
StaysDown(n) ==
  st[n].status = "down" /\ st'[n].status # "down" =>
    \/ /\ st'[n].pings = st[n].pings + 1
       /\ raised'[n] = Append(raised[n], [type |-> "recovered", prev |-> "down"])
    \/ n \notin Configured(cfg) /\ st'[n] = Fresh

\* A check leaves down only by a ping, which raises recovered, or by leaving
\* the configuration: no sweep and no configuration edit ends an outage.
DownSticks == [][\A n \in Name : StaysDown(n)]_vars

\* The detailed machine implements what it promises each receiver: whatever
\* the calls, sweeps of many checks and configuration edits, the alerts of one
\* check are a behaviour of AlertFeed, its outage open while the check is down.
Feed == INSTANCE AlertFeed WITH
  out  <- [n \in Name |-> st[n].status = "down"],
  feed <- [n \in Name |-> [i \in DOMAIN raised[n] |-> raised[n][i].type]]

ImplementsAlertFeed == Feed!Spec
=============================================================================
