----------------------------- MODULE MonitorOps -----------------------------
(***************************************************************************)
(* The pure functions of internal/monitor and the records of               *)
(* internal/state they read and write.  The package never looks at a       *)
(* clock, a disk or a network: the caller passes the configuration, the    *)
(* state and an instant, and gets back the new state and the events that   *)
(* just happened.  Every module that runs the monitor (alone, behind the   *)
(* HTTP server, in command-line processes) uses these operators.           *)
(*                                                                         *)
(* Data kept abstract: an instant is a natural number of seconds, a note   *)
(* is its length in bytes.  The map State.Checks is a total function: a    *)
(* missing key and a fresh waiting entry are one value, since Get creates  *)
(* the entry at the first use and nothing else looks at the key set.       *)
(***************************************************************************)
EXTENDS Integers, Sequences, Selection

CONSTANTS
  Name,      \* every check name a configuration may declare
  MaxNote    \* maxNote: the length a stored note is clipped to

ASSUME MaxNoteAssumption == MaxNote \in Nat

(***************************************************************************)
(* Operators named ...Bug are mutants: a definition with the mistake its   *)
(* comment names.  They are used by nothing; substituted for the operator  *)
(* below them they show that a property notices the mistake.               *)
(***************************************************************************)

(***************************************************************************)
(* Records.                                                                *)
(***************************************************************************)
Statuses   == {"waiting", "up", "late", "down"}
EventTypes == {"down", "late", "failed", "recovered"}
NoEventYet == ""             \* LastEvent of an entry nothing happened to
ZeroTime   == 0              \* time.Time{}: before every instant passed in

CheckState ==
  [ status     : Statuses,
    lastPing   : Nat,
    lastChange : Nat,
    lastEvent  : EventTypes \cup {NoEventYet},
    pings      : Nat,
    fails      : Nat,
    note       : 0..MaxNote ]

\* monitor.Event: what one call reports of one check.
Event ==
  [ check : Name, type : EventTypes, status : Statuses, prev : Statuses,
    at : Nat, lastPing : Nat, overdueBy : Nat, note : 0..MaxNote ]

\* The entry Get creates.
Fresh ==
  [ status |-> "waiting", lastPing |-> ZeroTime, lastChange |-> ZeroTime,
    lastEvent |-> NoEventYet, pings |-> 0, fails |-> 0, note |-> 0 ]

NoChecks == [n \in Name |-> Fresh]      \* state.New

\* No two checks have the same name (validate).
Config ==
  { c \in [ checks : Seq(Name), interval : [Name -> Nat \ {0}], grace : [Name -> Nat \ {0}] ] :
      \A i, j \in DOMAIN c.checks : c.checks[i] = c.checks[j] => i = j }

Configured(cfg) == Elements(cfg.checks)

\* clips one byte too late
ClipNoteBug(note) == IF note > MaxNote + 1 THEN MaxNote ELSE note

ClipNote(note) == IF note > MaxNote THEN MaxNote ELSE note

(***************************************************************************)
(* RecordPing: a heartbeat.  Only a ping that ends an outage has an event. *)
(***************************************************************************)
\* a ping never leaves down
PingCheckBug(cs, note, now) ==
  [ cs EXCEPT !.status = IF cs.status = "down" THEN "down" ELSE "up",
              !.lastPing = now, !.pings = cs.pings + 1, !.note = ClipNote(note) ]

PingCheck(cs, note, now) ==
  [ status     |-> "up",
    lastPing   |-> now,
    lastChange |-> IF cs.status = "up" THEN cs.lastChange ELSE now,
    lastEvent  |-> IF cs.status = "down" THEN "recovered" ELSE cs.lastEvent,
    pings      |-> cs.pings + 1,
    fails      |-> cs.fails,
    note       |-> ClipNote(note) ]

\* no recovered event at all
PingEventsBug(n, cs, note, now) == << >>

\* recovered whenever the check was not up, as LastChange is
PingEventsEagerBug(n, cs, note, now) ==
  IF cs.status \in {"up", "waiting"} THEN << >>
  ELSE << [ check |-> n, type |-> "recovered", status |-> "up",
            prev |-> cs.status, at |-> now, lastPing |-> now,
            overdueBy |-> 0, note |-> ClipNote(note) ] >>

PingEvents(n, cs, note, now) ==
  IF cs.status = "down"
    THEN << [ check |-> n, type |-> "recovered", status |-> "up",
              prev |-> "down", at |-> now, lastPing |-> now,
              overdueBy |-> 0, note |-> ClipNote(note) ] >>
    ELSE << >>

(***************************************************************************)
(* RecordFail: an explicit failure.  Always an event, always down, and the *)
(* deadline restarts because the job did make contact.                     *)
(***************************************************************************)
\* does not restart the deadline
FailCheckBug(cs, note, now) ==
  [ status |-> "down", lastPing |-> cs.lastPing, lastChange |-> now,
    lastEvent |-> "failed", pings |-> cs.pings, fails |-> cs.fails + 1,
    note |-> ClipNote(note) ]

FailCheck(cs, note, now) ==
  [ status     |-> "down",
    lastPing   |-> now,
    lastChange |-> now,
    lastEvent  |-> "failed",
    pings      |-> cs.pings,
    fails      |-> cs.fails + 1,
    note       |-> ClipNote(note) ]

\* reads the status after it was overwritten
FailEventsBug(n, cs, note, now) ==
  << [ check |-> n, type |-> "failed", status |-> "down",
       prev |-> "down", at |-> now, lastPing |-> now,
       overdueBy |-> 0, note |-> ClipNote(note) ] >>

FailEvents(n, cs, note, now) ==
  << [ check |-> n, type |-> "failed", status |-> "down",
       prev |-> cs.status, at |-> now, lastPing |-> now,
       overdueBy |-> 0, note |-> ClipNote(note) ] >>

(***************************************************************************)
(* Sweep: overdue transitions of every configured check.  A waiting check  *)
(* has no baseline, a down one has been alerted on already.                *)
(***************************************************************************)
Deadline(cfg, n, cs) == cs.lastPing + cfg.interval[n]
GraceEnd(cfg, n, cs) == Deadline(cfg, n, cs) + cfg.grace[n]

\* does not skip checks that are down already
GoesDownBug(cfg, n, cs, now) ==
  /\ cs.status \in {"up", "late", "down"}
  /\ now > GraceEnd(cfg, n, cs)

\* a check must be late before it can be down
GoesDownLateBug(cfg, n, cs, now) ==
  /\ cs.status = "late"
  /\ now > GraceEnd(cfg, n, cs)

\* down at the very end of the grace
GoesDownEdgeBug(cfg, n, cs, now) ==
  /\ cs.status \in {"up", "late"}
  /\ now >= GraceEnd(cfg, n, cs)

GoesDown(cfg, n, cs, now) ==
  /\ cs.status \in {"up", "late"}
  /\ now > GraceEnd(cfg, n, cs)

\* a down check whose interval was lengthened falls back to late
GoesLateBug(cfg, n, cs, now) ==
  /\ cs.status \in {"up", "down"}
  /\ now > Deadline(cfg, n, cs)
  /\ now <= GraceEnd(cfg, n, cs)

\* the last instant of the grace is left out
GoesLateEdgeBug(cfg, n, cs, now) ==
  /\ cs.status = "up"
  /\ now > Deadline(cfg, n, cs)
  /\ now < GraceEnd(cfg, n, cs)

GoesLate(cfg, n, cs, now) ==
  /\ cs.status = "up"
  /\ now > Deadline(cfg, n, cs)
  /\ now <= GraceEnd(cfg, n, cs)

Fires(cfg, n, cs, now) == GoesDown(cfg, n, cs, now) \/ GoesLate(cfg, n, cs, now)

SweptTo(cfg, n, cs, now) == IF GoesDown(cfg, n, cs, now) THEN "down" ELSE "late"

\* stores the event but not the status
SweepCheckBug(cfg, n, cs, now) ==
  IF Fires(cfg, n, cs, now)
    THEN [cs EXCEPT !.lastEvent = SweptTo(cfg, n, cs, now), !.lastChange = now]
    ELSE cs

SweepCheck(cfg, n, cs, now) ==
  IF Fires(cfg, n, cs, now)
    THEN [cs EXCEPT !.status     = SweptTo(cfg, n, cs, now),
                    !.lastEvent  = SweptTo(cfg, n, cs, now),
                    !.lastChange = now]
    ELSE cs

SweepEvent(cfg, n, cs, now) ==
  [ check |-> n, type |-> SweptTo(cfg, n, cs, now),
    status |-> SweptTo(cfg, n, cs, now), prev |-> cs.status, at |-> now,
    lastPing |-> cs.lastPing, overdueBy |-> now - Deadline(cfg, n, cs),
    note |-> 0 ]

\* Entries of checks that left the configuration are pruned.
Sweep(cfg, st, now) ==
  [n \in Name |-> IF n \in Configured(cfg)
                    THEN SweepCheck(cfg, n, st[n], now)
                    ELSE Fresh]

\* The events of one sweep, in configuration order.
SweepEvents(cfg, st, now) ==
  LET firing == Keep(cfg.checks, {n \in Configured(cfg) : Fires(cfg, n, st[n], now)})
  IN  [i \in DOMAIN firing |-> SweepEvent(cfg, firing[i], st[firing[i]], now)]

(***************************************************************************)
(* The status document, which a request or the status command has made:    *)
(* it does not sweep.  due is the time to the deadline, below zero if that *)
(* is past ("overdue_by"), and 0 with hasDue FALSE if none is expected.    *)
(***************************************************************************)
HasDue(cs) == cs.status # "waiting" /\ cs.lastPing # ZeroTime

DueIn(cfg, n, cs, now) == IF HasDue(cs) THEN Deadline(cfg, n, cs) - now ELSE 0

StatusEntry(cfg, n, cs, now) ==
  [ check |-> n, status |-> cs.status, lastPing |-> cs.lastPing,
    hasDue |-> HasDue(cs), due |-> DueIn(cfg, n, cs, now),
    pings |-> cs.pings, fails |-> cs.fails, note |-> cs.note ]

BuildStatus(cfg, st, now) ==
  [ at     |-> now,
    down   |-> Len(Keep(cfg.checks, {n \in Configured(cfg) : st[n].status = "down"})),
    checks |-> [i \in DOMAIN cfg.checks |->
                 StatusEntry(cfg, cfg.checks[i], st[cfg.checks[i]], now)] ]
=============================================================================
