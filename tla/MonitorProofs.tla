--------------------------- MODULE MonitorProofs ---------------------------
(***************************************************************************)
(* Proofs about Monitor, for every set of check names, every set of        *)
(* configurations, instants and notes, and without the bound on contacts   *)
(* mattering: type correctness, what an entry and a feed of alerts say of  *)
(* each other, the effect of sweeps, the status document, and the          *)
(* refinement of AlertFeed.                                                *)
(*                                                                         *)
(* The argument is per check.  Whatever a call does to a check is one of   *)
(* five moves of its pair (status, alerts raised so far): Quiet, Close,    *)
(* Fail, GoDown, GoLate, or it starts a new life (Reset).  StepMoves says  *)
(* that every step of Monitor moves every check by one of these; the rest  *)
(* is about moves only.                                                    *)
(***************************************************************************)
EXTENDS Monitor, MonitorOpsProofs

-----------------------------------------------------------------------------
(***************************************************************************)
(* What a call does to one entry.                                          *)
(***************************************************************************)

\* A ping raises recovered exactly when the check was down; a failure report
\* always raises failed, with the status it found.
LEMMA RaisedByContact ==
  ASSUME NEW cs \in CheckState, NEW n \in Name, NEW note \in Nat, NEW now \in Nat
  PROVE  /\ cs.status = "down" =>
              AlertsOf(PingEvents(n, cs, note, now)) =
                << [type |-> "recovered", prev |-> "down"] >>
         /\ cs.status # "down" => AlertsOf(PingEvents(n, cs, note, now)) = << >>
         /\ AlertsOf(FailEvents(n, cs, note, now)) =
              << [type |-> "failed", prev |-> cs.status] >>
BY DEF AlertsOf, AsAlert, PingEvents, FailEvents

\* The entry Get creates explains itself.
LEMMA FreshExplained == EntryExplained(Fresh)
<1> DEFINE e == Fresh
<1>1. /\ e.status = "waiting" /\ e.lastPing = ZeroTime
      /\ e.lastEvent = NoEventYet /\ e.pings + e.fails = 0
  BY DEF Fresh
<1> HIDE DEF e
<1>2. EntryExplained(e)
  BY <1>1 DEF EntryExplained
<1> QED BY <1>2 DEF e

\* An entry that explains itself still does after any of the three calls; the
\* instants of the calls may be in any order.
LEMMA EntryStep ==
  ASSUME NEW cs \in CheckState, EntryExplained(cs), NEW n \in Name,
         NEW note \in Nat, NEW now \in Nat \ {ZeroTime}, NEW config \in Config
  PROVE  /\ EntryExplained(PingCheck(cs, note, now))
         /\ EntryExplained(FailCheck(cs, note, now))
         /\ EntryExplained(SweepCheck(config, n, cs, now))
<1>1. /\ cs.pings \in Nat /\ cs.fails \in Nat
      /\ cs.lastPing \in Nat /\ cs.lastChange \in Nat
      /\ now \in Nat /\ now # 0
      /\ cs.status \in {"waiting", "up", "late", "down"}
  BY DEF CheckState, Statuses, ZeroTime
<1>2. EntryExplained(PingCheck(cs, note, now))
  <2> DEFINE p == PingCheck(cs, note, now)
  <2>1. /\ p.status = "up" /\ p.lastPing = now
        /\ p.pings = cs.pings + 1 /\ p.fails = cs.fails
        /\ cs.status = "down" => p.lastEvent = "recovered"
        /\ cs.status # "down" => p.lastEvent = cs.lastEvent
    BY DEF PingCheck
  <2> HIDE DEF p
  <2>2. p.lastEvent \notin Opening
    BY <1>1, <2>1 DEF EntryExplained, Opening, NoEventYet
  <2>3. p.pings > 0 /\ p.pings + p.fails # 0
    BY <1>1, <2>1
  <2>4. EntryExplained(p)
    BY <1>1, <2>1, <2>2, <2>3 DEF EntryExplained, ZeroTime
  <2> QED BY <2>4 DEF p
<1>3. EntryExplained(FailCheck(cs, note, now))
  <2> DEFINE f == FailCheck(cs, note, now)
  <2>1. /\ f.status = "down" /\ f.lastPing = now /\ f.lastChange = now
        /\ f.pings = cs.pings /\ f.fails = cs.fails + 1
        /\ f.lastEvent = "failed"
    BY DEF FailCheck
  <2> HIDE DEF f
  <2>2. EntryExplained(f)
    BY <1>1, <2>1 DEF EntryExplained, ZeroTime, Opening
  <2> QED BY <2>2 DEF f
<1>4. EntryExplained(SweepCheck(config, n, cs, now))
  <2>1. CASE ~Fires(config, n, cs, now)
    BY <2>1 DEF SweepCheck
  <2>2. CASE Fires(config, n, cs, now)
    <3> DEFINE w == SweepCheck(config, n, cs, now)
    <3>1. /\ w.status = SweptTo(config, n, cs, now)
          /\ w.lastEvent = SweptTo(config, n, cs, now)
          /\ w.lastChange = now /\ w.lastPing = cs.lastPing
          /\ w.pings = cs.pings /\ w.fails = cs.fails
      BY <2>2 DEF SweepCheck, CheckState
    <3>2. cs.status \in {"up", "late"}
      BY <2>2 DEF Fires, GoesDown, GoesLate
    <3>3. now > cs.lastPing
      BY <2>2 DEF Fires, GoesDown, GoesLate, GraceEnd, Deadline, CheckState, Config
    <3>4. SweptTo(config, n, cs, now) \in {"down", "late"}
      BY DEF SweptTo
    <3>5. cs.lastPing # ZeroTime /\ cs.pings + cs.fails # 0
      BY <3>2 DEF EntryExplained
    <3> HIDE DEF w
    <3>6. EntryExplained(w)
      BY <1>1, <3>1, <3>3, <3>4, <3>5 DEF EntryExplained, Opening
    <3> QED BY <3>6 DEF w
  <2> QED BY <2>1, <2>2
<1> QED BY <1>2, <1>3, <1>4

-----------------------------------------------------------------------------
(***************************************************************************)
(* Moves of one check, from status s with alerts r to status t with q.     *)
(***************************************************************************)
Quiet(s, r, t, q) == q = r /\ (t = s \/ (s # "down" /\ t = "up"))

Close(s, r, t, q) ==
  s = "down" /\ t = "up" /\ q = Append(r, [type |-> "recovered", prev |-> "down"])

Fail(s, r, t, q) == t = "down" /\ q = Append(r, [type |-> "failed", prev |-> s])

GoDown(s, r, t, q) ==
  s \in {"up", "late"} /\ t = "down" /\ q = Append(r, [type |-> "down", prev |-> s])

GoLate(s, r, t, q) ==
  s = "up" /\ t = "late" /\ q = Append(r, [type |-> "late", prev |-> "up"])

Reset(s, r, t, q) == t = "waiting" /\ q = << >>

Move(s, r, t, q) ==
  \/ Quiet(s, r, t, q)  \/ Close(s, r, t, q)   \/ Fail(s, r, t, q)
  \/ GoDown(s, r, t, q) \/ GoLate(s, r, t, q)  \/ Reset(s, r, t, q)

\* The alert discipline of one check: what OncePerOutage, OutagesSettled,
\* FileMatchesFeed and PrevChained say of it.
FeedOK(s, r) ==
  /\ \A i, j \in DOMAIN r : i < j =>
       /\ r[i].type \in Opening /\ r[j].type = "down" => Between(r, i, j, {"recovered"})
       /\ r[i].type = "recovered" /\ r[j].type = "recovered" => Between(r, i, j, Opening)
  /\ \A i \in DOMAIN r :
       /\ s # "down" /\ r[i].type \in Opening
            => \E k \in DOMAIN r : i < k /\ r[k].type = "recovered"
       /\ s = "down" /\ r[i].type = "recovered"
            => \E k \in DOMAIN r : i < k /\ r[k].type \in Opening
  /\ IF r = << >> THEN s \in {"waiting", "up"}
     ELSE /\ r[Len(r)].type \in Opening <=> s = "down"
          /\ s = "late" => r[Len(r)].type = "late"
  /\ \A i \in DOMAIN r : i > 1 => (r[i].prev = "down" <=> r[i-1].type \in Opening)

\* An alert appended in the right status keeps the discipline.
LEMMA AppendAlert ==
  ASSUME NEW s \in Statuses, NEW t \in Statuses, NEW r \in Seq(Alert), FeedOK(s, r),
         NEW al \in Alert,
         al.prev = s,
         al.type = "recovered" <=> s = "down" /\ t # "down",
         al.type = "down" => s # "down",
         t = "down" <=> al.type \in Opening,
         t = "late" => al.type = "late"
  PROVE  FeedOK(t, Append(r, al)) /\ Append(r, al) \in Seq(Alert)
<1> DEFINE q == Append(r, al)
           last == Len(r) + 1
<1>1. /\ q \in Seq(Alert)
      /\ q # << >>
      /\ Len(q) = last
      /\ \A i \in 1..Len(r) : q[i] = r[i]
      /\ q[last] = al
      /\ Len(r) \in Nat
      /\ DOMAIN r = 1..Len(r)
      /\ DOMAIN q = 1..last
      /\ r # << >> => Len(r) > 0
      /\ r = << >> => Len(r) = 0
  BY AppendProperties, LenProperties, EmptySeq
<1>2. /\ last \in DOMAIN q
      /\ \A i \in DOMAIN q : i = last \/ i \in DOMAIN r
      /\ \A i \in DOMAIN r : i \in DOMAIN q /\ q[i] = r[i] /\ i < last /\ i \in Nat
  BY <1>1
<1> HIDE DEF q, last
<1>3. ASSUME NEW i \in DOMAIN q, NEW j \in DOMAIN q, i < j
      PROVE  /\ q[i].type \in Opening /\ q[j].type = "down"
                  => Between(q, i, j, {"recovered"})
             /\ q[i].type = "recovered" /\ q[j].type = "recovered"
                  => Between(q, i, j, Opening)
  <2>1. i \in DOMAIN r
    BY <1>1, <1>2, <1>3 DEF last
  <2>2. CASE j \in DOMAIN r
    <3>1. /\ r[i].type \in Opening /\ r[j].type = "down"
                => Between(r, i, j, {"recovered"})
          /\ r[i].type = "recovered" /\ r[j].type = "recovered"
                => Between(r, i, j, Opening)
      BY <1>3, <2>1, <2>2 DEF FeedOK
    <3> QED BY <1>2, <2>1, <2>2, <3>1 DEF Between
  <2>3. CASE j = last
    <3>1. /\ s # "down" /\ r[i].type \in Opening
               => \E k \in DOMAIN r : i < k /\ r[k].type = "recovered"
          /\ s = "down" /\ r[i].type = "recovered"
               => \E k \in DOMAIN r : i < k /\ r[k].type \in Opening
      BY <2>1 DEF FeedOK
    <3> QED BY <1>1, <1>2, <2>1, <2>3, <3>1 DEF Between
  <2> QED BY <1>2, <2>2, <2>3
<1>4. ASSUME NEW i \in DOMAIN q
      PROVE  /\ t # "down" /\ q[i].type \in Opening
                  => \E k \in DOMAIN q : i < k /\ q[k].type = "recovered"
             /\ t = "down" /\ q[i].type = "recovered"
                  => \E k \in DOMAIN q : i < k /\ q[k].type \in Opening
  <2>1. CASE i = last
    BY <1>1, <2>1 DEF Opening
  <2>2. CASE i \in DOMAIN r
    <3>1. s # "down" /\ r[i].type \in Opening
            => \E k \in DOMAIN r : i < k /\ r[k].type = "recovered"
      BY <2>2 DEF FeedOK
    <3>2. CASE t = "down"
      BY <1>1, <1>2, <2>2, <3>2 DEF Opening
    <3>3. CASE t # "down" /\ s = "down"
      BY <1>1, <1>2, <2>2, <3>3
    <3>4. CASE t # "down" /\ s # "down"
      BY <1>2, <2>2, <3>1, <3>4
    <3> QED BY <3>2, <3>3, <3>4
  <2> QED BY <1>2, <2>1, <2>2
<1>5. /\ q[Len(q)].type \in Opening <=> t = "down"
      /\ t = "late" => q[Len(q)].type = "late"
  BY <1>1
<1>6. ASSUME NEW i \in DOMAIN q, i > 1
      PROVE  q[i].prev = "down" <=> q[i-1].type \in Opening
  <2>1. CASE i = last
    <3>1. r # << >> /\ i - 1 = Len(r) /\ i - 1 \in DOMAIN r
      BY <1>1, <1>6, <2>1 DEF last
    <3>2. r[Len(r)].type \in Opening <=> s = "down"
      BY <3>1 DEF FeedOK
    <3> QED BY <1>1, <1>2, <2>1, <3>1, <3>2
  <2>2. CASE i \in DOMAIN r
    <3>1. i - 1 \in DOMAIN r
      BY <1>1, <1>6, <2>2
    <3> QED BY <1>2, <1>6, <2>2, <3>1 DEF FeedOK
  <2> QED BY <1>2, <2>1, <2>2
<1>7. FeedOK(t, q)
  BY <1>1, <1>3, <1>4, <1>5, <1>6 DEF FeedOK
<1> QED BY <1>1, <1>7 DEF q

\* Every move keeps the alert discipline of its check.
LEMMA MoveKeepsFeed ==
  ASSUME NEW s \in Statuses, NEW t \in Statuses, NEW r \in Seq(Alert), NEW q,
         FeedOK(s, r), Move(s, r, t, q)
  PROVE  FeedOK(t, q) /\ q \in Seq(Alert)
<1>1. CASE Quiet(s, r, t, q)
  <2>1. CASE t = s
    BY <1>1, <2>1 DEF Quiet
  <2>2. CASE s # "down" /\ t = "up"
    BY <1>1, <2>2 DEF Quiet, FeedOK
  <2> QED BY <1>1, <2>1, <2>2 DEF Quiet
<1>2. CASE Close(s, r, t, q)
  <2> DEFINE al == [type |-> "recovered", prev |-> "down"]
  <2>1. al \in Alert /\ al.prev = s /\ al.type = "recovered"
    BY <1>2 DEF Alert, EventTypes, Statuses, Close
  <2> HIDE DEF al
  <2>2. FeedOK(t, Append(r, al)) /\ Append(r, al) \in Seq(Alert)
    BY <1>2, <2>1, AppendAlert DEF Close, Opening
  <2> QED BY <1>2, <2>2 DEF Close, al
<1>3. CASE Fail(s, r, t, q)
  <2> DEFINE al == [type |-> "failed", prev |-> s]
  <2>1. al \in Alert /\ al.prev = s /\ al.type = "failed"
    BY DEF Alert, EventTypes, Statuses
  <2> HIDE DEF al
  <2>2. FeedOK(t, Append(r, al)) /\ Append(r, al) \in Seq(Alert)
    BY <1>3, <2>1, AppendAlert DEF Fail, Opening
  <2> QED BY <1>3, <2>2 DEF Fail, al
<1>4. CASE GoDown(s, r, t, q)
  <2> DEFINE al == [type |-> "down", prev |-> s]
  <2>1. al \in Alert /\ al.prev = s /\ al.type = "down"
    BY DEF Alert, EventTypes, Statuses
  <2> HIDE DEF al
  <2>2. FeedOK(t, Append(r, al)) /\ Append(r, al) \in Seq(Alert)
    BY <1>4, <2>1, AppendAlert DEF GoDown, Opening
  <2> QED BY <1>4, <2>2 DEF GoDown, al
<1>5. CASE GoLate(s, r, t, q)
  <2> DEFINE al == [type |-> "late", prev |-> "up"]
  <2>1. al \in Alert /\ al.prev = s /\ al.type = "late"
    BY <1>5 DEF Alert, EventTypes, Statuses, GoLate
  <2> HIDE DEF al
  <2>2. FeedOK(t, Append(r, al)) /\ Append(r, al) \in Seq(Alert)
    BY <1>5, <2>1, AppendAlert DEF GoLate, Opening
  <2> QED BY <1>5, <2>2 DEF GoLate, al
<1>6. CASE Reset(s, r, t, q)
  <2>1. q = << >> /\ DOMAIN q = {} /\ q \in Seq(Alert)
    BY <1>6, EmptySeq DEF Reset
  <2> QED BY <1>6, <2>1 DEF Reset, FeedOK
<1> QED BY <1>1, <1>2, <1>3, <1>4, <1>5, <1>6 DEF Move

-----------------------------------------------------------------------------
(***************************************************************************)
(* The calls of Monitor are moves.                                         *)
(***************************************************************************)
Moves == \A n \in Name : Move(st[n].status, raised[n], st'[n].status, raised'[n])

\* A ping is quiet or closes an outage, for one check; the others stay.
LEMMA PingMoves ==
  ASSUME TypeOK, NEW m \in Name, NEW note \in Notes, NEW now \in Instants,
         RecordPing(m, note, now)
  PROVE  Moves
<1>1. note \in Nat /\ now \in Nat
  BY MonitorAssumption
<1> SUFFICES ASSUME NEW n \in Name
             PROVE  Move(st[n].status, raised[n], st'[n].status, raised'[n])
  BY DEF Moves
<1>2. CASE n # m
  <2>1. st'[n] = st[n] /\ raised'[n] = raised[n]
    BY <1>2 DEF RecordPing, TypeOK
  <2> QED BY <2>1 DEF Move, Quiet
<1>3. CASE n = m
  <2>1. st[m] \in CheckState /\ raised[m] \in Seq(Alert)
    BY DEF TypeOK
  <2>2. /\ st'[m] = PingCheck(st[m], note, now)
        /\ raised'[m] = raised[m] \o AlertsOf(PingEvents(m, st[m], note, now))
    BY DEF RecordPing, TypeOK
  <2>3. st'[m].status = "up"
    BY <2>2 DEF PingCheck
  <2>4. CASE st[m].status = "down"
    <3>1. [type |-> "recovered", prev |-> "down"] \in Alert
      BY DEF Alert, EventTypes, Statuses
    <3>2. AlertsOf(PingEvents(m, st[m], note, now)) =
            << [type |-> "recovered", prev |-> "down"] >>
      BY <1>1, <2>1, <2>4, RaisedByContact
    <3>3. raised'[m] = Append(raised[m], [type |-> "recovered", prev |-> "down"])
      BY <2>1, <2>2, <3>1, <3>2, AppendIsConcat
    <3> QED BY <1>3, <2>3, <2>4, <3>3 DEF Move, Close
  <2>5. CASE st[m].status # "down"
    <3>1. AlertsOf(PingEvents(m, st[m], note, now)) = << >>
      BY <1>1, <2>1, <2>5, RaisedByContact
    <3>2. raised'[m] = raised[m]
      BY <2>1, <2>2, <3>1, ConcatEmptySeq
    <3> QED BY <1>3, <2>3, <2>5, <3>2 DEF Move, Quiet
  <2> QED BY <2>4, <2>5
<1> QED BY <1>2, <1>3

\* A failure report always appends failed, for one check; the others stay.
LEMMA FailMoves ==
  ASSUME TypeOK, NEW m \in Name, NEW note \in Notes, NEW now \in Instants,
         RecordFail(m, note, now)
  PROVE  Moves
<1>1. note \in Nat /\ now \in Nat
  BY MonitorAssumption
<1> SUFFICES ASSUME NEW n \in Name
             PROVE  Move(st[n].status, raised[n], st'[n].status, raised'[n])
  BY DEF Moves
<1>2. CASE n # m
  <2>1. st'[n] = st[n] /\ raised'[n] = raised[n]
    BY <1>2 DEF RecordFail, TypeOK
  <2> QED BY <2>1 DEF Move, Quiet
<1>3. CASE n = m
  <2>1. st[m] \in CheckState /\ raised[m] \in Seq(Alert)
    BY DEF TypeOK
  <2>2. /\ st'[m] = FailCheck(st[m], note, now)
        /\ raised'[m] = raised[m] \o AlertsOf(FailEvents(m, st[m], note, now))
    BY DEF RecordFail, TypeOK
  <2>3. raised'[m] = Append(raised[m], [type |-> "failed", prev |-> st[m].status])
    <3>1. [type |-> "failed", prev |-> st[m].status] \in Alert
      BY <2>1 DEF Alert, EventTypes, CheckState
    <3>2. AlertsOf(FailEvents(m, st[m], note, now)) =
            << [type |-> "failed", prev |-> st[m].status] >>
      BY <1>1, <2>1, RaisedByContact
    <3> QED BY <2>1, <2>2, <3>1, <3>2, AppendIsConcat
  <2>4. st'[m].status = "down"
    BY <2>2 DEF FailCheck
  <2> QED BY <1>3, <2>3, <2>4 DEF Move, Fail
<1> QED BY <1>2, <1>3

\* A sweep moves each check by itself: pruned, down, late or nothing.
LEMMA SweepMoves ==
  ASSUME TypeOK, NEW now \in Instants, SweepAll(now)
  PROVE  Moves
<1> SUFFICES ASSUME NEW n \in Name
             PROVE  Move(st[n].status, raised[n], st'[n].status, raised'[n])
  BY DEF Moves
<1>1. /\ st'[n] = IF n \in Configured(cfg) THEN SweepCheck(cfg, n, st[n], now) ELSE Fresh
      /\ raised'[n] = SweepAlerts(n, now)
      /\ st[n] \in CheckState
  BY DEF SweepAll, Sweep, TypeOK
<1>2. CASE n \notin Configured(cfg)
  <2>1. st'[n].status = "waiting" /\ raised'[n] = << >>
    BY <1>1, <1>2 DEF Fresh, SweepAlerts
  <2> QED BY <2>1 DEF Move, Reset
<1>3. CASE n \in Configured(cfg) /\ ~Fires(cfg, n, st[n], now)
  <2>1. st'[n] = st[n] /\ raised'[n] = raised[n]
    BY <1>1, <1>3 DEF SweepCheck, SweepAlerts
  <2> QED BY <2>1 DEF Move, Quiet
<1>4. CASE n \in Configured(cfg) /\ Fires(cfg, n, st[n], now)
  <2> DEFINE to == SweptTo(cfg, n, st[n], now)
  <2>1. st'[n].status = to
    BY <1>1, <1>4 DEF SweepCheck, CheckState
  <2>2. raised'[n] = Append(raised[n], [type |-> to, prev |-> st[n].status])
    BY <1>1, <1>4 DEF SweepAlerts, AsAlert, SweepEvent
  <2>3. CASE GoesDown(cfg, n, st[n], now)
    <3>1. to = "down" /\ st[n].status \in {"up", "late"}
      BY <2>3 DEF SweptTo, GoesDown
    <3> QED BY <2>1, <2>2, <3>1 DEF Move, GoDown
  <2>4. CASE ~GoesDown(cfg, n, st[n], now)
    <3>1. to = "late" /\ st[n].status = "up"
      BY <1>4, <2>4 DEF SweptTo, Fires, GoesLate
    <3> QED BY <2>1, <2>2, <3>1 DEF Move, GoLate
  <2> QED BY <2>3, <2>4
<1> QED BY <1>2, <1>3, <1>4

\* Every step of the machine, stuttering included, moves every check.
LEMMA StepMoves ==
  ASSUME TypeOK, [Next]_vars
  PROVE  Moves
<1>1. ASSUME NEW n \in Name, NEW note \in Notes, NEW now \in Instants,
             RecordPing(n, note, now)
      PROVE  Moves
  BY <1>1, PingMoves
<1>2. ASSUME NEW n \in Name, NEW note \in Notes, NEW now \in Instants,
             RecordFail(n, note, now)
      PROVE  Moves
  BY <1>2, FailMoves
<1>3. ASSUME NEW now \in Instants, SweepAll(now)
      PROVE  Moves
  BY <1>3, SweepMoves
<1>4. ASSUME UNCHANGED << st, raised >>
      PROVE  Moves
  BY <1>4 DEF Moves, Move, Quiet
<1>5. CASE Reconfigure
  BY <1>4, <1>5 DEF Reconfigure
<1>6. CASE UNCHANGED vars
  BY <1>4, <1>6 DEF vars
<1> QED BY <1>1, <1>2, <1>3, <1>5, <1>6 DEF Next

-----------------------------------------------------------------------------
(***************************************************************************)
(* Type correctness.                                                       *)
(***************************************************************************)
LEMMA MoveKeepsAlerts ==
  ASSUME NEW s \in Statuses, NEW t, NEW r \in Seq(Alert), NEW q, Move(s, r, t, q)
  PROVE  q \in Seq(Alert)
<1>1. \A e \in EventTypes, p \in Statuses : [type |-> e, prev |-> p] \in Alert
  BY DEF Alert
<1>2. \A e \in EventTypes, p \in Statuses :
        Append(r, [type |-> e, prev |-> p]) \in Seq(Alert)
  BY <1>1, AppendProperties
<1>3. << >> \in Seq(Alert)
  BY EmptySeq
<1> QED BY <1>2, <1>3
        DEF Move, Quiet, Close, Fail, GoDown, GoLate, Reset, EventTypes, Statuses

\* Every call and every edit of the configuration keeps the types.
LEMMA TypeStep ==
  ASSUME TypeOK, [Next]_vars
  PROVE  TypeOK'
<1>1. \A n \in Name : raised'[n] \in Seq(Alert)
  <2> SUFFICES ASSUME NEW n \in Name
               PROVE  raised'[n] \in Seq(Alert)
    OBVIOUS
  <2>1. st[n].status \in Statuses /\ raised[n] \in Seq(Alert)
    BY DEF TypeOK, CheckState
  <2>2. Move(st[n].status, raised[n], st'[n].status, raised'[n])
    BY StepMoves DEF Moves
  <2> QED BY <2>1, <2>2, MoveKeepsAlerts
<1>2. cfg \in Configs /\ clock \in Nat /\ st \in [Name -> CheckState]
  BY DEF TypeOK
<1>3. cfg \in Config
  BY <1>2, MonitorAssumption
<1>4. \A now \in Instants : now \in Nat
  BY MonitorAssumption
<1>5. \A note \in Notes : note \in Nat
  BY MonitorAssumption
<1>6. ASSUME NEW n \in Name, NEW note \in Notes, NEW now \in Instants,
             RecordPing(n, note, now)
      PROVE  TypeOK'
  <2>1. PingCheck(st[n], note, now) \in CheckState
    BY <1>2, <1>3, <1>4, <1>5, CheckTypes
  <2>2. st' \in [Name -> CheckState]
    BY <1>2, <1>6, <2>1 DEF RecordPing
  <2>3. raised' \in [Name -> Seq(Alert)]
    BY <1>1, <1>6 DEF RecordPing, TypeOK
  <2> QED BY <1>2, <1>4, <1>6, <2>2, <2>3 DEF RecordPing, CallAt, TypeOK
<1>7. ASSUME NEW n \in Name, NEW note \in Notes, NEW now \in Instants,
             RecordFail(n, note, now)
      PROVE  TypeOK'
  <2>1. FailCheck(st[n], note, now) \in CheckState
    BY <1>2, <1>3, <1>4, <1>5, CheckTypes
  <2>2. st' \in [Name -> CheckState]
    BY <1>2, <1>7, <2>1 DEF RecordFail
  <2>3. raised' \in [Name -> Seq(Alert)]
    BY <1>1, <1>7 DEF RecordFail, TypeOK
  <2> QED BY <1>2, <1>4, <1>7, <2>2, <2>3 DEF RecordFail, CallAt, TypeOK
<1>8. ASSUME NEW now \in Instants, SweepAll(now)
      PROVE  TypeOK'
  <2>1. \A n \in Name : SweepCheck(cfg, n, st[n], now) \in CheckState
    BY <1>2, <1>3, <1>4, CheckTypes, 0 \in Nat
  <2>2. Fresh \in CheckState
    BY MaxNoteAssumption DEF Fresh, CheckState, Statuses, EventTypes, ZeroTime
  <2>3. st' \in [Name -> CheckState]
    BY <1>8, <2>1, <2>2 DEF SweepAll, Sweep
  <2>4. raised' \in [Name -> Seq(Alert)]
    BY <1>1, <1>8 DEF SweepAll
  <2> QED BY <1>2, <1>4, <1>8, <2>3, <2>4 DEF SweepAll, CallAt, TypeOK
<1>9. CASE Reconfigure
  BY <1>9 DEF Reconfigure, TypeOK
<1>10. CASE UNCHANGED vars
  BY <1>10 DEF vars, TypeOK
<1> QED BY <1>6, <1>7, <1>8, <1>9, <1>10 DEF Next

\* The empty state has the right types.
LEMMA TypeInit == Init => TypeOK
<1> SUFFICES ASSUME Init PROVE TypeOK
  OBVIOUS
<1>1. Fresh \in CheckState
  BY MaxNoteAssumption DEF Fresh, CheckState, Statuses, EventTypes, ZeroTime
<1>2. << >> \in Seq(Alert)
  BY EmptySeq
<1> QED BY <1>1, <1>2 DEF Init, TypeOK, NoChecks, ZeroTime

\* Every variable has its type in every reachable state: entries stay
\* well formed (a clipped note, natural counters) under all calls.
THEOREM TypeCorrect == Spec => []TypeOK
<1>1. TypeOK /\ [Next]_vars => TypeOK'
  BY TypeStep
<1> QED BY TypeInit, <1>1, PTL DEF Spec

-----------------------------------------------------------------------------
(***************************************************************************)
(* The inductive invariant: types, entries that explain themselves, and    *)
(* the alert discipline of every check.                                    *)
(***************************************************************************)
Disciplined == \A n \in Name : FeedOK(st[n].status, raised[n])

IInv == TypeOK /\ EntriesExplained /\ Disciplined

\* The discipline of each check is what the four invariants say of all.
LEMMA DisciplineIs ==
  ASSUME Disciplined
  PROVE  OncePerOutage /\ OutagesSettled /\ FileMatchesFeed /\ PrevChained
<1>1. OncePerOutage
  BY DEF Disciplined, FeedOK, OncePerOutage
<1>2. OutagesSettled
  BY DEF Disciplined, FeedOK, OutagesSettled
<1>3. FileMatchesFeed
  BY DEF Disciplined, FeedOK, FileMatchesFeed, Announced
<1>4. PrevChained
  BY DEF Disciplined, FeedOK, PrevChained
<1> QED BY <1>1, <1>2, <1>3, <1>4

\* The invariant holds before the first call.
LEMMA IInvInit == Init => IInv
<1> SUFFICES ASSUME Init PROVE IInv
  OBVIOUS
<1>1. EntriesExplained
  BY FreshExplained DEF Init, EntriesExplained, NoChecks
<1>2. Disciplined
  <2> SUFFICES ASSUME NEW n \in Name
               PROVE  FeedOK(st[n].status, raised[n])
    BY DEF Disciplined
  <2>1. st[n].status = "waiting" /\ raised[n] = << >> /\ DOMAIN raised[n] = {}
    BY DEF Init, NoChecks, Fresh
  <2> QED BY <2>1 DEF FeedOK
<1> QED BY <1>1, <1>2, TypeInit DEF IInv

\* Every call leaves entries that explain themselves.
LEMMA EntriesStep ==
  ASSUME TypeOK, EntriesExplained, [Next]_vars
  PROVE  EntriesExplained'
<1>1. cfg \in Config /\ st \in [Name -> CheckState]
  BY MonitorAssumption DEF TypeOK
<1>2. /\ \A now \in Instants : now \in Nat \ {ZeroTime}
      /\ \A note \in Notes : note \in Nat
  BY MonitorAssumption
<1>3. ASSUME NEW n \in Name, NEW note \in Notes, NEW now \in Instants,
             RecordPing(n, note, now)
      PROVE  EntriesExplained'
  <2>1. EntryExplained(PingCheck(st[n], note, now))
    BY <1>1, <1>2, EntryStep DEF EntriesExplained
  <2> QED BY <1>1, <1>3, <2>1 DEF RecordPing, EntriesExplained
<1>4. ASSUME NEW n \in Name, NEW note \in Notes, NEW now \in Instants,
             RecordFail(n, note, now)
      PROVE  EntriesExplained'
  <2>1. EntryExplained(FailCheck(st[n], note, now))
    BY <1>1, <1>2, EntryStep DEF EntriesExplained
  <2> QED BY <1>1, <1>4, <2>1 DEF RecordFail, EntriesExplained
<1>5. ASSUME NEW now \in Instants, SweepAll(now)
      PROVE  EntriesExplained'
  <2> SUFFICES ASSUME NEW n \in Name
               PROVE  EntryExplained(st'[n])
    BY DEF EntriesExplained
  <2>1. EntryExplained(SweepCheck(cfg, n, st[n], now))
    BY <1>1, <1>2, EntryStep, 0 \in Nat DEF EntriesExplained
  <2> QED BY <1>5, <2>1, FreshExplained DEF SweepAll, Sweep
<1>6. CASE Reconfigure
  BY <1>6 DEF Reconfigure, EntriesExplained
<1>7. CASE UNCHANGED vars
  BY <1>7 DEF vars, EntriesExplained
<1> QED BY <1>3, <1>4, <1>5, <1>6, <1>7 DEF Next

\* Every call and every edit of the configuration preserves the invariant.
LEMMA IInvStep ==
  ASSUME IInv, [Next]_vars
  PROVE  IInv'
<1>1. TypeOK'
  BY TypeStep DEF IInv
<1>2. EntriesExplained'
  BY EntriesStep DEF IInv
<1>3. Disciplined'
  <2> SUFFICES ASSUME NEW n \in Name
               PROVE  FeedOK(st'[n].status, raised'[n])
    BY DEF Disciplined
  <2>1. /\ st[n].status \in Statuses /\ raised[n] \in Seq(Alert)
        /\ st'[n].status \in Statuses
    BY <1>1 DEF IInv, TypeOK, CheckState
  <2>2. FeedOK(st[n].status, raised[n])
    BY DEF IInv, Disciplined
  <2>3. Move(st[n].status, raised[n], st'[n].status, raised'[n])
    BY StepMoves DEF IInv, Moves
  <2> QED BY <2>1, <2>2, <2>3, MoveKeepsFeed
<1> QED BY <1>1, <1>2, <1>3 DEF IInv

\* The inductive invariant holds of every reachable state.
THEOREM Invariant == Spec => []IInv
<1>1. IInv /\ [Next]_vars => IInv'
  BY IInvStep
<1> QED BY IInvInit, <1>1, PTL DEF Spec

\* Status, counters, instants and last event of an entry never contradict
\* each other, in any order of calls and with any clock.
THEOREM EntriesAlwaysExplained == Spec => []EntriesExplained
<1>1. IInv => EntriesExplained
  BY DEF IInv
<1> QED BY Invariant, <1>1, PTL

\* One down alert per outage and one recovered per recovery, for any number of
\* checks, configurations and calls.
THEOREM AlertedOncePerOutage == Spec => []OncePerOutage
<1>1. IInv => OncePerOutage
  BY DisciplineIs DEF IInv
<1> QED BY Invariant, <1>1, PTL

\* No outage is left open in the feed of a check that is not down, and a check
\* that is down has one open.
THEOREM OutagesAlwaysSettled == Spec => []OutagesSettled
<1>1. IInv => OutagesSettled
  BY DisciplineIs DEF IInv
<1> QED BY Invariant, <1>1, PTL

\* The last alert of a check tells its status in the state file.
THEOREM FileAlwaysMatchesFeed == Spec => []FileMatchesFeed
<1>1. IInv => FileMatchesFeed
  BY DisciplineIs DEF IInv
<1> QED BY Invariant, <1>1, PTL

\* The prev_status of each alert is what the alerts before it have left.
THEOREM PrevAlwaysChained == Spec => []PrevChained
<1>1. IInv => PrevChained
  BY DisciplineIs DEF IInv
<1> QED BY Invariant, <1>1, PTL

-----------------------------------------------------------------------------
(***************************************************************************)
(* Outages end only by a ping or by leaving the configuration.             *)
(***************************************************************************)

\* No sweep, failure report or configuration edit takes a check out of down:
\* only a ping does, raising recovered, or the prune of a removed check.
THEOREM DownSticksAlways == Spec => DownSticks
<1>1. ASSUME TypeOK, [Next]_vars, NEW n \in Name
      PROVE  StaysDown(n)
  <2> SUFFICES ASSUME st[n].status = "down", st'[n].status # "down"
               PROVE  \/ /\ st'[n].pings = st[n].pings + 1
                         /\ raised'[n] = Append(raised[n],
                                               [type |-> "recovered", prev |-> "down"])
                      \/ n \notin Configured(cfg) /\ st'[n] = Fresh
    BY DEF StaysDown
  <2>1. st \in [Name -> CheckState] /\ raised \in [Name -> Seq(Alert)]
    BY <1>1 DEF TypeOK
  <2>2. Move(st[n].status, raised[n], st'[n].status, raised'[n])
    BY <1>1, StepMoves DEF Moves
  <2>3. ASSUME NEW m \in Name, NEW note \in Notes, NEW now \in Instants,
               RecordPing(m, note, now)
        PROVE  /\ st'[n].pings = st[n].pings + 1
               /\ raised'[n] = Append(raised[n], [type |-> "recovered", prev |-> "down"])
    <3>1. n = m
      BY <2>1, <2>3 DEF RecordPing
    <3>2. st'[n] = PingCheck(st[n], note, now)
      BY <2>1, <2>3, <3>1 DEF RecordPing
    <3>3. st'[n].status = "up" /\ st'[n].pings = st[n].pings + 1
      BY <3>2 DEF PingCheck
    <3> QED BY <2>2, <3>3 DEF Move, Quiet, Close, Fail, GoDown, GoLate, Reset
  <2>4. ASSUME NEW m \in Name, NEW note \in Notes, NEW now \in Instants,
               RecordFail(m, note, now)
        PROVE  FALSE
    <3>1. st'[n] = IF n = m THEN FailCheck(st[n], note, now) ELSE st[n]
      BY <2>1, <2>4 DEF RecordFail
    <3> QED BY <3>1 DEF FailCheck
  <2>5. ASSUME NEW now \in Instants, SweepAll(now)
        PROVE  n \notin Configured(cfg) /\ st'[n] = Fresh
    <3>1. ~Fires(cfg, n, st[n], now)
      BY DEF Fires, GoesDown, GoesLate
    <3> QED BY <2>5, <3>1 DEF SweepAll, Sweep, SweepCheck
  <2>6. CASE Reconfigure
    BY <2>6 DEF Reconfigure
  <2>7. CASE UNCHANGED vars
    BY <2>7 DEF vars
  <2> QED BY <1>1, <2>3, <2>4, <2>5, <2>6, <2>7 DEF Next
<1>2. TypeOK /\ [Next]_vars => [\A n \in Name : StaysDown(n)]_vars
  BY <1>1
<1> QED BY <1>2, TypeCorrect, PTL DEF Spec, DownSticks

-----------------------------------------------------------------------------
(***************************************************************************)
(* What a sweep does does not depend on the sweeps before it.              *)
(***************************************************************************)

\* Sweeping one entry again at the same or a later instant ends in the status
\* of one sweep at the later instant.
LEMMA SweepCheckTwice ==
  ASSUME NEW config \in Config, NEW n \in Name, NEW cs \in CheckState,
         NEW early \in Nat, NEW late \in Nat, early <= late
  PROVE  /\ SweepCheck(config, n, SweepCheck(config, n, cs, early), late).status =
              SweepCheck(config, n, cs, late).status
         /\ ~Fires(config, n, SweepCheck(config, n, cs, late), late)
<1> DEFINE w == SweepCheck(config, n, cs, early)
           z == SweepCheck(config, n, cs, late)
           dl == cs.lastPing + config.interval[n]
           ge == cs.lastPing + config.interval[n] + config.grace[n]
<1>1. dl \in Nat /\ ge \in Nat /\ dl < ge
  BY DEF CheckState, Config
<1>2. /\ w.lastPing = cs.lastPing
      /\ w.status = IF cs.status \in {"up", "late"} /\ early > ge THEN "down"
                    ELSE IF cs.status = "up" /\ early > dl THEN "late" ELSE cs.status
  BY <1>1 DEF SweepCheck, Fires, GoesDown, GoesLate, GraceEnd, Deadline, SweptTo, CheckState
<1>3. /\ z.lastPing = cs.lastPing
      /\ z.status = IF cs.status \in {"up", "late"} /\ late > ge THEN "down"
                    ELSE IF cs.status = "up" /\ late > dl THEN "late" ELSE cs.status
  BY <1>1 DEF SweepCheck, Fires, GoesDown, GoesLate, GraceEnd, Deadline, SweptTo, CheckState
<1>4. w \in CheckState /\ z \in CheckState
  BY CheckTypes, 0 \in Nat
<1> HIDE DEF w, z, dl, ge
<1>5. SweepCheck(config, n, w, late).status =
        IF w.status \in {"up", "late"} /\ late > ge THEN "down"
        ELSE IF w.status = "up" /\ late > dl THEN "late" ELSE w.status
  BY <1>1, <1>2, <1>4 DEF SweepCheck, Fires, GoesDown, GoesLate, GraceEnd, Deadline,
     SweptTo, CheckState, dl, ge
<1>6. SweepCheck(config, n, w, late).status = z.status
  BY <1>1, <1>2, <1>3, <1>5
<1>7. ~Fires(config, n, z, late)
  BY <1>1, <1>3, <1>4 DEF Fires, GoesDown, GoesLate, GraceEnd, Deadline, dl, ge
<1> QED BY <1>6, <1>7 DEF w, z

\* How often sweeps run does not matter for where they end: the statuses a
\* sweep sets are those it would set had any earlier sweep not run.
THEOREM SweepSpacing == Spec => []SweepSpacingIrrelevant
<1>1. TypeOK => SweepSpacingIrrelevant
  <2> SUFFICES ASSUME TypeOK, NEW early \in Instants, NEW late \in Instants,
                      early <= late, NEW n \in Name
               PROVE  Sweep(cfg, Sweep(cfg, st, early), late)[n].status =
                        Sweep(cfg, st, late)[n].status
    BY DEF SweepSpacingIrrelevant
  <2>1. cfg \in Config /\ st[n] \in CheckState /\ early \in Nat /\ late \in Nat
    BY MonitorAssumption DEF TypeOK
  <2>2. CASE n \in Configured(cfg)
    <3>1. /\ Sweep(cfg, st, late)[n] = SweepCheck(cfg, n, st[n], late)
          /\ Sweep(cfg, Sweep(cfg, st, early), late)[n] =
               SweepCheck(cfg, n, SweepCheck(cfg, n, st[n], early), late)
      BY <2>2 DEF Sweep
    <3> QED BY <2>1, <3>1, SweepCheckTwice
  <2>3. CASE n \notin Configured(cfg)
    BY <2>3 DEF Sweep
  <2> QED BY <2>2, <2>3
<1> QED BY <1>1, TypeCorrect, PTL

\* A second sweep at the same instant changes nothing and tells nobody, in every
\* reachable state.
THEOREM SweepAlwaysIdempotent == Spec => []SweepIdempotent
<1>1. TypeOK => SweepIdempotent
  <2> SUFFICES ASSUME TypeOK, NEW now \in Instants
               PROVE  /\ Sweep(cfg, Sweep(cfg, st, now), now) = Sweep(cfg, st, now)
                      /\ SweepEvents(cfg, Sweep(cfg, st, now), now) = << >>
    BY DEF SweepIdempotent
  <2> DEFINE swept == Sweep(cfg, st, now)
  <2>1. cfg \in Config /\ st \in [Name -> CheckState] /\ now \in Nat
    BY MonitorAssumption DEF TypeOK
  <2>2. \A n \in Configured(cfg) : n \in Name
    BY <2>1, ElementOfSeq DEF Configured, Elements, Config
  <2>3. \A n \in Configured(cfg) : ~Fires(cfg, n, swept[n], now)
    <3> TAKE n \in Configured(cfg)
    <3>1. n \in Name /\ swept[n] = SweepCheck(cfg, n, st[n], now)
      BY <2>2 DEF Sweep
    <3> QED BY <2>1, <3>1, SweepCheckTwice
  <2>4. \A n \in Name : Sweep(cfg, swept, now)[n] = swept[n]
    <3> TAKE n \in Name
    <3>1. CASE n \in Configured(cfg)
      <4>1. SweepCheck(cfg, n, swept[n], now) = swept[n]
        BY <2>3, <3>1 DEF SweepCheck
      <4> QED BY <3>1, <4>1 DEF Sweep
    <3>2. CASE n \notin Configured(cfg)
      BY <3>2 DEF Sweep
    <3> QED BY <3>1, <3>2
  <2>5. Sweep(cfg, swept, now) = swept
    <3>1. swept = [n \in Name |-> swept[n]]
      BY DEF Sweep
    <3>2. Sweep(cfg, swept, now) = [n \in Name |-> Sweep(cfg, swept, now)[n]]
      BY DEF Sweep
    <3> QED BY <2>4, <3>1, <3>2
  <2>6. SweepEvents(cfg, swept, now) = << >>
    <3>1. {n \in Configured(cfg) : Fires(cfg, n, swept[n], now)} = {}
      BY <2>3
    <3>2. Keep(cfg.checks, {}) = << >>
      <4>1. cfg.checks \in Seq(Name)
        BY <2>1 DEF Config
      <4> QED BY <4>1, KeepNone
    <3>3. swept \in [Name -> CheckState]
      BY <2>1, SweepTypes
    <3> HIDE DEF swept
    <3>4. SweepEvents(cfg, swept, now) \in Seq(Event)
      BY <2>1, <3>3, SweepEventsAre DEF OnePerCheck
    <3>5. DOMAIN SweepEvents(cfg, swept, now) = DOMAIN << >>
      BY <3>1, <3>2 DEF SweepEvents
    <3>6. DOMAIN << >> = {}
      OBVIOUS
    <3> QED BY <3>4, <3>5, <3>6, EmptySeq, LenProperties
  <2> QED BY <2>5, <2>6
<1> QED BY <1>1, TypeCorrect, PTL

-----------------------------------------------------------------------------
(***************************************************************************)
(* The status document.                                                    *)
(***************************************************************************)

\* After a sweep, the line of a check says when it is due as its status does.
LEMMA SweptEntryAgrees ==
  ASSUME NEW config \in Config, NEW n \in Configured(config), n \in Name,
         NEW cs \in CheckState, EntryExplained(cs), NEW now \in Nat \ {ZeroTime}
  PROVE  LET e == StatusEntry(config, n, SweepCheck(config, n, cs, now), now) IN
         e.check = n /\ LineAgrees(e, cs, config.grace[n])
<1> DEFINE w == SweepCheck(config, n, cs, now)
<1>1. w \in CheckState /\ EntryExplained(w)
  BY CheckTypes, EntryStep, 0 \in Nat
<1>2. ~Fires(config, n, w, now)
  BY SweepCheckTwice
<1>7. /\ cs.status = "up" => (w.status # "up" <=> Deadline(config, n, w) - now < 0)
      /\ cs.status \in {"up", "late"} =>
           (w.status = "down" <=> -(Deadline(config, n, w) - now) > config.grace[n])
  <2>1. /\ config.interval[n] \in Nat /\ config.grace[n] \in Nat
        /\ cs.lastPing \in Nat /\ w.lastPing = cs.lastPing
    BY DEF Config, CheckState, SweepCheck
  <2>2. w.status = IF Fires(config, n, cs, now) THEN SweptTo(config, n, cs, now) ELSE cs.status
    BY DEF CheckState, SweepCheck
  <2> HIDE DEF w
  <2> QED BY <2>1, <2>2 DEF Fires, SweptTo, GoesDown, GoesLate, GraceEnd, Deadline
<1> HIDE DEF w
<1>3. HasDue(w) <=> w.status # "waiting"
  BY <1>1 DEF EntryExplained, HasDue
<1>4. /\ config.interval[n] \in Nat /\ config.grace[n] \in Nat /\ w.lastPing \in Nat
      /\ w.status \in Statuses
  BY <1>1 DEF Config, CheckState
<1>5. w.status = "up" => Deadline(config, n, w) - now >= 0
  BY <1>2, <1>4 DEF Fires, GoesDown, GoesLate, GraceEnd, Deadline
<1>6. w.status = "late" => -(Deadline(config, n, w) - now) <= config.grace[n]
  BY <1>2, <1>4 DEF Fires, GoesDown, GraceEnd, Deadline
<1>8. cs.status \in {"up", "late"} => w.status # "waiting"
  BY DEF SweepCheck, SweptTo, CheckState, w
<1> QED BY <1>3, <1>4, <1>5, <1>6, <1>7, <1>8
        DEF StatusEntry, DueIn, Statuses, LineAgrees, w

\* The invariant says what the status document may tell.
LEMMA StatusIs == IInv => StatusAgrees
<1> SUFFICES ASSUME IInv, NEW now \in Instants
             PROVE  /\ BuildStatus(cfg, st, now).down =
                         Len(Keep(cfg.checks, {n \in Configured(cfg) : OutageKnown(n)}))
                    /\ \A i \in DOMAIN BuildStatus(cfg, Sweep(cfg, st, now), now).checks :
                         LET e == BuildStatus(cfg, Sweep(cfg, st, now), now).checks[i] IN
                         LineAgrees(e, st[e.check], cfg.grace[e.check])
  BY DEF StatusAgrees
<1>1. cfg \in Config /\ st \in [Name -> CheckState] /\ now \in Nat \ {ZeroTime}
  BY MonitorAssumption DEF IInv, TypeOK
<1>2. \A n \in Configured(cfg) : n \in Name
  BY <1>1, ElementOfSeq DEF Configured, Elements, Config
<1>3. BuildStatus(cfg, st, now).down =
        Len(Keep(cfg.checks, {n \in Configured(cfg) : OutageKnown(n)}))
  <2>1. \A n \in Name : st[n].status = "down" <=> OutageKnown(n)
    BY DisciplineIs DEF IInv, FileMatchesFeed, Announced, OutageKnown
  <2>2. {n \in Configured(cfg) : st[n].status = "down"} =
          {n \in Configured(cfg) : OutageKnown(n)}
    BY <1>2, <2>1
  <2> QED BY <2>2 DEF BuildStatus
<1>4. ASSUME NEW i \in DOMAIN BuildStatus(cfg, Sweep(cfg, st, now), now).checks
      PROVE  LET e == BuildStatus(cfg, Sweep(cfg, st, now), now).checks[i] IN
             LineAgrees(e, st[e.check], cfg.grace[e.check])
  <2> DEFINE n == cfg.checks[i]
  <2>1. i \in DOMAIN cfg.checks
    BY DEF BuildStatus
  <2>2. n \in Configured(cfg) /\ n \in Name
    BY <1>2, <2>1 DEF Configured, Elements
  <2>3. Sweep(cfg, st, now)[n] = SweepCheck(cfg, n, st[n], now)
    BY <2>2 DEF Sweep
  <2>4. BuildStatus(cfg, Sweep(cfg, st, now), now).checks[i] =
          StatusEntry(cfg, n, SweepCheck(cfg, n, st[n], now), now)
    BY <2>1, <2>3 DEF BuildStatus
  <2>5. EntryExplained(st[n]) /\ st[n] \in CheckState
    BY <1>1, <2>2 DEF IInv, EntriesExplained
  <2> HIDE DEF n
  <2> QED BY <1>1, <2>2, <2>4, <2>5, SweptEntryAgrees
<1> QED BY <1>3, <1>4

\* What the status document counts as down is what the receivers know to be
\* down; and after a sweep its statuses and times agree.
THEOREM StatusAlwaysAgrees == Spec => []StatusAgrees
BY StatusIs, Invariant, PTL

-----------------------------------------------------------------------------
(***************************************************************************)
(* Monitor implements AlertFeed.                                           *)
(***************************************************************************)
Types(r) == [i \in DOMAIN r |-> r[i].type]

\* The feed AlertFeed sees grows by what the alert tells.
LEMMA TypesOfAppend ==
  ASSUME NEW r \in Seq(Alert), NEW al \in Alert
  PROVE  Types(Append(r, al)) = Append(Types(r), al.type)
<1> DEFINE q == Append(r, al)
<1>1. /\ q \in Seq(Alert) /\ Len(q) = Len(r) + 1 /\ Len(r) \in Nat
      /\ DOMAIN q = 1..(Len(r) + 1) /\ DOMAIN r = 1..Len(r)
      /\ \A i \in 1..Len(r) : q[i] = r[i] /\ r[i].type \in EventTypes
      /\ q[Len(r) + 1] = al /\ al.type \in EventTypes
  <2>1. /\ q \in Seq(Alert) /\ Len(q) = Len(r) + 1 /\ Len(r) \in Nat
        /\ DOMAIN q = 1..(Len(r) + 1) /\ DOMAIN r = 1..Len(r)
        /\ q[Len(r) + 1] = al
        /\ \A i \in 1..Len(r) : q[i] = r[i]
    BY AppendProperties, LenProperties
  <2>2. \A i \in 1..Len(r) : r[i] \in Alert
    BY ElementOfSeq
  <2>3. \A a \in Alert : a.type \in EventTypes
    BY DEF Alert
  <2> HIDE DEF q
  <2> QED BY <2>1, <2>2, <2>3
<1> HIDE DEF q
<1>2. /\ Types(r) \in Seq(EventTypes) /\ Len(Types(r)) = Len(r)
      /\ \A i \in 1..Len(r) : Types(r)[i] = r[i].type
  BY <1>1 DEF Types
<1>3. /\ Types(q) \in Seq(EventTypes) /\ Len(Types(q)) = Len(r) + 1
      /\ \A i \in 1..(Len(r) + 1) : Types(q)[i] = q[i].type
  <2>1. \A i \in 1..(Len(r) + 1) : q[i].type \in EventTypes
    BY <1>1
  <2> QED BY <1>1, <2>1 DEF Types
<1>4. /\ Append(Types(r), al.type) \in Seq(EventTypes)
      /\ Len(Append(Types(r), al.type)) = Len(r) + 1
      /\ \A i \in 1..Len(r) : Append(Types(r), al.type)[i] = Types(r)[i]
      /\ Append(Types(r), al.type)[Len(r) + 1] = al.type
  BY <1>1, <1>2, AppendProperties
<1>5. \A i \in 1..(Len(r) + 1) : Types(q)[i] = Append(Types(r), al.type)[i]
  BY <1>1, <1>2, <1>3, <1>4
<1>6. Types(q) = Append(Types(r), al.type)
  BY <1>3, <1>4, <1>5, SeqEqual
<1> QED BY <1>6 DEF q

\* An empty feed stays empty under the mapping.
LEMMA TypesOfEmpty == Types(<< >>) = << >>
<1>1. /\ Types(<< >>) \in Seq(EventTypes) /\ Len(Types(<< >>)) = 0
      /\ << >> \in Seq(EventTypes)
  BY EmptySeq DEF Types
<1> QED BY <1>1, EmptySeq

\* The machine implements the promise to receivers: in every behaviour, the
\* alerts of the checks are a behaviour of AlertFeed.
THEOREM MonitorImplementsAlertFeed == Spec => ImplementsAlertFeed
<1> DEFINE out == [n \in Name |-> st[n].status = "down"]
           feed == [n \in Name |-> Types(raised[n])]
<1>1. Init => Feed!Init
  <2> SUFFICES ASSUME Init PROVE Feed!Init
    OBVIOUS
  <2>1. \A n \in Name : st[n].status = "waiting" /\ raised[n] = << >>
    BY DEF Init, NoChecks, Fresh
  <2>2. \A n \in Name : (st[n].status = "down") = FALSE
    BY <2>1
  <2>3. \A n \in Name : Types(raised[n]) = << >>
    BY <2>1, TypesOfEmpty
  <2>4. out = [n \in Name |-> FALSE]
    BY <2>2
  <2>5. feed = [n \in Name |-> << >>]
    BY <2>3
  <2> QED BY <2>4, <2>5 DEF Feed!Init, Types
<1>2. ASSUME TypeOK, TypeOK', [Next]_vars
      PROVE  Feed!Next
  <2>1. ASSUME NEW n \in Name
        PROVE  Feed!Step(n)
    <3> DEFINE s == st[n].status
               t == st'[n].status
               r == raised[n]
               q == raised'[n]
    <3>1. s \in Statuses /\ t \in Statuses /\ r \in Seq(Alert)
      BY <1>2 DEF TypeOK, CheckState
    <3>2. Move(s, r, t, q)
      BY <1>2, StepMoves DEF Moves
    <3>3. /\ out[n] = (s = "down") /\ out'[n] = (t = "down")
          /\ feed[n] = Types(r) /\ feed'[n] = Types(q)
      OBVIOUS
    <3>4. /\ Feed!Same(n) <=> out'[n] = out[n] /\ feed'[n] = feed[n]
          /\ Feed!Warn(n) <=> ~out[n] /\ ~out'[n] /\ feed'[n] = Append(feed[n], "late")
          /\ Feed!Open(n) <=>
               /\ ~out[n] /\ out'[n]
               /\ feed'[n] = Append(feed[n], "down") \/ feed'[n] = Append(feed[n], "failed")
          /\ Feed!FailAgain(n) <=> out[n] /\ out'[n] /\ feed'[n] = Append(feed[n], "failed")
          /\ Feed!Close(n) <=> out[n] /\ ~out'[n] /\ feed'[n] = Append(feed[n], "recovered")
          /\ Feed!Forget(n) <=> ~out'[n] /\ feed'[n] = << >>
      <4>1. \A type : Feed!Raise(n, type) <=> feed'[n] = Append(feed[n], type)
        BY DEF Feed!Raise, Types
      <4>2. Feed!Same(n) <=> out'[n] = out[n] /\ feed'[n] = feed[n]
        BY DEF Feed!Same, Types
      <4>3. Feed!Warn(n) <=> ~out[n] /\ ~out'[n] /\ feed'[n] = Append(feed[n], "late")
        BY <4>1 DEF Feed!Warn
      <4>4. Feed!Open(n) <=>
              /\ ~out[n] /\ out'[n]
              /\ feed'[n] = Append(feed[n], "down") \/ feed'[n] = Append(feed[n], "failed")
        BY <4>1 DEF Feed!Open
      <4>5. Feed!FailAgain(n) <=> out[n] /\ out'[n] /\ feed'[n] = Append(feed[n], "failed")
        BY <4>1 DEF Feed!FailAgain
      <4>6. Feed!Close(n) <=> out[n] /\ ~out'[n] /\ feed'[n] = Append(feed[n], "recovered")
        BY <4>1 DEF Feed!Close
      <4>7. Feed!Forget(n) <=> ~out'[n] /\ feed'[n] = << >>
        BY DEF Feed!Forget, Types
      <4> QED BY <4>2, <4>3, <4>4, <4>5, <4>6, <4>7
    <3> HIDE DEF out, feed
    <3>5. \A e \in EventTypes, p \in Statuses :
            Types(Append(r, [type |-> e, prev |-> p])) = Append(Types(r), e)
      <4> SUFFICES ASSUME NEW e \in EventTypes, NEW p \in Statuses
                   PROVE  Types(Append(r, [type |-> e, prev |-> p])) = Append(Types(r), e)
        OBVIOUS
      <4> DEFINE al == [type |-> e, prev |-> p]
      <4>1. al \in Alert /\ al.type = e
        BY DEF Alert
      <4> HIDE DEF al
      <4>2. Types(Append(r, al)) = Append(Types(r), e)
        BY <3>1, <4>1, TypesOfAppend
      <4> QED BY <4>2 DEF al
    <3>6. CASE Quiet(s, r, t, q)
      <4>1. Types(q) = Types(r) /\ (s = "down") = (t = "down")
        BY <3>6 DEF Quiet
      <4>2. Feed!Same(n)
        BY <3>3, <3>4, <4>1
      <4> QED BY <4>2 DEF Feed!Step
    <3>7. CASE Close(s, r, t, q)
      <4>1. Types(q) = Append(Types(r), "recovered")
        BY <3>5, <3>7 DEF Close, EventTypes, Statuses
      <4>2. Feed!Close(n)
        BY <3>3, <3>4, <3>7, <4>1 DEF Close
      <4> QED BY <4>2 DEF Feed!Step
    <3>8. CASE Fail(s, r, t, q)
      <4>1. Types(q) = Append(Types(r), "failed")
        BY <3>1, <3>5, <3>8 DEF Fail, EventTypes
      <4>2. Feed!Open(n) \/ Feed!FailAgain(n)
        BY <3>3, <3>4, <3>8, <4>1 DEF Fail
      <4> QED BY <4>2 DEF Feed!Step
    <3>9. CASE GoDown(s, r, t, q)
      <4>1. Types(q) = Append(Types(r), "down")
        BY <3>1, <3>5, <3>9 DEF GoDown, EventTypes
      <4>2. Feed!Open(n)
        BY <3>3, <3>4, <3>9, <4>1 DEF GoDown
      <4> QED BY <4>2 DEF Feed!Step
    <3>10. CASE GoLate(s, r, t, q)
      <4>1. Types(q) = Append(Types(r), "late")
        BY <3>5, <3>10 DEF GoLate, EventTypes, Statuses
      <4>2. Feed!Warn(n)
        BY <3>3, <3>4, <3>10, <4>1 DEF GoLate
      <4> QED BY <4>2 DEF Feed!Step
    <3>11. CASE Reset(s, r, t, q)
      <4>1. Types(q) = << >>
        BY <3>11, TypesOfEmpty DEF Reset
      <4>2. Feed!Forget(n)
        BY <3>3, <3>4, <3>11, <4>1 DEF Reset
      <4> QED BY <4>2 DEF Feed!Step
    <3> QED BY <3>2, <3>6, <3>7, <3>8, <3>9, <3>10, <3>11 DEF Move
  <2>2. out' \in [Name -> BOOLEAN]
    OBVIOUS
  <2>3. feed' = [n \in Name |-> feed'[n]]
    OBVIOUS
  <2> QED BY <2>1, <2>2, <2>3 DEF Feed!Next, Types
<1>3. TypeOK /\ TypeOK' /\ [Next]_vars => [Feed!Next]_(Feed!vars)
  BY <1>2
<1> QED BY <1>1, <1>3, TypeCorrect, PTL DEF Spec, ImplementsAlertFeed, Feed!Spec
=============================================================================
