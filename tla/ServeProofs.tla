----------------------------- MODULE ServeProofs -----------------------------
(***************************************************************************)
(* Proofs about Serve, for any number of requests in progress, of checks,  *)
(* starts and deaths: type correctness, what was answered is kept, every   *)
(* alert is in the hands of just one goroutine, no outage is passed over   *)
(* at the start, the server is the monitor, and so it keeps what the       *)
(* monitor promises the receivers of alerts.  And, at the end, about the   *)
(* server beside command-line processes (MixedMode).  None of it speaks of *)
(* a power loss, which may take the file back (AtomicFile, PowerLoss).     *)
(***************************************************************************)
EXTENDS MixedMode, MonitorOpsProofs, FiniteSetTheorems

-----------------------------------------------------------------------------
(***************************************************************************)
(* The inductive invariant.                                                *)
(***************************************************************************)

\* A request in progress has nothing to deliver until it is recorded; then the
\* running server has its contact, or a later one.
RequestOK(h) ==
  /\ req[h].at = "arrived" => req[h].queue = << >>
  /\ req[h].at = "dispatch" =>
       /\ req[h].args.check \in Configured(Cfg)
       /\ req[h].now <= clock
       /\ st[req[h].args.check].lastPing >= req[h].now

RequestsRecorded == \A h \in Handler : Busy(h) => RequestOK(h)

\* The file is the state of the running server, unless the latest save failed.
InSync ==
  /\ Up /\ ~behind => st = file
  /\ ~Up => ~behind

\* Nothing happens to a check that is not configured.
Unwatched ==
  \A n \in Name : n \notin Configured(Cfg) => acked[n] = ZeroTime /\ raised[n] = << >>

\* The alerts that a goroutine, a handler's or (Idle) the main one, has yet to
\* deliver: pending ones, each in one place, and all that are pending.
Goroutines == Handler \cup {Idle}

QueueOf(g) == IF g = Idle THEN queue ELSE IF Busy(g) THEN req[g].queue ELSE << >>

IsPending(r, id) ==
  id[1] \in Name /\ id[2] \in DOMAIN r[id[1]] /\ r[id[1]][id[2]].fate = "pending"

Accounted(Q, r) ==
  /\ \A g \in Goroutines : \A k \in DOMAIN Q[g] : IsPending(r, Q[g][k])
  /\ \A g, o \in Goroutines : \A k \in DOMAIN Q[g], l \in DOMAIN Q[o] :
       Q[g][k] = Q[o][l] => g = o /\ k = l
  /\ \A n \in Name : \A i \in DOMAIN r[n] : r[n][i].fate = "pending" =>
       \E g \in Goroutines : \E k \in DOMAIN Q[g] : Q[g][k] = << n, i >>

Queues == [g \in Goroutines |-> QueueOf(g)]

QueuesAccounted == Accounted(Queues, raised)

\* Each contact in an entry is one of the requests made, and those that have
\* arrived and are not recorded yet are not among them.
Arrived == {h \in Handler : Busy(h) /\ req[h].at = "arrived"}

Contacts(cs) == cs.pings + cs.fails

ContactsCounted ==
  /\ IsFiniteSet(Arrived)
  /\ \A n \in Name : Contacts(file[n]) <= requests
  /\ Up => \A n \in Name : Contacts(st[n]) + Cardinality(Arrived) <= requests

\* While no save has failed, the alerts of a check that is down end with the news
\* of it.
Current == IF Up THEN st ELSE file

Told(feed) == feed # << >> /\ feed[Len(feed)].type \in {"down", "failed"}

DownTold ==
  badSaves = 0 =>
    /\ ~behind
    /\ \A n \in Name : Current[n].status = "down" => Told(raised[n])

IInv ==
  /\ TypeOK /\ RequestsRecorded /\ InSync /\ Unwatched /\ AckedKept
  /\ QueuesAccounted /\ ContactsCounted /\ DownTold

-----------------------------------------------------------------------------
(***************************************************************************)
(* The alerts of one call enter the feeds.                                 *)
(***************************************************************************)
NewAlert(e) == [type |-> e.type, prev |-> e.prev, fate |-> "pending"]

\* Feeds r become s: one more alert for each check that has an event.
Raises(evs, r, s) ==
  /\ s \in [Name -> Seq(Alert)]
  /\ \A n \in Name : (\A i \in DOMAIN evs : evs[i].check # n) => s[n] = r[n]
  /\ \A i \in DOMAIN evs :
       s[evs[i].check] = Append(r[evs[i].check], NewAlert(evs[i]))

\* An event of a call becomes a well-formed alert that is pending.
LEMMA EventFields ==
  ASSUME NEW evs, OnePerCheck(evs), NEW i \in DOMAIN evs
  PROVE  /\ evs[i] \in Event /\ evs[i].check \in Name
         /\ NewAlert(evs[i]) \in Alert /\ NewAlert(evs[i]).fate = "pending"
<1>1. evs[i] \in Event
  BY ElementOfSeq, LenProperties DEF OnePerCheck
<1> QED BY <1>1 DEF Event, NewAlert, Alert

\* Raise appends to a feed the one alert of its check, if there is one.
LEMMA RaiseIs ==
  ASSUME raised \in [Name -> Seq(Alert)], NEW evs, OnePerCheck(evs), Raise(evs)
  PROVE  Raises(evs, raised, raised')
<1> DEFINE New(n) == [i \in DOMAIN About(n, evs) |->
                        [type |-> About(n, evs)[i].type, prev |-> About(n, evs)[i].prev,
                         fate |-> "pending"]]
<1>1. raised' = [n \in Name |-> raised[n] \o New(n)]
  BY DEF Raise
<1>2. ASSUME NEW n \in Name, \A i \in DOMAIN evs : evs[i].check # n
      PROVE  raised'[n] = raised[n] /\ raised'[n] \in Seq(Alert)
  <2>1. About(n, evs) = << >>
    BY <1>2, EventsOfOne DEF About, EventsOf
  <2>2. New(n) \in Seq(Alert) /\ Len(New(n)) = 0
    BY <2>1, EmptySeq
  <2> HIDE DEF New
  <2>3. New(n) = << >>
    BY <2>2, EmptySeq
  <2> QED BY <1>1, <2>3, ConcatEmptySeq
<1>3. ASSUME NEW i \in DOMAIN evs
      PROVE  /\ evs[i].check \in Name
             /\ raised'[evs[i].check] = Append(raised[evs[i].check], NewAlert(evs[i]))
             /\ raised'[evs[i].check] \in Seq(Alert)
  <2> DEFINE n == evs[i].check
  <2>1. n \in Name /\ NewAlert(evs[i]) \in Alert
    BY EventFields
  <2>2. About(n, evs) = << evs[i] >>
    BY EventsOfOne DEF About, EventsOf
  <2>3. New(n) = << NewAlert(evs[i]) >>
    BY <2>2 DEF NewAlert
  <2> HIDE DEF New, n
  <2>4. raised'[n] = raised[n] \o << NewAlert(evs[i]) >>
    BY <1>1, <2>1, <2>3
  <2>5. raised[n] \in Seq(Alert)
    BY <2>1
  <2>6. Append(raised[n], NewAlert(evs[i])) = raised[n] \o << NewAlert(evs[i]) >>
    BY <2>1, <2>5, AppendIsConcat
  <2>7. raised'[n] \in Seq(Alert)
    BY <2>1, <2>4, <2>5, <2>6, AppendProperties
  <2> QED BY <2>1, <2>4, <2>6, <2>7 DEF n
<1>4. \A n \in Name : raised'[n] \in Seq(Alert)
  <2> TAKE n \in Name
  <2>1. CASE \A i \in DOMAIN evs : evs[i].check # n
    BY <1>2, <2>1
  <2>2. CASE \E i \in DOMAIN evs : evs[i].check = n
    BY <1>3, <2>2
  <2> QED BY <2>1, <2>2
<1>5. raised' \in [Name -> Seq(Alert)]
  <2> HIDE DEF New
  <2> QED BY <1>1, <1>4
<1> QED BY <1>2, <1>3, <1>5 DEF Raises

\* What names the alerts of a call: the check, and the place the alert gets.
LEMMA IdsAre ==
  ASSUME raised \in [Name -> Seq(Alert)], NEW evs, OnePerCheck(evs)
  PROVE  /\ Ids(evs) \in Seq(AlertId)
         /\ DOMAIN Ids(evs) = DOMAIN evs
         /\ \A i \in DOMAIN evs :
              Ids(evs)[i] = << evs[i].check, Len(raised[evs[i].check]) + 1 >>
<1>1. \A i \in DOMAIN evs : << evs[i].check, Len(raised[evs[i].check]) + 1 >> \in AlertId
  <2> TAKE i \in DOMAIN evs
  <2>1. evs[i].check \in Name
    BY EventFields
  <2>2. Len(raised[evs[i].check]) \in Nat
    BY <2>1, LenProperties
  <2> QED BY <2>1, <2>2 DEF AlertId
<1>2. DOMAIN evs = 1..Len(evs) /\ Len(evs) \in Nat
  BY LenProperties DEF OnePerCheck
<1> QED BY <1>1, <1>2 DEF Ids

\* The goroutine g, which had nothing to deliver, gets what names the alerts, and
\* nobody else does.
Receives(Q, P, g, evs, r) ==
  /\ Q[g] = << >>
  /\ \A o \in Goroutines : o # g => P[o] = Q[o]
  /\ DOMAIN P[g] = DOMAIN evs
  /\ \A i \in DOMAIN evs : P[g][i] = << evs[i].check, Len(r[evs[i].check]) + 1 >>

\* The alerts of a call are raised and one goroutine receives them.
LEMMA RaiseAccounts ==
  ASSUME NEW r \in [Name -> Seq(Alert)], NEW s, NEW evs, OnePerCheck(evs), Raises(evs, r, s),
         NEW Q, NEW P, Accounted(Q, r),
         NEW g \in Goroutines, Receives(Q, P, g, evs, r)
  PROVE  Accounted(P, s)
<1>r. /\ Q[g] = << >>
      /\ \A o \in Goroutines : o # g => P[o] = Q[o]
      /\ DOMAIN P[g] = DOMAIN evs
      /\ \A i \in DOMAIN evs : P[g][i] = << evs[i].check, Len(r[evs[i].check]) + 1 >>
  BY DEF Receives
<1>0. /\ \A o \in Goroutines : \A k \in DOMAIN Q[o] : IsPending(r, Q[o][k])
      /\ \A o, p \in Goroutines : \A k \in DOMAIN Q[o], l \in DOMAIN Q[p] :
           Q[o][k] = Q[p][l] => o = p /\ k = l
      /\ \A n \in Name : \A i \in DOMAIN r[n] : r[n][i].fate = "pending" =>
           \E o \in Goroutines : \E k \in DOMAIN Q[o] : Q[o][k] = << n, i >>
  BY DEF Accounted
<1>1. \A n \in Name : /\ DOMAIN r[n] = 1..Len(r[n]) /\ Len(r[n]) \in Nat
                      /\ DOMAIN r[n] \subseteq DOMAIN s[n]
                      /\ \A i \in DOMAIN r[n] : s[n][i] = r[n][i]
  <2> TAKE n \in Name
  <2>1. r[n] \in Seq(Alert) /\ DOMAIN r[n] = 1..Len(r[n]) /\ Len(r[n]) \in Nat
    BY LenProperties
  <2>2. CASE \A i \in DOMAIN evs : evs[i].check # n
    BY <2>1, <2>2 DEF Raises
  <2>3. CASE \E i \in DOMAIN evs : evs[i].check = n
    <3>1. PICK i \in DOMAIN evs : evs[i].check = n
      BY <2>3
    <3>2. s[n] = Append(r[n], NewAlert(evs[i])) /\ NewAlert(evs[i]) \in Alert
      BY <3>1, EventFields DEF Raises
    <3> QED BY <2>1, <3>2, AppendProperties
  <2> QED BY <2>1, <2>2, <2>3
<1>2. \A i \in DOMAIN evs : LET n == evs[i].check IN
        /\ n \in Name
        /\ DOMAIN s[n] = DOMAIN r[n] \cup {Len(r[n]) + 1}
        /\ s[n][Len(r[n]) + 1].fate = "pending"
  <2> TAKE i \in DOMAIN evs
  <2> DEFINE n == evs[i].check
             a == NewAlert(evs[i])
  <2>1. n \in Name /\ a \in Alert /\ a.fate = "pending" /\ s[n] = Append(r[n], a)
    BY EventFields DEF Raises
  <2>2. r[n] \in Seq(Alert)
    BY <2>1
  <2> HIDE DEF n, a
  <2>3. /\ DOMAIN s[n] = 1..(Len(r[n]) + 1) /\ Len(r[n]) \in Nat /\ DOMAIN r[n] = 1..Len(r[n])
        /\ s[n][Len(r[n]) + 1] = a
    BY <2>1, <2>2, AppendProperties, LenProperties
  <2>4. /\ n \in Name
        /\ DOMAIN s[n] = DOMAIN r[n] \cup {Len(r[n]) + 1}
        /\ s[n][Len(r[n]) + 1].fate = "pending"
    BY <2>1, <2>3
  <2> QED BY <2>4 DEF n
<1>3. ASSUME NEW o \in Goroutines, o # g, NEW k \in DOMAIN P[o]
      PROVE  /\ P[o][k] = Q[o][k] /\ k \in DOMAIN Q[o]
             /\ IsPending(r, P[o][k]) /\ IsPending(s, P[o][k])
  <2>1. P[o] = Q[o] /\ IsPending(r, Q[o][k])
    BY <1>r, <1>3 DEF Accounted
  <2> QED BY <1>1, <1>3, <2>1 DEF IsPending
<1>4. ASSUME NEW k \in DOMAIN P[g]
      PROVE  IsPending(s, P[g][k]) /\ ~IsPending(r, P[g][k])
  <2> DEFINE n == evs[k].check
             l == Len(r[n]) + 1
  <2>1. k \in DOMAIN evs /\ P[g][k] = << n, l >>
    BY <1>r, <1>4
  <2>2. n \in Name /\ l \in DOMAIN s[n] /\ s[n][l].fate = "pending"
    BY <1>2, <2>1
  <2>3. l \notin DOMAIN r[n]
    BY <1>1, <2>2
  <2> HIDE DEF n, l
  <2> QED BY <2>1, <2>2, <2>3 DEF IsPending
<1>5. ASSUME NEW o \in Goroutines, NEW p \in Goroutines,
             NEW k \in DOMAIN P[o], NEW l \in DOMAIN P[p], P[o][k] = P[p][l]
      PROVE  o = p /\ k = l
  <2>1. CASE o # g /\ p # g
    BY <1>3, <1>5, <2>1 DEF Accounted
  <2>2. CASE o = g /\ p = g
    BY <1>r, <1>5, <2>2 DEF OnePerCheck
  <2>3. CASE (o = g) # (p = g)
    BY <1>3, <1>4, <1>5, <2>3
  <2> QED BY <2>1, <2>2, <2>3
<1>6. ASSUME NEW n \in Name, NEW i \in DOMAIN s[n], s[n][i].fate = "pending"
      PROVE  \E o \in Goroutines : \E k \in DOMAIN P[o] : P[o][k] = << n, i >>
  <2>1. CASE i \in DOMAIN r[n]
    <3>0. r[n][i].fate = "pending"
      BY <1>1, <1>6, <2>1
    <3>1. PICK o \in Goroutines : \E k \in DOMAIN Q[o] : Q[o][k] = << n, i >>
      BY <1>0, <2>1, <3>0
    <3>2. o # g
      <4>1. DOMAIN Q[g] = {}
        BY <1>r
      <4> QED BY <3>1, <4>1
    <3> QED BY <1>r, <3>1, <3>2
  <2>2. CASE i \notin DOMAIN r[n]
    <3>1. PICK k \in DOMAIN evs : evs[k].check = n
      BY <2>2, <1>6 DEF Raises
    <3>2. i = Len(r[n]) + 1
      BY <1>2, <1>6, <2>2, <3>1
    <3>3. k \in DOMAIN P[g] /\ P[g][k] = << n, i >>
      BY <1>r, <3>1, <3>2
    <3> QED BY <3>3
  <2> QED BY <2>1, <2>2
<1>7. \A o \in Goroutines : \A k \in DOMAIN P[o] : IsPending(s, P[o][k])
  BY <1>3, <1>4
<1> QED BY <1>5, <1>6, <1>7 DEF Accounted

\* Feeds r become s: the alert that id names has met its fate.
Settles(r, s, id, fate) == s = [r EXCEPT ![id[1]][id[2]].fate = fate]

\* Settling an alert changes its fate and nothing else of any feed.
LEMMA SettleIs ==
  ASSUME NEW r \in [Name -> Seq(Alert)], NEW id, IsPending(r, id), NEW fate \in Fates,
         NEW s, Settles(r, s, id, fate)
  PROVE  /\ s \in [Name -> Seq(Alert)]
         /\ \A n \in Name :
              /\ DOMAIN s[n] = DOMAIN r[n] /\ Len(s[n]) = Len(r[n])
              /\ \A i \in DOMAIN r[n] :
                   /\ s[n][i].type = r[n][i].type /\ s[n][i].prev = r[n][i].prev
                   /\ ~(n = id[1] /\ i = id[2]) => s[n][i] = r[n][i]
         /\ s[id[1]][id[2]].fate # "pending"
<1> DEFINE m == id[1]
           j == id[2]
<1>1. m \in Name /\ j \in DOMAIN r[m]
  BY DEF IsPending
<1>2. s = [r EXCEPT ![m][j].fate = fate]
  BY DEF Settles
<1> HIDE DEF m, j
<1>3. s[m] = [r[m] EXCEPT ![j].fate = fate] /\ \A n \in Name : n # m => s[n] = r[n]
  BY <1>1, <1>2
<1>4. r[m] \in Seq(Alert) /\ DOMAIN r[m] = 1..Len(r[m]) /\ Len(r[m]) \in Nat
  BY <1>1, LenProperties
<1>5. r[m][j] \in Alert
  BY <1>1, <1>4, ElementOfSeq
<1> DEFINE e == [r[m][j] EXCEPT !.fate = fate]
<1>6. s[m] = [r[m] EXCEPT ![j] = e]
  BY <1>3
<1>7. e \in Alert /\ e.type = r[m][j].type /\ e.prev = r[m][j].prev /\ e.fate # "pending"
  BY <1>5 DEF Alert, Fates
<1> HIDE DEF e
<1>8. /\ s[m] \in Seq(Alert) /\ DOMAIN s[m] = DOMAIN r[m] /\ Len(s[m]) = Len(r[m])
      /\ \A i \in DOMAIN r[m] : s[m][i] = IF i = j THEN e ELSE r[m][i]
  <2>1. j \in 1..Len(r[m])
    BY <1>1, <1>4
  <2>2. /\ s[m] \in Seq(Alert) /\ Len(s[m]) = Len(r[m])
        /\ \A i \in 1..Len(r[m]) : s[m][i] = IF i = j THEN e ELSE r[m][i]
    BY <1>4, <1>6, <1>7, <2>1, ExceptSeq
  <2> QED BY <1>4, <2>2, LenProperties
<1>9. s \in [Name -> Seq(Alert)]
  <2>1. \A n \in Name : s[n] \in Seq(Alert)
    BY <1>3, <1>8
  <2> QED BY <1>2, <2>1
<1>10. s[m][j].fate # "pending"
  BY <1>1, <1>7, <1>8
<1>11. \A n \in Name :
         /\ DOMAIN s[n] = DOMAIN r[n] /\ Len(s[n]) = Len(r[n])
         /\ \A i \in DOMAIN r[n] :
              /\ s[n][i].type = r[n][i].type /\ s[n][i].prev = r[n][i].prev
              /\ ~(n = m /\ i = j) => s[n][i] = r[n][i]
  BY <1>3, <1>7, <1>8
<1> QED BY <1>9, <1>10, <1>11 DEF m, j

\* A delivery of the goroutine g comes to its end: the alert is no longer
\* pending, and no longer in the queue of g.
LEMMA SettleAccounts ==
  ASSUME NEW r \in [Name -> Seq(Alert)], NEW s, NEW fate \in Fates,
         NEW Q \in [Goroutines -> Seq(AlertId)], NEW P, Accounted(Q, r),
         NEW g \in Goroutines, Q[g] # << >>,
         \A o \in Goroutines : o # g => P[o] = Q[o],
         P[g] = Tail(Q[g]),
         Settles(r, s, Head(Q[g]), fate)
  PROVE  Accounted(P, s)
<1> DEFINE id == Head(Q[g])
           m == id[1]
           j == id[2]
<1>0. /\ \A o \in Goroutines : \A k \in DOMAIN Q[o] : IsPending(r, Q[o][k])
      /\ \A o, p \in Goroutines : \A k \in DOMAIN Q[o], l \in DOMAIN Q[p] :
           Q[o][k] = Q[p][l] => o = p /\ k = l
      /\ \A n \in Name : \A i \in DOMAIN r[n] : r[n][i].fate = "pending" =>
           \E o \in Goroutines : \E k \in DOMAIN Q[o] : Q[o][k] = << n, i >>
  BY DEF Accounted
<1>1. /\ Q[g] \in Seq(AlertId) /\ Len(Q[g]) \in Nat /\ DOMAIN Q[g] = 1..Len(Q[g])
      /\ Len(Q[g]) > 0 /\ 1 \in DOMAIN Q[g] /\ id = Q[g][1]
  BY LenProperties, EmptySeq
<1>2. /\ DOMAIN P[g] = 1..(Len(Q[g]) - 1)
      /\ \A k \in DOMAIN P[g] : k + 1 \in DOMAIN Q[g] /\ k + 1 # 1 /\ P[g][k] = Q[g][k + 1]
  <2>1. Tail(Q[g]) \in Seq(AlertId) /\ Len(Tail(Q[g])) = Len(Q[g]) - 1
    BY <1>1, HeadTailProperties
  <2>2. DOMAIN P[g] = 1..(Len(Q[g]) - 1)
    BY <2>1, LenProperties
  <2>3. \A k \in 1..(Len(Q[g]) - 1) : Tail(Q[g])[k] = Q[g][k + 1]
    BY <1>1, HeadTailProperties
  <2> QED BY <1>1, <2>2, <2>3
<1>3. IsPending(r, id) /\ id \in AlertId
  BY <1>1, ElementOfSeq DEF Accounted
<1>4. m \in Name /\ j \in DOMAIN r[m] /\ id = << m, j >>
  BY <1>3 DEF IsPending, AlertId
<1>5. Settles(r, s, id, fate) /\ m = id[1] /\ j = id[2]
  OBVIOUS
<1> HIDE DEF id, m, j
<1>6. s[m][j].fate # "pending"
  BY <1>3, <1>5, SettleIs
<1>7. /\ \A n \in Name : DOMAIN s[n] = DOMAIN r[n]
      /\ \A n \in Name : \A i \in DOMAIN r[n] : ~(n = m /\ i = j) => s[n][i] = r[n][i]
  BY <1>3, <1>5, SettleIs
<1>8. \A n \in Name : \A i \in DOMAIN r[n] : << n, i >> # id => s[n][i] = r[n][i]
  BY <1>4, <1>7
<1>9. ASSUME NEW o \in Goroutines, NEW k \in DOMAIN P[o]
      PROVE  \E l \in DOMAIN Q[o] :
               /\ P[o][k] = Q[o][l] /\ Q[o][l] # id
               /\ l = IF o = g THEN k + 1 ELSE k
  <2>1. CASE o = g
    <3>1. k + 1 \in DOMAIN Q[g] /\ k + 1 # 1 /\ P[g][k] = Q[g][k + 1]
      BY <1>2, <1>9, <2>1
    <3>2. Q[g][k + 1] # Q[g][1]
      BY <1>0, <1>1, <3>1
    <3> QED BY <1>1, <2>1, <3>1, <3>2
  <2>2. CASE o # g
    BY <1>0, <1>1, <1>9, <2>2
  <2> QED BY <2>1, <2>2
<1>10. ASSUME NEW o \in Goroutines, NEW k \in DOMAIN P[o]
       PROVE  IsPending(s, P[o][k])
  <2>1. PICK l \in DOMAIN Q[o] : P[o][k] = Q[o][l] /\ Q[o][l] # id
    BY <1>9
  <2>2. IsPending(r, P[o][k]) /\ P[o][k] \in AlertId
    BY <1>0, <2>1, ElementOfSeq, LenProperties
  <2>3. << P[o][k][1], P[o][k][2] >> # id
    BY <1>4, <2>1, <2>2 DEF AlertId
  <2> QED BY <1>7, <1>8, <2>2, <2>3 DEF IsPending
<1>11. ASSUME NEW o \in Goroutines, NEW p \in Goroutines,
              NEW k \in DOMAIN P[o], NEW l \in DOMAIN P[p], P[o][k] = P[p][l]
       PROVE  o = p /\ k = l
  <2>1. PICK v \in DOMAIN Q[o] : P[o][k] = Q[o][v] /\ v = IF o = g THEN k + 1 ELSE k
    BY <1>9
  <2>2. PICK w \in DOMAIN Q[p] : P[p][l] = Q[p][w] /\ w = IF p = g THEN l + 1 ELSE l
    BY <1>9
  <2>3. o = p /\ v = w
    <3>1. Q[o][v] = Q[p][w]
      BY <1>11, <2>1, <2>2
    <3> QED BY <1>0, <3>1
  <2>4. o = g => k \in Int /\ l \in Int
    BY <1>1, <1>2, <2>3
  <2> QED BY <2>1, <2>2, <2>3, <2>4
<1>12. ASSUME NEW n \in Name, NEW i \in DOMAIN s[n], s[n][i].fate = "pending"
       PROVE  \E o \in Goroutines : \E k \in DOMAIN P[o] : P[o][k] = << n, i >>
  <2>1. i \in DOMAIN r[n] /\ << n, i >> # id /\ r[n][i].fate = "pending"
    BY <1>4, <1>6, <1>7, <1>8, <1>12
  <2>2. PICK o \in Goroutines : \E k \in DOMAIN Q[o] : Q[o][k] = << n, i >>
    BY <1>0, <2>1
  <2>3. PICK l \in DOMAIN Q[o] : Q[o][l] = << n, i >>
    BY <2>2
  <2>4. CASE o # g
    BY <2>3, <2>4
  <2>5. CASE o = g
    <3>1. l # 1 /\ l \in 1..Len(Q[g])
      BY <1>1, <2>1, <2>3, <2>5
    <3>2. l - 1 \in DOMAIN P[g] /\ (l - 1) + 1 = l
      BY <1>1, <1>2, <3>1
    <3>3. P[g][l - 1] = << n, i >>
      BY <1>2, <2>3, <2>5, <3>2
    <3> QED BY <3>2, <3>3
  <2> QED BY <2>4, <2>5
<1> QED BY <1>10, <1>11, <1>12 DEF Accounted

-----------------------------------------------------------------------------
(***************************************************************************)
(* The two calls of the monitor.                                           *)
(***************************************************************************)
CheckOf(h)      == req[h].args.check
RecordEvents(h) == ContactEvents(req[h].args, st[CheckOf(h)], clock)
RecordEntry(h)  == Contact(req[h].args, st[CheckOf(h)], clock)
Recorded(h)     == [at |-> "dispatch", args |-> req[h].args, now |-> clock,
                    queue |-> Ids(RecordEvents(h))]

\* A busy handler has a request, and the server is up.
LEMMA BusyIs ==
  ASSUME TypeOK, NEW h \in Handler, Busy(h)
  PROVE  /\ req[h] \in Request /\ req[h].args \in Requests /\ CheckOf(h) \in Name
         /\ req[h].now \in Nat /\ req[h].queue \in Seq(AlertId)
         /\ req[h].at \in {"arrived", "dispatch"}
         /\ Up
<1>1. req[h] \in Request /\ Up
  BY DEF TypeOK, Busy
<1>2. req[h].args \in Requests
  BY <1>1 DEF Request
<1> QED BY <1>1, <1>2 DEF Request, Requests, CheckOf

\* No request is the mark of an idle handler.
LEMMA RequestIs ==
  ASSUME NEW r \in Request
  PROVE  r # Idle
BY ServeAssumption

\* A request that is recorded changes one entry, by a contact at the present
\* instant.
LEMMA RecordIs ==
  ASSUME TypeOK, NEW h \in Handler, NEW ok \in BOOLEAN, Record(h, ok)
  PROVE  /\ Busy(h) /\ Up /\ req[h].at = "arrived"
         /\ CheckOf(h) \in Name /\ CheckOf(h) \in Configured(Cfg)
         /\ RecordEntry(h) \in CheckState
         /\ RecordEntry(h).lastPing = clock
         /\ Contacts(RecordEntry(h)) = Contacts(st[CheckOf(h)]) + 1
         /\ OnePerCheck(RecordEvents(h))
         /\ \A i \in DOMAIN RecordEvents(h) : RecordEvents(h)[i].check = CheckOf(h)
         /\ Raises(RecordEvents(h), raised, raised')
         /\ st' = [st EXCEPT ![CheckOf(h)] = RecordEntry(h)]
         /\ Recorded(h) \in Request
         /\ req' = [req EXCEPT ![h] = Recorded(h)]
         /\ Persist(ok, RecordEvents(h))
         /\ called' = clock
         /\ UNCHANGED << clock, server, acked, requests, starts >>
<1> DEFINE n == CheckOf(h)
           r == req[h].args
<1>1. Busy(h) /\ req[h].at = "arrived" /\ n \in Configured(Cfg)
  BY DEF Record, RecordAt, CheckOf
<1>2. req[h] \in Request /\ r \in Requests /\ n \in Name /\ Up
  BY <1>1, BusyIs
<1>3. st[n] \in CheckState /\ clock \in Nat /\ raised \in [Name -> Seq(Alert)]
  BY <1>2 DEF TypeOK
<1>4. /\ st' = [st EXCEPT ![n] = RecordEntry(h)]
      /\ Raise(RecordEvents(h)) /\ Persist(ok, RecordEvents(h))
      /\ req' = [req EXCEPT ![h] = Recorded(h)]
      /\ called' = clock
      /\ UNCHANGED << clock, server, acked, requests, starts >>
  BY DEF Record, RecordAt, RecordEntry, RecordEvents, Recorded, CheckOf
<1>5. r.cmd = "ping" \/ r.cmd = "fail"
  BY <1>2 DEF Requests
<1>6. /\ RecordEntry(h) \in CheckState
      /\ RecordEntry(h).lastPing = clock
      /\ Contacts(RecordEntry(h)) = Contacts(st[n]) + 1
  <2>1. PingCheck(st[n], 0, clock) \in CheckState /\ FailCheck(st[n], 0, clock) \in CheckState
    BY <1>2, <1>3, CheckTypes, ServeAssumption, 0 \in Nat
  <2>2. st[n].pings \in Nat /\ st[n].fails \in Nat
    BY <1>3 DEF CheckState
  <2>3. /\ PingCheck(st[n], 0, clock).lastPing = clock
        /\ FailCheck(st[n], 0, clock).lastPing = clock
        /\ PingCheck(st[n], 0, clock).pings = st[n].pings + 1
        /\ PingCheck(st[n], 0, clock).fails = st[n].fails
        /\ FailCheck(st[n], 0, clock).pings = st[n].pings
        /\ FailCheck(st[n], 0, clock).fails = st[n].fails + 1
    BY DEF PingCheck, FailCheck
  <2>4. RecordEntry(h) = PingCheck(st[n], 0, clock) \/ RecordEntry(h) = FailCheck(st[n], 0, clock)
    BY <1>5 DEF RecordEntry, Contact
  <2> HIDE DEF n
  <2> QED BY <2>1, <2>2, <2>3, <2>4 DEF Contacts
<1>7. /\ OnePerCheck(RecordEvents(h))
      /\ \A i \in DOMAIN RecordEvents(h) : RecordEvents(h)[i].check = n
  <2>1. RecordEvents(h) = PingEvents(n, st[n], 0, clock) \/ RecordEvents(h) = FailEvents(n, st[n], 0, clock)
    <3>1. r.check = n
      BY DEF CheckOf
    <3> QED BY <1>5, <3>1 DEF RecordEvents, ContactEvents
  <2>2. OnePerCheck(RecordEvents(h))
    <3>1. /\ n \in Name /\ st[n] \in CheckState /\ clock \in Nat
      BY <1>2, <1>3
    <3> HIDE DEF n
    <3>2. \A evs \in {PingEvents(n, st[n], 0, clock), FailEvents(n, st[n], 0, clock)} :
            OnePerCheck(evs)
      BY <3>1, ContactEventsAre, 0 \in Nat
    <3> QED BY <2>1, <3>2
  <2>3. \A i \in DOMAIN RecordEvents(h) : RecordEvents(h)[i].check = n
    <3> DEFINE p == PingEvents(n, st[n], 0, clock)
               f == FailEvents(n, st[n], 0, clock)
    <3>1. \A i \in DOMAIN p : p[i].check = n
      BY DEF PingEvents
    <3>2. \A i \in DOMAIN f : f[i].check = n
      BY DEF FailEvents
    <3>3. RecordEvents(h) = p \/ RecordEvents(h) = f
      BY <2>1
    <3> HIDE DEF n, p, f
    <3> QED BY <3>1, <3>2, <3>3
  <2> QED BY <2>2, <2>3
<1>8. Raises(RecordEvents(h), raised, raised') /\ Ids(RecordEvents(h)) \in Seq(AlertId)
  BY <1>3, <1>4, <1>7, RaiseIs, IdsAre
<1>9. Recorded(h) \in Request
  BY <1>2, <1>3, <1>8 DEF Request, Recorded
<1> QED BY <1>1, <1>2, <1>4, <1>6, <1>7, <1>8, <1>9

SweepRaises == SweepEvents(Cfg, st, clock)

\* A sweep changes entries of any number of checks, but not when they last
\* called; at most one alert each.
LEMMA SweepIs ==
  ASSUME TypeOK, NEW ok \in BOOLEAN, SweepLocked(ok)
  PROVE  /\ st' = Sweep(Cfg, st, clock) /\ st' \in [Name -> CheckState]
         /\ \A n \in Name : n \in Configured(Cfg) =>
              /\ st'[n] = SweepCheck(Cfg, n, st[n], clock)
              /\ st'[n].lastPing = st[n].lastPing
              /\ Contacts(st'[n]) = Contacts(st[n])
         /\ \A n \in Name : n \notin Configured(Cfg) =>
              /\ st'[n] = Fresh /\ Contacts(st'[n]) = 0
         /\ OnePerCheck(SweepRaises)
         /\ Raises(SweepRaises, raised, raised')
         /\ \A n \in Name :
              raised'[n] = IF n \in Configured(Cfg) /\ Fires(Cfg, n, st[n], clock)
                             THEN Append(raised[n], NewAlert(SweepEvent(Cfg, n, st[n], clock)))
                             ELSE raised[n]
         /\ Persist(ok, SweepRaises)
         /\ main' = "dispatch" /\ queue' = Ids(SweepRaises) /\ queue' \in Seq(AlertId)
         /\ called' = clock
         /\ UNCHANGED << clock, req, acked, requests, starts, nextTick >>
<1>1. /\ st \in [Name -> CheckState] /\ clock \in Nat /\ raised \in [Name -> Seq(Alert)]
      /\ Cfg \in Config
  BY ServeAssumption DEF TypeOK
<1>2. /\ st' = Sweep(Cfg, st, clock)
      /\ Raise(SweepRaises) /\ Persist(ok, SweepRaises)
      /\ main' = "dispatch" /\ queue' = Ids(SweepRaises)
      /\ called' = clock
      /\ UNCHANGED << clock, req, acked, requests, starts, nextTick >>
  BY DEF SweepLocked, SweepRaises
<1>3. st' \in [Name -> CheckState]
  BY <1>1, <1>2, SweepTypes
<1>4. \A n \in Name : n \in Configured(Cfg) =>
        /\ st'[n] = SweepCheck(Cfg, n, st[n], clock)
        /\ st'[n].lastPing = st[n].lastPing
        /\ Contacts(st'[n]) = Contacts(st[n])
  <2> TAKE n \in Name
  <2> HAVE n \in Configured(Cfg)
  <2>1. st'[n] = SweepCheck(Cfg, n, st[n], clock) /\ st[n] \in CheckState
    BY <1>1, <1>2 DEF Sweep
  <2>2. /\ SweepCheck(Cfg, n, st[n], clock).lastPing = st[n].lastPing
        /\ SweepCheck(Cfg, n, st[n], clock).pings = st[n].pings
        /\ SweepCheck(Cfg, n, st[n], clock).fails = st[n].fails
    BY <2>1 DEF SweepCheck, CheckState
  <2> QED BY <2>1, <2>2 DEF Contacts
<1>5. \A n \in Name : n \notin Configured(Cfg) => st'[n] = Fresh /\ Contacts(st'[n]) = 0
  BY <1>2 DEF Sweep, Fresh, Contacts
<1>6. /\ OnePerCheck(SweepRaises)
      /\ \A n \in Name :
           EventsOf(n, SweepRaises) =
             IF n \in Configured(Cfg) /\ Fires(Cfg, n, st[n], clock)
               THEN << SweepEvent(Cfg, n, st[n], clock) >> ELSE << >>
  BY <1>1, SweepEventsAre DEF SweepRaises
<1>7. Raises(SweepRaises, raised, raised') /\ queue' \in Seq(AlertId)
  BY <1>1, <1>2, <1>6, RaiseIs, IdsAre
<1>8. ASSUME NEW n \in Name
      PROVE  raised'[n] = IF n \in Configured(Cfg) /\ Fires(Cfg, n, st[n], clock)
                            THEN Append(raised[n], NewAlert(SweepEvent(Cfg, n, st[n], clock)))
                            ELSE raised[n]
  <2>1. CASE n \in Configured(Cfg) /\ Fires(Cfg, n, st[n], clock)
    <3> DEFINE e == SweepEvent(Cfg, n, st[n], clock)
    <3>1. EventsOf(n, SweepRaises) = << e >>
      BY <1>6, <2>1
    <3> HIDE DEF e
    <3>2. << e >> # << >>
      OBVIOUS
    <3>3. PICK i \in DOMAIN SweepRaises : SweepRaises[i].check = n
      BY <1>6, <3>1, <3>2, EventsOfOne
    <3>4. << SweepRaises[i] >> = << e >>
      BY <1>6, <3>1, <3>3, EventsOfOne
    <3>5. SweepRaises[i] = e
      BY <3>4
    <3>6. raised'[n] = Append(raised[n], NewAlert(SweepRaises[i]))
      BY <1>7, <3>3 DEF Raises
    <3> QED BY <2>1, <3>5, <3>6 DEF e
  <2>2. CASE ~(n \in Configured(Cfg) /\ Fires(Cfg, n, st[n], clock))
    <3>1. EventsOf(n, SweepRaises) = << >>
      BY <1>6, <2>2
    <3>2. \A i \in DOMAIN SweepRaises : SweepRaises[i].check # n
      <4> SUFFICES ASSUME NEW i \in DOMAIN SweepRaises, SweepRaises[i].check = n PROVE FALSE
        OBVIOUS
      <4>1. EventsOf(n, SweepRaises) = << SweepRaises[i] >>
        BY <1>6, EventsOfOne
      <4> QED BY <3>1, <4>1
    <3>3. raised'[n] = raised[n]
      BY <1>7, <3>2 DEF Raises
    <3> QED BY <2>2, <3>3
  <2> QED BY <2>1, <2>2
<1> QED BY <1>2, <1>3, <1>4, <1>5, <1>6, <1>7, <1>8

\* When the process is gone, no alert is pending; what they told is unchanged.
LEMMA GoneIs ==
  ASSUME TypeOK, Gone
  PROVE  /\ raised' \in [Name -> Seq(Alert)]
         /\ \A n \in Name :
              /\ DOMAIN raised'[n] = DOMAIN raised[n] /\ Len(raised'[n]) = Len(raised[n])
              /\ \A i \in DOMAIN raised[n] :
                   /\ raised'[n][i].type = raised[n][i].type
                   /\ raised'[n][i].prev = raised[n][i].prev
                   /\ raised'[n][i].fate # "pending"
<1> DEFINE Lost(a) == [a EXCEPT !.fate = IF @ = "pending" THEN "lost" ELSE @]
<1>1. raised' = [n \in Name |-> [i \in DOMAIN raised[n] |-> Lost(raised[n][i])]]
  BY DEF Gone
<1>2. \A a \in Alert : /\ Lost(a) \in Alert /\ Lost(a).type = a.type /\ Lost(a).prev = a.prev
                       /\ Lost(a).fate # "pending"
  BY DEF Alert
<1> HIDE DEF Lost
<1>3. ASSUME NEW n \in Name
      PROVE  /\ raised'[n] \in Seq(Alert)
             /\ DOMAIN raised'[n] = DOMAIN raised[n] /\ Len(raised'[n]) = Len(raised[n])
             /\ \A i \in DOMAIN raised[n] : raised'[n][i] = Lost(raised[n][i]) /\ raised[n][i] \in Alert
  <2>1. raised[n] \in Seq(Alert) /\ DOMAIN raised[n] = 1..Len(raised[n]) /\ Len(raised[n]) \in Nat
    BY LenProperties DEF TypeOK
  <2>2. \A i \in DOMAIN raised[n] : raised[n][i] \in Alert
    BY <2>1, ElementOfSeq
  <2>3. raised'[n] = [i \in 1..Len(raised[n]) |-> Lost(raised[n][i])]
    BY <1>1, <2>1
  <2> QED BY <1>2, <2>1, <2>2, <2>3
<1>4. raised' \in [Name -> Seq(Alert)]
  BY <1>1, <1>3
<1> QED BY <1>2, <1>3, <1>4

\* The alert at the head of a queue is pending, and the queue of g shrinks.
LEMMA DispatchIs ==
  ASSUME TypeOK, QueuesAccounted, NEW g \in Goroutines, NEW fate \in Fates,
         QueueOf(g) # << >>, Settle(Head(QueueOf(g)), fate)
  PROVE  /\ IsPending(raised, Head(QueueOf(g)))
         /\ Tail(QueueOf(g)) \in Seq(AlertId)
<1>1. QueueOf(g) \in Seq(AlertId)
  BY BusyIs, EmptySeq DEF Goroutines, QueueOf, TypeOK
<1>2. 1 \in DOMAIN QueueOf(g) /\ Head(QueueOf(g)) = QueueOf(g)[1]
  BY <1>1, LenProperties, EmptySeq
<1>3. IsPending(raised, QueueOf(g)[1])
  BY <1>2 DEF QueuesAccounted, Accounted, Queues
<1>4. Tail(QueueOf(g)) \in Seq(AlertId)
  BY <1>1, HeadTailProperties
<1> QED BY <1>2, <1>3, <1>4

\* The queues of all goroutines, as a function.
LEMMA QueuesTyped ==
  ASSUME TypeOK
  PROVE  Queues \in [Goroutines -> Seq(AlertId)]
<1> SUFFICES ASSUME NEW g \in Goroutines PROVE QueueOf(g) \in Seq(AlertId)
  BY DEF Queues
<1> QED BY BusyIs, EmptySeq DEF Goroutines, QueueOf, TypeOK

\* A request with one alert less to deliver.
Shorter(q) == [q EXCEPT !.queue = Tail(q.queue)]

\* Taking the head off the queue of a request leaves a request.
LEMMA ShorterIs ==
  ASSUME NEW q \in Request, Tail(q.queue) \in Seq(AlertId)
  PROVE  /\ Shorter(q) \in Request /\ Shorter(q).queue = Tail(q.queue)
         /\ Shorter(q).args = q.args /\ Shorter(q).at = q.at /\ Shorter(q).now = q.now
<1> DEFINE t == Tail(q.queue)
<1>1. t \in Seq(AlertId) /\ Shorter(q) = [q EXCEPT !.queue = t]
  BY DEF Shorter
<1> HIDE DEF t
<1>2. /\ [q EXCEPT !.queue = t] \in Request /\ [q EXCEPT !.queue = t].queue = t
      /\ [q EXCEPT !.queue = t].args = q.args /\ [q EXCEPT !.queue = t].at = q.at
      /\ [q EXCEPT !.queue = t].now = q.now
  BY <1>1 DEF Request
<1> QED BY <1>1, <1>2 DEF t

\* A delivery ends, of a request or of the main goroutine.
LEMMA HandlerDispatchIs ==
  ASSUME TypeOK, QueuesAccounted, NEW h \in Handler, NEW fate \in Fates,
         HandlerDispatch(h, fate)
  PROVE  /\ Busy(h) /\ QueueOf(h) = req[h].queue /\ QueueOf(h) # << >>
         /\ Settle(Head(QueueOf(h)), fate)
         /\ req' \in [Handler -> Request \cup {Idle}]
         /\ \A o \in Handler : o # h => req'[o] = req[o]
         /\ req'[h] \in Request /\ req'[h].queue = Tail(req[h].queue)
         /\ req'[h].args = req[h].args /\ req'[h].at = req[h].at /\ req'[h].now = req[h].now
         /\ raised' \in [Name -> Seq(Alert)]
<1>1. /\ Busy(h) /\ QueueOf(h) = req[h].queue /\ QueueOf(h) # << >>
      /\ Settle(Head(QueueOf(h)), fate)
      /\ req' = [req EXCEPT ![h].queue = Tail(@)]
  <2>1. h # Idle
    BY ServeAssumption
  <2> QED BY <2>1 DEF HandlerDispatch, QueueOf
<1>2. h \in Goroutines
  BY DEF Goroutines
<1>3. Tail(req[h].queue) \in Seq(AlertId) /\ IsPending(raised, Head(QueueOf(h)))
  BY <1>1, <1>2, DispatchIs
<1>4. req \in [Handler -> Request \cup {Idle}] /\ req[h] \in Request
  BY <1>1, BusyIs DEF TypeOK
<1>6. req'[h] = Shorter(req[h]) /\ \A o \in Handler : o # h => req'[o] = req[o]
  BY <1>1, <1>4 DEF Shorter
<1>7. /\ req'[h] \in Request /\ req'[h].queue = Tail(req[h].queue)
      /\ req'[h].args = req[h].args /\ req'[h].at = req[h].at /\ req'[h].now = req[h].now
  BY <1>3, <1>4, <1>6, ShorterIs
<1>8. req' \in [Handler -> Request \cup {Idle}]
  BY <1>1, <1>4, <1>6, <1>7
<1>9. raised' \in [Name -> Seq(Alert)]
  <2>1. Settles(raised, raised', Head(QueueOf(h)), fate)
    BY <1>1 DEF Settle, Settles
  <2> QED BY <1>3, <2>1, SettleIs DEF TypeOK
<1> QED BY <1>1, <1>6, <1>7, <1>8, <1>9

\* A delivery of the main goroutine ends.
LEMMA MainDispatchIs ==
  ASSUME TypeOK, QueuesAccounted, NEW fate \in Fates, MainDispatch(fate)
  PROVE  /\ QueueOf(Idle) = queue /\ queue # << >> /\ Settle(Head(queue), fate)
         /\ queue' = Tail(queue) /\ queue' \in Seq(AlertId)
         /\ raised' \in [Name -> Seq(Alert)]
<1>1. /\ QueueOf(Idle) = queue /\ queue # << >> /\ Settle(Head(queue), fate)
      /\ queue' = Tail(queue)
  BY DEF MainDispatch, QueueOf
<1>2. Idle \in Goroutines
  BY DEF Goroutines
<1>3. queue' \in Seq(AlertId)
  BY <1>1, <1>2, DispatchIs
<1>4. raised' \in [Name -> Seq(Alert)]
  <2>1. IsPending(raised, Head(queue)) /\ Settles(raised, raised', Head(queue), fate)
    BY <1>1, <1>2, DispatchIs DEF Settle, Settles
  <2> QED BY <2>1, SettleIs DEF TypeOK
<1> QED BY <1>1, <1>3, <1>4

-----------------------------------------------------------------------------
(***************************************************************************)
(* Type correctness.                                                       *)
(***************************************************************************)
LEMMA TypeInit == Init => TypeOK
<1> SUFFICES ASSUME Init PROVE TypeOK
  OBVIOUS
<1>1. NoChecks \in [Name -> CheckState]
  BY MaxNoteAssumption DEF NoChecks, Fresh, CheckState, Statuses, EventTypes, ZeroTime
<1>2. 1 \in 1..MaxClock /\ << >> \in Seq(AlertId) /\ << >> \in Seq(Alert)
  BY ServeAssumption, EmptySeq
<1>3. 0 \in 0..MaxRequests /\ 0 \in 0..MaxStarts /\ 0 \in 0..MaxBadSaves
  BY ServeAssumption
<1>4. /\ req = [h \in Handler |-> Idle] /\ raised = [n \in Name |-> << >>]
      /\ acked = [n \in Name |-> 0] /\ clock = 1
  BY DEF Init, ZeroTime
<1>5. req \in [Handler -> Request \cup {Idle}] /\ \A h \in Handler : ~Busy(h)
  BY <1>4 DEF Busy
<1>6. raised \in [Name -> Seq(Alert)]
  BY <1>2, <1>4
<1>7. acked \in [Name -> 0..clock]
  BY <1>4
<1>8. /\ clock \in 1..MaxClock /\ called \in 0..clock /\ nextTick \in Nat
      /\ file \in [Name -> CheckState] /\ st \in [Name -> CheckState]
  BY <1>1, <1>2 DEF Init, ZeroTime
<1> QED BY <1>2, <1>3, <1>5, <1>6, <1>7, <1>8 DEF Init, TypeOK, Phases

\* The acknowledged instants stay in the past.
LEMMA AckedLater ==
  ASSUME acked \in [Name -> 0..clock], clock \in Nat, NEW t \in Nat, clock <= t
  PROVE  acked \in [Name -> 0..t]
<1>1. \A n \in Name : acked[n] \in 0..t
  OBVIOUS
<1> QED BY <1>1

\* A save keeps the types, whether it succeeds or not.
LEMMA PersistType ==
  ASSUME TypeOK, NEW ok \in BOOLEAN, NEW evs, Persist(ok, evs), st' \in [Name -> CheckState]
  PROVE  /\ file' \in [Name -> CheckState] /\ behind' \in BOOLEAN
         /\ badSaves' \in 0..MaxBadSaves
<1>1. badSaves \in 0..MaxBadSaves /\ MaxBadSaves \in Nat /\ file \in [Name -> CheckState]
  BY ServeAssumption DEF TypeOK
<1> QED BY <1>1 DEF Persist

\* Every step keeps the types.
LEMMA TypeStep ==
  ASSUME TypeOK, RequestsRecorded, QueuesAccounted, [Next]_vars
  PROVE  TypeOK'
<1>1. /\ clock \in 1..MaxClock /\ clock \in Nat /\ called \in 0..clock
      /\ file \in [Name -> CheckState] /\ st \in [Name -> CheckState]
      /\ main \in Phases /\ queue \in Seq(AlertId)
      /\ tick \in BOOLEAN /\ nextTick \in Nat
      /\ req \in [Handler -> Request \cup {Idle}]
      /\ raised \in [Name -> Seq(Alert)]
      /\ acked \in [Name -> 0..clock] /\ behind \in BOOLEAN
      /\ requests \in 0..MaxRequests /\ starts \in 0..MaxStarts /\ badSaves \in 0..MaxBadSaves
      /\ ~Up => \A h \in Handler : ~Busy(h)
      /\ main # "dispatch" => queue = << >>
  BY ServeAssumption DEF TypeOK
<1>2. /\ MaxClock \in Nat /\ MaxRequests \in Nat /\ MaxStarts \in Nat /\ MaxBadSaves \in Nat
      /\ SweepEvery \in Nat \ {0}
  BY ServeAssumption
<1>3. << >> \in Seq(AlertId)
  BY EmptySeq
<1>4. ASSUME Tick PROVE TypeOK'
  <2>1. clock' = clock + 1 /\ clock' \in 1..MaxClock
    BY <1>1, <1>2, <1>4 DEF Tick
  <2>2. acked' \in [Name -> 0..clock'] /\ called' \in 0..clock'
    <3>1. acked \in [Name -> 0..(clock + 1)] /\ called \in 0..(clock + 1)
      BY <1>1, AckedLater
    <3> QED BY <1>4, <2>1, <3>1 DEF Tick, history
  <2> QED BY <1>1, <1>4, <2>1, <2>2 DEF Tick, TypeOK, server, history, counters, Up, Busy
<1>5. ASSUME TickerFires PROVE TypeOK'
  <2>1. nextTick' \in Nat
    <3>1. (clock - nextTick) \in Nat
      BY <1>1, <1>5 DEF TickerFires
    <3>2. ((clock - nextTick) \div SweepEvery) \in Nat
      BY <1>2, <3>1
    <3> DEFINE d == (clock - nextTick) \div SweepEvery
    <3>3. nextTick' = nextTick + SweepEvery * (1 + d)
      BY <1>5 DEF TickerFires
    <3> HIDE DEF d
    <3>4. d \in Nat
      BY <3>2 DEF d
    <3>5. SweepEvery * (1 + d) \in Nat
      BY <1>2, <3>4
    <3> QED BY <1>1, <3>3, <3>5
  <2> QED BY <1>1, <1>5, <2>1 DEF TickerFires, TypeOK, history, counters, Up, Busy
<1>6. ASSUME Start PROVE TypeOK'
  <2>1. starts' \in 0..MaxStarts /\ nextTick' \in Nat
    BY <1>1, <1>2, <1>6 DEF Start
  <2> QED BY <1>1, <1>3, <1>6, <2>1 DEF Start, TypeOK, history, Up, Busy, Phases
<1>7. ASSUME NEW h \in Handler, Refuse(h) PROVE TypeOK'
  <2>1. req' \in [Handler -> Request \cup {Idle}] /\ \A o \in Handler : Busy(o)' => Busy(o)
    BY <1>1, <1>7 DEF Refuse, Busy
  <2> QED BY <1>1, <1>7, <2>1 DEF Refuse, TypeOK, server, history, counters, Up
<1>8. ASSUME NEW h \in Handler, NEW r \in Requests, Arrive(h, r) PROVE TypeOK'
  <2>1. [at |-> "arrived", args |-> r, now |-> ZeroTime, queue |-> << >>] \in Request
    BY <1>3 DEF Request, ZeroTime
  <2>2. req' \in [Handler -> Request \cup {Idle}] /\ Up /\ Up'
    BY <1>1, <1>8, <2>1 DEF Arrive, Listening, Up, server
  <2>3. requests' \in 0..MaxRequests
    BY <1>1, <1>2, <1>8 DEF Arrive
  <2> QED BY <1>1, <1>8, <2>2, <2>3 DEF Arrive, TypeOK, server, history, Up
<1>9. ASSUME NEW h \in Handler, NEW ok \in BOOLEAN, Record(h, ok) PROVE TypeOK'
  <2>1. /\ Up /\ CheckOf(h) \in Name /\ RecordEntry(h) \in CheckState
        /\ Raises(RecordEvents(h), raised, raised')
        /\ st' = [st EXCEPT ![CheckOf(h)] = RecordEntry(h)]
        /\ Recorded(h) \in Request /\ req' = [req EXCEPT ![h] = Recorded(h)]
        /\ Persist(ok, RecordEvents(h))
        /\ called' = clock
        /\ UNCHANGED << clock, server, acked, requests, starts >>
    BY <1>9, RecordIs
  <2>2. st' \in [Name -> CheckState] /\ req' \in [Handler -> Request \cup {Idle}]
    BY <1>1, <2>1
  <2>3. raised' \in [Name -> Seq(Alert)]
    BY <2>1 DEF Raises
  <2>4. /\ file' \in [Name -> CheckState] /\ behind' \in BOOLEAN /\ badSaves' \in 0..MaxBadSaves
    BY <2>1, <2>2, PersistType
  <2>5. Up' /\ called' \in 0..clock'
    BY <1>1, <2>1 DEF Up, server
  <2> QED BY <1>1, <2>1, <2>2, <2>3, <2>4, <2>5 DEF TypeOK, server
<1>10. ASSUME NEW h \in Handler, Reply(h) PROVE TypeOK'
  <2>1. req' \in [Handler -> Request \cup {Idle}] /\ \A o \in Handler : Busy(o)' => Busy(o)
    BY <1>1, <1>10 DEF Reply, Busy
  <2>2. CheckOf(h) \in Name /\ req[h].now \in 0..clock
    <3>1. Busy(h) /\ req[h].at = "dispatch"
      BY <1>10 DEF Reply
    <3>2. req[h].now \in Nat /\ CheckOf(h) \in Name
      BY <3>1, BusyIs
    <3>3. req[h].now <= clock
      BY <3>1 DEF RequestsRecorded, RequestOK
    <3> QED BY <1>1, <3>2, <3>3
  <2>3. acked' \in [Name -> 0..clock]
    BY <1>1, <1>10, <2>2 DEF Reply, CheckOf
  <2> QED BY <1>1, <1>10, <2>1, <2>3 DEF Reply, TypeOK, server, counters, Up
<1>11. ASSUME NEW h \in Handler, NEW fate \in Fates, HandlerDispatch(h, fate) PROVE TypeOK'
  <2>1. Busy(h) /\ Up /\ req' \in [Handler -> Request \cup {Idle}] /\ raised' \in [Name -> Seq(Alert)]
    BY <1>11, HandlerDispatchIs, BusyIs
  <2>2. UNCHANGED << clock, file, st, server, history, behind, counters >>
    BY <1>11 DEF HandlerDispatch
  <2> QED BY <1>1, <2>1, <2>2 DEF TypeOK, server, history, counters, Up
<1>12. ASSUME NEW ok \in BOOLEAN, SweepLocked(ok), tick' \in BOOLEAN, Up PROVE TypeOK'
  <2>1. /\ st' \in [Name -> CheckState] /\ Raises(SweepRaises, raised, raised')
        /\ Persist(ok, SweepRaises)
        /\ main' = "dispatch" /\ queue' \in Seq(AlertId)
        /\ called' = clock
        /\ UNCHANGED << clock, req, acked, requests, starts, nextTick >>
    BY <1>12, SweepIs
  <2>2. raised' \in [Name -> Seq(Alert)]
    BY <2>1 DEF Raises
  <2>3. /\ file' \in [Name -> CheckState] /\ behind' \in BOOLEAN /\ badSaves' \in 0..MaxBadSaves
    BY <2>1, PersistType
  <2> QED BY <1>1, <1>12, <2>1, <2>2, <2>3 DEF TypeOK, Up, Phases
<1>13. ASSUME NEW fate \in Fates, MainDispatch(fate) PROVE TypeOK'
  <2>1. queue' \in Seq(AlertId) /\ raised' \in [Name -> Seq(Alert)]
    BY <1>13, MainDispatchIs
  <2>2. main = "dispatch" /\ UNCHANGED << clock, file, st, main, tick, nextTick, req, history, behind, counters >>
    BY <1>13 DEF MainDispatch
  <2> QED BY <1>1, <2>1, <2>2 DEF TypeOK, history, counters, Up, Busy
<1>14. ASSUME SweepReturns \/ Stop PROVE TypeOK'
  BY <1>1, <1>14 DEF SweepReturns, Stop, TypeOK, Phases, history, counters, Up, Busy
<1>15. ASSUME Gone PROVE TypeOK'
  <2>1. raised' \in [Name -> Seq(Alert)]
    BY <1>15, GoneIs
  <2>2. NoChecks \in [Name -> CheckState]
    BY MaxNoteAssumption DEF NoChecks, Fresh, CheckState, Statuses, EventTypes, ZeroTime
  <2>3. acked' \in [Name -> 0..clock]
    BY <1>1, <1>15 DEF Gone, ZeroTime
  <2>4. req' \in [Handler -> Request \cup {Idle}] /\ \A h \in Handler : ~Busy(h)'
    BY <1>15 DEF Gone, Busy
  <2> QED BY <1>1, <1>3, <1>15, <2>1, <2>2, <2>3, <2>4 DEF Gone, TypeOK, Phases, counters, Up
<1>16. ASSUME UNCHANGED vars PROVE TypeOK'
  BY <1>1, <1>16 DEF vars, TypeOK, server, history, counters, Up, Busy
<1>17. ASSUME NEW ok \in BOOLEAN, SweepAtBoot(ok) \/ SweepOnTick(ok) PROVE TypeOK'
  BY <1>1, <1>12, <1>17 DEF SweepAtBoot, SweepOnTick, Up
<1> QED BY <1>4, <1>5, <1>6, <1>7, <1>8, <1>9, <1>10, <1>11, <1>13, <1>14, <1>15, <1>16, <1>17
        DEF Next, MainStep, HandlerStep, HandlerRuns, ShutdownDone, ShutdownTimesOut, Crash

-----------------------------------------------------------------------------
(***************************************************************************)
(* The steps, as far as the other parts of the invariant are concerned.    *)
(***************************************************************************)

\* Time, the ticker and the main loop go on; nothing else changes.
Quiet ==
  /\ UNCHANGED << file, st, queue, req, raised, history, behind, counters >>
  /\ clock' \in Nat /\ clock <= clock'
  /\ Up' = Up

\* A sweep, at the start or on a tick.
Swept(ok) == main \in {"boot", "wait"} /\ SweepLocked(ok)

\* Every step is one of ten kinds.
LEMMA StepIs ==
  ASSUME TypeOK, [Next]_vars
  PROVE  \/ Quiet
         \/ Start
         \/ \E h \in Handler, r \in Requests : Arrive(h, r)
         \/ \E h \in Handler : Refuse(h)
         \/ \E h \in Handler, ok \in BOOLEAN : Record(h, ok)
         \/ \E h \in Handler : Reply(h)
         \/ \E h \in Handler, fate \in Fates : HandlerDispatch(h, fate)
         \/ \E ok \in BOOLEAN : Swept(ok)
         \/ \E fate \in Fates : MainDispatch(fate)
         \/ Up /\ Gone
<1>1. clock \in Nat
  BY DEF TypeOK
<1>2. Tick => Quiet
  BY <1>1 DEF Tick, Quiet, server, Up
<1>3. TickerFires => Quiet
  BY <1>1 DEF TickerFires, Quiet, Up
<1>4. SweepReturns \/ Stop => Quiet
  BY <1>1 DEF SweepReturns, Stop, Quiet, Up
<1>5. UNCHANGED vars => Quiet
  BY <1>1 DEF vars, server, history, counters, Quiet, Up
<1>6. \A ok \in BOOLEAN : SweepAtBoot(ok) \/ SweepOnTick(ok) => Swept(ok)
  BY DEF SweepAtBoot, SweepOnTick, Swept
<1>7. ShutdownDone \/ ShutdownTimesOut \/ Crash => Up /\ Gone
  BY DEF ShutdownDone, ShutdownTimesOut, Crash, Up
<1> QED BY <1>2, <1>3, <1>4, <1>5, <1>6, <1>7 DEF Next, MainStep, HandlerStep, HandlerRuns

\* No step takes a recorded contact away from the running server.
LEMMA RecordedStep ==
  ASSUME TypeOK, RequestsRecorded, QueuesAccounted, [Next]_vars
  PROVE  RequestsRecorded'
<1> SUFFICES ASSUME NEW o \in Handler, Busy(o)' PROVE RequestOK(o)'
  BY DEF RequestsRecorded
<1>1. Busy(o) => RequestOK(o)
  BY DEF RequestsRecorded
<1>2. clock \in Nat /\ st \in [Name -> CheckState] /\ req \in [Handler -> Request \cup {Idle}]
  BY DEF TypeOK
<1>3. Busy(o) => req[o] \in Request /\ CheckOf(o) \in Name /\ req[o].now \in Nat
  BY BusyIs
<1>4. \A n \in Name : st[n].lastPing \in Nat
  BY <1>2 DEF CheckState
<1>5. CASE Quiet
  BY <1>1, <1>2, <1>3, <1>5 DEF Quiet, Busy, RequestOK
<1>6. CASE Start
  BY <1>6 DEF Start, TypeOK, Up, Busy
<1>7. ASSUME NEW h \in Handler, NEW r \in Requests, Arrive(h, r) PROVE RequestOK(o)'
  <2>1. o = h => req'[o].at = "arrived" /\ req'[o].queue = << >>
    BY <1>2, <1>7 DEF Arrive
  <2>2. o # h => req'[o] = req[o] /\ Busy(o)
    BY <1>2, <1>7 DEF Arrive, Busy
  <2> QED BY <1>1, <1>7, <2>1, <2>2 DEF Arrive, RequestOK
<1>8. ASSUME NEW h \in Handler, Refuse(h) \/ Reply(h) PROVE RequestOK(o)'
  <2>1. req'[o] = req[o] /\ Busy(o)
    BY <1>2, <1>8 DEF Refuse, Reply, Busy
  <2> QED BY <1>1, <1>8, <2>1 DEF Refuse, Reply, RequestOK
<1>9. ASSUME NEW h \in Handler, NEW ok \in BOOLEAN, Record(h, ok) PROVE RequestOK(o)'
  <2>1. /\ CheckOf(h) \in Name /\ CheckOf(h) \in Configured(Cfg)
        /\ RecordEntry(h).lastPing = clock
        /\ st' = [st EXCEPT ![CheckOf(h)] = RecordEntry(h)]
        /\ req' = [req EXCEPT ![h] = Recorded(h)]
        /\ clock' = clock
    BY <1>9, RecordIs
  <2>2. CASE o = h
    <3>1. req'[o] = Recorded(h)
      BY <1>2, <2>1, <2>2
    <3>2. /\ req'[o].at = "dispatch" /\ req'[o].args.check = CheckOf(h) /\ req'[o].now = clock
      BY <3>1 DEF Recorded, CheckOf
    <3>3. st'[CheckOf(h)].lastPing = clock
      BY <1>2, <2>1
    <3> QED BY <1>2, <2>1, <3>2, <3>3 DEF RequestOK
  <2>3. CASE o # h
    <3>1. req'[o] = req[o] /\ Busy(o)
      BY <1>2, <2>1, <2>3 DEF Busy
    <3>2. req[o].at = "dispatch" => st'[CheckOf(o)].lastPing >= req[o].now
      <4>1. CASE CheckOf(o) = CheckOf(h)
        <5>1. st'[CheckOf(o)].lastPing = clock
          BY <1>2, <2>1, <4>1
        <5> QED BY <1>1, <1>2, <1>3, <3>1, <5>1 DEF RequestOK
      <4>2. CASE CheckOf(o) # CheckOf(h)
        BY <1>1, <1>2, <1>3, <2>1, <3>1, <4>2 DEF RequestOK, CheckOf
      <4> QED BY <4>1, <4>2
    <3> QED BY <1>1, <2>1, <3>1, <3>2 DEF RequestOK, CheckOf
  <2> QED BY <2>2, <2>3
<1>10. ASSUME NEW h \in Handler, NEW fate \in Fates, HandlerDispatch(h, fate) PROVE RequestOK(o)'
  <2>1. /\ Busy(h) /\ req[h].at = "dispatch"
        /\ st' = st /\ clock' = clock
    BY <1>10 DEF HandlerDispatch
  <2>2. /\ o # h => req'[o] = req[o] /\ Busy(o)
        /\ req'[h].args = req[h].args /\ req'[h].at = req[h].at /\ req'[h].now = req[h].now
    BY <1>10, HandlerDispatchIs DEF Busy
  <2> QED BY <1>1, <2>1, <2>2 DEF RequestOK
<1>11. ASSUME NEW ok \in BOOLEAN, Swept(ok) PROVE RequestOK(o)'
  <2>1. /\ \A n \in Name : n \in Configured(Cfg) => st'[n].lastPing = st[n].lastPing
        /\ UNCHANGED << clock, req >>
    BY <1>11, SweepIs DEF Swept
  <2> QED BY <1>1, <1>3, <2>1 DEF Busy, RequestOK, CheckOf
<1>12. ASSUME NEW fate \in Fates, MainDispatch(fate) PROVE RequestOK(o)'
  BY <1>1, <1>12 DEF MainDispatch, Busy, RequestOK
<1>13. CASE Gone
  BY <1>13 DEF Gone, Busy
<1> QED BY <1>5, <1>6, <1>7, <1>8, <1>9, <1>10, <1>11, <1>12, <1>13, StepIs

\* Only a save that fails parts the file from the running server.
LEMMA InSyncStep ==
  ASSUME TypeOK, InSync, [Next]_vars
  PROVE  InSync'
<1>1. CASE Quiet
  BY <1>1 DEF Quiet, InSync, Up
<1>2. CASE Start
  BY <1>2 DEF Start, InSync, Up
<1>3. ASSUME NEW h \in Handler, NEW r \in Requests, Arrive(h, r) PROVE InSync'
  BY <1>3 DEF Arrive, InSync, Up, server
<1>4. ASSUME NEW h \in Handler, Refuse(h) \/ Reply(h) PROVE InSync'
  BY <1>4 DEF Refuse, Reply, InSync, Up, server, history
<1>5. ASSUME NEW h \in Handler, NEW ok \in BOOLEAN, Record(h, ok) PROVE InSync'
  BY <1>5, RecordIs DEF Persist, InSync, Up, server
<1>6. ASSUME NEW h \in Handler, NEW fate \in Fates, HandlerDispatch(h, fate) PROVE InSync'
  BY <1>6 DEF HandlerDispatch, InSync, Up, server
<1>7. ASSUME NEW ok \in BOOLEAN, Swept(ok) PROVE InSync'
  BY <1>7, SweepIs DEF Swept, Persist, InSync, Up
<1>8. ASSUME NEW fate \in Fates, MainDispatch(fate) PROVE InSync'
  BY <1>8 DEF MainDispatch, InSync, Up
<1>9. CASE Gone
  BY <1>9 DEF Gone, InSync, Up
<1> QED BY <1>1, <1>2, <1>3, <1>4, <1>5, <1>6, <1>7, <1>8, <1>9, StepIs

\* An empty feed stays empty where nothing is raised.
LEMMA EmptyFeed ==
  ASSUME NEW f \in Seq(Alert), Len(f) = 0
  PROVE  f = << >>
BY EmptySeq, LenProperties

\* No step raises or answers anything about an unknown check.
LEMMA UnwatchedStep ==
  ASSUME TypeOK, RequestsRecorded, QueuesAccounted, Unwatched, [Next]_vars
  PROVE  Unwatched'
<1> SUFFICES ASSUME NEW n \in Name, n \notin Configured(Cfg)
             PROVE  acked'[n] = ZeroTime /\ raised'[n] = << >>
  BY DEF Unwatched
<1>1. acked[n] = ZeroTime /\ raised[n] = << >>
  BY DEF Unwatched
<1>2. /\ raised \in [Name -> Seq(Alert)] /\ acked \in [Name -> 0..clock] /\ Len(raised[n]) = 0
      /\ req \in [Handler -> Request \cup {Idle}]
  BY <1>1, EmptySeq DEF TypeOK
<1>3. CASE Quiet \/ Start
  BY <1>1, <1>3 DEF Quiet, Start, history
<1>4. ASSUME NEW h \in Handler, (\E r \in Requests : Arrive(h, r)) \/ Refuse(h)
      PROVE  acked'[n] = ZeroTime /\ raised'[n] = << >>
  BY <1>1, <1>4 DEF Arrive, Refuse, history
<1>5. ASSUME NEW h \in Handler, NEW ok \in BOOLEAN, Record(h, ok)
      PROVE  acked'[n] = ZeroTime /\ raised'[n] = << >>
  <2>1. /\ CheckOf(h) \in Configured(Cfg)
        /\ \A i \in DOMAIN RecordEvents(h) : RecordEvents(h)[i].check = CheckOf(h)
        /\ Raises(RecordEvents(h), raised, raised')
        /\ acked' = acked
    BY <1>5, RecordIs
  <2>2. \A i \in DOMAIN RecordEvents(h) : RecordEvents(h)[i].check # n
    BY <2>1
  <2> QED BY <1>1, <2>1, <2>2 DEF Raises
<1>6. ASSUME NEW h \in Handler, Reply(h)
      PROVE  acked'[n] = ZeroTime /\ raised'[n] = << >>
  <2>1. Busy(h) /\ req[h].at = "dispatch"
    BY <1>6 DEF Reply
  <2>2. CheckOf(h) \in Configured(Cfg)
    BY <2>1 DEF RequestsRecorded, RequestOK, CheckOf
  <2> QED BY <1>1, <1>2, <1>6, <2>2 DEF Reply, CheckOf
<1>7. ASSUME NEW ok \in BOOLEAN, Swept(ok)
      PROVE  acked'[n] = ZeroTime /\ raised'[n] = << >>
  BY <1>1, <1>7, SweepIs DEF Swept
<1>8. ASSUME NEW g \in Goroutines, NEW fate \in Fates, QueueOf(g) # << >>,
             Settle(Head(QueueOf(g)), fate), acked' = acked
      PROVE  acked'[n] = ZeroTime /\ raised'[n] = << >>
  <2>1. IsPending(raised, Head(QueueOf(g)))
    BY <1>8, DispatchIs
  <2>2. Settles(raised, raised', Head(QueueOf(g)), fate)
    BY <1>8 DEF Settle, Settles
  <2>3. raised' \in [Name -> Seq(Alert)] /\ Len(raised'[n]) = Len(raised[n])
    <3> DEFINE id == Head(QueueOf(g))
    <3>1. IsPending(raised, id) /\ Settles(raised, raised', id, fate)
      BY <2>1, <2>2
    <3> HIDE DEF id
    <3> QED BY <1>2, <3>1, SettleIs
  <2> QED BY <1>1, <1>2, <1>8, <2>3, EmptyFeed
<1>9. ASSUME NEW h \in Handler, NEW fate \in Fates, HandlerDispatch(h, fate)
      PROVE  acked'[n] = ZeroTime /\ raised'[n] = << >>
  BY <1>8, <1>9, HandlerDispatchIs DEF HandlerDispatch, Goroutines, history
<1>10. ASSUME NEW fate \in Fates, MainDispatch(fate)
       PROVE  acked'[n] = ZeroTime /\ raised'[n] = << >>
  BY <1>8, <1>10, MainDispatchIs DEF MainDispatch, Goroutines, history
<1>11. CASE Gone
  <2>1. raised'[n] = << >>
    BY <1>2, <1>11, GoneIs, EmptyFeed
  <2> QED BY <1>1, <1>11, <2>1 DEF Gone
<1> QED BY <1>3, <1>4, <1>5, <1>6, <1>7, <1>9, <1>10, <1>11, StepIs

\* No step loses a contact that was answered.
LEMMA AckedStep ==
  ASSUME TypeOK, RequestsRecorded, InSync, Unwatched, AckedKept, [Next]_vars
  PROVE  AckedKept'
<1> SUFFICES ASSUME NEW n \in Name
             PROVE  /\ Up' => st'[n].lastPing >= acked'[n]
                    /\ ~behind' => file'[n].lastPing >= acked'[n]
  BY DEF AckedKept, Up
<1>1. /\ Up => st[n].lastPing >= acked[n]
      /\ ~behind => file[n].lastPing >= acked[n]
  BY DEF AckedKept
<1>2. /\ clock \in Nat /\ st \in [Name -> CheckState] /\ file \in [Name -> CheckState]
      /\ acked \in [Name -> 0..clock]
  BY DEF TypeOK
<1>3. st[n].lastPing \in Nat /\ file[n].lastPing \in Nat /\ acked[n] \in Nat /\ acked[n] <= clock
  BY <1>2 DEF CheckState
<1>4. CASE Quiet
  BY <1>1, <1>4 DEF Quiet, history
<1>5. CASE Start
  BY <1>1, <1>5 DEF Start, history, InSync, Up
<1>6. ASSUME NEW h \in Handler, (\E r \in Requests : Arrive(h, r)) \/ Refuse(h)
      PROVE  /\ Up' => st'[n].lastPing >= acked'[n]
             /\ ~behind' => file'[n].lastPing >= acked'[n]
  BY <1>1, <1>6 DEF Arrive, Refuse, history, server, Up
<1>7. ASSUME NEW h \in Handler, NEW ok \in BOOLEAN, Record(h, ok)
      PROVE  /\ Up' => st'[n].lastPing >= acked'[n]
             /\ ~behind' => file'[n].lastPing >= acked'[n]
  <2>1. /\ Up /\ CheckOf(h) \in Name /\ RecordEntry(h).lastPing = clock
        /\ st' = [st EXCEPT ![CheckOf(h)] = RecordEntry(h)]
        /\ Persist(ok, RecordEvents(h)) /\ acked' = acked
    BY <1>7, RecordIs
  <2>2. st'[n].lastPing >= acked[n]
    <3>1. CASE n = CheckOf(h)
      BY <1>2, <1>3, <2>1, <3>1
    <3>2. CASE n # CheckOf(h)
      BY <1>1, <1>2, <2>1, <3>2
    <3> QED BY <3>1, <3>2
  <2> QED BY <2>1, <2>2 DEF Persist
<1>8. ASSUME NEW h \in Handler, Reply(h)
      PROVE  /\ Up' => st'[n].lastPing >= acked'[n]
             /\ ~behind' => file'[n].lastPing >= acked'[n]
  <2>1. Busy(h) /\ Up /\ req[h].at = "dispatch" /\ req[h].now \in Nat
    BY <1>8, BusyIs DEF Reply
  <2>2. st[CheckOf(h)].lastPing >= req[h].now
    BY <2>1 DEF RequestsRecorded, RequestOK, CheckOf
  <2>3. acked'[n] = acked[n] \/ (n = CheckOf(h) /\ acked'[n] = req[h].now)
    BY <1>2, <1>8 DEF Reply, CheckOf
  <2>4. st'[n].lastPing >= acked'[n]
    BY <1>1, <1>8, <2>1, <2>2, <2>3 DEF Reply
  <2> QED BY <1>8, <2>1, <2>4 DEF Reply, InSync
<1>9. ASSUME NEW h \in Handler, NEW fate \in Fates, HandlerDispatch(h, fate)
      PROVE  /\ Up' => st'[n].lastPing >= acked'[n]
             /\ ~behind' => file'[n].lastPing >= acked'[n]
  BY <1>1, <1>9 DEF HandlerDispatch, history, server, Up
<1>10. ASSUME NEW ok \in BOOLEAN, Swept(ok)
       PROVE  /\ Up' => st'[n].lastPing >= acked'[n]
              /\ ~behind' => file'[n].lastPing >= acked'[n]
  <2>1. /\ n \in Configured(Cfg) => st'[n].lastPing = st[n].lastPing
        /\ n \notin Configured(Cfg) => st'[n] = Fresh
        /\ Persist(ok, SweepRaises) /\ acked' = acked /\ Up
    BY <1>10, SweepIs DEF Swept, Up
  <2>2. n \notin Configured(Cfg) => acked[n] = 0
    BY DEF Unwatched, ZeroTime
  <2>3. st'[n].lastPing >= acked'[n]
    BY <1>1, <1>3, <2>1, <2>2 DEF Fresh, ZeroTime
  <2> QED BY <2>1, <2>3 DEF Persist
<1>11. ASSUME NEW fate \in Fates, MainDispatch(fate)
       PROVE  /\ Up' => st'[n].lastPing >= acked'[n]
              /\ ~behind' => file'[n].lastPing >= acked'[n]
  BY <1>1, <1>11 DEF MainDispatch, history, Up
<1>12. CASE Gone
  BY <1>1, <1>3, <1>12 DEF Gone, Up, ZeroTime
<1> QED BY <1>4, <1>5, <1>6, <1>7, <1>8, <1>9, <1>10, <1>11, <1>12, StepIs

-----------------------------------------------------------------------------
(***************************************************************************)
(* Every alert in one place.                                               *)
(***************************************************************************)
LEMMA SameQueues ==
  ASSUME QueuesAccounted, \A g \in Goroutines : QueueOf(g)' = QueueOf(g), raised' = raised
  PROVE  QueuesAccounted'
<1>1. Queues' = Queues
  BY DEF Queues
<1> QED BY <1>1 DEF QueuesAccounted

\* No step forgets an alert, or gives it to a second goroutine.
LEMMA QueuesStep ==
  ASSUME TypeOK, RequestsRecorded, QueuesAccounted, [Next]_vars
  PROVE  QueuesAccounted'
<1>1. /\ Accounted(Queues, raised)
      /\ \A g \in Goroutines : Queues[g] = QueueOf(g)
      /\ \A g \in Goroutines : Queues'[g] = QueueOf(g)'
      /\ Queues \in [Goroutines -> Seq(AlertId)]
      /\ raised \in [Name -> Seq(Alert)]
      /\ req \in [Handler -> Request \cup {Idle}]
  BY QueuesTyped DEF QueuesAccounted, Queues, TypeOK
<1>2. Idle \notin Handler /\ Handler \subseteq Goroutines /\ Idle \in Goroutines
  BY ServeAssumption DEF Goroutines
<1>3. CASE Quiet
  <2>1. \A g \in Goroutines : QueueOf(g)' = QueueOf(g)
    BY <1>3 DEF Quiet, QueueOf, Busy
  <2> QED BY <1>3, <2>1, SameQueues DEF Quiet
<1>4. CASE Start
  <2>1. queue = << >> /\ queue' = << >> /\ req' = req
    BY <1>4 DEF Start, TypeOK, Up
  <2>2. \A g \in Goroutines : QueueOf(g)' = QueueOf(g)
    BY <2>1 DEF QueueOf, Busy
  <2> QED BY <1>4, <2>2, SameQueues DEF Start
<1>5. ASSUME NEW h \in Handler, (\E r \in Requests : Arrive(h, r)) \/ Refuse(h) \/ Reply(h)
      PROVE  QueuesAccounted'
  <2>1. QueueOf(h) = << >> /\ QueueOf(h)' = << >>
    <3>1. CASE \E r \in Requests : Arrive(h, r)
      BY <1>1, <1>2, <3>1 DEF Arrive, QueueOf, Busy
    <3>2. CASE Refuse(h)
      BY <1>1, <1>2, <3>2 DEF Refuse, QueueOf, Busy, RequestsRecorded, RequestOK
    <3>3. CASE Reply(h)
      BY <1>1, <1>2, <3>3 DEF Reply, QueueOf, Busy
    <3> QED BY <1>5, <3>1, <3>2, <3>3
  <2>2. queue' = queue /\ \A o \in Handler : o # h => req'[o] = req[o]
    BY <1>1, <1>5 DEF Arrive, Refuse, Reply, server
  <2>3. \A g \in Goroutines : QueueOf(g)' = QueueOf(g)
    BY <2>1, <2>2 DEF QueueOf, Busy, Goroutines
  <2>4. raised' = raised
    BY <1>5 DEF Arrive, Refuse, Reply
  <2> QED BY <2>3, <2>4, SameQueues
<1>6. ASSUME NEW h \in Handler, NEW ok \in BOOLEAN, Record(h, ok) PROVE QueuesAccounted'
  <2> DEFINE evs == RecordEvents(h)
  <2>1. /\ Busy(h) /\ req[h].at = "arrived"
        /\ OnePerCheck(evs) /\ Raises(evs, raised, raised')
        /\ Recorded(h) \in Request /\ req' = [req EXCEPT ![h] = Recorded(h)]
        /\ queue' = queue
    BY <1>6, RecordIs DEF server
  <2>2. Queues[h] = << >>
    BY <1>1, <1>2, <2>1 DEF QueueOf, RequestsRecorded, RequestOK
  <2>3. Queues'[h] = Ids(evs)
    <3>1. req'[h] = Recorded(h) /\ Recorded(h) # Idle
      BY <1>1, <2>1, RequestIs
    <3>2. Recorded(h).queue = Ids(evs)
      BY DEF Recorded
    <3> QED BY <1>1, <1>2, <3>1, <3>2 DEF QueueOf, Busy
  <2>4. \A o \in Goroutines : o # h => Queues'[o] = Queues[o]
    BY <1>1, <2>1 DEF QueueOf, Busy, Goroutines
  <2>5. /\ DOMAIN Ids(evs) = DOMAIN evs
        /\ \A i \in DOMAIN evs : Ids(evs)[i] = << evs[i].check, Len(raised[evs[i].check]) + 1 >>
    BY <1>1, <2>1, IdsAre
  <2>6. Accounted(Queues', raised')
    <3> DEFINE P == Queues'
    <3>1. /\ DOMAIN P[h] = DOMAIN evs
          /\ \A i \in DOMAIN evs : P[h][i] = << evs[i].check, Len(raised[evs[i].check]) + 1 >>
      BY <2>3, <2>5
    <3>2. \A o \in Goroutines : o # h => P[o] = Queues[o]
      BY <2>4
    <3>3. h \in Goroutines
      BY <1>2
    <3> HIDE DEF evs, P
    <3>4. Accounted(P, raised')
      <4>1. Receives(Queues, P, h, evs, raised)
        BY <2>2, <3>1, <3>2 DEF Receives
      <4> QED BY <1>1, <2>1, <3>3, <4>1, RaiseAccounts
    <3> QED BY <3>4 DEF P
  <2> QED BY <2>6 DEF QueuesAccounted
<1>7. ASSUME NEW ok \in BOOLEAN, Swept(ok) PROVE QueuesAccounted'
  <2>1. /\ OnePerCheck(SweepRaises) /\ Raises(SweepRaises, raised, raised')
        /\ queue' = Ids(SweepRaises) /\ req' = req
    BY <1>7, SweepIs DEF Swept
  <2>2. Queues[Idle] = << >>
    BY <1>1, <1>2, <1>7 DEF QueueOf, TypeOK, Swept
  <2>3. Queues'[Idle] = Ids(SweepRaises)
    BY <1>1, <1>2, <2>1 DEF QueueOf
  <2>4. \A o \in Goroutines : o # Idle => Queues'[o] = Queues[o]
    BY <1>1, <2>1 DEF QueueOf, Busy, Goroutines
  <2>5. /\ DOMAIN Ids(SweepRaises) = DOMAIN SweepRaises
        /\ \A i \in DOMAIN SweepRaises :
             Ids(SweepRaises)[i] = << SweepRaises[i].check, Len(raised[SweepRaises[i].check]) + 1 >>
    BY <1>1, <2>1, IdsAre
  <2>6. Accounted(Queues', raised')
    <3> DEFINE P == Queues'
               evs == SweepRaises
    <3>1. /\ DOMAIN P[Idle] = DOMAIN evs
          /\ \A i \in DOMAIN evs : P[Idle][i] = << evs[i].check, Len(raised[evs[i].check]) + 1 >>
      BY <2>3, <2>5
    <3>2. \A o \in Goroutines : o # Idle => P[o] = Queues[o]
      BY <2>4
    <3>3. OnePerCheck(evs) /\ Raises(evs, raised, raised')
      BY <2>1
    <3> HIDE DEF evs, P
    <3>4. Accounted(P, raised')
      <4>1. Receives(Queues, P, Idle, evs, raised)
        BY <2>2, <3>1, <3>2 DEF Receives
      <4> QED BY <1>1, <1>2, <3>3, <4>1, RaiseAccounts
    <3> QED BY <3>4 DEF P
  <2> QED BY <2>6 DEF QueuesAccounted
<1>8. ASSUME NEW g \in Goroutines, NEW fate \in Fates, QueueOf(g) # << >>,
             Settle(Head(QueueOf(g)), fate), QueueOf(g)' = Tail(QueueOf(g)),
             \A o \in Goroutines : o # g => QueueOf(o)' = QueueOf(o)
      PROVE  QueuesAccounted'
  <2>1. /\ Queues[g] # << >> /\ Queues'[g] = Tail(Queues[g])
        /\ \A o \in Goroutines : o # g => Queues'[o] = Queues[o]
        /\ Settles(raised, raised', Head(Queues[g]), fate)
    BY <1>1, <1>8 DEF Settle, Settles
  <2>2. Accounted(Queues', raised')
    BY <1>1, <2>1, SettleAccounts
  <2> QED BY <2>2 DEF QueuesAccounted
<1>9. ASSUME NEW h \in Handler, NEW fate \in Fates, HandlerDispatch(h, fate)
      PROVE  QueuesAccounted'
  <2>1. /\ Busy(h) /\ QueueOf(h) = req[h].queue /\ QueueOf(h) # << >>
        /\ Settle(Head(QueueOf(h)), fate)
        /\ \A o \in Handler : o # h => req'[o] = req[o]
        /\ req'[h] \in Request /\ req'[h].queue = Tail(req[h].queue)
        /\ queue' = queue
    BY <1>9, HandlerDispatchIs DEF HandlerDispatch, server
  <2>2. QueueOf(h)' = Tail(QueueOf(h))
    BY <1>2, <2>1, RequestIs DEF QueueOf, Busy
  <2>3. \A o \in Goroutines : o # h => QueueOf(o)' = QueueOf(o)
    BY <2>1 DEF QueueOf, Busy, Goroutines
  <2> QED BY <1>2, <1>8, <2>1, <2>2, <2>3
<1>10. ASSUME NEW fate \in Fates, MainDispatch(fate) PROVE QueuesAccounted'
  <2>1. /\ QueueOf(Idle) = queue /\ queue # << >> /\ Settle(Head(queue), fate)
        /\ queue' = Tail(queue) /\ req' = req
    BY <1>10, MainDispatchIs DEF MainDispatch
  <2>2. QueueOf(Idle)' = Tail(queue)
    BY <2>1 DEF QueueOf
  <2>3. \A o \in Goroutines : o # Idle => QueueOf(o)' = QueueOf(o)
    BY <2>1 DEF QueueOf, Busy, Goroutines
  <2> QED BY <1>2, <1>8, <2>1, <2>2, <2>3
<1>11. CASE Gone
  <2>1. \A g \in Goroutines : Queues'[g] = << >>
    BY <1>1, <1>11 DEF Gone, QueueOf, Busy, Goroutines
  <2>2. \A n \in Name : \A i \in DOMAIN raised'[n] : raised'[n][i].fate # "pending"
    BY <1>11, GoneIs
  <2>3. \A g \in Goroutines : DOMAIN Queues'[g] = {}
    BY <2>1
  <2>4. Accounted(Queues', raised')
    BY <2>2, <2>3 DEF Accounted
  <2> QED BY <2>4 DEF QueuesAccounted
<1> QED BY <1>3, <1>4, <1>5, <1>6, <1>7, <1>9, <1>10, <1>11, StepIs

-----------------------------------------------------------------------------
(***************************************************************************)
(* Contacts are requests.                                                  *)
(***************************************************************************)
LEMMA ContactsAre ==
  /\ \A cs \in CheckState : Contacts(cs) \in Nat
  /\ Contacts(Fresh) = 0
BY DEF Contacts, CheckState, Fresh

\* A contact counted in an entry was a request that arrived before.
LEMMA CountStep ==
  ASSUME TypeOK, QueuesAccounted, ContactsCounted, [Next]_vars
  PROVE  ContactsCounted'
<1>1. /\ IsFiniteSet(Arrived) /\ Cardinality(Arrived) \in Nat
      /\ \A n \in Name : Contacts(file[n]) <= requests
      /\ Up => \A n \in Name : Contacts(st[n]) + Cardinality(Arrived) <= requests
  BY FS_CardinalityType DEF ContactsCounted
<1>2. /\ \A n \in Name : Contacts(file[n]) \in Nat /\ Contacts(st[n]) \in Nat
      /\ requests \in Nat /\ req \in [Handler -> Request \cup {Idle}]
      /\ st \in [Name -> CheckState]
  <2>1. /\ file \in [Name -> CheckState] /\ st \in [Name -> CheckState]
        /\ requests \in Nat /\ req \in [Handler -> Request \cup {Idle}]
    BY ServeAssumption DEF TypeOK
  <2> QED BY <2>1, ContactsAre
<1>3. CASE Quiet
  BY <1>1, <1>3 DEF Quiet, ContactsCounted, Arrived, Busy, counters
<1>4. CASE Start
  <2>1. Arrived = {} /\ Arrived' = {}
    BY <1>4 DEF Start, TypeOK, Up, Arrived, Busy
  <2>2. Cardinality(Arrived') = 0 /\ IsFiniteSet(Arrived')
    BY <2>1, FS_EmptySet
  <2>3. st' = file /\ file' = file /\ requests' = requests
    BY <1>4 DEF Start
  <2> QED BY <1>1, <1>2, <2>2, <2>3 DEF ContactsCounted
<1>5. ASSUME NEW h \in Handler, NEW r \in Requests, Arrive(h, r) PROVE ContactsCounted'
  <2>1. req' = [req EXCEPT ![h] =
          [at |-> "arrived", args |-> r, now |-> ZeroTime, queue |-> << >>]]
    BY <1>5 DEF Arrive
  <2>2. [at |-> "arrived", args |-> r, now |-> ZeroTime, queue |-> << >>] \in Request
    BY EmptySeq DEF Request, ZeroTime
  <2>3. Arrived' = Arrived \cup {h} /\ h \notin Arrived
    BY <1>2, <1>5, <2>1, <2>2, RequestIs DEF Arrive, Arrived, Busy
  <2>4. IsFiniteSet(Arrived') /\ Cardinality(Arrived') = Cardinality(Arrived) + 1
    BY <1>1, <2>3, FS_AddElement
  <2>5. UNCHANGED << file, st, main >> /\ requests' = requests + 1
    BY <1>5 DEF Arrive, server
  <2> QED BY <1>1, <1>2, <2>4, <2>5 DEF ContactsCounted, Up
<1>6. ASSUME NEW h \in Handler, Refuse(h) PROVE ContactsCounted'
  <2>1. Arrived' = Arrived \ {h} /\ h \in Arrived
    BY <1>2, <1>6 DEF Refuse, Arrived, Busy
  <2>2. IsFiniteSet(Arrived') /\ Cardinality(Arrived') = Cardinality(Arrived) - 1
    BY <1>1, <2>1, FS_RemoveElement
  <2>3. UNCHANGED << file, st, main, requests >>
    BY <1>6 DEF Refuse, server, counters
  <2> QED BY <1>1, <1>2, <2>2, <2>3 DEF ContactsCounted, Up
<1>7. ASSUME NEW h \in Handler, NEW ok \in BOOLEAN, Record(h, ok) PROVE ContactsCounted'
  <2>1. /\ Busy(h) /\ Up /\ req[h].at = "arrived" /\ CheckOf(h) \in Name
        /\ Contacts(RecordEntry(h)) = Contacts(st[CheckOf(h)]) + 1
        /\ st' = [st EXCEPT ![CheckOf(h)] = RecordEntry(h)]
        /\ Recorded(h) \in Request /\ req' = [req EXCEPT ![h] = Recorded(h)]
        /\ Persist(ok, RecordEvents(h))
        /\ requests' = requests
    BY <1>7, RecordIs
  <2>2. Recorded(h).at = "dispatch"
    BY DEF Recorded
  <2>3. Arrived' = Arrived \ {h} /\ h \in Arrived
    BY <1>2, <2>1, <2>2 DEF Arrived, Busy
  <2>4. IsFiniteSet(Arrived') /\ Cardinality(Arrived') = Cardinality(Arrived) - 1
    BY <1>1, <2>3, FS_RemoveElement
  <2>5. Cardinality(Arrived') \in Nat
    BY <2>4, FS_CardinalityType
  <2>6. ASSUME NEW n \in Name
        PROVE  Contacts(st'[n]) <= Contacts(st[n]) + 1 /\ Contacts(st'[n]) \in Nat
    <3>1. CASE n = CheckOf(h)
      <4>1. st'[n] = RecordEntry(h)
        BY <1>2, <2>1, <3>1
      <4> QED BY <1>2, <2>1, <3>1, <4>1
    <3>2. CASE n # CheckOf(h)
      <4>1. st'[n] = st[n]
        BY <1>2, <2>1, <3>2
      <4> QED BY <1>2, <4>1
    <3> QED BY <3>1, <3>2
  <2>7. \A n \in Name : Contacts(st'[n]) + Cardinality(Arrived') <= requests'
    BY <1>1, <1>2, <2>1, <2>4, <2>5, <2>6
  <2>8. \A n \in Name : Contacts(file'[n]) <= requests'
    <3>1. file' = st' \/ file' = file
      BY <2>1 DEF Persist
    <3> QED BY <1>1, <1>2, <2>1, <2>5, <2>6, <2>7, <3>1
  <2> QED BY <2>4, <2>7, <2>8 DEF ContactsCounted
<1>8. ASSUME NEW h \in Handler, Reply(h) PROVE ContactsCounted'
  <2>1. Arrived' = Arrived
    BY <1>2, <1>8 DEF Reply, Arrived, Busy
  <2> QED BY <1>1, <1>8, <2>1 DEF Reply, ContactsCounted, Up, server, counters
<1>9. ASSUME NEW h \in Handler, NEW fate \in Fates, HandlerDispatch(h, fate)
      PROVE  ContactsCounted'
  <2>1. Busy(h) /\ req'[h] \in Request /\ req'[h].at = req[h].at
        /\ \A o \in Handler : o # h => req'[o] = req[o]
    BY <1>9, HandlerDispatchIs
  <2>2. Arrived' = Arrived
    BY <2>1, RequestIs DEF Arrived, Busy
  <2> QED BY <1>1, <1>9, <2>2 DEF HandlerDispatch, ContactsCounted, Up, server, counters
<1>10. ASSUME NEW ok \in BOOLEAN, Swept(ok) PROVE ContactsCounted'
  <2>1. /\ \A n \in Name : n \in Configured(Cfg) => Contacts(st'[n]) = Contacts(st[n])
        /\ \A n \in Name : n \notin Configured(Cfg) => Contacts(st'[n]) = 0
        /\ Persist(ok, SweepRaises) /\ req' = req /\ requests' = requests
    BY <1>10, SweepIs DEF Swept, Up
  <2>2. Arrived' = Arrived
    BY <2>1 DEF Arrived, Busy
  <2>3. Up
    BY <1>10 DEF Swept, Up
  <2>4. \A n \in Name : /\ Contacts(st'[n]) + Cardinality(Arrived') <= requests'
                        /\ Contacts(st'[n]) <= requests'
    BY <1>1, <1>2, <2>1, <2>2, <2>3
  <2>5. file' = st' \/ file' = file
    BY <2>1 DEF Persist
  <2> QED BY <1>1, <2>1, <2>2, <2>4, <2>5 DEF ContactsCounted
<1>11. ASSUME NEW fate \in Fates, MainDispatch(fate) PROVE ContactsCounted'
  BY <1>1, <1>11 DEF MainDispatch, ContactsCounted, Arrived, Busy, Up, counters
<1>12. CASE Gone
  <2>1. Arrived' = {}
    BY <1>12 DEF Gone, Arrived, Busy
  <2> QED BY <1>1, <1>12, <2>1, FS_EmptySet DEF Gone, ContactsCounted, Up, counters
<1> QED BY <1>3, <1>4, <1>5, <1>6, <1>7, <1>8, <1>9, <1>10, <1>11, <1>12, StepIs

-----------------------------------------------------------------------------
(***************************************************************************)
(* A check that is down was told of.                                       *)
(***************************************************************************)
LEMMA ToldAppend ==
  ASSUME NEW f \in Seq(Alert), NEW a \in Alert, a.type \in {"down", "failed"}
  PROVE  Told(Append(f, a))
<1>1. /\ Len(Append(f, a)) = Len(f) + 1 /\ Append(f, a)[Len(f) + 1] = a
      /\ Append(f, a) \in Seq(Alert) /\ Len(f) \in Nat
  BY AppendProperties, LenProperties
<1>2. Append(f, a) # << >>
  BY <1>1, EmptySeq
<1> QED BY <1>1, <1>2 DEF Told

\* What alerts tell does not depend on their fate.
LEMMA ToldSame ==
  ASSUME NEW f \in Seq(Alert), NEW g \in Seq(Alert), Len(g) = Len(f),
         \A i \in DOMAIN f : g[i].type = f[i].type, Told(f)
  PROVE  Told(g)
<1>1. Len(f) \in DOMAIN f /\ g # << >>
  BY LenProperties, EmptySeq, EmptyFeed DEF Told
<1> QED BY <1>1 DEF Told

\* No step leaves a check down without the news at the end of its feed.
LEMMA ToldStep ==
  ASSUME TypeOK, InSync, QueuesAccounted, DownTold, [Next]_vars
  PROVE  DownTold'
<1> SUFFICES ASSUME badSaves' = 0
             PROVE  /\ ~behind'
                    /\ \A n \in Name : Current'[n].status = "down" => Told(raised'[n])
  BY DEF DownTold
<1>1. badSaves \in Nat /\ raised \in [Name -> Seq(Alert)] /\ st \in [Name -> CheckState]
      /\ clock \in Nat
  BY ServeAssumption DEF TypeOK
<1>2. badSaves = 0 => /\ ~behind
                      /\ \A n \in Name : Current[n].status = "down" => Told(raised[n])
  BY DEF DownTold
<1>3. CASE Quiet
  BY <1>2, <1>3 DEF Quiet, Current, counters
<1>4. CASE Start
  BY <1>2, <1>4 DEF Start, Current, Up
<1>5. ASSUME NEW h \in Handler, (\E r \in Requests : Arrive(h, r)) \/ Refuse(h) \/ Reply(h)
      PROVE  /\ ~behind'
             /\ \A n \in Name : Current'[n].status = "down" => Told(raised'[n])
  <2>1. UNCHANGED << file, st, main, raised, behind, badSaves >>
    BY <1>5 DEF Arrive, Refuse, Reply, server, counters
  <2> QED BY <1>2, <2>1 DEF Current, Up
<1>6. ASSUME NEW ok \in BOOLEAN, NEW evs, Persist(ok, evs)
      PROVE  badSaves = 0 /\ ~behind'
  <2>1. CASE ok
    BY <1>6, <2>1 DEF Persist
  <2>2. CASE ~ok
    <3>1. badSaves' = badSaves + 1
      BY <1>6, <2>2 DEF Persist
    <3> QED BY <1>1, <3>1
  <2> QED BY <2>1, <2>2
<1>7. ASSUME NEW h \in Handler, NEW ok \in BOOLEAN, Record(h, ok)
      PROVE  /\ ~behind'
             /\ \A n \in Name : Current'[n].status = "down" => Told(raised'[n])
  <2> DEFINE evs == RecordEvents(h)
             m == CheckOf(h)
  <2>1. /\ Busy(h) /\ Up /\ m \in Name
        /\ OnePerCheck(evs)
        /\ \A i \in DOMAIN evs : evs[i].check = m
        /\ Raises(evs, raised, raised')
        /\ st' = [st EXCEPT ![m] = RecordEntry(h)]
        /\ Persist(ok, evs)
        /\ main' = main
    BY <1>7, RecordIs DEF server
  <2>2. badSaves = 0 /\ ~behind' /\ Current = st /\ Current' = st'
    BY <1>6, <2>1 DEF Current, Up
  <2>3. ASSUME NEW n \in Name, n # m, st'[n].status = "down" PROVE Told(raised'[n])
    <3>1. st'[n] = st[n]
      BY <1>1, <2>1, <2>3
    <3>2. raised'[n] = raised[n]
      BY <2>1, <2>3 DEF Raises
    <3> QED BY <1>2, <2>2, <2>3, <3>1, <3>2
  <2>4. ASSUME st'[m].status = "down" PROVE Told(raised'[m])
    <3>1. RecordEntry(h).status = "down"
      BY <1>1, <2>1, <2>4
    <3>2. req[h].args.cmd # "ping"
      <4>1. PingCheck(st[m], 0, clock).status = "up"
        BY DEF PingCheck
      <4> QED BY <3>1, <4>1 DEF RecordEntry, Contact
    <3>3. evs = FailEvents(m, st[m], 0, clock)
      BY <3>2 DEF RecordEvents, ContactEvents, CheckOf
    <3>4. 1 \in DOMAIN evs /\ evs[1].type = "failed"
      <4> HIDE DEF m
      <4> QED BY <3>3 DEF FailEvents
    <3>5. /\ NewAlert(evs[1]) \in Alert /\ NewAlert(evs[1]).type = "failed"
          /\ raised'[m] = Append(raised[m], NewAlert(evs[1]))
      <4> HIDE DEF evs, m
      <4>1. evs[1].check = m /\ NewAlert(evs[1]) \in Alert
        BY <2>1, <3>4, EventFields
      <4>2. NewAlert(evs[1]).type = "failed"
        BY <3>4 DEF NewAlert
      <4> QED BY <2>1, <3>4, <4>1, <4>2 DEF Raises
    <3> HIDE DEF evs, m
    <3> QED BY <1>1, <2>1, <3>5, ToldAppend
  <2> QED BY <2>2, <2>3, <2>4
<1>8. ASSUME NEW ok \in BOOLEAN, Swept(ok)
      PROVE  /\ ~behind'
             /\ \A n \in Name : Current'[n].status = "down" => Told(raised'[n])
  <2>0. SweepLocked(ok) /\ Up
    BY <1>8 DEF Swept, Up
  <2>1. /\ \A n \in Name : n \in Configured(Cfg) => st'[n] = SweepCheck(Cfg, n, st[n], clock)
        /\ \A n \in Name : n \notin Configured(Cfg) => st'[n] = Fresh
        /\ \A n \in Name :
             raised'[n] = IF n \in Configured(Cfg) /\ Fires(Cfg, n, st[n], clock)
                            THEN Append(raised[n], NewAlert(SweepEvent(Cfg, n, st[n], clock)))
                            ELSE raised[n]
        /\ Persist(ok, SweepRaises) /\ main' = "dispatch"
    BY <2>0, SweepIs
  <2>2. badSaves = 0 /\ ~behind' /\ Current = st /\ Current' = st'
    BY <1>6, <2>0, <2>1 DEF Current, Up
  <2>3. ASSUME NEW n \in Name, st'[n].status = "down" PROVE Told(raised'[n])
    <3>1. n \in Configured(Cfg)
      BY <2>1, <2>3 DEF Fresh
    <3>2. CASE Fires(Cfg, n, st[n], clock)
      <4> DEFINE e == SweepEvent(Cfg, n, st[n], clock)
      <4>1. SweptTo(Cfg, n, st[n], clock) = "down"
        BY <1>1, <2>1, <2>3, <3>1, <3>2 DEF SweepCheck, CheckState
      <4>2. /\ NewAlert(e) = [type |-> "down", prev |-> st[n].status, fate |-> "pending"]
            /\ st[n].status \in Statuses
        BY <1>1, <4>1 DEF NewAlert, SweepEvent, CheckState
      <4>3. NewAlert(e) \in Alert /\ NewAlert(e).type = "down"
        BY <4>2 DEF Alert, EventTypes
      <4>4. raised'[n] = Append(raised[n], NewAlert(e)) /\ raised[n] \in Seq(Alert)
        BY <1>1, <2>1, <3>1, <3>2
      <4> HIDE DEF e
      <4> QED BY <4>3, <4>4, ToldAppend
    <3>3. CASE ~Fires(Cfg, n, st[n], clock)
      BY <1>2, <2>1, <2>2, <2>3, <3>1, <3>3 DEF SweepCheck
    <3> QED BY <3>2, <3>3
  <2> QED BY <2>2, <2>3
<1>9. ASSUME NEW g \in Goroutines, NEW fate \in Fates, QueueOf(g) # << >>,
             Settle(Head(QueueOf(g)), fate), UNCHANGED << file, st, main, behind, badSaves >>
      PROVE  /\ ~behind'
             /\ \A n \in Name : Current'[n].status = "down" => Told(raised'[n])
  <2> DEFINE id == Head(QueueOf(g))
  <2>1. IsPending(raised, id) /\ Settles(raised, raised', id, fate)
    BY <1>9, DispatchIs DEF Settle, Settles
  <2> HIDE DEF id
  <2>2. /\ raised' \in [Name -> Seq(Alert)]
        /\ \A n \in Name : /\ Len(raised'[n]) = Len(raised[n])
                           /\ \A i \in DOMAIN raised[n] : raised'[n][i].type = raised[n][i].type
    BY <1>1, <2>1, SettleIs
  <2>3. \A n \in Name : Told(raised[n]) => Told(raised'[n])
    BY <1>1, <2>2, ToldSame
  <2>4. badSaves = 0 /\ Current' = Current
    BY <1>9 DEF Current, Up
  <2> QED BY <1>2, <1>9, <2>3, <2>4
<1>10. ASSUME NEW h \in Handler, NEW fate \in Fates, HandlerDispatch(h, fate)
       PROVE  /\ ~behind'
              /\ \A n \in Name : Current'[n].status = "down" => Told(raised'[n])
  <2>1. UNCHANGED << file, st, main, behind, badSaves >> /\ h \in Goroutines
    BY <1>10 DEF HandlerDispatch, server, counters, Goroutines
  <2> QED BY <1>9, <1>10, <2>1, HandlerDispatchIs
<1>11. ASSUME NEW fate \in Fates, MainDispatch(fate)
       PROVE  /\ ~behind'
              /\ \A n \in Name : Current'[n].status = "down" => Told(raised'[n])
  <2>1. UNCHANGED << file, st, main, behind, badSaves >> /\ Idle \in Goroutines
    BY <1>11 DEF MainDispatch, counters, Goroutines
  <2> QED BY <1>9, <1>11, <2>1, MainDispatchIs
<1>12. CASE Up /\ Gone
  <2>1. badSaves = 0 /\ ~behind' /\ Current' = file
    BY <1>12 DEF Gone, counters, Current, Up
  <2>2. Current = st /\ st = file
    BY <1>2, <1>12, <2>1 DEF Current, InSync
  <2>3. /\ raised' \in [Name -> Seq(Alert)]
        /\ \A n \in Name : /\ Len(raised'[n]) = Len(raised[n])
                           /\ \A i \in DOMAIN raised[n] : raised'[n][i].type = raised[n][i].type
    BY <1>12, GoneIs
  <2>4. \A n \in Name : Told(raised[n]) => Told(raised'[n])
    BY <1>1, <2>3, ToldSame
  <2> QED BY <1>2, <2>1, <2>2, <2>4
<1> QED BY <1>3, <1>4, <1>5, <1>7, <1>8, <1>10, <1>11, <1>12, StepIs

-----------------------------------------------------------------------------
(***************************************************************************)
(* The invariant.                                                          *)
(***************************************************************************)
LEMMA InvInit == Init => IInv
<1> SUFFICES ASSUME Init PROVE IInv
  OBVIOUS
<1>1. TypeOK
  BY TypeInit
<1>2. /\ clock = 1 /\ file = NoChecks /\ st = NoChecks /\ ~Up /\ queue = << >>
      /\ raised = [n \in Name |-> << >>] /\ acked = [n \in Name |-> ZeroTime]
      /\ ~behind /\ requests = 0 /\ badSaves = 0
      /\ \A h \in Handler : ~Busy(h)
  BY DEF Init, Up, Busy
<1>3. RequestsRecorded /\ InSync
  BY <1>2 DEF RequestsRecorded, InSync
<1>4. Unwatched
  BY <1>2 DEF Unwatched
<1>5. AckedKept
  BY <1>2 DEF AckedKept, NoChecks, Fresh, ZeroTime
<1>6. QueuesAccounted
  <2>1. \A g \in Goroutines : DOMAIN Queues[g] = {}
    BY <1>2 DEF Queues, QueueOf, Goroutines
  <2>2. \A n \in Name : DOMAIN raised[n] = {}
    BY <1>2
  <2> QED BY <2>1, <2>2 DEF QueuesAccounted, Accounted
<1>7. ContactsCounted
  <2>1. Arrived = {}
    BY <1>2 DEF Arrived
  <2>2. \A n \in Name : Contacts(file[n]) = 0
    BY <1>2, ContactsAre DEF NoChecks
  <2> QED BY <1>2, <2>1, <2>2, FS_EmptySet DEF ContactsCounted
<1>8. DownTold
  BY <1>2 DEF DownTold, Current, NoChecks, Fresh
<1> QED BY <1>1, <1>3, <1>4, <1>5, <1>6, <1>7, <1>8 DEF IInv

\* Every step preserves the invariant.
LEMMA InvStep == IInv /\ [Next]_vars => IInv'
<1> SUFFICES ASSUME IInv, [Next]_vars PROVE IInv'
  OBVIOUS
<1>1. /\ TypeOK /\ RequestsRecorded /\ InSync /\ Unwatched /\ AckedKept
      /\ QueuesAccounted /\ ContactsCounted /\ DownTold
  BY DEF IInv
<1>2. TypeOK'
  BY <1>1, TypeStep
<1>3. RequestsRecorded' /\ InSync'
  BY <1>1, RecordedStep, InSyncStep
<1>4. Unwatched' /\ AckedKept'
  BY <1>1, UnwatchedStep, AckedStep
<1>5. QueuesAccounted' /\ ContactsCounted' /\ DownTold'
  BY <1>1, QueuesStep, CountStep, ToldStep
<1> QED BY <1>2, <1>3, <1>4, <1>5 DEF IInv

\* The inductive invariant holds in every state the server reaches.
THEOREM Invariant == Spec => []IInv
BY InvInit, InvStep, PTL DEF Spec

\* Every variable keeps its type, the counters their bounds, and a server that is
\* down has no goroutine.
THEOREM TypeCorrect == Spec => []TypeOK
<1>1. IInv => TypeOK
  BY DEF IInv
<1> QED BY <1>1, Invariant, PTL

\* A contact that was answered "ok" is neither overtaken by an older one in the
\* running server nor, unless the latest save failed, missing from the file: for
\* any number of concurrent requests, restarts and deaths of the process, of which
\* a power loss that takes the file back is not one (persistLocked).
THEOREM AnswersAreKept == Spec => []AckedKept
<1>1. IInv => AckedKept
  BY DEF IInv
<1> QED BY <1>1, Invariant, PTL

\* The holders of an alert are the goroutines that have it in their queue.
LEMMA HoldersAre ==
  ASSUME TypeOK, NEW id
  PROVE  Holders(id) = {g \in Goroutines : \E k \in DOMAIN Queues[g] : Queues[g][k] = id}
<1>1. \A g \in Goroutines : Queues[g] = QueueOf(g)
  BY DEF Queues
<1>2. \A h \in Handler : id \in Carries(h) <=> \E k \in DOMAIN Queues[h] : Queues[h][k] = id
  <2> TAKE h \in Handler
  <2>1. h # Idle /\ h \in Goroutines
    BY ServeAssumption DEF Goroutines
  <2>2. CASE Busy(h)
    BY <1>1, <2>1, <2>2 DEF Carries, QueueOf
  <2>3. CASE ~Busy(h)
    BY <1>1, <2>1, <2>3 DEF Carries, QueueOf
  <2> QED BY <2>2, <2>3
<1>3. Idle \in Goroutines /\ Queues[Idle] = queue
  BY <1>1 DEF Goroutines, QueueOf
<1> QED BY <1>2, <1>3 DEF Holders, Goroutines

\* While an alert is pending just one goroutine of the running server has it to
\* deliver, once; nobody has one whose fate is settled (dispatch in server.go).
THEOREM AlertsNeverForgotten == Spec => []AlertsAccounted
<1>1. IInv => AlertsAccounted
  <2> SUFFICES ASSUME IInv, NEW n \in Name, NEW i \in DOMAIN raised[n]
               PROVE  IF i \in Pending(n)
                        THEN \E q \in Handler \cup {Idle} : Holders(<< n, i >>) = {q}
                        ELSE Holders(<< n, i >>) = {}
    BY DEF AlertsAccounted
  <2>1. TypeOK /\ Accounted(Queues, raised)
    BY DEF IInv, QueuesAccounted
  <2> DEFINE id == << n, i >>
  <2>2. Holders(id) = {g \in Goroutines : \E k \in DOMAIN Queues[g] : Queues[g][k] = id}
    BY <2>1, HoldersAre
  <2>3. \A g, o \in Goroutines : \A k \in DOMAIN Queues[g], l \in DOMAIN Queues[o] :
          Queues[g][k] = Queues[o][l] => g = o /\ k = l
    BY <2>1 DEF Accounted
  <2>4. CASE i \in Pending(n)
    <3>1. PICK g \in Goroutines : \E k \in DOMAIN Queues[g] : Queues[g][k] = id
      BY <2>1, <2>4 DEF Accounted, Pending
    <3>2. Holders(id) = {g}
      <4> HIDE DEF id
      <4> QED BY <2>2, <2>3, <3>1
    <3> QED BY <2>4, <3>2 DEF Goroutines
  <2>5. CASE i \notin Pending(n)
    <3>1. ~IsPending(raised, id)
      BY <2>5 DEF IsPending, Pending
    <3>2. \A g \in Goroutines : \A k \in DOMAIN Queues[g] : Queues[g][k] # id
      BY <2>1, <3>1 DEF Accounted
    <3> QED BY <2>2, <2>5, <3>2
  <2> QED BY <2>4, <2>5
<1> QED BY <1>1, Invariant, PTL

\* Only the start-up sweep leads into the loop.
LEMMA EntersLoop ==
  ASSUME TypeOK, [Next]_vars, ~Looping, Looping'
  PROVE  \E ok \in BOOLEAN : SweepAtBoot(ok)
<1>1. main \notin {"dispatch", "wait", "stopping"} /\ main' \in {"dispatch", "wait", "stopping"}
  BY DEF Looping
<1>2. ~(Tick \/ TickerFires \/ UNCHANGED vars)
  BY <1>1 DEF Tick, TickerFires, vars, server
<1>3. ~(Start \/ SweepReturns \/ Stop \/ Gone)
  BY <1>1 DEF Start, SweepReturns, Stop, Gone
<1>4. ASSUME NEW h \in Handler PROVE ~(HandlerRuns(h) \/ \E r \in Requests : Arrive(h, r))
  BY <1>1 DEF HandlerRuns, Refuse, Record, RecordAt, Reply, Arrive, server
<1>5. ASSUME NEW h \in Handler, NEW fate \in Fates PROVE ~HandlerDispatch(h, fate)
  BY <1>1 DEF HandlerDispatch, server
<1>6. ASSUME NEW fate \in Fates PROVE ~MainDispatch(fate)
  BY <1>1 DEF MainDispatch
<1>7. ASSUME NEW ok \in BOOLEAN PROVE ~SweepOnTick(ok)
  BY <1>1 DEF SweepOnTick
<1> QED BY <1>2, <1>3, <1>4, <1>5, <1>6, <1>7
        DEF Next, MainStep, HandlerStep, ShutdownDone, ShutdownTimesOut, Crash

\* A sweep leaves no check silent that is not down.
LEMMA SweptSilent ==
  ASSUME NEW cfg \in Config, NEW n \in Name, NEW cs \in CheckState, NEW now \in Nat,
         SweepCheck(cfg, n, cs, now).status # "waiting",
         now > GraceEnd(cfg, n, SweepCheck(cfg, n, cs, now))
  PROVE  SweepCheck(cfg, n, cs, now).status = "down"
<1> DEFINE d == SweepCheck(cfg, n, cs, now)
<1>1. d.lastPing = cs.lastPing
  BY DEF SweepCheck, CheckState
<1>2. now > GraceEnd(cfg, n, cs)
  BY <1>1 DEF GraceEnd, Deadline
<1>3. CASE cs.status \in {"up", "late"}
  <2>1. GoesDown(cfg, n, cs, now)
    BY <1>2, <1>3 DEF GoesDown
  <2> QED BY <2>1 DEF SweepCheck, Fires, SweptTo, CheckState
<1>4. CASE cs.status \in {"down", "waiting"}
  <2>1. d = cs
    BY <1>4 DEF SweepCheck, Fires, GoesDown, GoesLate
  <2> QED BY <1>4, <2>1
<1> QED BY <1>3, <1>4 DEF CheckState, Statuses

\* When the server enters its loop, whatever requests came before, every check
\* that is silent beyond its grace is down and, unless a save failed, its latest
\* alert has said so: no outage of the time it was not running is passed over
\* (Run's start-up sweep).
THEOREM CatchesUp == Spec => CaughtUpAtStart
<1>1. ASSUME IInv, IInv', [Next]_vars, ~Looping, Looping'
      PROVE  \A n \in Configured(Cfg) : Silent(n)' => ToldDown(n)'
  <2> SUFFICES ASSUME NEW n \in Configured(Cfg), Silent(n)' PROVE ToldDown(n)'
    OBVIOUS
  <2>1. TypeOK /\ TypeOK' /\ DownTold'
    BY <1>1 DEF IInv
  <2>2. PICK ok \in BOOLEAN : SweepAtBoot(ok)
    BY <1>1, <2>1, EntersLoop
  <2>3. SweepLocked(ok) /\ Up'
    BY <2>2, <1>1 DEF SweepAtBoot, Looping, Up
  <2>4. n \in Name /\ Cfg \in Config
    BY ServeAssumption, ConfiguredNames
  <2>5. st'[n] = SweepCheck(Cfg, n, st[n], clock) /\ clock' = clock
    BY <2>1, <2>3, <2>4, SweepIs
  <2>6. st[n] \in CheckState /\ clock \in Nat
    BY <2>1, <2>4 DEF TypeOK
  <2>7. st'[n].status = "down"
    BY <1>1, <2>4, <2>5, <2>6, SweptSilent DEF Silent
  <2>8. badSaves' = 0 => Told(raised'[n])
    BY <2>1, <2>3, <2>4, <2>7 DEF DownTold, Current
  <2> QED BY <2>7, <2>8 DEF ToldDown, Told
<1>2. IInv /\ IInv' /\ [Next]_vars
        => [~Looping /\ Looping' => \A n \in Configured(Cfg) : Silent(n)' => ToldDown(n)']_vars
  BY <1>1
<1> QED BY <1>2, Invariant, PTL DEF Spec, CaughtUpAtStart

-----------------------------------------------------------------------------
(***************************************************************************)
(* The server is the monitor.  What the monitor sees of an alert is what   *)
(* it tells, not its fate.                                                 *)
(***************************************************************************)
BareAlert == [type : EventTypes, prev : Statuses]

Bare(a) == [type |-> a.type, prev |-> a.prev]

BareFeed(f) == [i \in DOMAIN f |-> Bare(f[i])]

BareFeeds(r) == [n \in Name |-> BareFeed(r[n])]

\* The feed the monitor sees is one of well-formed alerts.
LEMMA BareIs ==
  ASSUME NEW f \in Seq(Alert)
  PROVE  /\ BareFeed(f) \in Seq(BareAlert) /\ Len(BareFeed(f)) = Len(f)
         /\ \A i \in DOMAIN f : BareFeed(f)[i] = Bare(f[i])
<1>1. Len(f) \in Nat /\ DOMAIN f = 1..Len(f) /\ \A i \in 1..Len(f) : f[i] \in Alert
  BY LenProperties, ElementOfSeq
<1>2. \A a \in Alert : Bare(a) \in BareAlert
  BY DEF Alert, Bare, BareAlert
<1> QED BY <1>1, <1>2 DEF BareFeed

\* Fates are invisible to the monitor.
LEMMA BareSame ==
  ASSUME NEW f \in Seq(Alert), NEW g \in Seq(Alert), Len(g) = Len(f),
         \A i \in DOMAIN f : g[i].type = f[i].type /\ g[i].prev = f[i].prev
  PROVE  BareFeed(g) = BareFeed(f)
<1>1. DOMAIN f = 1..Len(f) /\ DOMAIN g = DOMAIN f
  BY LenProperties
<1>2. \A i \in DOMAIN f : Bare(g[i]) = Bare(f[i])
  BY DEF Bare
<1> QED BY <1>1, <1>2 DEF BareFeed

\* An alert raised by the server is raised by the monitor.
LEMMA BareAppend ==
  ASSUME NEW f \in Seq(Alert), NEW a \in Alert
  PROVE  BareFeed(Append(f, a)) = Append(BareFeed(f), Bare(a))
<1> DEFINE g == Append(f, a)
           b == Bare(a)
           u == Append(BareFeed(f), b)
<1>1. /\ g \in Seq(Alert) /\ Len(g) = Len(f) + 1 /\ Len(f) \in Nat
      /\ \A i \in 1..Len(f) : g[i] = f[i]
      /\ g[Len(f) + 1] = a /\ DOMAIN g = 1..(Len(f) + 1) /\ DOMAIN f = 1..Len(f)
  BY AppendProperties, LenProperties
<1>2. b \in BareAlert
  BY DEF Alert, Bare, BareAlert
<1>3. BareFeed(f) \in Seq(BareAlert) /\ Len(BareFeed(f)) = Len(f)
  BY BareIs
<1> HIDE DEF g, b
<1>4. /\ u \in Seq(BareAlert) /\ Len(u) = Len(f) + 1 /\ u[Len(f) + 1] = b
      /\ \A i \in 1..Len(f) : u[i] = BareFeed(f)[i]
  BY <1>2, <1>3, AppendProperties
<1> HIDE DEF u
<1>5. BareFeed(g) \in Seq(BareAlert) /\ Len(BareFeed(g)) = Len(f) + 1
  BY <1>1, BareIs
<1>6. \A i \in 1..(Len(f) + 1) : BareFeed(g)[i] = u[i]
  <2> TAKE i \in 1..(Len(f) + 1)
  <2>1. BareFeed(g)[i] = Bare(g[i])
    BY <1>1, BareIs
  <2>2. CASE i \in 1..Len(f)
    <3>1. u[i] = Bare(f[i])
      BY <1>1, <1>4, <2>2, BareIs
    <3> QED BY <1>1, <2>1, <2>2, <3>1
  <2>3. CASE i = Len(f) + 1
    BY <1>1, <1>4, <2>1, <2>3 DEF b
  <2> QED BY <1>1, <2>2, <2>3
<1>7. BareFeed(g) = u
  BY <1>1, <1>4, <1>5, <1>6, SeqEqual
<1> QED BY <1>7 DEF g, u, b

\* Both modules have the same monitor functions.
LEMMA SameFunctions ==
  /\ \A cs, note, now : Mon!PingCheck(cs, note, now) = PingCheck(cs, note, now)
  /\ \A cs, note, now : Mon!FailCheck(cs, note, now) = FailCheck(cs, note, now)
  /\ \A n, cs, note, now : Mon!PingEvents(n, cs, note, now) = PingEvents(n, cs, note, now)
  /\ \A n, cs, note, now : Mon!FailEvents(n, cs, note, now) = FailEvents(n, cs, note, now)
  /\ \A c : Mon!Configured(c) = Configured(c)
  /\ \A c, n, cs, now : Mon!Fires(c, n, cs, now) = Fires(c, n, cs, now)
  /\ \A c, n, cs, now : Mon!SweepEvent(c, n, cs, now) = SweepEvent(c, n, cs, now)
  /\ \A c, s, now : Mon!Sweep(c, s, now) = Sweep(c, s, now)
  /\ Mon!NoChecks = NoChecks
<1>1. \A note : Mon!ClipNote(note) = ClipNote(note)
  BY DEF Mon!ClipNote, ClipNote
<1>2. /\ \A cs, note, now : Mon!PingCheck(cs, note, now) = PingCheck(cs, note, now)
      /\ \A cs, note, now : Mon!FailCheck(cs, note, now) = FailCheck(cs, note, now)
  BY <1>1 DEF Mon!PingCheck, PingCheck, Mon!FailCheck, FailCheck
<1>3. /\ \A n, cs, note, now : Mon!PingEvents(n, cs, note, now) = PingEvents(n, cs, note, now)
      /\ \A n, cs, note, now : Mon!FailEvents(n, cs, note, now) = FailEvents(n, cs, note, now)
  BY <1>1 DEF Mon!PingEvents, PingEvents, Mon!FailEvents, FailEvents
<1>4. \A c : Mon!Configured(c) = Configured(c)
  BY DEF Mon!Configured, Configured, Mon!Elements, Elements
<1>5. \A c, n, cs : /\ Mon!Deadline(c, n, cs) = Deadline(c, n, cs)
                    /\ Mon!GraceEnd(c, n, cs) = GraceEnd(c, n, cs)
  BY DEF Mon!Deadline, Deadline, Mon!GraceEnd, GraceEnd
<1>6. \A c, n, cs, now : /\ Mon!GoesDown(c, n, cs, now) = GoesDown(c, n, cs, now)
                         /\ Mon!GoesLate(c, n, cs, now) = GoesLate(c, n, cs, now)
  BY <1>5 DEF Mon!GoesDown, GoesDown, Mon!GoesLate, GoesLate
<1>7. \A c, n, cs, now : /\ Mon!Fires(c, n, cs, now) = Fires(c, n, cs, now)
                         /\ Mon!SweptTo(c, n, cs, now) = SweptTo(c, n, cs, now)
  BY <1>6 DEF Mon!Fires, Fires, Mon!SweptTo, SweptTo
<1>8. \A c, n, cs, now : Mon!SweepEvent(c, n, cs, now) = SweepEvent(c, n, cs, now)
  BY <1>5, <1>7 DEF Mon!SweepEvent, SweepEvent
<1>9. \A c, n, cs, now : Mon!SweepCheck(c, n, cs, now) = SweepCheck(c, n, cs, now)
  BY <1>7 DEF Mon!SweepCheck, SweepCheck
<1>10. Mon!Fresh = Fresh
  BY DEF Mon!Fresh, Fresh, Mon!ZeroTime, ZeroTime, Mon!NoEventYet, NoEventYet
<1>11. \A c, s, now : Mon!Sweep(c, s, now) = Sweep(c, s, now)
  BY <1>4, <1>9, <1>10 DEF Mon!Sweep, Sweep
<1>12. Mon!NoChecks = NoChecks
  BY <1>10 DEF Mon!NoChecks, NoChecks
<1> QED BY <1>2, <1>3, <1>4, <1>7, <1>8, <1>11, <1>12

\* What one call of the monitor raises about its check, seen by the monitor.
LEMMA RaisedBare ==
  ASSUME TypeOK, NEW m \in Name, NEW evs, OnePerCheck(evs),
         Raises(evs, raised, raised'), evs = << >> \/ \E e : evs = << e >> /\ e.check = m
  PROVE  BareFeeds(raised') =
           [BareFeeds(raised) EXCEPT ![m] = BareFeeds(raised)[m] \o Mon!AlertsOf(evs)]
<1>1. raised \in [Name -> Seq(Alert)] /\ raised' \in [Name -> Seq(Alert)]
  BY DEF TypeOK, Raises
<1>2. /\ \A n \in Name : BareFeeds(raised)[n] = BareFeed(raised[n])
      /\ \A n \in Name : BareFeed(raised[n]) \in Seq(BareAlert)
  BY <1>1, BareIs DEF BareFeeds
<1>3. \A n \in Name : n # m => raised'[n] = raised[n]
  <2>1. \A i \in DOMAIN evs : evs[i].check = m
    OBVIOUS
  <2> QED BY <2>1 DEF Raises
<1>4. BareFeed(raised'[m]) = BareFeed(raised[m]) \o Mon!AlertsOf(evs)
  <2> DEFINE b == BareFeed(raised[m])
  <2>0. b \in Seq(BareAlert)
    BY <1>2
  <2>1. CASE evs = << >>
    <3>1. raised'[m] = raised[m]
      BY <2>1 DEF Raises
    <3>2. Mon!AlertsOf(evs) = << >>
      BY <2>1 DEF Mon!AlertsOf
    <3> HIDE DEF b
    <3>3. b \o << >> = b
      BY <2>0, ConcatEmptySeq
    <3> QED BY <3>1, <3>2, <3>3 DEF b
  <2>2. CASE \E e : evs = << e >> /\ e.check = m
    <3>1. PICK e : evs = << e >> /\ e.check = m
      BY <2>2
    <3>2. 1 \in DOMAIN evs /\ evs[1] = e
      BY <3>1
    <3>3. /\ NewAlert(e) \in Alert
          /\ raised'[m] = Append(raised[m], NewAlert(e))
      BY <3>1, <3>2, EventFields DEF Raises
    <3>4. BareFeed(raised'[m]) = Append(b, Bare(NewAlert(e)))
      BY <1>1, <3>3, BareAppend
    <3>5. Mon!AlertsOf(evs) = << Bare(NewAlert(e)) >>
      <4>1. Mon!AsAlert(e) = Bare(NewAlert(e))
        BY DEF Mon!AsAlert, Bare, NewAlert
      <4>2. Mon!AlertsOf(evs) = << Mon!AsAlert(e) >>
        BY <3>1 DEF Mon!AlertsOf
      <4> QED BY <4>1, <4>2
    <3>6. Bare(NewAlert(e)) \in BareAlert
      BY <3>3 DEF Alert, Bare, BareAlert
    <3> DEFINE a == Bare(NewAlert(e))
    <3> HIDE DEF b, a
    <3>7. Append(b, a) = b \o << a >>
      BY <2>0, <3>6 DEF a
    <3> QED BY <3>4, <3>5, <3>7 DEF b, a
  <2> QED BY <2>1, <2>2
<1> DEFINE B == BareFeeds(raised)
           C == BareFeeds(raised')
           t == B[m] \o Mon!AlertsOf(evs)
<1>5. C = [n \in Name |-> BareFeed(raised'[n])] /\ B = [n \in Name |-> BareFeed(raised[n])]
  BY DEF BareFeeds
<1>6. \A n \in Name : C[n] = IF n = m THEN t ELSE B[n]
  BY <1>2, <1>3, <1>4, <1>5
<1> HIDE DEF B, C, t
<1>7. C = [B EXCEPT ![m] = t]
  BY <1>5, <1>6
<1> QED BY <1>7 DEF B, C, t

\* A request that is recorded is a call of the monitor.
LEMMA RecordIsCall ==
  ASSUME IInv, NEW h \in Handler, NEW ok \in BOOLEAN, Record(h, ok)
  PROVE  Mon!Next
<1> DEFINE m == CheckOf(h)
           evs == RecordEvents(h)
<1>1. TypeOK /\ ContactsCounted
  BY DEF IInv
<1>2. /\ Busy(h) /\ Up /\ req[h].at = "arrived"
      /\ m \in Name /\ m \in Configured(Cfg)
      /\ OnePerCheck(evs)
      /\ Raises(evs, raised, raised')
      /\ st' = [st EXCEPT ![m] = RecordEntry(h)]
      /\ called' = clock
      /\ main' = main
  BY <1>1, RecordIs DEF server
<1>3. Current = st /\ Current' = st'
  BY <1>2 DEF Current, Up
<1>4. /\ clock \in 1..MaxClock /\ called <= clock /\ st[m].pings \in Nat /\ st[m].fails \in Nat
      /\ requests <= MaxRequests /\ MaxRequests \in Nat /\ requests \in Nat
  BY <1>1, <1>2, ServeAssumption DEF TypeOK, CheckState
<1>5. Current[m].pings + Current[m].fails < MaxRequests
  <2>1. h \in Arrived /\ IsFiniteSet(Arrived)
    BY <1>1, <1>2 DEF Arrived, ContactsCounted
  <2>2. /\ Cardinality(Arrived \ {h}) = Cardinality(Arrived) - 1 /\ IsFiniteSet(Arrived \ {h})
        /\ Cardinality(Arrived) \in Nat
    BY <2>1, FS_RemoveElement, FS_CardinalityType
  <2>3. Cardinality(Arrived \ {h}) \in Nat
    BY <2>2, FS_CardinalityType
  <2>4. st[m].pings + st[m].fails + Cardinality(Arrived) <= requests
    BY <1>1, <1>2 DEF ContactsCounted, Contacts
  <2> HIDE DEF m
  <2> QED BY <1>3, <1>4, <2>2, <2>3, <2>4
<1>6. evs = << >> \/ \E e : evs = << e >> /\ e.check = m
  <2>1. evs = PingEvents(m, st[m], 0, clock) \/ evs = FailEvents(m, st[m], 0, clock)
    BY DEF RecordEvents, ContactEvents, CheckOf
  <2> HIDE DEF m, evs
  <2> QED BY <2>1 DEF PingEvents, FailEvents
<1>7. BareFeeds(raised)' = [BareFeeds(raised) EXCEPT ![m] = BareFeeds(raised)[m] \o Mon!AlertsOf(evs)]
  <2>1. BareFeeds(raised)' = BareFeeds(raised')
    BY DEF BareFeeds
  <2> HIDE DEF m, evs
  <2> QED BY <1>1, <1>2, <1>6, <2>1, RaisedBare
<1>8. CASE req[h].args.cmd = "ping"
  <2>1. RecordEntry(h) = PingCheck(st[m], 0, clock) /\ evs = PingEvents(m, st[m], 0, clock)
    BY <1>8 DEF RecordEntry, Contact, RecordEvents, ContactEvents, CheckOf
  <2>2. PICK n \in Name, now \in 1..MaxClock : n = m /\ now = clock
    BY <1>2, <1>4
  <2>3. Mon!CallAt(now)
    BY <1>2, <1>4, <2>2 DEF Mon!CallAt
  <2>4. Mon!RecordPing(n, 0, now)
    <3> HIDE DEF m, evs
    <3> QED BY <1>2, <1>3, <1>5, <1>7, <2>1, <2>2, <2>3, SameFunctions
            DEF Mon!RecordPing, Current, BareFeeds, BareFeed, Bare
  <2> QED BY <2>4 DEF Mon!Next
<1>9. CASE req[h].args.cmd # "ping"
  <2>1. RecordEntry(h) = FailCheck(st[m], 0, clock) /\ evs = FailEvents(m, st[m], 0, clock)
    BY <1>9 DEF RecordEntry, Contact, RecordEvents, ContactEvents, CheckOf
  <2>2. PICK n \in Name, now \in 1..MaxClock : n = m /\ now = clock
    BY <1>2, <1>4
  <2>3. Mon!CallAt(now)
    BY <1>2, <1>4, <2>2 DEF Mon!CallAt
  <2>4. Mon!RecordFail(n, 0, now)
    <3> HIDE DEF m, evs
    <3> QED BY <1>2, <1>3, <1>5, <1>7, <2>1, <2>2, <2>3, SameFunctions
            DEF Mon!RecordFail, Current, BareFeeds, BareFeed, Bare
  <2> QED BY <2>4 DEF Mon!Next
<1> QED BY <1>8, <1>9

\* So is a sweep.
LEMMA SweepIsCall ==
  ASSUME IInv, IInv', NEW ok \in BOOLEAN, Swept(ok)
  PROVE  Mon!Next
<1>1. TypeOK /\ Unwatched'
  BY DEF IInv
<1>2. SweepLocked(ok) /\ Up
  BY DEF Swept, Up
<1>3. /\ st' = Sweep(Cfg, st, clock)
      /\ OnePerCheck(SweepRaises)
      /\ \A n \in Name :
           raised'[n] = IF n \in Configured(Cfg) /\ Fires(Cfg, n, st[n], clock)
                          THEN Append(raised[n], NewAlert(SweepEvent(Cfg, n, st[n], clock)))
                          ELSE raised[n]
      /\ main' = "dispatch" /\ called' = clock
  BY <1>1, <1>2, SweepIs
<1>4. Current = st /\ Current' = st'
  BY <1>2, <1>3 DEF Current, Up
<1>5. /\ clock \in 1..MaxClock /\ clock \in Nat /\ called <= clock
      /\ st \in [Name -> CheckState] /\ raised \in [Name -> Seq(Alert)]
  BY <1>1, ServeAssumption DEF TypeOK
<1>6. ASSUME NEW n \in Name PROVE BareFeed(raised'[n]) = Mon!SweepAlerts(n, clock)
  <2>0. Mon!SweepAlerts(n, clock) =
          IF n \notin Configured(Cfg) THEN << >>
          ELSE IF Fires(Cfg, n, Current[n], clock)
            THEN Append(BareFeed(raised[n]), Mon!AsAlert(SweepEvent(Cfg, n, Current[n], clock)))
            ELSE BareFeed(raised[n])
    BY SameFunctions DEF Mon!SweepAlerts, Current, BareFeed, Bare
  <2>1. CASE n \notin Configured(Cfg)
    <3>1. raised'[n] = << >>
      BY <1>1, <2>1 DEF Unwatched
    <3>2. BareFeed(<< >>) = << >>
      BY DEF BareFeed
    <3> QED BY <2>0, <2>1, <3>1, <3>2
  <2>2. CASE n \in Configured(Cfg) /\ Fires(Cfg, n, st[n], clock)
    <3> DEFINE e == SweepEvent(Cfg, n, st[n], clock)
    <3>1. NewAlert(e) \in Alert
      <4>1. st[n].status \in Statuses /\ e.type \in EventTypes /\ e.prev = st[n].status
        BY <1>5 DEF CheckState, SweepEvent, SweptTo, EventTypes
      <4> QED BY <4>1 DEF NewAlert, Alert
    <3>2. raised'[n] = Append(raised[n], NewAlert(e))
      BY <1>3, <2>2
    <3>3. Mon!AsAlert(e) = Bare(NewAlert(e))
      BY DEF Mon!AsAlert, Bare, NewAlert
    <3>4. Mon!SweepAlerts(n, clock) = Append(BareFeed(raised[n]), Mon!AsAlert(e))
      BY <1>4, <2>0, <2>2
    <3> HIDE DEF e
    <3>5. BareFeed(Append(raised[n], NewAlert(e))) = Append(BareFeed(raised[n]), Bare(NewAlert(e)))
      BY <1>5, <3>1, BareAppend
    <3> QED BY <3>2, <3>3, <3>4, <3>5
  <2>3. CASE n \in Configured(Cfg) /\ ~Fires(Cfg, n, st[n], clock)
    BY <1>3, <1>4, <2>0, <2>3
  <2> QED BY <2>1, <2>2, <2>3
<1>7. BareFeeds(raised)' = [n \in Name |-> Mon!SweepAlerts(n, clock)]
  BY <1>6 DEF BareFeeds
<1>8. PICK now \in 1..MaxClock : now = clock
  BY <1>5
<1>9. Mon!CallAt(now)
  BY <1>3, <1>5, <1>8 DEF Mon!CallAt
<1>10. Mon!SweepAll(now)
  BY <1>3, <1>4, <1>7, <1>8, <1>9, SameFunctions DEF Mon!SweepAll, Current, BareFeeds, BareFeed, Bare
<1> QED BY <1>10 DEF Mon!Next

\* Every step of the server is a call of the monitor, invisible, or loses what was
\* not saved.
LEMMA MonitorStep ==
  ASSUME IInv, IInv', [Next]_vars
  PROVE  [Mon!Next \/ LosesUnsaved]_(Mon!vars)
<1>1. /\ TypeOK /\ InSync /\ QueuesAccounted
      /\ raised \in [Name -> Seq(Alert)]
  BY DEF IInv, TypeOK
<1>2. ASSUME called' = called, Current' = Current, BareFeeds(raised)' = BareFeeds(raised)
      PROVE  UNCHANGED Mon!vars
  BY <1>2 DEF Mon!vars, Current, BareFeeds, BareFeed, Bare
<1>3. ASSUME raised' \in [Name -> Seq(Alert)],
             \A n \in Name :
               /\ Len(raised'[n]) = Len(raised[n])
               /\ \A i \in DOMAIN raised[n] :
                    raised'[n][i].type = raised[n][i].type /\ raised'[n][i].prev = raised[n][i].prev
      PROVE  BareFeeds(raised)' = BareFeeds(raised)
  <2>1. \A n \in Name : BareFeed(raised'[n]) = BareFeed(raised[n])
    BY <1>1, <1>3, BareSame
  <2> QED BY <2>1 DEF BareFeeds
<1>4. CASE Quiet
  <2>1. called' = called /\ Current' = Current /\ raised' = raised
    BY <1>4 DEF Quiet, Current, history
  <2> QED BY <1>2, <2>1 DEF BareFeeds
<1>5. CASE Start
  <2>1. called' = called /\ Current' = Current /\ raised' = raised
    BY <1>5 DEF Start, Current, history, Up
  <2> QED BY <1>2, <2>1 DEF BareFeeds
<1>6. ASSUME NEW h \in Handler, (\E r \in Requests : Arrive(h, r)) \/ Refuse(h) \/ Reply(h)
      PROVE  UNCHANGED Mon!vars
  <2>1. called' = called /\ Current' = Current /\ raised' = raised
    BY <1>6 DEF Arrive, Refuse, Reply, Current, history, server, Up
  <2> QED BY <1>2, <2>1 DEF BareFeeds
<1>7. ASSUME NEW g \in Goroutines, NEW fate \in Fates, QueueOf(g) # << >>,
             Settle(Head(QueueOf(g)), fate), UNCHANGED << file, st, main, called >>
      PROVE  UNCHANGED Mon!vars
  <2> DEFINE id == Head(QueueOf(g))
  <2>1. IsPending(raised, id) /\ Settles(raised, raised', id, fate)
    BY <1>1, <1>7, DispatchIs DEF Settle, Settles
  <2> HIDE DEF id
  <2>2. BareFeeds(raised)' = BareFeeds(raised)
    BY <1>1, <1>3, <2>1, SettleIs
  <2>3. Current' = Current
    BY <1>7 DEF Current, Up
  <2> QED BY <1>2, <1>7, <2>2, <2>3
<1>8. ASSUME NEW h \in Handler, NEW fate \in Fates, HandlerDispatch(h, fate)
      PROVE  UNCHANGED Mon!vars
  <2>1. UNCHANGED << file, st, main, called >> /\ h \in Goroutines
    BY <1>8 DEF HandlerDispatch, server, history, Goroutines
  <2> QED BY <1>1, <1>7, <1>8, <2>1, HandlerDispatchIs
<1>9. ASSUME NEW fate \in Fates, MainDispatch(fate)
      PROVE  UNCHANGED Mon!vars
  <2>1. UNCHANGED << file, st, main, called >> /\ Idle \in Goroutines
    BY <1>9 DEF MainDispatch, history, Goroutines
  <2> QED BY <1>1, <1>7, <1>9, <2>1, MainDispatchIs
<1>10. CASE Up /\ Gone
  <2>1. CASE behind
    BY <1>10, <2>1 DEF Gone, LosesUnsaved, Up
  <2>2. CASE ~behind
    <3>1. BareFeeds(raised)' = BareFeeds(raised)
      BY <1>1, <1>3, <1>10, GoneIs
    <3>2. Current' = Current /\ called' = called
      BY <1>1, <1>10, <2>2 DEF InSync, Current, Gone, Up
    <3> QED BY <1>2, <3>1, <3>2
  <2> QED BY <2>1, <2>2
<1>11. ASSUME NEW h \in Handler, NEW ok \in BOOLEAN, Record(h, ok) PROVE Mon!Next
  BY <1>11, RecordIsCall
<1>12. ASSUME NEW ok \in BOOLEAN, Swept(ok) PROVE Mon!Next
  BY <1>12, SweepIsCall
<1> QED BY <1>1, <1>4, <1>5, <1>6, <1>8, <1>9, <1>10, <1>11, <1>12, StepIs

\* The server begins as the monitor does.
LEMMA MonitorInit == Init => Mon!Init
<1> SUFFICES ASSUME Init PROVE Mon!Init
  OBVIOUS
<1>1. /\ file = NoChecks /\ ~Up /\ called = ZeroTime
      /\ raised = [n \in Name |-> << >>]
  BY DEF Init, Up
<1>2. BareFeeds(raised) = [n \in Name |-> << >>]
  <2>1. BareFeed(<< >>) = << >>
    BY DEF BareFeed
  <2> QED BY <1>1, <2>1 DEF BareFeeds
<1> QED BY <1>1, <1>2, SameFunctions
        DEF Mon!Init, BareFeeds, BareFeed, Bare, Mon!ZeroTime, ZeroTime

\* The server, with its concurrent requests, its sweeps, deaths and restarts, is
\* the monitor of one caller with a clock that never goes back: every step is one
\* call of it or invisible, but for the end of a process whose latest save failed.
THEOREM ServerIsMonitor == Spec => ImplementsMonitor
<1>1. Init => Mon!Init
  BY MonitorInit
<1>2. IInv /\ IInv' /\ [Next]_vars => [Mon!Next \/ LosesUnsaved]_(Mon!vars)
  BY MonitorStep
<1> QED BY <1>1, <1>2, Invariant, PTL DEF Spec, ImplementsMonitor

-----------------------------------------------------------------------------
(***************************************************************************)
(* What the monitor promises, the server keeps: across its restarts, and   *)
(* as long as no save has failed.                                          *)
(***************************************************************************)

\* What was proved of the monitor, with the state of the server for its state.
MonP == INSTANCE MonitorProofs WITH
  Configs <- {Cfg}, Instants <- 1..MaxClock, Notes <- {0}, Monotone <- TRUE,
  MaxContacts <- MaxRequests,
  cfg <- Cfg, clock <- called, st <- Current, raised <- BareFeeds(raised)

\* What the proofs about the monitor assume, the server assumes.
LEMMA MonitorAssumptions == MonP!MaxNoteAssumption /\ MonP!MonitorAssumption
<1>1. MonP!Config = Config /\ MonP!ZeroTime = 0
  BY DEF MonP!Config, Config, MonP!ZeroTime
<1>2. MonP!MaxNoteAssumption
  BY MaxNoteAssumption
<1>3. MonP!MonitorAssumption
  BY <1>1, ServeAssumption
<1> QED BY <1>2, <1>3

\* Both instances of the monitor are one: its variables, ...
LEMMA SameVariables ==
  /\ Mon!vars = MonP!vars
  /\ Mon!Init <=> MonP!Init
<1>1. Mon!NoChecks = MonP!NoChecks /\ Mon!ZeroTime = MonP!ZeroTime
  BY DEF Mon!NoChecks, MonP!NoChecks, Mon!Fresh, MonP!Fresh, Mon!ZeroTime, MonP!ZeroTime,
         Mon!NoEventYet, MonP!NoEventYet
<1>2. Mon!vars = MonP!vars
  BY DEF Mon!vars, MonP!vars, Current, BareFeeds, BareFeed, Bare
<1>3. Mon!Init <=> MonP!Init
  BY <1>1 DEF Mon!Init, MonP!Init, Current, BareFeeds, BareFeed, Bare
<1> QED BY <1>2, <1>3

\* ... its functions, ...
LEMMA SameMonitor ==
  /\ \A cs, note, now : MonP!PingCheck(cs, note, now) = Mon!PingCheck(cs, note, now)
  /\ \A cs, note, now : MonP!FailCheck(cs, note, now) = Mon!FailCheck(cs, note, now)
  /\ \A n, cs, note, now : MonP!PingEvents(n, cs, note, now) = Mon!PingEvents(n, cs, note, now)
  /\ \A n, cs, note, now : MonP!FailEvents(n, cs, note, now) = Mon!FailEvents(n, cs, note, now)
  /\ \A c : MonP!Configured(c) = Mon!Configured(c)
  /\ \A c, n, cs, now : MonP!Fires(c, n, cs, now) = Mon!Fires(c, n, cs, now)
  /\ \A c, n, cs, now : MonP!SweepEvent(c, n, cs, now) = Mon!SweepEvent(c, n, cs, now)
  /\ \A c, s, now : MonP!Sweep(c, s, now) = Mon!Sweep(c, s, now)
  /\ \A evs : MonP!AlertsOf(evs) = Mon!AlertsOf(evs)
  /\ \A e : MonP!AsAlert(e) = Mon!AsAlert(e)
  /\ MonP!Fresh = Mon!Fresh
<1>1. \A note : MonP!ClipNote(note) = Mon!ClipNote(note)
  BY DEF MonP!ClipNote, Mon!ClipNote
<1>2. /\ \A cs, note, now : MonP!PingCheck(cs, note, now) = Mon!PingCheck(cs, note, now)
      /\ \A cs, note, now : MonP!FailCheck(cs, note, now) = Mon!FailCheck(cs, note, now)
  BY <1>1 DEF MonP!PingCheck, Mon!PingCheck, MonP!FailCheck, Mon!FailCheck
<1>3. /\ \A n, cs, note, now : MonP!PingEvents(n, cs, note, now) = Mon!PingEvents(n, cs, note, now)
      /\ \A n, cs, note, now : MonP!FailEvents(n, cs, note, now) = Mon!FailEvents(n, cs, note, now)
  BY <1>1 DEF MonP!PingEvents, Mon!PingEvents, MonP!FailEvents, Mon!FailEvents
<1>4. \A c : MonP!Configured(c) = Mon!Configured(c)
  BY DEF MonP!Configured, Mon!Configured, MonP!Elements, Mon!Elements
<1>5. \A c, n, cs : /\ MonP!Deadline(c, n, cs) = Mon!Deadline(c, n, cs)
                    /\ MonP!GraceEnd(c, n, cs) = Mon!GraceEnd(c, n, cs)
  BY DEF MonP!Deadline, Mon!Deadline, MonP!GraceEnd, Mon!GraceEnd
<1>6. \A c, n, cs, now : /\ MonP!GoesDown(c, n, cs, now) = Mon!GoesDown(c, n, cs, now)
                         /\ MonP!GoesLate(c, n, cs, now) = Mon!GoesLate(c, n, cs, now)
  BY <1>5 DEF MonP!GoesDown, Mon!GoesDown, MonP!GoesLate, Mon!GoesLate
<1>7. \A c, n, cs, now : /\ MonP!Fires(c, n, cs, now) = Mon!Fires(c, n, cs, now)
                         /\ MonP!SweptTo(c, n, cs, now) = Mon!SweptTo(c, n, cs, now)
  BY <1>6 DEF MonP!Fires, Mon!Fires, MonP!SweptTo, Mon!SweptTo
<1>8. \A c, n, cs, now : MonP!SweepEvent(c, n, cs, now) = Mon!SweepEvent(c, n, cs, now)
  BY <1>5, <1>7 DEF MonP!SweepEvent, Mon!SweepEvent
<1>9. \A c, n, cs, now : MonP!SweepCheck(c, n, cs, now) = Mon!SweepCheck(c, n, cs, now)
  BY <1>7 DEF MonP!SweepCheck, Mon!SweepCheck
<1>10. MonP!Fresh = Mon!Fresh
  BY DEF MonP!Fresh, Mon!Fresh, MonP!ZeroTime, Mon!ZeroTime, MonP!NoEventYet, Mon!NoEventYet
<1>11. \A c, s, now : MonP!Sweep(c, s, now) = Mon!Sweep(c, s, now)
  BY <1>4, <1>9, <1>10 DEF MonP!Sweep, Mon!Sweep
<1>12. \A e : MonP!AsAlert(e) = Mon!AsAlert(e)
  BY DEF MonP!AsAlert, Mon!AsAlert
<1>13. \A evs : MonP!AlertsOf(evs) = Mon!AlertsOf(evs)
  BY <1>12 DEF MonP!AlertsOf, Mon!AlertsOf
<1> QED BY <1>2, <1>3, <1>4, <1>7, <1>8, <1>10, <1>11, <1>12, <1>13

\* ... and its steps.
LEMMA SameCalls == Mon!Next => MonP!Next
<1>1. \A now : Mon!CallAt(now) <=> MonP!CallAt(now)
  BY DEF Mon!CallAt, MonP!CallAt
<1>2. \A n, note, now : Mon!RecordPing(n, note, now) <=> MonP!RecordPing(n, note, now)
  <2> TAKE n, note, now
  <2>1. MonP!PingCheck(Current[n], note, now) = Mon!PingCheck(Current[n], note, now)
    BY SameMonitor
  <2>2. MonP!AlertsOf(MonP!PingEvents(n, Current[n], note, now)) =
          Mon!AlertsOf(Mon!PingEvents(n, Current[n], note, now))
    BY SameMonitor
  <2>3. MonP!Configured(Cfg) = Mon!Configured(Cfg)
    BY SameMonitor
  <2> QED BY <1>1, <2>1, <2>2, <2>3
          DEF Mon!RecordPing, MonP!RecordPing, Current, BareFeeds, BareFeed, Bare
<1>3. \A n, note, now : Mon!RecordFail(n, note, now) <=> MonP!RecordFail(n, note, now)
  <2> TAKE n, note, now
  <2>1. MonP!FailCheck(Current[n], note, now) = Mon!FailCheck(Current[n], note, now)
    BY SameMonitor
  <2>2. MonP!AlertsOf(MonP!FailEvents(n, Current[n], note, now)) =
          Mon!AlertsOf(Mon!FailEvents(n, Current[n], note, now))
    BY SameMonitor
  <2>3. MonP!Configured(Cfg) = Mon!Configured(Cfg)
    BY SameMonitor
  <2> QED BY <1>1, <2>1, <2>2, <2>3
          DEF Mon!RecordFail, MonP!RecordFail, Current, BareFeeds, BareFeed, Bare
<1>4. \A n, now : Mon!SweepAlerts(n, now) = MonP!SweepAlerts(n, now)
  <2>1. /\ \A c, n, cs, now : MonP!SweepEvent(c, n, cs, now) = Mon!SweepEvent(c, n, cs, now)
        /\ \A c, n, cs, now : MonP!Fires(c, n, cs, now) = Mon!Fires(c, n, cs, now)
        /\ \A c : MonP!Configured(c) = Mon!Configured(c)
        /\ \A e : MonP!AsAlert(e) = Mon!AsAlert(e)
    BY SameMonitor
  <2> QED BY <2>1 DEF Mon!SweepAlerts, MonP!SweepAlerts, Current, BareFeeds, BareFeed, Bare
<1>5. \A now : Mon!SweepAll(now) <=> MonP!SweepAll(now)
  <2> TAKE now
  <2>1. MonP!Sweep(Cfg, Current, now) = Mon!Sweep(Cfg, Current, now)
    BY SameMonitor
  <2> QED BY <1>1, <1>4, <2>1
     DEF Mon!SweepAll, MonP!SweepAll, Current, BareFeeds, BareFeed, Bare
<1>6. Mon!Reconfigure <=> MonP!Reconfigure
  BY DEF Mon!Reconfigure, MonP!Reconfigure, Current, BareFeeds, BareFeed, Bare
<1>7. ASSUME NEW n \in Name, NEW note \in {0}, NEW now \in 1..MaxClock,
             Mon!RecordPing(n, note, now) \/ Mon!RecordFail(n, note, now)
      PROVE  MonP!Next
  <2>1. MonP!RecordPing(n, note, now) \/ MonP!RecordFail(n, note, now)
    BY <1>2, <1>3, <1>7
  <2> QED BY <2>1 DEF MonP!Next
<1>8. ASSUME NEW now \in 1..MaxClock, Mon!SweepAll(now)
      PROVE  MonP!Next
  <2>1. MonP!SweepAll(now)
    BY <1>5, <1>8
  <2> QED BY <2>1 DEF MonP!Next
<1>9. Mon!Reconfigure => MonP!Next
  BY <1>6 DEF MonP!Next
<1> QED BY <1>7, <1>8, <1>9 DEF Mon!Next

\* The four promises about alerts, as the two instances state them.
LEMMA SamePromises ==
  /\ MonP!OncePerOutage => Mon!OncePerOutage
  /\ MonP!OutagesSettled => Mon!OutagesSettled
  /\ MonP!FileMatchesFeed => Mon!FileMatchesFeed
  /\ MonP!PrevChained => Mon!PrevChained
<1>1. MonP!Opening = Mon!Opening
  BY DEF MonP!Opening, Mon!Opening
<1>2. \A s, i, j, types : MonP!Between(s, i, j, types) <=> Mon!Between(s, i, j, types)
  BY DEF MonP!Between, Mon!Between
<1>3. MonP!OncePerOutage => Mon!OncePerOutage
  BY <1>1, <1>2 DEF MonP!OncePerOutage, Mon!OncePerOutage, BareFeeds, BareFeed, Bare
<1>4. MonP!OutagesSettled => Mon!OutagesSettled
  BY <1>1 DEF MonP!OutagesSettled, Mon!OutagesSettled, Current, BareFeeds, BareFeed, Bare
<1>5. MonP!FileMatchesFeed => Mon!FileMatchesFeed
  BY <1>1 DEF MonP!FileMatchesFeed, Mon!FileMatchesFeed, MonP!Announced, Mon!Announced,
              Current, BareFeeds, BareFeed, Bare
<1>6. MonP!PrevChained => Mon!PrevChained
  BY <1>1 DEF MonP!PrevChained, Mon!PrevChained, BareFeeds, BareFeed, Bare
<1> QED BY <1>3, <1>4, <1>5, <1>6

\* So is the status document, and what it promises.
LEMMA SameStatus == MonP!StatusAgrees => Mon!StatusAgrees
<1>1. \A cs : MonP!HasDue(cs) <=> Mon!HasDue(cs)
  BY DEF MonP!HasDue, Mon!HasDue, MonP!ZeroTime, Mon!ZeroTime
<1>2. \A c, n, cs, now : MonP!StatusEntry(c, n, cs, now) = Mon!StatusEntry(c, n, cs, now)
  BY <1>1 DEF MonP!StatusEntry, Mon!StatusEntry, MonP!DueIn, Mon!DueIn,
              MonP!Deadline, Mon!Deadline
<1>3. \A s, S : MonP!Keep(s, S) = Mon!Keep(s, S)
  BY DEF MonP!Keep, Mon!Keep, MonP!Kept, Mon!Kept
<1>4. \A c : MonP!Configured(c) = Mon!Configured(c)
  BY SameMonitor
<1>5. \A c, s, now : MonP!BuildStatus(c, s, now) = Mon!BuildStatus(c, s, now)
  BY <1>2, <1>3, <1>4 DEF MonP!BuildStatus, Mon!BuildStatus
<1>6. \A n : MonP!OutageKnown(n) <=> Mon!OutageKnown(n)
  BY DEF MonP!OutageKnown, Mon!OutageKnown, MonP!Opening, Mon!Opening,
         BareFeeds, BareFeed, Bare
<1>7. \A c, s, now : MonP!Sweep(c, s, now) = Mon!Sweep(c, s, now)
  BY SameMonitor
<1>8. \A e, cs, grace : MonP!LineAgrees(e, cs, grace) <=> Mon!LineAgrees(e, cs, grace)
  BY DEF MonP!LineAgrees, Mon!LineAgrees
<1> QED BY <1>3, <1>4, <1>5, <1>6, <1>7, <1>8
        DEF MonP!StatusAgrees, Mon!StatusAgrees, Current, BareFeeds, BareFeed, Bare

\* While no save has failed, the server is in a state that the monitor reaches.
Reliable == badSaves = 0 => MonP!IInv

\* At first nothing has been raised.
LEMMA ReliableInit == Init => Reliable
<1> SUFFICES ASSUME Init PROVE Reliable
  OBVIOUS
<1>1. MonP!Init
  BY MonitorInit, SameVariables
<1> QED BY <1>1, MonitorAssumptions, MonP!IInvInit DEF Reliable

\* The count of the saves that have failed never falls.
LEMMA BadSavesGrow ==
  ASSUME TypeOK, [Next]_vars, badSaves' = 0
  PROVE  badSaves = 0
<1>1. badSaves \in Nat
  BY ServeAssumption DEF TypeOK
<1>2. ASSUME NEW ok \in BOOLEAN, NEW evs, Persist(ok, evs)
      PROVE  badSaves' >= badSaves
  BY <1>1, <1>2 DEF Persist
<1>3. badSaves' >= badSaves
  <2>1. CASE Quiet
    BY <1>1, <2>1 DEF Quiet, counters
  <2>2. ASSUME NEW h \in Handler, NEW ok \in BOOLEAN, Record(h, ok)
        PROVE  badSaves' >= badSaves
    <3>1. \E evs : Persist(ok, evs)
      BY <2>2 DEF Record, RecordAt
    <3> QED BY <1>2, <3>1
  <2>3. ASSUME NEW ok \in BOOLEAN, Swept(ok)
        PROVE  badSaves' >= badSaves
    <3>1. \E evs : Persist(ok, evs)
      BY <2>3 DEF Swept, SweepLocked
    <3> QED BY <1>2, <3>1
  <2>4. Start \/ (Up /\ Gone) => badSaves' >= badSaves
    BY <1>1 DEF Start, Gone, counters
  <2>5. ASSUME NEW h \in Handler,
               (\E r \in Requests : Arrive(h, r)) \/ Refuse(h) \/ Reply(h)
        PROVE  badSaves' >= badSaves
    BY <1>1, <2>5 DEF Arrive, Refuse, Reply, counters
  <2>6. ASSUME NEW fate \in Fates,
               MainDispatch(fate) \/ \E h \in Handler : HandlerDispatch(h, fate)
        PROVE  badSaves' >= badSaves
    BY <1>1, <2>6 DEF HandlerDispatch, MainDispatch, counters
  <2> QED BY <2>1, <2>2, <2>3, <2>4, <2>5, <2>6, StepIs
<1> QED BY <1>1, <1>3

\* A step that fails no save is a call of the monitor or invisible.
LEMMA ReliableStep ==
  ASSUME IInv, IInv', Reliable, [Next]_vars
  PROVE  Reliable'
<1> SUFFICES ASSUME badSaves' = 0 PROVE MonP!IInv'
  BY DEF Reliable
<1>1. badSaves = 0
  BY BadSavesGrow DEF IInv
<1>2. ~LosesUnsaved
  BY <1>1 DEF IInv, DownTold, LosesUnsaved
<1>3. [MonP!Next]_(MonP!vars)
  <2>1. Mon!Next \/ UNCHANGED Mon!vars
    BY <1>2, MonitorStep
  <2>2. UNCHANGED Mon!vars => UNCHANGED MonP!vars
    BY DEF Mon!vars, MonP!vars, Current, BareFeeds, BareFeed, Bare
  <2> QED BY <2>1, <2>2, SameCalls
<1>4. MonP!IInv
  BY <1>1 DEF Reliable
<1> QED BY <1>3, <1>4, MonitorAssumptions, MonP!IInvStep

\* Across deaths of the process and restarts, as long as no save has failed: one down alert
\* per outage and one recovered per recovery, an outage of a check is open in its
\* feed just while it is down, the file says what the latest alert said, and each
\* alert's prev_status is what the alerts before it have left, and /status counts
\* as down just the checks whose outage was told.
THEOREM AlertsDisciplined ==
  Spec => [](badSaves = 0 => /\ Mon!OncePerOutage /\ Mon!OutagesSettled
                             /\ Mon!FileMatchesFeed /\ Mon!PrevChained
                             /\ Mon!StatusAgrees)
<1>1. ASSUME MonP!IInv
      PROVE  /\ Mon!OncePerOutage /\ Mon!OutagesSettled
             /\ Mon!FileMatchesFeed /\ Mon!PrevChained
             /\ Mon!StatusAgrees
  <2>1. MonP!Disciplined
    BY <1>1 DEF MonP!IInv
  <2>2. MonP!StatusAgrees
    BY <1>1, MonitorAssumptions, MonP!StatusIs
  <2> QED BY <2>1, <2>2, MonitorAssumptions, MonP!DisciplineIs, SamePromises, SameStatus
<1>2. Reliable => (badSaves = 0 => /\ Mon!OncePerOutage /\ Mon!OutagesSettled
                                   /\ Mon!FileMatchesFeed /\ Mon!PrevChained
                                   /\ Mon!StatusAgrees)
  BY <1>1 DEF Reliable
<1>3. IInv /\ IInv' /\ Reliable /\ [Next]_vars => Reliable'
  BY ReliableStep
<1> QED BY <1>2, <1>3, ReliableInit, Invariant, PTL DEF Spec

\* A server none of whose saves fails is the monitor, in all its restarts; so
\* every receiver that gets all alerts of a check sees a behaviour of AlertFeed,
\* and no outage ends but by a ping that raises recovered.
THEOREM ReliableServerIsMonitor ==
  Spec /\ [](badSaves = 0) => Mon!Spec /\ Mon!ImplementsAlertFeed /\ Mon!DownSticks
<1>1. IInv /\ badSaves = 0 /\ [Mon!Next \/ LosesUnsaved]_(Mon!vars) => [Mon!Next]_(Mon!vars)
  BY DEF IInv, DownTold, LosesUnsaved
<1>2. Spec /\ [](badSaves = 0) => Mon!Spec
  BY <1>1, ServerIsMonitor, Invariant, PTL DEF ImplementsMonitor, Mon!Spec
<1>3. Mon!Spec => MonP!Spec
  <2>1. Mon!Init => MonP!Init
    BY SameVariables
  <2>2. [Mon!Next]_(Mon!vars) => [MonP!Next]_(MonP!vars)
    BY SameCalls DEF Mon!vars, MonP!vars, Current, BareFeeds, BareFeed, Bare
  <2> QED BY <2>1, <2>2, PTL DEF Mon!Spec, MonP!Spec
<1>4. MonP!Spec => MonP!ImplementsAlertFeed
  BY MonitorAssumptions, MonP!MonitorImplementsAlertFeed
<1>5. MonP!Spec => MonP!DownSticks
  BY MonitorAssumptions, MonP!DownSticksAlways
<1>6. MonP!ImplementsAlertFeed => Mon!ImplementsAlertFeed
  <2>1. MonP!Feed!Init => Mon!Feed!Init
    BY DEF MonP!Feed!Init, Mon!Feed!Init, Current, BareFeeds, BareFeed, Bare
  <2>2. [MonP!Feed!Next]_(MonP!Feed!vars) => [Mon!Feed!Next]_(Mon!Feed!vars)
    <3>1. \A n \in Name : MonP!Feed!Step(n) => Mon!Feed!Step(n)
      BY DEF MonP!Feed!Step, Mon!Feed!Step, MonP!Feed!Raise, Mon!Feed!Raise,
             MonP!Feed!Warn, Mon!Feed!Warn, MonP!Feed!Open, Mon!Feed!Open,
             MonP!Feed!FailAgain, Mon!Feed!FailAgain, MonP!Feed!Close, Mon!Feed!Close,
             MonP!Feed!Forget, Mon!Feed!Forget, MonP!Feed!Same, Mon!Feed!Same,
             Current, BareFeeds, BareFeed, Bare
    <3>2. MonP!Feed!Next => Mon!Feed!Next
      BY <3>1 DEF MonP!Feed!Next, Mon!Feed!Next, Current, BareFeeds, BareFeed, Bare
    <3>3. UNCHANGED MonP!Feed!vars => UNCHANGED Mon!Feed!vars
      BY DEF MonP!Feed!vars, Mon!Feed!vars, Current, BareFeeds, BareFeed, Bare
    <3> QED BY <3>2, <3>3
  <2> QED BY <2>1, <2>2, PTL
          DEF MonP!ImplementsAlertFeed, Mon!ImplementsAlertFeed, MonP!Feed!Spec, Mon!Feed!Spec
<1>7. MonP!DownSticks => Mon!DownSticks
  <2>1. MonP!Configured(Cfg) = Mon!Configured(Cfg) /\ MonP!Fresh = Mon!Fresh
    BY SameMonitor
  <2>2. \A n \in Name : MonP!StaysDown(n) => Mon!StaysDown(n)
    BY <2>1 DEF MonP!StaysDown, Mon!StaysDown, Current, BareFeeds, BareFeed, Bare
  <2>3. UNCHANGED MonP!vars => UNCHANGED Mon!vars
    BY DEF Mon!vars, MonP!vars, Current, BareFeeds, BareFeed, Bare
  <2>4. [\A n \in Name : MonP!StaysDown(n)]_(MonP!vars) => [\A n \in Name : Mon!StaysDown(n)]_(Mon!vars)
    BY <2>2, <2>3
  <2> QED BY <2>4, PTL DEF MonP!DownSticks, Mon!DownSticks
<1> QED BY <1>2, <1>3, <1>4, <1>5, <1>6, <1>7, PTL

\* What the file holds, and so what a restart loads, explains itself; so does what
\* the server has in memory: its status, counters, instants and last event never
\* contradict each other, whatever was saved, lost or done at once.
ServerExplains ==
  \A n \in Name : Mon!EntryExplained(file[n]) /\ Mon!EntryExplained(st[n])

\* Both instances say the same of an entry; the one that Get creates explains
\* itself.
LEMMA SameExplained ==
  /\ \A e : MonP!EntryExplained(e) <=> Mon!EntryExplained(e)
  /\ MonP!Fresh = Fresh
  /\ Mon!EntryExplained(Fresh)
<1>1. \A e : MonP!EntryExplained(e) <=> Mon!EntryExplained(e)
  BY DEF MonP!EntryExplained, Mon!EntryExplained, MonP!ZeroTime, Mon!ZeroTime,
         MonP!NoEventYet, Mon!NoEventYet, MonP!Opening, Mon!Opening
<1>2. MonP!Fresh = Fresh
  BY DEF MonP!Fresh, Fresh, MonP!ZeroTime, ZeroTime, MonP!NoEventYet, NoEventYet
<1>3. MonP!EntryExplained(MonP!Fresh)
  BY MonitorAssumptions, MonP!FreshExplained
<1> QED BY <1>1, <1>2, <1>3

\* A contact or a sweep leaves an entry that explains itself.
LEMMA ExplainedCall ==
  ASSUME NEW cs \in CheckState, Mon!EntryExplained(cs), NEW n \in Name, NEW now \in Nat \ {0}
  PROVE  /\ Mon!EntryExplained(PingCheck(cs, 0, now))
         /\ Mon!EntryExplained(FailCheck(cs, 0, now))
         /\ Mon!EntryExplained(SweepCheck(Cfg, n, cs, now))
<1>1. \A e : MonP!EntryExplained(e) <=> Mon!EntryExplained(e)
  BY SameExplained
<1>2. /\ MonP!CheckState = CheckState /\ MonP!Config = Config /\ MonP!ZeroTime = 0
      /\ MonP!PingCheck(cs, 0, now) = PingCheck(cs, 0, now)
      /\ MonP!FailCheck(cs, 0, now) = FailCheck(cs, 0, now)
      /\ MonP!SweepCheck(Cfg, n, cs, now) = SweepCheck(Cfg, n, cs, now)
  <2>1. /\ MonP!CheckState = CheckState /\ MonP!Config = Config /\ MonP!ZeroTime = 0
    BY DEF MonP!CheckState, CheckState, MonP!Config, Config, MonP!ZeroTime, ZeroTime,
           MonP!Statuses, Statuses, MonP!EventTypes, EventTypes, MonP!NoEventYet, NoEventYet
  <2>2. \A c, m, e, t : MonP!Fires(c, m, e, t) = Fires(c, m, e, t)
    BY SameMonitor, SameFunctions
  <2>3. \A c, m, e, t : MonP!SweptTo(c, m, e, t) = SweptTo(c, m, e, t)
    BY DEF MonP!SweptTo, SweptTo, MonP!GoesDown, GoesDown, MonP!GraceEnd, GraceEnd,
           MonP!Deadline, Deadline
  <2>4. MonP!SweepCheck(Cfg, n, cs, now) = SweepCheck(Cfg, n, cs, now)
    BY <2>2, <2>3 DEF MonP!SweepCheck, SweepCheck
  <2>5. /\ MonP!PingCheck(cs, 0, now) = PingCheck(cs, 0, now)
        /\ MonP!FailCheck(cs, 0, now) = FailCheck(cs, 0, now)
    BY SameMonitor, SameFunctions
  <2> QED BY <2>1, <2>4, <2>5
<1>3. /\ MonP!EntryExplained(MonP!PingCheck(cs, 0, now))
      /\ MonP!EntryExplained(MonP!FailCheck(cs, 0, now))
      /\ MonP!EntryExplained(MonP!SweepCheck(Cfg, n, cs, now))
  BY <1>1, <1>2, MonitorAssumptions, ServeAssumption, 0 \in Nat, MonP!EntryStep
<1> QED BY <1>1, <1>2, <1>3

\* Every step keeps it so: what is saved, loaded or left by a death is an entry
\* that a call has made.
LEMMA ExplainedStep ==
  ASSUME TypeOK, ServerExplains, [Next]_vars
  PROVE  ServerExplains'
<1> SUFFICES ASSUME NEW n \in Name
             PROVE  Mon!EntryExplained(file'[n]) /\ Mon!EntryExplained(st'[n])
  BY DEF ServerExplains
<1>1. /\ clock \in Nat \ {0} /\ st \in [Name -> CheckState]
      /\ \A m \in Name : Mon!EntryExplained(file[m]) /\ Mon!EntryExplained(st[m])
  BY DEF TypeOK, ServerExplains
<1>2. ASSUME NEW ok \in BOOLEAN, NEW evs, Persist(ok, evs), Mon!EntryExplained(st'[n])
      PROVE  Mon!EntryExplained(file'[n]) /\ Mon!EntryExplained(st'[n])
  BY <1>1, <1>2 DEF Persist
<1>3. CASE Quiet
  BY <1>1, <1>3 DEF Quiet
<1>4. CASE Start
  BY <1>1, <1>4 DEF Start
<1>5. ASSUME NEW h \in Handler, (\E r \in Requests : Arrive(h, r)) \/ Refuse(h) \/ Reply(h)
      PROVE  Mon!EntryExplained(file'[n]) /\ Mon!EntryExplained(st'[n])
  BY <1>1, <1>5 DEF Arrive, Refuse, Reply
<1>6. ASSUME NEW h \in Handler, NEW ok \in BOOLEAN, Record(h, ok)
      PROVE  Mon!EntryExplained(file'[n]) /\ Mon!EntryExplained(st'[n])
  <2>1. /\ CheckOf(h) \in Name /\ st' = [st EXCEPT ![CheckOf(h)] = RecordEntry(h)]
        /\ Persist(ok, RecordEvents(h))
    BY <1>6, RecordIs
  <2>2. Mon!EntryExplained(RecordEntry(h))
    BY <1>1, <2>1, ExplainedCall DEF RecordEntry, Contact
  <2>3. Mon!EntryExplained(st'[n])
    BY <1>1, <2>1, <2>2
  <2> QED BY <1>2, <2>1, <2>3
<1>7. ASSUME NEW ok \in BOOLEAN, Swept(ok)
      PROVE  Mon!EntryExplained(file'[n]) /\ Mon!EntryExplained(st'[n])
  <2>1. /\ n \in Configured(Cfg) => st'[n] = SweepCheck(Cfg, n, st[n], clock)
        /\ n \notin Configured(Cfg) => st'[n] = Fresh
        /\ Persist(ok, SweepRaises)
    BY <1>7, SweepIs DEF Swept
  <2>2. st[n] \in CheckState /\ Mon!EntryExplained(st[n])
    BY <1>1
  <2>3. Mon!EntryExplained(st'[n])
    BY <1>1, <2>1, <2>2, ExplainedCall, SameExplained
  <2> QED BY <1>2, <2>1, <2>3
<1>8. ASSUME NEW fate \in Fates,
             MainDispatch(fate) \/ \E h \in Handler : HandlerDispatch(h, fate)
      PROVE  Mon!EntryExplained(file'[n]) /\ Mon!EntryExplained(st'[n])
  BY <1>1, <1>8 DEF MainDispatch, HandlerDispatch
<1>9. CASE Up /\ Gone
  <2>1. file' = file /\ st'[n] = Fresh
    BY <1>9 DEF Gone, NoChecks
  <2>2. Mon!EntryExplained(Fresh)
    BY SameExplained
  <2> QED BY <1>1, <2>1, <2>2
<1> QED BY <1>3, <1>4, <1>5, <1>6, <1>7, <1>8, <1>9, StepIs

\* With any number of requests at once, saves that fail, deaths and restarts, no
\* entry in the file or in memory contradicts itself.
THEOREM EntriesAlwaysExplained == Spec => []ServerExplains
<1>1. Init => ServerExplains
  BY SameExplained DEF Init, NoChecks, ServerExplains
<1>2. IInv /\ ServerExplains /\ [Next]_vars => ServerExplains'
  BY ExplainedStep DEF IInv
<1> QED BY <1>1, <1>2, Invariant, PTL DEF Spec

-----------------------------------------------------------------------------
(***************************************************************************)
(* MixedMode: what the server and command-line processes on its file       *)
(* cannot take from each other.  What was proved of the steps of either is *)
(* used here.                                                              *)
(***************************************************************************)

\* What was proved of the processes.
D == INSTANCE DaemonlessProofs WITH raised <- cliRaised, acked <- cliAcked

-----------------------------------------------------------------------------
(***************************************************************************)
(* The processes of MixedMode are those of DaemonlessProofs.               *)
(***************************************************************************)

\* Both have the same records.
LEMMA SameRecords ==
  /\ D!CheckState = CheckState /\ D!Config = Config /\ D!Event = Event
  /\ D!NoChecks = NoChecks /\ Cli!NoChecks = NoChecks
  /\ D!ZeroTime = 0 /\ Cli!ZeroTime = 0
  /\ D!Contacts = Cli!Contacts /\ D!Commands = Cli!Commands /\ D!Process = Cli!Process
  /\ \A c : D!Configured(c) = Configured(c)
<1>1. /\ D!Statuses = Statuses /\ Cli!Statuses = Statuses
      /\ D!EventTypes = EventTypes /\ Cli!EventTypes = EventTypes
      /\ D!NoEventYet = NoEventYet /\ Cli!NoEventYet = NoEventYet
      /\ D!ZeroTime = 0 /\ Cli!ZeroTime = 0 /\ ZeroTime = 0
  BY DEF D!Statuses, Statuses, Cli!Statuses, D!EventTypes, EventTypes, Cli!EventTypes,
         D!NoEventYet, NoEventYet, Cli!NoEventYet, D!ZeroTime, ZeroTime, Cli!ZeroTime
<1>2. /\ D!CheckState = CheckState /\ Cli!CheckState = CheckState
      /\ D!Event = Event /\ Cli!Event = Event
      /\ D!Config = Config
  BY <1>1 DEF D!CheckState, CheckState, Cli!CheckState, D!Event, Event, Cli!Event, D!Config, Config
<1>3. D!Fresh = Fresh /\ Cli!Fresh = Fresh
  BY <1>1 DEF D!Fresh, Fresh, Cli!Fresh
<1>4. D!NoChecks = NoChecks /\ Cli!NoChecks = NoChecks
  BY <1>3 DEF D!NoChecks, NoChecks, Cli!NoChecks
<1>5. \A c : D!Configured(c) = Configured(c)
  BY DEF D!Configured, Configured, D!Elements, Elements
<1>6. D!Contacts = Cli!Contacts /\ D!Commands = Cli!Commands
  BY DEF D!Contacts, Cli!Contacts, D!Commands, Cli!Commands
<1>7. D!Process = Cli!Process
  BY <1>2, <1>6 DEF D!Process, Cli!Process
<1> QED BY <1>1, <1>2, <1>4, <1>5, <1>6, <1>7

\* So what is assumed here is what is assumed there.
LEMMA Assumptions == D!MaxNoteAssumption /\ D!DaemonlessAssumption
<1>1. D!MaxNoteAssumption
  BY MaxNoteAssumption
<1>2. D!DaemonlessAssumption
  BY ServeAssumption, MixedAssumption, SameRecords
<1> QED BY <1>1, <1>2

\* Both compute the same.
LEMMA SameOutcomes ==
  /\ \A r, s : D!Outcome(r, s) = Cli!Outcome(r, s)
  /\ \A r, s : D!OutcomeEvents(r, s) = Cli!OutcomeEvents(r, s)
<1>1. /\ D!ZeroTime = Cli!ZeroTime /\ D!NoEventYet = Cli!NoEventYet
      /\ \A note : D!ClipNote(note) = Cli!ClipNote(note)
      /\ \A c : D!Configured(c) = Cli!Configured(c)
  BY DEF D!ZeroTime, Cli!ZeroTime, D!NoEventYet, Cli!NoEventYet, D!ClipNote, Cli!ClipNote,
         D!Configured, Cli!Configured, D!Elements, Cli!Elements
<1>2. /\ \A cs, note, now : D!PingCheck(cs, note, now) = Cli!PingCheck(cs, note, now)
      /\ \A cs, note, now : D!FailCheck(cs, note, now) = Cli!FailCheck(cs, note, now)
      /\ \A n, cs, note, now : D!PingEvents(n, cs, note, now) = Cli!PingEvents(n, cs, note, now)
      /\ \A n, cs, note, now : D!FailEvents(n, cs, note, now) = Cli!FailEvents(n, cs, note, now)
  BY <1>1 DEF D!PingCheck, Cli!PingCheck, D!FailCheck, Cli!FailCheck,
              D!PingEvents, Cli!PingEvents, D!FailEvents, Cli!FailEvents
<1>3. \A c, n, cs : /\ D!Deadline(c, n, cs) = Cli!Deadline(c, n, cs)
                    /\ D!GraceEnd(c, n, cs) = Cli!GraceEnd(c, n, cs)
  BY DEF D!Deadline, Cli!Deadline, D!GraceEnd, Cli!GraceEnd
<1>4. \A c, n, cs, now : /\ D!GoesDown(c, n, cs, now) = Cli!GoesDown(c, n, cs, now)
                         /\ D!GoesLate(c, n, cs, now) = Cli!GoesLate(c, n, cs, now)
  BY <1>3 DEF D!GoesDown, Cli!GoesDown, D!GoesLate, Cli!GoesLate
<1>5. \A c, n, cs, now : /\ D!Fires(c, n, cs, now) = Cli!Fires(c, n, cs, now)
                         /\ D!SweptTo(c, n, cs, now) = Cli!SweptTo(c, n, cs, now)
  BY <1>4 DEF D!Fires, Cli!Fires, D!SweptTo, Cli!SweptTo
<1>6. \A c, n, cs, now : /\ D!SweepCheck(c, n, cs, now) = Cli!SweepCheck(c, n, cs, now)
                         /\ D!SweepEvent(c, n, cs, now) = Cli!SweepEvent(c, n, cs, now)
  <2>1. \A c, n, cs, now : D!SweepCheck(c, n, cs, now) = Cli!SweepCheck(c, n, cs, now)
    BY <1>5 DEF D!SweepCheck, Cli!SweepCheck
  <2>2. \A c, n, cs, now : D!SweepEvent(c, n, cs, now) = Cli!SweepEvent(c, n, cs, now)
    BY <1>3, <1>5 DEF D!SweepEvent, Cli!SweepEvent
  <2> QED BY <2>1, <2>2
<1>7. D!Fresh = Cli!Fresh
  BY <1>1 DEF D!Fresh, Cli!Fresh
<1>8. \A c, s, now : D!Sweep(c, s, now) = Cli!Sweep(c, s, now)
  BY <1>1, <1>6, <1>7 DEF D!Sweep, Cli!Sweep
<1>9. \A s, S : D!Keep(s, S) = Cli!Keep(s, S)
  BY DEF D!Keep, Cli!Keep, D!Kept, Cli!Kept
<1>10. \A c, s, now : D!SweepEvents(c, s, now) = Cli!SweepEvents(c, s, now)
  BY <1>1, <1>5, <1>6, <1>9 DEF D!SweepEvents, Cli!SweepEvents
<1> QED BY <1>2, <1>8, <1>10 DEF D!Outcome, Cli!Outcome, D!OutcomeEvents, Cli!OutcomeEvents

\* So the steps are the same.
LEMMA SameSteps ==
  ASSUME NEW p, Cli!Step(p)
  PROVE  D!Step(p)
<1>1. \A q : Cli!Running(q) <=> D!Running(q)
  BY DEF Cli!Running, D!Running
<1>2. \A e : Cli!Told(e) = D!Told(e)
  BY DEF Cli!Told, D!Told
<1>3. \A n, evs : Cli!About(n, evs) = D!About(n, evs)
  <2>1. \A s, S : D!Keep(s, S) = Cli!Keep(s, S)
    BY DEF D!Keep, Cli!Keep, D!Kept, Cli!Kept
  <2> QED BY <1>2, <2>1 DEF Cli!About, D!About, Cli!Elements, D!Elements
<1>4. D!NoChecks = Cli!NoChecks /\ D!Contacts = Cli!Contacts /\ D!Commands = Cli!Commands
  BY SameRecords
<1>5. \A c : Cli!Start(p, c) => D!Start(p, c)
  BY <1>1, <1>4 DEF Cli!Start, D!Start
<1>6. Cli!LoadState(p) => D!LoadState(p)
  BY <1>1, SameOutcomes DEF Cli!LoadState, D!LoadState
<1>7. Cli!Save(p) => D!Save(p)
  BY <1>1, <1>3, <1>4 DEF Cli!Save, D!Save
<1>8. Cli!SaveFails(p) \/ Cli!Kill(p) => D!SaveFails(p) \/ D!Kill(p)
  BY <1>1 DEF Cli!SaveFails, D!SaveFails, Cli!Kill, D!Kill
<1>9. Cli!Exit(p) => D!Exit(p)
  BY <1>1, <1>4 DEF Cli!Exit, D!Exit, Cli!Later, D!Later
<1>10. \A delivered : Cli!Dispatch(p, delivered) => D!Dispatch(p, delivered)
  BY <1>1, <1>2 DEF Cli!Dispatch, D!Dispatch
<1> QED BY <1>4, <1>5, <1>6, <1>7, <1>8, <1>9, <1>10 DEF Cli!Step, D!Step

-----------------------------------------------------------------------------
(***************************************************************************)
(* The inductive invariant.  Times below, such as offline, are functions   *)
(* of the checks.                                                          *)
(***************************************************************************)

\* No contact in state s is older than the one that t names.
Reached(s, t) == \A n \in Name : s[n].lastPing >= t[n]

\* The two programs, each with what its own proofs need.
PartsOK ==
  /\ TypeOK /\ RequestsRecorded /\ QueuesAccounted
  /\ D!TypeOK /\ D!FewEvents
  /\ offline \in [Name -> 0..clock] /\ served \in [Name -> 0..clock]

ServedOK ==
  /\ ~Up => \A n \in Name : served[n] = 0
  /\ Up => Reached(st, served)

\* A process that is running now will not save what is older than offline, and
\* one that is alone, and apart from the server, has its own contact in the file.
RecordedAlone(p) ==
  /\ \A q \in Proc : D!Running(q) => q = p
  /\ D!Saved(p) /\ run[p].args \in D!Contacts => file[run[p].args.check].lastPing = run[p].now
  /\ D!Loaded(p) /\ run[p].args \in D!Contacts => run[p].st[run[p].args.check].lastPing = run[p].now

OfflineOK ==
  /\ Reached(file, offline)
  /\ Up => Reached(st, offline)
  /\ \A p \in Proc : D!Running(p) => \A n \in Name : run[p].now >= offline[n]
  /\ \A p \in Proc : D!Loaded(p) => Reached(run[p].st, offline)
  /\ Up => apart = {}
  /\ \A p \in Proc : D!Running(p) /\ run[p].alone /\ p \in apart => RecordedAlone(p)

MixedInv == PartsOK /\ ServedOK /\ OfflineOK

-----------------------------------------------------------------------------
(***************************************************************************)
(* The steps.                                                              *)
(***************************************************************************)

\* What the server does to time, to the file and to what it has recorded.
LEMMA ServerStepIs ==
  ASSUME TypeOK, RequestsRecorded, QueuesAccounted, [Next]_vars
  PROVE  /\ clock \in Nat /\ clock' \in Nat /\ clock <= clock'
         /\ file' = file \/ (Up /\ Up' /\ file' = st')
         /\ Up' => \A n \in Name :
              st'[n].lastPing \in {clock, IF Up THEN st[n].lastPing ELSE file[n].lastPing}
         /\ Up' => \A n \in Name : acked'[n] # acked[n] => st'[n].lastPing >= acked'[n]
<1> DEFINE Conclusion ==
      /\ clock \in Nat /\ clock' \in Nat /\ clock <= clock'
      /\ file' = file \/ (Up /\ Up' /\ file' = st')
      /\ Up' => \A n \in Name :
           st'[n].lastPing \in {clock, IF Up THEN st[n].lastPing ELSE file[n].lastPing}
      /\ Up' => \A n \in Name : acked'[n] # acked[n] => st'[n].lastPing >= acked'[n]
<1>1. clock \in Nat /\ st \in [Name -> CheckState] /\ req \in [Handler -> Request \cup {Idle}]
  BY DEF TypeOK
<1>2. CASE Quiet
  BY <1>1, <1>2 DEF Quiet, history
<1>3. CASE Start
  BY <1>1, <1>3 DEF Start, Up, history
<1>4. ASSUME NEW h \in Handler, NEW r \in Requests, Arrive(h, r)
      PROVE  Conclusion
  BY <1>1, <1>4 DEF Arrive, Up, server, history
<1>5. ASSUME NEW h \in Handler, Refuse(h)
      PROVE  Conclusion
  BY <1>1, <1>5 DEF Refuse, Up, server, history
<1>6. ASSUME NEW h \in Handler, NEW ok \in BOOLEAN, Record(h, ok)
      PROVE  Conclusion
  <2>1. /\ Up /\ CheckOf(h) \in Name /\ RecordEntry(h).lastPing = clock
        /\ st' = [st EXCEPT ![CheckOf(h)] = RecordEntry(h)]
        /\ Persist(ok, RecordEvents(h))
        /\ UNCHANGED << clock, main, acked >>
    BY <1>6, RecordIs DEF server
  <2>2. file' = file \/ file' = st'
    BY <2>1 DEF Persist
  <2>3. \A n \in Name : st'[n].lastPing \in {clock, st[n].lastPing}
    BY <1>1, <2>1
  <2> QED BY <1>1, <2>1, <2>2, <2>3 DEF Up
<1>7. ASSUME NEW h \in Handler, Reply(h)
      PROVE  Conclusion
  <2> DEFINE m == req[h].args.check
  <2>1. /\ Busy(h) /\ req[h].at = "dispatch"
        /\ acked' = [acked EXCEPT ![m] = IF req[h].now > acked[m] THEN req[h].now ELSE acked[m]]
        /\ UNCHANGED << clock, file, st, main >>
    BY <1>7 DEF Reply, server
  <2>2. st[m].lastPing >= req[h].now
    BY <2>1 DEF RequestsRecorded, RequestOK
  <2>3. \A n \in Name : acked'[n] # acked[n] => st'[n].lastPing >= acked'[n]
    <3>1. acked \in [Name -> 0..clock]
      BY DEF TypeOK
    <3> HIDE DEF m
    <3> QED BY <2>1, <2>2, <3>1
  <2> QED BY <1>1, <2>1, <2>3 DEF Up
<1>8. ASSUME NEW h \in Handler, NEW fate \in Fates, HandlerDispatch(h, fate)
      PROVE  Conclusion
  BY <1>1, <1>8 DEF HandlerDispatch, Up, server, history
<1>9. ASSUME NEW ok \in BOOLEAN, Swept(ok)
      PROVE  Conclusion
  <2>1. /\ Up /\ main' = "dispatch"
        /\ \A n \in Name : st'[n].lastPing = st[n].lastPing
        /\ Persist(ok, SweepRaises)
        /\ UNCHANGED << clock, acked >>
    BY <1>9, SweepIs, MixedAssumption DEF Swept, Up
  <2>2. file' = file \/ file' = st'
    BY <2>1 DEF Persist
  <2> QED BY <1>1, <2>1, <2>2 DEF Up
<1>10. ASSUME NEW fate \in Fates, MainDispatch(fate)
       PROVE  Conclusion
  BY <1>1, <1>10 DEF MainDispatch, Up, history
<1>11. CASE Up /\ Gone
  BY <1>1, <1>11 DEF Gone, Up
<1> QED BY <1>2, <1>3, <1>4, <1>5, <1>6, <1>7, <1>8, <1>9, <1>10, <1>11, StepIs

\* The server's steps leave the processes what they are.
LEMMA PartsServer ==
  ASSUME PartsOK, ServerMoves
  PROVE  PartsOK'
<1>1. Next /\ UNCHANGED << cliVars, offline >>
  BY DEF ServerMoves
<1>2. TypeOK' /\ RequestsRecorded' /\ QueuesAccounted'
  BY <1>1, TypeStep, RecordedStep, QueuesStep DEF PartsOK
<1>3. clock \in Nat /\ clock' \in Nat /\ clock <= clock' /\ clock' \in 1..MaxClock
  BY <1>1, <1>2, ServerStepIs DEF PartsOK, TypeOK
<1>4. 0..clock \subseteq 0..clock' /\ 1..clock \subseteq 1..clock'
  BY <1>3
<1>5. D!TypeOK'
  <2>1. file' \in [Name -> D!CheckState]
    BY <1>2, SameRecords DEF TypeOK
  <2>2. UNCHANGED << run, runs, cliRaised, sent, cliAcked, solo, updatedAt >>
    BY <1>1 DEF cliVars
  <2>3. /\ runs \in 0..MaxRuns /\ updatedAt \in 0..clock'
        /\ run \in [Proc -> D!Process \cup {NoRun}]
        /\ cliRaised \in [Name -> Seq(D!Alert)] /\ sent \in [Name -> Seq(D!Alert)]
        /\ cliAcked \in [Name -> 0..clock'] /\ solo \in [Name -> 0..clock']
    BY <1>4 DEF PartsOK, D!TypeOK
  <2>4. \A p \in Proc : D!Running(p)' => run'[p].now \in 1..clock'
    BY <1>4, <2>2 DEF PartsOK, D!TypeOK, D!Running
  <2> QED BY <1>3, <2>1, <2>2, <2>3, <2>4 DEF D!TypeOK
<1>6. D!FewEvents'
  BY <1>1 DEF PartsOK, D!FewEvents, D!Running, cliVars
<1>7. offline' \in [Name -> 0..clock'] /\ served' \in [Name -> 0..clock']
  <2>1. offline' \in [Name -> 0..clock']
    BY <1>1, <1>4 DEF PartsOK
  <2>2. acked' \in [Name -> 0..clock']
    BY <1>2 DEF TypeOK
  <2>3. served \in [Name -> 0..clock']
    BY <1>4 DEF PartsOK
  <2>4. 0 \in 0..clock'
    BY <1>3
  <2> QED BY <2>1, <2>2, <2>3, <2>4 DEF ServerMoves, ZeroTime
<1> QED BY <1>2, <1>5, <1>6, <1>7 DEF PartsOK

\* The processes' steps leave the server what it is.
LEMMA PartsCommand ==
  ASSUME PartsOK, NEW p \in Proc, CommandMoves(p)
  PROVE  PartsOK'
<1>1. D!Step(p) /\ UNCHANGED << serveVars, served >>
  BY SameSteps DEF CommandMoves
<1>2. D!TypeOK' /\ D!FewEvents'
  <2>1. [D!Next]_(D!vars)
    BY <1>1 DEF D!Next
  <2> QED BY <2>1, Assumptions, D!TypeStep, D!FewEventsStep DEF PartsOK
<1>3. clock' = clock
  BY <1>1 DEF D!Step, D!Start, D!LoadState, D!Save, D!SaveFails, D!Dispatch, D!Exit, D!Kill
<1>4. TypeOK'
  <2>1. file' \in [Name -> CheckState]
    BY <1>2, SameRecords DEF D!TypeOK
  <2> QED BY <1>1, <1>3, <2>1 DEF PartsOK, TypeOK, serveVars, server, counters, Up, Busy
<1>5. RequestsRecorded'
  BY <1>1, <1>3 DEF PartsOK, RequestsRecorded, RequestOK, Busy, serveVars, server
<1>6. QueuesAccounted'
  BY <1>1 DEF PartsOK, QueuesAccounted, Queues, QueueOf, Busy, serveVars, server
<1>7. offline' \in [Name -> 0..clock'] /\ served' \in [Name -> 0..clock']
  BY <1>1, <1>2, <1>3 DEF CommandMoves, PartsOK, D!TypeOK
<1> QED BY <1>2, <1>4, <1>5, <1>6, <1>7 DEF PartsOK

\* What the server has answered is not taken back while it runs.
LEMMA ServedServer ==
  ASSUME PartsOK, ServedOK, ServerMoves
  PROVE  ServedOK'
<1>1. /\ [Next]_vars
      /\ served' = [n \in Name |->
           IF ~Up' THEN ZeroTime ELSE IF acked'[n] # acked[n] THEN acked'[n] ELSE served[n]]
  BY DEF ServerMoves
<1>2. /\ clock \in Nat
      /\ Up' => \A n \in Name :
           st'[n].lastPing \in {clock, IF Up THEN st[n].lastPing ELSE file[n].lastPing}
      /\ Up' => \A n \in Name : acked'[n] # acked[n] => st'[n].lastPing >= acked'[n]
  BY <1>1, ServerStepIs DEF PartsOK
<1>3. /\ served \in [Name -> 0..clock]
      /\ st \in [Name -> CheckState] /\ file \in [Name -> CheckState]
  BY DEF PartsOK, TypeOK
<1>4. ASSUME NEW n \in Name, Up'
      PROVE  st'[n].lastPing >= served'[n]
  <2>1. CASE acked'[n] # acked[n]
    BY <1>1, <1>2, <1>4, <2>1
  <2>2. CASE acked'[n] = acked[n]
    <3>1. served'[n] = served[n] /\ served[n] \in Nat /\ served[n] <= clock
      BY <1>1, <1>2, <1>3, <1>4, <2>2
    <3>2. CASE Up
      <4>1. st[n].lastPing >= served[n]
        BY <3>2 DEF ServedOK, Reached
      <4> QED BY <1>2, <1>4, <3>1, <3>2, <4>1
    <3>3. CASE ~Up
      <4>1. served[n] = 0 /\ file[n].lastPing \in Nat
        BY <1>3, <3>3 DEF ServedOK, CheckState
      <4> QED BY <1>2, <1>4, <3>1, <3>3, <4>1
    <3> QED BY <3>2, <3>3
  <2> QED BY <2>1, <2>2
<1>5. ~Up' => \A n \in Name : served'[n] = 0
  BY <1>1 DEF ZeroTime
<1> QED BY <1>4, <1>5 DEF ServedOK, Reached

\* The processes do not reach the server's memory.
LEMMA ServedCommand ==
  ASSUME ServedOK, NEW p \in Proc, CommandMoves(p)
  PROVE  ServedOK'
BY DEF CommandMoves, ServedOK, Reached, serveVars, server, Up

\* What a step of p does to the other processes, and to a contact of its own:
\* it starts now, or goes on with the same orders, or leaves.
Others(p) ==
  /\ \A q \in Proc : q # p => (D!Running(q)' <=> D!Running(q))
  /\ \A q \in Proc : q # p /\ D!Running(q) =>
       /\ run'[q].args = run[q].args /\ run'[q].at = run[q].at /\ run'[q].now = run[q].now
       /\ run'[q].st = run[q].st /\ (run'[q].alone => run[q].alone)

GoesOn(p) ==
  /\ D!Running(p) /\ D!Running(p)'
  /\ run'[p].args = run[p].args /\ run'[p].now = run[p].now /\ run'[p].alone = run[p].alone

\* So DaemonlessProofs has it of every step.
LEMMA OthersAre ==
  ASSUME NEW p \in Proc, D!OthersUndisturbed(p)
  PROVE  Others(p)
BY DEF Others, D!OthersUndisturbed, D!Undisturbed

\* A process that has another record goes on, if its orders are the same.
LEMMA GoesOnIs ==
  ASSUME NEW p \in Proc, D!Running(p), D!Continues(p), D!SameOrders(p)
  PROVE  GoesOn(p)
<1>1. D!Running(p)'
  BY Assumptions, D!ContinuesIs
<1> QED BY <1>1 DEF GoesOn, D!SameOrders

\* The kinds of steps of a process, with what the invariant needs of each.
StartsNow(p) ==
  /\ ~D!Running(p) /\ D!Running(p)' /\ run'[p].at = "started" /\ run'[p].now = clock
  /\ run'[p].alone => \A q \in Proc : q # p => ~D!Running(q)
  /\ \A q \in Proc : q # p /\ D!Running(q) => ~run'[q].alone
  /\ UNCHANGED << file, solo >>

Loads(p) ==
  /\ GoesOn(p) /\ run'[p].at = "loaded"
  /\ \A n \in Name : run'[p].st[n].lastPing \in {file[n].lastPing, run[p].now}
  /\ run[p].args \in D!Contacts => run'[p].st[run[p].args.check].lastPing = run[p].now
  /\ UNCHANGED << file, solo >>

Stores(p) ==
  /\ GoesOn(p) /\ D!Loaded(p) /\ run'[p].at = "saved"
  /\ file' = run[p].st /\ solo' = solo

Tells(p) ==
  /\ GoesOn(p) /\ D!Saved(p) /\ run'[p].at = "saved"
  /\ UNCHANGED << file, solo >>

Leaves(p) ==
  /\ D!Running(p) /\ ~D!Running(p)' /\ file' = file
  /\ \/ solo' = solo
     \/ /\ D!Saved(p) /\ run[p].args \in D!Contacts /\ run[p].alone
        /\ \A n \in Name : n # run[p].args.check => solo'[n] = solo[n]
        /\ solo'[run[p].args.check] \in {solo[run[p].args.check], run[p].now}

\* Every step of a process is of one of these kinds, and takes no time.
LEMMA CommandStepIs ==
  ASSUME D!TypeOK, NEW p \in Proc, D!Step(p)
  PROVE  /\ Others(p) /\ clock' = clock
         /\ StartsNow(p) \/ Loads(p) \/ Stores(p) \/ Tells(p) \/ Leaves(p)
<1> USE Assumptions
<1>1. ASSUME NEW c \in D!Commands, D!Start(p, c)
      PROVE  Others(p) /\ clock' = clock /\ StartsNow(p)
  <2>1. /\ ~D!Running(p) /\ D!Continues(p) /\ D!OthersUndisturbed(p)
        /\ run'[p].at = "started" /\ run'[p].now = clock
        /\ run'[p].alone => \A q \in Proc : q # p => ~D!Running(q)
        /\ \A q \in Proc : q # p /\ D!Running(q) => ~run'[q].alone
        /\ UNCHANGED << clock, file, solo >>
    BY <1>1, D!StartIs
  <2>2. D!Running(p)'
    BY <2>1, D!ContinuesIs
  <2> QED BY <2>1, <2>2, OthersAre DEF StartsNow
<1>2. ASSUME D!LoadState(p)
      PROVE  Others(p) /\ clock' = clock /\ Loads(p)
  <2>1. /\ D!Running(p) /\ D!Continues(p) /\ D!SameOrders(p) /\ D!OthersUndisturbed(p)
        /\ run'[p].at = "loaded" /\ run'[p].st = D!Outcome(run[p], file)
        /\ UNCHANGED << clock, file, solo >>
    BY <1>2, D!LoadIs
  <2>2. run[p] \in D!Process /\ run[p].now # 0 /\ file \in [Name -> D!CheckState]
    <3>1. run[p] \in D!Process /\ run[p].now # 0
      BY <2>1, D!RunningIs
    <3> QED BY <3>1 DEF D!TypeOK
  <2>3. /\ \A n \in Name : D!Outcome(run[p], file)[n].lastPing \in {file[n].lastPing, run[p].now}
        /\ run[p].args \in D!Contacts =>
             D!Outcome(run[p], file)[run[p].args.check].lastPing = run[p].now
    BY <2>2, D!OutcomeIs
  <2> QED BY <2>1, <2>3, OthersAre, GoesOnIs DEF Loads
<1>3. ASSUME D!Save(p)
      PROVE  Others(p) /\ clock' = clock /\ Stores(p)
  <2>1. /\ D!Loaded(p) /\ D!Continues(p) /\ D!SameOrders(p) /\ D!OthersUndisturbed(p)
        /\ run'[p].at = "saved" /\ file' = run[p].st
        /\ UNCHANGED << clock, solo >>
    BY <1>3, D!SaveIs
  <2>2. D!Running(p)
    BY <2>1 DEF D!Loaded
  <2> QED BY <2>1, <2>2, OthersAre, GoesOnIs DEF Stores
<1>4. ASSUME NEW delivered \in BOOLEAN, D!Dispatch(p, delivered)
      PROVE  Others(p) /\ clock' = clock /\ Tells(p)
  <2>1. /\ D!Saved(p) /\ D!Continues(p) /\ D!SameOrders(p) /\ D!OthersUndisturbed(p)
        /\ run'[p].at = "saved"
        /\ UNCHANGED << clock, file, solo >>
    BY <1>4, D!DispatchIs
  <2>2. D!Running(p)
    BY <2>1 DEF D!Saved
  <2> QED BY <2>1, <2>2, OthersAre, GoesOnIs DEF Tells
<1>5. ASSUME D!SaveFails(p) \/ D!Exit(p) \/ D!Kill(p)
      PROVE  Others(p) /\ clock' = clock /\ Leaves(p)
  <2>1. /\ D!Running(p) /\ D!Left(p) /\ D!OthersUndisturbed(p)
        /\ UNCHANGED << clock, file >>
    BY <1>5, D!LeavesIs
  <2>2. ~D!Running(p)'
    BY <2>1, D!LeftIs
  <2>3. \/ solo' = solo
        \/ /\ D!Saved(p) /\ run[p].args \in D!Contacts /\ run[p].alone
           /\ \A n \in Name : n # run[p].args.check => solo'[n] = solo[n]
           /\ solo'[run[p].args.check] \in {solo[run[p].args.check], run[p].now}
    <3>1. CASE D!Exit(p)
      BY <3>1, D!ExitIs
    <3>2. CASE D!SaveFails(p) \/ D!Kill(p)
      BY <3>2 DEF D!SaveFails, D!Kill
    <3> QED BY <1>5, <3>1, <3>2
  <2> QED BY <2>1, <2>2, <2>3, OthersAre DEF Leaves
<1> QED BY <1>1, <1>2, <1>3, <1>4, <1>5 DEF D!Step

\* The server writes nothing older than what it has read or recorded.
LEMMA OfflineServer ==
  ASSUME PartsOK, OfflineOK, ServerMoves
  PROVE  OfflineOK'
<1>1. /\ [Next]_vars /\ UNCHANGED << cliVars, offline, run >>
      /\ apart' = IF Up' THEN {} ELSE apart
  BY DEF ServerMoves, cliVars
<1>2. /\ clock \in Nat /\ clock' \in Nat /\ clock <= clock'
      /\ file' = file \/ (Up /\ Up' /\ file' = st')
      /\ Up' => \A n \in Name :
           st'[n].lastPing \in {clock, IF Up THEN st[n].lastPing ELSE file[n].lastPing}
  BY <1>1, ServerStepIs DEF PartsOK
<1>3. /\ \A n \in Name : offline[n] \in Nat /\ offline[n] <= clock
      /\ \A n \in Name : file[n].lastPing >= offline[n]
      /\ Up => \A n \in Name : st[n].lastPing >= offline[n]
  BY <1>2 DEF PartsOK, OfflineOK, Reached
<1>4. Up' => \A n \in Name : st'[n].lastPing >= offline[n]
  BY <1>2, <1>3
<1>5. \A n \in Name : file'[n].lastPing >= offline[n]
  BY <1>2, <1>3, <1>4
<1>6. Reached(file', offline') /\ (Up' => Reached(st', offline'))
  BY <1>1, <1>4, <1>5 DEF Reached
<1>7. /\ \A p \in Proc : D!Running(p)' => \A n \in Name : run'[p].now >= offline'[n]
      /\ \A p \in Proc : D!Loaded(p)' => Reached(run'[p].st, offline')
  BY <1>1 DEF OfflineOK, D!Running, D!Loaded
<1>8. ASSUME NEW p \in Proc, D!Running(p)', run'[p].alone, p \in apart'
      PROVE  RecordedAlone(p)'
  <2>1. ~Up' /\ file' = file /\ p \in apart
    BY <1>1, <1>2, <1>8
  <2>2. RecordedAlone(p)
    BY <1>1, <1>8, <2>1 DEF OfflineOK, D!Running
  <2> QED BY <1>1, <2>1, <2>2 DEF RecordedAlone, D!Running, D!Loaded, D!Saved
<1> QED BY <1>1, <1>6, <1>7, <1>8 DEF OfflineOK

\* A process that is alone and apart goes on with what it has recorded.
LEMMA AloneCommand ==
  ASSUME D!TypeOK, OfflineOK, NEW p \in Proc, CommandMoves(p)
  PROVE  \A q \in Proc : D!Running(q)' /\ run'[q].alone /\ q \in apart' => RecordedAlone(q)'
<1>1. /\ Others(p) /\ clock' = clock
      /\ StartsNow(p) \/ Loads(p) \/ Stores(p) \/ Tells(p) \/ Leaves(p)
  BY SameSteps, CommandStepIs DEF CommandMoves
<1> SUFFICES ASSUME NEW q \in Proc, D!Running(q)', run'[q].alone, q \in apart'
             PROVE  RecordedAlone(q)'
  OBVIOUS
<1>2. CASE StartsNow(p)
  <2>1. q = p
    BY <1>1, <1>2 DEF StartsNow, Others
  <2>2. \A o \in Proc : D!Running(o)' => o = q
    BY <1>1, <1>2, <2>1 DEF StartsNow, Others
  <2> QED BY <1>2, <2>1, <2>2 DEF RecordedAlone, StartsNow, D!Loaded, D!Saved
<1>3. CASE ~StartsNow(p)
  <2>1. D!Running(p)
    BY <1>1, <1>3 DEF Loads, Stores, Tells, Leaves, GoesOn
  <2>2. apart' = apart
    BY <2>1 DEF CommandMoves, Started, Cli!Running, D!Running
  <2>3. RecordedAlone(q)
    <3>1. D!Running(q) /\ run[q].alone
      BY <1>1, <1>3, <2>1 DEF Others, Loads, Stores, Tells, Leaves, GoesOn
    <3> QED BY <2>2, <3>1 DEF OfflineOK
  <2>4. q = p /\ \A o \in Proc : D!Running(o)' => o = q
    BY <1>1, <2>1, <2>3 DEF RecordedAlone, Others
  <2>5. CASE Loads(p)
    BY <2>4, <2>5 DEF RecordedAlone, Loads, GoesOn, D!Loaded, D!Saved
  <2>6. CASE Stores(p)
    BY <2>3, <2>4, <2>6 DEF RecordedAlone, Stores, GoesOn, D!Loaded, D!Saved
  <2>7. CASE Tells(p)
    BY <2>3, <2>4, <2>7 DEF RecordedAlone, Tells, GoesOn, D!Loaded, D!Saved
  <2>8. CASE Leaves(p)
    BY <2>4, <2>8 DEF Leaves
  <2> QED BY <1>1, <1>3, <2>5, <2>6, <2>7, <2>8
<1> QED BY <1>2, <1>3

\* A process that counts leaves with its contact in the file, and nobody else runs
\* who could save an older one.
LEMMA OfflineCommand ==
  ASSUME PartsOK, OfflineOK, NEW p \in Proc, CommandMoves(p)
  PROVE  OfflineOK'
<1>1. /\ Others(p) /\ clock' = clock
      /\ StartsNow(p) \/ Loads(p) \/ Stores(p) \/ Tells(p) \/ Leaves(p)
  BY SameSteps, CommandStepIs DEF CommandMoves, PartsOK
<1>2. /\ st' = st /\ (Up' <=> Up)
      /\ offline' = [n \in Name |-> IF p \in apart /\ solo'[n] # solo[n] THEN solo'[n] ELSE offline[n]]
      /\ offline \in [Name -> 0..clock]
  BY DEF CommandMoves, serveVars, server, Up, PartsOK
<1>3. /\ Reached(file, offline) /\ (Up => Reached(st, offline))
      /\ \A q \in Proc : D!Running(q) => \A n \in Name : run[q].now >= offline[n]
      /\ \A q \in Proc : D!Loaded(q) => Reached(run[q].st, offline)
      /\ Up => apart = {}
  BY DEF OfflineOK
<1>4. Up' => apart' = {}
  BY <1>2, <1>3 DEF CommandMoves
<1>5. \A q \in Proc : D!Running(q)' /\ run'[q].alone /\ q \in apart' => RecordedAlone(q)'
  BY AloneCommand DEF PartsOK
<1>6. ASSUME offline' = offline, Reached(file', offline),
             D!Running(p)' => \A n \in Name : run'[p].now >= offline[n],
             D!Loaded(p)' => Reached(run'[p].st, offline)
      PROVE  OfflineOK'
  <2>1. Reached(file', offline') /\ (Up' => Reached(st', offline'))
    BY <1>2, <1>3, <1>6
  <2>2. \A q \in Proc : D!Running(q)' => \A n \in Name : run'[q].now >= offline'[n]
    BY <1>1, <1>3, <1>6 DEF Others
  <2>3. \A q \in Proc : D!Loaded(q)' => Reached(run'[q].st, offline')
    BY <1>1, <1>3, <1>6 DEF Others, D!Loaded
  <2> QED BY <1>4, <1>5, <2>1, <2>2, <2>3 DEF OfflineOK
<1>7. ASSUME solo' = solo
      PROVE  offline' = offline
  BY <1>2, <1>7
<1>8. CASE StartsNow(p)
  <2>1. \A n \in Name : clock >= offline[n]
    BY <1>2
  <2> QED BY <1>3, <1>6, <1>7, <1>8, <2>1 DEF StartsNow, D!Loaded
<1>9. CASE Loads(p)
  <2>1. \A n \in Name : run[p].now >= offline[n]
    BY <1>3, <1>9 DEF Loads, GoesOn
  <2>2. Reached(run'[p].st, offline)
    BY <1>3, <1>9, <2>1 DEF Loads, Reached
  <2> QED BY <1>3, <1>6, <1>7, <1>9, <2>1, <2>2 DEF Loads, GoesOn
<1>10. CASE Stores(p)
  <2>1. Reached(file', offline) /\ \A n \in Name : run'[p].now >= offline[n]
    BY <1>3, <1>10 DEF Stores, GoesOn
  <2> QED BY <1>6, <1>7, <1>10, <2>1 DEF Stores, D!Loaded
<1>11. CASE Tells(p)
  <2>1. Reached(file', offline) /\ \A n \in Name : run'[p].now >= offline[n]
    BY <1>3, <1>11 DEF Tells, GoesOn
  <2> QED BY <1>6, <1>7, <1>11, <2>1 DEF Tells, D!Loaded
<1>12. CASE Leaves(p) /\ offline' = offline
  BY <1>3, <1>6, <1>12 DEF Leaves, D!Loaded
<1>13. CASE Leaves(p) /\ offline' # offline
  <2> DEFINE m == run[p].args.check
  <2>1. /\ p \in apart /\ D!Saved(p) /\ D!Running(p) /\ run[p].args \in D!Contacts /\ run[p].alone
        /\ file' = file /\ ~D!Running(p)'
        /\ \A n \in Name : n # m => solo'[n] = solo[n]
        /\ solo'[m] \in {solo[m], run[p].now}
    BY <1>2, <1>7, <1>13 DEF Leaves
  <2>2. RecordedAlone(p)
    BY <2>1 DEF OfflineOK
  <2>3. \A q \in Proc : ~D!Running(q)'
    BY <1>1, <2>1, <2>2 DEF RecordedAlone, Others
  <2>4. file[m].lastPing = run[p].now
    BY <2>1, <2>2 DEF RecordedAlone
  <2>5. ~Up /\ run[p].now \in Nat
    <3>1. run[p].now \in Nat
      BY <2>1, Assumptions, D!RunningIs DEF PartsOK
    <3> QED BY <1>3, <2>1, <3>1
  <2> HIDE DEF m
  <2>6. Reached(file', offline')
    <3> SUFFICES ASSUME NEW n \in Name
                 PROVE  file'[n].lastPing >= offline'[n]
      BY DEF Reached
    <3>1. CASE offline'[n] = offline[n]
      BY <1>3, <2>1, <3>1 DEF Reached
    <3>2. CASE offline'[n] # offline[n]
      <4>1. offline'[n] = solo'[n] /\ solo'[n] # solo[n]
        BY <1>2, <3>2
      <4>2. n = m /\ offline'[n] = run[p].now
        BY <2>1, <4>1
      <4> QED BY <2>1, <2>4, <2>5, <4>2
    <3> QED BY <3>1, <3>2
  <2> QED BY <1>2, <1>4, <1>5, <2>3, <2>5, <2>6 DEF OfflineOK, D!Loaded
<1> QED BY <1>1, <1>8, <1>9, <1>10, <1>11, <1>12, <1>13

-----------------------------------------------------------------------------
(***************************************************************************)
(* The theorems.                                                           *)
(***************************************************************************)

\* At first nothing runs and nothing is recorded.
LEMMA MixedInitIs ==
  ASSUME MixedInit
  PROVE  MixedInv
<1>1. /\ Init /\ Cli!Init /\ apart = {}
      /\ offline = [n \in Name |-> 0] /\ served = [n \in Name |-> 0]
  BY DEF MixedInit, ZeroTime
<1>2. TypeOK /\ RequestsRecorded /\ QueuesAccounted
  BY <1>1, InvInit DEF IInv
<1>3. D!Init
  BY <1>1, SameRecords DEF Cli!Init, D!Init
<1>4. D!TypeOK /\ D!FewEvents
  BY <1>3, Assumptions, D!InitIs DEF D!IInv
<1>5. clock \in Nat /\ file = NoChecks
  BY <1>1, <1>2 DEF TypeOK, Init
<1>6. ~Up /\ \A q \in Proc : ~D!Running(q)
  BY <1>1, <1>3 DEF Init, Up, D!Init, D!Running
<1>7. PartsOK
  BY <1>1, <1>2, <1>4, <1>5 DEF PartsOK
<1>8. ServedOK
  BY <1>1, <1>6 DEF ServedOK
<1>9. Reached(file, offline)
  BY <1>1, <1>5 DEF Reached, NoChecks, Fresh, ZeroTime
<1>10. OfflineOK
  BY <1>1, <1>6, <1>9 DEF OfflineOK, D!Loaded
<1> QED BY <1>7, <1>8, <1>10 DEF MixedInv

\* A step in which nothing happens.
LEMMA MixedIdle ==
  ASSUME MixedInv, UNCHANGED mixedVars
  PROVE  MixedInv'
<1>1. UNCHANGED vars /\ UNCHANGED << cliVars, apart, offline, served >>
  BY DEF mixedVars
<1>2. TypeOK' /\ RequestsRecorded' /\ QueuesAccounted'
  BY <1>1, TypeStep, RecordedStep, QueuesStep DEF MixedInv, PartsOK
<1>3. UNCHANGED << clock, file, st, main, run, runs, cliRaised, sent, cliAcked, solo, updatedAt >>
  BY <1>1 DEF vars, server, cliVars
<1>4. UNCHANGED D!vars
  BY <1>3 DEF D!vars
<1>5. D!TypeOK' /\ D!FewEvents'
  BY <1>4, Assumptions, D!TypeStep, D!FewEventsStep DEF MixedInv, PartsOK
<1>6. PartsOK'
  BY <1>1, <1>2, <1>3, <1>5 DEF MixedInv, PartsOK
<1>7. ServedOK'
  BY <1>1, <1>3 DEF MixedInv, ServedOK, Reached, Up
<1>8. OfflineOK'
  BY <1>1, <1>3 DEF MixedInv, OfflineOK, Reached, Up, RecordedAlone, D!Running, D!Loaded, D!Saved
<1> QED BY <1>6, <1>7, <1>8 DEF MixedInv

\* The invariant, for any number of processes beside the server and any restarts.
THEOREM MixedInvariant == MixedSpec => []MixedInv
<1>1. MixedInit => MixedInv
  BY MixedInitIs
<1>2. MixedInv /\ [MixedNext]_mixedVars => MixedInv'
  <2> SUFFICES ASSUME MixedInv, [MixedNext]_mixedVars
               PROVE  MixedInv'
    OBVIOUS
  <2>1. PartsOK /\ ServedOK /\ OfflineOK
    BY DEF MixedInv
  <2>2. CASE ServerMoves
    BY <2>1, <2>2, PartsServer, ServedServer, OfflineServer DEF MixedInv
  <2>3. ASSUME NEW p \in Proc, CommandMoves(p)
        PROVE  MixedInv'
    BY <2>1, <2>3, PartsCommand, ServedCommand, OfflineCommand DEF MixedInv
  <2>4. CASE UNCHANGED mixedVars
    BY <2>4, MixedIdle
  <2> QED BY <2>2, <2>3, <2>4 DEF MixedNext
<1> QED BY <1>1, <1>2, PTL DEF MixedSpec

\* Switching from processes to the server is safe: what a process recorded while
\* there was no server stays in the file and in every server started later,
\* whichever processes die after it.
THEOREM OfflineContactsAlwaysKept == MixedSpec => []OfflineContactsKept
<1>1. MixedInv => OfflineContactsKept
  BY DEF MixedInv, OfflineOK, Reached, OfflineContactsKept
<1> QED BY <1>1, MixedInvariant, PTL

\* What a running server has answered stays in its memory, whatever processes
\* write to the file beside it.
THEOREM ServedContactsAlwaysKept == MixedSpec => []ServedContactsKept
<1>1. MixedInv => ServedContactsKept
  BY DEF MixedInv, ServedOK, Reached, ServedContactsKept
<1> QED BY <1>1, MixedInvariant, PTL
=============================================================================
