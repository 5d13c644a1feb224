-------------------------- MODULE MonitorOpsProofs --------------------------
(***************************************************************************)
(* What the operators of MonitorOps return, for every configuration,       *)
(* state, note and instant: well-formed entries and events, and of one     *)
(* call at most one event per check.  Every proof about a component that   *)
(* runs the monitor rests on these.                                        *)
(***************************************************************************)
EXTENDS MonitorOps, SelectionProofs

\* What is configured are names of checks.
LEMMA ConfiguredNames ==
  ASSUME NEW config \in Config
  PROVE  Configured(config) \subseteq Name
<1>1. config.checks \in Seq(Name)
  BY DEF Config
<1> QED BY <1>1, ElementOfSeq, LenProperties DEF Configured, Elements

\* The state functions of the three calls keep an entry well formed: the note
\* is clipped to maxNote whatever its length, instants and counters stay
\* natural numbers.
LEMMA CheckTypes ==
  ASSUME NEW cs \in CheckState, NEW n \in Name, NEW note \in Nat, NEW now \in Nat,
         NEW config \in Config
  PROVE  /\ PingCheck(cs, note, now) \in CheckState
         /\ FailCheck(cs, note, now) \in CheckState
         /\ SweepCheck(config, n, cs, now) \in CheckState
         /\ Fresh \in CheckState
<1>1. ClipNote(note) \in 0..MaxNote
  BY MaxNoteAssumption DEF ClipNote
<1>2. PingCheck(cs, note, now) \in CheckState
  BY <1>1 DEF PingCheck, CheckState, Statuses, EventTypes
<1>3. FailCheck(cs, note, now) \in CheckState
  BY <1>1 DEF FailCheck, CheckState, Statuses, EventTypes
<1>4. SweepCheck(config, n, cs, now) \in CheckState
  BY DEF SweepCheck, SweptTo, CheckState, Statuses, EventTypes
<1>5. Fresh \in CheckState
  BY MaxNoteAssumption DEF Fresh, CheckState, Statuses, EventTypes, ZeroTime
<1> QED BY <1>2, <1>3, <1>4, <1>5

\* A sweep of all entries, the pruned ones included.
LEMMA SweepTypes ==
  ASSUME NEW config \in Config, NEW states \in [Name -> CheckState], NEW now \in Nat
  PROVE  Sweep(config, states, now) \in [Name -> CheckState]
<1>1. \A n \in Name : SweepCheck(config, n, states[n], now) \in CheckState
  BY CheckTypes, 0 \in Nat
<1>2. Fresh \in CheckState
  BY MaxNoteAssumption DEF Fresh, CheckState, Statuses, EventTypes, ZeroTime
<1> QED BY <1>1, <1>2 DEF Sweep

-----------------------------------------------------------------------------
(***************************************************************************)
(* Events.                                                                 *)
(***************************************************************************)
\* No call has two events of the same check.
OnePerCheck(evs) ==
  /\ evs \in Seq(Event)
  /\ \A i, j \in DOMAIN evs : evs[i].check = evs[j].check => i = j

EventsOf(n, evs) == Keep(evs, {e \in Elements(evs) : e.check = n})

\* So the events of a check, picked from those of the call, are none or one.
LEMMA EventsOfOne ==
  ASSUME NEW evs, OnePerCheck(evs), NEW n
  PROVE  /\ (\A i \in DOMAIN evs : evs[i].check # n) => EventsOf(n, evs) = << >>
         /\ \A i \in DOMAIN evs : evs[i].check = n => EventsOf(n, evs) = << evs[i] >>
<1> DEFINE S == {e \in Elements(evs) : e.check = n}
<1>1. evs \in Seq(Event) /\ DOMAIN evs = 1..Len(evs)
  BY LenProperties DEF OnePerCheck
<1>2. \A i \in DOMAIN evs : evs[i] \in S <=> evs[i].check = n
  BY DEF Elements
<1> HIDE DEF S
<1>3. ASSUME \A i \in DOMAIN evs : evs[i].check # n
      PROVE  Keep(evs, S) = << >>
  BY <1>1, <1>2, <1>3, KeepNone
<1>4. ASSUME NEW i \in DOMAIN evs, evs[i].check = n
      PROVE  Keep(evs, S) = << evs[i] >>
  <2>1. \A j, k \in 1..Len(evs) : evs[j] = evs[k] => j = k
    BY <1>1 DEF OnePerCheck
  <2>2. \A j \in 1..Len(evs) : evs[j] \in S => j = i
    BY <1>1, <1>2, <1>4 DEF OnePerCheck
  <2> QED BY <1>1, <1>2, <1>4, <2>1, <2>2, KeepOne
<1> QED BY <1>3, <1>4 DEF EventsOf, S

\* The event of an overdue check.
LEMMA SweepEventType ==
  ASSUME NEW config \in Config, NEW n \in Name, NEW cs \in CheckState, NEW now \in Nat,
         Fires(config, n, cs, now)
  PROVE  SweepEvent(config, n, cs, now) \in Event
<1>1. config.interval[n] \in Nat /\ config.grace[n] \in Nat
  BY DEF Config
<1>2. Deadline(config, n, cs) \in Nat /\ now > Deadline(config, n, cs)
  BY <1>1 DEF Fires, GoesDown, GoesLate, GraceEnd, Deadline, CheckState
<1>3. now - Deadline(config, n, cs) \in Nat
  BY <1>2
<1>4. SweptTo(config, n, cs, now) \in {"down", "late"}
  BY DEF SweptTo
<1>5. 0 \in 0..MaxNote
  BY MaxNoteAssumption
<1>6. cs.status \in Statuses /\ cs.lastPing \in Nat
  BY DEF CheckState
<1> QED BY <1>3, <1>4, <1>5, <1>6 DEF SweepEvent, Event, EventTypes, Statuses

\* A sweep has one event for each configured check that is overdue, and no
\* other: whatever the order and the number of the checks, none is told of
\* twice and none is passed over.
LEMMA SweepEventsAre ==
  ASSUME NEW config \in Config, NEW states \in [Name -> CheckState], NEW now \in Nat
  PROVE  LET evs == SweepEvents(config, states, now) IN
         /\ OnePerCheck(evs)
         /\ \A n \in Name :
              EventsOf(n, evs) =
                IF n \in Configured(config) /\ Fires(config, n, states[n], now)
                  THEN << SweepEvent(config, n, states[n], now) >> ELSE << >>
<1> DEFINE evs == SweepEvents(config, states, now)
           F == {n \in Configured(config) : Fires(config, n, states[n], now)}
           c == config.checks
           firing == Keep(c, F)
<1>1. c \in Seq(Name) /\ Len(c) \in Nat /\ DOMAIN c = 1..Len(c)
  BY LenProperties DEF Config
<1>2. \A i, j \in 1..Len(c) : c[i] = c[j] => i = j
  BY <1>1 DEF Config
<1>3. firing \in Seq(Name) /\ Selects(firing, c, F, Len(c))
  BY <1>1, KeepSelects
<1>4. DOMAIN firing = 1..Len(firing) /\ Len(firing) \in Nat
  BY <1>3, LenProperties
<1>5. evs = [i \in DOMAIN firing |-> SweepEvent(config, firing[i], states[firing[i]], now)]
  BY DEF SweepEvents
<1>6. Configured(config) \subseteq Name
  BY <1>1, ElementOfSeq DEF Configured, Elements
<1> HIDE DEF evs, firing
<1>7. \A i \in DOMAIN firing : firing[i] \in F
  BY <1>3 DEF Selects
<1>8. \A n \in F : \E i \in DOMAIN firing : firing[i] = n
  <2>1. \A n \in F : \E j \in 1..Len(c) : c[j] = n
    BY <1>1 DEF Configured, Elements
  <2> HIDE DEF F
  <2> QED BY <1>3, <2>1 DEF Selects
<1>9. \A n \in F : SweepEvent(config, n, states[n], now) \in Event
  BY <1>6, SweepEventType
<1>10. \A n \in F : SweepEvent(config, n, states[n], now).check = n
  BY DEF SweepEvent
<1>11. \A i \in DOMAIN firing : evs[i] \in Event /\ evs[i].check = firing[i]
  <2> HIDE DEF F
  <2> QED BY <1>5, <1>7, <1>9, <1>10
<1>12. evs \in Seq(Event) /\ DOMAIN evs = DOMAIN firing
  BY <1>4, <1>5, <1>11
<1>13. OnePerCheck(evs)
  <2>1. \A i, j \in DOMAIN firing : firing[i] = firing[j] => i = j
    BY <1>2, <1>3 DEF Selects
  <2> QED BY <1>11, <1>12, <2>1 DEF OnePerCheck
<1>14. ASSUME NEW n \in Name
       PROVE  EventsOf(n, evs) = IF n \in F THEN << SweepEvent(config, n, states[n], now) >>
                                 ELSE << >>
  <2>1. CASE n \in F
    <3>1. PICK i \in DOMAIN firing : firing[i] = n
      BY <1>8, <2>1
    <3>2. i \in DOMAIN evs /\ evs[i].check = n /\ evs[i] = SweepEvent(config, n, states[n], now)
      BY <1>5, <1>11, <1>12, <3>1
    <3> HIDE DEF F
    <3> QED BY <1>13, <2>1, <3>2, EventsOfOne
  <2>2. CASE n \notin F
    <3>1. \A i \in DOMAIN evs : evs[i].check # n
      BY <1>7, <1>11, <1>12, <2>2
    <3> HIDE DEF F
    <3> QED BY <1>13, <2>2, <3>1, EventsOfOne
  <2> QED BY <2>1, <2>2
<1> QED BY <1>13, <1>14 DEF evs

\* A contact has at most one event, about its check.
LEMMA ContactEventsAre ==
  ASSUME NEW m \in Name, NEW cs \in CheckState, NEW note \in Nat, NEW now \in Nat,
         NEW evs \in {PingEvents(m, cs, note, now), FailEvents(m, cs, note, now)}
  PROVE  /\ OnePerCheck(evs)
         /\ \A n \in Name : EventsOf(n, evs) = IF n = m THEN evs ELSE << >>
<1>1. ClipNote(note) \in 0..MaxNote /\ cs.status \in Statuses
  BY MaxNoteAssumption DEF ClipNote, CheckState
<1>2. evs = << >> \/ \E e \in Event : evs = << e >> /\ e.check = m
  <2>1. CASE evs = PingEvents(m, cs, note, now)
    BY <1>1, <2>1 DEF PingEvents, Event, EventTypes, Statuses
  <2>2. CASE evs = FailEvents(m, cs, note, now)
    BY <1>1, <2>2 DEF FailEvents, Event, EventTypes, Statuses
  <2> QED BY <2>1, <2>2
<1>3. CASE evs = << >>
  <2>1. OnePerCheck(evs) /\ DOMAIN evs = {}
    BY <1>3, EmptySeq DEF OnePerCheck
  <2> QED BY <1>3, <2>1, EventsOfOne
<1>4. CASE \E e \in Event : evs = << e >> /\ e.check = m
  <2>1. PICK e \in Event : evs = << e >> /\ e.check = m
    BY <1>4
  <2>2. evs \in Seq(Event) /\ DOMAIN evs = {1} /\ evs[1] = e
    BY <2>1
  <2>3. OnePerCheck(evs)
    BY <2>2 DEF OnePerCheck
  <2>4. EventsOf(m, evs) = << evs[1] >>
    BY <2>1, <2>2, <2>3, EventsOfOne
  <2>5. \A n \in Name : n # m => EventsOf(n, evs) = << >>
    BY <2>1, <2>2, <2>3, EventsOfOne
  <2> QED BY <2>1, <2>2, <2>3, <2>4, <2>5
<1> QED BY <1>2, <1>3, <1>4
=============================================================================
