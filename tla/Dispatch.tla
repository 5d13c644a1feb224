------------------------------ MODULE Dispatch ------------------------------
(***************************************************************************)
(* The delivery of one event: which channels get it, one after the other,  *)
(* and how long each may take.  A webhook is one request under the         *)
(* channel's timeout.  A command is one child process, killed when the     *)
(* timeout expires; but cmd.Run also waits until nobody holds the child's  *)
(* stderr any more, and no timeout covers that: a process that the child   *)
(* has left behind keeps it open as long as it likes.                      *)
(*                                                                         *)
(* Receivers, commands and their offspring are external: they answer when  *)
(* they like, or never.  Timers are on time: the clock does not pass a     *)
(* deadline before what waits for it has been served.                      *)
(***************************************************************************)
EXTENDS ConfigFile, Selection

CONSTANTS
  NoConfig,     \* no configuration has been loaded yet
  NoEvent,      \* Dispatch has not been called yet
  NoDelivery,   \* no delivery is in progress
  MaxClock      \* bound on the clock

ASSUME DispatchAssumption == MaxClock \in Nat

VARIABLES
  cfg,
  ev,       \* the event: a check and a type
  clock,    \* time since Dispatch was called
  todo,     \* channels the loop has yet to look at
  cur,      \* the delivery in progress, or NoDelivery
  errs,     \* the channels an error is returned for
  tried,    \* history: the channels a delivery was begun for
  lingered  \* history: a command has left a process behind

callVars == << ev, clock, todo, cur, errs, tried, lingered >>

Delivering == cur # NoDelivery
Done == ~Delivering /\ todo = << >>

Listed(c, names) == Keep(c.alerts, {al \in ToSet(c.alerts) : al.name \in ToSet(names)})

\* mutant: a check without a list of alerts has none
AlertsForBug(c, chk) == Listed(c, chk.alerts)

\* Config.AlertsFor
AlertsFor(c, chk) == IF chk.alerts = << >> THEN c.alerts ELSE Listed(c, chk.alerts)

\* A check that is not configured has no list either.
CheckByName(c, name) ==
  IF name \in Names(c.checks)
    THEN c.checks[CHOOSE i \in DOMAIN c.checks : c.checks[i].name = name]
    ELSE [alerts |-> << >>]

WantsEvent(al) == Contains(al.events, ev.type)

Uncalled ==
  /\ ev = NoEvent /\ clock = 0 /\ todo = << >> /\ cur = NoDelivery
  /\ errs = {} /\ tried = << >> /\ lingered = FALSE

\* Dispatch is called, when the call before has returned.
Call(e) ==
  /\ Done
  /\ ev' = e
  /\ clock' = 0
  /\ todo' = AlertsFor(cfg, CheckByName(cfg, e.check))
  /\ errs' = {} /\ tried' = << >> /\ lingered' = FALSE
  /\ UNCHANGED << cfg, cur >>

Deadline == cur.since + cur.al.timeout

\* The context of the delivery is watched until the response or the exit.
Watched == Delivering /\ cur.at = "running"

\* Time passes while the program waits for others, not while it can go on.
Tick ==
  /\ clock < MaxClock
  /\ \/ Watched /\ clock < Deadline
     \/ Delivering /\ cur.at = "exited" /\ cur.held
  /\ clock' = clock + 1
  /\ UNCHANGED << cfg, ev, todo, cur, errs, tried, lingered >>

Skip ==
  /\ ~Delivering /\ todo # << >>
  /\ ~WantsEvent(Head(todo))
  /\ todo' = Tail(todo)
  /\ UNCHANGED << cfg, ev, clock, cur, errs, tried, lingered >>

Deliver ==
  /\ ~Delivering /\ todo # << >>
  /\ WantsEvent(Head(todo))
  /\ todo' = Tail(todo)
  /\ cur' = [al |-> Head(todo), since |-> clock, at |-> "running", held |-> FALSE, ok |-> FALSE]
  /\ tried' = Append(tried, Head(todo).name)
  /\ UNCHANGED << cfg, ev, clock, errs, lingered >>

\* mutant: the loop ends with the first error
ReturnBug(ok) ==
  /\ cur' = NoDelivery
  /\ errs' = IF ok THEN errs ELSE errs \cup {cur.al.name}
  /\ todo' = IF ok THEN todo ELSE << >>
  /\ UNCHANGED << cfg, ev, clock, tried, lingered >>

Return(ok) ==
  /\ cur' = NoDelivery
  /\ errs' = IF ok THEN errs ELSE errs \cup {cur.al.name}
  /\ UNCHANGED << cfg, ev, clock, todo, tried, lingered >>

-----------------------------------------------------------------------------
\* deliver looks at the url first.
Webhook == Watched /\ cur.al.url # ""
Command == Watched /\ cur.al.url = ""

\* A response (2xx or not), or an error of the connection.
Answer(ok) == Webhook /\ Return(ok)

\* mutant: the request is made without the context
AnswerTooLateBug == FALSE

AnswerTooLate == Webhook /\ clock = Deadline /\ Return(FALSE)

StartFails == Command /\ ~cur.held /\ clock = cur.since /\ Return(FALSE)

\* The child and what it has left behind, if it is gone.
Child(now) ==
  /\ cur' = now
  /\ lingered' = (lingered \/ (now.at = "exited" /\ now.held))
  /\ UNCHANGED << cfg, ev, clock, todo, errs, tried >>

Forks == Command /\ ~cur.held /\ Child([cur EXCEPT !.held = TRUE])

ChildExits(ok) == Command /\ Child([cur EXCEPT !.at = "exited", !.ok = ok])

\* mutant: the child is left alone when the timeout expires
KilledBug == Command /\ clock = Deadline /\ Child([cur EXCEPT !.since = clock])

Killed == Command /\ clock = Deadline /\ Child([cur EXCEPT !.at = "exited", !.ok = FALSE])

OffspringEnds == Delivering /\ cur.held /\ Child([cur EXCEPT !.held = FALSE])

\* cmd.Run returns: the child is gone and its stderr has come to an end.
RunReturns == Delivering /\ cur.at = "exited" /\ ~cur.held /\ Return(cur.ok)

-----------------------------------------------------------------------------
Own == Skip \/ Deliver \/ AnswerTooLate \/ Killed \/ RunReturns

Others ==
  \/ \E ok \in BOOLEAN : Answer(ok) \/ ChildExits(ok)
  \/ StartFails \/ Forks \/ OffspringEnds

Delivery == Tick \/ Own \/ Others

-----------------------------------------------------------------------------
(***************************************************************************)
(* Properties.                                                             *)
(***************************************************************************)

\* The channels that ought to hear of the event: those that subscribe to it,
\* and among them those the check names, if it is configured and names any.
Subscribed ==
  {al \in Names(cfg.alerts) :
     /\ \E i \in DOMAIN cfg.alerts : cfg.alerts[i].name = al /\ WantsEvent(cfg.alerts[i])
     /\ \A i \in DOMAIN cfg.checks :
          cfg.checks[i].name = ev.check /\ cfg.checks[i].alerts # << >> =>
            al \in ToSet(cfg.checks[i].alerts)}

\* Whatever fails or times out, in the end each of them has been tried exactly
\* once and no other has; an error is returned only for one of them.
EachTriedOnce ==
  ev # NoEvent =>
    /\ Cardinality(ToSet(tried)) = Len(tried)
    /\ ToSet(tried) \subseteq Subscribed
    /\ Done => ToSet(tried) = Subscribed
    /\ errs \subseteq ToSet(tried)

\* Timeouts of the named channels among the first ones, together.
TimeoutSums(alerts, names) ==
  LET sum[i \in 0..Len(alerts)] ==
        IF i = 0 THEN 0
        ELSE sum[i - 1] + IF alerts[i].name \in names THEN alerts[i].timeout ELSE 0
  IN  sum

Timeouts(alerts, names) == TimeoutSums(alerts, names)[Len(alerts)]

\* alert.go: delivery is "bounded by per-alert timeouts": Dispatch takes no
\* longer than the timeouts of the channels it has tried together.
BoundedByTimeouts == ev # NoEvent => clock <= Timeouts(cfg.alerts, ToSet(tried))

\* So it is when no command leaves a process behind, whatever the receivers do
\* and whichever of them time out.
BoundedIfNoneLingers == ~lingered => BoundedByTimeouts
=============================================================================
