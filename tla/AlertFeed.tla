------------------------------ MODULE AlertFeed ------------------------------
(***************************************************************************)
(* What lastbeat promises the receivers of its alerts, with nothing about  *)
(* time, schedules or counters: for each check an outage is opened by down *)
(* or failed, may be reported failed again, and is closed by recovered;    *)
(* late warnings come only outside an outage; a check that leaves the      *)
(* configuration starts a new feed.  One step may move several checks, as  *)
(* a sweep does.  Monitor implements this specification.                   *)
(***************************************************************************)
EXTENDS Sequences

CONSTANT Name

VARIABLES
  out,     \* out[n]: an outage of check n is open
  feed     \* feed[n]: the alert types raised for check n so far

vars == << out, feed >>

Init ==
  /\ out = [n \in Name |-> FALSE]
  /\ feed = [n \in Name |-> << >>]

Raise(n, type) == feed'[n] = Append(feed[n], type)

Warn(n) == ~out[n] /\ ~out'[n] /\ Raise(n, "late")

Open(n) == ~out[n] /\ out'[n] /\ (Raise(n, "down") \/ Raise(n, "failed"))

FailAgain(n) == out[n] /\ out'[n] /\ Raise(n, "failed")

Close(n) == out[n] /\ ~out'[n] /\ Raise(n, "recovered")

Forget(n) == ~out'[n] /\ feed'[n] = << >>

Same(n) == out'[n] = out[n] /\ feed'[n] = feed[n]

Step(n) ==
  Warn(n) \/ Open(n) \/ FailAgain(n) \/ Close(n) \/ Forget(n) \/ Same(n)

Next ==
  /\ out' \in [Name -> BOOLEAN]
  /\ feed' = [n \in Name |-> feed'[n]]
  /\ \A n \in Name : Step(n)

Spec == Init /\ [][Next]_vars
=============================================================================
