---------------------------- MODULE MCDaemonless ----------------------------
(***************************************************************************)
(* Daemonless for TLC: intervals and graces of one unit, so that a check   *)
(* is late two units after its last contact and down after three.          *)
(***************************************************************************)
EXTENDS Daemonless, TLC

CONSTANTS a, p, q, r      \* model values: a check and processes

MCName == {a}
TwoProcs == {p, q}
ThreeProcs == {p, q, r}

MCCfg == [checks   |-> << a >>,
          interval |-> [n \in MCName |-> 1],
          grace    |-> [n \in MCName |-> 1]]

Symmetry == Permutations(Proc)

\* The two cron lines of examples/crontab.example, one job that pings and one
\* sweep: no two processes that report a contact run at the same time, and no
\* two that sweep.
Reports(o) == Running(o) /\ run[o].args \in Contacts

OneEach ==
  \A o1, o2 \in Proc :
    o1 # o2 /\ Running(o1) /\ Running(o2) => Reports(o1) # Reports(o2)

CronSpec == Init /\ [][Next /\ OneEach']_vars
=============================================================================
