------------------------------ MODULE MCMonitor ------------------------------
(***************************************************************************)
(* Monitor for TLC: two checks with different schedules, three             *)
(* configurations (both checks; the second removed; the first's interval   *)
(* lengthened and the order swapped), a note at the limit and one past it. *)
(***************************************************************************)
EXTENDS Monitor, TLC

CONSTANTS a, b      \* model values: the check names

MCName == {a, b}

Grace == [n \in MCName |-> 1]

MCConfigs ==
  { [checks |-> << a, b >>, interval |-> (a :> 1 @@ b :> 3), grace |-> Grace],
    [checks |-> << a >>,    interval |-> (a :> 1 @@ b :> 3), grace |-> Grace],
    [checks |-> << b, a >>, interval |-> (a :> 3 @@ b :> 3), grace |-> Grace] }

MCInstants == {1, 3, 6}
=============================================================================
