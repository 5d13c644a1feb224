------------------------------ MODULE MCServe ------------------------------
(***************************************************************************)
(* Serve for TLC: one configured check (late two instants after its last   *)
(* contact, down after three), one name that is not configured, a sweep    *)
(* every instant.                                                          *)
(***************************************************************************)
EXTENDS Serve, TLC

CONSTANTS a, z, h, i      \* model values: names and handlers

OneName  == {a}
TwoNames == {a, z}
MCHandler == {h, i}

MCCfg == [checks |-> << a >>,
          interval |-> [n \in Name |-> 1], grace |-> [n \in Name |-> 1]]

Symmetry == Permutations(Handler)
=============================================================================
