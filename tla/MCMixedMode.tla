---------------------------- MODULE MCMixedMode ----------------------------
(***************************************************************************)
(* MixedMode for TLC: one check (late two instants after its last contact, *)
(* down after three), one request at a time, one process at a time.        *)
(***************************************************************************)
EXTENDS MixedMode

CONSTANTS a, h, p      \* model values: check, handler, process

MCName    == {a}
MCHandler == {h}
MCProc    == {p}

MCCfg == [checks |-> << a >>,
          interval |-> [n \in MCName |-> 1], grace |-> [n \in MCName |-> 1]]
=============================================================================
