----------------------------- MODULE MCDuration -----------------------------
(***************************************************************************)
(* Duration for TLC: three units, numbers of up to two digits (in the code *)
(* five and nine), the smallest unit of three where the code has 10^9.     *)
(***************************************************************************)
EXTENDS Duration

MCLength == << 90, 18, 3 >>

Number(v, d) == [value |-> v, digits |-> d]

MCNumbers ==
  { Number(v, 1) : v \in 0..9 } \cup { Number(v, 2) : v \in {0, 7, 10, 17, 40, 99} }
    \cup { Number(100, 3) }
=============================================================================
