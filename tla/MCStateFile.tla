---------------------------- MODULE MCStateFile ----------------------------
(***************************************************************************)
(* StateFile for TLC: two savers, two documents, two temp names and four   *)
(* inodes (the target, the one a power loss would bring back, two temps).  *)
(***************************************************************************)
EXTENDS StateFile, TLC

Symmetry == Permutations(Writer) \cup Permutations(Doc)
              \cup Permutations(TempName) \cup Permutations(Inode)
=============================================================================
