------------------------------ MODULE MCMPHost ------------------------------
(* Instances of MPHost for TLC. *)
EXTENDS MPHost, TLC

\* The clients are interchangeable.
MacSymmetry == Permutations(Mac)
=============================================================================
