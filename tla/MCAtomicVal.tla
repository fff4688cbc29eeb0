---------------------------- MODULE MCAtomicVal -----------------------------
(* Two workers call any method on a record and on the one it points to      *)
(* while the pointer is replaced.                                           *)
EXTENDS AtomicVal, TLC
Symmetry == Permutations(Workers) \cup Permutations(Vals)
=============================================================================
