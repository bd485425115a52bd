----------------------------- MODULE MCControl -----------------------------
(* Small instances of Control: a backend, a linker and a third address.    *)
EXTENDS Control, TLC

MCSymmetry == Permutations(Conns)
=============================================================================
