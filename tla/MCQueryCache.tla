---------------------------- MODULE MCQueryCache ----------------------------
(* INFO and RULES of one port, RULES at half the pace.                     *)
EXTENDS QueryCache, TLC

MCEntries == <<"info", "rules">>
MCScale == [info |-> 1, rules |-> 2]
MCSymmetry == Permutations(Clients)
=============================================================================
