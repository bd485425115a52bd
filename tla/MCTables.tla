------------------------------ MODULE MCTables ------------------------------
(* An instance with one port set, either table, and three lists of the     *)
(* feed, one less than half of another and one that covers too much.       *)
EXTENDS Tables

MCConfigs ==
  {[armed |-> a, protect |-> f[1], blocklist |-> f[2], spans |-> f[3]] :
     a \in BOOLEAN, f \in {<<1, Off, NoSpans>>, <<Off, 1, "ports">>}}
MCSize == [l \in Lists \cup {NoList} |->
             CASE l = "long" -> 4 [] l = "wide" -> 3 [] l = "short" -> 1 [] OTHER -> 0]
=============================================================================
