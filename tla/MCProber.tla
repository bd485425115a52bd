------------------------------ MODULE MCProber ------------------------------
(* A small instance of Prober for TLC.                                     *)
EXTENDS Prober

(* Replies captured against another generation of this path, and a reply   *)
(* another path's probe drew, all for sequences this generation uses.      *)
MCStale ==
    {[type |-> "reply", path |-> "wan", seq |-> Seed + 1, nonce |-> 0],
     [type |-> "reply", path |-> "lte", seq |-> Seed + 2, nonce |-> 0]}
=============================================================================
