----------------------------- MODULE MCTracker -----------------------------
(* A small instance of Tracker: two settings, one without a maximum.       *)
EXTENDS Tracker

MCCfgs ==
    {[fail |-> 1, recover |-> 1, window |-> 4, flap |-> 2, base |-> 1, max |-> 3],
     [fail |-> 2, recover |-> 2, window |-> 3, flap |-> 1, base |-> 2, max |-> 0]}
=============================================================================
