----------------------------- MODULE MCBackend -----------------------------
(* Small instances of Backend: two paths, three tunnels.                   *)
EXTENDS Backend, TLC

MCProvisional == 1 :> "wgA"

(* Arming moves path 1 to another tunnel and adds path 2; disarming takes  *)
(* it out again.                                                           *)
MCCfgs == {[mode |-> "observe", iface |-> 1 :> "wgA"],
           [mode |-> "armed", iface |-> (1 :> "wgC") @@ (2 :> "wgB")]}
=============================================================================
