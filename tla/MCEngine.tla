------------------------------ MODULE MCEngine ------------------------------
(* Small instances of Engine: two paths, three tunnels.                    *)
EXTENDS Engine, TLC

MCCfg(m, i, s) == [mode |-> m, iface |-> i, subnet |-> s]
Both == (1 :> "wgA") @@ (2 :> "wgB")
Moved == (1 :> "wgC") @@ (2 :> "wgB")

(* Observed, armed, armed with the range and path 1 on another tunnel.     *)
MCPlain == {MCCfg("observe", Both, FALSE), MCCfg("armed", Both, FALSE),
            MCCfg("armed", Moved, TRUE)}
MCArmed == MCCfg("armed", Both, FALSE)

(* The range, with a path moved.                                           *)
MCSettle == {MCArmed, MCCfg("armed", Moved, TRUE)}

MCSymmetry == Permutations(Handlers)
=============================================================================
