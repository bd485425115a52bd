----------------------------- MODULE MCMetering -----------------------------
(* Two paths, the second with more to report than half a batch.            *)
EXTENDS Metering

MCBytes == <<1, 2>>
=============================================================================
