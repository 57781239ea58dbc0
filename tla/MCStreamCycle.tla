---------------------------- MODULE MCStreamCycle ---------------------------
(* StreamCycle for TLC: two packets of either kind, two keys. *)
EXTENDS StreamCycle
=============================================================================
