----------------------------- MODULE MCDecoder ------------------------------
(***************************************************************************)
(* Decoder for TLC.  Four packets, data or null in any order, and serials  *)
(* up to four: enough for a seek on each side of every step of the thread, *)
(* a drain followed by more packets, and a close with a reopening after a  *)
(* seek (close and open take a serial each).                               *)
(***************************************************************************)
EXTENDS Decoder
=============================================================================
