---------------------------- MODULE MCFrameQueue ----------------------------
(***************************************************************************)
(* FrameQueue for TLC.  Three places (as pictq has) and more frames than   *)
(* places, so that both indices wrap and the writer waits on a full ring   *)
(* whose oldest slot is the frame in use; the component is opened twice,   *)
(* the second time on a ring that still holds frames.                      *)
(***************************************************************************)
EXTENDS FrameQueue

AllQueues == AllKinds
=============================================================================
