---------------------------- MODULE FrameChannel ----------------------------
(***************************************************************************)
(* What a FrameQueue of lib-player/ffplay.cpp promises to the two threads  *)
(* that share it: a bounded FIFO of decoded frames that, when it is        *)
(* created with keep_last, also retains the frame taken last so that its   *)
(* consumer can go on using it.  The retained frame occupies a place.      *)
(*                                                                         *)
(* FrameQueue implements this module (ring buffer, indices, mutex and      *)
(* condition variable).  Playback uses a frame queue as this module has it *)
(* (its frames are chan, its rindex_shown says that last is a frame).      *)
(***************************************************************************)
EXTENDS Integers, Sequences

CONSTANTS
  Capacity,   (* max_size: the number of places                            *)
  Frame,      (* the frames that may be put                                *)
  NoFrame     (* nothing is retained                                       *)

VARIABLES
  chan,       (* frames pushed and not yet taken, oldest first             *)
  last,       (* the frame retained by keep_last, or NoFrame               *)
  keep        (* keep_last: fixed when the queue is created                *)

cvars == <<chan, last, keep>>

Retained == IF last = NoFrame THEN 0 ELSE 1

ChanInit == chan = <<>> /\ last = NoFrame /\ keep \in BOOLEAN

(* frame_queue_peek_writable and frame_queue_push, seen as one step *)
Put(f) ==
  /\ Len(chan) + Retained < Capacity
  /\ chan' = Append(chan, f)
  /\ UNCHANGED <<last, keep>>

(* frame_queue_next: the oldest frame leaves, the retained one is released *)
Take ==
  /\ chan # <<>>
  /\ chan' = Tail(chan)
  /\ last' = IF keep THEN Head(chan) ELSE NoFrame
  /\ UNCHANGED keep

ChanNext == (\E f \in Frame : Put(f)) \/ Take

ChanSpec == ChanInit /\ [][ChanNext]_cvars
=============================================================================
