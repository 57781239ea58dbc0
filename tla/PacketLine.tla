----------------------------- MODULE PacketLine -----------------------------
(***************************************************************************)
(* What a packet queue and the decoder thread behind it promise to those   *)
(* who put packets in and take frames out (lib-player/ffplay.cpp): one     *)
(* line from the one end to the other.  Packets enter at its end, frames   *)
(* leave at its head; on the way packets may be lost, but never be passed  *)
(* by another, doubled or made up, and each keeps the number of the        *)
(* stretch it entered in, by which a frame is known to be of before a seek.*)
(*                                                                         *)
(* Decoder implements this module, from the put to the frame returned, and *)
(* so does each stream of Playback, from the demuxer to the presentation.  *)
(***************************************************************************)
EXTENDS Integers, Sequences

CONSTANT Id   (* what a packet and its frame are known by                   *)

VARIABLES
  line,       (* entered and neither left nor lost, oldest first            *)
  stretch,    (* numbers the stretches between two seeks or openings        *)
  out         (* what left last                                             *)

lvars == <<line, stretch, out>>

LineInit == line = <<>> /\ stretch \in Nat /\ out = 0

Enter(id) ==
  /\ line' = Append(line, [id |-> id, serial |-> stretch])
  /\ UNCHANGED <<stretch, out>>

Leave ==
  /\ line # <<>>
  /\ out' = Head(line).id /\ line' = Tail(line)
  /\ UNCHANGED stretch

(* some of those that follow each other, from place i + 1 to place j, go    *)
Lost ==
  \E i \in 0 .. Len(line) : \E j \in i .. Len(line) :
    line' = SubSeq(line, 1, i) \o SubSeq(line, j + 1, Len(line))

(* a packet is stale, cannot be decoded, or carries no data                *)
Lose == Lost /\ UNCHANGED <<stretch, out>>

(* a seek or an opening                                                    *)
NewStretch == Lost /\ stretch' = stretch + 1 /\ UNCHANGED out

LineNext == (\E id \in Id : Enter(id)) \/ Leave \/ Lose \/ NewStretch

LineSpec == LineInit /\ [][LineNext]_lvars
=============================================================================
