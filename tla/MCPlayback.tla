----------------------------- MODULE MCPlayback -----------------------------
(* Playback for TLC: three small files. *)
EXTENDS Playback

Interleaved == <<Video, Audio, Video>>
TwoPictures == <<Video, Video>>
AudioOnly   == <<Audio, Audio>>
=============================================================================
