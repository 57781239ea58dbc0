------------------------------ MODULE Session -------------------------------
(***************************************************************************)
(* What a player promises the application that runs it (lib-player/        *)
(* ffplay.h): the order in which ffplayer_event's callbacks may come       *)
(* between run_player and the return of stop_player, whichever of the      *)
(* player's threads makes them.                                            *)
(***************************************************************************)
EXTENDS Naturals, Sequences

CONSTANTS
  (* kinds of callbacks that come as often as they must                     *)
  FromReading,   (* on_player_restart, on_stream_eof                        *)
  Frames,        (* on_video_frame, on_audio_frame, with data of the file   *)
  EmptyPicture,  (* on_video_frame of a file without video: an empty frame  *)
  Control        (* on_player_paused, on_player_resumed                     *)

VARIABLES
  phase,   (* "new", "open" from run_player on, "over" when stop_player returned *)
  heard,   (* on_stream_ready, on_stream_error, on_player_auto_exit, so far *)
  latest   (* the callback made last, or its kind                              *)

svars == <<phase, heard, latest>>

IsReady   == Len(heard) > 0 /\ heard[1] = "on_stream_ready"
OnlyReady == Len(heard) = 1 /\ heard[1] = "on_stream_ready"
Failed    == Len(heard) > 0 /\ heard[1] # "on_stream_ready"

SessionInit == phase = "new" /\ heard = <<>> /\ latest = "none"

Run ==
  /\ phase = "new" /\ phase' \in {"open", "over"}
  /\ UNCHANGED <<heard, latest>>

Announce(e) ==
  /\ phase = "open"
  /\ heard' = Append(heard, e) /\ latest' = e
  /\ UNCHANGED phase

(* either it becomes ready, once, or it fails, and that is the first word  *)
(* and the last                                                            *)
Ready        == Len(heard) = 0 /\ Announce("on_stream_ready")
PrepareError == Len(heard) = 0 /\ latest = "none" /\ Announce("on_stream_error")

(* an error while playing is told only together with the exit it leads to  *)
ReadError == OnlyReady /\ Announce("on_stream_error")
AutoExit  ==
  /\ IsReady /\ \A i \in 1 .. Len(heard) : heard[i] # "on_player_auto_exit"
  /\ Announce("on_player_auto_exit")

(* Data of the file comes only once the stream is ready; after an error or *)
(* the exit nothing is restarted and no end is reached, but frames can     *)
(* still be on their way.  What needs no data of the file may come before  *)
(* on_stream_ready, and is then a sign that it will.                       *)
Callback ==
  /\ phase = "open"
  /\ \/ OnlyReady /\ latest' = FromReading
     \/ IsReady /\ latest' = Frames
     \/ ~Failed /\ latest' \in {EmptyPicture, Control}
  /\ UNCHANGED <<phase, heard>>

Over == phase = "open" /\ phase' = "over" /\ UNCHANGED <<heard, latest>>

SessionNext ==
  Run \/ Ready \/ PrepareError \/ ReadError \/ AutoExit \/ Callback \/ Over

SessionSpec == SessionInit /\ [][SessionNext]_svars
=============================================================================
