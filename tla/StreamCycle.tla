---------------------------- MODULE StreamCycle -----------------------------
(***************************************************************************)
(* Switching a stream while the file plays (lib-player/ffplay.cpp): a key   *)
(* in the debug window makes the event loop close a component and open it  *)
(* for another stream of its kind (stream_cycle_channel) while read_thread *)
(* reads on, the other decoder decodes and the audio device plays.  The    *)
(* first opening is read_thread's own, by the same steps.                  *)
(*                                                                         *)
(* VideoState's fields are shared without a lock; a step is one access by  *)
(* one thread, or one critical section of a queue.  A component's decoder  *)
(* is cut down to what the others see of it: Decoder and FrameQueue have   *)
(* the rest.  Seeks, loops and subtitles are left out.                     *)
(***************************************************************************)
EXTENDS Integers, Sequences

CONSTANTS
  FilePackets,   (* packets of the file                                     *)
  MaxSwitches,   (* bound: keys pressed                                     *)
  MaxFrames      (* frames a frame queue holds for the display              *)

ASSUME StreamCycleAssumption ==
  FilePackets \in Nat /\ MaxSwitches \in Nat /\ MaxFrames \in Nat \ {0}

Kinds == {"audio", "video"}

(* of the packets only the null packets at the end of the file matter      *)
AVPacket == {"data", "null"}
PacketBytes(p) == IF p = "data" THEN 1 ELSE 0

INSTANCE PacketQueue WITH Packet <- AVPacket, Bytes <- PacketBytes, Overhead <- 1

None == -1
NoPacket == [kind |-> "audio", index |-> None]

VARIABLES
  (* per kind: the index of the open stream, the pointer to it, and what the *)
  (* demuxer was told to deliver; the stream opened last                    *)
  stream, st, wanted, last,
  queue,                      (* audioq, videoq                             *)
  dec,                        (* where the decoder thread is                *)
  pkt_serial, finished,       (* of each decoder                            *)
  frames,                     (* sampq, pictq: frames not displayed         *)
  device,                     (* the audio device plays                     *)
  (* hardware decoding: hw_decode_used, the picture buffer video_thread has  *)
  (* picked for it, and whether the codec was opened with a device          *)
  hw_decode_used, decode_frame, codec_hw,
  abort_play,
  (* read_thread: where it is, the packet and the kind in hand, is->eof, and *)
  (* how much of the file is left                                           *)
  rpc, pkt, rk, eof, left,
  epc, ck, ci,                (* the closing and opening: kind, new index   *)
  (* history: keys pressed, the end was told, the decoder of this opening    *)
  (* has been drained                                                       *)
  keys, told, drained

comps  == <<stream, st, wanted, last>>
dvars  == <<dec, pkt_serial, finished, frames, drained>>
hwvars == <<hw_decode_used, decode_frame, codec_hw>>
rvars  == <<rpc, pkt, rk, left, told>>
evars  == <<epc, ck, ci, keys>>
vars   == <<comps, queue, dvars, device, hwvars, abort_play, rvars, eof, evars>>
-----------------------------------------------------------------------------
(* read_thread's loop.                                                     *)

(* a step that only moves read_thread on                                   *)
Quiet == UNCHANGED <<comps, queue, dvars, device, hwvars, abort_play, evars>>

(* stream_has_enough_packets (with MIN_FRAMES cut down to one packet)       *)
Enough(k) ==
  stream[k] = None \/ queue[k].abort_request \/ queue[k].nb_packets > 0

ReadOn ==
  /\ rpc = "top" /\ \E k \in Kinds : ~Enough(k)
  /\ rpc' = "is open" /\ rk' = "audio"
  /\ Quiet /\ UNCHANGED <<pkt, left, told, eof>>

(* Has all been played?  Sound first, then the picture.                    *)
PlayedOut(k) == IF k = "audio" THEN rpc' = "is open" /\ rk' = "video"
                           ELSE rpc' = "end" /\ rk' = rk

TestOpen ==
  /\ rpc = "is open"
  /\ IF st[rk] THEN rpc' = "finished" /\ rk' = rk ELSE PlayedOut(rk)
  /\ Quiet /\ UNCHANGED <<pkt, left, told, eof>>

TestFinished ==
  /\ rpc = "finished"
  /\ rpc' = (IF finished[rk] = queue[rk].serial THEN "remaining" ELSE "read")
  /\ Quiet /\ UNCHANGED <<rk, pkt, left, told, eof>>

TestRemaining ==
  /\ rpc = "remaining"
  /\ IF frames[rk] = 0 THEN PlayedOut(rk) ELSE rpc' = "read" /\ rk' = rk
  /\ Quiet /\ UNCHANGED <<pkt, left, told, eof>>

(* all has: on_stream_eof, or on_player_auto_exit, which ends read_thread   *)
TellEnd ==
  /\ rpc = "end"
  /\ told' = TRUE /\ rpc' \in {"read", "ended"}
  /\ Quiet /\ UNCHANGED <<rk, pkt, left, eof>>

(* av_read_frame passes over packets of streams that are to be discarded   *)
ReadFrame ==
  /\ rpc = "read" /\ left > 0
  /\ left' = left - 1
  /\ \E k \in Kinds :
       IF wanted[k] = None
         THEN UNCHANGED <<rpc, pkt, eof>>
         ELSE /\ pkt' = [kind |-> k, index |-> wanted[k]] /\ eof' = FALSE
              /\ rpc' = "match"
  /\ Quiet /\ UNCHANGED <<rk, told>>

MatchPacket ==
  /\ rpc = "match"
  /\ IF pkt.index = stream[pkt.kind] THEN rpc' = "put" /\ pkt' = pkt
                                      ELSE rpc' = "top" /\ pkt' = NoPacket
  /\ Quiet /\ UNCHANGED <<rk, left, told, eof>>

PutPacket ==
  /\ rpc = "put"
  /\ queue' = [queue EXCEPT ![pkt.kind] = packet_queue_put(@, "data")]
  /\ rpc' = "top" /\ pkt' = NoPacket
  /\ UNCHANGED <<comps, dvars, device, hwvars, abort_play, evars, rk, left, told, eof>>

(* AVERROR_EOF: null packets for the components that are open, once        *)
ReadEof ==
  /\ rpc = "read" /\ left = 0
  /\ IF eof THEN rpc' = "top" /\ rk' = rk ELSE rpc' = "match null" /\ rk' = "video"
  /\ Quiet /\ UNCHANGED <<pkt, left, told, eof>>

AfterNull == IF rk = "video" THEN rpc' = "match null" /\ rk' = "audio"
                             ELSE rpc' = "eof" /\ rk' = rk

MatchNull ==
  /\ rpc = "match null"
  /\ IF stream[rk] # None THEN rpc' = "put null" /\ rk' = rk ELSE AfterNull
  /\ Quiet /\ UNCHANGED <<pkt, left, told, eof>>

PutNull ==
  /\ rpc = "put null"
  /\ queue' = [queue EXCEPT ![rk] = packet_queue_put(@, "null")]
  /\ AfterNull
  /\ UNCHANGED <<comps, dvars, device, hwvars, abort_play, evars, pkt, left, told, eof>>

SetEof ==
  /\ rpc = "eof"
  /\ eof' = TRUE /\ rpc' = "top"
  /\ Quiet /\ UNCHANGED <<rk, pkt, left, told>>
-----------------------------------------------------------------------------
(* The decoder threads and the consumers of their frames.                  *)

apart == <<comps, device, rvars, eof, evars>>

(* decode_frame = hw_decode_used ? hw_frame : sw_frame                     *)
PickFrame(k) ==
  /\ dec[k] = "top"
  /\ dec' = [dec EXCEPT ![k] = "decode"]
  /\ decode_frame' = (IF k = "video" THEN hw_decode_used ELSE decode_frame)
  /\ UNCHANGED <<apart, queue, pkt_serial, finished, frames, drained, hw_decode_used,
                 codec_hw, abort_play>>

GetPacket(k) ==
  /\ dec[k] = "decode" /\ CanGet(queue[k])
  /\ queue' = [queue EXCEPT ![k] = packet_queue_get(@)]
  /\ pkt_serial' = [pkt_serial EXCEPT ![k] = Got(queue[k]).serial]
  /\ finished' =
       [finished EXCEPT ![k] = IF pkt_serial[k] # Got(queue[k]).serial THEN 0 ELSE @]
  /\ dec' = [dec EXCEPT ![k] = IF Got(queue[k]).pkt = "data" THEN "frame" ELSE "drain"]
  /\ UNCHANGED <<apart, frames, drained, hwvars, abort_play>>

(* the null packet drains the codec                                        *)
Drain(k) ==
  /\ dec[k] = "drain"
  /\ finished' = [finished EXCEPT ![k] = pkt_serial[k]]
  /\ drained' = [drained EXCEPT ![k] = TRUE]
  /\ dec' = [dec EXCEPT ![k] = "decode"]
  /\ UNCHANGED <<apart, queue, pkt_serial, frames, hwvars, abort_play>>

(* Mutant: whoever waits for a place in the frame queue is not woken.      *)
DecoderEndsUnlessFull(k) ==
  /\ dec[k] \in {"decode", "drain", "frame"} /\ queue[k].abort_request
  /\ dec' = [dec EXCEPT ![k] = "ended"]
  /\ UNCHANGED <<apart, queue, pkt_serial, finished, frames, drained, hwvars, abort_play>>

(* the thread finds its queue aborted, or a full frame queue                *)
DecoderEnds(k) ==
  /\ dec[k] \in {"decode", "drain", "frame", "queue"} /\ queue[k].abort_request
  /\ dec' = [dec EXCEPT ![k] = "ended"]
  /\ UNCHANGED <<apart, queue, pkt_serial, finished, frames, drained, hwvars, abort_play>>

(* A picture decoded to the card's memory is fetched from hw_frame, which   *)
(* may fail (it is skipped); else it is in hw_frame or sw_frame.            *)
UseFrame(k) ==
  /\ dec[k] = "frame" /\ (k = "video" => decode_frame = hw_decode_used)
  /\ \/ dec' = [dec EXCEPT ![k] = "queue"]
     \/ k = "video" /\ hw_decode_used /\ codec_hw /\ dec' = [dec EXCEPT ![k] = "top"]
  /\ UNCHANGED <<apart, queue, pkt_serial, finished, frames, drained, hwvars, abort_play>>

(* The filters refuse a buffer nothing was decoded to, and may refuse one   *)
(* in the card's memory: video_thread stops the player.                    *)
FilterFails ==
  /\ dec["video"] = "frame"
  /\ decode_frame # hw_decode_used \/ (codec_hw /\ ~hw_decode_used)
  /\ dec' = [dec EXCEPT !["video"] = "ended"] /\ abort_play' = TRUE
  /\ UNCHANGED <<apart, queue, pkt_serial, finished, frames, drained, hwvars>>

QueueFrame(k) ==
  /\ dec[k] = "queue" /\ frames[k] < MaxFrames
  /\ frames' = [frames EXCEPT ![k] = @ + 1] /\ dec' = [dec EXCEPT ![k] = "top"]
  /\ UNCHANGED <<apart, queue, pkt_serial, finished, drained, hwvars, abort_play>>

(* The device's thread takes sound; video_refresh, by the event loop,       *)
(* shows or drops pictures, though not while it switches a stream.          *)
TakeFrame(k) ==
  /\ frames[k] > 0
  /\ IF k = "audio" THEN device ELSE epc = "idle" \/ rpc = "opening"
  /\ frames' = [frames EXCEPT ![k] = @ - 1]
  /\ UNCHANGED <<apart, queue, dec, pkt_serial, finished, drained, hwvars, abort_play>>
-----------------------------------------------------------------------------
(* Closing and opening: stream_cycle_channel, stream_component_close,       *)
(* decoder_abort, stream_component_open, decoder_init, decoder_start.       *)

still == <<rvars, keys>>

(* a key: the next stream of a kind                                        *)
CycleChannel(k) ==
  /\ epc = "idle" /\ rpc # "opening" /\ ~abort_play /\ keys < MaxSwitches
  /\ keys' = keys + 1 /\ ck' = k /\ ci' = 1 - last[k]
  /\ epc' = (IF stream[k] = None THEN "open" ELSE "abort")
  /\ UNCHANGED <<comps, queue, dvars, device, hwvars, abort_play, rvars, eof>>

CloseAborts ==
  /\ epc = "abort"
  /\ queue' = [queue EXCEPT ![ck] = packet_queue_abort(@)]
  /\ epc' = "join"
  /\ UNCHANGED <<comps, dvars, device, hwvars, abort_play, still, eof, ck, ci>>

(* Mutant: the packets are freed, the serial stays. *)
JoinKeepsSerial ==
  /\ epc = "join" /\ dec[ck] = "ended"
  /\ dec' = [dec EXCEPT ![ck] = "none"]
  /\ queue' = [queue EXCEPT ![ck].pkt_list = <<>>, ![ck].nb_packets = 0, ![ck].size = 0]
  /\ device' = (device /\ ck # "audio")
  /\ epc' = "discard"
  /\ UNCHANGED <<comps, pkt_serial, finished, frames, drained, hwvars, abort_play, still,
                 eof, ck, ci>>

(* the thread is joined, the packets are freed and the device is closed    *)
CloseJoins ==
  /\ epc = "join" /\ dec[ck] = "ended"
  /\ dec' = [dec EXCEPT ![ck] = "none"]
  /\ queue' = [queue EXCEPT ![ck] = packet_queue_flush(@)]
  /\ device' = (device /\ ck # "audio")
  /\ epc' = "discard"
  /\ UNCHANGED <<comps, pkt_serial, finished, frames, drained, hwvars, abort_play, still,
                 eof, ck, ci>>

CloseSt ==
  /\ epc = "discard"
  /\ wanted' = [wanted EXCEPT ![ck] = None] /\ st' = [st EXCEPT ![ck] = FALSE]
  /\ epc' = "close stream"
  /\ UNCHANGED <<stream, last, queue, dvars, device, hwvars, abort_play, still, eof, ck, ci>>

CloseStream ==
  /\ epc = "close stream"
  /\ stream' = [stream EXCEPT ![ck] = None] /\ epc' = "open"
  /\ UNCHANGED <<st, wanted, last, queue, dvars, device, hwvars, abort_play, still, eof,
                 ck, ci>>

(* What follows an opening: read_thread opens the picture after the sound   *)
(* and then reads, if one of them could be opened.                         *)
OpeningEnds ==
  IF rpc # "opening"
    THEN epc' = "idle" /\ UNCHANGED <<ck, ci, rpc>>
    ELSE IF ck = "audio"
      THEN epc' = "open" /\ ck' = "video" /\ UNCHANGED <<ci, rpc>>
      ELSE /\ epc' = "idle" /\ UNCHANGED <<ck, ci>>
           /\ rpc' = (IF \A k \in Kinds : stream[k] = None THEN "ended" ELSE "top")

(* no codec, or it cannot be opened: whatever was to be opened, the audio   *)
(* device is closed ...                                                    *)
OpenFails ==
  /\ epc = "open"
  /\ last' = [last EXCEPT ![ck] = ci] /\ device' = FALSE
  /\ OpeningEnds
  /\ UNCHANGED <<stream, st, wanted, queue, dvars, hwvars, abort_play,
                 pkt, rk, left, told, keys, eof>>

(* ... or it is, with a device or without: what is at the end of the file   *)
(* is to be read again                                                     *)
OpenCodec ==
  /\ epc = "open"
  /\ last' = [last EXCEPT ![ck] = ci] /\ wanted' = [wanted EXCEPT ![ck] = ci]
  /\ eof' = FALSE
  /\ IF ck = "video" THEN codec_hw' \in BOOLEAN ELSE codec_hw' = codec_hw
  /\ epc' = "open stream"
  /\ UNCHANGED <<stream, st, queue, dvars, device, hw_decode_used, decode_frame, abort_play,
                 still, ck, ci>>

(* configure_audio_filters or audio_open fails                             *)
AudioOpenFails ==
  /\ epc = "open stream" /\ ck = "audio"
  /\ device' = FALSE
  /\ OpeningEnds
  /\ UNCHANGED <<comps, queue, dvars, hwvars, abort_play, pkt, rk, left, told, keys,
                 eof>>

OpenStream ==
  /\ epc = "open stream"
  /\ stream' = [stream EXCEPT ![ck] = ci] /\ epc' = "open st"
  /\ UNCHANGED <<st, wanted, last, queue, dvars, device, hwvars, abort_play, still, eof,
                 ck, ci>>

OpenSt ==
  /\ epc = "open st"
  /\ st' = [st EXCEPT ![ck] = TRUE] /\ drained' = [drained EXCEPT ![ck] = FALSE]
  /\ epc' = "init"
  /\ UNCHANGED <<stream, wanted, last, queue, dec, pkt_serial, finished, frames, device,
                 hwvars, abort_play, still, eof, ck, ci>>

DecoderInit ==
  /\ epc = "init"
  /\ finished' = [finished EXCEPT ![ck] = 0] /\ pkt_serial' = [pkt_serial EXCEPT ![ck] = -1]
  /\ epc' = "start"
  /\ UNCHANGED <<comps, queue, dec, frames, drained, device, hwvars, abort_play, still, eof,
                 ck, ci>>

(* Mutant: the queue stays aborted. *)
DecoderStartsAborted ==
  /\ epc = "start"
  /\ queue' = [queue EXCEPT ![ck].serial = @ + 1]
  /\ dec' = [dec EXCEPT ![ck] = "top"] /\ epc' = "started"
  /\ UNCHANGED <<comps, pkt_serial, finished, frames, drained, device, hwvars, abort_play,
                 still, eof, ck, ci>>

DecoderStart ==
  /\ epc = "start"
  /\ queue' = [queue EXCEPT ![ck] = packet_queue_start(@)]
  /\ dec' = [dec EXCEPT ![ck] = "top"] /\ epc' = "started"
  /\ UNCHANGED <<comps, pkt_serial, finished, frames, drained, device, hwvars, abort_play,
                 still, eof, ck, ci>>

(* SDL_PauseAudioDevice(audio_dev, 0); hw_decode_used, only now             *)
Opened ==
  /\ epc = "started"
  /\ device' = (device \/ ck = "audio")
  /\ hw_decode_used' = (IF ck = "video" THEN codec_hw ELSE hw_decode_used)
  /\ OpeningEnds
  /\ UNCHANGED <<comps, queue, dvars, decode_frame, codec_hw, abort_play, pkt, rk, left,
                 told, keys, eof>>
-----------------------------------------------------------------------------
Init ==
  /\ stream = [k \in Kinds |-> None] /\ st = [k \in Kinds |-> FALSE]
  /\ wanted = [k \in Kinds |-> None] /\ last = [k \in Kinds |-> None]
  /\ queue = [k \in Kinds |-> packet_queue_init]
  /\ dec = [k \in Kinds |-> "none"] /\ pkt_serial = [k \in Kinds |-> 0]
  /\ finished = [k \in Kinds |-> 0] /\ frames = [k \in Kinds |-> 0]
  /\ device = FALSE
  /\ hw_decode_used = FALSE /\ decode_frame = FALSE /\ codec_hw = FALSE
  /\ abort_play = FALSE
  /\ rpc = "opening" /\ rk = "audio" /\ pkt = NoPacket
  /\ eof = FALSE /\ left = FilePackets
  /\ epc = "open" /\ ck = "audio" /\ ci = 0
  /\ keys = 0 /\ told = FALSE /\ drained = [k \in Kinds |-> FALSE]

ReadThread ==
  \/ ReadOn \/ TestOpen \/ TestFinished \/ TestRemaining \/ TellEnd
  \/ ReadFrame \/ MatchPacket \/ PutPacket
  \/ ReadEof \/ MatchNull \/ PutNull \/ SetEof

DecoderThread(k) ==
  PickFrame(k) \/ GetPacket(k) \/ Drain(k) \/ DecoderEnds(k) \/ UseFrame(k) \/ QueueFrame(k)

Closing == CloseAborts \/ CloseJoins \/ CloseSt \/ CloseStream

Opening ==
  \/ OpenFails \/ OpenCodec \/ AudioOpenFails \/ OpenStream \/ OpenSt
  \/ DecoderInit \/ DecoderStart \/ Opened

Next ==
  \/ ReadThread \/ Closing \/ Opening \/ FilterFails
  \/ \E k \in Kinds : DecoderThread(k) \/ TakeFrame(k) \/ CycleChannel(k)

Spec == Init /\ [][Next]_vars

(* The threads run, and a display or a device takes what it is given.      *)
FairSpec ==
  /\ Spec
  /\ WF_vars(ReadThread) /\ WF_vars(Closing \/ Opening) /\ WF_vars(FilterFails)
  /\ \A k \in Kinds : WF_vars(DecoderThread(k)) /\ WF_vars(TakeFrame(k))
-----------------------------------------------------------------------------
(* read_thread takes a component that is open for played out by its         *)
(* decoder's finished, without a lock; that finished is never left over     *)
(* from the stream that was open before, at any moment of a switch.  (Before *)
(* the first decoder of a kind is started both are 0.)                      *)
FinishedIsOwn ==
  \A k \in Kinds : st[k] /\ finished[k] = queue[k].serial => drained[k] \/ finished[k] = 0

(* A switch comes to its end: the thread of the component that is closed is *)
(* joined though its frame queue is full and nobody but the event loop, the *)
(* one that waits, would empty it.                                          *)
SwitchReturns == (epc # "idle") ~> (epc = "idle")

(* what lies between an opening's is->eof = 0 and its decoder's start       *)
EofReset == epc \in {"open stream", "open st", "init", "start"}

(* The end of the file is told (or the player has stopped itself, or nothing *)
(* could be opened again, and read_thread waits on).                       *)
EndReached ==
  \/ <>(told \/ abort_play \/ rpc = "ended")
  \/ <>[](\A k \in Kinds : stream[k] = None)

(* the sound that is read is also played                                   *)
SoundHeard == epc = "idle" /\ stream["audio"] # None => device

(* A switch made before the end of the file is read keeps no null packet    *)
(* from a decoder: the end is told all the same, unless the sound is cut    *)
(* off.                                                                    *)
EndIsTold == [](EofReset => left > 0) /\ []SoundHeard => EndReached

(* A file with a stream that cannot be opened plays to its end too: the      *)
(* application hears on_stream_eof or, with auto_exit_when_eof (ffplay.h),   *)
(* on_player_auto_exit.                                                    *)
EndAlwaysTold == [](EofReset => left > 0) => EndReached
-----------------------------------------------------------------------------
(* Why FinishedIsOwn holds: the inductive invariant.                       *)

TypeOK ==
  /\ stream \in [Kinds -> {None, 0, 1}] /\ last \in [Kinds -> {None, 0, 1}]
  /\ queue \in [Kinds -> PacketQueueType]
  /\ dec \in [Kinds -> {"none", "top", "decode", "drain", "frame", "queue", "ended"}]
  /\ pkt_serial \in [Kinds -> Nat \cup {-1}] /\ finished \in [Kinds -> Nat]
  /\ drained \in [Kinds -> BOOLEAN]
  /\ rk \in Kinds /\ pkt.kind \in Kinds /\ ck \in Kinds /\ ci \in {0, 1}
  /\ epc \in {"idle", "abort", "join", "discard", "close stream", "open", "open stream",
              "open st", "init", "start", "started"}

(* no serial is ahead of its queue's                                       *)
SerialInv ==
  \A k \in Kinds :
    /\ queue[k].nb_packets = Len(queue[k].pkt_list)
    /\ \A i \in 1 .. Len(queue[k].pkt_list) : queue[k].pkt_list[i].serial <= queue[k].serial
    /\ pkt_serial[k] <= queue[k].serial /\ finished[k] <= queue[k].serial

(* a finished decoder that is gone is behind the queue; a new one starts at 0 *)
OwnerInv ==
  \A k \in Kinds :
    /\ dec[k] = "none" => finished[k] = 0 \/ finished[k] < queue[k].serial
    /\ dec[k] # "none" /\ ~drained[k] => finished[k] = 0
    /\ dec[k] = "drain" => pkt_serial[k] # -1
    /\ stream[k] = None => dec[k] = "none"

(* what is closed and opened has no decoder until it is started            *)
SwitchInv ==
  /\ epc \in {"discard", "close stream", "open", "open stream", "open st", "init", "start"} =>
       dec[ck] = "none"
  /\ epc \in {"open st", "init", "start", "started"} => stream[ck] # None
  /\ epc = "start" => finished[ck] = 0
  /\ epc \in {"open stream", "open st", "init", "start", "started"} => last[ck] # None
  /\ rpc = "opening" =>
       /\ epc \in {"open", "open stream", "open st", "init", "start", "started"}
       /\ ck = "audio" => stream["video"] = None
       /\ ck = "video" => last["audio"] # None
  /\ rpc # "opening" => \A k \in Kinds : last[k] # None

IInv == TypeOK /\ SerialInv /\ OwnerInv /\ SwitchInv
=============================================================================
