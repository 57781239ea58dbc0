------------------------------ MODULE Playback ------------------------------
(***************************************************************************)
(* A stream that plays (lib-player/ffplay.cpp): read_thread feeds one      *)
(* packet queue per media stream, a decoder thread per queue turns packets *)
(* into frames, the event loop presents pictures (video_refresh) and the   *)
(* audio callback sound; the application pauses, steps, seeks and stops    *)
(* through tasks that the event loop runs.  It starts where stream_ready   *)
(* is set: components open, nothing read.                                  *)
(*                                                                         *)
(* The threads share their state without a common lock.  A step here is    *)
(* one access that another thread can observe or disturb (a toggle of      *)
(* paused is two, a load and a store), with the accesses next to it that   *)
(* commute with every step of the others.  Waiting and waking are Decoder's *)
(* and FrameQueue's concern: here a blocked operation is not enabled.      *)
(*                                                                         *)
(* Packets carry the generation they were read in (one per completed       *)
(* avformat_seek_file) and their position in the file, which the program   *)
(* does not see: it has only the serials to tell stale data from fresh.    *)
(***************************************************************************)
EXTENDS Integers, Sequences

CONSTANTS
  Layout,        (* the file: the stream of each packet, in file order      *)
  Capacity,      (* frames a frame queue holds                              *)
  QueueLimit,    (* MAX_QUEUE_SIZE, in units of one byte per packet field   *)
  MinFrames,     (* MIN_FRAMES                                              *)
  CodecDelay,    (* packets a codec holds before it must return a frame     *)
  Loop,          (* parameters.loop: 0 for ever, else the number of plays   *)
  AutoExit,      (* parameters.auto_exit_when_eof                           *)
  SeekTargets,   (* positions the application and a failing file offer      *)
  SeekMayFail,   (* avformat_seek_file may return an error                  *)
  FrameDrop,     (* framedrop: pictures may be dropped as late              *)
  MaxSeeks, MaxToggles, MaxSteps   (* bounds on the application's requests   *)

Audio == "audio"
Video == "video"

Streams == {Layout[i] : i \in DOMAIN Layout}
End == Len(Layout)

ASSUME PlaybackAssumption ==
  /\ Layout \in Seq({Audio, Video}) /\ Layout # <<>>
  /\ Capacity \in Nat /\ Capacity >= 2
  /\ QueueLimit \in Nat /\ MinFrames \in Nat /\ CodecDelay \in Nat /\ Loop \in Nat
  /\ SeekTargets \subseteq 0 .. End
  /\ {AutoExit, SeekMayFail, FrameDrop} \subseteq BOOLEAN
  /\ MaxSeeks \in Nat /\ MaxToggles \in Nat /\ MaxSteps \in Nat

(* start_time, where a restart seeks to *)
StartTime == 0

AVPacket == [gen : Nat, pos : 0 .. End]
NullPacket == [gen |-> 0, pos |-> 0]
IsNull(p) == p.pos = 0
PacketBytes(p) == IF IsNull(p) THEN 0 ELSE 1

INSTANCE PacketQueue WITH Packet <- AVPacket, Bytes <- PacketBytes, Overhead <- 1

VARIABLES
  (* the demuxer *)
  gen, pos,
  (* read_thread *)
  rpc,
  todo,          (* streams a test or flush of all streams has yet to come to *)
  eof, eof_happened, loop,
  (* a request of stream_seek *)
  seek_req, seek_pos,
  (* per stream: packet queue, decoder thread, frame queue *)
  queue, dec, frames, rindex_shown,
  (* play control *)
  paused, step,
  (* event loop (with the picture it is about to show) and audio callback *)
  epc, vp, apc,
  after,         (* where the event loop goes on when it has toggled paused *)
  (* stopping *)
  abort_play, abort_request, open,
  (* what the application has seen and asked *)
  shown, restarts, seeks, toggles, steps

demuxer == <<gen, pos>>
reader  == <<rpc, todo, eof, eof_happened, loop, restarts>>
request == <<seek_req, seek_pos>>
control == <<paused, step>>
present == <<epc, vp, apc, after, shown>>
stop    == <<abort_play, abort_request, open>>
asked   == <<seeks, toggles, steps>>
vars == <<demuxer, reader, request, queue, dec, frames, rindex_shown, control,
          present, stop, asked>>

NoFrame == [gen |-> 0, pos |-> 0, serial |-> 0]

(* A decoder thread between calls of decoder_decode_frame, at the start.   *)
NewDecoder ==
  [pc |-> "receive", pkt |-> NullPacket, pkt_serial |-> -1, finished |-> 0,
   codec |-> <<>>, draining |-> FALSE, frame |-> NoFrame]

Fresh(s, f) == f.serial = queue[s].serial

(* frame_queue_nb_remaining, and the room frame_queue_peek_writable finds  *)
Remaining(s) == Len(frames[s])
Room(s) == Len(frames[s]) + (IF rindex_shown[s] THEN 1 ELSE 0) < Capacity

(* the streams are gone through audio first                                *)
IsNext(s) == s \in todo /\ (s = Video => Audio \notin todo)

(* frame_queue_next on a keep_last queue                                   *)
NextFrame(s) ==
  /\ frames' = [frames EXCEPT ![s] = Tail(@)]
  /\ rindex_shown' = [rindex_shown EXCEPT ![s] = TRUE]
-----------------------------------------------------------------------------
(* read_thread, the loop from its top                                      *)

ReadTop ==
  /\ rpc = "top"
  /\ rpc' = IF abort_request THEN "exit" ELSE IF seek_req THEN "seek" ELSE "full"
  /\ UNCHANGED <<demuxer, todo, eof, eof_happened, loop, restarts, request, queue,
                 dec, frames, rindex_shown, control, present, stop, asked>>

(* Mutant: the audio queue is not flushed. *)
SeekFileVideoOnly ==
  /\ rpc = "seek"
  /\ gen' = gen + 1 /\ pos' = seek_pos
  /\ eof_happened' = FALSE
  /\ todo' = open \ {Audio} /\ rpc' = "flush"
  /\ UNCHANGED <<eof, loop, restarts, request, queue, dec, frames, rindex_shown,
                 control, present, stop, asked>>

(* seek_pos is read, and avformat_seek_file succeeds (only read_thread sees *)
(* the demuxer)                                                            *)
SeekFile ==
  /\ rpc = "seek"
  /\ gen' = gen + 1 /\ pos' = seek_pos
  /\ eof_happened' = FALSE
  /\ todo' = open /\ rpc' = "flush"
  /\ UNCHANGED <<eof, loop, restarts, request, queue, dec, frames, rindex_shown,
                 control, present, stop, asked>>

SeekFails ==
  /\ rpc = "seek" /\ SeekMayFail
  /\ rpc' = "seek_failed"
  /\ UNCHANGED <<demuxer, todo, eof, eof_happened, loop, restarts, request, queue,
                 dec, frames, rindex_shown, control, present, stop, asked>>

(* packet_queue_flush, the audio queue first                               *)
SeekFlush(s) ==
  /\ rpc = "flush" /\ IsNext(s)
  /\ queue' = [queue EXCEPT ![s] = packet_queue_flush(@)]
  /\ todo' = todo \ {s}
  /\ UNCHANGED <<demuxer, rpc, eof, eof_happened, loop, restarts, request, dec, frames,
                 rindex_shown, control, present, stop, asked>>

(* the request is done, whether it failed or not, and with it any that was *)
(* set since it was looked at                                              *)
SeekDone ==
  /\ rpc = "seek_failed" \/ (rpc = "flush" /\ todo = {})
  /\ seek_req' = FALSE /\ eof' = FALSE /\ rpc' = "sought"
  /\ UNCHANGED <<demuxer, todo, eof_happened, loop, restarts, seek_pos, queue, dec,
                 frames, rindex_shown, control, present, stop, asked>>

(* a paused player steps to the new position                               *)
SeekPaused ==
  /\ rpc = "sought"
  /\ rpc' = IF paused THEN "step" ELSE "full"
  /\ UNCHANGED <<demuxer, todo, eof, eof_happened, loop, restarts, request, queue,
                 dec, frames, rindex_shown, control, present, stop, asked>>

(* step_to_next_frame, called by read_thread: paused is tested again ...   *)
ReadStepTest ==
  /\ rpc = "step"
  /\ rpc' = IF paused THEN "toggle" ELSE "set_step"
  /\ UNCHANGED <<demuxer, todo, eof, eof_happened, loop, restarts, request, queue,
                 dec, frames, rindex_shown, control, present, stop, asked>>

(* ... negated (stream_toggle_pause, no callback) ...                      *)
ReadToggleLoad ==
  /\ rpc = "toggle"
  /\ rpc' = IF paused THEN "resume" ELSE "pause"
  /\ UNCHANGED <<demuxer, todo, eof, eof_happened, loop, restarts, request, queue,
                 dec, frames, rindex_shown, control, present, stop, asked>>

ReadToggleStore ==
  /\ rpc \in {"resume", "pause"}
  /\ paused' = (rpc = "pause") /\ rpc' = "set_step"
  /\ UNCHANGED <<demuxer, todo, eof, eof_happened, loop, restarts, request, queue,
                 dec, frames, rindex_shown, step, present, stop, asked>>

(* ... then step is set                                                    *)
ReadStepSet ==
  /\ rpc = "set_step"
  /\ step' = TRUE /\ rpc' = "full"
  /\ UNCHANGED <<demuxer, todo, eof, eof_happened, loop, restarts, request, queue,
                 dec, frames, rindex_shown, paused, present, stop, asked>>

(* stream_has_enough_packets                                               *)
Enough(s) == queue[s].abort_request \/ queue[s].nb_packets > MinFrames

QueuedBytes ==
  LET bytes(s) == IF s \in Streams THEN queue[s].size ELSE 0
  IN  bytes(Audio) + bytes(Video)

(* Mutant: no limit as long as one queue is short of packets. *)
QueuesEnough == \A s \in Streams : Enough(s)

(* enough is queued: wait up to 10 ms, then start over.  (The sizes are    *)
(* read one by one; only this thread makes them grow.)                     *)
QueuesFull == QueuedBytes > QueueLimit \/ \A s \in Streams : Enough(s)

ReadCheckFull ==
  /\ rpc = "full"
  /\ rpc' = IF QueuesFull THEN "top" ELSE "eof"
  /\ UNCHANGED <<demuxer, todo, eof, eof_happened, loop, restarts, request, queue,
                 dec, frames, rindex_shown, control, present, stop, asked>>

(* Has everything been played?  Not while paused; then, stream by stream,  *)
(* audio first, the decoder must have drained the codec in the present     *)
(* stretch ...                                                             *)
PlayedTest ==
  /\ rpc = "eof"
  /\ rpc' = (IF paused THEN "read" ELSE "finished")
  /\ todo' = (IF paused THEN todo ELSE open)
  /\ UNCHANGED <<demuxer, eof, eof_happened, loop, restarts, request, queue,
                 dec, frames, rindex_shown, control, present, stop, asked>>

(* Mutant: an empty packet queue is taken for the end. *)
FinishedTestNoPackets(s) ==
  /\ rpc = "finished" /\ IsNext(s)
  /\ IF pos = End /\ queue[s].nb_packets = 0
       THEN rpc' = "remaining" /\ todo' = todo
       ELSE rpc' = "read" /\ todo' = {}
  /\ UNCHANGED <<demuxer, eof, eof_happened, loop, restarts, request, queue,
                 dec, frames, rindex_shown, control, present, stop, asked>>

FinishedTest(s) ==
  /\ rpc = "finished" /\ IsNext(s)
  /\ IF dec[s].finished = queue[s].serial
       THEN rpc' = "remaining" /\ todo' = todo
       ELSE rpc' = "read" /\ todo' = {}
  /\ UNCHANGED <<demuxer, eof, eof_happened, loop, restarts, request, queue,
                 dec, frames, rindex_shown, control, present, stop, asked>>

(* ... and no frame of it be left to present.                              *)
RemainingTest(s) ==
  /\ rpc = "remaining" /\ IsNext(s)
  /\ IF Remaining(s) = 0
       THEN todo' = todo \ {s} /\ rpc' = IF todo = {s} THEN "played" ELSE "finished"
       ELSE rpc' = "read" /\ todo' = {}
  /\ UNCHANGED <<demuxer, eof, eof_happened, loop, restarts, request, queue,
                 dec, frames, rindex_shown, control, present, stop, asked>>

(* loop != 1 && (!loop || --loop): on_player_restart, then stream_seek     *)
(* tests seek_req ...                                                      *)
Restart ==
  /\ rpc = "played" /\ loop # 1
  /\ loop' = IF loop = 0 THEN 0 ELSE loop - 1
  /\ restarts' = restarts + 1
  /\ rpc' = IF seek_req THEN "read" ELSE "seek_pos"
  /\ UNCHANGED <<demuxer, todo, eof, eof_happened, request, queue, dec, frames,
                 rindex_shown, control, present, stop, asked>>

(* ... writes seek_pos ...                                                 *)
RestartSeekPos ==
  /\ rpc = "seek_pos"
  /\ seek_pos' = StartTime /\ rpc' = "seek_req"
  /\ UNCHANGED <<demuxer, todo, eof, eof_happened, loop, restarts, seek_req, queue, dec,
                 frames, rindex_shown, control, present, stop, asked>>

(* ... and sets seek_req                                                   *)
RestartSeekReq ==
  /\ rpc = "seek_req"
  /\ seek_req' = TRUE /\ rpc' = "read"
  /\ UNCHANGED <<demuxer, todo, eof, eof_happened, loop, restarts, seek_pos, queue, dec,
                 frames, rindex_shown, control, present, stop, asked>>

(* on_player_auto_exit, goto fail: abort_play                              *)
AutoExits ==
  /\ rpc = "played" /\ loop = 1 /\ AutoExit
  /\ abort_play' = TRUE /\ rpc' = "exit"
  /\ UNCHANGED <<demuxer, todo, eof, eof_happened, loop, restarts, request, queue,
                 dec, frames, rindex_shown, control, present, abort_request, open, asked>>

(* on_stream_eof, once                                                     *)
StaysAtEnd ==
  /\ rpc = "played" /\ loop = 1 /\ ~AutoExit
  /\ eof_happened' = TRUE /\ rpc' = "read"
  /\ UNCHANGED <<demuxer, todo, eof, loop, restarts, request, queue, dec, frames,
                 rindex_shown, control, present, stop, asked>>

(* av_read_frame and the packet_queue_put of the stream's queue            *)
ReadPacket ==
  /\ rpc = "read" /\ pos < End
  /\ pos' = pos + 1 /\ eof' = FALSE
  /\ LET s == Layout[pos + 1] IN
       queue' = [queue EXCEPT ![s] = packet_queue_put(@, [gen |-> gen, pos |-> pos + 1])]
  /\ rpc' = "top"
  /\ UNCHANGED <<gen, todo, eof_happened, loop, restarts, request, dec, frames,
                 rindex_shown, control, present, stop, asked>>

(* Mutant: the video decoder is not told to drain. *)
ReadEofAudioOnly ==
  /\ rpc = "read" /\ pos = End
  /\ eof' = TRUE
  /\ queue' = IF eof \/ Audio \notin Streams THEN queue
              ELSE [queue EXCEPT ![Audio] = packet_queue_put(@, NullPacket)]
  /\ rpc' = "top"
  /\ UNCHANGED <<demuxer, todo, eof_happened, loop, restarts, request, dec, frames,
                 rindex_shown, control, present, stop, asked>>

(* AVERROR_EOF: a null packet for every stream, once; wait, start over     *)
ReadEof ==
  /\ rpc = "read" /\ pos = End
  /\ eof' = TRUE
  /\ queue' = IF eof THEN queue
              ELSE [s \in Streams |-> packet_queue_put(queue[s], NullPacket)]
  /\ rpc' = "top"
  /\ UNCHANGED <<demuxer, todo, eof_happened, loop, restarts, request, dec, frames,
                 rindex_shown, control, present, stop, asked>>
-----------------------------------------------------------------------------
(* The decoder thread of stream s: Decoder's steps, those that touch no    *)
(* shared state joined to their neighbours.                                *)

others == <<demuxer, reader, request, control, present, stop, asked>>

(* decoder_decode_frame's first test: after a flush, fetch; else receive.  *)
(* (Aborted: the thread ends.)                                             *)
Receive(s) ==
  LET d == dec[s] IN
  /\ d.pc = "receive" /\ UNCHANGED <<queue, frames, rindex_shown, others>>
  /\ \/ (* d->queue->serial # d->pkt_serial *)
        /\ queue[s].serial # d.pkt_serial
        /\ dec' = [dec EXCEPT ![s].pc = "fetch"]
     \/ /\ queue[s].serial = d.pkt_serial /\ queue[s].abort_request
        /\ dec' = [dec EXCEPT ![s].pc = "exit"]
     \/ (* a frame *)
        /\ queue[s].serial = d.pkt_serial /\ ~queue[s].abort_request
        /\ d.codec # <<>>
        /\ dec' = [dec EXCEPT ![s].pc = "queue", ![s].codec = Tail(d.codec),
                              ![s].frame = Head(d.codec)]
     \/ (* AVERROR_EOF *)
        /\ queue[s].serial = d.pkt_serial /\ ~queue[s].abort_request
        /\ d.draining /\ d.codec = <<>>
        /\ dec' = [dec EXCEPT ![s].finished = d.pkt_serial, ![s].draining = FALSE]
     \/ (* AVERROR(EAGAIN) *)
        /\ queue[s].serial = d.pkt_serial /\ ~queue[s].abort_request
        /\ ~d.draining /\ Len(d.codec) <= CodecDelay
        /\ dec' = [dec EXCEPT ![s].pc = "fetch"]

(* Mutant: the codec is not reset by a packet of another stretch. *)
FetchNoReset(s) ==
  /\ dec[s].pc = "fetch" /\ CanGet(queue[s])
  /\ queue' = [queue EXCEPT ![s] = packet_queue_get(@)]
  /\ dec' = [dec EXCEPT ![s] =
       [@ EXCEPT !.pc = "send", !.pkt = Got(queue[s]).pkt,
                 !.pkt_serial = Got(queue[s]).serial]]
  /\ UNCHANGED <<frames, rindex_shown, others>>

(* packet_queue_get; a packet of another stretch resets the codec          *)
Fetch(s) ==
  LET d   == dec[s]
      got == Got(queue[s])
      new == d.pkt_serial # got.serial IN
  /\ d.pc = "fetch" /\ CanGet(queue[s])
  /\ queue' = [queue EXCEPT ![s] = packet_queue_get(@)]
  /\ dec' = [dec EXCEPT ![s] =
       [@ EXCEPT !.pc = "send", !.pkt = got.pkt, !.pkt_serial = got.serial,
                 !.codec    = IF new THEN <<>>  ELSE d.codec,
                 !.draining = IF new THEN FALSE ELSE d.draining,
                 !.finished = IF new THEN 0     ELSE d.finished]]
  /\ UNCHANGED <<frames, rindex_shown, others>>

FetchAborted(s) ==
  /\ dec[s].pc = "fetch" /\ queue[s].abort_request
  /\ dec' = [dec EXCEPT ![s].pc = "exit"]
  /\ UNCHANGED <<queue, frames, rindex_shown, others>>

(* Mutant: finished is set when draining starts, not when it ends. *)
SendFinishes(s) ==
  LET d == dec[s] IN
  /\ d.pc = "send"
  /\ dec' = [dec EXCEPT ![s] =
       IF queue[s].serial # d.pkt_serial THEN [@ EXCEPT !.pc = "fetch"]
       ELSE IF IsNull(d.pkt) THEN [@ EXCEPT !.pc = "receive", !.draining = TRUE,
                                            !.finished = d.pkt_serial]
       ELSE [@ EXCEPT !.pc = "receive",
                      !.codec = IF d.draining THEN d.codec ELSE
                        Append(d.codec, [gen |-> d.pkt.gen, pos |-> d.pkt.pos,
                                         serial |-> d.pkt_serial])]]
  /\ UNCHANGED <<queue, frames, rindex_shown, others>>

(* the second comparison: a stale packet is dropped, another one is sent   *)
Send(s) ==
  LET d == dec[s] IN
  /\ d.pc = "send"
  /\ dec' = [dec EXCEPT ![s] =
       IF queue[s].serial # d.pkt_serial THEN [@ EXCEPT !.pc = "fetch"]
       ELSE IF IsNull(d.pkt) THEN [@ EXCEPT !.pc = "receive", !.draining = TRUE]
       ELSE [@ EXCEPT !.pc = "receive",
                      !.codec = IF d.draining THEN d.codec ELSE
                        Append(d.codec, [gen |-> d.pkt.gen, pos |-> d.pkt.pos,
                                         serial |-> d.pkt_serial])]]
  /\ UNCHANGED <<queue, frames, rindex_shown, others>>

(* queue_picture, audio_thread: the frame is pushed with d->pkt_serial     *)
QueueFrame(s) ==
  /\ dec[s].pc = "queue" /\ ~queue[s].abort_request /\ Room(s)
  /\ frames' = [frames EXCEPT ![s] =
       Append(@, [dec[s].frame EXCEPT !.serial = dec[s].pkt_serial])]
  /\ dec' = [dec EXCEPT ![s].pc = "receive"]
  /\ UNCHANGED <<queue, rindex_shown, others>>

(* get_video_frame: the picture is late and more packets are queued        *)
DropEarly ==
  /\ FrameDrop /\ Video \in Streams
  /\ dec[Video].pc = "queue" /\ queue[Video].nb_packets > 0
  /\ dec' = [dec EXCEPT ![Video].pc = "receive"]
  /\ UNCHANGED <<queue, frames, rindex_shown, others>>

(* frame_queue_peek_writable returns NULL                                  *)
QueueAborted(s) ==
  /\ dec[s].pc = "queue" /\ queue[s].abort_request
  /\ dec' = [dec EXCEPT ![s].pc = "exit"]
  /\ UNCHANGED <<queue, frames, rindex_shown, others>>
-----------------------------------------------------------------------------
(* The audio callback: audio_decode_frame                                  *)

(* not paused; in a player that stops, pop_audio_thread leaves its loop    *)
AudioStarts ==
  /\ apc = "idle" /\ ~paused /\ Audio \in open /\ ~abort_request /\ ~abort_play
  /\ apc' = "take"
  /\ UNCHANGED <<demuxer, reader, request, queue, dec, frames, rindex_shown,
                 control, epc, vp, after, shown, stop, asked>>

(* Mutant: serials are not compared. *)
AudioTakesAny ==
  /\ apc = "take" /\ Remaining(Audio) > 0 /\ ~queue[Audio].abort_request
  /\ NextFrame(Audio)
  /\ apc' = "idle" /\ shown' = [shown EXCEPT ![Audio] = Head(frames[Audio])]
  /\ UNCHANGED <<demuxer, reader, request, queue, dec, control, epc, vp, after, stop, asked>>

(* frame_queue_next, then the comparison: a stale frame is skipped and the *)
(* next one is taken                                                       *)
AudioTakes ==
  /\ apc = "take" /\ Remaining(Audio) > 0 /\ ~queue[Audio].abort_request
  /\ NextFrame(Audio)
  /\ LET af == Head(frames[Audio]) IN
       IF Fresh(Audio, af)
         THEN apc' = "idle" /\ shown' = [shown EXCEPT ![Audio] = af]
         ELSE UNCHANGED <<apc, shown>>
  /\ UNCHANGED <<demuxer, reader, request, queue, dec, control, epc, vp, after, stop, asked>>

(* no frame for too long, or the queue was aborted: silence                *)
AudioSilence ==
  /\ apc = "take" /\ (Remaining(Audio) = 0 \/ queue[Audio].abort_request)
  /\ apc' = "idle"
  /\ UNCHANGED <<demuxer, reader, request, queue, dec, frames, rindex_shown,
                 control, epc, vp, after, shown, stop, asked>>
-----------------------------------------------------------------------------
(* The event loop: video_refresh                                           *)

Refreshes == epc = "loop" /\ ~abort_play /\ Video \in open /\ Remaining(Video) > 0

(* a picture of another stretch is dropped                                 *)
RefreshStale ==
  /\ Refreshes /\ ~Fresh(Video, Head(frames[Video]))
  /\ NextFrame(Video)
  /\ UNCHANGED <<queue, dec, others>>

(* the picture to be shown next                                            *)
Dequeue ==
  /\ Refreshes /\ Fresh(Video, Head(frames[Video]))
  /\ vp' = Head(frames[Video]) /\ epc' = "due"
  /\ UNCHANGED <<demuxer, reader, request, queue, dec, frames, rindex_shown,
                 control, apc, after, shown, stop, asked>>

(* paused, or too early                                                    *)
NotDue ==
  /\ epc = "due"
  /\ epc' = "loop" /\ vp' = NoFrame
  /\ UNCHANGED <<demuxer, reader, request, queue, dec, frames, rindex_shown,
                 control, apc, after, shown, stop, asked>>

Due ==
  /\ epc = "due" /\ ~paused
  /\ epc' = "show"
  /\ UNCHANGED <<demuxer, reader, request, queue, dec, frames, rindex_shown,
                 control, vp, apc, after, shown, stop, asked>>

(* the picture after it is due too: this one is dropped as late            *)
DropLate ==
  /\ epc = "show" /\ FrameDrop /\ ~step /\ Remaining(Video) > 1
  /\ NextFrame(Video)
  /\ epc' = "loop" /\ vp' = NoFrame
  /\ UNCHANGED <<demuxer, reader, request, queue, dec, control, apc, after, shown, stop,
                 asked>>

(* frame_queue_next, and video_display                                     *)
ShowPicture ==
  /\ epc = "show"
  /\ NextFrame(Video)
  /\ shown' = [shown EXCEPT ![Video] = vp]
  /\ epc' = "shown" /\ vp' = NoFrame
  /\ UNCHANGED <<demuxer, reader, request, queue, dec, control, apc, after, stop, asked>>

(* Mutant: a step does not end. *)
GoOn ==
  /\ epc = "shown"
  /\ epc' = "loop"
  /\ UNCHANGED <<demuxer, reader, request, queue, dec, frames, rindex_shown, control,
                 vp, apc, after, shown, stop, asked>>

(* a step ends in a pause, without a callback                              *)
EndStep ==
  /\ epc = "shown"
  /\ epc' = IF step /\ ~paused THEN "toggle" ELSE "loop"
  /\ UNCHANGED <<demuxer, reader, request, queue, dec, frames, rindex_shown, control,
                 vp, apc, after, shown, stop, asked>>
-----------------------------------------------------------------------------
(* The event loop: tasks the application pushed                            *)

TaskRuns == epc = "loop" /\ ~abort_play

(* Mutant: a request is made although one is pending. *)
RequestSeekAgain ==
  /\ TaskRuns /\ seeks < MaxSeeks
  /\ seeks' = seeks + 1
  /\ epc' = "seek_pos"
  /\ UNCHANGED <<demuxer, reader, request, queue, dec, frames, rindex_shown,
                 control, vp, apc, after, shown, stop, toggles, steps>>

(* request_seek_file: stream_seek tests seek_req ...                       *)
RequestSeek ==
  /\ TaskRuns /\ seeks < MaxSeeks
  /\ seeks' = seeks + 1
  /\ epc' = IF seek_req THEN "loop" ELSE "seek_pos"
  /\ UNCHANGED <<demuxer, reader, request, queue, dec, frames, rindex_shown,
                 control, vp, apc, after, shown, stop, toggles, steps>>

(* ... writes seek_pos ...                                                 *)
RequestSeekPos(target) ==
  /\ epc = "seek_pos"
  /\ seek_pos' = target /\ epc' = "seek_req"
  /\ UNCHANGED <<demuxer, reader, seek_req, queue, dec, frames, rindex_shown, control,
                 vp, apc, after, shown, stop, asked>>

(* ... and sets seek_req                                                   *)
RequestSeekReq ==
  /\ epc = "seek_req"
  /\ seek_req' = TRUE /\ epc' = "loop"
  /\ UNCHANGED <<demuxer, reader, seek_pos, queue, dec, frames, rindex_shown, control,
                 vp, apc, after, shown, stop, asked>>

(* stream_toggle_pause: paused is loaded and its negation stored           *)
ToggleLoad ==
  /\ epc = "toggle"
  /\ epc' = IF paused THEN "resume" ELSE "pause"
  /\ UNCHANGED <<demuxer, reader, request, queue, dec, frames, rindex_shown, control,
                 vp, apc, after, shown, stop, asked>>

ToggleStore ==
  /\ epc \in {"resume", "pause"}
  /\ paused' = (epc = "pause") /\ epc' = after /\ after' = "loop"
  /\ UNCHANGED <<demuxer, reader, request, queue, dec, frames, rindex_shown, step,
                 vp, apc, shown, stop, asked>>

(* toggle_pause: stream_toggle_pause, ...                                  *)
TogglePause ==
  /\ TaskRuns /\ toggles < MaxToggles
  /\ toggles' = toggles + 1
  /\ epc' = "toggle" /\ after' = "clear_step"
  /\ UNCHANGED <<demuxer, reader, request, queue, dec, frames, rindex_shown, control,
                 vp, apc, shown, stop, seeks, steps>>

(* ... then step is cleared                                                *)
ClearStep ==
  /\ epc = "clear_step"
  /\ step' = FALSE /\ epc' = "loop"
  /\ UNCHANGED <<demuxer, reader, request, queue, dec, frames, rindex_shown,
                 paused, vp, apc, after, shown, stop, asked>>

(* step_to_next_frame: stream_toggle_pause if paused, ...                  *)
StepToNextFrame ==
  /\ TaskRuns /\ steps < MaxSteps
  /\ steps' = steps + 1
  /\ IF paused THEN epc' = "toggle" /\ after' = "set_step"
               ELSE epc' = "set_step" /\ after' = after
  /\ UNCHANGED <<demuxer, reader, request, queue, dec, frames, rindex_shown, control,
                 vp, apc, shown, stop, seeks, toggles>>

(* ... then step is set                                                    *)
SetStep ==
  /\ epc = "set_step"
  /\ step' = TRUE /\ epc' = "loop"
  /\ UNCHANGED <<demuxer, reader, request, queue, dec, frames, rindex_shown,
                 paused, vp, apc, after, shown, stop, asked>>
-----------------------------------------------------------------------------
(* Stopping                                                                *)

(* stop_player, from the application's thread                              *)
StopPlayer ==
  /\ ~abort_play /\ abort_play' = TRUE
  /\ UNCHANGED <<demuxer, reader, request, queue, dec, frames, rindex_shown, control,
                 present, abort_request, open, asked>>

(* Mutant: read_thread is joined without being told to stop. *)
StreamCloseUntold ==
  /\ epc = "loop" /\ abort_play
  /\ epc' = "join_read"
  /\ UNCHANGED <<demuxer, reader, request, queue, dec, frames, rindex_shown, control,
                 vp, apc, after, shown, stop, asked>>

(* the event loop leaves its loop: stream_close                            *)
StreamClose ==
  /\ epc = "loop" /\ abort_play
  /\ abort_request' = TRUE /\ epc' = "join_read"
  /\ UNCHANGED <<demuxer, reader, request, queue, dec, frames, rindex_shown, control,
                 vp, apc, after, shown, abort_play, open, asked>>

JoinReadThread ==
  /\ epc = "join_read" /\ rpc = "exit"
  /\ epc' = "abort"
  /\ UNCHANGED <<demuxer, reader, request, queue, dec, frames, rindex_shown, control,
                 vp, apc, after, shown, stop, asked>>

(* stream_component_close, audio first: decoder_abort aborts both queues,  *)
(* joins the decoder thread and flushes; then the audio callback is joined *)
AbortComponent(s) ==
  /\ epc = "abort" /\ s \in open /\ (s = Video => Audio \notin open)
  /\ queue' = [queue EXCEPT ![s] = packet_queue_abort(@)]
  /\ epc' = "join"
  /\ UNCHANGED <<demuxer, reader, request, dec, frames, rindex_shown, control,
                 vp, apc, after, shown, stop, asked>>

JoinComponent(s) ==
  /\ epc = "join" /\ s \in open /\ queue[s].abort_request
  /\ dec[s].pc = "exit" /\ (s = Audio => apc = "idle")
  /\ queue' = [queue EXCEPT ![s] = packet_queue_flush(@)]
  /\ open' = open \ {s} /\ epc' = "abort"
  /\ UNCHANGED <<demuxer, reader, request, dec, frames, rindex_shown, control,
                 vp, apc, after, shown, abort_play, abort_request, asked>>

Closed == epc = "abort" /\ open = {}
-----------------------------------------------------------------------------
Init ==
  /\ gen = 1 /\ pos = 0
  /\ rpc = "top" /\ todo = {} /\ eof = FALSE /\ eof_happened = FALSE
  /\ loop = Loop /\ restarts = 0
  /\ seek_req = FALSE /\ seek_pos = 0
  /\ queue = [s \in Streams |-> packet_queue_start(packet_queue_init)]
  /\ dec = [s \in Streams |-> NewDecoder]
  /\ frames = [s \in Streams |-> <<>>] /\ rindex_shown = [s \in Streams |-> FALSE]
  /\ paused = FALSE /\ step = FALSE
  /\ epc = "loop" /\ vp = NoFrame /\ apc = "idle" /\ after = "loop"
  /\ abort_play = FALSE /\ abort_request = FALSE /\ open = Streams
  /\ shown = [s \in Streams |-> NoFrame]
  /\ seeks = 0 /\ toggles = 0 /\ steps = 0

ReadThread ==
  \/ ReadTop \/ SeekFile \/ SeekFails \/ (\E s \in Streams : SeekFlush(s)) \/ SeekDone
  \/ SeekPaused \/ ReadStepTest \/ ReadToggleLoad \/ ReadToggleStore \/ ReadStepSet
  \/ ReadCheckFull \/ PlayedTest \/ (\E s \in Streams : FinishedTest(s) \/ RemainingTest(s))
  \/ Restart \/ RestartSeekPos \/ RestartSeekReq \/ AutoExits \/ StaysAtEnd
  \/ ReadPacket \/ ReadEof

DecoderThread(s) ==
  Receive(s) \/ Fetch(s) \/ FetchAborted(s) \/ Send(s) \/ QueueFrame(s) \/ QueueAborted(s)

AudioThread == AudioStarts \/ AudioTakes \/ AudioSilence

Refresh ==
  \/ RefreshStale \/ Dequeue \/ NotDue \/ Due \/ DropLate \/ ShowPicture \/ EndStep

FinishTask ==
  \/ (\E t \in SeekTargets : RequestSeekPos(t)) \/ RequestSeekReq
  \/ ToggleLoad \/ ToggleStore \/ ClearStep \/ SetStep

Close ==
  \/ StreamClose \/ JoinReadThread
  \/ \E s \in Streams : AbortComponent(s) \/ JoinComponent(s)

Application == RequestSeek \/ TogglePause \/ StepToNextFrame \/ StopPlayer

Next ==
  \/ ReadThread
  \/ (\E s \in Streams : DecoderThread(s)) \/ DropEarly
  \/ AudioThread
  \/ Refresh \/ FinishTask \/ Close
  \/ Application

Spec == Init /\ [][Next]_vars

(* Every thread runs when it can: read_thread, the decoders, the audio      *)
(* callback, and the event loop, which goes through with what it has begun. *)
(* While paused it does not begin video_refresh; else a picture looked at   *)
(* again and again becomes due, as time passes.  Nothing obliges the        *)
(* application to do anything.                                              *)
FairSpec ==
  /\ Spec
  /\ WF_vars(ReadThread) /\ WF_vars(AudioThread)
  /\ \A s \in Streams : WF_vars(DecoderThread(s))
  /\ WF_vars(~paused /\ (RefreshStale \/ Dequeue))
  /\ WF_vars(epc # "loop" /\ Refresh) /\ SF_vars(Due)
  /\ WF_vars(FinishTask) /\ WF_vars(Close)
-----------------------------------------------------------------------------
Frame == [gen : Nat, pos : 0 .. End, serial : Nat]

DecoderType ==
  [pc : {"receive", "fetch", "send", "queue", "exit"}, pkt : AVPacket,
   pkt_serial : Nat \cup {-1}, finished : Nat, codec : Seq(Frame),
   draining : BOOLEAN, frame : Frame]

ControlType ==
  /\ rpc \in {"top", "seek", "flush", "seek_failed", "sought", "step", "toggle", "resume",
              "pause", "set_step", "full", "eof", "finished", "remaining", "played",
              "seek_pos", "seek_req", "read", "exit"}
  /\ todo \subseteq Streams /\ open \subseteq Streams
  /\ eof \in BOOLEAN /\ eof_happened \in BOOLEAN /\ seek_req \in BOOLEAN
  /\ paused \in BOOLEAN /\ step \in BOOLEAN
  /\ abort_play \in BOOLEAN /\ abort_request \in BOOLEAN
  /\ loop \in 0 .. Loop /\ restarts \in Nat /\ seek_pos \in 0 .. End
  /\ epc \in {"loop", "due", "show", "shown", "seek_pos", "seek_req", "toggle", "resume", "pause",
              "clear_step", "set_step", "join_read", "abort", "join"}
  /\ after \in {"loop", "clear_step", "set_step"} /\ apc \in {"idle", "take"}
  /\ seeks \in 0 .. MaxSeeks /\ toggles \in 0 .. MaxToggles /\ steps \in 0 .. MaxSteps

DataType ==
  /\ gen \in Nat /\ pos \in 0 .. End
  /\ queue \in [Streams -> PacketQueueType]
  /\ dec \in [Streams -> DecoderType]
  /\ frames \in [Streams -> Seq(Frame)] /\ rindex_shown \in [Streams -> BOOLEAN]
  /\ vp \in Frame /\ shown \in [Streams -> Frame]

TypeOK == ControlType /\ DataType

(* What carries the serial of the queue's present stretch was read from the *)
(* file after the last seek: serials, compared without locks by three       *)
(* threads, tell stale data from fresh everywhere along the pipeline.  The  *)
(* exception is a queue whose flush the seek under way has yet to do.       *)
StretchIsGeneration ==
  \A s \in Streams \ (IF rpc = "flush" THEN todo ELSE {}) :
    LET d     == dec[s]
        Now   == {queue[s].pkt_list[i].pkt : i \in 1 .. queue[s].nb_packets}
                   \cup (IF d.pc = "send" /\ d.pkt_serial = queue[s].serial
                           THEN {d.pkt} ELSE {})
        Later == {f \in {d.codec[i] : i \in DOMAIN d.codec}
                          \cup {frames[s][i] : i \in DOMAIN frames[s]} \cup {d.frame} :
                    Fresh(s, f)}
    IN  /\ \A p \in Now : IsNull(p) \/ p.gen = gen
        /\ \A f \in Later : f.gen = gen

(* Pictures and sound appear in the order of the file, seek after seek, none *)
(* twice; and once a seek has flushed the queue of a stream, no frame of it  *)
(* read before the seek is chosen for presentation, though decoders and      *)
(* frame queues still hold some (a picture already chosen is still shown).   *)
IsLater(f, g) == f.gen > g.gen \/ (f.gen = g.gen /\ f.pos > g.pos)
Current(s, f) == f.gen = gen \/ (rpc = "flush" /\ s \in todo)

PresentsInOrder ==
  [][/\ \A s \in Streams : shown'[s] # shown[s] => IsLater(shown'[s], shown[s])
     /\ \A s \in Streams \ {Video} : shown'[s] # shown[s] => Current(s, shown'[s])
     /\ vp' \notin {vp, NoFrame} => Current(Video, vp')]_vars

(* When read_thread has found everything played, from unlocked reads, made   *)
(* one after the other, of what decoders and presenters write meanwhile, the *)
(* whole file has been read and no packet or frame of it is left before a    *)
(* presenter: nothing is cut off by a restart, an exit or on_stream_eof.     *)
EofTruth ==
  rpc = "played" =>
    /\ pos = End
    /\ \A s \in open : LET d == dec[s] IN
         /\ \A i \in DOMAIN queue[s].pkt_list : IsNull(queue[s].pkt_list[i].pkt)
         /\ d.codec = <<>> /\ d.pc # "queue" /\ frames[s] = <<>>
         /\ d.pc = "send" => IsNull(d.pkt) \/ d.pkt_serial # queue[s].serial

(* One stream as a line, each element with its position in the file and the  *)
(* serial it goes by: the frames queued, the frame the decoder holds (which *)
(* it queues under its pkt_serial), the codec, the packet fetched, the      *)
(* packets queued.                                                         *)
FramesOf(fs)  == [i \in 1 .. Len(fs) |-> [id |-> fs[i].pos, serial |-> fs[i].serial]]
FrameHeld(d)  == IF d.pc = "queue" THEN <<[id |-> d.frame.pos, serial |-> d.pkt_serial]>> ELSE <<>>
PacketHeld(d) == IF d.pc = "send" THEN <<[id |-> d.pkt.pos, serial |-> d.pkt_serial]>> ELSE <<>>
PacketsOf(q)  == [i \in 1 .. Len(q.pkt_list) |->
                    [id |-> q.pkt_list[i].pkt.pos, serial |-> q.pkt_list[i].serial]]

Way(fs, d, q) ==
  FramesOf(fs) \o FrameHeld(d) \o FramesOf(d.codec) \o PacketHeld(d) \o PacketsOf(q)

Promise(s) == INSTANCE PacketLine WITH
  Id <- 0 .. End, line <- Way(frames[s], dec[s], queue[s]),
  stretch <- queue[s].serial, out <- shown[s].pos

(* From the demuxer to the presentation, through two queues, a codec and     *)
(* three threads, each stream is one line: whatever seeks, drops, drains and *)
(* aborts do to it, packets are lost but never passed by another, none comes *)
(* twice, and what is presented goes by the serial its own packet was put    *)
(* under, which is what tells a frame of before a seek from one after it.    *)
ImplementsLines ==
  /\ \A s \in Streams : Promise(s)!LineInit
  /\ [][\A s \in Streams : [Promise(s)!LineNext]_(Promise(s)!lvars)]_vars

(* However the decoders and presenters stall, the queues together exceed     *)
(* their limit by at most what one av_read_frame adds: a packet, or at the   *)
(* end of the file a null packet per stream.                                 *)
BufferBounded == QueuedBytes <= QueueLimit + 2

(* A request stands when seek_req is set, its position is written and no     *)
(* other stream_seek is between its test and its last write, nor read_thread *)
(* between reading seek_pos and clearing seek_req.                          *)
Stands(target) ==
  /\ seek_req /\ seek_pos = target /\ epc # "seek_pos"
  /\ rpc \notin {"seek_pos", "seek_req", "flush", "seek_failed"}

(* No later request overwrites one that stands, and no completion of an      *)
(* earlier one wipes it: it stands until the file is sought to the position  *)
(* it names, or the demuxer refuses.  (What two stream_seeks of two threads  *)
(* at once make of each other is excepted: one can be lost.)                 *)
Keeps ==
  \A t \in 0 .. End : Stands(t) =>
    \/ Stands(t)'
    \/ rpc' = "flush" /\ pos' = t
    \/ rpc' = "seek_failed"

RequestKept == [][Keeps]_vars

(* A request that stands is executed, to its own target: it is kept, and     *)
(* neither a pause nor full queues keep read_thread from it, unless the      *)
(* player stops.                                                             *)
SeekServed ==
  /\ RequestKept
  /\ Stands(seek_pos) ~> (rpc \in {"flush", "seek_failed"} \/ abort_play)

(* A player that is not paused gets to the end of the file (or leaves): the  *)
(* threads, each blocked on a full or an empty queue of another, never end   *)
(* up waiting for each other.                                                *)
PlayReachesEnd == ~paused ~> (paused \/ eof_happened \/ abort_play)

(* stop_player returns: read_thread, the decoders and the audio callback are *)
(* joined, in whatever state they were.                                      *)
StopTerminates == abort_play ~> Closed

(* A picture that step_to_next_frame may still come to: unread, or queued    *)
(* for the present stretch.                                                  *)
PictureAhead ==
  \/ \E i \in pos + 1 .. End : Layout[i] = Video
  \/ Video \in Streams /\ \E i \in DOMAIN frames[Video] : Fresh(Video, frames[Video][i])

(* A step, read_thread's after a seek or the application's, ends as long as  *)
(* a picture is left to step to: the player pauses again, unless the         *)
(* application takes the step back (toggle_pause clears it).  (Without       *)
(* FrameDrop: a decoder may drop the last picture as late.)                  *)
StepEndsAtPicture ==
  step /\ PictureAhead ~> (paused \/ ~step \/ abort_play)

(* The comment in step_to_next_frame, "if the stream is paused unpause it,   *)
(* then step", of any file: the stream is stepped, it does not play on.      *)
StepEnds == step ~> (paused \/ ~step \/ abort_play)
-----------------------------------------------------------------------------
(* The inductive invariant of Playback_proofs.  q, d and fs are the packet   *)
(* queue, the decoder and the frames of one stream.                        *)

(* no serial is ahead of the queue's, and the codec holds one stretch      *)
SerialInv(q, d, fs) ==
  /\ q.serial > 0 /\ q.nb_packets = Len(q.pkt_list) /\ OneSerial(q)
  /\ d.pkt_serial <= q.serial /\ d.finished <= q.serial /\ d.frame.serial <= q.serial
  /\ \A i \in DOMAIN d.codec : d.codec[i].serial = d.pkt_serial
  /\ d.pc = "queue" => d.frame.serial = d.pkt_serial
  /\ \A i \in DOMAIN fs : fs[i].serial <= q.serial

(* what has the queue's serial was read in generation g                    *)
GenInv(q, d, fs, g) ==
  /\ \A i \in DOMAIN q.pkt_list : IsNull(q.pkt_list[i].pkt) \/ q.pkt_list[i].pkt.gen = g
  /\ d.pc = "send" /\ d.pkt_serial = q.serial => IsNull(d.pkt) \/ d.pkt.gen = g
  /\ d.pkt_serial = q.serial => \A i \in DOMAIN d.codec : d.codec[i].gen = g
  /\ d.frame.serial = q.serial => d.frame.gen = g
  /\ \A i \in DOMAIN fs : fs[i].serial = q.serial => fs[i].gen = g

OnlyNulls(q) == \A i \in DOMAIN q.pkt_list : IsNull(q.pkt_list[i].pkt)

(* null packets are the last of a stretch, put when the file is read; a     *)
(* decoder that drains or has finished with this stretch has had one       *)
NullInv(q, d, p) ==
  /\ \A i \in DOMAIN q.pkt_list : IsNull(q.pkt_list[i].pkt) =>
       p = End /\ \A j \in i .. Len(q.pkt_list) : IsNull(q.pkt_list[j].pkt)
  /\ d.pkt_serial = q.serial /\ d.pc = "send" /\ IsNull(d.pkt) => p = End /\ OnlyNulls(q)
  /\ d.pkt_serial = q.serial /\ d.draining =>
       p = End /\ OnlyNulls(q) /\ (d.pc = "send" => IsNull(d.pkt))
  /\ d.finished = q.serial =>
       /\ d.pkt_serial = q.serial /\ p = End /\ OnlyNulls(q)
       /\ d.codec = <<>> /\ d.pc # "queue" /\ (d.pc = "send" => IsNull(d.pkt))

(* the seek under way has yet to flush the queue of s                      *)
Unflushed(s) == rpc = "flush" /\ s \in todo

StreamInv ==
  \A s \in Streams :
    /\ SerialInv(queue[s], dec[s], frames[s])
    /\ ~Unflushed(s) => GenInv(queue[s], dec[s], frames[s], gen) /\ NullInv(queue[s], dec[s], pos)

(* where the threads are, and what read_thread's test of the end has found *)
StageInv ==
  /\ open # Streams \/ epc \in {"abort", "join"} => rpc = "exit"
  /\ todo # {} => rpc \in {"flush", "finished", "remaining"}
  /\ epc \in {"due", "show"} => Video \in Streams /\ frames[Video] # <<>>
  /\ apc = "take" => Audio \in Streams
  /\ rpc \in {"finished", "remaining", "played"} =>
       \A s \in Streams \ todo : dec[s].finished = queue[s].serial /\ frames[s] = <<>>
  /\ rpc = "remaining" =>
       \A s \in Streams : IsNext(s) => dec[s].finished = queue[s].serial

IInv == TypeOK /\ StreamInv /\ StageInv

(* Buffering: sizes are what is queued, and read_thread goes on to read only *)
(* from queues below their limit, which nobody else fills.                   *)
MayRead ==
  rpc \in {"eof", "finished", "remaining", "played", "seek_pos", "seek_req", "read"}

BufferInv ==
  /\ \A s \in Streams : Counted(queue[s])
  /\ MayRead => QueuedBytes <= QueueLimit
  /\ BufferBounded

(* What of stream s is on its way, in groups from the presenter back to the  *)
(* demuxer: the frame presented last, those queued, the one the decoder     *)
(* holds, those in the codec, the packet fetched, the packets queued.      *)
Queued(fs) == {fs[i] : i \in DOMAIN fs}
InHand(d) == IF d.pc = "queue" THEN {d.frame} ELSE {}
InCodec(d) == {d.codec[i] : i \in DOMAIN d.codec}
Fetched(d) == IF d.pc = "send" /\ ~IsNull(d.pkt) THEN {d.pkt} ELSE {}
ToFetch(q) == {p \in {q.pkt_list[i].pkt : i \in DOMAIN q.pkt_list} : ~IsNull(p)}

(* every group is later in the file than those before it                    *)
AllLater(B, A) == \A b \in B, a \in A : IsLater(b, a)

InLine(A, B, C, D, E, F) ==
  /\ AllLater(B, A) /\ AllLater(C, A) /\ AllLater(D, A) /\ AllLater(E, A) /\ AllLater(F, A)
  /\ AllLater(C, B) /\ AllLater(D, B) /\ AllLater(E, B) /\ AllLater(F, B)
  /\ AllLater(D, C) /\ AllLater(E, C) /\ AllLater(F, C)
  /\ AllLater(E, D) /\ AllLater(F, D)
  /\ AllLater(F, E)

(* and ordered in itself                                                    *)
Ordered(fs) == \A i, j \in DOMAIN fs : i < j => IsLater(fs[j], fs[i])
OrderedPackets(q) ==
  \A i, j \in DOMAIN q.pkt_list :
    i < j /\ ~IsNull(q.pkt_list[i].pkt) /\ ~IsNull(q.pkt_list[j].pkt) =>
      IsLater(q.pkt_list[j].pkt, q.pkt_list[i].pkt)

(* the demuxer, at position p of generation g, has read all of it           *)
Read(A, g, p) == \A a \in A : a.gen < g \/ (a.gen = g /\ a.pos <= p)

LineInv(q, d, fs, last, g, p) ==
  /\ InLine({last}, Queued(fs), InHand(d), InCodec(d), Fetched(d), ToFetch(q))
  /\ Ordered(fs) /\ Ordered(d.codec) /\ OrderedPackets(q)
  /\ Read({last}, g, p) /\ Read(Queued(fs), g, p) /\ Read(InHand(d), g, p)
  /\ Read(InCodec(d), g, p) /\ Read(Fetched(d), g, p) /\ Read(ToFetch(q), g, p)

OrderInv ==
  /\ \A s \in Streams : LineInv(queue[s], dec[s], frames[s], shown[s], gen, pos)
  /\ epc \in {"due", "show"} => vp = Head(frames[Video])
=============================================================================
