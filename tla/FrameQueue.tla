----------------------------- MODULE FrameQueue -----------------------------
(***************************************************************************)
(* The ring of decoded frames between a decoder thread and the thread that *)
(* presents its frames (lib-player/ffplay.cpp, FrameQueue).  VideoState    *)
(* holds three, which differ in keep_last and in how they are consumed:    *)
(*   pictq  keep_last; the event loop polls it, shows the frame it just    *)
(*          took and may show it again;                                    *)
(*   sampq  keep_last; the audio callback blocks on it and plays from the  *)
(*          frame it took until it takes the next; in the _WIN32 build     *)
(*          (sampq_win32) it polls before it peeks;                        *)
(*   subpq  no keep_last; the event loop uses a frame only before taking.  *)
(*                                                                         *)
(* Granularity: a step per critical section and per access to shared       *)
(* fields outside one (the code reads and writes slots, rindex, windex and *)
(* abort_request with no lock).  A wait is two steps, the test and the     *)
(* wait proper, with the mutex held between them.                          *)
(***************************************************************************)
EXTENDS Integers, Sequences

CONSTANTS
  MaxSize,    (* max_size                                                  *)
  MaxFrames,  (* bound: frames decoded in a behaviour                      *)
  MaxOpens,   (* bound: times the component is opened                      *)
  Kinds       (* the queues considered, a subset of AllKinds               *)

AllKinds == {"pictq", "sampq", "sampq_win32", "subpq"}

(* Two places at least: with keep_last one of them holds the frame in use. *)
ASSUME QueueAssumption ==
  /\ MaxSize \in Nat /\ MaxSize >= 2
  /\ MaxFrames \in Nat /\ MaxOpens \in Nat
  /\ Kinds \subseteq AllKinds

VARIABLES
  kind,         (* which of the three queues this is                       *)
  queue,        (* slot -> number of the frame in it, 0 after unref        *)
  rindex, windex, size, rindex_shown,
  mutex,        (* who holds f->mutex between two steps, or Nobody         *)
  waiting,      (* threads waiting on f->cond and not signalled            *)
  abort_request,(* f->pktq->abort_request                                  *)
  wpc, rpc, cpc,(* writer, reader and closing thread                       *)
  held,         (* slots the reader has pointers to and may dereference    *)
  decoded,      (* number of the last frame the decoder produced           *)
  opens

ring == <<queue, rindex, windex, size, rindex_shown>>
sync == <<mutex, waiting>>
vars == <<kind, ring, sync, abort_request, wpc, rpc, cpc, held, decoded, opens>>

Nobody == "nobody"
Writer == "writer"
Reader == "reader"

Slots == 0 .. MaxSize - 1
keep_last == kind # "subpq"
Win32 == kind = "sampq_win32"
IsSampq == kind \in {"sampq", "sampq_win32"}

(* Mutant: the index is never reset. *)
AdvanceOnly(i) == i + 1

(* ++index, then reset to 0 at max_size                                    *)
Advance(i) == IF i + 1 = MaxSize THEN 0 ELSE i + 1

(* Mutant: the frame that is still in use is returned again. *)
PeekLastIndex == rindex

(* the slot frame_queue_peek and frame_queue_peek_readable return          *)
PeekIndex == (rindex + rindex_shown) % MaxSize

Remaining == size - rindex_shown       (* frame_queue_nb_remaining          *)

(* SDL_CondSignal: one of the waiting threads, if any, becomes runnable.   *)
CondSignal ==
  IF waiting = {} THEN waiting' = waiting
                  ELSE \E t \in waiting : waiting' = waiting \ {t}

(* SDL_CondWait may return although nobody signalled.                      *)
SpuriousWakeup ==
  /\ \E t \in waiting : waiting' = waiting \ {t}
  /\ UNCHANGED <<kind, ring, mutex, abort_request, wpc, rpc, cpc, held, decoded, opens>>

(* A thread can enter a critical section of f->mutex and leave it.         *)
MutexFree == mutex = Nobody
-----------------------------------------------------------------------------
(* The decoder thread.                                                     *)

(* decoder_decode_frame delivers a frame (from the packet queue side)      *)
DecodeFrame ==
  /\ wpc = "decode" /\ kind # "subpq" /\ ~abort_request
  /\ decoded < MaxFrames
  /\ decoded' = decoded + 1
  /\ wpc' = "test"
  /\ UNCHANGED <<kind, ring, sync, abort_request, rpc, cpc, held, opens>>

(* subtitle_thread obtains its slot first and decodes into it              *)
SubtitleLoop ==
  /\ wpc = "decode" /\ kind = "subpq"
  /\ wpc' = "test"
  /\ UNCHANGED <<kind, ring, sync, abort_request, rpc, cpc, held, decoded, opens>>

(* decoder_decode_frame returns -1: the thread function ends               *)
DecodeAborted ==
  /\ abort_request
  /\ wpc = IF kind = "subpq" THEN "fill" ELSE "decode"
  /\ wpc' = "done"
  /\ UNCHANGED <<kind, ring, sync, abort_request, rpc, cpc, held, decoded, opens>>

(* Mutants: one frame too many is let in; an abort does not end the wait. *)
WriterTestOffByOne ==
  /\ wpc = "test" /\ MutexFree /\ Writer \notin waiting
  /\ IF size > MaxSize /\ ~abort_request
       THEN mutex' = Writer /\ wpc' = "wait"
       ELSE mutex' = mutex /\ wpc' = "granted"
  /\ UNCHANGED <<kind, ring, waiting, abort_request, rpc, cpc, held, decoded, opens>>
WriterTestSizeOnly ==
  /\ wpc = "test" /\ MutexFree /\ Writer \notin waiting
  /\ IF size >= MaxSize
       THEN mutex' = Writer /\ wpc' = "wait"
       ELSE mutex' = mutex /\ wpc' = "granted"
  /\ UNCHANGED <<kind, ring, waiting, abort_request, rpc, cpc, held, decoded, opens>>

(* frame_queue_peek_writable: lock, evaluate the loop condition            *)
WriterTest ==
  /\ wpc = "test" /\ MutexFree /\ Writer \notin waiting
  /\ IF size >= MaxSize /\ ~abort_request
       THEN mutex' = Writer /\ wpc' = "wait"
       ELSE mutex' = mutex /\ wpc' = "granted"
  /\ UNCHANGED <<kind, ring, waiting, abort_request, rpc, cpc, held, decoded, opens>>

(* SDL_CondWait: release the mutex and wait, then test again               *)
WriterWait ==
  /\ wpc = "wait"
  /\ mutex' = Nobody /\ waiting' = waiting \cup {Writer} /\ wpc' = "test"
  /\ UNCHANGED <<kind, ring, abort_request, rpc, cpc, held, decoded, opens>>

(* after the unlock: abort_request is read again, without the lock         *)
WriterGranted ==
  /\ wpc = "granted"
  /\ wpc' = IF abort_request THEN "done" ELSE "fill"
  /\ UNCHANGED <<kind, ring, sync, abort_request, rpc, cpc, held, decoded, opens>>

(* queue_picture, audio_thread: the fields of the slot are assigned        *)
WriterFill ==
  /\ wpc = "fill" /\ kind # "subpq"
  /\ queue' = [queue EXCEPT ![windex] = decoded]
  /\ wpc' = "advance"
  /\ UNCHANGED <<kind, rindex, windex, size, rindex_shown, sync, abort_request,
                 rpc, cpc, held, decoded, opens>>

(* subtitle_thread: decode into the slot, publish it or free it again      *)
SubtitleFill ==
  /\ wpc = "fill" /\ kind = "subpq" /\ ~abort_request
  /\ decoded < MaxFrames
  /\ decoded' = decoded + 1
  /\ \/ queue' = [queue EXCEPT ![windex] = decoded'] /\ wpc' = "advance"
     \/ queue' = [queue EXCEPT ![windex] = 0] /\ wpc' = "decode"
  /\ UNCHANGED <<kind, rindex, windex, size, rindex_shown, sync, abort_request,
                 rpc, cpc, held, opens>>

(* frame_queue_push: windex moves before the lock ...                      *)
PushAdvance ==
  /\ wpc = "advance"
  /\ windex' = Advance(windex) /\ wpc' = "publish"
  /\ UNCHANGED <<kind, queue, rindex, size, rindex_shown, sync, abort_request,
                 rpc, cpc, held, decoded, opens>>

(* ... and the frame becomes visible inside it                             *)
PushPublish ==
  /\ wpc = "publish" /\ MutexFree
  /\ size' = size + 1 /\ CondSignal /\ wpc' = "decode"
  /\ UNCHANGED <<kind, queue, rindex, windex, rindex_shown, mutex, abort_request,
                 rpc, cpc, held, decoded, opens>>
-----------------------------------------------------------------------------
(* The thread that presents the frames.                                    *)

NextIndex == (rindex + rindex_shown + 1) % MaxSize   (* frame_queue_peek_next *)

(* The event loop is the reader of pictq and subpq and also closes them: it *)
(* reads only while the component is open.  The audio callback is called    *)
(* until SDL_CloseAudioDevice shuts the device down; the join of            *)
(* pop_audio_thread is reached with its loop condition false.               *)
ReaderRuns ==
  cpc = "open" \/ (IsSampq /\ cpc \in {"signal", "join_writer"})

(* video_refresh and video_image_display: pointers to the frame last shown, *)
(* the next one and the one after it                                        *)
PollPeek ==
  /\ rpc = "idle" /\ ~IsSampq /\ ReaderRuns /\ Remaining > 0
  /\ held' = {PeekIndex} \cup (IF keep_last THEN {rindex} ELSE {})
                         \cup (IF Remaining > 1 THEN {NextIndex} ELSE {})
  /\ rpc' = "got"
  /\ UNCHANGED <<kind, ring, sync, abort_request, wpc, cpc, decoded, opens>>

(* nothing new, or not yet due: the frame last shown is displayed again     *)
Redisplay ==
  /\ rpc \in {"idle", "got"} /\ ReaderRuns
  /\ kind = "pictq" /\ rindex_shown = 1
  /\ rpc' = "use" /\ held' = {rindex}
  /\ UNCHANGED <<kind, ring, sync, abort_request, wpc, cpc, decoded, opens>>

(* the frame that was peeked at stays in the queue                          *)
LeaveFrame ==
  /\ rpc = "got" /\ ~IsSampq
  /\ rpc' = "idle" /\ held' = {}
  /\ UNCHANGED <<kind, ring, sync, abort_request, wpc, cpc, decoded, opens>>

DisplayDone ==
  /\ rpc = "use"
  /\ rpc' = "idle" /\ held' = {}
  /\ UNCHANGED <<kind, ring, sync, abort_request, wpc, cpc, decoded, opens>>

(* Mutant: the poll counts the frame that is in use. *)
AudioCallbackPollsSize ==
  /\ rpc = "idle" /\ IsSampq /\ ReaderRuns
  /\ Win32 => size # 0
  /\ rpc' = "test"
  /\ UNCHANGED <<kind, ring, sync, abort_request, wpc, cpc, held, decoded, opens>>

(* audio_decode_frame: the _WIN32 build polls until there is a frame        *)
AudioCallback ==
  /\ rpc = "idle" /\ IsSampq /\ ReaderRuns
  /\ Win32 => Remaining # 0
  /\ rpc' = "test"
  /\ UNCHANGED <<kind, ring, sync, abort_request, wpc, cpc, held, decoded, opens>>

(* frame_queue_peek_readable: lock, evaluate the loop condition             *)
ReaderTest ==
  /\ rpc = "test" /\ MutexFree /\ Reader \notin waiting
  /\ IF Remaining <= 0 /\ ~abort_request
       THEN mutex' = Reader /\ rpc' = "wait"
       ELSE mutex' = mutex /\ rpc' = "granted"
  /\ UNCHANGED <<kind, ring, waiting, abort_request, wpc, cpc, held, decoded, opens>>

ReaderWait ==
  /\ rpc = "wait"
  /\ mutex' = Nobody /\ waiting' = waiting \cup {Reader} /\ rpc' = "test"
  /\ UNCHANGED <<kind, ring, abort_request, wpc, cpc, held, decoded, opens>>

(* after the unlock: NULL when aborted, else the slot                       *)
ReaderGranted ==
  /\ rpc = "granted"
  /\ IF abort_request THEN rpc' = "idle" /\ held' = held
                      ELSE rpc' = "got"  /\ held' = held \cup {PeekIndex}
  /\ UNCHANGED <<kind, ring, sync, abort_request, wpc, cpc, decoded, opens>>

(* what the reader does with a frame it has taken: a picture is displayed   *)
(* or dropped, a sound frame is played until the next is taken              *)
AfterNext(kept) ==
  \/ kind = "pictq" /\ rpc' = "use" /\ held' = kept
  \/ rpc' = "idle" /\ held' = IF IsSampq THEN kept ELSE {}

(* frame_queue_next for the first frame of a keep_last queue                *)
NextShows ==
  /\ rpc = "got" /\ keep_last /\ rindex_shown = 0
  /\ rindex_shown' = 1
  /\ AfterNext({rindex})
  /\ UNCHANGED <<kind, queue, rindex, windex, size, sync, abort_request,
                 wpc, cpc, decoded, opens>>

(* Mutant: the first frame of a keep_last queue may be released at once. *)
NextAlwaysReleases ==
  /\ rpc = "got"
  /\ queue' = [queue EXCEPT ![rindex] = 0]
  /\ rindex' = Advance(rindex)
  /\ held' = IF keep_last THEN {PeekIndex} ELSE {}
  /\ rpc' = "shrink"
  /\ UNCHANGED <<kind, windex, size, rindex_shown, sync, abort_request,
                 wpc, cpc, decoded, opens>>

(* frame_queue_next: the slot is released and rindex moves before the lock, *)
(* size follows inside it                                                   *)
NextReleases ==
  /\ rpc = "got" /\ ~(keep_last /\ rindex_shown = 0)
  /\ queue' = [queue EXCEPT ![rindex] = 0]
  /\ rindex' = Advance(rindex)
  /\ held' = IF keep_last THEN {PeekIndex} ELSE {}
  /\ rpc' = "shrink"
  /\ UNCHANGED <<kind, windex, size, rindex_shown, sync, abort_request,
                 wpc, cpc, decoded, opens>>

NextShrinks ==
  /\ rpc = "shrink" /\ MutexFree
  /\ size' = size - 1 /\ CondSignal
  /\ AfterNext(held)
  /\ UNCHANGED <<kind, queue, rindex, windex, rindex_shown, mutex, abort_request,
                 wpc, cpc, decoded, opens>>
-----------------------------------------------------------------------------
(* The thread that opens and closes the component.                         *)

(* decoder_start: packet_queue_start, then the decoder thread is created.   *)
(* The frame queue keeps what a previous decoder left in it.                *)
DecoderStart ==
  /\ cpc = "closed" /\ opens < MaxOpens
  /\ opens' = opens + 1
  /\ abort_request' = FALSE /\ wpc' = IF kind = "subpq" THEN "test" ELSE "decode"
  /\ cpc' = "open"
  /\ UNCHANGED <<kind, ring, sync, rpc, held, decoded>>

(* decoder_abort: packet_queue_abort ...                                    *)
Abort ==
  /\ cpc = "open" /\ (~IsSampq => rpc = "idle")
  /\ abort_request' = TRUE
  /\ cpc' = "signal"
  /\ UNCHANGED <<kind, ring, sync, wpc, rpc, held, decoded, opens>>

(* Mutant: nobody is signalled. *)
AbortWithoutSignal ==
  /\ cpc = "signal" /\ MutexFree
  /\ cpc' = "join_writer"
  /\ UNCHANGED <<kind, ring, sync, abort_request, wpc, rpc, held, decoded, opens>>

(* ... frame_queue_signal ...                                               *)
SignalAbort ==
  /\ cpc = "signal" /\ MutexFree
  /\ CondSignal
  /\ cpc' = "join_writer"
  /\ UNCHANGED <<kind, ring, mutex, abort_request, wpc, rpc, held, decoded, opens>>

(* ... and SDL_WaitThread                                                   *)
JoinWriter ==
  /\ cpc = "join_writer" /\ wpc = "done"
  /\ cpc' = IF IsSampq THEN "join_reader" ELSE "closed"
  /\ UNCHANGED <<kind, ring, sync, abort_request, wpc, rpc, held, decoded, opens>>

(* stream_component_close: SDL_CloseAudioDevice, or pop_audio_handle.join,  *)
(* between two callbacks; then audio_buf = NULL                             *)
JoinReader ==
  /\ cpc = "join_reader" /\ rpc = "idle"
  /\ cpc' = "closed" /\ held' = {}
  /\ UNCHANGED <<kind, ring, sync, abort_request, wpc, rpc, decoded, opens>>
-----------------------------------------------------------------------------
(* frame_queue_init and packet_queue_init, in stream_open                   *)
Init ==
  /\ kind \in Kinds
  /\ queue = [s \in Slots |-> 0]
  /\ rindex = 0 /\ windex = 0 /\ size = 0 /\ rindex_shown = 0
  /\ mutex = Nobody /\ waiting = {}
  /\ abort_request = TRUE
  /\ wpc = "done" /\ rpc = "idle" /\ cpc = "closed"
  /\ held = {} /\ decoded = 0 /\ opens = 0

WriterSteps ==
  \/ DecodeFrame \/ SubtitleLoop \/ DecodeAborted
  \/ WriterTest \/ WriterWait \/ WriterGranted
  \/ WriterFill \/ SubtitleFill \/ PushAdvance \/ PushPublish

ReaderSteps ==
  \/ PollPeek \/ Redisplay \/ LeaveFrame \/ DisplayDone
  \/ AudioCallback \/ ReaderTest \/ ReaderWait \/ ReaderGranted
  \/ NextShows \/ NextReleases \/ NextShrinks

CloserSteps == DecoderStart \/ Abort \/ SignalAbort \/ JoinWriter \/ JoinReader

Next == WriterSteps \/ ReaderSteps \/ CloserSteps \/ SpuriousWakeup

Spec == Init /\ [][Next]_vars

(* A runnable thread runs.  Nothing obliges packets to arrive, a reader to  *)
(* look at the queue or anybody to close it: DecodeFrame, SubtitleFill, the *)
(* start of a poll, DecoderStart and Abort carry no fairness.               *)
FairSpec ==
  /\ Spec
  /\ WF_vars(DecodeAborted) /\ WF_vars(SubtitleLoop)
  /\ WF_vars(WriterTest) /\ WF_vars(WriterWait) /\ WF_vars(WriterGranted)
  /\ WF_vars(WriterFill) /\ WF_vars(PushAdvance) /\ WF_vars(PushPublish)
  /\ WF_vars(ReaderTest) /\ WF_vars(ReaderWait) /\ WF_vars(ReaderGranted)
  /\ WF_vars(DisplayDone) /\ WF_vars(LeaveFrame \/ NextShows \/ NextReleases)
  /\ WF_vars(NextShrinks)
  /\ WF_vars(SignalAbort) /\ WF_vars(JoinWriter) /\ WF_vars(JoinReader)
-----------------------------------------------------------------------------
(* The variables stay in their types (kind, program counters, slots).       *)
TypeOK ==
  /\ kind \in Kinds
  /\ queue \in [Slots -> 0 .. MaxFrames]
  /\ rindex \in Slots /\ windex \in Slots
  /\ size \in 0 .. MaxSize /\ rindex_shown \in 0 .. 1
  /\ mutex \in {Nobody, Writer, Reader} /\ waiting \subseteq {Writer, Reader}
  /\ abort_request \in BOOLEAN
  /\ wpc \in {"decode", "test", "wait", "granted", "fill", "advance", "publish", "done"}
  /\ rpc \in {"idle", "test", "wait", "granted", "got", "use", "shrink"}
  /\ cpc \in {"closed", "open", "signal", "join_writer", "join_reader"}
  /\ held \subseteq Slots
  /\ decoded \in 0 .. MaxFrames /\ opens \in 0 .. MaxOpens

(* While the decoder thread writes the slot frame_queue_peek_writable gave   *)
(* it, the presenting thread has no pointer into that slot, although both    *)
(* sides move their index outside the mutex and a keep_last frame is used    *)
(* long after frame_queue_next.                                              *)
NoSlotClash == wpc \in {"fill", "advance"} => windex \notin held

(* Every slot the presenting thread may dereference holds a frame that was   *)
(* pushed and is not released (not unreferenced by frame_queue_next).        *)
HeldAreFrames == \A s \in held : queue[s] # 0

(* A thread that waits on f->cond has something to wait for, and if the      *)
(* queue is aborted the signal that frees it is still to come: decoder_abort *)
(* sets the flag without holding f->mutex, and one SDL_CondSignal suffices.  *)
NoLostWakeup ==
  /\ Writer \in waiting => size >= MaxSize   /\ (abort_request => cpc = "signal")
  /\ Reader \in waiting => Remaining <= 0 /\ (abort_request => cpc = "signal")
  /\ waiting # {Writer, Reader}

(* In the _WIN32 build the audio callback never waits in peek_readable: what *)
(* it read from size without the lock still holds, since only it takes.      *)
AudioNeverWaits == Win32 => rpc # "wait" /\ Reader \notin waiting

(* decoder_abort returns: it joins the decoder thread wherever that thread   *)
(* was, and closing an audio component then joins the audio callback.        *)
AbortJoins == (cpc = "signal") ~> (cpc = "closed")
-----------------------------------------------------------------------------
(* The ring implements the channel.  The reader takes a frame when rindex or *)
(* rindex_shown moves, a frame arrives when size grows.                      *)

Wrap(i) == IF i >= MaxSize THEN i - MaxSize ELSE i

(* slots in use: size, less the slot NextReleases freed but not yet counted  *)
InUse == IF rpc = "shrink" THEN size - 1 ELSE size

Channel == INSTANCE FrameChannel WITH
  Capacity <- MaxSize,
  Frame    <- 1 .. MaxFrames,
  NoFrame  <- 0,
  keep     <- keep_last,
  chan     <- [i \in 1 .. InUse - rindex_shown |->
                 queue[Wrap(rindex + rindex_shown + i - 1)]],
  last     <- IF rindex_shown = 1 THEN queue[rindex] ELSE 0

(* The ring, its indices and its two half-locked updates behave as a bounded *)
(* FIFO that retains the frame taken last.                                   *)
ImplementsChannel == Channel!ChanSpec
-----------------------------------------------------------------------------
(* Why the properties hold: the inductive invariant.                       *)

(* slots in use and the slot pushed but not yet counted                    *)
Filled == InUse + (IF wpc = "publish" THEN 1 ELSE 0)

(* how far a slot lies behind rindex, going round                          *)
Offset(s) == IF s >= rindex THEN s - rindex ELSE s - rindex + MaxSize

(* who holds the mutex, who waits, and which threads are still there while *)
(* the component closes                                                    *)
ControlInv ==
  /\ (wpc = "wait" <=> mutex = Writer) /\ (rpc = "wait" <=> mutex = Reader)
  /\ Writer \in waiting => wpc = "test"
  /\ Reader \in waiting => rpc = "test"
  /\ wpc = "wait" => size >= MaxSize   /\ (abort_request => cpc = "signal")
  /\ rpc = "wait" => Remaining <= 0 /\ (abort_request => cpc = "signal")
  /\ abort_request <=> cpc # "open"
  /\ cpc \in {"closed", "join_reader"} => wpc = "done"
  /\ cpc = "closed" \/ (~IsSampq /\ cpc # "open") => rpc = "idle"
  /\ cpc = "join_reader" => IsSampq
  /\ rpc \in {"test", "wait", "granted"} => IsSampq

(* windex is where the frames end, and both threads have passed their tests *)
RingInv ==
  /\ rindex_shown = 1 => keep_last
  /\ rindex_shown <= InUse /\ Filled <= MaxSize
  /\ windex = Wrap(rindex + Filled)
  /\ wpc \in {"fill", "advance", "publish"} => size < MaxSize
  /\ wpc = "granted" => size < MaxSize \/ abort_request
  /\ rpc = "got" => Remaining > 0
  /\ rpc = "granted" => Remaining > 0 \/ abort_request
  /\ rpc = "shrink" => size > rindex_shown /\ (keep_last => rindex_shown = 1)
  /\ Win32 /\ rpc = "test" => Remaining > 0

(* every slot in use holds a frame                                         *)
SlotsInv ==
  /\ \A s \in Slots : Offset(s) < Filled => queue[s] # 0
  /\ wpc = "advance" => queue[windex] # 0
  /\ kind # "subpq" /\ wpc \in {"test", "wait", "granted", "fill"} => decoded > 0

(* the reader's pointers point into slots in use                           *)
HeldInv == \A s \in held : Offset(s) < InUse

(* The inductive invariant: the indices, the count and the threads' places  *)
(* in the half-locked push and next fit together at every step.             *)
IInv ==
  /\ TypeOK /\ ControlInv /\ RingInv /\ SlotsInv /\ HeldInv
  /\ NoLostWakeup /\ AudioNeverWaits
=============================================================================
