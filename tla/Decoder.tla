------------------------------ MODULE Decoder -------------------------------
(***************************************************************************)
(* One decoder thread of lib-player/ffplay.cpp at its packet queue:        *)
(* decoder_decode_frame, called in a loop by audio_thread and video_thread,*)
(* against read_thread (puts and flushes) and the thread that closes and   *)
(* reopens the component (decoder_abort, decoder_init, decoder_start).     *)
(*                                                                         *)
(* The thread reads q.serial without the lock, twice per round, and a seek *)
(* can flush the queue between any two of its steps.  The codec (libavcodec*)
(* through avcodec_send_packet, avcodec_receive_frame, avcodec_flush_buffers*)
(* ) is external: it returns the frames of the packets it was sent in      *)
(* order, may hold some back, drains after a null packet, and may fail to  *)
(* decode a packet.                                                        *)
(***************************************************************************)
EXTENDS Integers, Sequences

CONSTANTS
  MaxPackets,   (* bound: packets put in a behaviour                       *)
  MaxSerial,    (* bound: flushes and starts                               *)
  CodecDelay    (* packets a codec holds before it must return a frame     *)

ASSUME DecoderAssumption ==
  /\ MaxPackets \in Nat /\ MaxSerial \in Nat /\ CodecDelay \in Nat

(* A packet is its position in the order of puts; a null packet (no data)  *)
(* tells the codec to drain.                                               *)
AVPacket == [id : 1 .. MaxPackets, data : BOOLEAN]

PacketBytes(p) == IF p.data THEN 2 ELSE 0

INSTANCE PacketQueue WITH Packet <- AVPacket, Bytes <- PacketBytes, Overhead <- 1

VARIABLES
  queue,          (* d->queue                                              *)
  puts,           (* packets put so far                                    *)
  waiting,        (* the decoder thread waits in packet_queue_get          *)
  dpc,            (* where the decoder thread is                           *)
  pkt,            (* d->pkt, meaningful in "compare", "send" or if pending *)
  pkt_serial, packet_pending, finished,
  codec,          (* packets sent whose frame has not come out, each with  *)
                  (* the serial it was sent under                          *)
  draining,
  frame,          (* the frame received last, as its codec entry           *)
  returned,       (* the packet of the last frame returned, 0 at first     *)
  closing         (* "open", "aborted" or "closed"                         *)

dvars == <<pkt, pkt_serial, packet_pending, finished, codec, draining, frame>>
vars  == <<queue, puts, waiting, dpc, dvars, returned, closing>>

NoPacket == [id |-> 0, data |-> FALSE]
NoFrame  == [id |-> 0, serial |-> -1]
CodecEntry == [id : 1 .. MaxPackets, serial : Nat]
-----------------------------------------------------------------------------
(* read_thread and the closing thread                                      *)

(* Mutant: a put does not signal. *)
PutSilently(data) ==
  /\ puts < MaxPackets
  /\ puts' = puts + 1
  /\ queue' = packet_queue_put(queue, [id |-> puts + 1, data |-> data])
  /\ UNCHANGED <<waiting, dpc, dvars, returned, closing>>

(* packet_queue_put and packet_queue_put_nullpacket signal the condition   *)
(* when they put                                                           *)
Put(data) ==
  /\ puts < MaxPackets
  /\ puts' = puts + 1
  /\ queue' = packet_queue_put(queue, [id |-> puts + 1, data |-> data])
  /\ waiting' = (waiting /\ queue.abort_request)
  /\ UNCHANGED <<dpc, dvars, returned, closing>>

(* a seek; no signal                                                       *)
FlushPackets ==
  /\ queue.serial < MaxSerial
  /\ queue' = packet_queue_flush(queue)
  /\ UNCHANGED <<puts, waiting, dpc, dvars, returned, closing>>

(* Mutant: the abort does not signal. *)
AbortSilently ==
  /\ closing = "open"
  /\ queue' = packet_queue_abort(queue) /\ waiting' = waiting
  /\ closing' = "aborted"
  /\ UNCHANGED <<puts, dpc, dvars, returned>>

(* decoder_abort: packet_queue_abort signals ...                           *)
AbortPackets ==
  /\ closing = "open"
  /\ queue' = packet_queue_abort(queue) /\ waiting' = FALSE
  /\ closing' = "aborted"
  /\ UNCHANGED <<puts, dpc, dvars, returned>>

(* ... the thread is joined, the queue flushed; then decoder_destroy       *)
JoinAndFlush ==
  /\ closing = "aborted" /\ dpc = "exit" /\ queue.serial < MaxSerial
  /\ queue' = packet_queue_flush(queue)
  /\ closing' = "closed"
  /\ UNCHANGED <<puts, waiting, dpc, dvars, returned>>

(* stream_component_open: decoder_init with a new codec, decoder_start     *)
Open ==
  /\ closing = "closed" /\ queue.serial < MaxSerial
  /\ queue' = packet_queue_start(queue)
  /\ pkt' = NoPacket /\ pkt_serial' = -1 /\ packet_pending' = FALSE
  /\ finished' = 0 /\ codec' = <<>> /\ draining' = FALSE /\ frame' = NoFrame
  /\ dpc' = "check" /\ closing' = "open"
  /\ UNCHANGED <<puts, waiting, returned>>
-----------------------------------------------------------------------------
(* decoder_decode_frame                                                    *)

(* the packet held belongs to the stretch the queue is in: ask the codec   *)
CheckSerial ==
  /\ dpc = "check"
  /\ dpc' = IF queue.serial = pkt_serial THEN "receive" ELSE "fetch"
  /\ UNCHANGED <<queue, puts, waiting, dvars, returned, closing>>

ReceiveAborted ==
  /\ dpc = "receive" /\ queue.abort_request
  /\ dpc' = "exit"
  /\ UNCHANGED <<queue, puts, waiting, dvars, returned, closing>>

(* ret >= 0: the frame of the oldest packet                                *)
ReceiveFrame ==
  /\ dpc = "receive" /\ ~queue.abort_request /\ codec # <<>>
  /\ frame' = Head(codec) /\ codec' = Tail(codec)
  /\ dpc' = "return"
  /\ UNCHANGED <<queue, puts, waiting, pkt, pkt_serial, packet_pending,
                 finished, draining, returned, closing>>

(* a packet that cannot be decoded: try again                              *)
ReceiveError ==
  /\ dpc = "receive" /\ ~queue.abort_request /\ codec # <<>>
  /\ codec' = Tail(codec)
  /\ UNCHANGED <<queue, puts, waiting, dpc, pkt, pkt_serial, packet_pending,
                 finished, draining, frame, returned, closing>>

(* AVERROR_EOF: drained; the caller gets no frame and calls again          *)
ReceiveEof ==
  /\ dpc = "receive" /\ ~queue.abort_request /\ draining /\ codec = <<>>
  /\ finished' = pkt_serial
  /\ draining' = FALSE             (* avcodec_flush_buffers *)
  /\ dpc' = "check"
  /\ UNCHANGED <<queue, puts, waiting, pkt, pkt_serial, packet_pending, codec,
                 frame, returned, closing>>

(* AVERROR(EAGAIN): the codec wants another packet                         *)
ReceiveAgain ==
  /\ dpc = "receive" /\ ~queue.abort_request
  /\ ~draining /\ Len(codec) <= CodecDelay
  /\ dpc' = "fetch"
  /\ UNCHANGED <<queue, puts, waiting, dvars, returned, closing>>

(* Mutant: the pending packet is never given up. *)
FetchPendingForever ==
  /\ dpc = "fetch" /\ packet_pending
  /\ dpc' = "compare"
  /\ UNCHANGED <<queue, puts, waiting, dvars, returned, closing>>

FetchPending ==
  /\ dpc = "fetch" /\ packet_pending
  /\ packet_pending' = FALSE /\ dpc' = "compare"
  /\ UNCHANGED <<queue, puts, waiting, pkt, pkt_serial, finished, codec,
                 draining, frame, returned, closing>>

FetchAborted ==
  /\ dpc = "fetch" /\ ~packet_pending /\ ~waiting /\ queue.abort_request
  /\ dpc' = "exit"
  /\ UNCHANGED <<queue, puts, waiting, dvars, returned, closing>>

FetchWaits ==
  /\ dpc = "fetch" /\ ~packet_pending /\ ~waiting /\ MustWait(queue)
  /\ waiting' = TRUE
  /\ UNCHANGED <<queue, puts, dpc, dvars, returned, closing>>

(* SDL_CondWait may return although nobody signalled                       *)
SpuriousWakeup ==
  /\ waiting /\ waiting' = FALSE
  /\ UNCHANGED <<queue, puts, dpc, dvars, returned, closing>>

(* Mutant: the codec is not reset at the start of a stretch. *)
FetchPacketNoReset ==
  /\ dpc = "fetch" /\ ~packet_pending /\ ~waiting /\ CanGet(queue)
  /\ queue' = packet_queue_get(queue)
  /\ pkt' = Got(queue).pkt /\ pkt_serial' = Got(queue).serial
  /\ dpc' = "compare"
  /\ UNCHANGED <<puts, waiting, packet_pending, finished, codec, draining, frame,
                 returned, closing>>

(* packet_queue_get, and avcodec_flush_buffers when the packet starts a    *)
(* new stretch                                                             *)
FetchPacket ==
  /\ dpc = "fetch" /\ ~packet_pending /\ ~waiting /\ CanGet(queue)
  /\ queue' = packet_queue_get(queue)
  /\ pkt' = Got(queue).pkt /\ pkt_serial' = Got(queue).serial
  /\ IF pkt_serial # Got(queue).serial
       THEN codec' = <<>> /\ draining' = FALSE /\ finished' = 0
       ELSE UNCHANGED <<codec, draining, finished>>
  /\ dpc' = "compare"
  /\ UNCHANGED <<puts, waiting, packet_pending, frame, returned, closing>>

(* a flush since then makes the packet stale: it is dropped                *)
CompareSerial ==
  /\ dpc = "compare"
  /\ dpc' = IF queue.serial = pkt_serial THEN "send" ELSE "fetch"
  /\ UNCHANGED <<queue, puts, waiting, dvars, returned, closing>>

(* avcodec_send_packet; a codec that drains takes nothing more             *)
SendPacket ==
  /\ dpc = "send"
  /\ codec' = IF pkt.data /\ ~draining
                THEN Append(codec, [id |-> pkt.id, serial |-> pkt_serial]) ELSE codec
  /\ draining' = (draining \/ ~pkt.data)
  /\ dpc' = "check"
  /\ UNCHANGED <<queue, puts, waiting, pkt, pkt_serial, packet_pending, finished,
                 frame, returned, closing>>

(* Mutant: the codec took the packet that is kept. *)
SendTwice ==
  /\ dpc = "send" /\ codec # <<>> /\ pkt.data /\ ~draining
  /\ codec' = Append(codec, [id |-> pkt.id, serial |-> pkt_serial])
  /\ packet_pending' = TRUE /\ dpc' = "check"
  /\ UNCHANGED <<queue, puts, waiting, pkt, pkt_serial, finished,
                 draining, frame, returned, closing>>

(* AVERROR(EAGAIN), though the codec had asked for it: keep the packet     *)
SendRefused ==
  /\ dpc = "send" /\ codec # <<>>
  /\ packet_pending' = TRUE /\ dpc' = "check"
  /\ UNCHANGED <<queue, puts, waiting, pkt, pkt_serial, finished, codec,
                 draining, frame, returned, closing>>

(* The frame is queued with d->pkt_serial, or dropped: FrameQueue's side.   *)
(* When that queue is aborted the thread ends.                             *)
ReturnFrame ==
  /\ dpc = "return"
  /\ \/ dpc' = "check" /\ returned' = frame.id
     \/ queue.abort_request /\ dpc' = "exit" /\ returned' = returned
  /\ UNCHANGED <<queue, puts, waiting, dvars, closing>>
-----------------------------------------------------------------------------
Init ==
  /\ queue = packet_queue_init /\ puts = 0 /\ waiting = FALSE
  /\ dpc = "exit" /\ closing = "closed"
  /\ pkt = NoPacket /\ pkt_serial = -1 /\ packet_pending = FALSE
  /\ finished = 0 /\ codec = <<>> /\ draining = FALSE
  /\ frame = NoFrame /\ returned = 0

OtherThreads ==
  \/ \E data \in BOOLEAN : Put(data)
  \/ FlushPackets \/ AbortPackets \/ JoinAndFlush \/ Open

DecoderThread ==
  \/ CheckSerial
  \/ ReceiveAborted \/ ReceiveFrame \/ ReceiveError \/ ReceiveEof \/ ReceiveAgain
  \/ FetchPending \/ FetchAborted \/ FetchWaits \/ FetchPacket
  \/ CompareSerial \/ SendPacket \/ SendRefused \/ ReturnFrame

Next == OtherThreads \/ DecoderThread \/ SpuriousWakeup

Spec == Init /\ [][Next]_vars

(* The decoder thread runs when it can, and a codec does not refuse the    *)
(* packet it asked for for ever.                                           *)
FairSpec == Spec /\ WF_vars(DecoderThread) /\ SF_vars(SendPacket)
-----------------------------------------------------------------------------
TypeOK ==
  /\ queue \in PacketQueueType
  /\ puts \in 0 .. MaxPackets /\ waiting \in BOOLEAN
  /\ dpc \in {"check", "receive", "fetch", "compare", "send", "return", "exit"}
  /\ pkt \in AVPacket \cup {NoPacket}
  /\ pkt_serial \in Nat \cup {-1} /\ packet_pending \in BOOLEAN /\ finished \in Nat
  /\ codec \in Seq(CodecEntry) /\ draining \in BOOLEAN
  /\ frame \in CodecEntry \cup {NoFrame} /\ returned \in 0 .. MaxPackets
  /\ closing \in {"open", "aborted", "closed"}

(* A flush empties the list and starts a new stretch in one critical section *)
(* and a put stamps its packet inside one, so that no packet of an earlier   *)
(* stretch is ever listed: audio, video and read_thread compare serials on   *)
(* that understanding.                                                       *)
QueueOneSerial == OneSerial(queue)

(* nb_packets and size, which read_thread sums without a lock to decide      *)
(* whether to read on, agree with the list after any mix of puts, gets,      *)
(* flushes and refused puts.                                                 *)
Accounting == Counted(queue)

(* The codec never holds packets of two stretches, and the frame it returns  *)
(* is labelled with the stretch its packet came from (queue_picture takes    *)
(* d->pkt_serial as the label), wherever flushes fall between the unlocked   *)
(* reads of the queue's serial.                                              *)
CodecOneSerial ==
  /\ \A i \in 1 .. Len(codec) : codec[i].serial = pkt_serial
  /\ dpc = "return" => frame.serial = pkt_serial

(* Frames are returned in the order their packets were put, none twice, over *)
(* seeks, refused packets, drains and reopenings.                            *)
ReturnedInOrder ==
  [][dpc = "return" /\ dpc' = "check" => frame.id > returned]_vars

(* The decoder thread waits in packet_queue_get only while there is nothing  *)
(* to get and nobody has aborted the queue.                                  *)
NoLostWakeup == waiting => dpc = "fetch" /\ MustWait(queue)

(* The frame in hand, the codec, the packet in hand (to be compared, sent or *)
(* kept), and the queue are one line of packets.                            *)
Unsent == dpc \in {"compare", "send"} \/ packet_pending

InReturn == IF dpc = "return" THEN <<[id |-> frame.id, serial |-> pkt_serial]>> ELSE <<>>
InHand   == IF Unsent THEN <<[id |-> pkt.id, serial |-> pkt_serial]>> ELSE <<>>
InQueue  == [i \in 1 .. Len(queue.pkt_list) |->
               [id |-> queue.pkt_list[i].pkt.id, serial |-> queue.pkt_list[i].serial]]

Line == InReturn \o codec \o InHand \o InQueue

(* Whatever the queue, the thread and the codec do to each other, from a put *)
(* to the frame that is returned packets keep their places and the serial   *)
(* they were put under: a frame is labelled (d->pkt_serial) with the stretch *)
(* its own packet was put in, though it leaves the codec many packets later. *)
Promise == INSTANCE PacketLine WITH
  Id <- 1 .. MaxPackets, line <- Line, stretch <- queue.serial, out <- returned

ImplementsLine == Promise!LineSpec

(* packet_queue_abort ends the thread, wherever it is (the join in           *)
(* decoder_abort returns).                                                   *)
AbortEndsThread == queue.abort_request ~> (dpc = "exit")

(* Packets that are put are taken: the thread is woken for them and a stale  *)
(* packet in hand, a drain or a refusal does not make it lose interest.      *)
QueueDrains ==
  (queue.pkt_list # <<>>) ~> (queue.pkt_list = <<>> \/ queue.abort_request)
-----------------------------------------------------------------------------
(* Why the safety properties hold: the inductive invariant.                 *)

(* the packet of the frame that left the codec last                         *)
Latest == IF dpc = "return" THEN frame.id ELSE returned

(* the thread is gone before its component is closed, what it waits for is  *)
(* real, and a packet is kept only between two rounds                       *)
ThreadInv ==
  /\ queue.abort_request <=> closing # "open"
  /\ closing = "closed" => dpc = "exit" /\ queue.pkt_list = <<>>
  /\ waiting => ~packet_pending
  /\ dpc \in {"compare", "send"} => ~packet_pending
  /\ Unsent \/ dpc = "receive" => pkt_serial # -1
  /\ queue.nb_packets = Len(queue.pkt_list)

(* frames returned, the frame in hand, the codec, the packet in hand, the   *)
(* queue: in this order packets get younger and younger                     *)
Younger(n) == \A i \in 1 .. Len(queue.pkt_list) : n < queue.pkt_list[i].pkt.id
CodecAfter(n) == \A i \in 1 .. Len(codec) : n < codec[i].id

LineInv ==
  /\ \A i, j \in 1 .. Len(queue.pkt_list) :
       i < j => queue.pkt_list[i].pkt.id < queue.pkt_list[j].pkt.id
  /\ \A i, j \in 1 .. Len(codec) : i < j => codec[i].id < codec[j].id
  /\ \A i \in 1 .. Len(queue.pkt_list) : queue.pkt_list[i].pkt.id <= puts
  /\ \A i \in 1 .. Len(codec) : codec[i].id <= puts /\ Younger(codec[i].id)
  /\ Unsent => /\ pkt.id <= puts /\ Younger(pkt.id) /\ Latest < pkt.id
               /\ \A i \in 1 .. Len(codec) : codec[i].id < pkt.id
  /\ Latest <= puts /\ Younger(Latest) /\ CodecAfter(Latest)
  /\ dpc = "return" => returned < frame.id

(* The inductive invariant: one serial per queue and per codec, every waiter *)
(* has its reason, and the packets form one line from the queue to the last  *)
(* frame returned.                                                           *)
IInv ==
  TypeOK /\ ThreadInv /\ QueueOneSerial /\ CodecOneSerial /\ NoLostWakeup /\ LineInv
=============================================================================
