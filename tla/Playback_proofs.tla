---------------------------- MODULE Playback_proofs ----------------------------
(***************************************************************************)
(* Proofs about Playback, for any file, any sizes of queues and any number  *)
(* of seeks, pauses and steps: serials tell stale data from fresh, and the  *)
(* end of the file is concluded only when everything was presented.        *)
(***************************************************************************)
EXTENDS Playback, Sequences_proofs

USE DEF demuxer, reader, request, control, present, stop, asked, vars, others

LEMMA Parameters ==
  /\ End \in Nat /\ Streams \subseteq {Audio, Video} /\ Streams # {}
  /\ \A i \in 1 .. End : Layout[i] \in Streams
  /\ Capacity \in Nat /\ Loop \in Nat /\ SeekTargets \subseteq 0 .. End
  /\ StartTime \in 0 .. End /\ MaxSeeks \in Nat /\ MaxToggles \in Nat /\ MaxSteps \in Nat
<1>1. End \in Nat /\ Layout \in Seq({Audio, Video}) /\ Layout # <<>>
  BY PlaybackAssumption DEF End
<1>2. DOMAIN Layout = 1 .. End /\ 1 \in 1 .. End
  BY <1>1 DEF End
<1> QED BY <1>1, <1>2, PlaybackAssumption DEF Streams, StartTime

LEMMA Packets ==
  /\ NullPacket \in AVPacket /\ IsNull(NullPacket)
  /\ \A p \in AVPacket : PacketBytes(p) \in Nat
  /\ NoFrame \in Frame /\ NoFrame.serial = 0
BY Parameters DEF NullPacket, AVPacket, IsNull, PacketBytes, NoFrame, Frame

-----------------------------------------------------------------------------
(* What the operations of the packet queue leave behind.                   *)

LEMMA QueueFields ==
  ASSUME NEW q \in PacketQueueType
  PROVE  /\ q.pkt_list \in Seq(MyAVPacketList) /\ Len(q.pkt_list) \in Nat
         /\ DOMAIN q.pkt_list = 1 .. Len(q.pkt_list)
         /\ \A i \in 1 .. Len(q.pkt_list) : /\ q.pkt_list[i] \in MyAVPacketList
                                            /\ q.pkt_list[i].pkt \in AVPacket
         /\ q.nb_packets \in Nat /\ q.size \in Int /\ q.serial \in Nat
         /\ q.abort_request \in BOOLEAN
<1>1. /\ q.pkt_list \in Seq(MyAVPacketList)
      /\ q.nb_packets \in Nat /\ q.size \in Int /\ q.serial \in Nat
      /\ q.abort_request \in BOOLEAN
  BY DEF PacketQueueType
<1>2. /\ Len(q.pkt_list) \in Nat /\ DOMAIN q.pkt_list = 1 .. Len(q.pkt_list)
      /\ \A i \in 1 .. Len(q.pkt_list) : q.pkt_list[i] \in MyAVPacketList
  BY <1>1
<1>3. \A e \in MyAVPacketList : e.pkt \in AVPacket
  BY DEF MyAVPacketList
<1> QED BY <1>1, <1>2, <1>3, Zenon

LEMMA PutLeaves ==
  ASSUME NEW q \in PacketQueueType, NEW x \in AVPacket
  PROVE  LET r == packet_queue_put(q, x) IN
         /\ r \in PacketQueueType /\ r.serial = q.serial
         /\ \/ r = q
            \/ /\ r.nb_packets = q.nb_packets + 1
               /\ Len(r.pkt_list) = Len(q.pkt_list) + 1
               /\ \A i \in 1 .. Len(q.pkt_list) : r.pkt_list[i] = q.pkt_list[i]
               /\ r.pkt_list[Len(q.pkt_list) + 1] = [pkt |-> x, serial |-> q.serial]
<1> DEFINE e == [pkt |-> x, serial |-> q.serial]
           r == packet_queue_put(q, x)
<1>1. /\ e \in MyAVPacketList /\ q.pkt_list \in Seq(MyAVPacketList)
      /\ q.nb_packets + 1 \in Nat /\ q.size + PacketBytes(x) + 1 \in Int
  <2>1. /\ q.pkt_list \in Seq(MyAVPacketList) /\ q.nb_packets \in Nat
        /\ q.size \in Int /\ q.serial \in Nat /\ PacketBytes(x) \in Nat
    BY QueueFields, Packets, Zenon
  <2>2. e \in MyAVPacketList
    BY <2>1, Zenon DEF MyAVPacketList
  <2> HIDE DEF e
  <2> QED BY <2>1, <2>2
<1>2. /\ Append(q.pkt_list, e) \in Seq(MyAVPacketList)
      /\ Len(Append(q.pkt_list, e)) = Len(q.pkt_list) + 1
      /\ \A i \in 1 .. Len(q.pkt_list) : Append(q.pkt_list, e)[i] = q.pkt_list[i]
      /\ Append(q.pkt_list, e)[Len(q.pkt_list) + 1] = e
  BY <1>1
<1>3. CASE q.abort_request
  BY <1>3, Zenon DEF packet_queue_put
<1>4. CASE ~q.abort_request
  <2>1. r \in PacketQueueType
    BY <1>1, <1>2, <1>4, Zenon DEF packet_queue_put, PacketQueueType
  <2>2. /\ r.serial = q.serial
        /\ r.nb_packets = q.nb_packets + 1 /\ r.pkt_list = Append(q.pkt_list, e)
    BY <1>4, SMT DEF packet_queue_put, PacketQueueType
  <2> QED BY <1>2, <2>1, <2>2, Zenon
<1> QED BY <1>3, <1>4

LEMMA GetLeaves ==
  ASSUME NEW q \in PacketQueueType, CanGet(q)
  PROVE  LET r == packet_queue_get(q) IN
         /\ Len(q.pkt_list) \in Nat \ {0} /\ Got(q) = q.pkt_list[1]
         /\ Got(q).pkt \in AVPacket /\ Got(q).serial \in Nat
         /\ q.nb_packets > 0 => r \in PacketQueueType
         /\ r.serial = q.serial /\ r.nb_packets = q.nb_packets - 1
         /\ Len(r.pkt_list) = Len(q.pkt_list) - 1
         /\ \A i \in 1 .. Len(q.pkt_list) - 1 : r.pkt_list[i] = q.pkt_list[i + 1]
<1> DEFINE r == packet_queue_get(q)
           rest == Tail(q.pkt_list)
<1>1. q.pkt_list \in Seq(MyAVPacketList) /\ q.pkt_list # <<>>
  BY QueueFields DEF CanGet
<1>2. /\ Len(q.pkt_list) \in Nat \ {0} /\ Got(q) = q.pkt_list[1] /\ Got(q) \in MyAVPacketList
      /\ rest \in Seq(MyAVPacketList) /\ Len(rest) = Len(q.pkt_list) - 1
      /\ \A i \in 1 .. Len(q.pkt_list) - 1 : rest[i] = q.pkt_list[i + 1]
  BY <1>1 DEF Got
<1>3. Got(q).pkt \in AVPacket /\ Got(q).serial \in Nat
  BY <1>2 DEF MyAVPacketList
<1>4. q.nb_packets > 0 => r \in PacketQueueType
  <2>1. SUFFICES ASSUME q.nb_packets > 0 PROVE r \in PacketQueueType
    OBVIOUS
  <2>2. q.nb_packets \in Nat /\ q.size \in Int /\ PacketBytes(Got(q).pkt) \in Nat
    BY <1>3, QueueFields, Packets, Zenon
  <2>3. q.nb_packets - 1 \in Nat /\ q.size - (PacketBytes(Got(q).pkt) + 1) \in Int
    BY <2>1, <2>2
  <2> QED BY <1>2, <2>3, Zenon DEF packet_queue_get, PacketQueueType
<1>5. r.serial = q.serial /\ r.nb_packets = q.nb_packets - 1 /\ r.pkt_list = rest
  BY SMT DEF packet_queue_get, PacketQueueType
<1> QED BY <1>2, <1>3, <1>4, <1>5, Zenon

LEMMA FlushLeaves ==
  ASSUME NEW q \in PacketQueueType
  PROVE  LET r == packet_queue_flush(q) IN
         /\ r \in PacketQueueType /\ r.serial = q.serial + 1
         /\ r.nb_packets = 0 /\ r.pkt_list = <<>>
<1> DEFINE r == packet_queue_flush(q)
<1>1. q.serial + 1 \in Nat /\ 0 \in Nat /\ 0 \in Int /\ <<>> \in Seq(MyAVPacketList)
  BY DEF PacketQueueType
<1>2. r \in PacketQueueType
  BY <1>1, Zenon DEF packet_queue_flush, PacketQueueType
<1>3. r.serial = q.serial + 1 /\ r.pkt_list = <<>> /\ r.nb_packets = 0
  BY SMT DEF packet_queue_flush, PacketQueueType
<1> QED BY <1>2, <1>3

-----------------------------------------------------------------------------
(* The invariant of one stream, step by step.                              *)

LEMMA FrameFields ==
  ASSUME NEW f \in Frame PROVE f.serial \in Nat /\ f.gen \in Nat
BY DEF Frame

LEMMA FramesFields ==
  ASSUME NEW fs \in Seq(Frame)
  PROVE  /\ Len(fs) \in Nat /\ DOMAIN fs = 1 .. Len(fs)
         /\ \A i \in 1 .. Len(fs) : fs[i] \in Frame /\ fs[i].serial \in Nat
<1>1. /\ Len(fs) \in Nat /\ DOMAIN fs = 1 .. Len(fs)
      /\ \A i \in 1 .. Len(fs) : fs[i] \in Frame
  OBVIOUS
<1> QED BY <1>1, FrameFields, Zenon

LEMMA DecoderFields ==
  ASSUME NEW d \in DecoderType
  PROVE  /\ d.pkt \in AVPacket /\ d.pkt_serial \in Int /\ d.finished \in Nat
         /\ d.codec \in Seq(Frame) /\ Len(d.codec) \in Nat /\ DOMAIN d.codec = 1 .. Len(d.codec)
         /\ \A i \in 1 .. Len(d.codec) : d.codec[i] \in Frame /\ d.codec[i].serial \in Nat
         /\ d.draining \in BOOLEAN /\ d.frame \in Frame /\ d.frame.serial \in Nat
         /\ d.pc \in {"receive", "fetch", "send", "queue", "exit"}
<1>1. /\ d.pkt \in AVPacket /\ d.pkt_serial \in Int /\ d.finished \in Nat
      /\ d.codec \in Seq(Frame) /\ d.draining \in BOOLEAN /\ d.frame \in Frame
      /\ d.pc \in {"receive", "fetch", "send", "queue", "exit"}
  BY DEF DecoderType
<1>2. /\ Len(d.codec) \in Nat /\ DOMAIN d.codec = 1 .. Len(d.codec)
      /\ \A i \in 1 .. Len(d.codec) : d.codec[i] \in Frame
  BY <1>1
<1> QED BY <1>1, <1>2, FrameFields, Zenon

LEMMA PutSerial ==
  ASSUME NEW q \in PacketQueueType, NEW d, NEW fs, NEW x \in AVPacket, SerialInv(q, d, fs)
  PROVE  SerialInv(packet_queue_put(q, x), d, fs)
<1> DEFINE r == packet_queue_put(q, x)
<1>1. /\ r.serial = q.serial /\ q.serial \in Nat /\ Len(q.pkt_list) \in Nat
      /\ \/ r = q
         \/ /\ r.nb_packets = q.nb_packets + 1
            /\ Len(r.pkt_list) = Len(q.pkt_list) + 1
            /\ \A i \in 1 .. Len(q.pkt_list) : r.pkt_list[i] = q.pkt_list[i]
            /\ r.pkt_list[Len(q.pkt_list) + 1] = [pkt |-> x, serial |-> q.serial]
  BY PutLeaves, QueueFields, Zenon
<1> HIDE DEF r
<1>2. q.nb_packets = Len(q.pkt_list) /\ OneSerial(q)
  BY DEF SerialInv
<1>3. r.nb_packets = Len(r.pkt_list)
  BY <1>1, <1>2, SMT
<1>4. OneSerial(r)
  BY <1>1, <1>2, SMTT(30) DEF OneSerial
<1> QED BY <1>1, <1>3, <1>4, Zenon DEF SerialInv, r

LEMMA PutGen ==
  ASSUME NEW q \in PacketQueueType, NEW d, NEW fs, NEW x \in AVPacket, NEW g,
         GenInv(q, d, fs, g), IsNull(x) \/ x.gen = g
  PROVE  GenInv(packet_queue_put(q, x), d, fs, g)
<1> DEFINE r == packet_queue_put(q, x)
<1>1. /\ r \in PacketQueueType /\ r.serial = q.serial /\ Len(q.pkt_list) \in Nat
      /\ DOMAIN r.pkt_list = 1 .. Len(r.pkt_list) /\ DOMAIN q.pkt_list = 1 .. Len(q.pkt_list)
      /\ \/ r = q
         \/ /\ Len(r.pkt_list) = Len(q.pkt_list) + 1
            /\ \A i \in 1 .. Len(q.pkt_list) : r.pkt_list[i] = q.pkt_list[i]
            /\ r.pkt_list[Len(q.pkt_list) + 1] = [pkt |-> x, serial |-> q.serial]
  BY PutLeaves, QueueFields, Zenon
<1> HIDE DEF r
<1>2. \A i \in DOMAIN r.pkt_list : IsNull(r.pkt_list[i].pkt) \/ r.pkt_list[i].pkt.gen = g
  BY <1>1 DEF GenInv
<1> QED BY <1>1, <1>2, Zenon DEF GenInv, r

(* A packet that is put means that the file was not at its end: there is no  *)
(* null packet yet.                                                        *)
LEMMA PutPacketNull ==
  ASSUME NEW q \in PacketQueueType, NEW d \in DecoderType, NEW x \in AVPacket,
         NEW p, NEW p1, NullInv(q, d, p), p # End, ~IsNull(x)
  PROVE  NullInv(packet_queue_put(q, x), d, p1)
<1> DEFINE r == packet_queue_put(q, x)
<1>1. /\ r \in PacketQueueType /\ r.serial = q.serial /\ Len(q.pkt_list) \in Nat
      /\ DOMAIN r.pkt_list = 1 .. Len(r.pkt_list) /\ DOMAIN q.pkt_list = 1 .. Len(q.pkt_list)
      /\ \/ r = q
         \/ /\ Len(r.pkt_list) = Len(q.pkt_list) + 1
            /\ \A i \in 1 .. Len(q.pkt_list) : r.pkt_list[i] = q.pkt_list[i]
            /\ r.pkt_list[Len(q.pkt_list) + 1] = [pkt |-> x, serial |-> q.serial]
  BY PutLeaves, QueueFields, Zenon
<1> HIDE DEF r
<1>2. \A i \in 1 .. Len(q.pkt_list) : ~IsNull(q.pkt_list[i].pkt)
  BY <1>1 DEF NullInv
<1>3. \A i \in DOMAIN r.pkt_list : ~IsNull(r.pkt_list[i].pkt)
  BY <1>1, <1>2
<1>4. /\ ~(d.pkt_serial = q.serial /\ d.pc = "send" /\ IsNull(d.pkt))
      /\ ~(d.pkt_serial = q.serial /\ d.draining) /\ d.finished # q.serial
  BY Zenon DEF NullInv
<1> QED BY <1>1, <1>3, <1>4, Zenon DEF NullInv, r

LEMMA PutNullNull ==
  ASSUME NEW q \in PacketQueueType, NEW d \in DecoderType, NEW x \in AVPacket,
         NullInv(q, d, End), IsNull(x)
  PROVE  NullInv(packet_queue_put(q, x), d, End)
<1> DEFINE r == packet_queue_put(q, x)
<1>1. /\ r \in PacketQueueType /\ r.serial = q.serial /\ Len(q.pkt_list) \in Nat
      /\ DOMAIN r.pkt_list = 1 .. Len(r.pkt_list) /\ DOMAIN q.pkt_list = 1 .. Len(q.pkt_list)
      /\ \/ r = q
         \/ /\ Len(r.pkt_list) = Len(q.pkt_list) + 1
            /\ \A i \in 1 .. Len(q.pkt_list) : r.pkt_list[i] = q.pkt_list[i]
            /\ r.pkt_list[Len(q.pkt_list) + 1] = [pkt |-> x, serial |-> q.serial]
  BY PutLeaves, QueueFields, Zenon
<1> HIDE DEF r
<1>2. ASSUME NEW i \in DOMAIN r.pkt_list, IsNull(r.pkt_list[i].pkt),
             NEW j \in i .. Len(r.pkt_list)
      PROVE  IsNull(r.pkt_list[j].pkt)
  <2>1. i \in 1 .. Len(r.pkt_list) /\ j \in 1 .. Len(r.pkt_list) /\ i <= j
    BY <1>1, <1>2
  <2>2. CASE r = q
    BY <1>1, <1>2, <2>2, Zenon DEF NullInv
  <2>3. CASE /\ Len(r.pkt_list) = Len(q.pkt_list) + 1
             /\ \A k \in 1 .. Len(q.pkt_list) : r.pkt_list[k] = q.pkt_list[k]
             /\ r.pkt_list[Len(q.pkt_list) + 1] = [pkt |-> x, serial |-> q.serial]
    <3>1. CASE j = Len(q.pkt_list) + 1
      BY <2>3, <3>1
    <3>2. CASE j # Len(q.pkt_list) + 1
      <4>1. i \in 1 .. Len(q.pkt_list) /\ j \in i .. Len(q.pkt_list) /\ j \in 1 .. Len(q.pkt_list)
        BY <1>1, <2>1, <2>3, <3>2
      <4>2. IsNull(q.pkt_list[i].pkt)
        BY <1>2, <2>3, <4>1, Zenon
      <4>3. IsNull(q.pkt_list[j].pkt)
        BY <1>1, <4>1, <4>2, Zenon DEF NullInv
      <4> QED BY <2>3, <4>1, <4>3, Zenon
    <3> QED BY <3>1, <3>2
  <2> QED BY <1>1, <2>2, <2>3, Zenon
<1>3. OnlyNulls(q) => OnlyNulls(r)
  BY <1>1, SMTT(30) DEF OnlyNulls
<1> QED BY <1>1, <1>2, <1>3, Zenon DEF NullInv, r

(* After a flush nothing has the queue's serial.                           *)
LEMMA FlushKeeps ==
  ASSUME NEW q \in PacketQueueType, NEW d \in DecoderType, NEW fs \in Seq(Frame),
         SerialInv(q, d, fs), NEW g, NEW p
  PROVE  LET r == packet_queue_flush(q) IN
         SerialInv(r, d, fs) /\ GenInv(r, d, fs, g) /\ NullInv(r, d, p)
<1> DEFINE r == packet_queue_flush(q)
<1>1. /\ r.serial = q.serial + 1 /\ r.nb_packets = 0 /\ r.pkt_list = <<>>
      /\ q.serial \in Nat
  BY FlushLeaves, QueueFields, Zenon
<1>2. Len(r.pkt_list) = 0 /\ DOMAIN r.pkt_list = {}
  BY <1>1
<1> HIDE DEF r
<1>3. /\ d.pkt_serial < r.serial /\ d.finished < r.serial /\ d.frame.serial < r.serial
      /\ d.pkt_serial # r.serial /\ d.finished # r.serial /\ d.frame.serial # r.serial
  BY <1>1, DecoderFields, SMTT(30) DEF SerialInv
<1>4. \A i \in DOMAIN fs : fs[i].serial < r.serial /\ fs[i].serial # r.serial
  <2>1. \A i \in DOMAIN fs : fs[i].serial \in Nat
    BY FramesFields, Zenon
  <2> QED BY <1>1, <2>1 DEF SerialInv
<1>5. SerialInv(r, d, fs)
  <2>1. /\ r.serial > 0 /\ d.pkt_serial <= r.serial /\ d.finished <= r.serial
        /\ d.frame.serial <= r.serial
    BY <1>1, <1>3, DecoderFields
  <2>2. \A i \in DOMAIN fs : fs[i].serial <= r.serial
    <3>1. \A i \in DOMAIN fs : fs[i].serial \in Nat
      BY FramesFields, Zenon
    <3> QED BY <1>1, <1>4, <3>1
  <2>3. r.nb_packets = Len(r.pkt_list) /\ OneSerial(r)
    BY <1>1, <1>2 DEF OneSerial
  <2> QED BY <2>1, <2>2, <2>3, Zenon DEF SerialInv
<1> QED BY <1>2, <1>3, <1>4, <1>5, Zenon DEF GenInv, NullInv, r

(* The decoder goes on, with what it has, to where it neither sends nor     *)
(* queues.                                                                 *)
LEMMA MoveKeeps ==
  ASSUME NEW q, NEW d, NEW d1, NEW fs,
         d1.pkt_serial = d.pkt_serial, d1.finished = d.finished, d1.codec = d.codec,
         d1.draining = d.draining, d1.frame = d.frame,
         d1.pc \notin {"send", "queue"}
  PROVE  /\ SerialInv(q, d, fs) => SerialInv(q, d1, fs)
         /\ \A g : GenInv(q, d, fs, g) => GenInv(q, d1, fs, g)
         /\ \A p : NullInv(q, d, p) => NullInv(q, d1, p)
<1>1. d1.pc # "send" /\ d1.pc # "queue"
  OBVIOUS
<1>2. SerialInv(q, d, fs) => SerialInv(q, d1, fs)
  BY <1>1, Zenon DEF SerialInv
<1>3. \A g : GenInv(q, d, fs, g) => GenInv(q, d1, fs, g)
  BY <1>1, Zenon DEF GenInv
<1>4. \A p : NullInv(q, d, p) => NullInv(q, d1, p)
  BY <1>1, Zenon DEF NullInv
<1> QED BY <1>2, <1>3, <1>4

(* A frame comes out of the codec.                                         *)
LEMMA TakeKeeps ==
  ASSUME NEW q, NEW d \in DecoderType, NEW d1, NEW fs, d.codec # <<>>, d.pkt_serial = q.serial,
         d1.pkt_serial = d.pkt_serial, d1.finished = d.finished, d1.codec = Tail(d.codec),
         d1.draining = d.draining, d1.frame = Head(d.codec), d1.pc = "queue"
  PROVE  /\ SerialInv(q, d, fs) => SerialInv(q, d1, fs)
         /\ \A g : GenInv(q, d, fs, g) => GenInv(q, d1, fs, g)
         /\ \A p : NullInv(q, d, p) => NullInv(q, d1, p)
<1>1. /\ Head(d.codec) = d.codec[1] /\ 1 \in DOMAIN d.codec
      /\ Len(Tail(d.codec)) = Len(d.codec) - 1
      /\ \A i \in DOMAIN Tail(d.codec) : /\ i + 1 \in DOMAIN d.codec
                                         /\ Tail(d.codec)[i] = d.codec[i + 1]
  <2>1. d.codec \in Seq(Frame)
    BY DecoderFields
  <2> QED BY <2>1
<1>2. SerialInv(q, d, fs) => SerialInv(q, d1, fs)
  <2>1. SUFFICES ASSUME SerialInv(q, d, fs) PROVE SerialInv(q, d1, fs)
    OBVIOUS
  <2>2. d.pkt_serial \in Int /\ q.serial <= q.serial
    BY DecoderFields
  <2>3. d1.frame.serial = d.pkt_serial /\ d1.frame.serial <= q.serial
    BY <1>1, <2>1, <2>2, Zenon DEF SerialInv
  <2>4. \A i \in DOMAIN d1.codec : d1.codec[i].serial = d1.pkt_serial
    BY <1>1, <2>1, ZenonT(30) DEF SerialInv
  <2> QED BY <2>1, <2>3, <2>4, Zenon DEF SerialInv
<1>3. \A g : GenInv(q, d, fs, g) => GenInv(q, d1, fs, g)
  <2>1. d1.pc # "send"
    OBVIOUS
  <2>2. ASSUME NEW g, GenInv(q, d, fs, g) PROVE GenInv(q, d1, fs, g)
    <3>1. \A i \in DOMAIN d.codec : d.codec[i].gen = g
      BY <2>2, Zenon DEF GenInv
    <3>2. ASSUME NEW i \in DOMAIN d1.codec PROVE d1.codec[i].gen = g
      <4>1. i + 1 \in DOMAIN d.codec /\ d1.codec[i] = d.codec[i + 1]
        BY <1>1, Zenon
      <4> QED BY <3>1, <4>1, Zenon
    <3>3. d1.frame.gen = g
      BY <1>1, <3>1, Zenon
    <3> QED BY <2>1, <2>2, <3>2, <3>3, Zenon DEF GenInv
  <2> QED BY <2>2
<1>4. \A p : NullInv(q, d, p) => NullInv(q, d1, p)
  <2>1. d1.pc # "send"
    OBVIOUS
  <2> QED BY <2>1, Zenon DEF NullInv
<1> QED BY <1>2, <1>3, <1>4

(* The codec is drained.                                                   *)
LEMMA FinishKeeps ==
  ASSUME NEW q, NEW d \in DecoderType, NEW d1, NEW fs,
         d.pkt_serial = q.serial, d.draining, d.codec = <<>>, d.pc = "receive",
         d1.pkt_serial = d.pkt_serial, d1.finished = d.pkt_serial, d1.codec = d.codec,
         d1.draining = FALSE, d1.frame = d.frame, d1.pc = d.pc
  PROVE  /\ SerialInv(q, d, fs) => SerialInv(q, d1, fs)
         /\ \A g : GenInv(q, d, fs, g) => GenInv(q, d1, fs, g)
         /\ \A p : NullInv(q, d, p) => NullInv(q, d1, p)
<1>1. d1.pc # "send" /\ d1.pc # "queue"
  OBVIOUS
<1>2. SerialInv(q, d, fs) => SerialInv(q, d1, fs)
  BY <1>1, Zenon DEF SerialInv
<1>3. \A g : GenInv(q, d, fs, g) => GenInv(q, d1, fs, g)
  BY <1>1, Zenon DEF GenInv
<1>4. \A p : NullInv(q, d, p) => NullInv(q, d1, p)
  BY <1>1, Zenon DEF NullInv
<1> QED BY <1>2, <1>3, <1>4

(* A packet is fetched; the codec is reset when it is of another stretch.   *)
LEMMA FetchKeeps ==
  ASSUME NEW q \in PacketQueueType, NEW d \in DecoderType, NEW d1, NEW fs, CanGet(q),
         SerialInv(q, d, fs),
         d1.pc = "send", d1.pkt = Got(q).pkt, d1.pkt_serial = Got(q).serial,
         d1.frame = d.frame,
         IF d.pkt_serial # Got(q).serial
           THEN d1.codec = <<>> /\ d1.draining = FALSE /\ d1.finished = 0
           ELSE d1.codec = d.codec /\ d1.draining = d.draining /\ d1.finished = d.finished
  PROVE  /\ SerialInv(packet_queue_get(q), d1, fs)
         /\ packet_queue_get(q) \in PacketQueueType
         /\ packet_queue_get(q).serial = q.serial /\ Got(q).serial = q.serial
         /\ \A g : GenInv(q, d, fs, g) => GenInv(packet_queue_get(q), d1, fs, g)
         /\ \A p : NullInv(q, d, p) => NullInv(packet_queue_get(q), d1, p)
<1> DEFINE r == packet_queue_get(q)
           n == Len(q.pkt_list)
<1>1. /\ n \in Nat \ {0} /\ Got(q) = q.pkt_list[1] /\ Got(q).pkt \in AVPacket
      /\ r.serial = q.serial /\ q.serial \in Nat
      /\ r.nb_packets = q.nb_packets - 1 /\ q.nb_packets = n
      /\ Len(r.pkt_list) = n - 1
      /\ \A i \in 1 .. n - 1 : r.pkt_list[i] = q.pkt_list[i + 1]
  BY GetLeaves, QueueFields, Zenon DEF SerialInv
<1>2. r \in PacketQueueType
  BY <1>1, GetLeaves
<1>3. Got(q).serial = q.serial /\ 1 \in 1 .. n
  BY <1>1 DEF SerialInv, OneSerial
<1>4. /\ DOMAIN r.pkt_list = 1 .. n - 1 /\ DOMAIN q.pkt_list = 1 .. n
      /\ \A i \in 1 .. n - 1 : i + 1 \in 1 .. n
  BY <1>1, <1>2, QueueFields
<1> HIDE DEF r, n
<1>5. SerialInv(r, d1, fs)
  <2>1. r.nb_packets = Len(r.pkt_list)
    BY <1>1
  <2>2. OneSerial(r)
    BY <1>1, <1>4, SMTT(30) DEF SerialInv, OneSerial, n
  <2>3. d1.pkt_serial <= q.serial /\ d1.finished <= q.serial /\ d1.frame.serial <= q.serial
    BY <1>1, <1>3, DecoderFields DEF SerialInv
  <2>4. \A i \in DOMAIN d1.codec : d1.codec[i].serial = d1.pkt_serial
    <3>1. CASE d.pkt_serial # Got(q).serial
      BY <3>1
    <3>2. CASE d.pkt_serial = Got(q).serial
      BY <3>2, Zenon DEF SerialInv
    <3> QED BY <3>1, <3>2
  <2>5. d1.pc # "queue"
    OBVIOUS
  <2> QED BY <1>1, <2>1, <2>2, <2>3, <2>4, <2>5, Zenon DEF SerialInv
<1>6. ASSUME NEW g, GenInv(q, d, fs, g) PROVE GenInv(r, d1, fs, g)
  <2>1. \A i \in DOMAIN r.pkt_list : IsNull(r.pkt_list[i].pkt) \/ r.pkt_list[i].pkt.gen = g
    <3>1. \A i \in 1 .. n : IsNull(q.pkt_list[i].pkt) \/ q.pkt_list[i].pkt.gen = g
      BY <1>4, <1>6, Zenon DEF GenInv
    <3> QED BY <1>1, <1>4, <3>1
  <2>2. IsNull(d1.pkt) \/ d1.pkt.gen = g
    <3>1. \A i \in 1 .. n : IsNull(q.pkt_list[i].pkt) \/ q.pkt_list[i].pkt.gen = g
      BY <1>4, <1>6, Zenon DEF GenInv
    <3> QED BY <1>1, <1>3, <3>1
  <2>3. \A i \in DOMAIN d1.codec : d1.codec[i].gen = g
    <3>1. CASE d.pkt_serial # Got(q).serial
      BY <3>1
    <3>2. CASE d.pkt_serial = Got(q).serial
      BY <1>3, <1>6, <3>2, Zenon DEF GenInv
    <3> QED BY <3>1, <3>2
  <2> QED BY <1>1, <1>6, <2>1, <2>2, <2>3, Zenon DEF GenInv
<1>7. ASSUME NEW p, NullInv(q, d, p) PROVE NullInv(r, d1, p)
  <2>1. ASSUME NEW i \in DOMAIN r.pkt_list, IsNull(r.pkt_list[i].pkt)
        PROVE  p = End /\ \A j \in i .. Len(r.pkt_list) : IsNull(r.pkt_list[j].pkt)
    <3>1. i \in 1 .. n - 1 /\ i + 1 \in DOMAIN q.pkt_list /\ IsNull(q.pkt_list[i + 1].pkt)
      BY <1>1, <1>4, <2>1, Zenon
    <3>2. p = End /\ \A j \in i + 1 .. n : IsNull(q.pkt_list[j].pkt)
      BY <1>7, <3>1, Zenon DEF NullInv, n
    <3>3. ASSUME NEW j \in i .. Len(r.pkt_list) PROVE IsNull(r.pkt_list[j].pkt)
      <4>1. j \in 1 .. n - 1 /\ j + 1 \in i + 1 .. n
        BY <1>1, <1>4, <3>1
      <4> QED BY <1>1, <3>2, <4>1, Zenon
    <3> QED BY <3>2, <3>3
  <2>2. OnlyNulls(q) => OnlyNulls(r) /\ IsNull(d1.pkt)
    BY <1>1, <1>3, <1>4, Zenon DEF OnlyNulls
  <2>3. IsNull(d1.pkt) => p = End /\ OnlyNulls(r)
    <3>1. SUFFICES ASSUME IsNull(d1.pkt) PROVE p = End /\ OnlyNulls(r)
      OBVIOUS
    <3>2. p = End /\ \A j \in 1 .. n : IsNull(q.pkt_list[j].pkt)
      BY <1>1, <1>3, <1>4, <1>7, <3>1, Zenon DEF NullInv, n
    <3> QED BY <1>1, <1>4, <3>2, Zenon DEF OnlyNulls
  <2>4. d1.draining => p = End /\ OnlyNulls(r) /\ IsNull(d1.pkt)
    BY <1>3, <1>7, <2>2, Zenon DEF NullInv
  <2>5. d1.finished = q.serial =>
          d1.pkt_serial = q.serial /\ p = End /\ OnlyNulls(r) /\ d1.codec = <<>> /\ IsNull(d1.pkt)
    <3>1. CASE d.pkt_serial # Got(q).serial
      <4>1. d1.finished # q.serial
        BY <1>1, <3>1 DEF SerialInv
      <4> QED BY <4>1
    <3>2. CASE d.pkt_serial = Got(q).serial
      BY <1>3, <1>7, <2>2, <3>2, Zenon DEF NullInv
    <3> QED BY <3>1, <3>2
  <2>6. d1.pc # "queue"
    OBVIOUS
  <2> QED BY <1>1, <2>1, <2>3, <2>4, <2>5, <2>6, Zenon DEF NullInv
<1> QED BY <1>1, <1>2, <1>3, <1>5, <1>6, <1>7 DEF r

(* A packet is sent.                                                       *)
LEMMA SendNullKeeps ==
  ASSUME NEW q, NEW d \in DecoderType, NEW d1, NEW fs,
         d.pc = "send", d.pkt_serial = q.serial, IsNull(d.pkt),
         d1.pkt_serial = d.pkt_serial, d1.finished = d.finished, d1.codec = d.codec,
         d1.draining = TRUE, d1.frame = d.frame, d1.pc = "receive"
  PROVE  /\ SerialInv(q, d, fs) => SerialInv(q, d1, fs)
         /\ \A g : GenInv(q, d, fs, g) => GenInv(q, d1, fs, g)
         /\ \A p : NullInv(q, d, p) => NullInv(q, d1, p)
<1>1. d1.pc # "send" /\ d1.pc # "queue"
  OBVIOUS
<1>2. SerialInv(q, d, fs) => SerialInv(q, d1, fs)
  BY <1>1, Zenon DEF SerialInv
<1>3. \A g : GenInv(q, d, fs, g) => GenInv(q, d1, fs, g)
  BY <1>1, Zenon DEF GenInv
<1>4. \A p : NullInv(q, d, p) => NullInv(q, d1, p)
  BY <1>1, Zenon DEF NullInv
<1> QED BY <1>2, <1>3, <1>4

LEMMA SendKeeps ==
  ASSUME NEW q, NEW d \in DecoderType, NEW d1, NEW fs, NEW f \in Frame,
         d.pc = "send", d.pkt_serial = q.serial, ~IsNull(d.pkt),
         f.gen = d.pkt.gen, f.serial = d.pkt_serial,
         d1.pkt_serial = d.pkt_serial, d1.finished = d.finished,
         d1.codec = IF d.draining THEN d.codec ELSE Append(d.codec, f),
         d1.draining = d.draining, d1.frame = d.frame, d1.pc = "receive"
  PROVE  /\ SerialInv(q, d, fs) => SerialInv(q, d1, fs)
         /\ \A g : GenInv(q, d, fs, g) => GenInv(q, d1, fs, g)
         /\ \A p : NullInv(q, d, p) => NullInv(q, d1, p)
<1>1. d1.pc # "send" /\ d1.pc # "queue"
  OBVIOUS
<1>2. \A i \in DOMAIN d1.codec : (i \in DOMAIN d.codec /\ d1.codec[i] = d.codec[i]) \/ d1.codec[i] = f
  <2>1. CASE d.draining
    BY <2>1
  <2>2. CASE ~d.draining
    <3>1. /\ d1.codec = Append(d.codec, f) /\ d.codec \in Seq(Frame)
          /\ DOMAIN d.codec = 1 .. Len(d.codec) /\ Len(d.codec) \in Nat
      BY <2>2, DecoderFields
    <3> QED BY <3>1
  <2> QED BY <2>1, <2>2
<1>3. SerialInv(q, d, fs) => SerialInv(q, d1, fs)
  <2>1. SUFFICES ASSUME SerialInv(q, d, fs) PROVE SerialInv(q, d1, fs)
    OBVIOUS
  <2>2. \A i \in DOMAIN d1.codec : d1.codec[i].serial = d1.pkt_serial
    BY <1>2, <2>1, Zenon DEF SerialInv
  <2> QED BY <1>1, <2>1, <2>2, Zenon DEF SerialInv
<1>4. ASSUME NEW g, GenInv(q, d, fs, g) PROVE GenInv(q, d1, fs, g)
  <2>1. d.pkt.gen = g /\ \A i \in DOMAIN d.codec : d.codec[i].gen = g
    BY <1>4, Zenon DEF GenInv
  <2>2. \A i \in DOMAIN d1.codec : d1.codec[i].gen = g
    BY <1>2, <2>1, Zenon
  <2> QED BY <1>1, <1>4, <2>2, Zenon DEF GenInv
<1>5. ASSUME NEW p, NullInv(q, d, p) PROVE NullInv(q, d1, p)
  <2>1. ~d.draining /\ d.finished # q.serial
    BY <1>5, Zenon DEF NullInv
  <2> QED BY <1>1, <1>5, <2>1, Zenon DEF NullInv
<1> QED BY <1>3, <1>4, <1>5

(* A frame is queued, with the serial of the packet in hand.               *)
LEMMA QueueKeeps ==
  ASSUME NEW q, NEW d \in DecoderType, NEW d1, NEW fs \in Seq(Frame), NEW f \in Frame,
         d.pc = "queue", f.gen = d.frame.gen, f.serial = d.pkt_serial,
         d1.pkt_serial = d.pkt_serial, d1.finished = d.finished, d1.codec = d.codec,
         d1.draining = d.draining, d1.frame = d.frame, d1.pc = "receive",
         SerialInv(q, d, fs)
  PROVE  /\ SerialInv(q, d1, Append(fs, f))
         /\ \A g : GenInv(q, d, fs, g) => GenInv(q, d1, Append(fs, f), g)
         /\ \A p : NullInv(q, d, p) => NullInv(q, d1, p) /\ d.finished # q.serial
<1>1. d1.pc # "send" /\ d1.pc # "queue"
  OBVIOUS
<1>2. \A i \in DOMAIN Append(fs, f) :
        (i \in DOMAIN fs /\ Append(fs, f)[i] = fs[i]) \/ Append(fs, f)[i] = f
  BY FramesFields
<1> DEFINE fs1 == Append(fs, f)
<1> HIDE DEF fs1
<1>3. \A i \in DOMAIN fs1 : (i \in DOMAIN fs /\ fs1[i] = fs[i]) \/ fs1[i] = f
  BY <1>2 DEF fs1
<1>4. SerialInv(q, d1, fs1)
  <2>1. \A i \in DOMAIN fs1 : fs1[i].serial <= q.serial
    BY <1>3, Zenon DEF SerialInv
  <2> QED BY <1>1, <2>1, Zenon DEF SerialInv
<1>5. ASSUME NEW g, GenInv(q, d, fs, g) PROVE GenInv(q, d1, fs1, g)
  <2>1. f.serial = q.serial => f.gen = g
    BY <1>5, Zenon DEF GenInv, SerialInv
  <2>2. \A i \in DOMAIN fs1 : fs1[i].serial = q.serial => fs1[i].gen = g
    BY <1>3, <1>5, <2>1, Zenon DEF GenInv
  <2> QED BY <1>1, <1>5, <2>2, Zenon DEF GenInv
<1>6. ASSUME NEW p, NullInv(q, d, p) PROVE NullInv(q, d1, p) /\ d.finished # q.serial
  <2>1. d.finished # q.serial
    BY <1>6, Zenon DEF NullInv
  <2> QED BY <1>1, <1>6, <2>1, Zenon DEF NullInv
<1> QED BY <1>4, <1>5, <1>6 DEF fs1

(* A presenter takes a frame.                                              *)
LEMMA NextKeeps ==
  ASSUME NEW q, NEW d, NEW fs \in Seq(Frame), fs # <<>>
  PROVE  /\ SerialInv(q, d, fs) => SerialInv(q, d, Tail(fs))
         /\ \A g : GenInv(q, d, fs, g) => GenInv(q, d, Tail(fs), g)
<1>1. \A i \in DOMAIN Tail(fs) : i + 1 \in DOMAIN fs /\ Tail(fs)[i] = fs[i + 1]
  OBVIOUS
<1>2. SerialInv(q, d, fs) => SerialInv(q, d, Tail(fs))
  BY <1>1, Zenon DEF SerialInv
<1>3. \A g : GenInv(q, d, fs, g) => GenInv(q, d, Tail(fs), g)
  BY <1>1, Zenon DEF GenInv
<1> QED BY <1>2, <1>3

(* Abort touches nothing of it.                                            *)
LEMMA AbortKeeps ==
  ASSUME NEW q \in PacketQueueType, NEW d, NEW fs
  PROVE  LET r == packet_queue_abort(q) IN
         /\ r \in PacketQueueType /\ r.serial = q.serial
         /\ SerialInv(q, d, fs) => SerialInv(r, d, fs)
         /\ \A g : GenInv(q, d, fs, g) => GenInv(r, d, fs, g)
         /\ \A p : NullInv(q, d, p) => NullInv(r, d, p)
<1> DEFINE r == packet_queue_abort(q)
<1>1. r \in PacketQueueType
  BY Zenon DEF packet_queue_abort, PacketQueueType
<1>2. r.serial = q.serial /\ r.pkt_list = q.pkt_list /\ r.nb_packets = q.nb_packets
  BY SMT DEF packet_queue_abort, PacketQueueType
<1> HIDE DEF r
<1>3. SerialInv(q, d, fs) => SerialInv(r, d, fs)
  BY <1>2, Zenon DEF SerialInv, OneSerial
<1>4. \A g : GenInv(q, d, fs, g) => GenInv(r, d, fs, g)
  BY <1>2, Zenon DEF GenInv
<1>5. \A p : NullInv(q, d, p) => NullInv(r, d, p)
  BY <1>2, Zenon DEF NullInv, OnlyNulls
<1> QED BY <1>1, <1>2, <1>3, <1>4, <1>5 DEF r

(* What no step but those below changes: the streams.                       *)
LEMMA QuietKeeps ==
  ASSUME IInv, UNCHANGED <<queue, dec, frames, rindex_shown, gen, pos>>,
         vp' \in Frame, shown' = shown,
         \A s \in Streams : Unflushed(s) => Unflushed(s)',
         ControlType', StageInv'
  PROVE  IInv'
<1>1. StreamInv'
  BY Zenon DEF IInv, StreamInv
<1>2. DataType'
  BY DEF IInv, TypeOK, DataType
<1> QED BY <1>1, <1>2 DEF IInv, TypeOK

(* read_thread: a request that needs no flush, and what follows the flush. *)
LEMMA SeekStepsInv ==
  ASSUME IInv,
         ReadTop \/ SeekFails \/ SeekDone \/ SeekPaused \/ ReadStepTest
           \/ ReadToggleLoad \/ ReadToggleStore \/ ReadStepSet \/ ReadCheckFull
  PROVE  IInv'
<1>0. vp \in Frame
  BY DEF IInv, TypeOK, DataType
<1>1. CASE ReadTop
  <2>1. ControlType'
    BY <1>1 DEF IInv, TypeOK, ControlType, ReadTop
  <2>2. StageInv'
    BY <1>1 DEF IInv, TypeOK, ControlType, StageInv, IsNext, ReadTop
  <2> QED BY <1>0, <1>1, <2>1, <2>2, QuietKeeps DEF ReadTop, Unflushed
<1>2. CASE SeekFails
  <2>1. ControlType'
    BY <1>2 DEF IInv, TypeOK, ControlType, SeekFails
  <2>2. StageInv'
    BY <1>2 DEF IInv, TypeOK, ControlType, StageInv, IsNext, SeekFails
  <2> QED BY <1>0, <1>2, <2>1, <2>2, QuietKeeps DEF SeekFails, Unflushed
<1>3. CASE SeekDone
  <2>1. ControlType'
    <3>1. ControlType
      BY DEF IInv, TypeOK
    <3>2. /\ rpc' = "sought" /\ eof' = FALSE /\ seek_req' = FALSE
          /\ UNCHANGED <<todo, open, eof_happened, paused, step, abort_play, abort_request,
                         loop, restarts, seek_pos, epc, after, apc, seeks, toggles, steps>>
      BY <1>3, Zenon DEF SeekDone
    <3> QED BY <3>1, <3>2, ZenonT(60) DEF ControlType
  <2>2. StageInv'
    BY <1>3 DEF IInv, TypeOK, ControlType, StageInv, IsNext, SeekDone
  <2> QED BY <1>0, <1>3, <2>1, <2>2, QuietKeeps DEF SeekDone, Unflushed
<1>4. CASE SeekPaused
  <2>1. ControlType'
    BY <1>4 DEF IInv, TypeOK, ControlType, SeekPaused
  <2>2. StageInv'
    BY <1>4 DEF IInv, TypeOK, ControlType, StageInv, IsNext, SeekPaused
  <2> QED BY <1>0, <1>4, <2>1, <2>2, QuietKeeps DEF SeekPaused, Unflushed
<1>5. CASE ReadStepTest
  <2>1. ControlType'
    BY <1>5 DEF IInv, TypeOK, ControlType, ReadStepTest
  <2>2. StageInv'
    BY <1>5 DEF IInv, TypeOK, ControlType, StageInv, IsNext, ReadStepTest
  <2> QED BY <1>0, <1>5, <2>1, <2>2, QuietKeeps DEF ReadStepTest, Unflushed
<1>6. CASE ReadToggleLoad
  <2>1. ControlType'
    BY <1>6 DEF IInv, TypeOK, ControlType, ReadToggleLoad
  <2>2. StageInv'
    BY <1>6 DEF IInv, TypeOK, ControlType, StageInv, IsNext, ReadToggleLoad
  <2> QED BY <1>0, <1>6, <2>1, <2>2, QuietKeeps DEF ReadToggleLoad, Unflushed
<1>7. CASE ReadToggleStore
  <2>1. ControlType'
    BY <1>7 DEF IInv, TypeOK, ControlType, ReadToggleStore
  <2>2. StageInv'
    BY <1>7 DEF IInv, TypeOK, ControlType, StageInv, IsNext, ReadToggleStore
  <2> QED BY <1>0, <1>7, <2>1, <2>2, QuietKeeps DEF ReadToggleStore, Unflushed
<1>8. CASE ReadStepSet
  <2>1. ControlType'
    BY <1>8 DEF IInv, TypeOK, ControlType, ReadStepSet
  <2>2. StageInv'
    BY <1>8 DEF IInv, TypeOK, ControlType, StageInv, IsNext, ReadStepSet
  <2> QED BY <1>0, <1>8, <2>1, <2>2, QuietKeeps DEF ReadStepSet, Unflushed
<1>9. CASE ReadCheckFull
  <2>1. ControlType'
    BY <1>9 DEF IInv, TypeOK, ControlType, ReadCheckFull
  <2>2. StageInv'
    BY <1>9 DEF IInv, TypeOK, ControlType, StageInv, IsNext, ReadCheckFull
  <2> QED BY <1>0, <1>9, <2>1, <2>2, QuietKeeps DEF ReadCheckFull, Unflushed
<1> QED BY <1>1, <1>2, <1>3, <1>4, <1>5, <1>6, <1>7, <1>8, <1>9

(* read_thread: has everything been played, and what then. *)
LEMMA EndStepsInv ==
  ASSUME IInv,
         PlayedTest \/ (\E s \in Streams : FinishedTest(s))
           \/ (\E s \in Streams : RemainingTest(s)) \/ Restart \/ RestartSeekPos
           \/ RestartSeekReq \/ AutoExits \/ StaysAtEnd
  PROVE  IInv'
<1>0. vp \in Frame
  BY DEF IInv, TypeOK, DataType
<1>1. CASE PlayedTest
  <2>1. ControlType'
    BY <1>1 DEF IInv, TypeOK, ControlType, PlayedTest
  <2>2. StageInv'
    BY <1>1 DEF IInv, TypeOK, ControlType, StageInv, IsNext, PlayedTest
  <2> QED BY <1>0, <1>1, <2>1, <2>2, QuietKeeps DEF PlayedTest, Unflushed
<1>2. ASSUME NEW s \in Streams, FinishedTest(s) PROVE IInv'
  <2>1. ControlType'
    BY <1>2 DEF IInv, TypeOK, ControlType, FinishedTest
  <2>2. StageInv'
    <3>1. CASE dec[s].finished = queue[s].serial
      <4>1. rpc' = "remaining" /\ todo' = todo /\ s \in todo
        BY <1>2, <3>1 DEF FinishedTest, IsNext
      <4>2. \A t \in Streams : IsNext(t) => t = s
        BY <1>2, Parameters DEF FinishedTest, IsNext, Audio, Video
      <4> QED BY <1>2, <3>1, <4>1, <4>2 DEF IInv, StageInv, IsNext, FinishedTest
    <3>2. CASE dec[s].finished # queue[s].serial
      <4>1. rpc' = "read" /\ todo' = {}
        BY <1>2, <3>2 DEF FinishedTest
      <4> QED BY <1>2, <4>1 DEF IInv, StageInv, FinishedTest
    <3> QED BY <3>1, <3>2
  <2> QED BY <1>0, <1>2, <2>1, <2>2, QuietKeeps DEF FinishedTest, Unflushed
<1>3. ASSUME NEW s \in Streams, RemainingTest(s) PROVE IInv'
  <2>1. ControlType'
    BY <1>3 DEF IInv, TypeOK, ControlType, RemainingTest
  <2>2. StageInv'
    <3>1. CASE Remaining(s) = 0
      <4>1. /\ todo' = todo \ {s} /\ rpc' \in {"played", "finished"}
            /\ rpc' = "played" => todo' = {}
        BY <1>3, <3>1 DEF RemainingTest
      <4>2. dec[s].finished = queue[s].serial /\ frames[s] = <<>>
        <5>1. frames[s] \in Seq(Frame)
          BY DEF IInv, TypeOK, DataType
        <5>2. frames[s] = <<>>
          BY <3>1, <5>1 DEF Remaining
        <5> QED BY <1>3, <5>2 DEF IInv, StageInv, RemainingTest
      <4>3. \A t \in Streams \ todo' : dec[t].finished = queue[t].serial /\ frames[t] = <<>>
        BY <1>3, <4>1, <4>2 DEF IInv, StageInv, RemainingTest
      <4> QED BY <1>3, <4>1, <4>3 DEF IInv, StageInv, RemainingTest
    <3>2. CASE Remaining(s) # 0
      <4>1. rpc' = "read" /\ todo' = {}
        BY <1>3, <3>2 DEF RemainingTest
      <4> QED BY <1>3, <4>1 DEF IInv, StageInv, RemainingTest
    <3> QED BY <3>1, <3>2
  <2> QED BY <1>0, <1>3, <2>1, <2>2, QuietKeeps DEF RemainingTest, Unflushed
<1>4. CASE Restart
  <2>1. ControlType'
    BY <1>4, Parameters DEF IInv, TypeOK, ControlType, Restart
  <2>2. StageInv'
    BY <1>4 DEF IInv, TypeOK, ControlType, StageInv, IsNext, Restart
  <2> QED BY <1>0, <1>4, <2>1, <2>2, QuietKeeps DEF Restart, Unflushed
<1>5. CASE RestartSeekPos
  <2>1. ControlType'
    BY <1>5, Parameters DEF IInv, TypeOK, ControlType, RestartSeekPos
  <2>2. StageInv'
    BY <1>5 DEF IInv, TypeOK, ControlType, StageInv, IsNext, RestartSeekPos
  <2> QED BY <1>0, <1>5, <2>1, <2>2, QuietKeeps DEF RestartSeekPos, Unflushed
<1>6. CASE AutoExits
  <2>1. ControlType'
    BY <1>6 DEF IInv, TypeOK, ControlType, AutoExits
  <2>2. StageInv'
    BY <1>6 DEF IInv, TypeOK, ControlType, StageInv, IsNext, AutoExits
  <2> QED BY <1>0, <1>6, <2>1, <2>2, QuietKeeps DEF AutoExits, Unflushed
<1>7. CASE StaysAtEnd
  <2>1. ControlType'
    BY <1>7 DEF IInv, TypeOK, ControlType, StaysAtEnd
  <2>2. StageInv'
    BY <1>7 DEF IInv, TypeOK, ControlType, StageInv, IsNext, StaysAtEnd
  <2> QED BY <1>0, <1>7, <2>1, <2>2, QuietKeeps DEF StaysAtEnd, Unflushed
<1>8. CASE RestartSeekReq
  <2>1. ControlType'
    BY <1>8, Parameters DEF IInv, TypeOK, ControlType, RestartSeekReq
  <2>2. StageInv'
    BY <1>8 DEF IInv, TypeOK, ControlType, StageInv, IsNext, RestartSeekReq
  <2> QED BY <1>0, <1>8, <2>1, <2>2, QuietKeeps DEF RestartSeekReq, Unflushed
<1> QED BY <1>1, <1>2, <1>3, <1>4, <1>5, <1>6, <1>7, <1>8

(* The presenters, where they take no frame. *)
LEMMA PresentStepsInv ==
  ASSUME IInv,
         AudioStarts \/ AudioSilence \/ Dequeue \/ NotDue \/ Due \/ EndStep
  PROVE  IInv'
<1>0. vp \in Frame
  BY DEF IInv, TypeOK, DataType
<1>1. CASE AudioStarts
  <2>1. ControlType'
    BY <1>1 DEF IInv, TypeOK, ControlType, AudioStarts
  <2>2. StageInv'
    BY <1>1 DEF IInv, TypeOK, ControlType, StageInv, IsNext, AudioStarts
  <2> QED BY <1>0, <1>1, <2>1, <2>2, QuietKeeps DEF AudioStarts, Unflushed
<1>2. CASE AudioSilence
  <2>1. ControlType'
    BY <1>2 DEF IInv, TypeOK, ControlType, AudioSilence
  <2>2. StageInv'
    BY <1>2 DEF IInv, TypeOK, ControlType, StageInv, IsNext, AudioSilence
  <2> QED BY <1>0, <1>2, <2>1, <2>2, QuietKeeps DEF AudioSilence, Unflushed
<1>3. CASE Dequeue
  <2>1. ControlType'
    BY <1>3 DEF IInv, TypeOK, ControlType, Dequeue
  <2>2. StageInv'
    <3>1. Video \in Streams /\ frames[Video] # <<>>
      BY <1>3 DEF IInv, TypeOK, ControlType, Dequeue, Refreshes, Remaining
    <3> QED BY <1>3, <3>1 DEF IInv, StageInv, IsNext, Dequeue, Refreshes
  <2>3. vp' \in Frame
    <3>1. frames[Video] \in Seq(Frame) /\ frames[Video] # <<>>
      BY <1>3 DEF IInv, TypeOK, ControlType, DataType, Dequeue, Refreshes, Remaining
    <3> QED BY <1>3, <3>1 DEF Dequeue
  <2> QED BY <1>0, <1>3, <2>1, <2>2, QuietKeeps, <2>3 DEF Dequeue, Unflushed
<1>4. CASE NotDue
  <2>1. ControlType'
    BY <1>4 DEF IInv, TypeOK, ControlType, NotDue
  <2>2. StageInv'
    BY <1>4 DEF IInv, TypeOK, ControlType, StageInv, IsNext, NotDue
  <2> QED BY <1>0, <1>4, <2>1, <2>2, QuietKeeps, Packets DEF NotDue, Unflushed
<1>5. CASE Due
  <2>1. ControlType'
    BY <1>5 DEF IInv, TypeOK, ControlType, Due
  <2>2. StageInv'
    BY <1>5 DEF IInv, TypeOK, ControlType, StageInv, IsNext, Due
  <2> QED BY <1>0, <1>5, <2>1, <2>2, QuietKeeps DEF Due, Unflushed
<1>6. CASE EndStep
  <2>1. ControlType'
    BY <1>6 DEF IInv, TypeOK, ControlType, EndStep
  <2>2. StageInv'
    BY <1>6 DEF IInv, TypeOK, ControlType, StageInv, IsNext, EndStep
  <2> QED BY <1>0, <1>6, <2>1, <2>2, QuietKeeps DEF EndStep, Unflushed
<1> QED BY <1>1, <1>2, <1>3, <1>4, <1>5, <1>6

(* The tasks of the application. *)
LEMMA TaskStepsInv ==
  ASSUME IInv,
         RequestSeek \/ (\E t \in SeekTargets : RequestSeekPos(t)) \/ RequestSeekReq
           \/ ToggleLoad \/ ToggleStore \/ TogglePause \/ ClearStep
           \/ StepToNextFrame \/ SetStep
  PROVE  IInv'
<1>0. vp \in Frame
  BY DEF IInv, TypeOK, DataType
<1>1. CASE RequestSeek
  <2>1. ControlType'
    BY <1>1, Parameters DEF IInv, TypeOK, ControlType, RequestSeek, TaskRuns
  <2>2. StageInv'
    BY <1>1 DEF IInv, TypeOK, ControlType, StageInv, IsNext, RequestSeek
  <2> QED BY <1>0, <1>1, <2>1, <2>2, QuietKeeps DEF RequestSeek, Unflushed
<1>2. ASSUME NEW t \in SeekTargets, RequestSeekPos(t) PROVE IInv'
  <2>1. ControlType'
    BY <1>2, Parameters DEF IInv, TypeOK, ControlType, RequestSeekPos
  <2>2. StageInv'
    BY <1>2 DEF IInv, TypeOK, ControlType, StageInv, IsNext, RequestSeekPos
  <2> QED BY <1>0, <1>2, <2>1, <2>2, QuietKeeps DEF RequestSeekPos, Unflushed
<1>3. CASE ToggleLoad
  <2>1. ControlType'
    BY <1>3 DEF IInv, TypeOK, ControlType, ToggleLoad
  <2>2. StageInv'
    BY <1>3 DEF IInv, TypeOK, ControlType, StageInv, IsNext, ToggleLoad
  <2> QED BY <1>0, <1>3, <2>1, <2>2, QuietKeeps DEF ToggleLoad, Unflushed
<1>4. CASE ToggleStore
  <2>1. ControlType'
    BY <1>4 DEF IInv, TypeOK, ControlType, ToggleStore
  <2>2. StageInv'
    BY <1>4 DEF IInv, TypeOK, ControlType, StageInv, IsNext, ToggleStore
  <2> QED BY <1>0, <1>4, <2>1, <2>2, QuietKeeps DEF ToggleStore, Unflushed
<1>5. CASE TogglePause
  <2>1. ControlType'
    BY <1>5, Parameters DEF IInv, TypeOK, ControlType, TogglePause, TaskRuns
  <2>2. StageInv'
    BY <1>5 DEF IInv, TypeOK, ControlType, StageInv, IsNext, TogglePause
  <2> QED BY <1>0, <1>5, <2>1, <2>2, QuietKeeps DEF TogglePause, Unflushed
<1>6. CASE ClearStep
  <2>1. ControlType'
    <3>1. step' \in BOOLEAN /\ epc' = "loop"
      BY <1>6 DEF ClearStep
    <3>2. UNCHANGED <<rpc, todo, open, eof, eof_happened, seek_req, paused, abort_play,
                      abort_request, loop, restarts, seek_pos, after, apc, seeks, toggles,
                         steps>>
      BY <1>6 DEF ClearStep
    <3> QED BY <3>1, <3>2 DEF IInv, TypeOK, ControlType
  <2>2. StageInv'
    BY <1>6 DEF IInv, TypeOK, ControlType, StageInv, IsNext, ClearStep
  <2> QED BY <1>0, <1>6, <2>1, <2>2, QuietKeeps DEF ClearStep, Unflushed
<1>7. CASE StepToNextFrame
  <2>1. ControlType'
    BY <1>7, Parameters DEF IInv, TypeOK, ControlType, StepToNextFrame, TaskRuns
  <2>2. StageInv'
    BY <1>7 DEF IInv, TypeOK, ControlType, StageInv, IsNext, StepToNextFrame
  <2> QED BY <1>0, <1>7, <2>1, <2>2, QuietKeeps DEF StepToNextFrame, Unflushed
<1>8. CASE SetStep
  <2>1. ControlType'
    BY <1>8 DEF IInv, TypeOK, ControlType, SetStep
  <2>2. StageInv'
    BY <1>8 DEF IInv, TypeOK, ControlType, StageInv, IsNext, SetStep
  <2> QED BY <1>0, <1>8, <2>1, <2>2, QuietKeeps DEF SetStep, Unflushed
<1>9. CASE RequestSeekReq
  <2>1. ControlType'
    BY <1>9 DEF IInv, TypeOK, ControlType, RequestSeekReq
  <2>2. StageInv'
    BY <1>9 DEF IInv, TypeOK, ControlType, StageInv, IsNext, RequestSeekReq
  <2> QED BY <1>0, <1>9, <2>1, <2>2, QuietKeeps DEF RequestSeekReq, Unflushed
<1> QED BY <1>1, <1>2, <1>3, <1>4, <1>5, <1>6, <1>7, <1>8, <1>9

(* Stopping, up to the closing of components. *)
LEMMA StopStepsInv ==
  ASSUME IInv,
         StopPlayer \/ StreamClose \/ JoinReadThread
  PROVE  IInv'
<1>0. vp \in Frame
  BY DEF IInv, TypeOK, DataType
<1>1. CASE StopPlayer
  <2>1. ControlType'
    BY <1>1 DEF IInv, TypeOK, ControlType, StopPlayer
  <2>2. StageInv'
    BY <1>1 DEF IInv, TypeOK, ControlType, StageInv, IsNext, StopPlayer
  <2> QED BY <1>0, <1>1, <2>1, <2>2, QuietKeeps DEF StopPlayer, Unflushed
<1>2. CASE StreamClose
  <2>1. ControlType'
    BY <1>2 DEF IInv, TypeOK, ControlType, StreamClose
  <2>2. StageInv'
    BY <1>2 DEF IInv, TypeOK, ControlType, StageInv, IsNext, StreamClose
  <2> QED BY <1>0, <1>2, <2>1, <2>2, QuietKeeps DEF StreamClose, Unflushed
<1>3. CASE JoinReadThread
  <2>1. ControlType'
    BY <1>3 DEF IInv, TypeOK, ControlType, JoinReadThread
  <2>2. StageInv'
    BY <1>3 DEF IInv, TypeOK, ControlType, StageInv, IsNext, JoinReadThread
  <2> QED BY <1>0, <1>3, <2>1, <2>2, QuietKeeps DEF JoinReadThread, Unflushed
<1> QED BY <1>1, <1>2, <1>3

-----------------------------------------------------------------------------
(* Steps that change one stream.                                           *)
LEMMA OneStream ==
  ASSUME IInv, NEW s \in Streams, gen' = gen, pos' = pos,
         \A t \in Streams \ {s} : /\ queue'[t] = queue[t] /\ dec'[t] = dec[t]
                                  /\ frames'[t] = frames[t]
                                  /\ Unflushed(t) => Unflushed(t)',
         SerialInv(queue'[s], dec'[s], frames'[s]),
         ~Unflushed(s)' => /\ GenInv(queue'[s], dec'[s], frames'[s], gen)
                           /\ NullInv(queue'[s], dec'[s], pos)
  PROVE  StreamInv'
<1>1. ASSUME NEW t \in Streams \ {s}
      PROVE  /\ SerialInv(queue'[t], dec'[t], frames'[t])
             /\ ~Unflushed(t)' => /\ GenInv(queue'[t], dec'[t], frames'[t], gen)
                                  /\ NullInv(queue'[t], dec'[t], pos)
  BY <1>1, Zenon DEF IInv, StreamInv
<1> QED BY <1>1, Zenon DEF StreamInv

(* A step of the decoder of s: it changes nothing of other threads, leaves   *)
(* the serial, and once it has finished it adds nothing.                   *)
LEMMA DecoderKeeps ==
  ASSUME IInv, NEW s \in Streams, UNCHANGED <<others, rindex_shown>>,
         queue' \in [Streams -> PacketQueueType], dec' \in [Streams -> DecoderType],
         frames' \in [Streams -> Seq(Frame)],
         \A t \in Streams \ {s} : /\ queue'[t] = queue[t] /\ dec'[t] = dec[t]
                                  /\ frames'[t] = frames[t],
         queue'[s].serial = queue[s].serial,
         SerialInv(queue'[s], dec'[s], frames'[s]),
         \A g : GenInv(queue[s], dec[s], frames[s], g)
                  => GenInv(queue'[s], dec'[s], frames'[s], g),
         \A p : NullInv(queue[s], dec[s], p) =>
                  /\ NullInv(queue'[s], dec'[s], p)
                  /\ dec[s].finished = queue[s].serial =>
                       dec'[s].finished = dec[s].finished /\ frames'[s] = frames[s],
         frames[s] # <<>> => frames'[s] # <<>>
  PROVE  IInv'
<1>1. \A t \in Streams : Unflushed(t)' <=> Unflushed(t)
  BY DEF Unflushed
<1>2. StreamInv'
  <2>1. ~Unflushed(s)' => /\ GenInv(queue'[s], dec'[s], frames'[s], gen)
                          /\ NullInv(queue'[s], dec'[s], pos)
    BY <1>1, Zenon DEF IInv, StreamInv
  <2> QED BY <1>1, <2>1, OneStream
<1>3. TypeOK'
  <2>1. ControlType'
    BY DEF IInv, TypeOK, ControlType
  <2>2. DataType'
    BY DEF IInv, TypeOK, DataType
  <2> QED BY <2>1, <2>2 DEF TypeOK
<1>4. StageInv'
  <2>1. rpc # "flush" =>
          /\ dec[s].finished = queue[s].serial => dec'[s].finished = queue'[s].serial
          /\ dec[s].finished = queue[s].serial /\ frames[s] = <<>> => frames'[s] = <<>>
    BY Zenon DEF IInv, StreamInv, Unflushed
  <2>2. rpc \in {"finished", "remaining", "played"} =>
          \A t \in Streams \ todo : dec'[t].finished = queue'[t].serial /\ frames'[t] = <<>>
    BY <2>1, SMTT(30) DEF IInv, StageInv
  <2>3. rpc = "remaining" => \A t \in Streams : IsNext(t) => dec'[t].finished = queue'[t].serial
    BY <2>1 DEF IInv, StageInv
  <2>4. epc \in {"due", "show"} => Video \in Streams /\ frames'[Video] # <<>>
    BY DEF IInv, StageInv
  <2> QED BY <2>2, <2>3, <2>4 DEF IInv, StageInv, IsNext
<1> QED BY <1>2, <1>3, <1>4 DEF IInv

LEMMA Updated ==
  ASSUME NEW T, NEW f \in [Streams -> T], NEW s \in Streams, NEW v \in T
  PROVE  /\ [f EXCEPT ![s] = v] \in [Streams -> T]
         /\ [f EXCEPT ![s] = v][s] = v
         /\ \A t \in Streams \ {s} : [f EXCEPT ![s] = v][t] = f[t]
OBVIOUS

(* What is known of a stream before a step.                                *)
LEMMA Known ==
  ASSUME IInv, NEW s \in Streams
  PROVE  /\ queue \in [Streams -> PacketQueueType] /\ queue[s] \in PacketQueueType
         /\ dec \in [Streams -> DecoderType] /\ dec[s] \in DecoderType
         /\ frames \in [Streams -> Seq(Frame)] /\ frames[s] \in Seq(Frame)
         /\ SerialInv(queue[s], dec[s], frames[s])
         /\ gen \in Nat /\ pos \in 0 .. End /\ End \in Nat
BY Parameters DEF IInv, TypeOK, DataType, StreamInv

(* A decoder that only moves on.                                           *)
LEMMA DecoderMoves ==
  ASSUME IInv, NEW s \in Streams, UNCHANGED <<others, rindex_shown, queue, frames>>,
         NEW to \in {"receive", "fetch", "exit"}, dec' = [dec EXCEPT ![s].pc = to]
  PROVE  IInv'
<1> DEFINE d1 == [dec[s] EXCEPT !.pc = to]
<1>1. d1 \in DecoderType
  BY Known, Zenon DEF DecoderType
<1>2. /\ d1.pkt_serial = dec[s].pkt_serial /\ d1.finished = dec[s].finished
      /\ d1.codec = dec[s].codec /\ d1.draining = dec[s].draining /\ d1.frame = dec[s].frame
      /\ d1.pc = to /\ d1.pc \notin {"send", "queue"}
  BY Known DEF DecoderType
<1>3. /\ dec' \in [Streams -> DecoderType] /\ dec'[s] = d1
      /\ \A t \in Streams \ {s} : dec'[t] = dec[t]
  BY <1>1, Known, Updated, Zenon
<1> HIDE DEF d1
<1>4. /\ SerialInv(queue[s], d1, frames[s])
      /\ \A g : GenInv(queue[s], dec[s], frames[s], g) => GenInv(queue[s], d1, frames[s], g)
      /\ \A p : NullInv(queue[s], dec[s], p) => NullInv(queue[s], d1, p)
  BY <1>2, Known, MoveKeeps, Zenon
<1>5. /\ UNCHANGED <<others, rindex_shown>> /\ queue' = queue /\ frames' = frames
      /\ dec'[s].finished = dec[s].finished /\ queue'[s].serial = queue[s].serial
  BY <1>2, <1>3
<1>6. /\ SerialInv(queue'[s], dec'[s], frames'[s])
      /\ \A g : GenInv(queue[s], dec[s], frames[s], g)
               => GenInv(queue'[s], dec'[s], frames'[s], g)
      /\ \A p : NullInv(queue[s], dec[s], p) => NullInv(queue'[s], dec'[s], p)
  BY <1>3, <1>4, <1>5, Zenon
<1> QED BY <1>3, <1>5, <1>6, Known, DecoderKeeps, Zenon

LEMMA ReceiveInv ==
  ASSUME IInv, NEW s \in Streams, Receive(s)
  PROVE  IInv'
<1> DEFINE d == dec[s]
           q == queue[s]
<1>1. CASE q.serial # d.pkt_serial /\ dec' = [dec EXCEPT ![s].pc = "fetch"]
  BY <1>1, DecoderMoves DEF Receive
<1>2. CASE dec' = [dec EXCEPT ![s].pc = "exit"]
  BY <1>2, DecoderMoves DEF Receive
<1>3. CASE /\ q.serial = d.pkt_serial /\ d.codec # <<>>
           /\ dec' = [dec EXCEPT ![s].pc = "queue", ![s].codec = Tail(d.codec),
                                 ![s].frame = Head(d.codec)]
  <2> DEFINE d1 == [d EXCEPT !.pc = "queue", !.codec = Tail(d.codec), !.frame = Head(d.codec)]
  <2>1. Tail(d.codec) \in Seq(Frame) /\ Head(d.codec) \in Frame
    BY <1>3, Known, DecoderFields
  <2>2. d1 \in DecoderType
    BY <2>1, Known, Zenon DEF DecoderType
  <2>3. /\ d1.pkt_serial = d.pkt_serial /\ d1.finished = d.finished
        /\ d1.codec = Tail(d.codec) /\ d1.draining = d.draining
        /\ d1.frame = Head(d.codec) /\ d1.pc = "queue"
    BY Known DEF DecoderType
  <2>4. dec' = [dec EXCEPT ![s] = d1]
    BY <1>3, Known
  <2>5. /\ dec' \in [Streams -> DecoderType] /\ dec'[s] = d1
        /\ \A t \in Streams \ {s} : dec'[t] = dec[t]
    BY <2>2, <2>4, Known, Updated, Zenon
  <2> HIDE DEF d1
  <2>6. /\ SerialInv(q, d1, frames[s])
        /\ \A g : GenInv(q, d, frames[s], g) => GenInv(q, d1, frames[s], g)
        /\ \A p : NullInv(q, d, p) => NullInv(q, d1, p)
    BY <1>3, <2>3, Known, TakeKeeps, Zenon
  <2>7. UNCHANGED <<others, rindex_shown, queue, frames>>
    BY DEF Receive
  <2> QED BY <2>3, <2>5, <2>6, <2>7, Known, DecoderKeeps, Zenon
<1>4. CASE /\ q.serial = d.pkt_serial /\ d.draining /\ d.codec = <<>> /\ d.pc = "receive"
           /\ dec' = [dec EXCEPT ![s].finished = d.pkt_serial, ![s].draining = FALSE]
  <2> DEFINE d1 == [d EXCEPT !.finished = d.pkt_serial, !.draining = FALSE]
  <2>1. d.pkt_serial \in Nat
    BY <1>4, Known, QueueFields
  <2>2. d1 \in DecoderType
    BY <2>1, Known, Zenon DEF DecoderType
  <2>3. /\ d1.pkt_serial = d.pkt_serial /\ d1.finished = d.pkt_serial
        /\ d1.codec = d.codec /\ d1.draining = FALSE
        /\ d1.frame = d.frame /\ d1.pc = d.pc
    BY Known DEF DecoderType
  <2>4. dec' = [dec EXCEPT ![s] = d1]
    BY <1>4, Known
  <2>5. /\ dec' \in [Streams -> DecoderType] /\ dec'[s] = d1
        /\ \A t \in Streams \ {s} : dec'[t] = dec[t]
    BY <2>2, <2>4, Known, Updated, Zenon
  <2> HIDE DEF d1
  <2>6. /\ SerialInv(q, d1, frames[s])
        /\ \A g : GenInv(q, d, frames[s], g) => GenInv(q, d1, frames[s], g)
        /\ \A p : NullInv(q, d, p) => NullInv(q, d1, p)
    BY <1>4, <2>3, Known, FinishKeeps, Zenon
  <2>7. UNCHANGED <<others, rindex_shown, queue, frames>>
    BY DEF Receive
  <2>8. d.finished = q.serial => d1.finished = d.finished
    BY <1>4, <2>3, Zenon
  <2> QED BY <2>5, <2>6, <2>7, <2>8, Known, DecoderKeeps, Zenon
<1>5. CASE dec' = [dec EXCEPT ![s].pc = "fetch"]
  BY <1>5, DecoderMoves DEF Receive
<1> QED BY <1>1, <1>2, <1>3, <1>4, <1>5 DEF Receive

LEMMA FetchInv ==
  ASSUME IInv, NEW s \in Streams, Fetch(s)
  PROVE  IInv'
<1> DEFINE d == dec[s]
           q == queue[s]
           got == Got(q)
           new == d.pkt_serial # got.serial
           q1 == packet_queue_get(q)
           d1 == [d EXCEPT !.pc = "send", !.pkt = got.pkt, !.pkt_serial = got.serial,
                           !.codec    = IF new THEN <<>>  ELSE d.codec,
                           !.draining = IF new THEN FALSE ELSE d.draining,
                           !.finished = IF new THEN 0     ELSE d.finished]
<1>1. /\ CanGet(q) /\ queue' = [queue EXCEPT ![s] = q1] /\ dec' = [dec EXCEPT ![s] = d1]
      /\ UNCHANGED <<others, rindex_shown, frames>>
  BY DEF Fetch
<1>2. got.pkt \in AVPacket /\ got.serial \in Nat
  BY <1>1, Known, GetLeaves, Zenon
<1>3. d1 \in DecoderType
  <2>1. /\ (IF new THEN <<>> ELSE d.codec) \in Seq(Frame)
        /\ (IF new THEN FALSE ELSE d.draining) \in BOOLEAN
        /\ (IF new THEN 0 ELSE d.finished) \in Nat
    <3>1. <<>> \in Seq(Frame) /\ d.codec \in Seq(Frame)
      BY Known, DecoderFields
    <3>2. d.draining \in BOOLEAN /\ d.finished \in Nat /\ 0 \in Nat
      BY Known, DecoderFields
    <3> QED BY <3>1, <3>2, Zenon
  <2> QED BY <1>2, <2>1, Known, ZenonT(30) DEF DecoderType
<1>4. /\ d1.pc = "send" /\ d1.pkt = got.pkt /\ d1.pkt_serial = got.serial /\ d1.frame = d.frame
      /\ IF new THEN d1.codec = <<>> /\ d1.draining = FALSE /\ d1.finished = 0
                ELSE d1.codec = d.codec /\ d1.draining = d.draining /\ d1.finished = d.finished
  BY Known, ZenonT(40) DEF DecoderType
<1> HIDE DEF d1
<1>5. /\ SerialInv(q1, d1, frames[s]) /\ q1 \in PacketQueueType
      /\ q1.serial = q.serial /\ got.serial = q.serial
      /\ \A g : GenInv(q, d, frames[s], g) => GenInv(q1, d1, frames[s], g)
      /\ \A p : NullInv(q, d, p) => NullInv(q1, d1, p)
  BY <1>1, <1>4, Known, FetchKeeps, ZenonT(30)
<1>6. /\ dec' \in [Streams -> DecoderType] /\ dec'[s] = d1
      /\ \A t \in Streams \ {s} : dec'[t] = dec[t]
  BY <1>1, <1>3, Known, Updated, Zenon
<1>7. /\ queue' \in [Streams -> PacketQueueType] /\ queue'[s] = q1
      /\ \A t \in Streams \ {s} : queue'[t] = queue[t]
  BY <1>1, <1>5, Known, Updated, Zenon
<1>8. \A p : NullInv(q, d, p) /\ d.finished = q.serial => d1.finished = d.finished
  BY <1>4, <1>5, Zenon DEF NullInv
<1> QED BY <1>1, <1>5, <1>6, <1>7, <1>8, Known, DecoderKeeps, Zenon

LEMMA SendInv ==
  ASSUME IInv, NEW s \in Streams, Send(s)
  PROVE  IInv'
<1> DEFINE d == dec[s]
           q == queue[s]
           f == [gen |-> d.pkt.gen, pos |-> d.pkt.pos, serial |-> d.pkt_serial]
<1>1. CASE q.serial # d.pkt_serial
  <2>1. dec' = [dec EXCEPT ![s].pc = "fetch"]
    BY <1>1 DEF Send
  <2> QED BY <2>1, DecoderMoves DEF Send
<1>2. CASE q.serial = d.pkt_serial /\ IsNull(d.pkt)
  <2> DEFINE d1 == [d EXCEPT !.pc = "receive", !.draining = TRUE]
  <2>1. d1 \in DecoderType
    BY Known, Zenon DEF DecoderType
  <2>2. /\ d1.pkt_serial = d.pkt_serial /\ d1.finished = d.finished /\ d1.codec = d.codec
        /\ d1.draining = TRUE /\ d1.frame = d.frame /\ d1.pc = "receive"
    BY Known DEF DecoderType
  <2>3. dec' = [dec EXCEPT ![s] = d1] /\ d.pc = "send"
    BY <1>2, Zenon DEF Send
  <2>4. /\ dec' \in [Streams -> DecoderType] /\ dec'[s] = d1
        /\ \A t \in Streams \ {s} : dec'[t] = dec[t]
    BY <2>1, <2>3, Known, Updated, Zenon
  <2> HIDE DEF d1
  <2>5. /\ SerialInv(q, d1, frames[s])
        /\ \A g : GenInv(q, d, frames[s], g) => GenInv(q, d1, frames[s], g)
        /\ \A p : NullInv(q, d, p) => NullInv(q, d1, p)
    BY <1>2, <2>2, <2>3, Known, SendNullKeeps, Zenon
  <2>6. UNCHANGED <<others, rindex_shown, queue, frames>>
    BY DEF Send
  <2> QED BY <2>2, <2>4, <2>5, <2>6, Known, DecoderKeeps, Zenon
<1>3. CASE q.serial = d.pkt_serial /\ ~IsNull(d.pkt)
  <2> DEFINE codec1 == IF d.draining THEN d.codec ELSE Append(d.codec, f)
             d1 == [d EXCEPT !.pc = "receive", !.codec = codec1]
  <2>1. f \in Frame /\ f.gen = d.pkt.gen /\ f.serial = d.pkt_serial
    <3>1. d.pkt.gen \in Nat /\ d.pkt.pos \in 0 .. End /\ d.pkt_serial \in Nat
      BY <1>3, Known, DecoderFields, QueueFields DEF AVPacket
    <3> QED BY <3>1 DEF Frame
  <2> HIDE DEF f
  <2>2. codec1 \in Seq(Frame)
    BY <2>1, Known, DecoderFields
  <2> HIDE DEF codec1
  <2>3. d1 \in DecoderType
    BY <2>2, Known, Zenon DEF DecoderType
  <2>4. /\ d1.pkt_serial = d.pkt_serial /\ d1.finished = d.finished /\ d1.codec = codec1
        /\ d1.draining = d.draining /\ d1.frame = d.frame /\ d1.pc = "receive"
    BY Known DEF DecoderType
  <2>5. dec' = [dec EXCEPT ![s] = d1] /\ d.pc = "send"
    BY <1>3, Zenon DEF Send, codec1, f
  <2>6. /\ dec' \in [Streams -> DecoderType] /\ dec'[s] = d1
        /\ \A t \in Streams \ {s} : dec'[t] = dec[t]
    BY <2>3, <2>5, Known, Updated, Zenon
  <2> HIDE DEF d1
  <2>7. /\ SerialInv(q, d1, frames[s])
        /\ \A g : GenInv(q, d, frames[s], g) => GenInv(q, d1, frames[s], g)
        /\ \A p : NullInv(q, d, p) => NullInv(q, d1, p)
    BY <1>3, <2>1, <2>4, <2>5, Known, SendKeeps, Zenon DEF codec1
  <2>8. UNCHANGED <<others, rindex_shown, queue, frames>>
    BY DEF Send
  <2> QED BY <2>4, <2>6, <2>7, <2>8, Known, DecoderKeeps, Zenon
<1> QED BY <1>1, <1>2, <1>3

LEMMA QueueFrameInv ==
  ASSUME IInv, NEW s \in Streams, QueueFrame(s)
  PROVE  IInv'
<1> DEFINE d == dec[s]
           q == queue[s]
           d1 == [d EXCEPT !.pc = "receive"]
           f == [d.frame EXCEPT !.serial = d.pkt_serial]
           fs == Append(frames[s], f)
<1>1. /\ d.pc = "queue" /\ dec' = [dec EXCEPT ![s] = d1] /\ frames' = [frames EXCEPT ![s] = fs]
      /\ UNCHANGED <<others, rindex_shown, queue>>
  BY Known DEF QueueFrame
<1>2. d1 \in DecoderType
  BY Known, Zenon DEF DecoderType
<1>3. /\ d1.pkt_serial = d.pkt_serial /\ d1.finished = d.finished /\ d1.codec = d.codec
      /\ d1.draining = d.draining /\ d1.frame = d.frame /\ d1.pc = "receive"
  BY Known DEF DecoderType
<1>4. d.frame \in Frame /\ d.frame.serial = d.pkt_serial /\ d.pkt_serial \in Nat
  BY <1>1, Known, DecoderFields DEF SerialInv
<1>5. f \in Frame /\ f.gen = d.frame.gen /\ f.serial = d.pkt_serial
  BY <1>4 DEF Frame
<1> HIDE DEF d1, f
<1>6. fs \in Seq(Frame) /\ fs # <<>>
  <2>1. frames[s] \in Seq(Frame)
    BY Known
  <2> QED BY <1>5, <2>1
<1>7. /\ dec' \in [Streams -> DecoderType] /\ dec'[s] = d1
      /\ \A t \in Streams \ {s} : dec'[t] = dec[t]
  BY <1>1, <1>2, Known, Updated, Zenon
<1>8. /\ frames' \in [Streams -> Seq(Frame)] /\ frames'[s] = fs
      /\ \A t \in Streams \ {s} : frames'[t] = frames[t]
  BY <1>1, <1>6, Known, Updated, Zenon
<1>9. /\ SerialInv(q, d1, fs)
      /\ \A g : GenInv(q, d, frames[s], g) => GenInv(q, d1, fs, g)
      /\ \A p : NullInv(q, d, p) => NullInv(q, d1, p) /\ d.finished # q.serial
  BY <1>1, <1>3, <1>5, Known, QueueKeeps, Zenon
<1> HIDE DEF fs
<1> QED BY <1>1, <1>3, <1>6, <1>7, <1>8, <1>9, Known, DecoderKeeps, Zenon

LEMMA DecoderInv ==
  ASSUME IInv, DropEarly \/ \E s \in Streams : DecoderThread(s)
  PROVE  IInv'
<1>1. ASSUME NEW s \in Streams, FetchAborted(s) PROVE IInv'
  BY <1>1, DecoderMoves DEF FetchAborted
<1>2. ASSUME NEW s \in Streams, QueueAborted(s) PROVE IInv'
  BY <1>2, DecoderMoves DEF QueueAborted
<1>3. CASE DropEarly
  BY <1>3, DecoderMoves DEF DropEarly
<1> QED BY <1>1, <1>2, <1>3, ReceiveInv, FetchInv, SendInv, QueueFrameInv DEF DecoderThread

(* avformat_seek_file: every queue is yet to be flushed.                   *)
LEMMA SeekFileInv ==
  ASSUME IInv, SeekFile
  PROVE  IInv'
<1>1. open = Streams
  BY DEF IInv, StageInv, SeekFile
<1>2. \A s \in Streams : Unflushed(s)'
  BY <1>1 DEF SeekFile, Unflushed
<1>3. StreamInv'
  BY <1>2, Zenon DEF IInv, StreamInv, SeekFile
<1>4. ControlType'
  <2>1. /\ rpc' = "flush" /\ todo' = open /\ eof_happened' \in BOOLEAN
        /\ UNCHANGED <<open, eof, seek_req, paused, step, abort_play, abort_request, loop,
                      restarts, seek_pos, epc, after, apc, seeks, toggles, steps>>
    BY DEF SeekFile
  <2> QED BY <2>1 DEF IInv, TypeOK, ControlType
<1>5. DataType'
  BY DEF IInv, TypeOK, ControlType, DataType, SeekFile
<1>6. StageInv'
  BY DEF IInv, StageInv, SeekFile
<1> QED BY <1>3, <1>4, <1>5, <1>6 DEF IInv, TypeOK

LEMMA SeekFlushInv ==
  ASSUME IInv, NEW s \in Streams, SeekFlush(s)
  PROVE  IInv'
<1> DEFINE q1 == packet_queue_flush(queue[s])
<1>1. q1 \in PacketQueueType
  BY Known, FlushLeaves, Zenon
<1>2. /\ SerialInv(q1, dec[s], frames[s]) /\ GenInv(q1, dec[s], frames[s], gen)
      /\ NullInv(q1, dec[s], pos)
  BY Known, FlushKeeps, Zenon
<1>3. queue' = [queue EXCEPT ![s] = q1] /\ UNCHANGED <<gen, pos, dec, frames>>
  BY DEF SeekFlush
<1> HIDE DEF q1
<1>4. /\ queue' \in [Streams -> PacketQueueType] /\ queue'[s] = q1
      /\ \A t \in Streams \ {s} : queue'[t] = queue[t]
  BY <1>1, <1>3, Known, Updated, Zenon
<1>5. \A t \in Streams \ {s} : Unflushed(t) => Unflushed(t)'
  BY DEF SeekFlush, Unflushed
<1>6. StreamInv'
  BY <1>2, <1>3, <1>4, <1>5, OneStream
<1>7. ControlType'
  BY DEF IInv, TypeOK, ControlType, SeekFlush
<1>8. DataType'
  BY <1>4 DEF IInv, TypeOK, DataType, SeekFlush
<1>9. StageInv'
  BY DEF IInv, StageInv, SeekFlush
<1> QED BY <1>6, <1>7, <1>8, <1>9 DEF IInv, TypeOK

(* Before the end of the file there is no null packet, wherever the demuxer *)
(* goes.                                                                   *)
LEMMA NoNullYet ==
  ASSUME NEW q, NEW d, NEW p, NEW p1, NullInv(q, d, p), p # End
  PROVE  NullInv(q, d, p1)
BY Zenon DEF NullInv

LEMMA ReadPacketInv ==
  ASSUME IInv, ReadPacket
  PROVE  IInv'
<1> DEFINE s == Layout[pos + 1]
           x == [gen |-> gen, pos |-> pos + 1]
           q1 == packet_queue_put(queue[s], x)
<1>1. pos + 1 \in 1 .. End /\ pos # End /\ gen \in Nat
  BY Parameters DEF ReadPacket, IInv, TypeOK, DataType
<1>2. s \in Streams
  BY <1>1, Parameters
<1>3. x \in AVPacket /\ x.gen = gen /\ ~IsNull(x)
  BY <1>1, Parameters DEF AVPacket, IsNull
<1>4. /\ queue' = [queue EXCEPT ![s] = q1] /\ UNCHANGED <<gen, dec, frames>>
      /\ rpc = "read" /\ rpc' = "top" /\ pos' = pos + 1
  BY DEF ReadPacket
<1>5. \A t \in Streams : ~Unflushed(t)
  BY <1>4 DEF Unflushed
<1> HIDE DEF x, s
<1>6. q1 \in PacketQueueType
  BY <1>2, <1>3, Known, PutLeaves, Zenon
<1>7. /\ SerialInv(q1, dec[s], frames[s]) /\ GenInv(q1, dec[s], frames[s], gen)
      /\ NullInv(q1, dec[s], pos')
  <2>1. GenInv(queue[s], dec[s], frames[s], gen) /\ NullInv(queue[s], dec[s], pos)
    BY <1>2, <1>5, Zenon DEF IInv, StreamInv
  <2>2. SerialInv(q1, dec[s], frames[s])
    BY <1>2, <1>3, Known, PutSerial, Zenon
  <2>3. GenInv(q1, dec[s], frames[s], gen)
    BY <1>2, <1>3, <2>1, Known, PutGen, Zenon
  <2>4. NullInv(q1, dec[s], pos')
    BY <1>1, <1>2, <1>3, <2>1, Known, PutPacketNull, Zenon
  <2> QED BY <2>2, <2>3, <2>4
<1> HIDE DEF q1
<1>8. /\ queue' \in [Streams -> PacketQueueType] /\ queue'[s] = q1
      /\ \A t \in Streams \ {s} : queue'[t] = queue[t]
  BY <1>2, <1>4, <1>6, Known, Updated, Zenon
<1>9. StreamInv'
  <2>1. ASSUME NEW t \in Streams \ {s}
        PROVE  /\ SerialInv(queue[t], dec[t], frames[t])
               /\ GenInv(queue[t], dec[t], frames[t], gen) /\ NullInv(queue[t], dec[t], pos')
    BY <1>1, <1>5, NoNullYet, Zenon DEF IInv, StreamInv
  <2>2. ASSUME NEW t \in Streams
        PROVE  /\ SerialInv(queue'[t], dec'[t], frames'[t])
               /\ GenInv(queue'[t], dec'[t], frames'[t], gen')
               /\ NullInv(queue'[t], dec'[t], pos')
    BY <1>4, <1>7, <1>8, <2>1, Zenon
  <2> QED BY <2>2, Zenon DEF StreamInv
<1>10. ControlType'
  <2>1. /\ rpc' = "top" /\ eof' \in BOOLEAN
        /\ UNCHANGED <<open, todo, eof_happened, seek_req, paused, step, abort_play,
                      abort_request, loop, restarts, seek_pos, epc, after, apc, seeks,
                      toggles, steps>>
    BY DEF ReadPacket
  <2> QED BY <2>1 DEF IInv, TypeOK, ControlType
<1>11. DataType'
  BY <1>1, <1>4, <1>8 DEF IInv, TypeOK, DataType, ReadPacket
<1>12. StageInv'
  BY DEF IInv, StageInv, ReadPacket
<1> QED BY <1>9, <1>10, <1>11, <1>12 DEF IInv, TypeOK

LEMMA ReadEofInv ==
  ASSUME IInv, ReadEof
  PROVE  IInv'
<1>1. /\ UNCHANGED <<gen, pos, dec, frames>> /\ rpc = "read" /\ rpc' = "top" /\ pos = End
      /\ \/ queue' = queue
         \/ queue' = [s \in Streams |-> packet_queue_put(queue[s], NullPacket)]
  BY DEF ReadEof
<1>2. \A t \in Streams : ~Unflushed(t)
  BY <1>1 DEF Unflushed
<1>3. ASSUME NEW t \in Streams
      PROVE  /\ packet_queue_put(queue[t], NullPacket) \in PacketQueueType
             /\ SerialInv(packet_queue_put(queue[t], NullPacket), dec[t], frames[t])
             /\ GenInv(packet_queue_put(queue[t], NullPacket), dec[t], frames[t], gen)
             /\ NullInv(packet_queue_put(queue[t], NullPacket), dec[t], pos)
  <2>1. GenInv(queue[t], dec[t], frames[t], gen) /\ NullInv(queue[t], dec[t], End)
    BY <1>1, <1>2, Zenon DEF IInv, StreamInv
  <2>2. packet_queue_put(queue[t], NullPacket) \in PacketQueueType
    BY Known, Packets, PutLeaves, Zenon
  <2>3. SerialInv(packet_queue_put(queue[t], NullPacket), dec[t], frames[t])
    BY Known, Packets, PutSerial, Zenon
  <2>4. GenInv(packet_queue_put(queue[t], NullPacket), dec[t], frames[t], gen)
    BY <2>1, Known, Packets, PutGen, Zenon
  <2>5. NullInv(packet_queue_put(queue[t], NullPacket), dec[t], pos)
    BY <1>1, <2>1, Known, Packets, PutNullNull, Zenon
  <2> QED BY <2>2, <2>3, <2>4, <2>5
<1>4. ASSUME NEW t \in Streams
      PROVE  /\ queue'[t] \in PacketQueueType
             /\ SerialInv(queue'[t], dec'[t], frames'[t])
             /\ GenInv(queue'[t], dec'[t], frames'[t], gen')
             /\ NullInv(queue'[t], dec'[t], pos')
  <2>1. CASE queue' = queue
    BY <1>1, <1>2, <2>1, Known, Zenon DEF IInv, StreamInv
  <2>2. CASE queue' = [s \in Streams |-> packet_queue_put(queue[s], NullPacket)]
    <3>1. queue'[t] = packet_queue_put(queue[t], NullPacket)
      BY <2>2, Zenon
    <3> QED BY <1>1, <1>3, <3>1, Zenon
  <2> QED BY <1>1, <2>1, <2>2
<1>5. StreamInv'
  BY <1>4, Zenon DEF StreamInv
<1>6. queue' \in [Streams -> PacketQueueType]
  <2>1. CASE queue' = queue
    BY <2>1, Parameters DEF IInv, TypeOK, DataType
  <2>2. CASE queue' = [s \in Streams |-> packet_queue_put(queue[s], NullPacket)]
    BY <1>3, <2>2, Zenon
  <2> QED BY <1>1, <2>1, <2>2
<1>7. ControlType'
  BY DEF IInv, TypeOK, ControlType, ReadEof
<1>8. DataType'
  BY <1>1, <1>6 DEF IInv, TypeOK, DataType, ReadEof
<1>9. StageInv'
  BY DEF IInv, StageInv, ReadEof
<1> QED BY <1>5, <1>7, <1>8, <1>9 DEF IInv, TypeOK

(* A presenter takes a frame of s.                                         *)
LEMMA NextFrameInv ==
  ASSUME IInv, NEW s \in Streams, NextFrame(s), frames[s] # <<>>,
         UNCHANGED <<demuxer, reader, request, queue, dec, control, stop, asked>>,
         vp' \in Frame, shown' \in [Streams -> Frame], ControlType',
         epc' \in {"abort", "join"} => epc \in {"abort", "join"},
         epc' \in {"due", "show"} => epc' = epc /\ s # Video,
         apc' = "take" => apc = "take"
  PROVE  IInv'
<1> DEFINE fs == Tail(frames[s])
<1>1. fs \in Seq(Frame)
  <2>1. frames[s] \in Seq(Frame)
    BY Known
  <2> QED BY <2>1
<1>2. frames' = [frames EXCEPT ![s] = fs] /\ rindex_shown' = [rindex_shown EXCEPT ![s] = TRUE]
  BY DEF NextFrame
<1>3. /\ SerialInv(queue[s], dec[s], fs)
      /\ \A g : GenInv(queue[s], dec[s], frames[s], g) => GenInv(queue[s], dec[s], fs, g)
  BY Known, NextKeeps, Zenon
<1> HIDE DEF fs
<1>4. /\ frames' \in [Streams -> Seq(Frame)] /\ frames'[s] = fs
      /\ \A t \in Streams \ {s} : frames'[t] = frames[t]
  BY <1>1, <1>2, Known, Updated, Zenon
<1>5. \A t \in Streams : Unflushed(t)' <=> Unflushed(t)
  BY DEF Unflushed
<1>6. StreamInv'
  <2>1. ~Unflushed(s)' => GenInv(queue[s], dec[s], fs, gen) /\ NullInv(queue[s], dec[s], pos)
    BY <1>3, <1>5, Zenon DEF IInv, StreamInv
  <2> QED BY <1>3, <1>4, <1>5, <2>1, OneStream
<1>7. DataType'
  BY <1>2, <1>4 DEF IInv, TypeOK, DataType
<1>8. StageInv'
  <2>1. rpc \in {"finished", "remaining", "played"} =>
          \A t \in Streams \ todo : dec'[t].finished = queue'[t].serial /\ frames'[t] = <<>>
    BY <1>4 DEF IInv, StageInv
  <2>2. epc' \in {"due", "show"} => Video \in Streams /\ frames'[Video] # <<>>
    BY <1>4 DEF IInv, StageInv
  <2> QED BY <2>1, <2>2 DEF IInv, StageInv, IsNext
<1> QED BY <1>6, <1>7, <1>8 DEF IInv, TypeOK

LEMMA TakesInv ==
  ASSUME IInv, AudioTakes \/ RefreshStale \/ DropLate \/ ShowPicture
  PROVE  IInv'
<1>0. /\ vp \in Frame /\ NoFrame \in Frame /\ shown \in [Streams -> Frame]
      /\ Audio # Video /\ open \subseteq Streams
  BY Packets DEF IInv, TypeOK, ControlType, DataType, Audio, Video
<1>1. CASE AudioTakes
  <2>1. Audio \in Streams
    BY <1>1 DEF IInv, StageInv, AudioTakes
  <2>2. frames[Audio] \in Seq(Frame) /\ frames[Audio] # <<>>
    BY <1>1, <2>1, Known DEF AudioTakes, Remaining
  <2>3. Head(frames[Audio]) \in Frame
    BY <2>2
  <2>4. shown' \in [Streams -> Frame] /\ apc' \in {"idle", apc}
    BY <1>0, <1>1, <2>1, <2>3 DEF AudioTakes
  <2>5. ControlType'
    BY <1>1, <2>4 DEF IInv, TypeOK, ControlType, AudioTakes
  <2>6. /\ NextFrame(Audio) /\ epc' = epc /\ vp' = vp
        /\ UNCHANGED <<demuxer, reader, request, queue, dec, control, stop, asked>>
    BY <1>1 DEF AudioTakes
  <2>7. apc' = "take" => apc = "take"
    BY <1>1 DEF AudioTakes
  <2> QED BY <1>0, <2>1, <2>2, <2>4, <2>5, <2>6, <2>7, NextFrameInv
<1>2. CASE RefreshStale
  <2>1. Video \in Streams /\ frames[Video] # <<>>
    BY <1>0, <1>2 DEF RefreshStale, Refreshes, Remaining
  <2>2. ControlType'
    BY <1>2 DEF IInv, TypeOK, ControlType, RefreshStale
  <2>3. NextFrame(Video) /\ epc = "loop" /\ UNCHANGED <<queue, dec, others>>
    BY <1>2 DEF RefreshStale, Refreshes
  <2> QED BY <1>0, <2>1, <2>2, <2>3, NextFrameInv
<1>3. CASE DropLate
  <2>1. Video \in Streams /\ frames[Video] # <<>>
    BY <1>3 DEF IInv, StageInv, DropLate
  <2>2. ControlType'
    BY <1>3 DEF IInv, TypeOK, ControlType, DropLate
  <2>3. /\ NextFrame(Video) /\ epc' = "loop" /\ vp' = NoFrame
        /\ UNCHANGED <<demuxer, reader, request, queue, dec, control, apc, after, shown, stop,
                       asked>>
    BY <1>3 DEF DropLate
  <2> QED BY <1>0, <2>1, <2>2, <2>3, NextFrameInv
<1>4. CASE ShowPicture
  <2>1. Video \in Streams /\ frames[Video] # <<>>
    BY <1>4 DEF IInv, StageInv, ShowPicture
  <2>2. ControlType'
    BY <1>4 DEF IInv, TypeOK, ControlType, ShowPicture
  <2>3. /\ NextFrame(Video) /\ epc' = "shown" /\ vp' = NoFrame
        /\ shown' = [shown EXCEPT ![Video] = vp]
        /\ UNCHANGED <<demuxer, reader, request, queue, dec, control, apc, after, stop, asked>>
    BY <1>4 DEF ShowPicture
  <2>4. shown' \in [Streams -> Frame]
    BY <1>0, <2>3
  <2> QED BY <1>0, <2>1, <2>2, <2>3, <2>4, NextFrameInv
<1> QED BY <1>1, <1>2, <1>3, <1>4

(* stream_component_close                                                  *)
LEMMA CloseInv ==
  ASSUME IInv, NEW s \in Streams, AbortComponent(s) \/ JoinComponent(s)
  PROVE  IInv'
<1>1. rpc = "exit"
  BY DEF IInv, StageInv, AbortComponent, JoinComponent
<1>2. \A t \in Streams : ~Unflushed(t)
  BY <1>1 DEF Unflushed
<1>3. /\ UNCHANGED <<demuxer, reader, dec, frames, rindex_shown, vp, apc, shown>>
      /\ epc' \in {"abort", "join"} /\ open' \subseteq open
  BY DEF AbortComponent, JoinComponent
<1>4. GenInv(queue[s], dec[s], frames[s], gen) /\ NullInv(queue[s], dec[s], pos)
  BY <1>2, Zenon DEF IInv, StreamInv
<1>5. PICK q1 \in PacketQueueType :
        /\ queue' = [queue EXCEPT ![s] = q1]
        /\ SerialInv(q1, dec[s], frames[s]) /\ GenInv(q1, dec[s], frames[s], gen)
        /\ NullInv(q1, dec[s], pos)
  <2>1. CASE AbortComponent(s)
    <3>1. queue' = [queue EXCEPT ![s] = packet_queue_abort(queue[s])]
      BY <2>1 DEF AbortComponent
    <3>2. /\ packet_queue_abort(queue[s]) \in PacketQueueType
          /\ SerialInv(packet_queue_abort(queue[s]), dec[s], frames[s])
          /\ GenInv(packet_queue_abort(queue[s]), dec[s], frames[s], gen)
          /\ NullInv(packet_queue_abort(queue[s]), dec[s], pos)
      BY <1>4, Known, AbortKeeps, Zenon
    <3> QED BY <3>1, <3>2, Zenon
  <2>2. CASE JoinComponent(s)
    <3>1. queue' = [queue EXCEPT ![s] = packet_queue_flush(queue[s])]
      BY <2>2 DEF JoinComponent
    <3>2. /\ packet_queue_flush(queue[s]) \in PacketQueueType
          /\ SerialInv(packet_queue_flush(queue[s]), dec[s], frames[s])
          /\ GenInv(packet_queue_flush(queue[s]), dec[s], frames[s], gen)
          /\ NullInv(packet_queue_flush(queue[s]), dec[s], pos)
      BY Known, FlushLeaves, FlushKeeps, Zenon
    <3> QED BY <3>1, <3>2, Zenon
  <2> QED BY <2>1, <2>2
<1>6. /\ queue' \in [Streams -> PacketQueueType] /\ queue'[s] = q1
      /\ \A t \in Streams \ {s} : queue'[t] = queue[t]
  BY <1>5, Known, Updated, Zenon
<1>7. StreamInv'
  BY <1>2, <1>3, <1>5, <1>6, OneStream
<1>8. ControlType'
  BY <1>3 DEF IInv, TypeOK, ControlType, AbortComponent, JoinComponent
<1>9. DataType'
  BY <1>3, <1>6 DEF IInv, TypeOK, DataType
<1>10. StageInv'
  BY <1>1, <1>3 DEF IInv, StageInv
<1> QED BY <1>7, <1>8, <1>9, <1>10 DEF IInv, TypeOK

-----------------------------------------------------------------------------
LEMMA InitInv ==
  ASSUME Init
  PROVE  IInv
<1> DEFINE q0 == packet_queue_start(packet_queue_init)
<1>1. /\ q0.pkt_list = <<>> /\ q0.nb_packets = 0 /\ q0.serial = 1
      /\ q0 \in PacketQueueType
  <2>1. <<>> \in Seq(MyAVPacketList) /\ 0 \in Int /\ 0 \in Nat /\ 1 \in Nat /\ 0 + 1 = 1
    OBVIOUS
  <2>2. packet_queue_init.serial = 0 /\ packet_queue_init \in PacketQueueType
    BY <2>1, Zenon DEF packet_queue_init, PacketQueueType
  <2>3. q0 = [packet_queue_init EXCEPT !.abort_request = FALSE, !.serial = 1]
    BY <2>1, <2>2, Zenon DEF packet_queue_start
  <2>4. q0 \in PacketQueueType
    BY <2>1, <2>2, <2>3, Zenon DEF PacketQueueType
  <2>5. q0.pkt_list = <<>> /\ q0.nb_packets = 0 /\ q0.serial = 1
    BY <2>3, Zenon DEF packet_queue_init
  <2> QED BY <2>4, <2>5
<1>2. /\ NewDecoder.pkt_serial = -1 /\ NewDecoder.finished = 0 /\ NewDecoder.codec = <<>>
      /\ NewDecoder.draining = FALSE /\ NewDecoder.frame = NoFrame
      /\ NewDecoder.pc = "receive" /\ NewDecoder \in DecoderType
  <2>1. <<>> \in Seq(Frame) /\ -1 \in Nat \cup {-1} /\ 0 \in Nat
    OBVIOUS
  <2>2. NewDecoder \in DecoderType
    BY <2>1, Packets, Zenon DEF NewDecoder, DecoderType
  <2> QED BY <2>2 DEF NewDecoder
<1> HIDE DEF q0
<1>3. SerialInv(q0, NewDecoder, <<>>)
  <2>1. OneSerial(q0)
    BY <1>1 DEF OneSerial
  <2> QED BY <1>1, <1>2, <2>1, Packets DEF SerialInv
<1>4. GenInv(q0, NewDecoder, <<>>, 1)
  BY <1>1, <1>2, Packets DEF GenInv
<1>5. NullInv(q0, NewDecoder, 0)
  BY <1>1, <1>2 DEF NullInv
<1>6. StreamInv
  <2>1. \A s \in Streams : queue[s] = q0 /\ dec[s] = NewDecoder /\ frames[s] = <<>>
    BY DEF Init, q0
  <2>2. gen = 1 /\ pos = 0
    BY DEF Init
  <2> QED BY <1>3, <1>4, <1>5, <2>1, <2>2, Zenon DEF StreamInv
<1>7. ControlType
  <2>1. /\ rpc = "top" /\ todo = {} /\ open = Streams /\ seek_req = FALSE
        /\ eof = FALSE /\ eof_happened = FALSE /\ paused = FALSE /\ step = FALSE
        /\ abort_play = FALSE /\ abort_request = FALSE
        /\ epc = "loop" /\ apc = "idle" /\ after = "loop"
    BY DEF Init
  <2>2. /\ loop \in 0 .. Loop /\ restarts \in Nat /\ seek_pos \in 0 .. End
        /\ seeks \in 0 .. MaxSeeks /\ toggles \in 0 .. MaxToggles /\ steps \in 0 .. MaxSteps
    BY Parameters DEF Init
  <2> QED BY <2>1, <2>2 DEF ControlType
<1>8. DataType
  <2>1. queue = [s \in Streams |-> q0]
    BY DEF Init, q0
  <2> QED BY <1>1, <1>2, <2>1, Parameters, Packets DEF Init, DataType
<1>9. StageInv
  BY DEF Init, StageInv
<1> QED BY <1>6, <1>7, <1>8, <1>9 DEF IInv, TypeOK

LEMMA StepInv ==
  ASSUME IInv, [Next]_vars
  PROVE  IInv'
<1>1. CASE ReadThread
  BY <1>1, SeekStepsInv, SeekFileInv, SeekFlushInv, EndStepsInv, ReadPacketInv, ReadEofInv, Zenon
  DEF ReadThread
<1>2. CASE DropEarly \/ \E s \in Streams : DecoderThread(s)
  BY <1>2, DecoderInv
<1>3. CASE AudioThread \/ Refresh
  BY <1>3, PresentStepsInv, TakesInv, Zenon DEF AudioThread, Refresh
<1>4. CASE FinishTask \/ Application \/ Close
  BY <1>4, TaskStepsInv, StopStepsInv, CloseInv, Zenon DEF FinishTask, Application, Close
<1>5. CASE UNCHANGED vars
  BY <1>5 DEF IInv, TypeOK, ControlType, DataType, StreamInv, StageInv, Unflushed, IsNext
<1> QED BY <1>1, <1>2, <1>3, <1>4, <1>5, Zenon DEF Next

(* The inductive invariant holds of every state a player reaches.          *)
THEOREM Invariance == Spec => []IInv
<1>1. Init => IInv
  BY InitInv
<1>2. IInv /\ [Next]_vars => IInv'
  BY StepInv
<1> QED BY <1>1, <1>2, PTL DEF Spec

(* Every variable stays within its type, for any file and any bounds.      *)
THEOREM TypeCorrect == Spec => []TypeOK
<1>1. IInv => TypeOK
  BY DEF IInv
<1> QED BY <1>1, Invariance, PTL

(* Serials tell stale data from fresh, along the whole pipeline: whatever   *)
(* carries the serial of the queue's present stretch was read from the file *)
(* after the last seek (decoder_decode_frame, audio_decode_frame and        *)
(* video_refresh compare nothing else, and without locks).                 *)
THEOREM FreshIsNew == Spec => []StretchIsGeneration
<1>1. ASSUME IInv PROVE StretchIsGeneration
  <2>1. SUFFICES ASSUME NEW s \in Streams \ (IF rpc = "flush" THEN todo ELSE {})
        PROVE  /\ \A i \in 1 .. queue[s].nb_packets :
                    IsNull(queue[s].pkt_list[i].pkt) \/ queue[s].pkt_list[i].pkt.gen = gen
               /\ dec[s].pc = "send" /\ dec[s].pkt_serial = queue[s].serial =>
                    IsNull(dec[s].pkt) \/ dec[s].pkt.gen = gen
               /\ \A i \in DOMAIN dec[s].codec :
                    Fresh(s, dec[s].codec[i]) => dec[s].codec[i].gen = gen
               /\ \A i \in DOMAIN frames[s] :
                    Fresh(s, frames[s][i]) => frames[s][i].gen = gen
               /\ Fresh(s, dec[s].frame) => dec[s].frame.gen = gen
    BY DEF StretchIsGeneration
  <2>2. s \in Streams /\ ~Unflushed(s)
    BY DEF Unflushed
  <2>3. SerialInv(queue[s], dec[s], frames[s]) /\ GenInv(queue[s], dec[s], frames[s], gen)
    BY <1>1, <2>2, Zenon DEF IInv, StreamInv
  <2>4. DOMAIN queue[s].pkt_list = 1 .. queue[s].nb_packets
    BY <1>1, <2>2, <2>3, Known, QueueFields, Zenon DEF SerialInv
  <2> QED BY <2>3, <2>4, Zenon DEF SerialInv, GenInv, Fresh
<1> QED BY <1>1, Invariance, PTL

(* Whatever read_thread's unlocked tests interleave with, it takes the file *)
(* for played only when nothing of it is left before a presenter.          *)
THEOREM EofIsTrue == Spec => []EofTruth
<1>1. ASSUME IInv PROVE EofTruth
  <2>1. SUFFICES ASSUME rpc = "played" PROVE EofTruth
    BY DEF EofTruth
  <2>2. open = Streams /\ todo = {} /\ \A s \in Streams : ~Unflushed(s)
    BY <1>1, <2>1 DEF IInv, StageInv, Unflushed
  <2>3. ASSUME NEW s \in Streams
        PROVE  /\ NullInv(queue[s], dec[s], pos)
               /\ dec[s].finished = queue[s].serial /\ frames[s] = <<>>
    <3>1. NullInv(queue[s], dec[s], pos)
      BY <1>1, <2>2, Zenon DEF IInv, StreamInv
    <3>2. dec[s].finished = queue[s].serial /\ frames[s] = <<>>
      BY <1>1, <2>1, <2>2 DEF IInv, StageInv
    <3> QED BY <3>1, <3>2
  <2>4. ASSUME NEW s \in Streams
        PROVE  /\ pos = End /\ OnlyNulls(queue[s]) /\ frames[s] = <<>>
               /\ dec[s].codec = <<>> /\ dec[s].pc # "queue"
               /\ dec[s].pc = "send" => IsNull(dec[s].pkt)
    BY <2>3, Zenon DEF NullInv
  <2>5. pos = End
    BY <2>4, Parameters
  <2> QED BY <2>2, <2>4, <2>5, Zenon DEF EofTruth, OnlyNulls
<1> QED BY <1>1, Invariance, PTL

-----------------------------------------------------------------------------
(* Buffering.  What a list takes when a packet comes or goes.              *)

Sizes(l) == [i \in 1 .. Len(l) |-> PacketBytes(l[i].pkt) + 1]

LEMMA SizesType ==
  ASSUME NEW l \in Seq(MyAVPacketList)
  PROVE  Sizes(l) \in Seq(Nat) /\ ListedBytes(l) = Total(Sizes(l)) /\ ListedBytes(l) \in Nat
<1>1. \A i \in 1 .. Len(l) : PacketBytes(l[i].pkt) + 1 \in Nat
  BY SMT DEF PacketBytes
<1>2. Len(l) \in Nat
  OBVIOUS
<1>3. Sizes(l) \in Seq(Nat)
  BY <1>1, <1>2, SMT DEF Sizes
<1>4. ListedBytes(l) = Total(Sizes(l))
  BY DEF Sizes, ListedBytes
<1> QED BY <1>3, <1>4, TotalType

LEMMA ListedAppend ==
  ASSUME NEW l \in Seq(MyAVPacketList), NEW e \in MyAVPacketList
  PROVE  ListedBytes(Append(l, e)) = ListedBytes(l) + PacketBytes(e.pkt) + 1
<1>1. PacketBytes(e.pkt) \in Nat /\ Append(l, e) \in Seq(MyAVPacketList)
  BY SMT DEF PacketBytes
<1>2. Sizes(Append(l, e)) = Append(Sizes(l), PacketBytes(e.pkt) + 1)
  BY SMT DEF Sizes
<1>3. Sizes(l) \in Seq(Nat) /\ PacketBytes(e.pkt) + 1 \in Nat
  BY <1>1, SizesType
<1>4. Total(Sizes(Append(l, e))) = Total(Sizes(l)) + (PacketBytes(e.pkt) + 1)
  BY <1>2, <1>3, TotalAppend
<1>5. Total(Sizes(l)) \in Nat
  BY <1>3, TotalType
<1>6. ListedBytes(l) = Total(Sizes(l)) /\ ListedBytes(Append(l, e)) = Total(Sizes(Append(l, e)))
  BY <1>1, SizesType
<1> QED BY <1>1, <1>4, <1>5, <1>6

LEMMA ListedTail ==
  ASSUME NEW l \in Seq(MyAVPacketList), l # <<>>
  PROVE  ListedBytes(Tail(l)) = ListedBytes(l) - (PacketBytes(l[1].pkt) + 1)
<1>1. Tail(l) \in Seq(MyAVPacketList)
  BY SMT
<1>2. Sizes(l) \in Seq(Nat) /\ Sizes(l) # <<>>
  <2>1. Len(l) \in Nat /\ Len(l) # 0
    BY SMT
  <2>2. Len(Sizes(l)) = Len(l)
    BY <2>1, SMT DEF Sizes
  <2>3. Len(<<>>) = 0
    OBVIOUS
  <2> QED BY <2>1, <2>2, <2>3, SizesType
<1>3. Sizes(Tail(l)) = Tail(Sizes(l)) /\ Head(Sizes(l)) = PacketBytes(l[1].pkt) + 1
  BY SMT DEF Sizes
<1>4. Total(Sizes(Tail(l))) = Total(Sizes(l)) - (PacketBytes(l[1].pkt) + 1)
  BY <1>2, <1>3, TotalTail
<1> QED BY <1>1, <1>4, SizesType

LEMMA ListedNone == ListedBytes(<<>>) = 0
<1>1. [i \in 1 .. Len(<<>>) |-> PacketBytes(<<>>[i].pkt) + 1] = <<>>
  OBVIOUS
<1> QED BY <1>1, TotalEmpty DEF ListedBytes

(* What each operation does to the size, and that it keeps the counters.   *)

LEMMA PutSize ==
  ASSUME NEW q \in PacketQueueType, NEW x \in AVPacket, Counted(q)
  PROVE  LET r == packet_queue_put(q, x) IN
         /\ Counted(r) /\ r.size \in Int
         /\ r.size <= q.size + 2 /\ (IsNull(x) => r.size <= q.size + 1)
<1> DEFINE r == packet_queue_put(q, x)
<1>1. /\ q.size \in Int /\ q.nb_packets \in Nat
      /\ PacketBytes(x) = 0 \/ (PacketBytes(x) = 1 /\ ~IsNull(x))
  BY QueueFields DEF PacketBytes
<1>2. CASE q.abort_request
  <2>1. r = q
    BY <1>2 DEF packet_queue_put
  <2> QED BY <1>1, <2>1
<1>3. CASE ~q.abort_request
  <2> DEFINE e == [pkt |-> x, serial |-> q.serial]
  <2>1. e \in MyAVPacketList /\ q.pkt_list \in Seq(MyAVPacketList) /\ e.pkt = x
    BY DEF PacketQueueType, MyAVPacketList
  <2>2. /\ r.pkt_list = Append(q.pkt_list, e) /\ r.nb_packets = q.nb_packets + 1
        /\ r.size = q.size + PacketBytes(x) + 1
    BY <1>3, SMT DEF packet_queue_put, PacketQueueType
  <2>3. ListedBytes(r.pkt_list) = ListedBytes(q.pkt_list) + PacketBytes(x) + 1
    BY <2>1, <2>2, ListedAppend, Zenon
  <2>4. Len(r.pkt_list) = Len(q.pkt_list) + 1
    BY <2>1, <2>2, SMT
  <2>5. Counted(r)
    BY <2>2, <2>3, <2>4, Zenon DEF Counted
  <2> HIDE DEF r
  <2>6. r.size \in Int /\ r.size <= q.size + 2 /\ (IsNull(x) => r.size <= q.size + 1)
    BY <1>1, <2>2
  <2> QED BY <2>5, <2>6 DEF r
<1> QED BY <1>2, <1>3

LEMMA GetSize ==
  ASSUME NEW q \in PacketQueueType, CanGet(q), Counted(q)
  PROVE  LET r == packet_queue_get(q) IN
         Counted(r) /\ r.size \in Int /\ r.size <= q.size
<1> DEFINE r == packet_queue_get(q)
<1>1. q.pkt_list \in Seq(MyAVPacketList) /\ q.pkt_list # <<>> /\ q.size \in Int
  BY DEF PacketQueueType, CanGet
<1>2. Got(q) = q.pkt_list[1] /\ PacketBytes(q.pkt_list[1].pkt) \in Nat
  BY <1>1, SMT DEF Got, PacketBytes
<1>3. /\ r.pkt_list = Tail(q.pkt_list) /\ r.nb_packets = q.nb_packets - 1
      /\ r.size = q.size - (PacketBytes(q.pkt_list[1].pkt) + 1)
  BY <1>2, SMT DEF packet_queue_get, PacketQueueType
<1>4. ListedBytes(r.pkt_list) = ListedBytes(q.pkt_list) - (PacketBytes(q.pkt_list[1].pkt) + 1)
  BY <1>1, <1>3, ListedTail, Zenon
<1>5. Len(r.pkt_list) = Len(q.pkt_list) - 1
  BY <1>1, <1>3, SMT
<1>6. Counted(r)
  BY <1>3, <1>4, <1>5, Zenon DEF Counted
<1> HIDE DEF r
<1>7. r.size \in Int /\ r.size <= q.size
  BY <1>1, <1>2, <1>3
<1> QED BY <1>6, <1>7 DEF r

(* A flush frees what is listed: its size is not negative.                  *)
LEMMA FlushSize ==
  ASSUME NEW q \in PacketQueueType, Counted(q)
  PROVE  LET r == packet_queue_flush(q) IN
         Counted(r) /\ r.size \in Int /\ r.size <= q.size
<1>1. /\ packet_queue_flush(q).pkt_list = <<>> /\ packet_queue_flush(q).nb_packets = 0
      /\ packet_queue_flush(q).size = 0
  BY SMT DEF packet_queue_flush, PacketQueueType
<1>2. q.size \in Nat
  BY SizesType DEF Counted, PacketQueueType
<1> QED BY <1>1, <1>2, ListedNone DEF Counted

LEMMA AbortSize ==
  ASSUME NEW q \in PacketQueueType, Counted(q)
  PROVE  LET r == packet_queue_abort(q) IN
         Counted(r) /\ r.size \in Int /\ r.size <= q.size
<1>1. /\ packet_queue_abort(q).pkt_list = q.pkt_list
      /\ packet_queue_abort(q).nb_packets = q.nb_packets
      /\ packet_queue_abort(q).size = q.size
  BY SMT DEF packet_queue_abort, PacketQueueType
<1>2. q.size \in Int
  BY QueueFields
<1>3. Counted(packet_queue_abort(q))
  BY <1>1, Zenon DEF Counted
<1> QED BY <1>1, <1>2, <1>3

(* The total moves with the size of the one queue that changes.             *)
LEMMA OneQueue ==
  ASSUME queue \in [Streams -> PacketQueueType], NEW s \in Streams, NEW r, NEW n \in Int,
         queue' = [queue EXCEPT ![s] = r],
         \A t \in Streams : Counted(queue[t]),
         Counted(r), r.size \in Int, r.size <= queue[s].size + n
  PROVE  /\ QueuedBytes \in Int /\ QueuedBytes' \in Int
         /\ QueuedBytes' <= QueuedBytes + n
         /\ \A t \in Streams : Counted(queue'[t])
<1>1. \A t \in Streams : queue[t].size \in Int
  BY QueueFields
<1>2. queue'[s] = r /\ \A t \in Streams \ {s} : queue'[t] = queue[t]
  BY Zenon
<1>3. s \in {Audio, Video} /\ Audio # Video
  BY Parameters DEF Audio, Video
<1>4. \A t \in Streams : Counted(queue'[t])
  BY <1>2, Zenon
<1> DEFINE a  == IF Audio \in Streams THEN queue[Audio].size ELSE 0
           v  == IF Video \in Streams THEN queue[Video].size ELSE 0
           a1 == IF Audio \in Streams THEN queue'[Audio].size ELSE 0
           v1 == IF Video \in Streams THEN queue'[Video].size ELSE 0
<1>5. QueuedBytes = a + v /\ QueuedBytes' = a1 + v1
  BY DEF QueuedBytes
<1>6. a \in Int /\ v \in Int /\ a1 \in Int /\ v1 \in Int
  <2>1. \A t \in Streams : queue'[t].size \in Int
    BY <1>1, <1>2, Zenon
  <2>2. 0 \in Int
    OBVIOUS
  <2> QED BY <1>1, <2>1, <2>2, Zenon
<1>7. CASE s = Audio
  <2>1. a1 <= a + n /\ v1 = v
    BY <1>1, <1>2, <1>3, <1>7
  <2> QED BY <1>4, <1>5, <1>6, <2>1
<1>8. CASE s = Video
  <2>1. v1 <= v + n /\ a1 = a
    BY <1>1, <1>2, <1>3, <1>8
  <2> QED BY <1>4, <1>5, <1>6, <2>1
<1> QED BY <1>3, <1>7, <1>8

(* The steps that take packets out or refuse more: read_thread's bound      *)
(* stays what it was.                                                      *)
LEMMA Frees ==
  ASSUME IInv, BufferInv, NEW s \in Streams, NEW r,
         queue' = [queue EXCEPT ![s] = r], rpc' = rpc,
         Counted(r), r.size \in Int, r.size <= queue[s].size
  PROVE  BufferInv'
<1>1. queue \in [Streams -> PacketQueueType] /\ QueueLimit \in Nat
  BY PlaybackAssumption DEF IInv, TypeOK, DataType
<1>2. 0 \in Int /\ r.size <= queue[s].size + 0 /\ \A t \in Streams : Counted(queue[t])
  BY <1>1, QueueFields DEF BufferInv
<1>3. /\ QueuedBytes \in Int /\ QueuedBytes' \in Int
      /\ QueuedBytes' <= QueuedBytes + 0
      /\ \A t \in Streams : Counted(queue'[t])
  BY <1>1, <1>2, OneQueue, Zenon
<1>4. MayRead' = MayRead
  BY DEF MayRead
<1> HIDE DEF MayRead, QueuedBytes
<1>5. (MayRead' => QueuedBytes' <= QueueLimit) /\ QueuedBytes' <= QueueLimit + 2
  BY <1>1, <1>3, <1>4 DEF BufferInv, BufferBounded
<1> QED BY <1>3, <1>5 DEF BufferInv, BufferBounded

(* What read_thread has decided stays true while no queue changes.          *)
LEMMA SameQueues ==
  ASSUME BufferInv, UNCHANGED queue, MayRead' => MayRead \/ QueuedBytes <= QueueLimit
  PROVE  BufferInv'
<1>1. QueuedBytes' = QueuedBytes
  BY DEF QueuedBytes
<1>2. \A t \in Streams : Counted(queue'[t])
  BY DEF BufferInv
<1> QED BY <1>1, <1>2, Zenon DEF BufferInv, BufferBounded

LEMMA FlushFrees ==
  ASSUME IInv, BufferInv, NEW s \in Streams,
         SeekFlush(s) \/ AbortComponent(s) \/ JoinComponent(s) \/ Fetch(s)
  PROVE  BufferInv'
<1>1. queue[s] \in PacketQueueType /\ Counted(queue[s])
  BY DEF IInv, TypeOK, DataType, BufferInv
<1>2. CASE SeekFlush(s) \/ JoinComponent(s)
  <2> DEFINE r == packet_queue_flush(queue[s])
  <2>1. queue' = [queue EXCEPT ![s] = r] /\ rpc' = rpc
    BY <1>2, Zenon DEF SeekFlush, JoinComponent
  <2>2. Counted(r) /\ r.size \in Int /\ r.size <= queue[s].size
    BY <1>1, FlushSize
  <2> HIDE DEF r
  <2> QED BY <2>1, <2>2, Frees
<1>3. CASE AbortComponent(s)
  <2> DEFINE r == packet_queue_abort(queue[s])
  <2>1. queue' = [queue EXCEPT ![s] = r] /\ rpc' = rpc
    BY <1>3, Zenon DEF AbortComponent
  <2>2. Counted(r) /\ r.size \in Int /\ r.size <= queue[s].size
    BY <1>1, AbortSize
  <2> HIDE DEF r
  <2> QED BY <2>1, <2>2, Frees
<1>4. CASE Fetch(s)
  <2> DEFINE r == packet_queue_get(queue[s])
  <2>1. queue' = [queue EXCEPT ![s] = r] /\ rpc' = rpc /\ CanGet(queue[s])
    BY <1>4, Zenon DEF Fetch
  <2>2. Counted(r) /\ r.size \in Int /\ r.size <= queue[s].size
    BY <1>1, <2>1, GetSize
  <2> HIDE DEF r
  <2> QED BY <2>1, <2>2, Frees
<1> QED BY <1>2, <1>3, <1>4

(* One packet is read into queues below the limit.                          *)
LEMMA ReadPacketBounded ==
  ASSUME IInv, BufferInv, ReadPacket
  PROVE  BufferInv'
<1>1. queue \in [Streams -> PacketQueueType] /\ QueueLimit \in Nat
  BY PlaybackAssumption DEF IInv, TypeOK, DataType
<1> DEFINE s == Layout[pos + 1]
           x == [gen |-> gen, pos |-> pos + 1]
           r == packet_queue_put(queue[s], x)
<1>2. s \in Streams /\ x \in AVPacket
  BY Parameters DEF ReadPacket, IInv, TypeOK, DataType, AVPacket
<1>3. queue' = [queue EXCEPT ![s] = r] /\ rpc = "read" /\ rpc' = "top"
  BY DEF ReadPacket
<1> HIDE DEF s, x
<1>4. Counted(r) /\ r.size \in Int /\ r.size <= queue[s].size + 2
  BY <1>1, <1>2, PutSize DEF BufferInv
<1> HIDE DEF r
<1>5. /\ QueuedBytes \in Int /\ QueuedBytes' \in Int
      /\ QueuedBytes' <= QueuedBytes + 2
      /\ \A t \in Streams : Counted(queue'[t])
  <2>1. 2 \in Int /\ \A t \in Streams : Counted(queue[t])
    BY DEF BufferInv
  <2> QED BY <1>1, <1>2, <1>3, <1>4, <2>1, OneQueue, Zenon
<1>6. QueuedBytes <= QueueLimit /\ ~MayRead'
  BY <1>3 DEF BufferInv, MayRead
<1> HIDE DEF QueuedBytes
<1>7. QueuedBytes' <= QueueLimit + 2
  BY <1>1, <1>5, <1>6
<1> QED BY <1>5, <1>6, <1>7 DEF BufferInv, BufferBounded

(* A null packet for each of at most two streams.                           *)
LEMMA ReadEofBounded ==
  ASSUME IInv, BufferInv, ReadEof
  PROVE  BufferInv'
<1>1. queue \in [Streams -> PacketQueueType] /\ QueueLimit \in Nat
  BY PlaybackAssumption DEF IInv, TypeOK, DataType
<1>2. QueuedBytes <= QueueLimit /\ ~MayRead'
  BY DEF BufferInv, MayRead, ReadEof
<1>3. \A t \in Streams : queue[t].size \in Int
  BY <1>1, QueueFields
<1>4. ASSUME NEW t \in Streams
      PROVE  Counted(queue'[t]) /\ queue'[t].size \in Int /\ queue'[t].size <= queue[t].size + 1
  <2>1. CASE eof
    <3>1. queue' = queue
      BY <2>1 DEF ReadEof
    <3>2. Counted(queue[t]) /\ queue[t].size \in Int
      BY <1>3 DEF BufferInv
    <3> QED BY <3>1, <3>2
  <2>2. CASE ~eof
    <3>1. queue'[t] = packet_queue_put(queue[t], NullPacket)
      BY <2>2 DEF ReadEof
    <3>2. Counted(queue[t]) /\ queue[t] \in PacketQueueType
      BY <1>1 DEF BufferInv
    <3> QED BY <3>1, <3>2, Packets, PutSize
  <2> QED BY <2>1, <2>2
<1> DEFINE a  == IF Audio \in Streams THEN queue[Audio].size ELSE 0
           v  == IF Video \in Streams THEN queue[Video].size ELSE 0
           a1 == IF Audio \in Streams THEN queue'[Audio].size ELSE 0
           v1 == IF Video \in Streams THEN queue'[Video].size ELSE 0
<1>5. QueuedBytes = a + v /\ QueuedBytes' = a1 + v1
  BY DEF QueuedBytes
<1>6. a \in Int /\ v \in Int /\ a1 \in Int /\ v1 \in Int /\ a1 <= a + 1 /\ v1 <= v + 1
  BY <1>3, <1>4
<1> HIDE DEF a, v, a1, v1
<1>7. QueuedBytes' <= QueueLimit + 2
  BY <1>1, <1>2, <1>5, <1>6
<1> QED BY <1>2, <1>4, <1>7 DEF BufferInv, BufferBounded

LEMMA StepBounded == IInv /\ BufferInv /\ [Next]_vars => BufferInv'
<1> SUFFICES ASSUME IInv, BufferInv, [Next]_vars PROVE BufferInv'
  OBVIOUS
<1>1. CASE ReadPacket \/ ReadEof
  BY <1>1, ReadPacketBounded, ReadEofBounded
<1>2. CASE \E s \in Streams : SeekFlush(s) \/ AbortComponent(s) \/ JoinComponent(s) \/ Fetch(s)
  BY <1>2, FlushFrees
<1>3. CASE ReadCheckFull
  <2>1. UNCHANGED queue /\ (MayRead' => QueuedBytes <= QueueLimit)
    <3>1. QueuedBytes \in Int /\ QueueLimit \in Int
      <4>1. \A t \in Streams : queue[t].size \in Int
        BY QueueFields DEF IInv, TypeOK, DataType
      <4>2. \A s \in {Audio, Video} :
              (IF s \in Streams THEN queue[s].size ELSE 0) \in Int
        BY <4>1
      <4> QED BY <4>2, PlaybackAssumption DEF QueuedBytes
    <3>2. UNCHANGED queue /\ (MayRead' => ~QueuesFull)
      BY <1>3 DEF ReadCheckFull, MayRead
    <3> HIDE DEF QueuedBytes
    <3> QED BY <3>1, <3>2 DEF QueuesFull
  <2> QED BY <2>1, SameQueues
<1>4. CASE \/ ReadTop \/ SeekFile \/ SeekFails \/ SeekDone \/ SeekPaused \/ ReadStepTest
           \/ ReadToggleLoad \/ ReadToggleStore \/ ReadStepSet
  <2>1. UNCHANGED queue /\ ~MayRead'
    BY <1>4 DEF ReadTop, SeekFile, SeekFails, SeekDone, SeekPaused, ReadStepTest,
                ReadToggleLoad, ReadToggleStore, ReadStepSet, MayRead
  <2> QED BY <2>1, SameQueues
<1>5. CASE \/ PlayedTest \/ Restart \/ RestartSeekPos \/ RestartSeekReq
           \/ AutoExits \/ StaysAtEnd
           \/ \E s \in Streams : FinishedTest(s) \/ RemainingTest(s)
  <2>1. UNCHANGED queue /\ MayRead
    BY <1>5, Zenon DEF PlayedTest, Restart, RestartSeekPos, RestartSeekReq, AutoExits,
                StaysAtEnd, FinishedTest, RemainingTest, MayRead
  <2> QED BY <2>1, SameQueues
<1>6. CASE DropEarly \/ \E s \in Streams : \/ Receive(s) \/ FetchAborted(s) \/ Send(s)
                                          \/ QueueFrame(s) \/ QueueAborted(s)
  <2>1. UNCHANGED <<queue, rpc>>
    BY <1>6, Zenon DEF DropEarly, Receive, FetchAborted, Send, QueueFrame, QueueAborted
  <2> QED BY <2>1, SameQueues DEF MayRead
<1>7. CASE AudioThread \/ Refresh
  <2>1. UNCHANGED <<queue, rpc>>
    BY <1>7, Zenon DEF AudioThread, AudioStarts, AudioTakes, AudioSilence, Refresh,
       RefreshStale, Dequeue, NotDue, Due, DropLate, ShowPicture, EndStep
  <2> QED BY <2>1, SameQueues DEF MayRead
<1>8. CASE FinishTask \/ Application \/ StreamClose \/ JoinReadThread
  <2>1. UNCHANGED <<queue, rpc>>
    BY <1>8, Zenon DEF FinishTask, RequestSeekPos, RequestSeekReq, ToggleLoad, ToggleStore, ClearStep,
       SetStep, Application, RequestSeek, TogglePause, StepToNextFrame, StopPlayer,
       StreamClose, JoinReadThread
  <2> QED BY <2>1, SameQueues DEF MayRead
<1>9. CASE UNCHANGED vars
  BY <1>9, SameQueues DEF MayRead
<1> QED BY <1>1, <1>2, <1>3, <1>4, <1>5, <1>6, <1>7, <1>8, <1>9, Zenon
        DEF Next, ReadThread, DecoderThread, Close

(* Whoever stalls, the queues together never hold more than the limit and   *)
(* what one av_read_frame adds to them.                                     *)
THEOREM Bounded == Spec => []BufferBounded
<1>1. Init => BufferInv
  <2> SUFFICES ASSUME Init PROVE BufferInv
    OBVIOUS
  <2>1. ASSUME NEW s \in Streams
        PROVE  queue[s].pkt_list = <<>> /\ queue[s].nb_packets = 0 /\ queue[s].size = 0
    <3>1. queue[s] = packet_queue_start(packet_queue_init)
      BY DEF Init
    <3> QED BY <3>1, SMT DEF packet_queue_start, packet_queue_init
  <2>2. \A s \in Streams : Counted(queue[s])
    BY <2>1, ListedNone DEF Counted
  <2>3. QueuedBytes = 0 /\ ~MayRead
    BY <2>1 DEF QueuedBytes, MayRead, Init
  <2> QED BY <2>2, <2>3, PlaybackAssumption DEF BufferInv, BufferBounded
<1>2. BufferInv => BufferBounded
  BY DEF BufferInv
<1> QED BY <1>1, <1>2, StepBounded, Invariance, PTL DEF Spec
-----------------------------------------------------------------------------
(* What a step makes of a request that stands.                              *)
LEMMA StepKeepsRequest ==
  ASSUME TypeOK, [Next]_vars, NEW t \in 0 .. End, Stands(t)
  PROVE  Stands(t)' \/ (rpc' = "flush" /\ pos' = t) \/ rpc' = "seek_failed"
<1> USE DEF Stands
<1>1. CASE SeekFile \/ SeekFails
  BY <1>1 DEF SeekFile, SeekFails
<1>2. CASE \E s \in Streams : SeekFlush(s)
  BY <1>2 DEF SeekFlush
<1>3. CASE \/ ReadTop \/ SeekDone \/ SeekPaused \/ ReadStepTest \/ ReadToggleLoad
           \/ ReadToggleStore \/ ReadStepSet \/ ReadCheckFull
  BY <1>3 DEF ReadTop, SeekDone, SeekPaused, ReadStepTest, ReadToggleLoad, ReadToggleStore,
              ReadStepSet, ReadCheckFull
<1>4. CASE \/ PlayedTest \/ AutoExits \/ StaysAtEnd \/ ReadPacket \/ ReadEof
           \/ \E s \in Streams : FinishedTest(s) \/ RemainingTest(s)
  BY <1>4 DEF PlayedTest, AutoExits, StaysAtEnd, ReadPacket, ReadEof, FinishedTest,
              RemainingTest
<1>5. CASE Restart \/ RestartSeekPos \/ RestartSeekReq
  BY <1>5 DEF Restart, RestartSeekPos, RestartSeekReq
<1>6. CASE DropEarly \/ AudioThread \/ \E s \in Streams : DecoderThread(s)
  <2>1. UNCHANGED <<rpc, epc, seek_req, seek_pos>>
    BY <1>6, ZenonT(40) DEF DropEarly, DecoderThread, Receive, Fetch, FetchAborted, Send, QueueFrame,
       QueueAborted, AudioThread, AudioStarts, AudioTakes, AudioSilence
  <2> QED BY <2>1
<1>7. CASE Refresh
  <2>1. UNCHANGED <<rpc, seek_req, seek_pos>> /\ (epc' # "seek_pos" \/ UNCHANGED epc)
    BY <1>7 DEF Refresh, RefreshStale, Dequeue, NotDue, Due, DropLate, ShowPicture, EndStep
  <2> QED BY <2>1
<1>8. CASE Application \/ ToggleLoad \/ ToggleStore \/ ClearStep \/ SetStep
  <2>1. UNCHANGED <<rpc, seek_req, seek_pos>>
    BY <1>8, Zenon DEF ToggleLoad, ToggleStore, ClearStep, SetStep, Application, RequestSeek,
       TogglePause, StepToNextFrame, StopPlayer
  <2>2. CASE Application
    <3>1. epc' # "seek_pos"
      BY <1>8, <2>2 DEF Application, RequestSeek, TogglePause, StepToNextFrame, StopPlayer
    <3> QED BY <2>1, <3>1
  <2>3. CASE ToggleLoad \/ ToggleStore
    <3>1. epc' # "seek_pos"
      BY <2>3 DEF ToggleLoad, ToggleStore, TypeOK, ControlType
    <3> QED BY <2>1, <3>1
  <2>4. CASE ClearStep \/ SetStep
    <3>1. epc' # "seek_pos"
      BY <2>4 DEF ClearStep, SetStep
    <3> QED BY <2>1, <3>1
  <2> QED BY <1>8, <2>2, <2>3, <2>4
<1>9. CASE RequestSeekReq
  BY <1>9 DEF RequestSeekReq
<1>10. CASE \E target \in SeekTargets : RequestSeekPos(target)
  BY <1>10 DEF RequestSeekPos
<1>11. CASE Close
  BY <1>11 DEF Close, StreamClose, JoinReadThread, AbortComponent, JoinComponent
<1>12. CASE UNCHANGED vars
  BY <1>12
<1> QED BY <1>1, <1>2, <1>3, <1>4, <1>5, <1>6, <1>7, <1>8, <1>9, <1>10, <1>11, <1>12,
   Zenon
        DEF Next, ReadThread, FinishTask

(* A seek request that stands is neither overwritten nor wiped before the    *)
(* file is sought to its target, whatever the other threads do.              *)
THEOREM StandingKept == Spec => RequestKept
<1>1. TypeOK /\ [Next]_vars => Keeps
  BY StepKeepsRequest DEF Keeps
<1> QED BY <1>1, TypeCorrect, PTL DEF Spec, RequestKept
=============================================================================
