-------------------------- MODULE StreamCycle_proofs --------------------------
(***************************************************************************)
(* Proofs about StreamCycle, for a file of any length and any number of     *)
(* switches: the inductive invariant, and that the end read_thread reads    *)
(* off a decoder is that of the stream that is open.                       *)
(***************************************************************************)
EXTENDS StreamCycle, TLAPS

USE DEF vars, comps, dvars, hwvars, rvars, evars, apart, still, Quiet, None, NoPacket

-----------------------------------------------------------------------------
(* What the operations of the packet queue leave behind.                   *)

(* a queue's count is right and no packet is ahead of it                   *)
Sound(q) ==
  /\ q \in PacketQueueType /\ q.nb_packets = Len(q.pkt_list)
  /\ \A i \in 1 .. Len(q.pkt_list) : q.pkt_list[i].serial <= q.serial

LEMMA PutLeaves ==
  ASSUME NEW q, Sound(q), NEW p \in AVPacket
  PROVE  Sound(packet_queue_put(q, p)) /\ packet_queue_put(q, p).serial = q.serial
<1> DEFINE e == [pkt |-> p, serial |-> q.serial]
           r == packet_queue_put(q, p)
<1>1. e \in MyAVPacketList /\ q.pkt_list \in Seq(MyAVPacketList)
  BY DEF Sound, PacketQueueType, MyAVPacketList
<1>2. Append(q.pkt_list, e) \in Seq(MyAVPacketList)
  BY <1>1
<1>3. q.nb_packets + 1 \in Nat /\ q.size + PacketBytes(p) + 1 \in Int
  BY SMT DEF Sound, PacketQueueType, PacketBytes, AVPacket
<1>4. r \in PacketQueueType
  BY <1>2, <1>3, Zenon DEF Sound, packet_queue_put, PacketQueueType
<1>5. r.serial = q.serial
  BY SMT DEF Sound, packet_queue_put, PacketQueueType
<1>6. CASE q.abort_request
  BY <1>6 DEF Sound, packet_queue_put
<1>7. CASE ~q.abort_request
  <2>1. r.pkt_list = Append(q.pkt_list, e) /\ r.nb_packets = q.nb_packets + 1
    BY <1>7, SMT DEF Sound, packet_queue_put, PacketQueueType
  <2>2. Len(r.pkt_list) = Len(q.pkt_list) + 1 /\ q.serial \in Nat
    BY <1>1, <2>1, SMT DEF Sound, PacketQueueType
  <2>3. ASSUME NEW i \in 1 .. Len(r.pkt_list) PROVE r.pkt_list[i].serial <= r.serial
    <3>1. CASE i \in 1 .. Len(q.pkt_list)
      BY <1>1, <1>5, <2>1, <3>1, SMT DEF Sound
    <3>2. CASE i = Len(q.pkt_list) + 1
      BY <1>1, <1>5, <2>1, <2>2, <3>2, SMT
    <3> QED BY <1>1, <2>2, <3>1, <3>2, SMT
  <2> QED BY <1>4, <1>5, <2>1, <2>2, <2>3, SMT DEF Sound
<1> QED BY <1>6, <1>7

LEMMA GetLeaves ==
  ASSUME NEW q, Sound(q), CanGet(q)
  PROVE  /\ Sound(packet_queue_get(q)) /\ packet_queue_get(q).serial = q.serial
         /\ Got(q).serial \in Nat /\ Got(q).serial <= q.serial
<1> DEFINE r == packet_queue_get(q)
<1>1. q.pkt_list \in Seq(MyAVPacketList) /\ q.pkt_list # <<>>
  BY DEF Sound, PacketQueueType, CanGet
<1>2. /\ Got(q) \in MyAVPacketList /\ Got(q) = q.pkt_list[1] /\ Len(q.pkt_list) \in Nat \ {0}
      /\ Tail(q.pkt_list) \in Seq(MyAVPacketList)
      /\ Len(Tail(q.pkt_list)) = Len(q.pkt_list) - 1
      /\ \A i \in 1 .. Len(Tail(q.pkt_list)) : Tail(q.pkt_list)[i] = q.pkt_list[i + 1]
  BY <1>1, SMT DEF Got
<1>3. Got(q).serial \in Nat /\ Got(q).serial <= q.serial
  BY <1>2, SMT DEF Sound, MyAVPacketList
<1>4. q.nb_packets - 1 \in Nat /\ q.size - (PacketBytes(Got(q).pkt) + 1) \in Int
  BY <1>2, SMT DEF Sound, PacketQueueType, PacketBytes
<1>5. r \in PacketQueueType
  BY <1>2, <1>4, Zenon DEF Sound, packet_queue_get, PacketQueueType
<1>6. r.serial = q.serial /\ r.pkt_list = Tail(q.pkt_list) /\ r.nb_packets = q.nb_packets - 1
  BY SMT DEF Sound, packet_queue_get, PacketQueueType
<1>7. \A i \in 1 .. Len(r.pkt_list) : r.pkt_list[i].serial <= r.serial
  BY <1>2, <1>6, SMT DEF Sound
<1> QED BY <1>2, <1>3, <1>5, <1>6, <1>7, SMT DEF Sound

LEMMA FlushLeaves ==
  ASSUME NEW q, Sound(q)
  PROVE  Sound(packet_queue_flush(q)) /\ packet_queue_flush(q).serial = q.serial + 1
<1> DEFINE r == packet_queue_flush(q)
<1>1. q.serial + 1 \in Nat /\ 0 \in Nat /\ 0 \in Int /\ <<>> \in Seq(MyAVPacketList)
  BY DEF Sound, PacketQueueType
<1>2. r \in PacketQueueType
  BY <1>1, Zenon DEF Sound, packet_queue_flush, PacketQueueType
<1>3. r.serial = q.serial + 1 /\ r.pkt_list = <<>> /\ r.nb_packets = 0
  BY SMT DEF Sound, packet_queue_flush, PacketQueueType
<1> QED BY <1>2, <1>3, SMT DEF Sound

LEMMA AbortLeaves ==
  ASSUME NEW q, Sound(q)
  PROVE  Sound(packet_queue_abort(q)) /\ packet_queue_abort(q).serial = q.serial
<1> DEFINE r == packet_queue_abort(q)
<1>1. r \in PacketQueueType
  BY Zenon DEF Sound, packet_queue_abort, PacketQueueType
<1>2. r.serial = q.serial /\ r.pkt_list = q.pkt_list /\ r.nb_packets = q.nb_packets
  BY SMT DEF Sound, packet_queue_abort, PacketQueueType
<1> QED BY <1>1, <1>2, SMT DEF Sound

LEMMA StartLeaves ==
  ASSUME NEW q, Sound(q)
  PROVE  Sound(packet_queue_start(q)) /\ packet_queue_start(q).serial = q.serial + 1
<1> DEFINE r == packet_queue_start(q)
<1>1. q.serial + 1 \in Nat /\ FALSE \in BOOLEAN
  BY DEF Sound, PacketQueueType
<1>2. r \in PacketQueueType
  BY <1>1, Zenon DEF Sound, packet_queue_start, PacketQueueType
<1>3. r.serial = q.serial + 1 /\ r.pkt_list = q.pkt_list /\ r.nb_packets = q.nb_packets
  BY SMT DEF Sound, packet_queue_start, PacketQueueType
<1>4. \A i \in 1 .. Len(r.pkt_list) : r.pkt_list[i].serial \in Nat
  <2>1. r.pkt_list \in Seq(MyAVPacketList)
    BY <1>2 DEF PacketQueueType
  <2>2. \A i \in 1 .. Len(r.pkt_list) : r.pkt_list[i] \in MyAVPacketList
    BY <2>1
  <2> QED BY <2>2 DEF MyAVPacketList
<1>5. q.serial \in Nat
  BY DEF Sound, PacketQueueType
<1>6. \A i \in 1 .. Len(r.pkt_list) : r.pkt_list[i].serial <= r.serial
  BY <1>3, <1>4, <1>5, SMT DEF Sound
<1> QED BY <1>2, <1>3, <1>6, SMT DEF Sound
-----------------------------------------------------------------------------
(* The queues of the two kinds are sound: what the invariant says of them.  *)
LEMMA Queues ==
  ASSUME IInv
  PROVE  \A k \in Kinds : Sound(queue[k]) /\ queue[k].serial \in Nat
<1> SUFFICES ASSUME NEW k \in Kinds PROVE Sound(queue[k]) /\ queue[k].serial \in Nat
  OBVIOUS
<1>1. queue[k] \in PacketQueueType
  BY DEF IInv, TypeOK
<1>2. queue[k].serial \in Nat
  BY <1>1 DEF PacketQueueType
<1> QED BY <1>1, <1>2 DEF Sound, IInv, SerialInv

(* One queue is replaced by a sound one that is not behind it.             *)
LEMMA QueueStep ==
  ASSUME IInv, NEW k \in Kinds, NEW q, Sound(q), q.serial >= queue[k].serial,
         queue' = [queue EXCEPT ![k] = q]
  PROVE  /\ queue' \in [Kinds -> PacketQueueType]
         /\ \A j \in Kinds : /\ Sound(queue'[j]) /\ queue'[j].serial \in Nat
                             /\ queue'[j].serial >= queue[j].serial
         /\ queue'[k] = q /\ \A j \in Kinds \ {k} : queue'[j] = queue[j]
<1>1. queue \in [Kinds -> PacketQueueType] /\ q \in PacketQueueType
  BY DEF IInv, TypeOK, Sound
<1>2. queue'[k] = q /\ \A j \in Kinds \ {k} : queue'[j] = queue[j]
  BY <1>1
<1>3. q.serial \in Nat
  BY <1>1 DEF PacketQueueType
<1>4. queue' \in [Kinds -> PacketQueueType]
  BY <1>1
<1> QED BY <1>2, <1>3, <1>4, Queues, SMT

(* The invariant after a step that leaves the decoders as they are.        *)
LEMMA SerialKept ==
  ASSUME IInv, UNCHANGED <<pkt_serial, finished>>,
         \A j \in Kinds : /\ Sound(queue'[j]) /\ queue'[j].serial \in Nat
                          /\ queue'[j].serial >= queue[j].serial
  PROVE  SerialInv'
<1>1. \A j \in Kinds : pkt_serial[j] \in Int /\ finished[j] \in Int
  <2> SUFFICES ASSUME NEW j \in Kinds PROVE pkt_serial[j] \in Int /\ finished[j] \in Int
    OBVIOUS
  <2>1. pkt_serial[j] \in Nat \cup {-1} /\ finished[j] \in Nat
    BY DEF IInv, TypeOK
  <2> QED BY <2>1, SMT
<1>2. \A j \in Kinds : queue[j].serial \in Nat
  BY Queues
<1> QED BY <1>1, <1>2, SMT DEF IInv, SerialInv, Sound
-----------------------------------------------------------------------------
(* At the start nothing is open and the sound is about to be.              *)
LEMMA InitInv == Init => IInv
<1> SUFFICES ASSUME Init PROVE IInv
  OBVIOUS
<1>1. packet_queue_init \in PacketQueueType
  <2>1. <<>> \in Seq(MyAVPacketList) /\ 0 \in Nat /\ 0 \in Int /\ TRUE \in BOOLEAN
    OBVIOUS
  <2> QED BY <2>1, Zenon DEF packet_queue_init, PacketQueueType
<1>2. packet_queue_init.nb_packets = 0 /\ packet_queue_init.pkt_list = <<>>
      /\ packet_queue_init.serial = 0
  BY DEF packet_queue_init
<1>3. TypeOK
  BY <1>1, SMT DEF Init, TypeOK, Kinds
<1>4. SerialInv
  BY <1>2, SMT DEF Init, SerialInv
<1>5. OwnerInv /\ SwitchInv
  BY SMT DEF Init, OwnerInv, SwitchInv, Kinds
<1> QED BY <1>3, <1>4, <1>5 DEF IInv

(* Most steps of read_thread only move it on.                              *)
LEMMA QuietStep ==
  ASSUME IInv, Quiet, rpc # "opening", rpc' # "opening", rk' \in Kinds, pkt'.kind \in Kinds
  PROVE  IInv'
<1>1. TypeOK'
  BY DEF IInv, TypeOK
<1>2. SerialInv' /\ OwnerInv' /\ SwitchInv'
  BY DEF IInv, SerialInv, OwnerInv, SwitchInv
<1> QED BY <1>1, <1>2 DEF IInv

(* read_thread puts a packet or a null packet.                             *)
LEMMA PutStep ==
  ASSUME IInv, NEW k \in Kinds, NEW p \in AVPacket,
         queue' = [queue EXCEPT ![k] = packet_queue_put(@, p)],
         UNCHANGED <<comps, dvars, evars>>,
         rpc # "opening", rpc' # "opening", rk' \in Kinds, pkt'.kind \in Kinds
  PROVE  IInv'
<1> DEFINE q == packet_queue_put(queue[k], p)
<1>1. Sound(queue[k]) /\ queue[k].serial \in Nat
  BY Queues
<1>2. Sound(q) /\ q.serial = queue[k].serial
  BY <1>1, PutLeaves
<1>3. queue' = [queue EXCEPT ![k] = q]
  BY DEF IInv, TypeOK
<1> HIDE DEF q
<1>4. q.serial >= queue[k].serial
  BY <1>1, <1>2, SMT
<1>5. /\ queue' \in [Kinds -> PacketQueueType]
      /\ \A j \in Kinds : /\ Sound(queue'[j]) /\ queue'[j].serial \in Nat
                          /\ queue'[j].serial >= queue[j].serial
      /\ queue'[k] = q /\ \A j \in Kinds \ {k} : queue'[j] = queue[j]
  BY <1>2, <1>3, <1>4, QueueStep
<1>6. TypeOK'
  BY <1>5 DEF IInv, TypeOK
<1>7. SerialInv'
  BY <1>5, SerialKept
<1>8. \A j \in Kinds : queue'[j].serial = queue[j].serial
  BY <1>2, <1>5
<1>9. OwnerInv' /\ SwitchInv'
  BY <1>8 DEF IInv, OwnerInv, SwitchInv
<1> QED BY <1>6, <1>7, <1>9 DEF IInv

LEMMA ReadStep == IInv /\ ReadThread => IInv'
<1> SUFFICES ASSUME IInv, ReadThread PROVE IInv'
  OBVIOUS
<1>1. rk \in Kinds /\ pkt.kind \in Kinds /\ "audio" \in Kinds /\ "video" \in Kinds
  BY DEF IInv, TypeOK, Kinds
<1>2. CASE ReadOn \/ TestOpen \/ TestFinished \/ TestRemaining \/ TellEnd
  <2>1. Quiet /\ pkt' = pkt
    BY <1>2 DEF ReadOn, TestOpen, TestFinished, TestRemaining, TellEnd
  <2>2. rpc # "opening" /\ rpc' # "opening" /\ rk' \in Kinds
    BY <1>1, <1>2 DEF ReadOn, TestOpen, TestFinished, TestRemaining, TellEnd, PlayedOut
  <2> QED BY <1>1, <2>1, <2>2, QuietStep
<1>3. CASE ReadFrame
  <2>1. Quiet /\ rpc # "opening" /\ rpc' # "opening" /\ rk' \in Kinds
    BY <1>1, <1>3, SMT DEF ReadFrame
  <2>2. pkt'.kind \in Kinds
    BY <1>1, <1>3 DEF ReadFrame
  <2> QED BY <2>1, <2>2, QuietStep
<1>4. CASE MatchPacket
  <2>1. Quiet /\ rpc # "opening" /\ rpc' # "opening" /\ rk' \in Kinds
    BY <1>1, <1>4, SMT DEF MatchPacket
  <2>2. pkt'.kind \in Kinds
    BY <1>1, <1>4 DEF MatchPacket
  <2> QED BY <2>1, <2>2, QuietStep
<1>5. CASE ReadEof \/ MatchNull \/ SetEof
  <2>1. Quiet /\ pkt' = pkt
    BY <1>5 DEF ReadEof, MatchNull, SetEof
  <2>2. rpc # "opening" /\ rpc' # "opening" /\ rk' \in Kinds
    BY <1>1, <1>5 DEF ReadEof, MatchNull, SetEof, AfterNull
  <2> QED BY <1>1, <2>1, <2>2, QuietStep
<1>6. CASE PutPacket
  <2>1. pkt'.kind \in Kinds /\ rk' \in Kinds /\ "data" \in AVPacket
    BY <1>1, <1>6 DEF PutPacket, AVPacket
  <2> QED BY <1>1, <1>6, <2>1, PutStep DEF PutPacket
<1>7. CASE PutNull
  <2>1. pkt'.kind \in Kinds /\ "null" \in AVPacket
    BY <1>1, <1>7 DEF PutNull, AVPacket
  <2>2. rk' \in Kinds /\ rpc # "opening" /\ rpc' # "opening"
    BY <1>1, <1>7 DEF PutNull, AfterNull
  <2> QED BY <1>1, <1>7, <2>1, <2>2, PutStep DEF PutNull
<1> QED BY <1>2, <1>3, <1>4, <1>5, <1>6, <1>7 DEF ReadThread
-----------------------------------------------------------------------------
DecoderState == {"none", "top", "decode", "drain", "frame", "queue", "ended"}

(* A decoder thread moves on.                                              *)
LEMMA MoveStep ==
  ASSUME IInv, NEW k \in Kinds, NEW x \in DecoderState \ {"none", "drain"},
         dec[k] # "none", dec' = [dec EXCEPT ![k] = x],
         UNCHANGED <<comps, queue, pkt_serial, finished, drained, evars, rvars>>
  PROVE  IInv'
<1>1. /\ dec' \in [Kinds -> DecoderState] /\ dec'[k] = x
      /\ \A j \in Kinds \ {k} : dec'[j] = dec[j]
  BY DEF IInv, TypeOK, DecoderState
<1>2. TypeOK'
  BY <1>1 DEF IInv, TypeOK, DecoderState
<1>3. SerialInv'
  BY DEF IInv, SerialInv
<1>4. \A j \in Kinds : (dec'[j] = "none" <=> dec[j] = "none") /\ (dec'[j] = "drain" => dec[j] = "drain")
  BY <1>1
<1>5. OwnerInv'
  BY <1>4 DEF IInv, OwnerInv
<1>6. ck \in Kinds
  BY DEF IInv, TypeOK
<1>7. SwitchInv'
  BY <1>4, <1>6 DEF IInv, SwitchInv
<1> QED BY <1>2, <1>3, <1>5, <1>7 DEF IInv

(* It takes a packet, whose serial is not ahead of the queue's.            *)
LEMMA GetStep == ASSUME IInv, NEW k \in Kinds, GetPacket(k) PROVE IInv'
<1> USE DEF GetPacket
<1> DEFINE q == packet_queue_get(queue[k])
           n == Got(queue[k]).serial
           f == IF pkt_serial[k] # n THEN 0 ELSE finished[k]
           x == IF Got(queue[k]).pkt = "data" THEN "frame" ELSE "drain"
<1>1. Sound(queue[k]) /\ queue[k].serial \in Nat
  BY Queues
<1>2. Sound(q) /\ q.serial = queue[k].serial /\ n \in Nat /\ n <= queue[k].serial
  BY <1>1, GetLeaves
<1>3. /\ queue' = [queue EXCEPT ![k] = q] /\ pkt_serial' = [pkt_serial EXCEPT ![k] = n]
      /\ finished' = [finished EXCEPT ![k] = f] /\ dec' = [dec EXCEPT ![k] = x]
  BY DEF IInv, TypeOK
<1>4. finished[k] \in Nat /\ finished[k] <= queue[k].serial
  BY DEF IInv, TypeOK, SerialInv
<1>5. f \in Nat /\ f <= queue[k].serial /\ f \in {0, finished[k]}
  BY <1>1, <1>4, SMT
<1>6. x \in {"frame", "drain"}
  OBVIOUS
<1> HIDE DEF q, n, f, x
<1>7. q.serial >= queue[k].serial
  BY <1>1, <1>2, SMT
<1>8. /\ queue' \in [Kinds -> PacketQueueType]
      /\ \A j \in Kinds : Sound(queue'[j]) /\ queue'[j].serial \in Nat
      /\ queue'[k] = q /\ \A j \in Kinds \ {k} : queue'[j] = queue[j]
  BY <1>2, <1>3, <1>7, QueueStep
<1>9. /\ pkt_serial'[k] = n /\ finished'[k] = f /\ dec'[k] = x
      /\ \A j \in Kinds \ {k} :
           pkt_serial'[j] = pkt_serial[j] /\ finished'[j] = finished[j] /\ dec'[j] = dec[j]
      /\ pkt_serial' \in [Kinds -> Nat \cup {-1}] /\ finished' \in [Kinds -> Nat]
      /\ dec' \in [Kinds -> DecoderState]
  <2>1. /\ pkt_serial \in [Kinds -> Nat \cup {-1}] /\ finished \in [Kinds -> Nat]
        /\ dec \in [Kinds -> DecoderState]
    BY DEF IInv, TypeOK, DecoderState
  <2>2. n \in Nat \cup {-1} /\ f \in Nat /\ x \in DecoderState
    BY <1>2, <1>5, <1>6 DEF DecoderState
  <2> QED BY <1>3, <2>1, <2>2
<1>10. TypeOK'
  BY <1>8, <1>9 DEF IInv, TypeOK, DecoderState
<1>11. \A j \in Kinds : queue'[j].serial = queue[j].serial
  BY <1>2, <1>8
<1>12. SerialInv'
  <2> SUFFICES ASSUME NEW j \in Kinds
               PROVE  pkt_serial'[j] <= queue[j].serial /\ finished'[j] <= queue[j].serial
    BY <1>8, <1>11 DEF SerialInv, Sound
  <2> QED BY <1>2, <1>5, <1>9 DEF IInv, SerialInv
<1>13. dec[k] # "none" /\ n # -1
  BY <1>2, SMT
<1>14. OwnerInv'
  <2> SUFFICES ASSUME NEW j \in Kinds
               PROVE  /\ dec'[j] = "none" => finished'[j] = 0 \/ finished'[j] < queue'[j].serial
                      /\ dec'[j] # "none" /\ ~drained'[j] => finished'[j] = 0
                      /\ dec'[j] = "drain" => pkt_serial'[j] # -1
                      /\ stream'[j] = None => dec'[j] = "none"
    BY Zenon DEF OwnerInv
  <2>1. CASE j = k
    BY <1>5, <1>6, <1>9, <1>13, <2>1 DEF IInv, OwnerInv
  <2>2. CASE j # k
    BY <1>9, <1>11, <2>2 DEF IInv, OwnerInv
  <2> QED BY <2>1, <2>2
<1>15. SwitchInv'
  <2>1. ck \in Kinds
    BY DEF IInv, TypeOK
  <2> QED BY <1>5, <1>9, <1>13, <2>1 DEF IInv, SwitchInv
<1> QED BY <1>10, <1>12, <1>14, <1>15 DEF IInv

(* The null packet: the decoder is finished with the serial it came under.  *)
LEMMA DrainStep == ASSUME IInv, NEW k \in Kinds, Drain(k) PROVE IInv'
<1> USE DEF Drain
<1>1. pkt_serial[k] \in Nat /\ pkt_serial[k] <= queue[k].serial
  BY DEF IInv, TypeOK, OwnerInv, SerialInv
<1>2. /\ dec'[k] = "decode" /\ finished'[k] = pkt_serial[k] /\ drained'[k]
      /\ \A j \in Kinds \ {k} :
           dec'[j] = dec[j] /\ finished'[j] = finished[j] /\ drained'[j] = drained[j]
      /\ finished' \in [Kinds -> Nat] /\ dec' \in [Kinds -> DecoderState]
      /\ drained' \in [Kinds -> BOOLEAN]
  BY <1>1 DEF IInv, TypeOK, DecoderState
<1>3. TypeOK'
  BY <1>2 DEF IInv, TypeOK, DecoderState
<1>4. SerialInv'
  BY <1>1, <1>2 DEF IInv, SerialInv
<1>5. stream[k] # None
  BY DEF IInv, OwnerInv
<1>6. OwnerInv'
  BY <1>2, <1>5 DEF IInv, OwnerInv
<1>7. SwitchInv'
  <2>1. ck \in Kinds
    BY DEF IInv, TypeOK
  <2> QED BY <1>2, <2>1 DEF IInv, SwitchInv
<1> QED BY <1>3, <1>4, <1>6, <1>7 DEF IInv

LEMMA DecoderStep == ASSUME IInv, NEW k \in Kinds, DecoderThread(k) PROVE IInv'
<1> USE DEF DecoderState
<1>1. CASE PickFrame(k) \/ DecoderEnds(k) \/ UseFrame(k) \/ QueueFrame(k)
  <2>1. CASE PickFrame(k)
    BY <2>1, MoveStep DEF PickFrame
  <2>2. CASE DecoderEnds(k)
    BY <2>2, MoveStep DEF DecoderEnds
  <2>3. CASE UseFrame(k)
    BY <2>3, MoveStep DEF UseFrame
  <2>4. CASE QueueFrame(k)
    BY <2>4, MoveStep DEF QueueFrame
  <2> QED BY <1>1, <2>1, <2>2, <2>3, <2>4
<1>2. CASE GetPacket(k)
  BY <1>2, GetStep
<1>3. CASE Drain(k)
  BY <1>3, DrainStep
<1> QED BY <1>1, <1>2, <1>3 DEF DecoderThread

LEMMA FilterStep == IInv /\ FilterFails => IInv'
<1> SUFFICES ASSUME IInv, FilterFails PROVE IInv'
  OBVIOUS
<1>1. "video" \in Kinds /\ "ended" \in DecoderState \ {"none", "drain"}
  BY DEF Kinds, DecoderState
<1> QED BY <1>1, MoveStep DEF FilterFails

(* A frame that is taken concerns nobody here.                             *)
LEMMA TakeStep == ASSUME IInv, NEW k \in Kinds, TakeFrame(k) PROVE IInv'
<1>1. TypeOK'
  BY DEF TakeFrame, IInv, TypeOK
<1>2. SerialInv' /\ OwnerInv' /\ SwitchInv'
  BY DEF TakeFrame, IInv, SerialInv, OwnerInv, SwitchInv
<1> QED BY <1>1, <1>2 DEF IInv
-----------------------------------------------------------------------------
(* The event loop, or read_thread at the beginning, closes and opens.       *)

(* A key: the kind is chosen; without a stream it has no decoder.           *)
LEMMA CycleStep == ASSUME IInv, NEW k \in Kinds, CycleChannel(k) PROVE IInv'
<1>1. last[k] \in {0, 1}
  BY DEF CycleChannel, IInv, TypeOK, SwitchInv
<1>2. ci' \in {0, 1} /\ ck' = k /\ epc' \in {"open", "abort"}
  BY <1>1, SMT DEF CycleChannel
<1>3. TypeOK'
  BY <1>2 DEF CycleChannel, IInv, TypeOK
<1>4. SerialInv' /\ OwnerInv'
  BY DEF CycleChannel, IInv, SerialInv, OwnerInv
<1>5. epc' = "open" => dec[k] = "none"
  BY DEF CycleChannel, IInv, OwnerInv
<1>6. SwitchInv'
  BY <1>2, <1>5 DEF CycleChannel, IInv, SwitchInv
<1> QED BY <1>3, <1>4, <1>6 DEF IInv

LEMMA CloseAbortsStep == IInv /\ CloseAborts => IInv'
<1> SUFFICES ASSUME IInv, CloseAborts PROVE IInv'
  OBVIOUS
<1> USE DEF CloseAborts
<1> DEFINE q == packet_queue_abort(queue[ck])
<1>1. ck \in Kinds /\ queue' = [queue EXCEPT ![ck] = q]
  BY DEF IInv, TypeOK
<1>2. Sound(queue[ck]) /\ queue[ck].serial \in Nat
  BY <1>1, Queues
<1>3. Sound(q) /\ q.serial = queue[ck].serial
  BY <1>2, AbortLeaves
<1> HIDE DEF q
<1>4. q.serial >= queue[ck].serial
  BY <1>2, <1>3, SMT
<1>5. /\ queue' \in [Kinds -> PacketQueueType]
      /\ \A j \in Kinds : /\ Sound(queue'[j]) /\ queue'[j].serial \in Nat
                          /\ queue'[j].serial >= queue[j].serial
      /\ queue'[ck] = q /\ \A j \in Kinds \ {ck} : queue'[j] = queue[j]
  BY <1>1, <1>3, <1>4, QueueStep
<1>6. TypeOK' /\ SerialInv'
  BY <1>5, SerialKept DEF IInv, TypeOK
<1>7. \A j \in Kinds : queue'[j].serial = queue[j].serial
  BY <1>3, <1>5
<1>8. OwnerInv' /\ SwitchInv'
  BY <1>7 DEF IInv, OwnerInv, SwitchInv
<1> QED BY <1>6, <1>8 DEF IInv

(* The flush leaves the decoder that is gone behind the queue.              *)
LEMMA CloseJoinsStep == IInv /\ CloseJoins => IInv'
<1> SUFFICES ASSUME IInv, CloseJoins PROVE IInv'
  OBVIOUS
<1> USE DEF CloseJoins
<1> DEFINE q == packet_queue_flush(queue[ck])
<1>1. ck \in Kinds /\ queue' = [queue EXCEPT ![ck] = q]
  BY DEF IInv, TypeOK
<1>2. Sound(queue[ck]) /\ queue[ck].serial \in Nat
  BY <1>1, Queues
<1>3. Sound(q) /\ q.serial = queue[ck].serial + 1
  BY <1>2, FlushLeaves
<1> HIDE DEF q
<1>4. q.serial >= queue[ck].serial
  BY <1>2, <1>3, SMT
<1>5. /\ queue' \in [Kinds -> PacketQueueType]
      /\ \A j \in Kinds : /\ Sound(queue'[j]) /\ queue'[j].serial \in Nat
                          /\ queue'[j].serial >= queue[j].serial
      /\ queue'[ck] = q /\ \A j \in Kinds \ {ck} : queue'[j] = queue[j]
  BY <1>1, <1>3, <1>4, QueueStep
<1>6. /\ dec' \in [Kinds -> DecoderState] /\ dec'[ck] = "none"
      /\ \A j \in Kinds \ {ck} : dec'[j] = dec[j]
  BY <1>1 DEF IInv, TypeOK, DecoderState
<1>7. TypeOK'
  BY <1>5, <1>6 DEF IInv, TypeOK, DecoderState
<1>8. SerialInv'
  BY <1>5, SerialKept
<1>9. finished[ck] < queue'[ck].serial
  <2>1. finished[ck] \in Nat /\ finished[ck] <= queue[ck].serial
    BY <1>1 DEF IInv, TypeOK, SerialInv
  <2> QED BY <1>2, <1>3, <1>5, <2>1, SMT
<1>10. OwnerInv'
  BY <1>5, <1>6, <1>9 DEF IInv, OwnerInv
<1>11. SwitchInv'
  BY <1>6 DEF IInv, SwitchInv
<1> QED BY <1>7, <1>8, <1>10, <1>11 DEF IInv

LEMMA CloseStep == IInv /\ (CloseSt \/ CloseStream) => IInv'
<1> SUFFICES ASSUME IInv, CloseSt \/ CloseStream PROVE IInv'
  OBVIOUS
<1>1. ck \in Kinds /\ stream \in [Kinds -> {None, 0, 1}]
  BY DEF IInv, TypeOK
<1>2. CASE CloseSt
  <2>1. TypeOK' /\ SerialInv'
    BY <1>2 DEF CloseSt, IInv, TypeOK, SerialInv
  <2>2. OwnerInv' /\ SwitchInv'
    BY <1>2 DEF CloseSt, IInv, OwnerInv, SwitchInv
  <2> QED BY <2>1, <2>2 DEF IInv
<1>3. CASE CloseStream
  <2>1. /\ stream' \in [Kinds -> {None, 0, 1}] /\ stream'[ck] = None
        /\ \A j \in Kinds \ {ck} : stream'[j] = stream[j]
    BY <1>1, <1>3 DEF CloseStream
  <2>2. TypeOK' /\ SerialInv'
    BY <1>3, <2>1 DEF CloseStream, IInv, TypeOK, SerialInv
  <2>3. dec[ck] = "none"
    BY <1>3 DEF CloseStream, IInv, SwitchInv
  <2>4. OwnerInv'
    BY <1>3, <2>1, <2>3 DEF CloseStream, IInv, OwnerInv
  <2>5. SwitchInv'
    BY <1>3 DEF CloseStream, IInv, SwitchInv
  <2> QED BY <2>2, <2>4, <2>5 DEF IInv
<1> QED BY <1>2, <1>3
-----------------------------------------------------------------------------
(* An opening that is over: the picture's follows, or the event loop and    *)
(* read_thread go on.                                                      *)
LEMMA EndsStep ==
  ASSUME IInv, OpeningEnds,
         UNCHANGED <<stream, queue, dec, pkt_serial, finished, drained, rk, pkt>>,
         last' \in [Kinds -> {None, 0, 1}], last'[ck] # None,
         \A j \in Kinds \ {ck} : last'[j] = last[j]
  PROVE  IInv'
<1>1. /\ ck \in Kinds /\ "video" \in Kinds /\ "audio" \in Kinds
      /\ \A j \in Kinds : j = "audio" \/ j = "video"
  BY DEF IInv, TypeOK, Kinds
<1>2. SerialInv' /\ OwnerInv'
  BY DEF IInv, SerialInv, OwnerInv
<1>3. CASE rpc # "opening"
  <2>1. epc' = "idle" /\ UNCHANGED <<ck, ci, rpc>>
    BY <1>3 DEF OpeningEnds
  <2>2. TypeOK'
    BY <2>1 DEF IInv, TypeOK
  <2>3. SwitchInv'
    BY <1>1, <1>3, <2>1 DEF IInv, SwitchInv
  <2> QED BY <1>2, <2>2, <2>3 DEF IInv
<1>4. CASE rpc = "opening" /\ ck = "audio"
  <2>1. epc' = "open" /\ ck' = "video" /\ UNCHANGED <<ci, rpc>>
    BY <1>4 DEF OpeningEnds
  <2>2. TypeOK'
    BY <1>1, <2>1 DEF IInv, TypeOK
  <2>3. dec["video"] = "none"
    BY <1>1, <1>4 DEF IInv, SwitchInv, OwnerInv
  <2>4. SwitchInv'
    BY <1>1, <1>4, <2>1, <2>3 DEF IInv, SwitchInv
  <2> QED BY <1>2, <2>2, <2>4 DEF IInv
<1>5. CASE rpc = "opening" /\ ck # "audio"
  <2>1. epc' = "idle" /\ rpc' # "opening" /\ UNCHANGED <<ck, ci>>
    BY <1>5 DEF OpeningEnds
  <2>2. TypeOK'
    BY <2>1 DEF IInv, TypeOK
  <2>3. SwitchInv'
    BY <1>1, <1>5, <2>1 DEF IInv, SwitchInv
  <2> QED BY <1>2, <2>2, <2>3 DEF IInv
<1> QED BY <1>3, <1>4, <1>5

LEMMA OpenFailsStep == IInv /\ (OpenFails \/ AudioOpenFails \/ Opened) => IInv'
<1> SUFFICES ASSUME IInv, OpenFails \/ AudioOpenFails \/ Opened PROVE IInv'
  OBVIOUS
<1>1. ck \in Kinds /\ last \in [Kinds -> {None, 0, 1}] /\ ci \in {0, 1}
  BY DEF IInv, TypeOK
<1>2. CASE OpenFails
  <2>1. /\ last' \in [Kinds -> {None, 0, 1}] /\ last'[ck] = ci
        /\ \A j \in Kinds \ {ck} : last'[j] = last[j]
    BY <1>1, <1>2 DEF OpenFails
  <2>2. last'[ck] # None
    BY <1>1, <2>1, SMT
  <2> QED BY <1>2, <2>1, <2>2, EndsStep DEF OpenFails
<1>3. CASE AudioOpenFails
  <2>1. last[ck] # None
    BY <1>3 DEF AudioOpenFails, IInv, SwitchInv
  <2> QED BY <1>1, <1>3, <2>1, EndsStep DEF AudioOpenFails
<1>4. CASE Opened
  <2>1. last[ck] # None
    BY <1>4 DEF Opened, IInv, SwitchInv
  <2> QED BY <1>1, <1>4, <2>1, EndsStep DEF Opened
<1> QED BY <1>2, <1>3, <1>4

LEMMA OpenCodecStep == IInv /\ OpenCodec => IInv'
<1> SUFFICES ASSUME IInv, OpenCodec PROVE IInv'
  OBVIOUS
<1>1. ck \in Kinds /\ last \in [Kinds -> {None, 0, 1}] /\ ci \in {0, 1}
  BY DEF IInv, TypeOK
<1>2. /\ last' \in [Kinds -> {None, 0, 1}] /\ last'[ck] = ci
      /\ \A j \in Kinds \ {ck} : last'[j] = last[j]
  BY <1>1 DEF OpenCodec
<1>3. last'[ck] # None
  BY <1>1, <1>2, SMT
<1>4. TypeOK'
  BY <1>2 DEF OpenCodec, IInv, TypeOK
<1>5. SerialInv' /\ OwnerInv'
  BY DEF OpenCodec, IInv, SerialInv, OwnerInv
<1>6. /\ epc = "open" /\ epc' = "open stream"
      /\ UNCHANGED <<stream, rpc, ck, dec, finished>>
  BY DEF OpenCodec
<1>7. rpc = "opening" /\ ck = "video" => last'["audio"] # None
  BY <1>2 DEF IInv, SwitchInv, Kinds
<1>8. rpc # "opening" => \A k \in Kinds : last'[k] # None
  BY <1>2, <1>3 DEF IInv, SwitchInv
<1>9. SwitchInv'
  BY <1>3, <1>6, <1>7, <1>8 DEF IInv, SwitchInv
<1> QED BY <1>4, <1>5, <1>9 DEF IInv

(* The stream's number, then the pointer: there is no decoder yet.         *)
LEMMA OpenStreamStep == IInv /\ (OpenStream \/ OpenSt) => IInv'
<1> SUFFICES ASSUME IInv, OpenStream \/ OpenSt PROVE IInv'
  OBVIOUS
<1>1. ck \in Kinds /\ stream \in [Kinds -> {None, 0, 1}] /\ ci \in {0, 1}
      /\ drained \in [Kinds -> BOOLEAN]
  BY DEF IInv, TypeOK
<1>2. CASE OpenStream
  <2>1. /\ stream' \in [Kinds -> {None, 0, 1}] /\ stream'[ck] = ci
        /\ \A j \in Kinds \ {ck} : stream'[j] = stream[j]
    BY <1>1, <1>2 DEF OpenStream
  <2>2. stream'[ck] # None
    BY <1>1, <2>1, SMT
  <2>3. TypeOK' /\ SerialInv'
    BY <1>2, <2>1 DEF OpenStream, IInv, TypeOK, SerialInv
  <2>4. OwnerInv'
    BY <1>2, <2>1, <2>2 DEF OpenStream, IInv, OwnerInv
  <2>5. rpc = "opening" /\ ck = "audio" => stream'["video"] = None
    BY <1>2, <2>1 DEF OpenStream, IInv, SwitchInv, Kinds
  <2>6. SwitchInv'
    BY <1>2, <2>2, <2>5 DEF OpenStream, IInv, SwitchInv
  <2> QED BY <2>3, <2>4, <2>6 DEF IInv
<1>3. CASE OpenSt
  <2>1. /\ drained' \in [Kinds -> BOOLEAN]
        /\ \A j \in Kinds \ {ck} : drained'[j] = drained[j]
    BY <1>1, <1>3 DEF OpenSt
  <2>2. TypeOK' /\ SerialInv'
    BY <1>3, <2>1 DEF OpenSt, IInv, TypeOK, SerialInv
  <2>3. dec[ck] = "none"
    BY <1>3 DEF OpenSt, IInv, SwitchInv
  <2>4. OwnerInv'
    BY <1>3, <2>1, <2>3 DEF OpenSt, IInv, OwnerInv
  <2>5. SwitchInv'
    BY <1>3 DEF OpenSt, IInv, SwitchInv
  <2> QED BY <2>2, <2>4, <2>5 DEF IInv
<1> QED BY <1>2, <1>3

LEMMA DecoderInitStep == IInv /\ DecoderInit => IInv'
<1> SUFFICES ASSUME IInv, DecoderInit PROVE IInv'
  OBVIOUS
<1> USE DEF DecoderInit
<1>1. /\ ck \in Kinds /\ pkt_serial \in [Kinds -> Nat \cup {-1}] /\ finished \in [Kinds -> Nat]
      /\ 0 \in Nat /\ -1 \in Nat \cup {-1}
  BY DEF IInv, TypeOK
<1>2. /\ finished' \in [Kinds -> Nat] /\ finished'[ck] = 0
      /\ pkt_serial' \in [Kinds -> Nat \cup {-1}] /\ pkt_serial'[ck] = -1
      /\ \A j \in Kinds \ {ck} : finished'[j] = finished[j] /\ pkt_serial'[j] = pkt_serial[j]
  BY <1>1
<1>3. TypeOK'
  BY <1>2 DEF IInv, TypeOK
<1>4. SerialInv'
  <2>1. queue[ck].serial \in Nat
    BY <1>1, Queues
  <2>2. -1 <= queue[ck].serial /\ 0 <= queue[ck].serial
    BY <2>1, SMT
  <2> QED BY <1>2, <2>2 DEF IInv, SerialInv
<1>5. dec[ck] = "none"
  BY DEF IInv, SwitchInv
<1>6. OwnerInv'
  BY <1>2, <1>5 DEF IInv, OwnerInv
<1>7. SwitchInv'
  BY <1>2 DEF IInv, SwitchInv
<1> QED BY <1>3, <1>4, <1>6, <1>7 DEF IInv

LEMMA DecoderStartStep == IInv /\ DecoderStart => IInv'
<1> SUFFICES ASSUME IInv, DecoderStart PROVE IInv'
  OBVIOUS
<1> USE DEF DecoderStart
<1> DEFINE q == packet_queue_start(queue[ck])
<1>1. ck \in Kinds /\ queue' = [queue EXCEPT ![ck] = q]
  BY DEF IInv, TypeOK
<1>2. Sound(queue[ck]) /\ queue[ck].serial \in Nat
  BY <1>1, Queues
<1>3. Sound(q) /\ q.serial = queue[ck].serial + 1
  BY <1>2, StartLeaves
<1> HIDE DEF q
<1>4. q.serial >= queue[ck].serial
  BY <1>2, <1>3, SMT
<1>5. /\ queue' \in [Kinds -> PacketQueueType]
      /\ \A j \in Kinds : /\ Sound(queue'[j]) /\ queue'[j].serial \in Nat
                          /\ queue'[j].serial >= queue[j].serial
      /\ queue'[ck] = q /\ \A j \in Kinds \ {ck} : queue'[j] = queue[j]
  BY <1>1, <1>3, <1>4, QueueStep
<1>6. /\ dec' \in [Kinds -> DecoderState] /\ dec'[ck] = "top"
      /\ \A j \in Kinds \ {ck} : dec'[j] = dec[j]
  BY <1>1 DEF IInv, TypeOK, DecoderState
<1>7. TypeOK'
  BY <1>5, <1>6 DEF IInv, TypeOK, DecoderState
<1>8. SerialInv'
  BY <1>5, SerialKept
<1>9. finished[ck] = 0 /\ stream[ck] # None
  BY DEF IInv, SwitchInv
<1>10. OwnerInv'
  BY <1>5, <1>6, <1>9 DEF IInv, OwnerInv
<1>11. SwitchInv'
  BY DEF IInv, SwitchInv
<1> QED BY <1>7, <1>8, <1>10, <1>11 DEF IInv

LEMMA OpeningStep == IInv /\ Opening => IInv'
BY OpenFailsStep, OpenCodecStep, OpenStreamStep, DecoderInitStep, DecoderStartStep DEF Opening
-----------------------------------------------------------------------------
LEMMA Inductive == IInv /\ [Next]_vars => IInv'
<1> SUFFICES ASSUME IInv, [Next]_vars PROVE IInv'
  OBVIOUS
<1>1. CASE UNCHANGED vars
  <2>1. TypeOK' /\ SerialInv'
    BY <1>1 DEF IInv, TypeOK, SerialInv
  <2>2. OwnerInv' /\ SwitchInv'
    BY <1>1 DEF IInv, OwnerInv, SwitchInv
  <2> QED BY <2>1, <2>2 DEF IInv
<1>2. CASE Closing
  BY <1>2, CloseAbortsStep, CloseJoinsStep, CloseStep DEF Closing
<1>3. CASE \E k \in Kinds : DecoderThread(k) \/ TakeFrame(k) \/ CycleChannel(k)
  BY <1>3, DecoderStep, TakeStep, CycleStep
<1> QED BY <1>1, <1>2, <1>3, ReadStep, OpeningStep, FilterStep DEF Next

(* Decoders, serials and the steps of a switch fit together at every moment *)
(* (stream_component_close, stream_component_open, decoder_decode_frame).   *)
THEOREM Invariance == Spec => []IInv
BY InitInv, Inductive, PTL DEF Spec

(* The end that read_thread reads off a decoder's finished is that of the   *)
(* stream that is open, wherever in a switch it looks, for files of any     *)
(* length and any number of switches (read_thread, decoder_init,            *)
(* packet_queue_flush, packet_queue_start).                                *)
THEOREM EndIsOwn == Spec => []FinishedIsOwn
<1>1. IInv => FinishedIsOwn
  <2> SUFFICES ASSUME IInv, NEW k \in Kinds, finished[k] = queue[k].serial
               PROVE  drained[k] \/ finished[k] = 0
    BY DEF FinishedIsOwn
  <2>1. queue[k].serial \in Nat
    BY Queues
  <2>2. ~(finished[k] < queue[k].serial)
    BY <2>1, SMT
  <2> QED BY <2>2 DEF IInv, OwnerInv
<1> QED BY <1>1, Invariance, PTL
=============================================================================
