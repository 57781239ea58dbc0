--------------------------- MODULE Decoder_proofs ----------------------------
(***************************************************************************)
(* Proofs about Decoder, for any number of packets, flushes and openings   *)
(* and a codec that holds back any number of packets: the inductive        *)
(* invariant and the safety properties that follow from it.                *)
(***************************************************************************)
EXTENDS Decoder, Sequences_proofs

USE DEF vars, dvars

-----------------------------------------------------------------------------
(* What the operations of the packet queue leave behind.                   *)

LEMMA PutLeaves ==
  ASSUME NEW q \in PacketQueueType, NEW p \in AVPacket
  PROVE  LET r == packet_queue_put(q, p) IN
         /\ r \in PacketQueueType
         /\ r.abort_request = q.abort_request /\ r.serial = q.serial
         /\ q.abort_request => r = q
         /\ ~q.abort_request =>
              /\ r.nb_packets = q.nb_packets + 1
              /\ r.pkt_list = Append(q.pkt_list, [pkt |-> p, serial |-> q.serial])
<1> DEFINE e == [pkt |-> p, serial |-> q.serial]
<1>1. e \in MyAVPacketList /\ q.pkt_list \in Seq(MyAVPacketList)
  BY DEF PacketQueueType, MyAVPacketList
<1>2. Append(q.pkt_list, e) \in Seq(MyAVPacketList)
  BY <1>1
<1>3. q.nb_packets + 1 \in Nat /\ q.size + PacketBytes(p) + 1 \in Int
  BY SMT DEF PacketQueueType, PacketBytes, AVPacket
<1>4. packet_queue_put(q, p) \in PacketQueueType
  BY <1>2, <1>3, Zenon DEF packet_queue_put, PacketQueueType
<1> QED BY <1>4, SMT DEF packet_queue_put, PacketQueueType

LEMMA GetLeaves ==
  ASSUME NEW q \in PacketQueueType, CanGet(q), q.nb_packets = Len(q.pkt_list)
  PROVE  LET r == packet_queue_get(q) IN
         /\ r \in PacketQueueType
         /\ r.abort_request = q.abort_request /\ r.serial = q.serial
         /\ r.nb_packets = q.nb_packets - 1
         /\ r.pkt_list = Tail(q.pkt_list)
         /\ Got(q) \in MyAVPacketList /\ Got(q) = q.pkt_list[1]
<1>1. q.pkt_list \in Seq(MyAVPacketList) /\ q.pkt_list # <<>>
  BY DEF PacketQueueType, CanGet
<1>2. Got(q) \in MyAVPacketList /\ Got(q) = q.pkt_list[1]
  BY <1>1, SMT DEF Got
<1>3. Tail(q.pkt_list) \in Seq(MyAVPacketList)
  BY <1>1, SMT
<1>4. q.nb_packets - 1 \in Nat /\ q.size - (PacketBytes(Got(q).pkt) + 1) \in Int
  BY <1>1, SMT DEF PacketQueueType, PacketBytes
<1>5. packet_queue_get(q) \in PacketQueueType
  BY <1>3, <1>4, Zenon DEF packet_queue_get, PacketQueueType
<1> QED BY <1>2, <1>5, SMT DEF packet_queue_get, PacketQueueType

LEMMA FlushLeaves ==
  ASSUME NEW q \in PacketQueueType
  PROVE  LET r == packet_queue_flush(q) IN
         /\ r \in PacketQueueType
         /\ r.abort_request = q.abort_request /\ r.serial = q.serial + 1
         /\ r.nb_packets = 0 /\ r.pkt_list = <<>>
<1>1. q.serial + 1 \in Nat /\ 0 \in Nat /\ 0 \in Int /\ <<>> \in Seq(MyAVPacketList)
  BY DEF PacketQueueType
<1>2. packet_queue_flush(q) \in PacketQueueType
  BY <1>1, Zenon DEF packet_queue_flush, PacketQueueType
<1> QED BY <1>2, SMT DEF packet_queue_flush, PacketQueueType

LEMMA AbortLeaves ==
  ASSUME NEW q \in PacketQueueType
  PROVE  LET r == packet_queue_abort(q) IN
         /\ r \in PacketQueueType
         /\ r.abort_request /\ r.serial = q.serial
         /\ r.nb_packets = q.nb_packets /\ r.pkt_list = q.pkt_list
<1>1. packet_queue_abort(q) \in PacketQueueType
  BY Zenon DEF packet_queue_abort, PacketQueueType
<1> QED BY <1>1, SMT DEF packet_queue_abort, PacketQueueType

LEMMA StartLeaves ==
  ASSUME NEW q \in PacketQueueType
  PROVE  LET r == packet_queue_start(q) IN
         /\ r \in PacketQueueType
         /\ ~r.abort_request /\ r.serial = q.serial + 1
         /\ r.nb_packets = q.nb_packets /\ r.pkt_list = q.pkt_list
<1>1. q.serial + 1 \in Nat
  BY DEF PacketQueueType
<1>2. packet_queue_start(q) \in PacketQueueType
  BY <1>1, Zenon DEF packet_queue_start, PacketQueueType
<1> QED BY <1>2, SMT DEF packet_queue_start, PacketQueueType

(* The fields the properties compare are numbers and sequences.            *)
FieldTypes ==
  /\ queue.pkt_list \in Seq(MyAVPacketList) /\ queue.nb_packets \in Nat
  /\ queue.serial \in Nat /\ queue.abort_request \in BOOLEAN
  /\ \A i \in 1 .. Len(queue.pkt_list) : queue.pkt_list[i].pkt.id \in Nat
  /\ \A i \in 1 .. Len(codec) : codec[i].id \in Nat
  /\ pkt.id \in Nat /\ frame.id \in 0 .. MaxPackets

LEMMA Fields == TypeOK => FieldTypes
<1> SUFFICES ASSUME TypeOK PROVE FieldTypes
  OBVIOUS
<1>1. /\ queue.pkt_list \in Seq(MyAVPacketList) /\ queue.nb_packets \in Nat
      /\ queue.serial \in Nat /\ queue.abort_request \in BOOLEAN
  BY DEF TypeOK, PacketQueueType
<1>2. ASSUME NEW i \in 1 .. Len(queue.pkt_list) PROVE queue.pkt_list[i].pkt.id \in Nat
  <2>1. queue.pkt_list[i] \in MyAVPacketList
    BY <1>1, SMT
  <2> QED BY <2>1, DecoderAssumption, SMT DEF MyAVPacketList, AVPacket
<1>3. ASSUME NEW i \in 1 .. Len(codec) PROVE codec[i].id \in Nat
  <2>1. codec[i] \in CodecEntry
    BY SMT DEF TypeOK
  <2> QED BY <2>1, DecoderAssumption, SMT DEF CodecEntry
<1>4. pkt.id \in Nat /\ frame.id \in 0 .. MaxPackets
  BY DecoderAssumption, SMT DEF TypeOK, AVPacket, NoPacket, CodecEntry, NoFrame
<1> QED BY <1>1, <1>2, <1>3, <1>4 DEF FieldTypes
-----------------------------------------------------------------------------
(* The empty queue and the absent thread satisfy the invariant.            *)
LEMMA InitInv == Init => IInv
<1> SUFFICES ASSUME Init PROVE IInv
  OBVIOUS
<1>1. queue \in PacketQueueType /\ queue.abort_request /\ queue.pkt_list = <<>>
      /\ queue.nb_packets = 0
  <2>1. <<>> \in Seq(MyAVPacketList) /\ 0 \in Nat /\ 0 \in Int
    OBVIOUS
  <2>2. queue \in PacketQueueType
    BY <2>1, Zenon DEF Init, packet_queue_init, PacketQueueType
  <2> QED BY <2>2, SMT DEF Init, packet_queue_init
<1>2. TypeOK
  <2>1. <<>> \in Seq(CodecEntry) /\ 0 \in 0 .. MaxPackets /\ 0 \in Nat
    BY DecoderAssumption, SMT
  <2> QED BY <1>1, <2>1, Zenon DEF Init, TypeOK
<1> QED
  BY <1>1, <1>2, DecoderAssumption, SMT
  DEF Init, IInv, ThreadInv, LineInv, QueueOneSerial, OneSerial, CodecOneSerial,
      NoLostWakeup, Unsent, Latest, Younger, CodecAfter
-----------------------------------------------------------------------------
(* Taking and appending keep the packets in line.                          *)

LEMMA TailFacts ==
  ASSUME NEW S, NEW s \in Seq(S), s # <<>>
  PROVE  /\ Len(s) \in Nat \ {0} /\ Len(Tail(s)) = Len(s) - 1
         /\ \A i \in 1 .. Len(Tail(s)) : i + 1 \in 1 .. Len(s) /\ Tail(s)[i] = s[i + 1]
BY SMT

LEMMA AppendFacts ==
  ASSUME NEW S, NEW s \in Seq(S), NEW e \in S
  PROVE  /\ Len(s) \in Nat /\ Len(Append(s, e)) = Len(s) + 1
         /\ \A i \in 1 .. Len(s) : Append(s, e)[i] = s[i]
         /\ Append(s, e)[Len(s) + 1] = e
BY SMT

(* The packet fetched is older than those still listed and younger than    *)
(* those in the codec.                                                     *)
LEMMA FetchKeepsLine ==
  ASSUME IInv, FetchPacket
  PROVE  LineInv'
<1> DEFINE l == queue.pkt_list
           r == queue'.pkt_list
<1>1. /\ r = Tail(l) /\ l \in Seq(MyAVPacketList) /\ l # <<>> /\ pkt' = l[1].pkt
      /\ codec' = <<>> \/ codec' = codec
      /\ dpc' = "compare" /\ dpc = "fetch" /\ returned' = returned /\ puts' = puts
  BY GetLeaves DEF IInv, TypeOK, ThreadInv, FetchPacket, PacketQueueType, CanGet
<1>2. /\ Len(l) \in Nat \ {0} /\ Len(r) = Len(l) - 1
      /\ \A i \in 1 .. Len(r) : i + 1 \in 1 .. Len(l) /\ r[i] = l[i + 1]
  BY TailFacts, <1>1
<1>3. /\ \A i, j \in 1 .. Len(l) : i < j => l[i].pkt.id < l[j].pkt.id
      /\ \A i \in 1 .. Len(l) : l[i].pkt.id \in Nat /\ l[i].pkt.id <= puts
      /\ \A i \in 1 .. Len(l) : returned < l[i].pkt.id
      /\ \A i \in 1 .. Len(codec) :
           /\ codec[i].id \in Nat /\ codec[i].id <= puts /\ returned < codec[i].id
           /\ \A j \in 1 .. Len(codec) : i < j => codec[i].id < codec[j].id
           /\ \A j \in 1 .. Len(l) : codec[i].id < l[j].pkt.id
      /\ returned <= puts
  BY <1>1, Fields, Zenon DEF IInv, LineInv, Younger, CodecAfter, FieldTypes, Latest
<1>4. pkt'.id \in Nat /\ pkt'.id <= puts /\ returned < pkt'.id
  BY <1>1, <1>2, <1>3
<1>5. ASSUME NEW i \in 1 .. Len(r)
      PROVE  r[i].pkt.id <= puts /\ pkt'.id < r[i].pkt.id /\ returned < r[i].pkt.id
  BY <1>1, <1>2, <1>3
<1>6. ASSUME NEW i \in 1 .. Len(r), NEW j \in 1 .. Len(r), i < j
      PROVE  r[i].pkt.id < r[j].pkt.id
  <2>1. r[i] = l[i + 1] /\ r[j] = l[j + 1]
    BY <1>2
  <2>2. i + 1 \in 1 .. Len(l) /\ j + 1 \in 1 .. Len(l) /\ i + 1 < j + 1
    BY <1>2, <1>6
  <2> QED BY <2>1, <2>2, <1>3
<1>7. ASSUME NEW i \in 1 .. Len(codec')
      PROVE  /\ codec'[i].id <= puts /\ codec'[i].id < pkt'.id /\ returned < codec'[i].id
             /\ \A j \in 1 .. Len(codec') : i < j => codec'[i].id < codec'[j].id
             /\ \A j \in 1 .. Len(r) : codec'[i].id < r[j].pkt.id
  <2>1. codec' = codec
    BY <1>1
  <2> QED BY <2>1, <1>1, <1>2, <1>3
<1>8. Latest' = returned /\ Unsent'
  BY <1>1, Zenon DEF Latest, Unsent
<1> HIDE DEF l, r
<1> QED BY <1>1, <1>3, <1>4, <1>5, <1>6, <1>7, <1>8, Zenon DEF LineInv, Younger, CodecAfter, l, r

(* A packet put is the youngest.                                           *)
LEMMA PutKeepsLine ==
  ASSUME IInv, NEW data \in BOOLEAN, Put(data)
  PROVE  LineInv' /\ QueueOneSerial'
<1> DEFINE l == queue.pkt_list
           r == queue'.pkt_list
           p == [id |-> puts + 1, data |-> data]
           e == [pkt |-> p, serial |-> queue.serial]
<1>1. /\ p \in AVPacket /\ queue \in PacketQueueType /\ l \in Seq(MyAVPacketList)
      /\ queue' = packet_queue_put(queue, p)
      /\ codec' = codec /\ pkt' = pkt /\ frame' = frame /\ dpc' = dpc
      /\ packet_pending' = packet_pending /\ returned' = returned
      /\ puts \in Nat /\ puts' = puts + 1
  BY DecoderAssumption, SMT DEF IInv, TypeOK, Put, AVPacket, PacketQueueType
<1>2. e \in MyAVPacketList
  BY <1>1 DEF MyAVPacketList, PacketQueueType
<1>3. /\ r = l \/ r = Append(l, e)
      /\ queue'.serial = queue.serial
  BY <1>1, PutLeaves
<1>4. /\ Len(l) \in Nat /\ (Len(r) = Len(l) \/ Len(r) = Len(l) + 1)
      /\ \A i \in 1 .. Len(l) : r[i] = l[i]
      /\ Len(r) = Len(l) + 1 => r[Len(l) + 1].pkt.id = puts + 1
      /\ Len(r) = Len(l) + 1 => r[Len(l) + 1].serial = queue.serial
  <2>1. /\ Len(l) \in Nat /\ Len(Append(l, e)) = Len(l) + 1
        /\ \A i \in 1 .. Len(l) : Append(l, e)[i] = l[i]
        /\ Append(l, e)[Len(l) + 1] = e
    BY <1>1, <1>2, AppendFacts
  <2>2. e.pkt.id = puts + 1 /\ e.serial = queue.serial
    OBVIOUS
  <2> HIDE DEF e
  <2>3. CASE r = l
    BY <2>1, <2>3
  <2>4. CASE r = Append(l, e)
    BY <2>1, <2>2, <2>4
  <2> QED BY <2>3, <2>4, <1>3
<1>5. /\ \A i, j \in 1 .. Len(l) : i < j => l[i].pkt.id < l[j].pkt.id
      /\ \A i \in 1 .. Len(l) : l[i].pkt.id \in Nat /\ l[i].pkt.id <= puts
      /\ \A i \in 1 .. Len(l) : l[i].serial = queue.serial
      /\ \A i, j \in 1 .. Len(codec) : i < j => codec[i].id < codec[j].id
      /\ Latest <= puts /\ Latest \in Nat
      /\ \A i \in 1 .. Len(codec) : codec[i].id \in Nat /\ codec[i].id <= puts
      /\ Unsent => pkt.id \in Nat /\ pkt.id <= puts
  <2>1. Latest \in Nat
    BY DecoderAssumption, Fields, SMT DEF IInv, TypeOK, FieldTypes, Latest
  <2> QED
    BY <2>1, Fields, Zenon DEF IInv, LineInv, FieldTypes, QueueOneSerial, OneSerial
<1>6. /\ Younger(Latest) /\ CodecAfter(Latest) /\ (dpc = "return" => returned < frame.id)
      /\ \A i \in 1 .. Len(codec) : Younger(codec[i].id)
      /\ Unsent => /\ Younger(pkt.id) /\ Latest < pkt.id
                   /\ \A i \in 1 .. Len(codec) : codec[i].id < pkt.id
  BY Zenon DEF IInv, LineInv
<1>7. ASSUME NEW n \in Nat, n <= puts, Younger(n)
      PROVE  Younger(n)'
  <2> SUFFICES ASSUME NEW i \in 1 .. Len(r) PROVE n < r[i].pkt.id
    BY DEF Younger
  <2>1. CASE i \in 1 .. Len(l)
    BY <2>1, <1>4, <1>7 DEF Younger
  <2>2. CASE i = Len(l) + 1 /\ Len(r) = Len(l) + 1
    BY <2>2, <1>1, <1>4, <1>7
  <2> QED BY <2>1, <2>2, <1>4
<1>8. ASSUME NEW i \in 1 .. Len(r)
      PROVE  /\ r[i].pkt.id <= puts' /\ r[i].serial = queue.serial
             /\ \A j \in 1 .. Len(r) : i < j => r[i].pkt.id < r[j].pkt.id
  <2>1. CASE i \in 1 .. Len(l)
    <3>1. r[i].pkt.id <= puts' /\ r[i].serial = queue.serial
      BY <2>1, <1>1, <1>4, <1>5, SMTT(30)
    <3>2. ASSUME NEW j \in 1 .. Len(r), i < j PROVE r[i].pkt.id < r[j].pkt.id
      <4>1. CASE j \in 1 .. Len(l)
        BY <4>1, <2>1, <3>2, <1>4, <1>5
      <4>2. CASE j = Len(l) + 1 /\ Len(r) = Len(l) + 1
        BY <4>2, <2>1, <1>1, <1>4, <1>5, SMTT(30)
      <4> QED BY <4>1, <4>2, <1>4
    <3> QED BY <3>1, <3>2
  <2>2. CASE i = Len(l) + 1 /\ Len(r) = Len(l) + 1
    BY <2>2, <1>1, <1>4
  <2> QED BY <2>1, <2>2, <1>4
<1>9. Latest' = Latest /\ Unsent' = Unsent
  BY <1>1 DEF Latest, Unsent
<1>10. /\ Younger(Latest)' /\ CodecAfter(Latest)'
       /\ \A i \in 1 .. Len(codec') : codec'[i].id <= puts' /\ Younger(codec[i].id)'
       /\ Unsent => Younger(pkt.id)' /\ pkt.id <= puts'
       /\ Latest <= puts'
  <2>1. Younger(Latest)'
    BY <1>5, <1>6, <1>7, <1>9
  <2>2. CodecAfter(Latest)'
    BY <1>1, <1>6, <1>9 DEF CodecAfter
  <2>3. \A i \in 1 .. Len(codec') : codec'[i].id <= puts' /\ Younger(codec[i].id)'
    BY <1>1, <1>5, <1>6, <1>7
  <2>4. Unsent => Younger(pkt.id)' /\ pkt.id <= puts'
    BY <1>1, <1>5, <1>6, <1>7
  <2> QED BY <2>1, <2>2, <2>3, <2>4, <1>1, <1>5
<1>11. LineInv'
  BY <1>1, <1>5, <1>6, <1>8, <1>9, <1>10, Zenon DEF LineInv
<1>12. QueueOneSerial'
  BY <1>3, <1>8 DEF QueueOneSerial, OneSerial
<1> QED BY <1>11, <1>12

(* A frame that is returned moves the floor up, one that is dropped because *)
(* the queue was aborted leaves it.                                         *)
LEMMA ReturnKeepsLine ==
  ASSUME IInv, ReturnFrame
  PROVE  LineInv'
<1>1. /\ queue' = queue /\ codec' = codec /\ pkt' = pkt /\ frame' = frame /\ puts' = puts
      /\ packet_pending' = packet_pending /\ dpc = "return" /\ dpc' \in {"check", "exit"}
      /\ returned' \in {returned, frame.id}
  BY DEF ReturnFrame
<1>2. FieldTypes /\ returned \in Nat /\ puts \in Nat
  BY Fields, DecoderAssumption, SMT DEF IInv, TypeOK
<1>3. /\ Latest = frame.id /\ returned < frame.id /\ frame.id \in Nat
      /\ Latest' \in {returned, frame.id} /\ (Unsent' <=> Unsent)
  BY <1>1, <1>2, DecoderAssumption, SMT DEF Latest, Unsent, IInv, LineInv, FieldTypes
<1>4. Latest' <= puts
  BY <1>2, <1>3, SMT DEF IInv, LineInv
<1>5. ASSUME NEW n \in Nat, Latest < n PROVE Latest' < n
  BY <1>2, <1>3, <1>5, SMT
<1>6. Younger(Latest)' /\ CodecAfter(Latest)' /\ (Unsent => Latest' < pkt.id)
  BY <1>1, <1>2, <1>5 DEF IInv, LineInv, FieldTypes, Younger, CodecAfter
<1>7. \A i \in 1 .. Len(codec) : Younger(codec[i].id)'
  BY <1>1 DEF IInv, LineInv, Younger
<1>8. Unsent => Younger(pkt.id)'
  BY <1>1 DEF IInv, LineInv, Younger
<1> QED
  BY <1>1, <1>3, <1>4, <1>6, <1>7, <1>8, Zenon DEF IInv, LineInv
(* The frame received is the oldest in the codec.                          *)
LEMMA ReceiveKeepsLine ==
  ASSUME IInv, ReceiveFrame
  PROVE  LineInv'
<1>1. /\ queue' = queue /\ pkt' = pkt /\ puts' = puts /\ packet_pending' = packet_pending
      /\ dpc = "receive" /\ dpc' = "return" /\ returned' = returned
      /\ codec \in Seq(CodecEntry) /\ codec # <<>>
      /\ codec' = Tail(codec) /\ frame' = codec[1]
  BY SMT DEF IInv, TypeOK, ReceiveFrame
<1>2. /\ Len(codec) \in Nat \ {0} /\ Len(codec') = Len(codec) - 1
      /\ \A i \in 1 .. Len(codec') : i + 1 \in 1 .. Len(codec) /\ codec'[i] = codec[i + 1]
  BY <1>1, TailFacts
<1>3. /\ \A i, j \in 1 .. Len(codec) : i < j => codec[i].id < codec[j].id
      /\ \A i \in 1 .. Len(codec) :
           /\ codec[i].id \in Nat /\ codec[i].id <= puts /\ returned < codec[i].id
           /\ Younger(codec[i].id)
      /\ Unsent => /\ pkt.id <= puts /\ Younger(pkt.id)
                   /\ \A i \in 1 .. Len(codec) : codec[i].id < pkt.id
      /\ \A i, j \in 1 .. Len(queue.pkt_list) :
           i < j => queue.pkt_list[i].pkt.id < queue.pkt_list[j].pkt.id
      /\ \A i \in 1 .. Len(queue.pkt_list) : queue.pkt_list[i].pkt.id <= puts
  BY <1>1, Fields, Zenon DEF IInv, LineInv, CodecAfter, Latest, FieldTypes
<1>4. Latest' = codec[1].id /\ (Unsent' <=> Unsent)
  BY <1>1 DEF Latest, Unsent
<1>5. ASSUME NEW n PROVE Younger(n)' <=> Younger(n)
  BY <1>1 DEF Younger
<1>6. 1 \in 1 .. Len(codec)
  BY <1>2
<1>7. ASSUME NEW i \in 1 .. Len(codec')
      PROVE  /\ codec'[i].id <= puts /\ Younger(codec'[i].id) /\ codec[1].id < codec'[i].id
             /\ Unsent => codec'[i].id < pkt.id
             /\ \A j \in 1 .. Len(codec') : i < j => codec'[i].id < codec'[j].id
  <2>1. i + 1 \in 1 .. Len(codec) /\ codec'[i] = codec[i + 1] /\ 1 < i + 1
    BY <1>2
  <2>2. ASSUME NEW j \in 1 .. Len(codec'), i < j PROVE codec'[i].id < codec'[j].id
    <3>1. j + 1 \in 1 .. Len(codec) /\ codec'[j] = codec[j + 1] /\ i + 1 < j + 1
      BY <1>2, <2>2
    <3> QED BY <2>1, <3>1, <1>3
  <2> QED BY <2>1, <2>2, <1>3, <1>6
<1> QED
  BY <1>1, <1>3, <1>4, <1>5, <1>6, <1>7, Zenon DEF LineInv, CodecAfter

(* The packet sent is the youngest in the codec.                           *)
LEMMA SendKeepsLine ==
  ASSUME IInv, SendPacket
  PROVE  LineInv'
<1> DEFINE e == [id |-> pkt.id, serial |-> pkt_serial]
<1>1. /\ queue' = queue /\ pkt' = pkt /\ frame' = frame /\ puts' = puts
      /\ packet_pending' = packet_pending /\ dpc = "send" /\ dpc' = "check"
      /\ returned' = returned /\ codec \in Seq(CodecEntry)
  BY DEF IInv, TypeOK, SendPacket
<1>2. ~Unsent' /\ Unsent /\ Latest = returned /\ Latest' = returned
  BY <1>1, Zenon DEF Unsent, Latest, IInv, ThreadInv
<1>3. /\ \A i, j \in 1 .. Len(codec) : i < j => codec[i].id < codec[j].id
      /\ \A i \in 1 .. Len(codec) :
           /\ codec[i].id \in Nat /\ codec[i].id <= puts /\ returned < codec[i].id
           /\ Younger(codec[i].id) /\ codec[i].id < pkt.id
      /\ pkt.id <= puts /\ Younger(pkt.id) /\ returned < pkt.id
      /\ returned <= puts /\ Younger(returned) /\ pkt.id \in Nat
      /\ \A i, j \in 1 .. Len(queue.pkt_list) :
           i < j => queue.pkt_list[i].pkt.id < queue.pkt_list[j].pkt.id
      /\ \A i \in 1 .. Len(queue.pkt_list) : queue.pkt_list[i].pkt.id <= puts
  BY <1>2, Fields, Zenon DEF IInv, LineInv, CodecAfter, FieldTypes
<1>5. ASSUME NEW n PROVE Younger(n)' <=> Younger(n)
  BY <1>1 DEF Younger
<1>6. CASE codec' = codec
  BY <1>1, <1>2, <1>3, <1>5, <1>6, Zenon DEF LineInv, CodecAfter
<1>7. CASE pkt.data /\ codec' = Append(codec, e)
  <2>1. e \in CodecEntry
    BY <1>1, <1>7, SMT DEF IInv, TypeOK, ThreadInv, Unsent, AVPacket, CodecEntry, NoPacket
  <2>2. /\ Len(codec) \in Nat /\ Len(codec') = Len(codec) + 1
        /\ \A i \in 1 .. Len(codec) : codec'[i] = codec[i]
        /\ codec'[Len(codec) + 1] = e
    BY <1>1, <1>7, <2>1, AppendFacts
  <2>3. e.id = pkt.id
    OBVIOUS
  <2> HIDE DEF e
  <2>4. ASSUME NEW i \in 1 .. Len(codec')
        PROVE  /\ codec'[i].id <= puts /\ Younger(codec'[i].id) /\ returned < codec'[i].id
               /\ \A j \in 1 .. Len(codec') : i < j => codec'[i].id < codec'[j].id
    <3>1. CASE i \in 1 .. Len(codec)
      <4>1. ASSUME NEW j \in 1 .. Len(codec'), i < j PROVE codec'[i].id < codec'[j].id
        <5>1. CASE j \in 1 .. Len(codec)
          BY <3>1, <4>1, <5>1, <2>2, <1>3
        <5>2. CASE j = Len(codec) + 1
          BY <3>1, <5>2, <2>2, <2>3, <1>3
        <5> QED BY <5>1, <5>2, <2>2
      <4> QED BY <3>1, <4>1, <2>2, <1>3
    <3>2. CASE i = Len(codec) + 1
      BY <3>2, <2>2, <2>3, <1>3
    <3> QED BY <3>1, <3>2, <2>2
  <2> QED BY <1>1, <1>2, <1>3, <1>5, <2>4, Zenon DEF LineInv, CodecAfter
<1> QED BY <1>6, <1>7 DEF SendPacket

-----------------------------------------------------------------------------
(* The decoder thread keeps the invariant.                                 *)
LEMMA ThreadKeeps ==
  ASSUME IInv, DecoderThread
  PROVE  IInv'
<1>f. FieldTypes
  BY Fields DEF IInv
<1> USE DecoderAssumption
    DEF IInv, TypeOK, ThreadInv, LineInv, QueueOneSerial, OneSerial, CodecOneSerial,
        NoLostWakeup, Unsent, Latest, Younger, CodecAfter, CanGet, MustWait, FieldTypes
<1>1. CASE CheckSerial
  <2>1. TypeOK'
    BY <1>f, <1>1, SMT DEF CheckSerial
  <2>2. (ThreadInv /\ NoLostWakeup)'
    BY <1>f, <1>1, SMT DEF CheckSerial
  <2>3. QueueOneSerial'
    BY <1>f, <1>1, SMT DEF CheckSerial
  <2>4. CodecOneSerial'
    BY <1>f, <1>1, SMT DEF CheckSerial
  <2>5. LineInv'
    BY <1>f, <1>1, SMT DEF CheckSerial
  <2> QED BY <2>1, <2>2, <2>3, <2>4, <2>5
<1>2. CASE ReceiveAborted
  BY <1>f, <1>2, SMT DEF ReceiveAborted
<1>3. CASE ReceiveFrame
  <2>1. TypeOK'
    BY <1>f, <1>3, SMT DEF ReceiveFrame
  <2>2. (ThreadInv /\ NoLostWakeup)'
    BY <1>f, <1>3, SMT DEF ReceiveFrame
  <2>3. QueueOneSerial'
    BY <1>f, <1>3, SMT DEF ReceiveFrame
  <2>4. CodecOneSerial'
    BY <1>f, <1>3, SMT DEF ReceiveFrame
  <2>5. LineInv'
    BY ReceiveKeepsLine, <1>3
  <2> QED BY <2>1, <2>2, <2>3, <2>4, <2>5
<1>4. CASE ReceiveError
  <2>1. TypeOK'
    BY <1>f, <1>4, SMT DEF ReceiveError
  <2>2. (ThreadInv /\ NoLostWakeup)'
    BY <1>f, <1>4, SMT DEF ReceiveError
  <2>3. QueueOneSerial'
    BY <1>f, <1>4, SMT DEF ReceiveError
  <2>4. CodecOneSerial'
    BY <1>f, <1>4, SMT DEF ReceiveError
  <2>5. LineInv'
    <3>1. /\ Len(codec) \in Nat \ {0} /\ Len(codec') = Len(codec) - 1
          /\ \A i \in 1 .. Len(codec') : i + 1 \in 1 .. Len(codec) /\ codec'[i] = codec[i + 1]
      BY TailFacts, <1>4 DEF ReceiveError
    <3> QED BY <1>f, <3>1, <1>4, SMT DEF ReceiveError
  <2> QED BY <2>1, <2>2, <2>3, <2>4, <2>5
<1>5. CASE ReceiveEof
  <2>1. TypeOK'
    <3>1. pkt_serial \in Nat
      BY <1>5, SMT DEF ReceiveEof
    <3> QED BY <3>1, <1>5, Zenon DEF ReceiveEof
  <2>2. (ThreadInv /\ NoLostWakeup)'
    BY <1>f, <1>5, SMT DEF ReceiveEof
  <2>3. QueueOneSerial'
    BY <1>f, <1>5, SMT DEF ReceiveEof
  <2>4. CodecOneSerial'
    BY <1>f, <1>5, SMT DEF ReceiveEof
  <2>5. LineInv'
    BY <1>f, <1>5, SMT DEF ReceiveEof
  <2> QED BY <2>1, <2>2, <2>3, <2>4, <2>5
<1>6. CASE ReceiveAgain
  BY <1>f, <1>6, SMT DEF ReceiveAgain
<1>7. CASE FetchPending
  <2>1. TypeOK'
    BY <1>7, Zenon DEF FetchPending
  <2>2. (ThreadInv /\ NoLostWakeup)'
    BY <1>f, <1>7, SMT DEF FetchPending
  <2>3. QueueOneSerial'
    BY <1>f, <1>7, SMT DEF FetchPending
  <2>4. CodecOneSerial'
    BY <1>f, <1>7, SMT DEF FetchPending
  <2>5. LineInv'
    BY <1>f, <1>7, SMT DEF FetchPending
  <2> QED BY <2>1, <2>2, <2>3, <2>4, <2>5
<1>8. CASE FetchAborted
  BY <1>f, <1>8, SMT DEF FetchAborted
<1>9. CASE FetchWaits
  BY <1>f, <1>9, SMT DEF FetchWaits
<1>10. CASE FetchPacket
  <2>1. /\ queue' \in PacketQueueType
        /\ queue'.abort_request = queue.abort_request /\ queue'.serial = queue.serial
        /\ queue'.nb_packets = queue.nb_packets - 1
        /\ queue'.pkt_list = Tail(queue.pkt_list)
        /\ Got(queue) \in MyAVPacketList /\ Got(queue) = queue.pkt_list[1]
    BY GetLeaves, <1>10 DEF FetchPacket
  <2>2. TypeOK'
    <3>1. pkt' \in AVPacket /\ pkt_serial' \in Nat
      BY <2>1, <1>10, SMT DEF FetchPacket, MyAVPacketList
    <3>2. codec' \in Seq(CodecEntry) /\ finished' \in Nat
      <4>1. <<>> \in Seq(CodecEntry) /\ 0 \in Nat
        OBVIOUS
      <4> QED BY <4>1, <1>10, Zenon DEF FetchPacket
    <3>3. draining' \in BOOLEAN
      BY <1>10, Zenon DEF FetchPacket
    <3> QED BY <2>1, <3>1, <3>2, <3>3, <1>10, Zenon DEF FetchPacket
  <2>3. (ThreadInv /\ NoLostWakeup)'
    BY <2>1, <1>f, <1>10, SMTT(30) DEF FetchPacket
  <2>4. QueueOneSerial'
    BY <2>1, <1>f, <1>10, SMT DEF FetchPacket
  <2>5. CodecOneSerial'
    BY <2>1, <1>f, <1>10, SMTT(30) DEF FetchPacket
  <2>6. LineInv'
    BY FetchKeepsLine, <1>10
  <2> QED BY <2>2, <2>3, <2>4, <2>5, <2>6
<1>11. CASE CompareSerial
  BY <1>f, <1>11, SMT DEF CompareSerial
<1>12. CASE SendPacket
  <2>1. TypeOK'
    <3>1. codec' \in Seq(CodecEntry)
      <4>1. CASE pkt.data /\ ~draining
        <5>1. pkt \in AVPacket /\ pkt_serial \in Nat
          BY <4>1, <1>12, SMT DEF SendPacket, NoPacket
        <5>2. [id |-> pkt.id, serial |-> pkt_serial] \in CodecEntry
          BY <5>1, SMT DEF AVPacket, CodecEntry
        <5> QED BY <5>2, <4>1, <1>12, SMT DEF SendPacket
      <4> QED BY <4>1, <1>12, SMT DEF SendPacket
    <3>2. draining' \in BOOLEAN
      BY <1>12, Zenon DEF SendPacket
    <3> QED BY <3>1, <3>2, <1>12, Zenon DEF SendPacket
  <2>2. (ThreadInv /\ NoLostWakeup)'
    BY <1>f, <1>12, SMT DEF SendPacket
  <2>3. QueueOneSerial'
    BY <1>f, <1>12, SMT DEF SendPacket
  <2>4. CodecOneSerial'
    BY <1>f, <1>12, SMTT(30) DEF SendPacket
  <2>5. LineInv'
    BY SendKeepsLine, <1>12
  <2> QED BY <2>1, <2>2, <2>3, <2>4, <2>5
<1>13. CASE SendRefused
  BY <1>f, <1>13, SMT DEF SendRefused
<1>14. CASE ReturnFrame
  <2>1. TypeOK'
    BY <1>f, <1>14, SMT DEF ReturnFrame
  <2>2. (ThreadInv /\ NoLostWakeup)'
    BY <1>f, <1>14, SMT DEF ReturnFrame
  <2>3. QueueOneSerial'
    BY <1>f, <1>14, SMT DEF ReturnFrame
  <2>4. CodecOneSerial'
    BY <1>f, <1>14, SMT DEF ReturnFrame
  <2>5. LineInv'
    BY ReturnKeepsLine, <1>14
  <2> QED BY <2>1, <2>2, <2>3, <2>4, <2>5
<1> QED BY <1>1, <1>2, <1>3, <1>4, <1>5, <1>6, <1>7, <1>8, <1>9, <1>10, <1>11, <1>12, <1>13, <1>14
  DEF DecoderThread

(* read_thread and the closing thread keep it.                             *)
LEMMA OthersKeep ==
  ASSUME IInv, OtherThreads \/ SpuriousWakeup
  PROVE  IInv'
<1>f. FieldTypes
  BY Fields DEF IInv
<1>q. queue \in PacketQueueType
  BY DEF IInv, TypeOK
<1> USE DecoderAssumption
    DEF IInv, TypeOK, ThreadInv, LineInv, QueueOneSerial, OneSerial, CodecOneSerial,
        NoLostWakeup, Unsent, Latest, Younger, CodecAfter, CanGet, MustWait, FieldTypes
<1>1. ASSUME NEW data \in BOOLEAN, Put(data) PROVE IInv'
  <2>1. [id |-> puts + 1, data |-> data] \in AVPacket
    BY <1>1, SMT DEF Put, AVPacket
  <2>2. /\ queue' \in PacketQueueType
        /\ queue'.abort_request = queue.abort_request /\ queue'.serial = queue.serial
        /\ queue.abort_request => queue' = queue
        /\ ~queue.abort_request =>
             /\ queue'.nb_packets = queue.nb_packets + 1
             /\ queue'.pkt_list = Append(queue.pkt_list,
                                        [pkt |-> [id |-> puts + 1, data |-> data],
                                         serial |-> queue.serial])
    BY PutLeaves, <2>1, <1>q, <1>1 DEF Put
  <2>3. QueueOneSerial'
    BY PutKeepsLine, <1>1
  <2>4. TypeOK'
    BY <2>2, <1>f, <1>1, SMT DEF Put
  <2>5. (ThreadInv /\ NoLostWakeup)'
    BY <2>2, <1>f, <1>1, SMT DEF Put
  <2>7. CodecOneSerial'
    BY <2>2, <1>f, <1>1, SMT DEF Put
  <2>8. LineInv'
    BY PutKeepsLine, <1>1
  <2> QED BY <2>3, <2>4, <2>5, <2>7, <2>8
<1>2. CASE FlushPackets
  <2>1. /\ queue' \in PacketQueueType
        /\ queue'.abort_request = queue.abort_request /\ queue'.serial = queue.serial + 1
        /\ queue'.nb_packets = 0 /\ queue'.pkt_list = <<>>
    BY FlushLeaves, <1>q, <1>2 DEF FlushPackets
  <2>2. TypeOK'
    BY <2>1, <1>f, <1>2, SMT DEF FlushPackets
  <2>3. (ThreadInv /\ NoLostWakeup)'
    BY <2>1, <1>f, <1>2, SMT DEF FlushPackets
  <2>4. QueueOneSerial'
    BY <2>1, <1>f, <1>2, SMT DEF FlushPackets
  <2>5. CodecOneSerial'
    BY <2>1, <1>f, <1>2, SMT DEF FlushPackets
  <2>6. LineInv'
    BY <2>1, <1>f, <1>2, SMT DEF FlushPackets
  <2> QED BY <2>2, <2>3, <2>4, <2>5, <2>6
<1>3. CASE AbortPackets
  <2>1. /\ queue' \in PacketQueueType
        /\ queue'.abort_request /\ queue'.serial = queue.serial
        /\ queue'.nb_packets = queue.nb_packets /\ queue'.pkt_list = queue.pkt_list
    BY AbortLeaves, <1>q, <1>3 DEF AbortPackets
  <2>2. TypeOK'
    BY <2>1, <1>3, Zenon DEF AbortPackets
  <2>3. (ThreadInv /\ NoLostWakeup)'
    BY <2>1, <1>f, <1>3, SMT DEF AbortPackets
  <2>4. QueueOneSerial'
    BY <2>1, <1>f, <1>3, SMT DEF AbortPackets
  <2>5. CodecOneSerial'
    BY <2>1, <1>f, <1>3, SMT DEF AbortPackets
  <2>6. LineInv'
    BY <2>1, <1>f, <1>3, SMT DEF AbortPackets
  <2> QED BY <2>2, <2>3, <2>4, <2>5, <2>6
<1>4. CASE JoinAndFlush
  <2>1. /\ queue' \in PacketQueueType
        /\ queue'.abort_request = queue.abort_request /\ queue'.serial = queue.serial + 1
        /\ queue'.nb_packets = 0 /\ queue'.pkt_list = <<>>
    BY FlushLeaves, <1>q, <1>4 DEF JoinAndFlush
  <2>2. TypeOK'
    BY <2>1, <1>f, <1>4, SMT DEF JoinAndFlush
  <2>3. (ThreadInv /\ NoLostWakeup)'
    BY <2>1, <1>f, <1>4, SMT DEF JoinAndFlush
  <2>4. QueueOneSerial'
    BY <2>1, <1>f, <1>4, SMT DEF JoinAndFlush
  <2>5. CodecOneSerial'
    BY <2>1, <1>f, <1>4, SMT DEF JoinAndFlush
  <2>6. LineInv'
    BY <2>1, <1>f, <1>4, SMT DEF JoinAndFlush
  <2> QED BY <2>2, <2>3, <2>4, <2>5, <2>6
<1>5. CASE Open
  <2>1. /\ queue' \in PacketQueueType
        /\ ~queue'.abort_request /\ queue'.serial = queue.serial + 1
        /\ queue'.nb_packets = queue.nb_packets /\ queue'.pkt_list = queue.pkt_list
    BY StartLeaves, <1>q, <1>5 DEF Open
  <2>2. TypeOK'
    <3>1. <<>> \in Seq(CodecEntry) /\ 0 \in Nat
      OBVIOUS
    <3> QED BY <2>1, <3>1, <1>5, Zenon DEF Open
  <2>3. (ThreadInv /\ NoLostWakeup)'
    BY <2>1, <1>f, <1>5, SMT DEF Open
  <2>4. QueueOneSerial'
    BY <2>1, <1>f, <1>5, SMT DEF Open
  <2>5. CodecOneSerial'
    BY <2>1, <1>f, <1>5, SMT DEF Open
  <2>6. LineInv'
    BY <2>1, <1>f, <1>5, SMT DEF Open
  <2> QED BY <2>2, <2>3, <2>4, <2>5, <2>6
<1>6. CASE SpuriousWakeup
  <2>1. TypeOK'
    BY <1>6, Zenon DEF SpuriousWakeup
  <2> QED BY <2>1, <1>f, <1>6, SMT DEF SpuriousWakeup
<1> QED BY <1>1, <1>2, <1>3, <1>4, <1>5, <1>6 DEF OtherThreads
-----------------------------------------------------------------------------
(* At every step, under any interleaving of seeks, aborts and reopenings,   *)
(* the decoder and its queue satisfy the inductive invariant.               *)
THEOREM Invariance == Spec => []IInv
<1>1. IInv /\ [Next]_vars => IInv'
  <2> SUFFICES ASSUME IInv, [Next]_vars PROVE IInv'
    OBVIOUS
  <2>1. CASE Next
    BY <2>1, ThreadKeeps, OthersKeep DEF Next
  <2>2. CASE UNCHANGED vars
    <3>1. TypeOK' /\ (ThreadInv /\ NoLostWakeup)'
      BY <2>2 DEF IInv, TypeOK, ThreadInv, NoLostWakeup, MustWait, Unsent
    <3>2. QueueOneSerial' /\ CodecOneSerial'
      BY <2>2 DEF IInv, QueueOneSerial, OneSerial, CodecOneSerial
    <3>3. LineInv'
      BY <2>2 DEF IInv, LineInv, Younger, CodecAfter, Unsent, Latest
    <3> QED BY <3>1, <3>2, <3>3 DEF IInv
  <2> QED BY <2>1, <2>2
<1> QED BY InitInv, <1>1, PTL DEF Spec

(* The variables stay in their types.                                       *)
THEOREM TypeCorrect == Spec => []TypeOK
<1>1. IInv => TypeOK
  BY DEF IInv
<1> QED BY Invariance, <1>1, PTL

(* No packet of an earlier stretch is ever listed.                          *)
THEOREM QueueSerial == Spec => []QueueOneSerial
<1>1. IInv => QueueOneSerial
  BY DEF IInv
<1> QED BY Invariance, <1>1, PTL

(* The codec holds packets of one stretch, and a frame is labelled with the *)
(* stretch of its packet.                                                   *)
THEOREM CodecSerial == Spec => []CodecOneSerial
<1>1. IInv => CodecOneSerial
  BY DEF IInv
<1> QED BY Invariance, <1>1, PTL

(* The thread sleeps only while there is nothing to get and no abort.       *)
THEOREM Wakeup == Spec => []NoLostWakeup
<1>1. IInv => NoLostWakeup
  BY DEF IInv
<1> QED BY Invariance, <1>1, PTL

(* Frames are returned in the order of their packets, none twice.           *)
THEOREM FramesInOrder == Spec => ReturnedInOrder
<1>1. IInv => (dpc = "return" /\ dpc' = "check" => frame.id > returned)
  <2> SUFFICES ASSUME IInv, dpc = "return" PROVE frame.id > returned
    OBVIOUS
  <2>1. returned \in Nat /\ frame.id \in Nat
    BY Fields, DecoderAssumption, SMT DEF IInv, TypeOK, FieldTypes
  <2> QED BY <2>1, SMT DEF IInv, LineInv
<1>2. Spec => []IInv
  BY Invariance
<1> QED BY <1>1, <1>2, PTL DEF ReturnedInOrder

-----------------------------------------------------------------------------
(* What a list takes when a packet comes or goes.                          *)

Sizes(l) == [i \in 1 .. Len(l) |-> PacketBytes(l[i].pkt) + 1]

LEMMA SizesType ==
  ASSUME NEW l \in Seq(MyAVPacketList)
  PROVE  Sizes(l) \in Seq(Nat) /\ ListedBytes(l) = Total(Sizes(l))
<1>1. \A i \in 1 .. Len(l) : PacketBytes(l[i].pkt) + 1 \in Nat
  BY SMT DEF PacketBytes
<1>2. Len(l) \in Nat
  OBVIOUS
<1>3. Sizes(l) \in Seq(Nat)
  BY <1>1, <1>2, SMT DEF Sizes
<1> QED BY <1>3 DEF Sizes, ListedBytes

LEMMA ListedAppend ==
  ASSUME NEW l \in Seq(MyAVPacketList), NEW e \in MyAVPacketList
  PROVE  ListedBytes(Append(l, e)) = ListedBytes(l) + PacketBytes(e.pkt) + 1
<1>1. PacketBytes(e.pkt) \in Nat /\ Append(l, e) \in Seq(MyAVPacketList)
  BY SMT DEF PacketBytes
<1>2. Sizes(Append(l, e)) = Append(Sizes(l), PacketBytes(e.pkt) + 1)
  BY SMT DEF Sizes
<1>3. Sizes(l) \in Seq(Nat) /\ PacketBytes(e.pkt) + 1 \in Nat
  BY <1>1, SizesType
<1>4. Total(Sizes(Append(l, e))) = Total(Sizes(l)) + (PacketBytes(e.pkt) + 1)
  BY <1>2, <1>3, TotalAppend
<1>5. Total(Sizes(l)) \in Nat
  BY <1>3, TotalType
<1>6. ListedBytes(l) = Total(Sizes(l)) /\ ListedBytes(Append(l, e)) = Total(Sizes(Append(l, e)))
  BY <1>1, SizesType
<1> QED BY <1>1, <1>4, <1>5, <1>6

LEMMA ListedTail ==
  ASSUME NEW l \in Seq(MyAVPacketList), l # <<>>
  PROVE  ListedBytes(Tail(l)) = ListedBytes(l) - (PacketBytes(l[1].pkt) + 1)
<1>1. Tail(l) \in Seq(MyAVPacketList)
  BY SMT
<1>2. Sizes(l) \in Seq(Nat) /\ Sizes(l) # <<>>
  <2>1. Len(l) \in Nat /\ Len(l) # 0
    BY SMT
  <2>2. Len(Sizes(l)) = Len(l)
    BY <2>1, SMT DEF Sizes
  <2>3. Len(<<>>) = 0
    OBVIOUS
  <2> QED BY <2>1, <2>2, <2>3, SizesType
<1>3. Sizes(Tail(l)) = Tail(Sizes(l)) /\ Head(Sizes(l)) = PacketBytes(l[1].pkt) + 1
  BY SMT DEF Sizes
<1>4. Total(Sizes(Tail(l))) = Total(Sizes(l)) - (PacketBytes(l[1].pkt) + 1)
  BY <1>2, <1>3, TotalTail
<1> QED BY <1>1, <1>4, SizesType

LEMMA ListedNone == ListedBytes(<<>>) = 0
<1>1. [i \in 1 .. Len(<<>>) |-> PacketBytes(<<>>[i].pkt) + 1] = <<>>
  OBVIOUS
<1> QED BY <1>1, TotalEmpty DEF ListedBytes

-----------------------------------------------------------------------------
(* Each operation keeps a queue's counters in step with its list.           *)

LEMMA PutCounts ==
  ASSUME NEW q \in PacketQueueType, NEW p \in AVPacket, Counted(q)
  PROVE  Counted(packet_queue_put(q, p))
<1>1. CASE q.abort_request
  BY <1>1 DEF packet_queue_put
<1>2. CASE ~q.abort_request
  <2> DEFINE e == [pkt |-> p, serial |-> q.serial]
             r == packet_queue_put(q, p)
  <2>1. e \in MyAVPacketList /\ q.pkt_list \in Seq(MyAVPacketList) /\ e.pkt = p
    BY DEF PacketQueueType, MyAVPacketList
  <2>2. /\ r.pkt_list = Append(q.pkt_list, e) /\ r.nb_packets = q.nb_packets + 1
        /\ r.size = q.size + PacketBytes(p) + 1
    BY <1>2, SMT DEF packet_queue_put, PacketQueueType
  <2>3. ListedBytes(r.pkt_list) = ListedBytes(q.pkt_list) + PacketBytes(p) + 1
    BY <2>1, <2>2, ListedAppend, Zenon
  <2>4. Len(r.pkt_list) = Len(q.pkt_list) + 1
    BY <2>1, <2>2, SMT
  <2> QED BY <2>2, <2>3, <2>4, Zenon DEF Counted
<1> QED BY <1>1, <1>2

LEMMA GetCounts ==
  ASSUME NEW q \in PacketQueueType, CanGet(q), Counted(q)
  PROVE  Counted(packet_queue_get(q))
<1> DEFINE r == packet_queue_get(q)
<1>1. q.pkt_list \in Seq(MyAVPacketList) /\ q.pkt_list # <<>>
  BY DEF PacketQueueType, CanGet
<1>2. Got(q) = q.pkt_list[1]
  BY <1>1, SMT DEF Got
<1>3. /\ r.pkt_list = Tail(q.pkt_list) /\ r.nb_packets = q.nb_packets - 1
      /\ r.size = q.size - (PacketBytes(q.pkt_list[1].pkt) + 1)
  BY <1>2, SMT DEF packet_queue_get, PacketQueueType
<1>4. ListedBytes(r.pkt_list) = ListedBytes(q.pkt_list) - (PacketBytes(q.pkt_list[1].pkt) + 1)
  BY <1>1, <1>3, ListedTail, Zenon
<1>5. Len(r.pkt_list) = Len(q.pkt_list) - 1
  BY <1>1, <1>3, SMT
<1> QED BY <1>3, <1>4, <1>5, Zenon DEF Counted

LEMMA FlushCounts ==
  ASSUME NEW q \in PacketQueueType
  PROVE  Counted(packet_queue_flush(q))
<1>1. /\ packet_queue_flush(q).pkt_list = <<>> /\ packet_queue_flush(q).nb_packets = 0
      /\ packet_queue_flush(q).size = 0
  BY SMT DEF packet_queue_flush, PacketQueueType
<1> QED BY <1>1, ListedNone DEF Counted

(* neither an abort nor a start touches list or counters                    *)
LEMMA AbortStartCount ==
  ASSUME NEW q \in PacketQueueType, Counted(q)
  PROVE  Counted(packet_queue_abort(q)) /\ Counted(packet_queue_start(q))
<1> DEFINE Same(r) ==
      r.pkt_list = q.pkt_list /\ r.nb_packets = q.nb_packets /\ r.size = q.size
<1>1. Same(packet_queue_abort(q))
  BY SMT DEF packet_queue_abort, PacketQueueType
<1>2. Same(packet_queue_start(q))
  BY SMT DEF packet_queue_start, PacketQueueType
<1> QED BY <1>1, <1>2, Zenon DEF Counted

(* Every step of the decoder thread and of the others keeps the counters of *)
(* the queue equal to what it lists.                                        *)
LEMMA StepCounts == IInv /\ Accounting /\ [Next]_vars => Accounting'
<1> SUFFICES ASSUME IInv, Accounting, [Next]_vars PROVE Accounting'
  OBVIOUS
<1>1. queue \in PacketQueueType /\ Counted(queue)
  BY DEF IInv, TypeOK, Accounting
<1>2. SUFFICES Counted(queue')
  BY DEF Accounting
<1>3. ASSUME NEW data \in BOOLEAN, Put(data) PROVE Counted(queue')
  <2>1. [id |-> puts + 1, data |-> data] \in AVPacket
    BY <1>3, DecoderAssumption, SMT DEF Put, AVPacket, IInv, TypeOK
  <2> QED BY <1>1, <1>3, <2>1, PutCounts DEF Put
<1>4. CASE FetchPacket
  BY <1>1, <1>4, GetCounts DEF FetchPacket
<1>5. CASE FlushPackets \/ JoinAndFlush
  BY <1>1, <1>5, FlushCounts DEF FlushPackets, JoinAndFlush
<1>6. CASE AbortPackets \/ Open
  BY <1>1, <1>6, AbortStartCount DEF AbortPackets, Open
<1>7. CASE UNCHANGED queue
  BY <1>1, <1>7
<1>8. CASE \/ CheckSerial \/ ReceiveAborted \/ ReceiveFrame \/ ReceiveError
           \/ ReceiveEof \/ ReceiveAgain \/ FetchPending \/ FetchAborted
           \/ FetchWaits \/ CompareSerial \/ SendPacket \/ SendRefused
           \/ ReturnFrame \/ SpuriousWakeup
  <2>1. UNCHANGED queue
    BY <1>8, Zenon
       DEF CheckSerial, ReceiveAborted, ReceiveFrame, ReceiveError, ReceiveEof,
           ReceiveAgain, FetchPending, FetchAborted, FetchWaits, CompareSerial,
           SendPacket, SendRefused, ReturnFrame, SpuriousWakeup
  <2> QED BY <1>7, <2>1
<1>9. CASE UNCHANGED vars
  BY <1>7, <1>9
<1> QED BY <1>3, <1>4, <1>5, <1>6, <1>8, <1>9, Zenon
        DEF Next, OtherThreads, DecoderThread

(* At every step nb_packets and size are what the list says: read_thread     *)
(* throttles on the bytes that are really queued.                            *)
THEOREM Accounted == Spec => []Accounting
<1>1. Init => Accounting
  <2> SUFFICES ASSUME Init PROVE Accounting
    OBVIOUS
  <2>1. queue.pkt_list = <<>> /\ queue.nb_packets = 0 /\ queue.size = 0
    BY SMT DEF Init, packet_queue_init
  <2> QED BY <2>1, ListedNone DEF Accounting, Counted
<1> QED BY <1>1, StepCounts, Invariance, PTL DEF Spec
-----------------------------------------------------------------------------
(* The decoder implements PacketLine: nothing of the line but the parts that *)
(* a step moves, appends or drops.                                         *)

LEMMA Parts ==
  ASSUME IInv
  PROVE  /\ InReturn \in Seq(Item) /\ codec \in Seq(Item)
         /\ InHand \in Seq(Item) /\ InQueue \in Seq(Item)
<1>1. pkt.id \in Int /\ frame.id \in Int /\ pkt_serial \in Int
  BY Fields, DecoderAssumption DEF IInv, TypeOK, FieldTypes
<1>2. codec \in Seq(Item)
  <2>1. CodecEntry \subseteq Item
    BY DecoderAssumption DEF CodecEntry, Item
  <2> QED BY <2>1, SeqMonotonic DEF IInv, TypeOK
<1>3. InQueue \in Seq(Item)
  <2> DEFINE l == queue.pkt_list
  <2>1. l \in Seq(MyAVPacketList) /\ Len(l) \in Nat
    BY Fields DEF IInv, FieldTypes
  <2>2. ASSUME NEW i \in 1 .. Len(l)
        PROVE  [id |-> l[i].pkt.id, serial |-> l[i].serial] \in Item
    <3>1. l[i] \in MyAVPacketList
      BY <2>1
    <3> QED BY <3>1, DecoderAssumption DEF MyAVPacketList, AVPacket, Item
  <2> HIDE DEF l
  <2>3. [i \in 1 .. Len(l) |-> [id |-> l[i].pkt.id, serial |-> l[i].serial]] \in Seq(Item)
    BY <2>1, <2>2
  <2> QED BY <2>3 DEF InQueue, l
<1>4. /\ <<[id |-> frame.id, serial |-> pkt_serial]>> \in Seq(Item)
      /\ <<[id |-> pkt.id, serial |-> pkt_serial]>> \in Seq(Item)
      /\ <<>> \in Seq(Item)
  <2>1. /\ [id |-> frame.id, serial |-> pkt_serial] \in Item
        /\ [id |-> pkt.id, serial |-> pkt_serial] \in Item
    BY <1>1 DEF Item
  <2> HIDE DEF Item
  <2>2. ASSUME NEW x \in Item PROVE <<x>> \in Seq(Item)
    OBVIOUS
  <2> QED BY <2>1, <2>2
<1> QED BY <1>2, <1>3, <1>4, Zenon DEF InReturn, InHand

LEMMA LineType == ASSUME IInv PROVE Line \in Seq(Item)
<1>1. InReturn \o codec \in Seq(Item)
  BY Parts, ConcatProperties
<1>2. (InReturn \o codec) \o InHand \in Seq(Item)
  BY <1>1, Parts, ConcatProperties, Zenon
<1>3. ((InReturn \o codec) \o InHand) \o InQueue \in Seq(Item)
  BY <1>2, Parts, ConcatProperties, Zenon
<1> QED BY <1>3 DEF Line

(* A part of the line is given up: what each proof below ends in.           *)
LEMMA Drops ==
  ASSUME NEW p \in Seq(Item), NEW m \in Seq(Item), NEW s \in Seq(Item),
         Line = p \o m \o s, Line' = p \o s
  PROVE  Promise!Lost
<1>1. Without(p \o m \o s, p \o s)
  BY Gap
<1>2. Without(Line, Line')
  BY <1>1
<1> QED BY <1>2, Zenon DEF Without, Promise!Lost

LEMMA SameLine ==
  ASSUME InReturn' = InReturn, codec' = codec, InHand' = InHand, InQueue' = InQueue
  PROVE  Line' = Line
BY DEF Line

(* The parts of the line that a flush, a put and a get change.             *)
LEMMA QueueParts ==
  ASSUME IInv
  PROVE  /\ queue'.pkt_list = <<>> => InQueue' = <<>>
         /\ queue'.pkt_list = queue.pkt_list => InQueue' = InQueue
         /\ \A p \in AVPacket :
              queue'.pkt_list = Append(queue.pkt_list, [pkt |-> p, serial |-> queue.serial]) =>
                InQueue' = Append(InQueue, [id |-> p.id, serial |-> queue.serial])
         /\ queue.pkt_list # <<>> /\ queue'.pkt_list = Tail(queue.pkt_list) =>
              InQueue = <<[id |-> Got(queue).pkt.id, serial |-> Got(queue).serial]>> \o InQueue'
<1> DEFINE l == queue.pkt_list
           Of(e) == [id |-> e.pkt.id, serial |-> e.serial]
<1>1. l \in Seq(MyAVPacketList) /\ Len(l) \in Nat /\ queue.serial \in Nat
  BY Fields DEF IInv, FieldTypes
<1>2. InQueue \in Seq(Item) /\ Len(InQueue) = Len(l)
      /\ \A i \in 1 .. Len(l) : InQueue[i] = Of(l[i])
  <2>1. InQueue \in Seq(Item)
    BY Parts
  <2> QED BY <1>1, <2>1 DEF InQueue
<1>3. /\ queue'.pkt_list = <<>> => InQueue' = <<>>
      /\ queue'.pkt_list = queue.pkt_list => InQueue' = InQueue
  BY DEF InQueue
<1>4. ASSUME NEW p \in AVPacket,
             queue'.pkt_list = Append(l, [pkt |-> p, serial |-> queue.serial])
      PROVE  InQueue' = Append(InQueue, [id |-> p.id, serial |-> queue.serial])
  <2> DEFINE e == [pkt |-> p, serial |-> queue.serial]
             x == [id |-> p.id, serial |-> queue.serial]
  <2>1. e \in MyAVPacketList /\ Of(e) = x /\ x \in Item
    BY <1>1, DecoderAssumption DEF MyAVPacketList, AVPacket, Item
  <2> HIDE DEF e, l
  <2>2. /\ Append(l, e) \in Seq(MyAVPacketList) /\ Len(Append(l, e)) = Len(l) + 1
        /\ \A i \in 1 .. Len(l) : Append(l, e)[i] = l[i]
        /\ Append(l, e)[Len(l) + 1] = e
    BY <1>1, <2>1, AppendProperties
  <2>3. InQueue' = [i \in 1 .. Len(l) + 1 |-> Of(Append(l, e)[i])]
    BY <1>4, <2>2 DEF InQueue, e
  <2> HIDE DEF x
  <2>4. /\ Append(InQueue, x) \in Seq(Item) /\ Len(Append(InQueue, x)) = Len(l) + 1
        /\ \A i \in 1 .. Len(l) : Append(InQueue, x)[i] = InQueue[i]
        /\ Append(InQueue, x)[Len(l) + 1] = x
    BY <1>2, <2>1, AppendProperties
  <2>5. Append(InQueue, x) = [i \in 1 .. Len(l) + 1 |-> Append(InQueue, x)[i]]
    BY <2>4, AsFunction
  <2>6. ASSUME NEW i \in 1 .. Len(l) + 1
        PROVE  Of(Append(l, e)[i]) = Append(InQueue, x)[i]
    <3>1. CASE i = Len(l) + 1
      BY <2>1, <2>2, <2>4, <3>1
    <3>2. CASE i \in 1 .. Len(l)
      <4>1. Append(l, e)[i] = l[i] /\ Append(InQueue, x)[i] = InQueue[i]
        BY <2>2, <2>4, <3>2
      <4>2. InQueue[i] = Of(l[i])
        BY <1>2, <3>2
      <4> QED BY <4>1, <4>2
    <3>3. i = Len(l) + 1 \/ i \in 1 .. Len(l)
      BY <1>1
    <3> QED BY <3>1, <3>2, <3>3
  <2> HIDE DEF Of
  <2> QED BY <2>3, <2>5, <2>6, Zenon DEF x
<1>5. ASSUME l # <<>>, queue'.pkt_list = Tail(l)
      PROVE  InQueue = <<[id |-> Got(queue).pkt.id, serial |-> Got(queue).serial]>> \o InQueue'
  <2>1. /\ Len(l) \in Nat \ {0} /\ Len(Tail(l)) = Len(l) - 1 /\ Head(l) = l[1]
        /\ \A i \in 1 .. Len(Tail(l)) : i + 1 \in 1 .. Len(l) /\ Tail(l)[i] = l[i + 1]
    <3>1. Head(l) = l[1]
      BY <1>1, <1>5
    <3> QED BY <1>1, <1>5, <3>1, TailFacts
  <2>2. InQueue # <<>> /\ Head(InQueue) = Of(Got(queue))
    <3>1. InQueue # <<>> /\ Head(InQueue) = InQueue[1]
      BY <1>2, <2>1
    <3>2. InQueue[1] = Of(l[1])
      BY <1>2, <2>1
    <3> QED BY <2>1, <3>1, <3>2 DEF Got
  <2>3. InQueue' = Tail(InQueue)
    <3>1. InQueue' = [i \in 1 .. Len(l) - 1 |-> Of(Tail(l)[i])]
      BY <1>5, <2>1 DEF InQueue
    <3>2. /\ Tail(InQueue) \in Seq(Item) /\ Len(Tail(InQueue)) = Len(l) - 1
          /\ \A i \in 1 .. Len(l) - 1 : Tail(InQueue)[i] = InQueue[i + 1]
      BY <1>2, <2>2, HeadTailProperties
    <3>3. Tail(InQueue) = [i \in 1 .. Len(l) - 1 |-> Tail(InQueue)[i]]
      BY <3>2, AsFunction
    <3>4. ASSUME NEW i \in 1 .. Len(l) - 1 PROVE Of(Tail(l)[i]) = Tail(InQueue)[i]
      BY <1>2, <2>1, <3>2
    <3> HIDE DEF Of, l
    <3> QED BY <3>1, <3>3, <3>4, Zenon
  <2> HIDE DEF l, Of
  <2>4. InQueue = <<Of(Got(queue))>> \o InQueue'
    BY <1>2, <2>2, <2>3, HeadAndTail
  <2> QED BY <2>4 DEF Of
<1> QED BY <1>3, <1>4, <1>5

(* Steps that leave the line as it is.                                     *)
LEMMA Stutters ==
  ASSUME Line' = Line, queue'.serial = queue.serial, returned' = returned
  PROVE  [Promise!LineNext]_Promise!lvars
BY DEF Promise!lvars

LEMMA LineStays ==
  ASSUME IInv,
         \/ CheckSerial \/ ReceiveAborted \/ ReceiveEof \/ ReceiveAgain
         \/ FetchPending \/ FetchAborted \/ FetchWaits \/ SpuriousWakeup
         \/ SendRefused \/ AbortPackets \/ UNCHANGED vars
  PROVE  [Promise!LineNext]_Promise!lvars
<1>1. /\ queue'.pkt_list = queue.pkt_list /\ queue'.serial = queue.serial
      /\ UNCHANGED <<codec, frame, pkt, pkt_serial, returned>>
  <2>1. queue \in PacketQueueType
    BY DEF IInv, TypeOK
  <2>2. CASE AbortPackets
    BY <2>1, <2>2, AbortLeaves DEF AbortPackets
  <2>3. CASE CheckSerial \/ ReceiveAborted \/ ReceiveEof \/ ReceiveAgain
             \/ FetchPending \/ FetchAborted \/ FetchWaits \/ SpuriousWakeup
             \/ SendRefused \/ UNCHANGED vars
    BY <2>3 DEF CheckSerial, ReceiveAborted, ReceiveEof, ReceiveAgain, FetchPending,
         FetchAborted, FetchWaits, SpuriousWakeup, SendRefused
  <2> QED BY <2>2, <2>3
<1>2. dpc' = "return" <=> dpc = "return"
  BY Zenon DEF CheckSerial, ReceiveAborted, ReceiveEof, ReceiveAgain, FetchPending, FetchAborted,
       FetchWaits, SpuriousWakeup, SendRefused, AbortPackets
<1>3. Unsent' <=> Unsent
  BY DEF CheckSerial, ReceiveAborted, ReceiveEof, ReceiveAgain, FetchPending, FetchAborted,
       FetchWaits, SpuriousWakeup, SendRefused, AbortPackets, Unsent
<1>4. Line' = Line
  <2>1. InReturn' = InReturn /\ InHand' = InHand
    BY <1>1, <1>2, <1>3, Zenon DEF InReturn, InHand
  <2>2. InQueue' = InQueue
    BY <1>1 DEF InQueue
  <2> QED BY <1>1, <2>1, <2>2, SameLine
<1> QED BY <1>1, <1>4, Stutters

(* A packet put goes to the end, unless the queue is aborted.               *)
LEMMA PutEnters ==
  ASSUME IInv, NEW data \in BOOLEAN, Put(data)
  PROVE  [Promise!LineNext]_Promise!lvars
<1> DEFINE p == [id |-> puts + 1, data |-> data]
           x == [id |-> puts + 1, serial |-> queue.serial]
<1>1. p \in AVPacket /\ queue \in PacketQueueType /\ puts + 1 \in 1 .. MaxPackets
      /\ queue' = packet_queue_put(queue, p)
      /\ UNCHANGED <<codec, frame, pkt, pkt_serial, returned, dpc, packet_pending>>
  BY DecoderAssumption DEF IInv, TypeOK, Put, AVPacket
<1>2. InReturn' = InReturn /\ codec' = codec /\ InHand' = InHand
  BY <1>1, Zenon DEF InReturn, InHand, Unsent
<1>3. queue'.serial = queue.serial
  BY <1>1, PutLeaves
<1>4. CASE queue.abort_request
  <2>1. queue' = queue
    BY <1>1, <1>4, PutLeaves
  <2>2. Line' = Line
    BY <1>2, <2>1, SameLine DEF InQueue
  <2> QED BY <1>1, <1>3, <2>2, Stutters
<1>5. CASE ~queue.abort_request
  <2>1. queue'.pkt_list = Append(queue.pkt_list, [pkt |-> p, serial |-> queue.serial])
    BY <1>1, <1>5, PutLeaves
  <2>2. InQueue' = Append(InQueue, x)
    BY <1>1, <2>1, QueueParts
  <2> DEFINE front == InReturn \o codec \o InHand
  <2>3. front \in Seq(Item) /\ InQueue \in Seq(Item) /\ x \in Item
    <3>1. InReturn \o codec \in Seq(Item)
      BY Parts, ConcatProperties
    <3>2. (InReturn \o codec) \o InHand \in Seq(Item)
      BY <3>1, Parts, ConcatProperties, Zenon
    <3>3. x \in Item
      BY <1>1, Fields, DecoderAssumption DEF IInv, TypeOK, FieldTypes, Item
    <3> QED BY <3>2, <3>3, Parts
  <2>4. Line = front \o InQueue /\ Line' = front \o Append(InQueue, x)
    BY <1>2, <2>2 DEF Line
  <2> HIDE DEF front, x
  <2>5. Line' = Append(Line, x)
    BY <2>3, <2>4, AppendedLast
  <2>6. Promise!Enter(puts + 1)
    BY <1>1, <1>3, <2>5 DEF Promise!Enter, x
  <2> QED BY <1>1, <2>6 DEF Promise!LineNext
<1> QED BY <1>4, <1>5

(* A flush gives up what is queued, and begins a stretch.                   *)
LEMMA FlushBegins ==
  ASSUME IInv, FlushPackets \/ JoinAndFlush
  PROVE  [Promise!LineNext]_Promise!lvars
<1>1. /\ queue \in PacketQueueType /\ queue' = packet_queue_flush(queue)
      /\ UNCHANGED <<codec, frame, pkt, pkt_serial, returned, dpc, packet_pending>>
  BY DEF IInv, TypeOK, FlushPackets, JoinAndFlush
<1>2. InReturn' = InReturn /\ codec' = codec /\ InHand' = InHand
  BY <1>1, Zenon DEF InReturn, InHand, Unsent
<1>3. queue'.serial = queue.serial + 1 /\ InQueue' = <<>>
  BY <1>1, FlushLeaves, QueueParts
<1> DEFINE front == InReturn \o codec \o InHand
<1>4. front \in Seq(Item) /\ InQueue \in Seq(Item)
  <2>1. InReturn \o codec \in Seq(Item)
    BY Parts, ConcatProperties
  <2>2. (InReturn \o codec) \o InHand \in Seq(Item)
    BY <2>1, Parts, ConcatProperties, Zenon
  <2> QED BY <2>2, Parts
<1>5. Line = front \o InQueue /\ Line' = front \o <<>>
  BY <1>2, <1>3 DEF Line
<1> HIDE DEF front
<1>6. Line = front \o InQueue \o <<>> /\ <<>> \in Seq(Item)
  <2>1. front \o InQueue \in Seq(Item)
    BY <1>4, ConcatProperties
  <2> QED BY <1>5, <2>1, Empty
<1>7. Promise!Lost
  BY <1>4, <1>5, <1>6, Drops
<1> QED BY <1>1, <1>3, <1>7 DEF Promise!NewStretch, Promise!LineNext

(* An opening finds no packets queued and gives up what the codec held.     *)
LEMMA OpenBegins ==
  ASSUME IInv, Open
  PROVE  [Promise!LineNext]_Promise!lvars
<1>1. /\ queue \in PacketQueueType /\ queue' = packet_queue_start(queue)
      /\ queue.pkt_list = <<>> /\ returned' = returned
      /\ dpc' = "check" /\ packet_pending' = FALSE /\ codec' = <<>>
  BY DEF IInv, TypeOK, ThreadInv, Open
<1>2. queue'.serial = queue.serial + 1 /\ InQueue' = <<>>
  BY <1>1, StartLeaves, QueueParts
<1>3. InReturn' = <<>> /\ InHand' = <<>>
  BY <1>1 DEF InReturn, InHand, Unsent
<1>4. Line \in Seq(Item)
  BY LineType
<1>5. Line' = <<>> \o <<>> /\ Line = <<>> \o Line \o <<>> /\ <<>> \in Seq(Item)
  <2>1. <<>> \o <<>> = <<>>
    OBVIOUS
  <2>2. Line' = <<>>
    BY <1>1, <1>2, <1>3, <2>1 DEF Line
  <2> QED BY <1>4, <2>1, <2>2, Empty
<1>6. Promise!Lost
  BY <1>4, <1>5, Drops
<1> QED BY <1>1, <1>2, <1>6 DEF Promise!NewStretch, Promise!LineNext

(* The packet in hand is given up: it is stale, or the codec does not take   *)
(* it.                                                                     *)
LEMMA HandEmpties ==
  ASSUME IInv, InReturn' = InReturn, codec' = codec, InHand' = <<>>, InQueue' = InQueue,
         queue' = queue, returned' = returned
  PROVE  [Promise!LineNext]_Promise!lvars
<1> DEFINE front == InReturn \o codec
<1>1. front \in Seq(Item) /\ InHand \in Seq(Item) /\ InQueue \in Seq(Item)
  BY Parts, ConcatProperties
<1>2. Line = front \o InHand \o InQueue /\ Line' = front \o <<>> \o InQueue
  BY DEF Line
<1> HIDE DEF front
<1>3. Line' = front \o InQueue
  <2>1. front \o <<>> = front
    BY <1>1, Empty
  <2> QED BY <1>2, <2>1
<1>4. Promise!Lost
  BY <1>1, <1>2, <1>3, Drops
<1> QED BY <1>4 DEF Promise!Lose, Promise!LineNext

LEMMA CompareLine ==
  ASSUME IInv, CompareSerial
  PROVE  [Promise!LineNext]_Promise!lvars
<1>1. /\ UNCHANGED <<queue, codec, frame, pkt, pkt_serial, returned, packet_pending>>
      /\ dpc = "compare" /\ dpc' \in {"send", "fetch"} /\ packet_pending = FALSE
  BY DEF CompareSerial, IInv, TypeOK, ThreadInv
<1>2. InReturn' = InReturn /\ codec' = codec /\ InQueue' = InQueue
  BY <1>1 DEF InReturn, InQueue
<1>3. CASE dpc' = "send"
  <2>1. InHand' = InHand
    BY <1>1, <1>3 DEF InHand, Unsent
  <2> QED BY <1>1, <1>2, <2>1, SameLine, Stutters
<1>4. CASE dpc' = "fetch"
  <2>1. InHand' = <<>>
    BY <1>1, <1>4 DEF InHand, Unsent
  <2> QED BY <1>1, <1>2, <2>1, HandEmpties
<1> QED BY <1>1, <1>3, <1>4

(* The packet in hand goes into the codec.                                 *)
LEMMA SendLine ==
  ASSUME IInv, SendPacket
  PROVE  [Promise!LineNext]_Promise!lvars
<1> DEFINE x == [id |-> pkt.id, serial |-> pkt_serial]
<1>1. /\ UNCHANGED <<queue, frame, pkt, pkt_serial, returned, packet_pending>>
      /\ dpc = "send" /\ dpc' = "check" /\ packet_pending = FALSE
      /\ codec' = IF pkt.data /\ ~draining THEN Append(codec, x) ELSE codec
  BY DEF SendPacket, IInv, TypeOK, ThreadInv
<1>2. /\ InReturn' = InReturn /\ InQueue' = InQueue
      /\ InHand = <<x>> /\ InHand' = <<>>
  BY <1>1 DEF InReturn, InQueue, InHand, Unsent
<1>3. CASE codec' = codec
  BY <1>1, <1>2, <1>3, HandEmpties
<1>4. CASE codec' = Append(codec, x)
  <2>1. codec \in Seq(Item) /\ InReturn \in Seq(Item) /\ <<x>> \in Seq(Item) /\ x \in Item
        /\ InReturn \o codec \in Seq(Item)
    <3>1. x \in Item
      BY Fields, DecoderAssumption DEF IInv, TypeOK, FieldTypes, Item
    <3> QED BY <1>2, <3>1, Parts, ConcatProperties
  <2>2. Line = ((InReturn \o codec) \o <<x>>) \o InQueue
        /\ Line' = ((InReturn \o Append(codec, x)) \o <<>>) \o InQueue
    BY <1>2, <1>4 DEF Line
  <2> HIDE DEF x
  <2>3. InReturn \o Append(codec, x) = (InReturn \o codec) \o <<x>>
    <3>1. InReturn \o Append(codec, x) = Append(InReturn \o codec, x)
      BY <2>1, AppendedLast
    <3> QED BY <2>1, <3>1, AppendIsConcat
  <2>4. ((InReturn \o codec) \o <<x>>) \in Seq(Item)
    BY <2>1, ConcatProperties, Zenon
  <2>5. ((InReturn \o codec) \o <<x>>) \o <<>> = (InReturn \o codec) \o <<x>>
    BY <2>4, Empty
  <2>6. Line' = Line
    BY <2>2, <2>3, <2>5, Zenon
  <2> QED BY <1>1, <2>6, Stutters
<1> QED BY <1>1, <1>3, <1>4

(* The oldest packet of the codec becomes the frame in hand, under the same  *)
(* serial; or it cannot be decoded.                                        *)
LEMMA ReceiveLine ==
  ASSUME IInv, ReceiveFrame \/ ReceiveError
  PROVE  [Promise!LineNext]_Promise!lvars
<1> DEFINE x == Head(codec)
           back == InHand \o InQueue
<1>1. /\ UNCHANGED <<queue, pkt, pkt_serial, returned, packet_pending>>
      /\ dpc = "receive" /\ codec # <<>> /\ codec' = Tail(codec)
  BY DEF ReceiveFrame, ReceiveError
<1>2. InReturn = <<>> /\ InQueue' = InQueue /\ InHand' = InHand
  <2>1. dpc' \in {"receive", "return"}
    BY <1>1 DEF ReceiveFrame, ReceiveError
  <2> QED BY <1>1, <2>1 DEF InReturn, InQueue, InHand, Unsent
<1>3. codec = <<x>> \o codec' /\ x \in Item /\ codec' \in Seq(Item) /\ <<x>> \in Seq(Item)
  <2>1. x \in Item /\ codec = <<x>> \o Tail(codec) /\ Tail(codec) \in Seq(Item)
    BY <1>1, Parts, HeadAndTail
  <2> HIDE DEF x
  <2> QED BY <1>1, <2>1
<1>4. InHand \in Seq(Item) /\ InQueue \in Seq(Item) /\ back \in Seq(Item)
  BY Parts, ConcatProperties
<1>5. Line = <<x>> \o (codec' \o back)
  <2>1. Line = ((<<>> \o codec) \o InHand) \o InQueue
    BY <1>2 DEF Line
  <2>2. <<>> \o codec = codec /\ codec \in Seq(Item)
    BY Parts, Empty
  <2>3. (codec \o InHand) \o InQueue = codec \o back
    BY <1>4, <2>2, Regrouped, ZenonT(30)
  <2> HIDE DEF x, back
  <2>4. codec \o back = <<x>> \o (codec' \o back)
    BY <1>3, <1>4, Regrouped, ZenonT(30)
  <2> QED BY <2>1, <2>2, <2>3, <2>4, Zenon
<1>6. \A a \in Seq(Item) : InReturn' = a => Line' = a \o (codec' \o back)
  <2> SUFFICES ASSUME NEW a \in Seq(Item), InReturn' = a PROVE Line' = a \o (codec' \o back)
    OBVIOUS
  <2>1. Line' = ((a \o codec') \o InHand) \o InQueue
    BY <1>2 DEF Line
  <2>2. a \o codec' \in Seq(Item)
    BY <1>3, ConcatProperties
  <2>3. ((a \o codec') \o InHand) \o InQueue = (a \o codec') \o back
    BY <1>4, <2>2, Regrouped, ZenonT(30)
  <2>4. (a \o codec') \o back = a \o (codec' \o back)
    BY <1>3, <1>4, Regrouped, ZenonT(30)
  <2> QED BY <2>1, <2>3, <2>4
<1> HIDE DEF back
<1>7. CASE ReceiveFrame
  <2>1. dpc' = "return" /\ frame' = x
    BY <1>7 DEF ReceiveFrame
  <2>2. x.serial = pkt_serial
    <3>1. 1 \in 1 .. Len(codec) /\ x = codec[1]
      BY <1>1, Parts, EmptySeq
    <3> QED BY <3>1 DEF IInv, CodecOneSerial
  <2>3. x = [id |-> x.id, serial |-> pkt_serial]
    BY <1>3, <2>2 DEF Item
  <2>4. InReturn' = <<x>>
    BY <1>1, <2>1, <2>3, Zenon DEF InReturn
  <2>5. Line' = Line
    BY <1>3, <1>5, <1>6, <2>4
  <2> QED BY <1>1, <2>5, Stutters
<1>8. CASE ReceiveError
  <2>1. InReturn' = <<>> /\ <<>> \in Seq(Item)
    BY <1>1, <1>8, Empty DEF ReceiveError, InReturn
  <2> DEFINE rest == codec' \o back
  <2>2. rest \in Seq(Item)
    BY <1>3, <1>4, ConcatProperties
  <2>3. Line' = <<>> \o rest
    BY <1>6, <2>1
  <2> HIDE DEF x
  <2>4. Line = <<>> \o <<x>> \o rest
    BY <1>3, <1>5, Empty
  <2> HIDE DEF rest
  <2>5. Promise!Lost
    BY <1>3, <2>1, <2>2, <2>3, <2>4, Drops
  <2> QED BY <1>1, <2>5 DEF Promise!Lose, Promise!LineNext
<1> QED BY <1>7, <1>8

(* The oldest packet of the queue comes to hand; if it begins a stretch, the *)
(* codec forgets what it held.                                             *)
LEMMA FetchLine ==
  ASSUME IInv, FetchPacket
  PROVE  [Promise!LineNext]_Promise!lvars
<1> DEFINE x == [id |-> Got(queue).pkt.id, serial |-> Got(queue).serial]
<1>1. /\ queue \in PacketQueueType /\ CanGet(queue) /\ queue.nb_packets = Len(queue.pkt_list)
      /\ queue' = packet_queue_get(queue) /\ returned' = returned
      /\ dpc = "fetch" /\ dpc' = "compare" /\ ~packet_pending
      /\ pkt' = Got(queue).pkt /\ pkt_serial' = Got(queue).serial
      /\ codec' \in {codec, <<>>}
  BY DEF IInv, TypeOK, ThreadInv, FetchPacket
<1>2. queue'.serial = queue.serial /\ queue'.pkt_list = Tail(queue.pkt_list)
      /\ queue.pkt_list # <<>> /\ Got(queue) \in MyAVPacketList
  <2>1. /\ queue'.serial = queue.serial /\ queue'.pkt_list = Tail(queue.pkt_list)
        /\ Got(queue) \in MyAVPacketList
    BY <1>1, GetLeaves
  <2> QED BY <1>1, <2>1 DEF CanGet
<1>3. InQueue = <<x>> \o InQueue'
  BY <1>2, QueueParts
<1>4. InReturn = <<>> /\ InReturn' = <<>> /\ InHand = <<>> /\ InHand' = <<x>>
  BY <1>1 DEF InReturn, InHand, Unsent
<1>5. codec \in Seq(Item) /\ InQueue \in Seq(Item) /\ <<>> \in Seq(Item) /\ <<x>> \in Seq(Item)
      /\ InQueue' \in Seq(Item)
  <2>1. x \in Item
    BY <1>2, DecoderAssumption DEF MyAVPacketList, AVPacket, Item
  <2>2. InQueue' \in Seq(Item)
    <3>1. queue.pkt_list \in Seq(MyAVPacketList)
      BY <1>1 DEF PacketQueueType
    <3> DEFINE l == Tail(queue.pkt_list)
    <3>2. l \in Seq(MyAVPacketList) /\ Len(l) \in Nat
      BY <1>2, <3>1, HeadTailProperties, LenProperties
    <3>3. InQueue' = [i \in 1 .. Len(l) |-> [id |-> l[i].pkt.id, serial |-> l[i].serial]]
      BY <1>2 DEF InQueue
    <3> HIDE DEF l
    <3>4. ASSUME NEW i \in 1 .. Len(l)
          PROVE  [id |-> l[i].pkt.id, serial |-> l[i].serial] \in Item
      <4>1. l[i] \in MyAVPacketList
        BY <3>2
      <4> QED BY <4>1, DecoderAssumption DEF MyAVPacketList, AVPacket, Item
    <3>5. [i \in 1 .. Len(l) |-> [id |-> l[i].pkt.id, serial |-> l[i].serial]] \in Seq(Item)
      BY <3>2, <3>4
    <3> QED BY <3>3, <3>5
  <2> HIDE DEF x
  <2> QED BY <2>1, <2>2, Parts
<1>6. Line = ((<<>> \o codec) \o <<>>) \o InQueue
      /\ Line' = ((<<>> \o codec') \o <<x>>) \o InQueue'
  BY <1>4 DEF Line
<1> HIDE DEF x
<1>7. Line = codec \o InQueue
  BY <1>5, <1>6, Empty
<1>8. CASE codec' = codec
  <2>1. Line' = (codec \o <<x>>) \o InQueue'
    BY <1>5, <1>6, <1>8, Empty
  <2>2. (codec \o <<x>>) \o InQueue' = codec \o (<<x>> \o InQueue')
    BY <1>5, Regrouped, ZenonT(30)
  <2>3. Line' = Line
    BY <1>3, <1>7, <2>1, <2>2
  <2> QED BY <1>1, <1>2, <2>3, Stutters
<1>9. CASE codec' = <<>>
  <2>1. Line' = <<>> \o InQueue
    <3>1. <<>> \o <<>> = <<>> /\ <<>> \o <<x>> = <<x>> /\ <<>> \o InQueue = InQueue
      BY <1>5, Empty
    <3> QED BY <1>3, <1>6, <1>9, <3>1
  <2>2. Line = <<>> \o codec \o InQueue
    BY <1>5, <1>7, Empty
  <2>3. Promise!Lost
    BY <1>5, <2>1, <2>2, Drops
  <2> QED BY <1>1, <1>2, <2>3 DEF Promise!Lose, Promise!LineNext
<1> QED BY <1>1, <1>8, <1>9

(* The frame in hand leaves, or is freed when the thread ends.              *)
LEMMA ReturnLine ==
  ASSUME IInv, ReturnFrame
  PROVE  [Promise!LineNext]_Promise!lvars
<1> DEFINE x == [id |-> frame.id, serial |-> pkt_serial]
           rest == (codec \o InHand) \o InQueue
<1>1. /\ UNCHANGED <<queue, pkt, pkt_serial, packet_pending, codec, frame>>
      /\ dpc = "return" /\ dpc' \in {"check", "exit"}
      /\ returned' \in {frame.id, returned}
  BY DEF ReturnFrame
<1>2. InReturn = <<x>> /\ InReturn' = <<>> /\ InHand' = InHand /\ InQueue' = InQueue
  <2>1. InReturn = <<x>> /\ InReturn' = <<>>
    BY <1>1 DEF InReturn
  <2>2. InHand' = InHand /\ InQueue' = InQueue
    BY <1>1 DEF InHand, InQueue, Unsent
  <2> QED BY <2>1, <2>2
<1>3. codec \in Seq(Item) /\ InHand \in Seq(Item) /\ InQueue \in Seq(Item)
      /\ <<>> \in Seq(Item) /\ <<x>> \in Seq(Item) /\ x \in Item
  <2>1. x \in Item
    BY Fields, DecoderAssumption DEF IInv, TypeOK, FieldTypes, Item
  <2> QED BY <1>2, <2>1, Parts, Empty
<1>4. codec \o InHand \in Seq(Item) /\ rest \in Seq(Item)
  <2>1. codec \o InHand \in Seq(Item)
    BY <1>3, ConcatProperties
  <2> QED BY <1>3, <2>1, ConcatProperties
<1>5. Line' = rest
  <2>1. <<>> \o codec = codec
    BY <1>3, Empty
  <2> QED BY <1>1, <1>2, <2>1 DEF Line
<1>6. x.id = frame.id
  OBVIOUS
<1> HIDE DEF x
<1>7. Line = <<x>> \o rest
  <2>1. Line = ((<<x>> \o codec) \o InHand) \o InQueue
    BY <1>2 DEF Line
  <2>2. (<<x>> \o codec) \o InHand = <<x>> \o (codec \o InHand)
    BY <1>3, Regrouped, ZenonT(30)
  <2>3. (<<x>> \o (codec \o InHand)) \o InQueue = <<x>> \o rest
    BY <1>3, <1>4, Regrouped, ZenonT(30)
  <2> QED BY <2>1, <2>2, <2>3
<1> HIDE DEF rest
<1>8. CASE returned' = frame.id
  <2>1. Line # <<>> /\ Head(Line) = x /\ Tail(Line) = rest
    BY <1>3, <1>4, <1>7
  <2>2. Promise!Leave
    BY <1>1, <1>5, <1>6, <1>8, <2>1 DEF Promise!Leave
  <2> QED BY <2>2 DEF Promise!LineNext
<1>9. CASE returned' = returned
  <2>1. Line = <<>> \o <<x>> \o rest /\ Line' = <<>> \o rest
    BY <1>3, <1>4, <1>5, <1>7, Empty
  <2>2. Promise!Lost
    BY <1>3, <1>4, <2>1, Drops
  <2> QED BY <1>1, <1>9, <2>2 DEF Promise!Lose, Promise!LineNext
<1> QED BY <1>1, <1>8, <1>9

(* The queue, the decoder thread and the codec implement PacketLine.        *)
THEOREM Refinement == Spec => ImplementsLine
<1>1. Init => Promise!LineInit
  <2> SUFFICES ASSUME Init PROVE Promise!LineInit
    OBVIOUS
  <2>1. queue.pkt_list = <<>> /\ queue.serial = 0
    BY DEF Init, packet_queue_init
  <2>2. InReturn = <<>> /\ codec = <<>> /\ InHand = <<>> /\ InQueue = <<>> /\ returned = 0
    BY <2>1 DEF Init, InReturn, InHand, InQueue, Unsent
  <2>3. ((<<>> \o <<>>) \o <<>>) \o <<>> = <<>>
    OBVIOUS
  <2> QED BY <2>1, <2>2, <2>3 DEF Line, Promise!LineInit
<1>2. IInv /\ [Next]_vars => [Promise!LineNext]_Promise!lvars
  <2> SUFFICES ASSUME IInv, [Next]_vars PROVE [Promise!LineNext]_Promise!lvars
    OBVIOUS
  <2>1. CASE \E data \in BOOLEAN : Put(data)
    BY <2>1, PutEnters
  <2>2. CASE FlushPackets \/ JoinAndFlush
    BY <2>2, FlushBegins
  <2>3. CASE ReceiveFrame \/ ReceiveError
    BY <2>3, ReceiveLine
  <2>4. CASE \/ CheckSerial \/ ReceiveAborted \/ ReceiveEof \/ ReceiveAgain
             \/ FetchPending \/ FetchAborted \/ FetchWaits \/ SpuriousWakeup
             \/ SendRefused \/ AbortPackets \/ UNCHANGED vars
    BY <2>4, LineStays
  <2> QED BY <2>1, <2>2, <2>3, <2>4, OpenBegins, CompareLine, SendLine, FetchLine, ReturnLine,
             Zenon DEF Next, OtherThreads, DecoderThread
<1> QED BY <1>1, <1>2, Invariance, PTL DEF Spec, ImplementsLine, Promise!LineSpec
=============================================================================
