-------------------------- MODULE PlaybackOrder_proofs --------------------------
(***************************************************************************)
(* Proof that Playback presents pictures and sound in the order of the file *)
(* and never what was read before a seek, for any file and any bounds.  All *)
(* that is on its way through a stream is in line, from the frame presented *)
(* last back to the demuxer; a step moves an element from one group to the  *)
(* next, drops elements, or adds one that the demuxer has just read.       *)
(*                                                                         *)
(* The second half proves that each stream implements PacketLine: the same  *)
(* line as a sequence, cut in five parts, and what a step does to the parts. *)
(***************************************************************************)
EXTENDS Playback_proofs

USE DEF demuxer, reader, request, control, present, stop, asked, vars, others

(* A step that only drops elements keeps the line.                         *)
LEMMA Narrows ==
  ASSUME NEW A, NEW B, NEW C, NEW D, NEW E, NEW F, InLine(A, B, C, D, E, F),
         NEW A1 \in SUBSET A, NEW B1 \in SUBSET B, NEW C1 \in SUBSET C,
         NEW D1 \in SUBSET D, NEW E1 \in SUBSET E, NEW F1 \in SUBSET F
  PROVE  InLine(A1, B1, C1, D1, E1, F1)
<1>1. /\ AllLater(B1, A1) /\ AllLater(C1, A1) /\ AllLater(D1, A1)
      /\ AllLater(E1, A1) /\ AllLater(F1, A1)
  BY DEF InLine, AllLater
<1>2. AllLater(C1, B1) /\ AllLater(D1, B1) /\ AllLater(E1, B1) /\ AllLater(F1, B1)
  BY DEF InLine, AllLater
<1>3. AllLater(D1, C1) /\ AllLater(E1, C1) /\ AllLater(F1, C1)
  BY DEF InLine, AllLater
<1>4. AllLater(E1, D1) /\ AllLater(F1, D1) /\ AllLater(F1, E1)
  BY DEF InLine, AllLater
<1> QED BY <1>1, <1>2, <1>3, <1>4, Zenon DEF InLine

LEMMA ReadSubset ==
  ASSUME NEW A, NEW A1 \in SUBSET A, NEW g, NEW p, Read(A, g, p)
  PROVE  Read(A1, g, p)
BY DEF Read

(* The decoder goes on with the codec it has, to where it holds nothing.    *)
LEMMA MoveOrder ==
  ASSUME NEW q, NEW d, NEW d1, NEW fs, NEW last, NEW g, NEW p,
         d1.codec = d.codec, d1.pc \notin {"send", "queue"},
         LineInv(q, d, fs, last, g, p)
  PROVE  LineInv(q, d1, fs, last, g, p)
<1>1. InHand(d1) = {} /\ Fetched(d1) = {} /\ InCodec(d1) = InCodec(d)
  BY DEF InHand, Fetched, InCodec
<1>2. InLine({last}, Queued(fs), {}, InCodec(d), {}, ToFetch(q))
  BY Narrows DEF LineInv
<1>3. Read({}, g, p)
  BY DEF Read
<1> QED BY <1>1, <1>2, <1>3, Zenon DEF LineInv

(* A frame comes out of the codec.                                         *)
LEMMA TakeOrder ==
  ASSUME NEW q, NEW d \in DecoderType, NEW d1, NEW fs, NEW last, NEW g, NEW p,
         d.pc = "receive", d.codec # <<>>, d1.pc = "queue",
         d1.codec = Tail(d.codec), d1.frame = Head(d.codec),
         LineInv(q, d, fs, last, g, p)
  PROVE  LineInv(q, d1, fs, last, g, p)
<1> DEFINE f == Head(d.codec)
<1>1. /\ 1 \in DOMAIN d.codec /\ f = d.codec[1]
      /\ \A i \in DOMAIN Tail(d.codec) : /\ i + 1 \in DOMAIN d.codec /\ 1 < i + 1
                                         /\ Tail(d.codec)[i] = d.codec[i + 1]
      /\ \A i, j \in DOMAIN Tail(d.codec) : i < j => i + 1 < j + 1
  <2>1. d.codec \in Seq(Frame)
    BY DecoderFields
  <2> QED BY <2>1
<1>2. InHand(d) = {} /\ Fetched(d) = {} /\ InHand(d1) = {f} /\ Fetched(d1) = {}
  BY DEF InHand, Fetched
<1>3. InCodec(d1) \subseteq InCodec(d) /\ f \in InCodec(d)
  BY <1>1 DEF InCodec
<1>4. AllLater(InCodec(d1), {f})
  BY <1>1, Zenon DEF AllLater, InCodec, LineInv, Ordered
<1>5. Ordered(d1.codec)
  BY <1>1, Zenon DEF Ordered, LineInv
<1> HIDE DEF f
<1>6. InLine({last}, Queued(fs), {f}, InCodec(d1), {}, ToFetch(q))
  BY <1>2, <1>3, <1>4 DEF LineInv, InLine, AllLater
<1>7. Read({f}, g, p) /\ Read(InCodec(d1), g, p) /\ Read({}, g, p)
  BY <1>3 DEF LineInv, Read
<1> QED BY <1>2, <1>5, <1>6, <1>7, Zenon DEF LineInv

(* A packet is fetched.                                                    *)
LEMMA FetchOrder ==
  ASSUME NEW q \in PacketQueueType, NEW d \in DecoderType, NEW d1, NEW fs, NEW last,
         NEW g, NEW p, CanGet(q), d.pc = "fetch", d1.pc = "send", d1.pkt = Got(q).pkt,
         d1.codec = <<>> \/ d1.codec = d.codec,
         LineInv(q, d, fs, last, g, p)
  PROVE  LineInv(packet_queue_get(q), d1, fs, last, g, p)
<1> DEFINE r == packet_queue_get(q)
           x == Got(q).pkt
           n == Len(q.pkt_list)
<1>1. /\ n \in Nat \ {0} /\ Len(r.pkt_list) = n - 1 /\ x = q.pkt_list[1].pkt
      /\ \A i \in 1 .. n - 1 : r.pkt_list[i] = q.pkt_list[i + 1]
      /\ r.pkt_list = Tail(q.pkt_list) /\ q.pkt_list \in Seq(MyAVPacketList)
      /\ DOMAIN q.pkt_list = 1 .. n
  <2>1. r.pkt_list = Tail(q.pkt_list)
    BY SMT DEF packet_queue_get, PacketQueueType
  <2> QED BY <2>1, GetLeaves, QueueFields, Zenon
<1>2. /\ 1 \in DOMAIN q.pkt_list
      /\ \A i \in DOMAIN r.pkt_list : /\ i + 1 \in DOMAIN q.pkt_list /\ 1 < i + 1
                                      /\ r.pkt_list[i] = q.pkt_list[i + 1]
      /\ \A i, j \in DOMAIN r.pkt_list : i < j => i + 1 < j + 1
  BY <1>1
<1> HIDE DEF r, x, n
<1>3. InHand(d) = {} /\ Fetched(d) = {} /\ InHand(d1) = {}
  BY DEF InHand, Fetched
<1>4. /\ Fetched(d1) = IF IsNull(x) THEN {} ELSE {x}
      /\ Fetched(d1) \subseteq ToFetch(q) /\ ToFetch(r) \subseteq ToFetch(q)
  <2>1. Fetched(d1) = IF IsNull(x) THEN {} ELSE {x}
    BY DEF Fetched, x
  <2>2. ~IsNull(x) => x \in ToFetch(q)
    BY <1>1, <1>2 DEF ToFetch
  <2>3. ToFetch(r) \subseteq ToFetch(q)
    BY <1>2 DEF ToFetch
  <2> QED BY <2>1, <2>2, <2>3
<1>5. AllLater(ToFetch(r), Fetched(d1))
  <2>1. \A i \in DOMAIN r.pkt_list :
          ~IsNull(x) /\ ~IsNull(r.pkt_list[i].pkt) => IsLater(r.pkt_list[i].pkt, x)
    BY <1>1, <1>2, Zenon DEF LineInv, OrderedPackets
  <2> QED BY <1>4, <2>1 DEF AllLater, ToFetch
<1>6. OrderedPackets(r)
  BY <1>2, Zenon DEF OrderedPackets, LineInv
<1>7. InCodec(d1) \subseteq InCodec(d) /\ Ordered(d1.codec)
  BY DEF InCodec, LineInv, Ordered
<1>8. InLine({last}, Queued(fs), {}, InCodec(d1), Fetched(d1), ToFetch(r))
  BY <1>3, <1>4, <1>5, <1>7 DEF LineInv, InLine, AllLater
<1>9. /\ Read({}, g, p) /\ Read(InCodec(d1), g, p) /\ Read(Fetched(d1), g, p)
      /\ Read(ToFetch(r), g, p)
  BY <1>4, <1>7 DEF LineInv, Read
<1> QED BY <1>3, <1>6, <1>7, <1>8, <1>9, Zenon DEF LineInv, r

(* A packet goes into the codec, as the frame it becomes.                  *)
LEMMA SendOrder ==
  ASSUME NEW q, NEW d \in DecoderType, NEW d1, NEW fs, NEW last, NEW g, NEW p,
         NEW f \in Frame, f.gen = d.pkt.gen, f.pos = d.pkt.pos,
         d.pc = "send", ~IsNull(d.pkt), d1.pc = "receive",
         d1.codec = IF d.draining THEN d.codec ELSE Append(d.codec, f),
         LineInv(q, d, fs, last, g, p)
  PROVE  LineInv(q, d1, fs, last, g, p)
<1> DEFINE c == d.codec
           x == d.pkt
<1>1. CASE d.draining
  BY <1>1, MoveOrder
<1>2. CASE ~d.draining
  <2>1. /\ d1.codec = Append(c, f) /\ c \in Seq(Frame) /\ Len(c) \in Nat
        /\ DOMAIN c = 1 .. Len(c)
    BY <1>2, DecoderFields
  <2>2. /\ DOMAIN d1.codec = 1 .. Len(c) + 1 /\ d1.codec[Len(c) + 1] = f
        /\ \A i \in 1 .. Len(c) : d1.codec[i] = c[i]
    BY <2>1
  <2>3. InHand(d) = {} /\ Fetched(d) = {x} /\ InHand(d1) = {} /\ Fetched(d1) = {}
    BY DEF InHand, Fetched
  <2>4. InCodec(d1) \subseteq InCodec(d) \cup {f}
    BY <2>1, <2>2 DEF InCodec
  <2>5. \A y : (IsLater(x, y) => IsLater(f, y)) /\ (IsLater(y, x) => IsLater(y, f))
    BY DEF IsLater
  <2>6. \A i \in 1 .. Len(c) : IsLater(f, c[i])
    BY <2>1, <2>3, <2>5, Zenon DEF LineInv, InLine, AllLater, InCodec
  <2>7. Ordered(d1.codec)
    <3>1. ASSUME NEW i \in DOMAIN d1.codec, NEW j \in DOMAIN d1.codec, i < j
          PROVE  IsLater(d1.codec[j], d1.codec[i])
      <4>1. i \in 1 .. Len(c)
        BY <2>1, <2>2, <3>1
      <4>2. CASE j = Len(c) + 1
        BY <2>2, <2>6, <4>1, <4>2, Zenon
      <4>3. CASE j # Len(c) + 1
        <5>1. j \in 1 .. Len(c)
          BY <2>1, <2>2, <3>1, <4>3
        <5> QED BY <2>1, <2>2, <3>1, <4>1, <5>1, Zenon DEF LineInv, Ordered
      <4> QED BY <4>2, <4>3
    <3> QED BY <3>1 DEF Ordered
  <2>8. /\ Read({x}, g, p) /\ InLine({last}, Queued(fs), {}, InCodec(d), {x}, ToFetch(q))
    BY <2>3, Zenon DEF LineInv
  <2>9. InLine({last}, Queued(fs), {}, InCodec(d1), {}, ToFetch(q))
    <3> HIDE DEF x
    <3>1. InLine({last}, Queued(fs), {}, InCodec(d) \cup {f}, {}, ToFetch(q))
      BY <2>5, <2>8, Zenon DEF InLine, AllLater
    <3> QED BY <2>4, <3>1, Narrows
  <2>10. Read(InCodec(d1), g, p) /\ Read({}, g, p)
    BY <2>4, <2>8 DEF LineInv, Read
  <2> QED BY <2>3, <2>7, <2>9, <2>10, Zenon DEF LineInv
<1> QED BY <1>1, <1>2

(* A frame is queued for the presenter.                                    *)
LEMMA QueueOrder ==
  ASSUME NEW q, NEW d, NEW d1, NEW fs \in Seq(Frame), NEW last, NEW g, NEW p,
         NEW f \in Frame, f.gen = d.frame.gen, f.pos = d.frame.pos,
         d.pc = "queue", d1.pc = "receive", d1.codec = d.codec,
         LineInv(q, d, fs, last, g, p)
  PROVE  LineInv(q, d1, Append(fs, f), last, g, p)
<1> DEFINE x == d.frame
           fs1 == Append(fs, f)
<1>1. /\ Len(fs) \in Nat /\ DOMAIN fs = 1 .. Len(fs)
      /\ DOMAIN fs1 = 1 .. Len(fs) + 1 /\ fs1[Len(fs) + 1] = f
      /\ \A i \in 1 .. Len(fs) : fs1[i] = fs[i]
  OBVIOUS
<1> HIDE DEF fs1
<1>2. /\ InHand(d) = {x} /\ Fetched(d) = {} /\ InHand(d1) = {} /\ Fetched(d1) = {}
      /\ InCodec(d1) = InCodec(d)
  BY DEF InHand, Fetched, InCodec
<1>3. Queued(fs1) \subseteq Queued(fs) \cup {f}
  BY <1>1 DEF Queued
<1>4. \A y : (IsLater(x, y) => IsLater(f, y)) /\ (IsLater(y, x) => IsLater(y, f))
  BY DEF IsLater
<1>5. \A i \in 1 .. Len(fs) : IsLater(f, fs[i])
  BY <1>1, <1>2, <1>4, Zenon DEF LineInv, InLine, AllLater, Queued
<1>6. Ordered(fs1)
  <2>1. ASSUME NEW i \in DOMAIN fs1, NEW j \in DOMAIN fs1, i < j
        PROVE  IsLater(fs1[j], fs1[i])
    <3>1. i \in 1 .. Len(fs)
      BY <1>1, <2>1
    <3>2. CASE j = Len(fs) + 1
      BY <1>1, <1>5, <3>1, <3>2, Zenon
    <3>3. CASE j # Len(fs) + 1
      <4>1. j \in 1 .. Len(fs)
        BY <1>1, <2>1, <3>3
      <4> QED BY <1>1, <2>1, <3>1, <4>1, Zenon DEF LineInv, Ordered
    <3> QED BY <3>2, <3>3
  <2> QED BY <2>1 DEF Ordered
<1>7. Read({x}, g, p) /\ InLine({last}, Queued(fs), {x}, InCodec(d), {}, ToFetch(q))
  BY <1>2, Zenon DEF LineInv
<1>8. InLine({last}, Queued(fs1), {}, InCodec(d), {}, ToFetch(q))
  <2> HIDE DEF x
  <2>1. InLine({last}, Queued(fs) \cup {f}, {}, InCodec(d), {}, ToFetch(q))
    BY <1>4, <1>7, Zenon DEF InLine, AllLater
  <2> QED BY <1>3, <2>1, Narrows
<1>9. Read(Queued(fs1), g, p) /\ Read({}, g, p)
  BY <1>3, <1>7 DEF LineInv, Read
<1>10. Ordered(d1.codec)
  BY Zenon DEF LineInv
<1> QED BY <1>2, <1>6, <1>8, <1>9, <1>10, Zenon DEF LineInv, fs1

(* A frame leaves the queue, presented or dropped.                         *)
LEMMA NextOrder ==
  ASSUME NEW q, NEW d, NEW fs \in Seq(Frame), NEW last, NEW last1, NEW g, NEW p,
         fs # <<>>, last1 \in {last, Head(fs)}, LineInv(q, d, fs, last, g, p)
  PROVE  LineInv(q, d, Tail(fs), last1, g, p) /\ IsLater(Head(fs), last)
<1> DEFINE f == Head(fs)
           fs1 == Tail(fs)
<1>1. /\ 1 \in DOMAIN fs /\ f = fs[1]
      /\ \A i \in DOMAIN fs1 : i + 1 \in DOMAIN fs /\ 1 < i + 1 /\ fs1[i] = fs[i + 1]
      /\ \A i, j \in DOMAIN fs1 : i < j => i + 1 < j + 1
  OBVIOUS
<1> HIDE DEF f, fs1
<1>2. Queued(fs1) \subseteq Queued(fs) /\ f \in Queued(fs)
  BY <1>1 DEF Queued
<1>3. AllLater(Queued(fs1), {f})
  BY <1>1, Zenon DEF AllLater, Queued, LineInv, Ordered
<1>4. Ordered(fs1)
  BY <1>1, Zenon DEF Ordered, LineInv
<1>5. InLine({last1}, Queued(fs1), InHand(d), InCodec(d), Fetched(d), ToFetch(q))
  <2>1. CASE last1 = last
    BY <1>2, <2>1, Narrows DEF LineInv
  <2>2. CASE last1 = f
    BY <1>2, <1>3, <2>2 DEF LineInv, InLine, AllLater
  <2> QED BY <2>1, <2>2 DEF f
<1>6. Read({last1}, g, p) /\ Read(Queued(fs1), g, p)
  BY <1>2 DEF LineInv, Read, f
<1>7. IsLater(f, last)
  BY <1>2, Zenon DEF LineInv, InLine, AllLater
<1> QED BY <1>4, <1>5, <1>6, <1>7, Zenon DEF LineInv, f, fs1

(* The demuxer reads on: a packet, later than all there is.                *)
LEMMA PutOrder ==
  ASSUME NEW q \in PacketQueueType, NEW d \in DecoderType, NEW fs \in Seq(Frame),
         NEW last \in Frame, NEW g \in Nat, NEW p \in Nat, NEW p1 \in Nat,
         NEW x \in AVPacket,
         \/ IsNull(x) /\ p1 = p
         \/ x.gen = g /\ x.pos = p1 /\ p1 = p + 1,
         LineInv(q, d, fs, last, g, p)
  PROVE  LineInv(packet_queue_put(q, x), d, fs, last, g, p1)
<1> DEFINE r == packet_queue_put(q, x)
           n == Len(q.pkt_list)
           Things == {last} \cup Queued(fs) \cup InHand(d) \cup InCodec(d) \cup Fetched(d)
                       \cup ToFetch(q)
<1>1. /\ n \in Nat /\ DOMAIN q.pkt_list = 1 .. n
      /\ \A i \in 1 .. n : q.pkt_list[i].pkt \in AVPacket
      /\ \/ r = q
         \/ /\ DOMAIN r.pkt_list = 1 .. n + 1
            /\ \A i \in 1 .. n : r.pkt_list[i] = q.pkt_list[i]
            /\ r.pkt_list[n + 1].pkt = x
  <2>1. /\ n \in Nat /\ DOMAIN q.pkt_list = 1 .. n /\ r \in PacketQueueType
        /\ \A i \in 1 .. n : q.pkt_list[i].pkt \in AVPacket
        /\ DOMAIN r.pkt_list = 1 .. Len(r.pkt_list)
    BY PutLeaves, QueueFields, Zenon
  <2>2. \/ r = q
        \/ /\ Len(r.pkt_list) = n + 1 /\ \A i \in 1 .. n : r.pkt_list[i] = q.pkt_list[i]
           /\ r.pkt_list[n + 1] = [pkt |-> x, serial |-> q.serial]
    BY PutLeaves, Zenon
  <2> HIDE DEF r, n
  <2>3. [pkt |-> x, serial |-> q.serial].pkt = x
    OBVIOUS
  <2> QED BY <2>1, <2>2, <2>3
<1> HIDE DEF r, n
<1>2. ASSUME NEW a \in Things
      PROVE  /\ a.gen \in Nat /\ a.pos \in Nat
             /\ a.gen < g \/ (a.gen = g /\ a.pos <= p)
  <2>1. End \in Nat
    BY Parameters
  <2>2. \A b \in Frame : b.gen \in Nat /\ b.pos \in Nat
    BY <2>1 DEF Frame
  <2>3. \A b \in AVPacket : b.gen \in Nat /\ b.pos \in Nat
    BY <2>1 DEF AVPacket
  <2>4. a \in Frame \/ a \in AVPacket
    <3>1. Queued(fs) \subseteq Frame /\ InCodec(d) \subseteq Frame
      BY FramesFields, DecoderFields DEF Queued, InCodec
    <3>2. InHand(d) \subseteq Frame /\ Fetched(d) \subseteq AVPacket
      BY DecoderFields DEF InHand, Fetched
    <3>3. ToFetch(q) \subseteq AVPacket
      BY <1>1 DEF ToFetch
    <3> QED BY <3>1, <3>2, <3>3
  <2>5. a.gen < g \/ (a.gen = g /\ a.pos <= p)
    BY DEF LineInv, Read
  <2> QED BY <2>2, <2>3, <2>4, <2>5
<1>3. \A a \in Things : a.gen < g \/ (a.gen = g /\ a.pos <= p1)
  BY <1>2
<1>4. ~IsNull(x) => \A a \in Things : IsLater(x, a)
  BY <1>2, Parameters DEF IsNull, IsLater, NullPacket
<1>5. ToFetch(r) \subseteq ToFetch(q) \cup (IF IsNull(x) THEN {} ELSE {x})
  <2>1. ASSUME NEW i \in DOMAIN r.pkt_list, ~IsNull(r.pkt_list[i].pkt)
        PROVE  r.pkt_list[i].pkt \in ToFetch(q) \/ r.pkt_list[i].pkt = x
    BY <1>1, <2>1, SMTT(30) DEF ToFetch
  <2> QED BY <2>1 DEF ToFetch
<1>6. OrderedPackets(r)
  <2>1. ASSUME NEW i \in DOMAIN r.pkt_list, NEW j \in DOMAIN r.pkt_list, i < j,
               ~IsNull(r.pkt_list[i].pkt), ~IsNull(r.pkt_list[j].pkt), r # q
        PROVE  IsLater(r.pkt_list[j].pkt, r.pkt_list[i].pkt)
    <3>1. i \in 1 .. n
      BY <1>1, <2>1
    <3>2. r.pkt_list[i].pkt \in ToFetch(q)
      BY <1>1, <2>1, <3>1 DEF ToFetch
    <3>3. CASE j = n + 1
      BY <1>1, <1>4, <2>1, <3>2, <3>3
    <3>4. CASE j # n + 1
      <4>1. j \in 1 .. n
        BY <1>1, <2>1, <3>4
      <4> QED BY <1>1, <2>1, <3>1, <4>1, Zenon DEF LineInv, OrderedPackets
    <3> QED BY <3>3, <3>4
  <2>2. CASE r = q
    BY <2>2 DEF LineInv
  <2> QED BY <2>1, <2>2 DEF OrderedPackets
<1>7. InLine({last}, Queued(fs), InHand(d), InCodec(d), Fetched(d), ToFetch(r))
  <2>1. CASE IsNull(x)
    BY <1>5, <2>1, Narrows DEF LineInv
  <2>2. CASE ~IsNull(x)
    <3>1. InLine({last}, Queued(fs), InHand(d), InCodec(d), Fetched(d), ToFetch(q) \cup {x})
      BY <1>4, <2>2, Zenon DEF LineInv, InLine, AllLater
    <3> QED BY <1>5, <2>2, <3>1, Narrows
  <2> QED BY <2>1, <2>2
<1>8. /\ Read({last}, g, p1) /\ Read(Queued(fs), g, p1) /\ Read(InHand(d), g, p1)
      /\ Read(InCodec(d), g, p1) /\ Read(Fetched(d), g, p1) /\ Read(ToFetch(q), g, p1)
  BY <1>3 DEF Read
<1>9. Read(ToFetch(r), g, p1)
  <2>1. (x.gen = g /\ x.pos <= p1) \/ IsNull(x)
    OBVIOUS
  <2> QED BY <1>5, <1>8, <2>1 DEF Read
<1> QED BY <1>6, <1>7, <1>8, <1>9, Zenon DEF LineInv, r

(* Another demuxer position, in a later generation.                        *)
LEMMA SeekOrder ==
  ASSUME NEW q \in PacketQueueType, NEW d \in DecoderType, NEW fs \in Seq(Frame),
         NEW last \in Frame, NEW g \in Nat, NEW p, NEW p1, LineInv(q, d, fs, last, g, p)
  PROVE  LineInv(q, d, fs, last, g + 1, p1)
<1>1. \A b \in Frame : b.gen \in Nat
  BY DEF Frame
<1>2. \A b \in AVPacket : b.gen \in Nat
  BY DEF AVPacket
<1>3. Queued(fs) \subseteq Frame /\ InCodec(d) \subseteq Frame
  BY FramesFields, DecoderFields DEF Queued, InCodec
<1>4. InHand(d) \subseteq Frame /\ Fetched(d) \subseteq AVPacket
  BY DecoderFields DEF InHand, Fetched
<1>5. ToFetch(q) \subseteq AVPacket
  BY QueueFields DEF ToFetch
<1>6. \A A : A \subseteq Frame \/ A \subseteq AVPacket =>
        (Read(A, g, p) => Read(A, g + 1, p1))
  BY <1>1, <1>2 DEF Read
<1>7. {last} \subseteq Frame
  OBVIOUS
<1> QED BY <1>3, <1>4, <1>5, <1>6, <1>7, Zenon DEF LineInv

(* The demuxer reads on in another stream.                                 *)
LEMMA ReadsOn ==
  ASSUME NEW q \in PacketQueueType, NEW d \in DecoderType, NEW fs \in Seq(Frame),
         NEW last \in Frame, NEW g \in Nat, NEW p \in Nat, LineInv(q, d, fs, last, g, p)
  PROVE  LineInv(q, d, fs, last, g, p + 1)
<1>1. \A b \in Frame : b.pos \in Nat
  BY Parameters DEF Frame
<1>2. \A b \in AVPacket : b.pos \in Nat
  BY Parameters DEF AVPacket
<1>3. Queued(fs) \subseteq Frame /\ InCodec(d) \subseteq Frame
  BY FramesFields, DecoderFields DEF Queued, InCodec
<1>4. InHand(d) \subseteq Frame /\ Fetched(d) \subseteq AVPacket
  BY DecoderFields DEF InHand, Fetched
<1>5. ToFetch(q) \subseteq AVPacket
  BY QueueFields DEF ToFetch
<1>6. \A A : A \subseteq Frame \/ A \subseteq AVPacket =>
        (Read(A, g, p) => Read(A, g, p + 1))
  BY <1>1, <1>2 DEF Read
<1>7. {last} \subseteq Frame
  OBVIOUS
<1> QED BY <1>3, <1>4, <1>5, <1>6, <1>7, Zenon DEF LineInv

(* A flush or an abort of the queue only drops packets.                    *)
LEMMA DropOrder ==
  ASSUME NEW q, NEW r, NEW d, NEW fs, NEW last, NEW g, NEW p,
         r.pkt_list = <<>> \/ r.pkt_list = q.pkt_list, LineInv(q, d, fs, last, g, p)
  PROVE  LineInv(r, d, fs, last, g, p)
<1>1. ToFetch(r) \subseteq ToFetch(q) /\ OrderedPackets(r)
  BY DEF ToFetch, OrderedPackets, LineInv
<1>2. InLine({last}, Queued(fs), InHand(d), InCodec(d), Fetched(d), ToFetch(r))
  BY <1>1, Narrows DEF LineInv
<1>3. Read(ToFetch(r), g, p)
  BY <1>1, Zenon DEF LineInv, Read
<1> QED BY <1>1, <1>2, <1>3, Zenon DEF LineInv
-----------------------------------------------------------------------------
(* Steps that change one stream.                                           *)
LEMMA OneLine ==
  ASSUME OrderInv, NEW s \in Streams, gen' = gen, pos' = pos,
         \A t \in Streams \ {s} : /\ queue'[t] = queue[t] /\ dec'[t] = dec[t]
                                  /\ frames'[t] = frames[t] /\ shown'[t] = shown[t],
         LineInv(queue'[s], dec'[s], frames'[s], shown'[s], gen, pos),
         epc' \in {"due", "show"} => vp' = Head(frames'[Video])
  PROVE  OrderInv'
<1>1. ASSUME NEW t \in Streams
      PROVE  LineInv(queue'[t], dec'[t], frames'[t], shown'[t], gen', pos')
  <2>1. CASE t = s
    BY <2>1, Zenon
  <2>2. CASE t # s
    <3>1. /\ queue'[t] = queue[t] /\ dec'[t] = dec[t] /\ frames'[t] = frames[t]
          /\ shown'[t] = shown[t]
      BY <2>2, Zenon
    <3>2. LineInv(queue[t], dec[t], frames[t], shown[t], gen, pos)
      BY DEF OrderInv
    <3> QED BY <3>1, <3>2, Zenon
  <2> QED BY <2>1, <2>2
<1> QED BY <1>1, Zenon DEF OrderInv

(* A step of the decoder of s, given what it does to the line of s.         *)
LEMMA DecoderLine ==
  ASSUME IInv, OrderInv, NEW s \in Streams, UNCHANGED <<gen, pos, shown, epc, vp>>,
         \A t \in Streams \ {s} : /\ queue'[t] = queue[t] /\ dec'[t] = dec[t]
                                  /\ frames'[t] = frames[t],
         frames'[s] = frames[s] \/ \E f \in Frame : frames'[s] = Append(frames[s], f),
         LineInv(queue[s], dec[s], frames[s], shown[s], gen, pos) =>
           LineInv(queue'[s], dec'[s], frames'[s], shown[s], gen, pos)
  PROVE  OrderInv'
<1>1. LineInv(queue'[s], dec'[s], frames'[s], shown'[s], gen, pos)
  BY Zenon DEF OrderInv
<1>2. epc' \in {"due", "show"} => vp' = Head(frames'[Video])
  <2>1. SUFFICES ASSUME epc \in {"due", "show"} PROVE vp = Head(frames'[Video])
    OBVIOUS
  <2>2. Video \in Streams /\ frames[Video] # <<>> /\ vp = Head(frames[Video])
    BY <2>1 DEF IInv, StageInv, OrderInv
  <2>3. frames[Video] \in Seq(Frame)
    BY <2>2, Known
  <2>4. \A f \in Frame : Head(Append(frames[Video], f)) = Head(frames[Video])
    BY <2>2, <2>3
  <2>5. frames'[Video] = frames[Video]
          \/ \E f \in Frame : frames'[Video] = Append(frames[Video], f)
    BY <2>2
  <2> QED BY <2>2, <2>4, <2>5
<1> QED BY <1>1, <1>2, OneLine

(* The decoder moves on with nothing in hand.                              *)
LEMMA DecoderRests ==
  ASSUME IInv, OrderInv, NEW s \in Streams,
         UNCHANGED <<gen, pos, shown, epc, vp, queue, frames>>,
         \A t \in Streams \ {s} : dec'[t] = dec[t],
         dec'[s].codec = dec[s].codec, dec'[s].pc \notin {"send", "queue"}
  PROVE  OrderInv'
<1>1. LineInv(queue[s], dec[s], frames[s], shown[s], gen, pos) =>
        LineInv(queue'[s], dec'[s], frames'[s], shown[s], gen, pos)
  BY MoveOrder
<1> QED BY <1>1, DecoderLine

LEMMA DecoderOrder ==
  ASSUME IInv, OrderInv, DropEarly \/ \E s \in Streams : DecoderThread(s)
  PROVE  OrderInv'
<1>1. ASSUME NEW s \in Streams, FetchAborted(s) PROVE OrderInv'
  <2>1. /\ \A t \in Streams \ {s} : dec'[t] = dec[t]
        /\ dec'[s].codec = dec[s].codec /\ dec'[s].pc = "exit"
    BY <1>1, Known DEF FetchAborted, DecoderType
  <2> QED BY <1>1, <2>1, DecoderRests DEF FetchAborted
<1>2. ASSUME NEW s \in Streams, QueueAborted(s) PROVE OrderInv'
  <2>1. /\ \A t \in Streams \ {s} : dec'[t] = dec[t]
        /\ dec'[s].codec = dec[s].codec /\ dec'[s].pc = "exit"
    BY <1>2, Known DEF QueueAborted, DecoderType
  <2> QED BY <1>2, <2>1, DecoderRests DEF QueueAborted
<1>3. CASE DropEarly
  <2>1. Video \in Streams
    BY <1>3 DEF DropEarly
  <2>2. /\ \A t \in Streams \ {Video} : dec'[t] = dec[t]
        /\ dec'[Video].codec = dec[Video].codec /\ dec'[Video].pc = "receive"
    BY <1>3, <2>1, Known DEF DropEarly, DecoderType
  <2> QED BY <1>3, <2>1, <2>2, DecoderRests DEF DropEarly
<1>4. ASSUME NEW s \in Streams, Receive(s) PROVE OrderInv'
  <2>1. UNCHANGED <<gen, pos, shown, epc, vp, queue, frames>> /\ dec[s].pc = "receive"
    BY <1>4 DEF Receive
  <2>2. \A t \in Streams \ {s} : dec'[t] = dec[t]
    BY <1>4, Known DEF Receive
  <2>3. \/ dec'[s].codec = dec[s].codec /\ dec'[s].pc \notin {"send", "queue"}
        \/ /\ dec[s].codec # <<>> /\ dec'[s].pc = "queue"
           /\ dec'[s].codec = Tail(dec[s].codec) /\ dec'[s].frame = Head(dec[s].codec)
    BY <1>4, Known DEF Receive, DecoderType
  <2>4. CASE dec'[s].codec = dec[s].codec /\ dec'[s].pc \notin {"send", "queue"}
    BY <2>1, <2>2, <2>4, DecoderRests
  <2>5. CASE /\ dec[s].codec # <<>> /\ dec'[s].pc = "queue"
             /\ dec'[s].codec = Tail(dec[s].codec) /\ dec'[s].frame = Head(dec[s].codec)
    <3>1. LineInv(queue[s], dec[s], frames[s], shown[s], gen, pos) =>
            LineInv(queue'[s], dec'[s], frames'[s], shown[s], gen, pos)
      BY <2>1, <2>5, Known, TakeOrder
    <3> QED BY <2>1, <2>2, <3>1, DecoderLine
  <2> QED BY <2>3, <2>4, <2>5
<1>5. ASSUME NEW s \in Streams, Fetch(s) PROVE OrderInv'
  <2>1. /\ UNCHANGED <<gen, pos, shown, epc, vp, frames>> /\ dec[s].pc = "fetch"
        /\ CanGet(queue[s])
    BY <1>5 DEF Fetch
  <2>2. \A t \in Streams \ {s} : dec'[t] = dec[t] /\ queue'[t] = queue[t]
    BY <1>5, Known DEF Fetch
  <2>3. /\ queue'[s] = packet_queue_get(queue[s])
        /\ dec'[s].pc = "send" /\ dec'[s].pkt = Got(queue[s]).pkt
        /\ dec'[s].codec = <<>> \/ dec'[s].codec = dec[s].codec
    BY <1>5, Known DEF Fetch, DecoderType
  <2>4. LineInv(queue[s], dec[s], frames[s], shown[s], gen, pos) =>
          LineInv(queue'[s], dec'[s], frames'[s], shown[s], gen, pos)
    BY <2>1, <2>3, Known, FetchOrder
  <2> QED BY <2>1, <2>2, <2>4, DecoderLine
<1>6. ASSUME NEW s \in Streams, Send(s) PROVE OrderInv'
  <2>1. UNCHANGED <<gen, pos, shown, epc, vp, queue, frames>> /\ dec[s].pc = "send"
    BY <1>6 DEF Send
  <2>2. \A t \in Streams \ {s} : dec'[t] = dec[t]
    BY <1>6, Known DEF Send
  <2>3. CASE queue[s].serial # dec[s].pkt_serial \/ IsNull(dec[s].pkt)
    <3>1. dec'[s].codec = dec[s].codec /\ dec'[s].pc \notin {"send", "queue"}
      BY <1>6, <2>3, Known DEF Send, DecoderType
    <3> QED BY <2>1, <2>2, <3>1, DecoderRests
  <2>4. CASE queue[s].serial = dec[s].pkt_serial /\ ~IsNull(dec[s].pkt)
    <3> DEFINE f == [gen |-> dec[s].pkt.gen, pos |-> dec[s].pkt.pos,
                     serial |-> dec[s].pkt_serial]
    <3>1. f \in Frame
      <4>1. /\ dec[s].pkt.gen \in Nat /\ dec[s].pkt.pos \in 0 .. End
            /\ dec[s].pkt_serial \in Nat
        BY <2>4, Known, DecoderFields, QueueFields DEF AVPacket
      <4> QED BY <4>1 DEF Frame
    <3>2. f.gen = dec[s].pkt.gen /\ f.pos = dec[s].pkt.pos
      OBVIOUS
    <3>3. /\ dec'[s].pc = "receive"
          /\ dec'[s].codec = IF dec[s].draining THEN dec[s].codec
                                                ELSE Append(dec[s].codec, f)
      BY <1>6, <2>4, Known DEF Send, DecoderType
    <3> HIDE DEF f
    <3>4. LineInv(queue[s], dec[s], frames[s], shown[s], gen, pos) =>
            LineInv(queue'[s], dec'[s], frames'[s], shown[s], gen, pos)
      BY <2>1, <2>4, <3>1, <3>2, <3>3, Known, SendOrder
    <3> QED BY <2>1, <2>2, <3>4, DecoderLine
  <2> QED BY <2>3, <2>4
<1>7. ASSUME NEW s \in Streams, QueueFrame(s) PROVE OrderInv'
  <2> DEFINE f == [dec[s].frame EXCEPT !.serial = dec[s].pkt_serial]
  <2>1. UNCHANGED <<gen, pos, shown, epc, vp, queue>> /\ dec[s].pc = "queue"
    BY <1>7 DEF QueueFrame
  <2>2. f \in Frame /\ f.gen = dec[s].frame.gen /\ f.pos = dec[s].frame.pos
    <3>1. /\ dec[s].frame \in Frame /\ dec[s].frame.serial = dec[s].pkt_serial
          /\ dec[s].frame.serial \in Nat
      BY <2>1, Known, DecoderFields DEF SerialInv
    <3> QED BY <3>1 DEF Frame
  <2>3. frames' = [frames EXCEPT ![s] = Append(frames[s], f)]
    BY <1>7 DEF QueueFrame
  <2> HIDE DEF f
  <2>4. \A t \in Streams \ {s} : dec'[t] = dec[t] /\ frames'[t] = frames[t]
    BY <1>7, <2>3, Known DEF QueueFrame
  <2>5. /\ frames'[s] = Append(frames[s], f)
        /\ dec'[s].pc = "receive" /\ dec'[s].codec = dec[s].codec
    BY <1>7, <2>3, Known DEF QueueFrame, DecoderType
  <2>6. LineInv(queue[s], dec[s], frames[s], shown[s], gen, pos) =>
          LineInv(queue'[s], dec'[s], frames'[s], shown[s], gen, pos)
    BY <2>1, <2>2, <2>5, Known, QueueOrder
  <2> QED BY <2>1, <2>2, <2>4, <2>5, <2>6, DecoderLine
<1> QED BY <1>1, <1>2, <1>3, <1>4, <1>5, <1>6, <1>7 DEF DecoderThread
-----------------------------------------------------------------------------
Quiet ==
  /\ UNCHANGED <<gen, pos, queue, dec, frames, shown, vp>>
  /\ epc' \in {"due", "show"} => epc \in {"due", "show"}

(* All other steps leave the line, and the picture to be shown.            *)
LEMMA Steps ==
  ASSUME IInv, Next
  PROVE  \/ DropEarly \/ \E s \in Streams : DecoderThread(s)
         \/ AudioTakes \/ RefreshStale \/ Dequeue \/ NotDue \/ DropLate \/ ShowPicture
         \/ SeekFile \/ ReadPacket \/ ReadEof
         \/ \E s \in Streams : SeekFlush(s) \/ AbortComponent(s) \/ JoinComponent(s)
         \/ Quiet
<1>1. ASSUME ReadTop \/ SeekFails \/ SeekDone \/ SeekPaused \/ ReadStepTest
               \/ ReadToggleLoad \/ ReadToggleStore \/ ReadStepSet \/ ReadCheckFull
      PROVE  Quiet
  BY <1>1 DEF ReadTop, SeekFails, SeekDone, SeekPaused, ReadStepTest, ReadToggleLoad,
              ReadToggleStore, ReadStepSet, ReadCheckFull, Quiet
<1>2. ASSUME PlayedTest \/ (\E s \in Streams : FinishedTest(s) \/ RemainingTest(s))
               \/ Restart \/ RestartSeekPos \/ RestartSeekReq \/ AutoExits \/ StaysAtEnd
      PROVE  Quiet
  BY <1>2 DEF PlayedTest, FinishedTest, RemainingTest, Restart, RestartSeekPos,
              RestartSeekReq, AutoExits, StaysAtEnd, Quiet
<1>3. ASSUME AudioStarts \/ AudioSilence \/ Due \/ EndStep
      PROVE  Quiet
  BY <1>3 DEF AudioStarts, AudioSilence, Due, EndStep, Quiet
<1>4. ASSUME FinishTask \/ RequestSeek \/ TogglePause \/ StepToNextFrame \/ StopPlayer
      PROVE  Quiet
  <2>1. CASE FinishTask
    <3>1. UNCHANGED <<gen, pos, queue, dec, frames, shown, vp>>
      BY <2>1 DEF FinishTask, RequestSeekPos, RequestSeekReq, ToggleLoad,
             ToggleStore, ClearStep, SetStep
    <3>2. epc' \notin {"due", "show"} \/ epc' = after
      BY <2>1 DEF FinishTask, RequestSeekPos, RequestSeekReq, ToggleLoad,
             ToggleStore, ClearStep, SetStep
    <3>3. after \notin {"due", "show"}
      BY DEF IInv, TypeOK, ControlType
    <3> QED BY <3>1, <3>2, <3>3 DEF Quiet
  <2>2. CASE RequestSeek \/ TogglePause \/ StepToNextFrame \/ StopPlayer
    BY <2>2 DEF RequestSeek, TogglePause, StepToNextFrame, StopPlayer, Quiet
  <2> QED BY <1>4, <2>1, <2>2
<1>5. ASSUME StreamClose \/ JoinReadThread
      PROVE  Quiet
  BY <1>5 DEF StreamClose, JoinReadThread, Quiet
<1>6. ReadThread => \/ SeekFile \/ ReadPacket \/ ReadEof \/ \E s \in Streams : SeekFlush(s)
                    \/ Quiet
  BY <1>1, <1>2, Zenon DEF ReadThread
<1>7. AudioThread \/ Refresh =>
        AudioTakes \/ RefreshStale \/ Dequeue \/ NotDue \/ DropLate \/ ShowPicture \/ Quiet
  BY <1>3, Zenon DEF AudioThread, Refresh
<1>8. FinishTask \/ Close \/ Application =>
        (\E s \in Streams : AbortComponent(s) \/ JoinComponent(s)) \/ Quiet
  BY <1>4, <1>5, Zenon DEF Close, Application
<1> QED BY <1>6, <1>7, <1>8, Zenon DEF Next

LEMMA Lines ==
  ASSUME IInv, OrderInv, NEW s \in Streams
  PROVE  /\ LineInv(queue[s], dec[s], frames[s], shown[s], gen, pos)
         /\ shown \in [Streams -> Frame] /\ shown[s] \in Frame
BY DEF IInv, TypeOK, DataType, OrderInv

(* A presenter takes a frame.                                              *)
LEMMA TakesOrder ==
  ASSUME IInv, OrderInv, NEW s \in Streams, frames[s] # <<>>, NextFrame(s),
         UNCHANGED <<gen, pos, queue, dec>>, NEW last1 \in {shown[s], Head(frames[s])},
         shown' = shown \/ shown' = [shown EXCEPT ![s] = Head(frames[s])],
         shown'[s] = last1,
         epc' \in {"due", "show"} => s # Video /\ epc' = epc /\ vp' = vp
  PROVE  OrderInv' /\ IsLater(Head(frames[s]), shown[s])
<1>1. /\ LineInv(queue[s], dec[s], Tail(frames[s]), last1, gen, pos)
      /\ IsLater(Head(frames[s]), shown[s])
  BY Lines, Known, NextOrder
<1>2. /\ frames'[s] = Tail(frames[s])
      /\ \A t \in Streams \ {s} : frames'[t] = frames[t] /\ shown'[t] = shown[t]
  BY Known, Lines DEF NextFrame
<1>3. LineInv(queue'[s], dec'[s], frames'[s], shown'[s], gen, pos)
  BY <1>1, <1>2
<1>4. epc' \in {"due", "show"} => vp' = Head(frames'[Video])
  <2>1. epc \in {"due", "show"} => Video \in Streams /\ vp = Head(frames[Video])
    BY DEF IInv, StageInv, OrderInv
  <2> QED BY <1>2, <2>1
<1> QED BY <1>1, <1>2, <1>3, <1>4, OneLine

LEMMA InitOrder ==
  ASSUME Init
  PROVE  OrderInv
<1>1. ASSUME NEW s \in Streams
      PROVE  LineInv(queue[s], dec[s], frames[s], shown[s], gen, pos)
  <2>1. /\ queue[s].pkt_list = <<>> /\ frames[s] = <<>> /\ shown[s] = NoFrame
        /\ dec[s].pc = "receive" /\ dec[s].codec = <<>> /\ gen = 1
    BY DEF Init, packet_queue_start, packet_queue_init, NewDecoder
  <2>2. /\ Queued(frames[s]) = {} /\ InHand(dec[s]) = {} /\ InCodec(dec[s]) = {}
        /\ Fetched(dec[s]) = {} /\ ToFetch(queue[s]) = {}
    BY <2>1 DEF Queued, InHand, InCodec, Fetched, ToFetch
  <2>3. InLine({NoFrame}, {}, {}, {}, {}, {})
    BY DEF InLine, AllLater
  <2>4. Read({NoFrame}, 1, pos) /\ Read({}, 1, pos)
    BY DEF Read, NoFrame
  <2>5. Ordered(frames[s]) /\ Ordered(dec[s].codec) /\ OrderedPackets(queue[s])
    BY <2>1 DEF Ordered, OrderedPackets
  <2> QED BY <2>1, <2>2, <2>3, <2>4, <2>5, Zenon DEF LineInv
<1> QED BY <1>1 DEF OrderInv, Init

(* read_thread and stream_component_close, where they touch a queue.       *)
LEMMA FeedOrder ==
  ASSUME IInv, OrderInv,
         \/ SeekFile \/ ReadPacket \/ ReadEof
         \/ \E s \in Streams : SeekFlush(s) \/ AbortComponent(s) \/ JoinComponent(s)
  PROVE  OrderInv'
<1>1. CASE SeekFile
  <2>1. UNCHANGED <<queue, dec, frames, shown, epc, vp>> /\ gen' = gen + 1
    BY <1>1 DEF SeekFile
  <2>2. \A s \in Streams : LineInv(queue[s], dec[s], frames[s], shown[s], gen + 1, pos')
    BY Known, Lines, SeekOrder
  <2> QED BY <2>1, <2>2, Zenon DEF OrderInv
<1>2. CASE ReadPacket
  <2> DEFINE s == Layout[pos + 1]
             x == [gen |-> gen, pos |-> pos + 1]
  <2>1. pos + 1 \in 1 .. End /\ gen \in Nat /\ pos \in Nat /\ pos + 1 \in Nat
    BY <1>2, Parameters DEF ReadPacket, IInv, TypeOK, DataType
  <2>2. x \in AVPacket /\ x.gen = gen /\ x.pos = pos + 1
    BY <2>1, Parameters DEF AVPacket
  <2>3. s \in Streams
    BY <2>1, Parameters
  <2>4. /\ queue' = [queue EXCEPT ![s] = packet_queue_put(queue[s], x)]
        /\ UNCHANGED <<gen, dec, frames, shown, epc, vp>> /\ pos' = pos + 1
    BY <1>2 DEF ReadPacket
  <2> HIDE DEF s, x
  <2>5. ASSUME NEW t \in Streams
        PROVE  LineInv(queue'[t], dec'[t], frames'[t], shown'[t], gen', pos')
    <3>1. CASE t = s
      <4>1. queue'[s] = packet_queue_put(queue[s], x)
        BY <2>3, <2>4, Known
      <4>2. LineInv(packet_queue_put(queue[s], x), dec[s], frames[s], shown[s], gen, pos + 1)
        BY <2>1, <2>2, <2>3, Known, Lines, PutOrder
      <4> QED BY <2>4, <3>1, <4>1, <4>2, Zenon
    <3>2. CASE t # s
      <4>1. queue'[t] = queue[t]
        BY <2>3, <2>4, <3>2, Known
      <4>2. LineInv(queue[t], dec[t], frames[t], shown[t], gen, pos + 1)
        BY <2>1, Known, Lines, ReadsOn
      <4> QED BY <2>4, <4>1, <4>2, Zenon
    <3> QED BY <3>1, <3>2
  <2> QED BY <2>4, <2>5, Zenon DEF OrderInv
<1>3. CASE ReadEof
  <2>1. /\ UNCHANGED <<gen, pos, dec, frames, shown, epc, vp>>
        /\ \/ queue' = queue
           \/ queue' = [s \in Streams |-> packet_queue_put(queue[s], NullPacket)]
    BY <1>3 DEF ReadEof
  <2>2. ASSUME NEW t \in Streams
        PROVE  LineInv(queue'[t], dec[t], frames[t], shown[t], gen, pos)
    <3>1. CASE queue' = queue
      BY <3>1, Lines
    <3>2. CASE queue' = [s \in Streams |-> packet_queue_put(queue[s], NullPacket)]
      <4>1. queue'[t] = packet_queue_put(queue[t], NullPacket)
        BY <3>2
      <4>2. pos \in Nat
        BY Known
      <4>3. LineInv(packet_queue_put(queue[t], NullPacket), dec[t], frames[t], shown[t],
                    gen, pos)
        BY <4>2, Known, Lines, Packets, PutOrder
      <4> QED BY <4>1, <4>3
    <3> QED BY <2>1, <3>1, <3>2
  <2> QED BY <2>1, <2>2, Zenon DEF OrderInv
<1>4. ASSUME NEW s \in Streams, SeekFlush(s) \/ AbortComponent(s) \/ JoinComponent(s)
      PROVE  OrderInv'
  <2>1. UNCHANGED <<gen, pos, dec, frames, shown, vp>>
    BY <1>4 DEF SeekFlush, AbortComponent, JoinComponent
  <2>2. epc' \in {"due", "show"} => epc' = epc
    BY <1>4 DEF SeekFlush, AbortComponent, JoinComponent
  <2>3. PICK r : queue' = [queue EXCEPT ![s] = r]
                 /\ (r.pkt_list = <<>> \/ r.pkt_list = queue[s].pkt_list)
    <3>1. /\ packet_queue_flush(queue[s]).pkt_list = <<>>
          /\ packet_queue_abort(queue[s]).pkt_list = queue[s].pkt_list
      BY Known DEF packet_queue_flush, packet_queue_abort, PacketQueueType
    <3>2. \/ queue' = [queue EXCEPT ![s] = packet_queue_flush(queue[s])]
          \/ queue' = [queue EXCEPT ![s] = packet_queue_abort(queue[s])]
      BY <1>4 DEF SeekFlush, AbortComponent, JoinComponent
    <3> QED BY <3>1, <3>2, Zenon
  <2>4. queue'[s] = r /\ \A t \in Streams \ {s} : queue'[t] = queue[t]
    BY <2>3, Known
  <2>5. LineInv(r, dec[s], frames[s], shown[s], gen, pos)
    BY <2>3, Lines, DropOrder
  <2>6. epc' \in {"due", "show"} => vp' = Head(frames'[Video])
    BY <2>1, <2>2 DEF OrderInv
  <2> QED BY <2>1, <2>4, <2>5, <2>6, OneLine
<1> QED BY <1>1, <1>2, <1>3, <1>4

(* The presenters: what they choose is later than what they presented.      *)
LEMMA PresentOrder ==
  ASSUME IInv, OrderInv,
         AudioTakes \/ RefreshStale \/ Dequeue \/ NotDue \/ DropLate \/ ShowPicture
  PROVE  OrderInv' /\ \A s \in Streams : shown'[s] # shown[s] => IsLater(shown'[s], shown[s])
<1>0. /\ Audio # Video /\ open \subseteq Streams /\ shown \in [Streams -> Frame]
      /\ epc \in {"due", "show"} => Video \in Streams /\ frames[Video] # <<>>
                                    /\ vp = Head(frames[Video])
  BY DEF IInv, TypeOK, ControlType, DataType, StageInv, OrderInv, Audio, Video
<1>1. CASE AudioTakes
  <2>1. Audio \in Streams
    BY <1>1 DEF IInv, StageInv, AudioTakes
  <2>2. frames[Audio] # <<>> /\ NextFrame(Audio) /\ UNCHANGED <<gen, pos, queue, dec, epc, vp>>
    BY <1>1, <2>1, Known DEF AudioTakes, Remaining
  <2>3. shown' = shown \/ shown' = [shown EXCEPT ![Audio] = Head(frames[Audio])]
    BY <1>1 DEF AudioTakes
  <2>4. /\ shown'[Audio] \in {shown[Audio], Head(frames[Audio])}
        /\ \A t \in Streams \ {Audio} : shown'[t] = shown[t]
    BY <1>0, <2>1, <2>3
  <2>5. OrderInv' /\ IsLater(Head(frames[Audio]), shown[Audio])
    BY <1>0, <2>1, <2>2, <2>3, <2>4, TakesOrder
  <2> QED BY <2>4, <2>5
<1>2. CASE RefreshStale \/ DropLate
  <2>1. Video \in Streams /\ frames[Video] # <<>>
    BY <1>0, <1>2 DEF RefreshStale, Refreshes, Remaining, DropLate
  <2>2. /\ NextFrame(Video) /\ UNCHANGED <<gen, pos, queue, dec, shown>>
        /\ epc' = "loop"
    BY <1>2 DEF RefreshStale, Refreshes, DropLate
  <2>3. OrderInv'
    BY <2>1, <2>2, TakesOrder
  <2> QED BY <2>2, <2>3
<1>3. CASE ShowPicture
  <2>1. Video \in Streams /\ frames[Video] # <<>> /\ vp = Head(frames[Video])
    BY <1>0, <1>3 DEF ShowPicture
  <2>2. /\ NextFrame(Video) /\ UNCHANGED <<gen, pos, queue, dec>> /\ epc' = "shown"
        /\ shown' = [shown EXCEPT ![Video] = Head(frames[Video])]
    BY <1>3, <2>1 DEF ShowPicture
  <2>3. /\ shown'[Video] = Head(frames[Video])
        /\ \A t \in Streams \ {Video} : shown'[t] = shown[t]
    BY <1>0, <2>1, <2>2
  <2>4. OrderInv' /\ IsLater(Head(frames[Video]), shown[Video])
    BY <2>1, <2>2, <2>3, TakesOrder
  <2> QED BY <2>3, <2>4
<1>4. CASE Dequeue \/ NotDue
  <2>1. /\ UNCHANGED <<gen, pos, queue, dec, frames, shown>>
        /\ epc' \in {"due", "show"} => vp' = Head(frames[Video])
    BY <1>4 DEF Dequeue, NotDue
  <2> QED BY <2>1, Zenon DEF OrderInv
<1> QED BY <1>1, <1>2, <1>3, <1>4

LEMMA StepOrder ==
  ASSUME IInv, OrderInv, [Next]_vars
  PROVE  OrderInv'
<1>1. CASE Quiet \/ UNCHANGED vars
  <2>1. /\ UNCHANGED <<gen, pos, queue, dec, frames, shown, vp>>
        /\ epc' \in {"due", "show"} => epc \in {"due", "show"}
    BY <1>1 DEF Quiet
  <2> QED BY <2>1, Zenon DEF OrderInv
<1> QED BY <1>1, Steps, DecoderOrder, FeedOrder, PresentOrder, Zenon

(* All that is on its way through a stream is in the order of the file, from *)
(* the presenter back to the demuxer.                                      *)
THEOREM Line == Spec => []OrderInv
<1>1. Init => OrderInv
  BY InitOrder
<1>2. IInv /\ OrderInv /\ [Next]_vars => OrderInv'
  BY StepOrder
<1> QED BY <1>1, <1>2, Invariance, PTL DEF Spec

(* A picture or a sound is chosen only when nothing has been read since that *)
(* it should have given way to.                                            *)
LEMMA ChoosesCurrent ==
  ASSUME IInv, Next
  PROVE  /\ \A s \in Streams \ {Video} : shown'[s] # shown[s] => Current(s, shown'[s])
         /\ vp' \notin {vp, NoFrame} => Current(Video, vp')
<1>0. /\ Audio # Video /\ open \subseteq Streams /\ shown \in [Streams -> Frame]
      /\ Streams \subseteq {Audio, Video}
  BY Parameters DEF IInv, TypeOK, ControlType, DataType, Audio, Video
<1>1. ASSUME NEW s \in Streams, frames[s] # <<>>, Fresh(s, Head(frames[s]))
      PROVE  Head(frames[s]).gen = gen \/ Unflushed(s)
  <2>1. 1 \in DOMAIN frames[s] /\ Head(frames[s]) = frames[s][1]
    <3>1. frames[s] \in Seq(Frame)
      BY Known
    <3> QED BY <1>1, <3>1
  <2>2. ~Unflushed(s) => GenInv(queue[s], dec[s], frames[s], gen)
    BY Zenon DEF IInv, StreamInv
  <2> QED BY <1>1, <2>1, <2>2, Zenon DEF GenInv, Fresh
<1>2. CASE AudioTakes
  <2>1. Audio \in Streams /\ UNCHANGED <<gen, rpc, todo, vp>>
    BY <1>2 DEF IInv, StageInv, AudioTakes
  <2>2. frames[Audio] # <<>>
    BY <1>2, <2>1, Known DEF AudioTakes, Remaining
  <2>3. \/ shown' = shown
        \/ /\ Fresh(Audio, Head(frames[Audio]))
           /\ shown' = [shown EXCEPT ![Audio] = Head(frames[Audio])]
    BY <1>2 DEF AudioTakes
  <2>4. ASSUME Fresh(Audio, Head(frames[Audio])) PROVE Current(Audio, Head(frames[Audio]))
    BY <1>1, <2>1, <2>2, <2>4 DEF Current, Unflushed
  <2> QED BY <1>0, <2>1, <2>3, <2>4
<1>3. CASE Dequeue
  <2>1. Video \in Streams /\ frames[Video] # <<>> /\ Fresh(Video, Head(frames[Video]))
    BY <1>0, <1>3 DEF Dequeue, Refreshes, Remaining
  <2>2. shown' = shown /\ vp' = Head(frames[Video])
    BY <1>3 DEF Dequeue
  <2>3. Current(Video, Head(frames[Video]))
    BY <1>1, <2>1 DEF Current, Unflushed
  <2> QED BY <2>2, <2>3
<1>4. CASE ShowPicture
  <2>1. vp' = NoFrame /\ shown' = [shown EXCEPT ![Video] = vp]
    BY <1>4 DEF ShowPicture
  <2> QED BY <1>0, <2>1
<1>5. CASE \/ RefreshStale \/ NotDue \/ DropLate \/ SeekFile \/ ReadPacket \/ ReadEof
           \/ \E s \in Streams : SeekFlush(s) \/ AbortComponent(s) \/ JoinComponent(s)
  <2>1. shown' = shown /\ vp' \in {vp, NoFrame}
    BY <1>5 DEF RefreshStale, NotDue, DropLate, SeekFile, ReadPacket, ReadEof, SeekFlush,
                AbortComponent, JoinComponent
  <2> QED BY <2>1
<1>6. CASE DropEarly \/ \E s \in Streams : DecoderThread(s)
  <2>1. shown' = shown /\ vp' = vp
    BY <1>6 DEF DropEarly, DecoderThread, Receive, Fetch, FetchAborted, Send, QueueFrame,
                QueueAborted
  <2> QED BY <2>1
<1>7. CASE Quiet
  BY <1>7 DEF Quiet
<1> QED BY <1>2, <1>3, <1>4, <1>5, <1>6, <1>7, Steps, Zenon

(* What is presented of a stream is in the order of the file, seek after     *)
(* seek; and from the flush of its queue on, nothing read before the seek is *)
(* chosen.                                                                 *)
THEOREM InOrder == Spec => PresentsInOrder
<1>1. ASSUME IInv, OrderInv, Next
      PROVE  \A s \in Streams : shown'[s] # shown[s] => IsLater(shown'[s], shown[s])
  <2>1. CASE AudioTakes \/ RefreshStale \/ Dequeue \/ NotDue \/ DropLate \/ ShowPicture
    BY <1>1, <2>1, PresentOrder
  <2>2. CASE \/ SeekFile \/ ReadPacket \/ ReadEof
             \/ \E s \in Streams : SeekFlush(s) \/ AbortComponent(s) \/ JoinComponent(s)
    BY <2>2 DEF SeekFile, ReadPacket, ReadEof, SeekFlush, AbortComponent, JoinComponent
  <2>3. CASE DropEarly \/ \E s \in Streams : DecoderThread(s)
    BY <2>3 DEF DropEarly, DecoderThread, Receive, Fetch, FetchAborted, Send, QueueFrame,
                QueueAborted
  <2>4. CASE Quiet
    BY <2>4 DEF Quiet
  <2> QED BY <1>1, <2>1, <2>2, <2>3, <2>4, Steps, Zenon
<1>2. IInv /\ OrderInv /\ [Next]_vars =>
        [/\ \A s \in Streams : shown'[s] # shown[s] => IsLater(shown'[s], shown[s])
         /\ \A s \in Streams \ {Video} : shown'[s] # shown[s] => Current(s, shown'[s])
         /\ vp' \notin {vp, NoFrame} => Current(Video, vp')]_vars
  BY <1>1, ChoosesCurrent, Zenon
<1> QED BY <1>2, Invariance, Line, PTL DEF Spec, PresentsInOrder
-----------------------------------------------------------------------------
(* Each stream implements PacketLine.  The five parts of its line, and what *)
(* a step of a thread does to them.                                        *)
FrameItem(f)  == [id |-> f.pos, serial |-> f.serial]
PacketItem(e) == [id |-> e.pkt.pos, serial |-> e.serial]

LEMMA ItemTypes ==
  /\ \A i, n \in Int : [id |-> i, serial |-> n] \in Item
  /\ \A f \in Frame : f.pos \in Int /\ FrameItem(f) \in Item
  /\ \A p \in AVPacket : p.pos \in Int
  /\ \A e \in MyAVPacketList : PacketItem(e) \in Item
<1>1. \A i, n \in Int : [id |-> i, serial |-> n] \in Item
  BY DEF Item
<1>2. \A f \in Frame : f.pos \in Int /\ f.serial \in Int
  BY Parameters DEF Frame
<1>3. \A p \in AVPacket : p.pos \in Int
  BY Parameters DEF AVPacket
<1>4. \A e \in MyAVPacketList : e.pkt \in AVPacket /\ e.serial \in Int
  BY DEF MyAVPacketList
<1> QED BY <1>1, <1>2, <1>3, <1>4, Zenon DEF FrameItem, PacketItem

LEMMA FramesParts ==
  ASSUME NEW fs \in Seq(Frame)
  PROVE  /\ FramesOf(fs) \in Items /\ FramesOf(<<>>) = <<>>
         /\ \A f \in Frame : FramesOf(Append(fs, f)) = Append(FramesOf(fs), FrameItem(f))
         /\ fs # <<>> =>
              FramesOf(fs) = Then(<<FrameItem(Head(fs))>>, FramesOf(Tail(fs)))
<1> DEFINE Of(k) == [i \in 1 .. Len(k) |-> FrameItem(k[i])]
<1>1. \A f \in Frame : FrameItem(f) \in Item
  BY ItemTypes
<1>2. \A k : FramesOf(k) = Of(k)
  BY Zenon DEF FramesOf, FrameItem
<1>3. Of(fs) \in Seq(Item)
  BY <1>1
<1>4. Of(<<>>) = <<>>
  OBVIOUS
<1>5. \A f \in Frame : Of(Append(fs, f)) = Append(Of(fs), FrameItem(f))
  BY <1>1
<1>6. ASSUME fs # <<>>
      PROVE  Of(fs) = Then(<<FrameItem(Head(fs))>>, Of(Tail(fs)))
  <2>1. Of(fs) # <<>>
    BY <1>6
  <2>2. Of(fs) = <<Head(Of(fs))>> \o Tail(Of(fs))
    BY <1>3, <2>1, HeadAndTail
  <2>3. Head(Of(fs)) = FrameItem(Head(fs))
    BY <1>6
  <2>4. Tail(Of(fs)) = Of(Tail(fs))
    BY <1>6
  <2> QED BY <2>2, <2>3, <2>4, Zenon DEF Then
<1> HIDE DEF Of
<1> QED BY <1>2, <1>3, <1>4, <1>5, <1>6, Zenon DEF Items

LEMMA PacketsParts ==
  ASSUME NEW q, NEW r, q.pkt_list \in Seq(MyAVPacketList)
  PROVE  /\ PacketsOf(q) \in Items
         /\ r.pkt_list = <<>> => PacketsOf(r) = <<>>
         /\ r.pkt_list = q.pkt_list => PacketsOf(r) = PacketsOf(q)
         /\ \A e \in MyAVPacketList : r.pkt_list = Append(q.pkt_list, e) =>
              PacketsOf(r) = Append(PacketsOf(q), PacketItem(e))
         /\ q.pkt_list # <<>> /\ r.pkt_list = Tail(q.pkt_list) =>
              PacketsOf(q) = Then(<<PacketItem(Head(q.pkt_list))>>, PacketsOf(r))
<1> DEFINE l == q.pkt_list
           Of(k) == [i \in 1 .. Len(k) |-> PacketItem(k[i])]
<1>1. \A e \in MyAVPacketList : PacketItem(e) \in Item
  BY ItemTypes
<1>2. \A p : PacketsOf(p) = Of(p.pkt_list)
  BY Zenon DEF PacketsOf, PacketItem
<1>3. l \in Seq(MyAVPacketList)
  OBVIOUS
<1> HIDE DEF l
<1>4. Of(l) \in Seq(Item)
  BY <1>1, <1>3
<1>5. Of(<<>>) = <<>>
  OBVIOUS
<1>6. \A e \in MyAVPacketList : Of(Append(l, e)) = Append(Of(l), PacketItem(e))
  BY <1>1, <1>3
<1>7. ASSUME l # <<>>
      PROVE  Of(l) = Then(<<PacketItem(Head(l))>>, Of(Tail(l)))
  <2>1. Of(l) # <<>>
    BY <1>3, <1>7
  <2>2. Of(l) = <<Head(Of(l))>> \o Tail(Of(l))
    BY <1>4, <2>1, HeadAndTail
  <2>3. Head(Of(l)) = PacketItem(Head(l))
    BY <1>3, <1>7
  <2>4. Tail(Of(l)) = Of(Tail(l))
    BY <1>3, <1>7
  <2> QED BY <2>2, <2>3, <2>4, Zenon DEF Then
<1> HIDE DEF Of
<1> QED BY <1>2, <1>4, <1>5, <1>6, <1>7, Zenon DEF Items, l

LEMMA HeldParts ==
  ASSUME NEW d \in DecoderType
  PROVE  /\ FrameHeld(d) \in Items /\ PacketHeld(d) \in Items /\ FramesOf(d.codec) \in Items
         /\ [id |-> d.frame.pos, serial |-> d.pkt_serial] \in Item
         /\ [id |-> d.pkt.pos, serial |-> d.pkt_serial] \in Item
<1>1. /\ [id |-> d.frame.pos, serial |-> d.pkt_serial] \in Item
      /\ [id |-> d.pkt.pos, serial |-> d.pkt_serial] \in Item
  BY DecoderFields, ItemTypes
<1>2. FramesOf(d.codec) \in Items
  BY DecoderFields, FramesParts
<1> QED BY <1>1, <1>2, ThenNone, ThenOne, Zenon DEF FrameHeld, PacketHeld

LEMMA WayIs ==
  ASSUME NEW fs \in Seq(Frame), NEW d \in DecoderType, NEW q \in PacketQueueType
  PROVE  /\ Way(fs, d, q) = Row(FramesOf(fs), FrameHeld(d), FramesOf(d.codec),
                                PacketHeld(d), PacketsOf(q))
         /\ FramesOf(fs) \in Items /\ FrameHeld(d) \in Items /\ FramesOf(d.codec) \in Items
         /\ PacketHeld(d) \in Items /\ PacketsOf(q) \in Items /\ Way(fs, d, q) \in Items
<1>1. /\ FramesOf(fs) \in Items /\ FrameHeld(d) \in Items /\ FramesOf(d.codec) \in Items
      /\ PacketHeld(d) \in Items /\ PacketsOf(q) \in Items
  BY FramesParts, HeldParts, PacketsParts, QueueFields
<1> DEFINE a == FramesOf(fs)
           b == FrameHeld(d)
           c == FramesOf(d.codec)
           e == PacketHeld(d)
           p == PacketsOf(q)
<1>2. Way(fs, d, q) = Then(Then(Then(Then(a, b), c), e), p)
  BY Zenon DEF Way, Then
<1> HIDE DEF a, b, c, e, p
<1>3. a \in Items /\ b \in Items /\ c \in Items /\ e \in Items /\ p \in Items
  BY <1>1 DEF a, b, c, e, p
<1>4. Row(a, b, c, e, p) = Then(Then(Then(Then(a, b), c), e), p)
  BY <1>3, RowIs
<1>5. Row(a, b, c, e, p) \in Items
  BY <1>3, RowType
<1> QED BY <1>1, <1>2, <1>4, <1>5, Zenon DEF a, b, c, e, p

(* A step of the line l, with n the stretch and a what left last.          *)
LineStep(l, k, n, m, a, b) ==
  \/ k = l /\ m = n /\ b = a
  \/ m = n /\ b = a /\ \E id \in 0 .. End : k = Append(l, [id |-> id, serial |-> n])
  \/ m = n /\ l # <<>> /\ b = Head(l).id /\ k = Tail(l)
  \/ m \in {n, n + 1} /\ b = a /\ Without(l, k)

(* What the decoder holds moves on or is given up.                         *)
LEMMA RestsWay ==
  ASSUME NEW fs \in Seq(Frame), NEW d \in DecoderType, NEW d1 \in DecoderType,
         NEW q \in PacketQueueType, d1.codec = d.codec, d1.pc \notin {"send", "queue"}
  PROVE  LET l == Way(fs, d, q)
             k == Way(fs, d1, q)
         IN  k = l \/ Without(l, k)
<1> DEFINE a == FramesOf(fs)
           b == FrameHeld(d)
           c == FramesOf(d.codec)
           e == PacketHeld(d)
           p == PacketsOf(q)
<1>1. /\ Way(fs, d, q) = Row(a, b, c, e, p) /\ Way(fs, d1, q) = Row(a, <<>>, c, <<>>, p)
      /\ b = <<>> \/ e = <<>>
  <2>1. Way(fs, d, q) = Row(a, b, c, e, p)
    BY WayIs
  <2>2. FrameHeld(d1) = <<>> /\ PacketHeld(d1) = <<>> /\ (b = <<>> \/ e = <<>>)
    BY DEF FrameHeld, PacketHeld
  <2>3. Way(fs, d1, q) = Row(a, FrameHeld(d1), FramesOf(d1.codec), PacketHeld(d1), p)
    BY WayIs
  <2> QED BY <2>1, <2>2, <2>3
<1>2. a \in Items /\ b \in Items /\ c \in Items /\ e \in Items /\ p \in Items
  BY WayIs
<1> HIDE DEF a, b, c, e, p
<1>3. /\ Without(Row(a, b, c, e, p), Row(a, <<>>, c, e, p))
      /\ Without(Row(a, b, c, e, p), Row(a, b, c, <<>>, p))
  BY <1>2, RowDrops
<1> QED BY <1>1, <1>3, Zenon

(* A frame comes out of the codec.                                         *)
LEMMA TakeWay ==
  ASSUME NEW fs \in Seq(Frame), NEW d \in DecoderType, NEW d1 \in DecoderType,
         NEW q \in PacketQueueType, SerialInv(q, d, fs), d.pc = "receive", d.codec # <<>>,
         d1.pc = "queue", d1.codec = Tail(d.codec), d1.frame = Head(d.codec),
         d1.pkt_serial = d.pkt_serial
  PROVE  Way(fs, d1, q) = Way(fs, d, q)
<1> DEFINE a == FramesOf(fs)
           c == FramesOf(d.codec)
           c1 == FramesOf(d1.codec)
           p == PacketsOf(q)
           x == FrameItem(Head(d.codec))
<1>1. /\ d.codec \in Seq(Frame) /\ 1 \in DOMAIN d.codec /\ Head(d.codec) = d.codec[1]
      /\ Head(d.codec) \in Frame
  BY DecoderFields
<1>2. Head(d.codec).serial = d.pkt_serial
  BY <1>1, Zenon DEF SerialInv
<1>3. c = Then(<<x>>, c1) /\ x \in Item
  BY <1>1, FramesParts, ItemTypes, Zenon
<1>4. FrameHeld(d) = <<>> /\ PacketHeld(d) = <<>> /\ FrameHeld(d1) = <<x>> /\ PacketHeld(d1) = <<>>
  BY <1>2 DEF FrameHeld, PacketHeld, FrameItem
<1>5. Way(fs, d, q) = Row(a, <<>>, c, <<>>, p)
  <2>1. Way(fs, d, q) = Row(a, FrameHeld(d), c, PacketHeld(d), p)
    BY WayIs
  <2> QED BY <1>4, <2>1, Zenon
<1>6. Way(fs, d1, q) = Row(a, <<x>>, c1, <<>>, p)
  <2>1. Way(fs, d1, q) = Row(a, FrameHeld(d1), c1, PacketHeld(d1), p)
    BY WayIs
  <2> QED BY <1>4, <2>1, Zenon
<1>7. a \in Items /\ c1 \in Items /\ p \in Items /\ <<>> \in Items
  BY WayIs, ThenNone
<1> DEFINE none == <<>>
<1> HIDE DEF a, c, c1, p, x, none
<1>8. Row(a, <<>>, Then(<<x>>, c1), none, p) = Row(a, <<x>>, c1, none, p)
  BY <1>3, <1>7, RowMoves DEF none
<1> QED BY <1>3, <1>5, <1>6, <1>8, Zenon DEF none

(* A packet is fetched; one of another stretch empties the codec.          *)
LEMMA FetchWay ==
  ASSUME NEW fs \in Seq(Frame), NEW d \in DecoderType, NEW d1 \in DecoderType,
         NEW q \in PacketQueueType, NEW r \in PacketQueueType, CanGet(q),
         r.pkt_list = Tail(q.pkt_list), d.pc = "fetch", d1.pc = "send",
         d1.pkt = Got(q).pkt, d1.pkt_serial = Got(q).serial,
         d1.codec = <<>> \/ d1.codec = d.codec
  PROVE  LET l == Way(fs, d, q)
             k == Way(fs, d1, r)
         IN  k = l \/ Without(l, k)
<1> DEFINE a == FramesOf(fs)
           c == FramesOf(d.codec)
           p1 == PacketsOf(r)
           y == PacketItem(Head(q.pkt_list))
<1>1. /\ q.pkt_list \in Seq(MyAVPacketList) /\ q.pkt_list # <<>>
      /\ Head(q.pkt_list) \in MyAVPacketList
  BY QueueFields DEF CanGet
<1>2. PacketsOf(q) = Then(<<y>>, p1) /\ y \in Item
  <2>1. y \in Item
    BY <1>1, ItemTypes
  <2>2. PacketsOf(q) = Then(<<y>>, p1)
    BY <1>1, PacketsParts, Zenon
  <2> QED BY <2>1, <2>2
<1>3. FrameHeld(d) = <<>> /\ PacketHeld(d) = <<>> /\ FrameHeld(d1) = <<>> /\ PacketHeld(d1) = <<y>>
  BY DEF FrameHeld, PacketHeld, PacketItem, Got
<1>4. Way(fs, d, q) = Row(a, <<>>, c, <<>>, Then(<<y>>, p1))
  <2>1. Way(fs, d, q) = Row(a, FrameHeld(d), c, PacketHeld(d), PacketsOf(q))
    BY WayIs
  <2> QED BY <1>2, <1>3, <2>1, Zenon
<1>5. Way(fs, d1, r) = Row(a, <<>>, <<>>, <<y>>, p1) \/ Way(fs, d1, r) = Row(a, <<>>, c, <<y>>, p1)
  <2>1. Way(fs, d1, r) = Row(a, FrameHeld(d1), FramesOf(d1.codec), PacketHeld(d1), p1)
    BY WayIs
  <2>2. FramesOf(<<>>) = <<>>
    BY FramesParts
  <2> QED BY <1>3, <2>1, <2>2, Zenon
<1>6. a \in Items /\ c \in Items /\ p1 \in Items /\ <<>> \in Items /\ <<y>> \in Items
  BY <1>2, WayIs, ThenNone, ThenOne
<1> DEFINE none == <<>>
           ys == <<y>>
<1> HIDE DEF a, c, p1, y, none
<1>7. Row(a, none, c, <<>>, Then(<<y>>, p1)) = Row(a, none, c, <<y>>, p1)
  BY <1>2, <1>6, RowMoves DEF none
<1> HIDE DEF ys
<1>8. Without(Row(a, none, c, ys, p1), Row(a, none, <<>>, ys, p1))
  BY <1>6, RowDrops DEF none, ys
<1> QED BY <1>4, <1>5, <1>7, <1>8, Zenon DEF none, ys

(* A packet goes into the codec, as the frame it becomes, or is refused.    *)
LEMMA SendWay ==
  ASSUME NEW fs \in Seq(Frame), NEW d \in DecoderType, NEW d1 \in DecoderType,
         NEW q \in PacketQueueType, NEW f \in Frame, f.pos = d.pkt.pos,
         f.serial = d.pkt_serial, d.pc = "send", d1.pc = "receive",
         d1.codec = Append(d.codec, f)
  PROVE  Way(fs, d1, q) = Way(fs, d, q)
<1> DEFINE a == FramesOf(fs)
           c == FramesOf(d.codec)
           p == PacketsOf(q)
           x == FrameItem(f)
<1>1. FramesOf(d1.codec) = Append(c, x) /\ x \in Item
  BY DecoderFields, FramesParts, ItemTypes, Zenon
<1>2. FrameHeld(d) = <<>> /\ PacketHeld(d) = <<x>> /\ FrameHeld(d1) = <<>> /\ PacketHeld(d1) = <<>>
  BY DEF FrameHeld, PacketHeld, FrameItem
<1>3. Way(fs, d, q) = Row(a, <<>>, c, <<x>>, p)
  <2>1. Way(fs, d, q) = Row(a, FrameHeld(d), c, PacketHeld(d), p)
    BY WayIs
  <2> QED BY <1>2, <2>1, Zenon
<1>4. Way(fs, d1, q) = Row(a, <<>>, Append(c, x), <<>>, p)
  <2>1. Way(fs, d1, q) = Row(a, FrameHeld(d1), FramesOf(d1.codec), PacketHeld(d1), p)
    BY WayIs
  <2> QED BY <1>1, <1>2, <2>1, Zenon
<1>5. a \in Items /\ c \in Items /\ p \in Items /\ <<>> \in Items
  BY WayIs, ThenNone
<1> DEFINE none == <<>>
<1> HIDE DEF a, c, p, x, none
<1>6. Row(a, none, Append(c, x), <<>>, p) = Row(a, none, c, <<x>>, p)
  BY <1>1, <1>5, RowMoves DEF none
<1> QED BY <1>3, <1>4, <1>6, Zenon DEF none

(* A frame is queued for the presenter.                                    *)
LEMMA QueueWay ==
  ASSUME NEW fs \in Seq(Frame), NEW d \in DecoderType, NEW d1 \in DecoderType,
         NEW q \in PacketQueueType, NEW f \in Frame, f.pos = d.frame.pos,
         f.serial = d.pkt_serial, d.pc = "queue", d1.pc = "receive", d1.codec = d.codec
  PROVE  Way(Append(fs, f), d1, q) = Way(fs, d, q)
<1> DEFINE a == FramesOf(fs)
           c == FramesOf(d.codec)
           p == PacketsOf(q)
           x == FrameItem(f)
           fs1 == Append(fs, f)
<1>1. FramesOf(fs1) = Append(a, x) /\ x \in Item /\ fs1 \in Seq(Frame)
  <2>1. FramesOf(Append(fs, f)) = Append(a, x)
    BY FramesParts, Zenon
  <2>2. x \in Item /\ Append(fs, f) \in Seq(Frame)
    BY ItemTypes
  <2> QED BY <2>1, <2>2
<1>2. FrameHeld(d) = <<x>> /\ PacketHeld(d) = <<>> /\ FrameHeld(d1) = <<>> /\ PacketHeld(d1) = <<>>
  BY DEF FrameHeld, PacketHeld, FrameItem
<1>3. Way(fs, d, q) = Row(a, <<x>>, c, <<>>, p)
  <2>1. Way(fs, d, q) = Row(a, FrameHeld(d), c, PacketHeld(d), p)
    BY WayIs
  <2> QED BY <1>2, <2>1, Zenon
<1> HIDE DEF fs1
<1>4. Way(fs1, d1, q) = Row(Append(a, x), <<>>, c, <<>>, p)
  <2>1. Way(fs1, d1, q) = Row(FramesOf(fs1), FrameHeld(d1), FramesOf(d1.codec), PacketHeld(d1), p)
    BY <1>1, WayIs
  <2> QED BY <1>1, <1>2, <2>1, Zenon
<1>5. a \in Items /\ c \in Items /\ p \in Items /\ <<>> \in Items
  BY WayIs, ThenNone
<1> DEFINE none == <<>>
<1> HIDE DEF a, c, p, x, none
<1>6. Row(Append(a, x), <<>>, c, none, p) = Row(a, <<x>>, c, none, p)
  BY <1>1, <1>5, RowMoves DEF none
<1> QED BY <1>3, <1>4, <1>6, Zenon DEF none, fs1

(* A frame leaves the queue, presented or dropped.                         *)
LEMMA NextWay ==
  ASSUME NEW fs \in Seq(Frame), NEW d \in DecoderType, NEW q \in PacketQueueType, fs # <<>>
  PROVE  LET l == Way(fs, d, q)
             k == Way(Tail(fs), d, q)
         IN  l # <<>> /\ Head(l).id = Head(fs).pos /\ k = Tail(l) /\ Without(l, k)
<1> DEFINE b == FrameHeld(d)
           c == FramesOf(d.codec)
           e == PacketHeld(d)
           p == PacketsOf(q)
           x == FrameItem(Head(fs))
           a1 == FramesOf(Tail(fs))
           l == Way(fs, d, q)
           k == Way(Tail(fs), d, q)
<1>1. FramesOf(fs) = Then(<<x>>, a1) /\ x \in Item /\ x.id = Head(fs).pos /\ Tail(fs) \in Seq(Frame)
  <2>1. Head(fs) \in Frame /\ Tail(fs) \in Seq(Frame)
    OBVIOUS
  <2>2. FramesOf(fs) = Then(<<x>>, a1) /\ x \in Item
    BY <2>1, FramesParts, ItemTypes, Zenon
  <2>3. x.id = Head(fs).pos
    BY DEF FrameItem
  <2> QED BY <2>1, <2>2, <2>3
<1>2. l = Row(Then(<<x>>, a1), b, c, e, p)
  <2>1. l = Row(FramesOf(fs), b, c, e, p)
    BY WayIs
  <2> QED BY <1>1, <2>1, Zenon
<1>3. k = Row(a1, b, c, e, p) /\ k \in Items
  BY <1>1, WayIs
<1>4. a1 \in Items /\ b \in Items /\ c \in Items /\ e \in Items /\ p \in Items
  BY <1>1, WayIs
<1> HIDE DEF a1, b, c, e, p, x, l, k
<1>5. Row(Then(<<x>>, a1), b, c, e, p) = Then(<<x>>, Row(a1, b, c, e, p))
  BY <1>1, <1>4, RowBegins
<1>6. l = Then(<<x>>, k)
  BY <1>2, <1>3, <1>5, Zenon
<1>7. l # <<>> /\ Head(l) = x /\ k = Tail(l)
  <2>1. x \in Item /\ k \in Items
    BY <1>1, <1>3
  <2> QED BY <1>6, <2>1, ThenFirst
<1>8. Without(l, k)
  <2> DEFINE y == <<x>>
             none == <<>>
  <2>1. y \in Items /\ none \in Items /\ Then(none, y) = y /\ Then(none, k) = k
    BY <1>1, <1>3, ThenOne, ThenNone
  <2>2. l = Then(y, k)
    BY <1>6
  <2> HIDE DEF y, none
  <2>3. l = Then(Then(none, y), k) /\ k = Then(none, k)
    BY <2>1, <2>2, Zenon
  <2> QED BY <1>3, <2>1, <2>3, ThenGap
<1> QED BY <1>1, <1>7, <1>8, Zenon DEF l, k

(* A packet is put.                                                        *)
LEMMA PutWay ==
  ASSUME NEW fs \in Seq(Frame), NEW d \in DecoderType, NEW q \in PacketQueueType,
         NEW x \in AVPacket
  PROVE  LET r == packet_queue_put(q, x)
             l == Way(fs, d, q)
             k == Way(fs, d, r)
         IN  /\ r.serial = q.serial
             /\ k = l \/ k = Append(l, [id |-> x.pos, serial |-> q.serial])
<1> DEFINE r == packet_queue_put(q, x)
           y == [pkt |-> x, serial |-> q.serial]
           z == [id |-> x.pos, serial |-> q.serial]
           a == FramesOf(fs)
           b == FrameHeld(d)
           c == FramesOf(d.codec)
           e == PacketHeld(d)
           p == PacketsOf(q)
<1>1. r \in PacketQueueType /\ r.serial = q.serial
  BY PutLeaves, Zenon
<1>2. y \in MyAVPacketList /\ PacketItem(y) = z /\ z \in Item
  <2>1. q.serial \in Nat
    BY QueueFields
  <2>2. y \in MyAVPacketList
    BY <2>1 DEF MyAVPacketList
  <2>3. PacketItem(y) = z
    BY DEF PacketItem
  <2> QED BY <2>2, <2>3, ItemTypes, Zenon
<1>3. r = q \/ r.pkt_list = Append(q.pkt_list, y)
  BY SMT DEF packet_queue_put, PacketQueueType
<1>4. CASE r = q
  BY <1>1, <1>4, Zenon
<1>5. CASE r.pkt_list = Append(q.pkt_list, y)
  <2>1. q.pkt_list \in Seq(MyAVPacketList)
    BY QueueFields
  <2>2. PacketsOf(r) = Append(p, z)
    <3>1. \A x1 \in MyAVPacketList : r.pkt_list = Append(q.pkt_list, x1) =>
            PacketsOf(r) = Append(PacketsOf(q), PacketItem(x1))
      BY <2>1, PacketsParts
    <3> HIDE DEF r, y, z
    <3> QED BY <1>2, <1>5, <3>1, Zenon
  <2>3. Way(fs, d, q) = Row(a, b, c, e, p)
    BY WayIs
  <2>4. Way(fs, d, r) = Row(a, b, c, e, PacketsOf(r))
    BY <1>1, WayIs
  <2>5. a \in Items /\ b \in Items /\ c \in Items /\ e \in Items /\ p \in Items /\ z \in Item
    BY <1>2, WayIs
  <2> HIDE DEF a, b, c, e, p, r, z
  <2> DEFINE zs == <<z>>
  <2>6. /\ Append(p, z) = Then(p, zs) /\ zs \in Items
        /\ Append(Row(a, b, c, e, p), z) = Then(Row(a, b, c, e, p), zs)
    BY <2>5, RowType, ThenOne
  <2> HIDE DEF zs
  <2>7. Row(a, b, c, e, Then(p, zs)) = Then(Row(a, b, c, e, p), zs)
    BY <2>5, <2>6, RowGrows
  <2>8. Way(fs, d, r) = Append(Way(fs, d, q), z)
    BY <2>2, <2>3, <2>4, <2>6, <2>7, Zenon
  <2> QED BY <1>1, <2>8, Zenon DEF r, z
<1> QED BY <1>3, <1>4, <1>5

(* A flush or an abort of the queue.                                       *)
LEMMA FlushWay ==
  ASSUME NEW fs \in Seq(Frame), NEW d \in DecoderType, NEW q \in PacketQueueType,
         NEW r \in PacketQueueType
  PROVE  LET l == Way(fs, d, q)
             k == Way(fs, d, r)
         IN  /\ r.pkt_list = q.pkt_list => k = l
             /\ r.pkt_list = <<>> => Without(l, k)
<1> DEFINE a == FramesOf(fs)
           b == FrameHeld(d)
           c == FramesOf(d.codec)
           e == PacketHeld(d)
           p == PacketsOf(q)
<1>1. /\ r.pkt_list = q.pkt_list => PacketsOf(r) = p
      /\ r.pkt_list = <<>> => PacketsOf(r) = <<>>
  BY QueueFields, PacketsParts
<1>2. Way(fs, d, q) = Row(a, b, c, e, p)
  BY WayIs
<1>3. Way(fs, d, r) = Row(a, b, c, e, PacketsOf(r))
  BY WayIs
<1>4. a \in Items /\ b \in Items /\ c \in Items /\ e \in Items /\ p \in Items
  BY WayIs
<1> HIDE DEF a, b, c, e, p
<1>5. Without(Row(a, b, c, e, p), Row(a, b, c, e, <<>>))
  BY <1>4, RowDrops
<1> QED BY <1>1, <1>2, <1>3, <1>5, Zenon
-----------------------------------------------------------------------------
(* The line of a stream takes one step of PacketLine, or none.              *)
Advances(s) ==
  LineStep(Way(frames[s], dec[s], queue[s]), Way(frames'[s], dec'[s], queue'[s]),
           queue[s].serial, queue'[s].serial, shown[s].pos, shown'[s].pos)

LEMMA Lifted ==
  ASSUME NEW s \in Streams, Advances(s)
  PROVE  [Promise(s)!LineNext]_(Promise(s)!lvars)
BY Zenon DEF Advances, LineStep, Without, Promise!LineNext, Promise!lvars, Promise!Enter,
             Promise!Leave, Promise!Lose, Promise!NewStretch, Promise!Lost

LEMMA AllAdvance ==
  ASSUME NEW s \in Streams, Advances(s),
         \A t \in Streams \ {s} : /\ queue'[t] = queue[t] /\ dec'[t] = dec[t]
                                  /\ frames'[t] = frames[t] /\ shown'[t] = shown[t]
  PROVE  \A t \in Streams : Advances(t)
<1>1. ASSUME NEW t \in Streams PROVE Advances(t)
  <2>1. CASE t = s
    BY <2>1
  <2>2. CASE t # s
    <3>1. /\ queue'[t] = queue[t] /\ dec'[t] = dec[t]
          /\ frames'[t] = frames[t] /\ shown'[t] = shown[t]
      BY <2>2, Zenon
    <3> QED BY <3>1, Zenon DEF Advances, LineStep
  <2> QED BY <2>1, <2>2
<1> QED BY <1>1

LEMMA KnownNext ==
  ASSUME IInv', NEW s \in Streams
  PROVE  /\ frames'[s] \in Seq(Frame) /\ dec'[s] \in DecoderType
         /\ queue'[s] \in PacketQueueType
BY DEF IInv, TypeOK, DataType

(* A step of the decoder of s, given what it does to the line of s.         *)
LEMMA DecoderAdvances ==
  ASSUME IInv, NEW s \in Streams, shown' = shown,
         \A t \in Streams \ {s} : /\ queue'[t] = queue[t] /\ dec'[t] = dec[t]
                                  /\ frames'[t] = frames[t],
         queue'[s].serial = queue[s].serial,
         LET l == Way(frames[s], dec[s], queue[s])
             k == Way(frames'[s], dec'[s], queue'[s])
         IN  k = l \/ Without(l, k)
  PROVE  \A t \in Streams : Advances(t)
<1> DEFINE n == queue[s].serial
           n1 == queue'[s].serial
           l == Way(frames[s], dec[s], queue[s])
           k == Way(frames'[s], dec'[s], queue'[s])
           a == shown[s].pos
           a1 == shown'[s].pos
<1>1. n1 = n /\ a1 = a /\ (k = l \/ Without(l, k))
  OBVIOUS
<1> HIDE DEF n, n1, l, k, a, a1
<1>2. LineStep(l, k, n, n1, a, a1)
  BY <1>1 DEF LineStep
<1>3. Advances(s)
  BY <1>2, Zenon DEF Advances, n, n1, l, k, a, a1
<1> QED BY <1>3, AllAdvance

LEMMA DecodersAdvance ==
  ASSUME IInv, IInv', DropEarly \/ \E s \in Streams : DecoderThread(s)
  PROVE  \A t \in Streams : Advances(t)
<1>1. ASSUME NEW s \in Streams, shown' = shown, queue' = queue, frames' = frames,
             \A t \in Streams \ {s} : dec'[t] = dec[t],
             dec'[s].codec = dec[s].codec, dec'[s].pc \notin {"send", "queue"}
      PROVE  \A t \in Streams : Advances(t)
  <2>1. LET l == Way(frames[s], dec[s], queue[s])
            k == Way(frames[s], dec'[s], queue[s])
        IN  k = l \/ Without(l, k)
    BY <1>1, Known, KnownNext, RestsWay
  <2> QED BY <1>1, <2>1, DecoderAdvances
<1>2. ASSUME NEW s \in Streams, FetchAborted(s) \/ QueueAborted(s)
      PROVE  \A t \in Streams : Advances(t)
  <2>1. /\ \A t \in Streams \ {s} : dec'[t] = dec[t]
        /\ dec'[s].codec = dec[s].codec /\ dec'[s].pc = "exit"
    BY <1>2, Known DEF FetchAborted, QueueAborted, DecoderType
  <2> QED BY <1>1, <1>2, <2>1 DEF FetchAborted, QueueAborted
<1>3. CASE DropEarly
  <2>1. Video \in Streams
    BY <1>3 DEF DropEarly
  <2>2. /\ \A t \in Streams \ {Video} : dec'[t] = dec[t]
        /\ dec'[Video].codec = dec[Video].codec /\ dec'[Video].pc = "receive"
    BY <1>3, <2>1, Known DEF DropEarly, DecoderType
  <2> QED BY <1>1, <1>3, <2>1, <2>2 DEF DropEarly
<1>4. ASSUME NEW s \in Streams, Receive(s) PROVE \A t \in Streams : Advances(t)
  <2>1. UNCHANGED <<shown, queue, frames>> /\ dec[s].pc = "receive"
    BY <1>4 DEF Receive
  <2>2. \A t \in Streams \ {s} : dec'[t] = dec[t]
    BY <1>4, Known DEF Receive
  <2>3. \/ dec'[s].codec = dec[s].codec /\ dec'[s].pc \notin {"send", "queue"}
        \/ /\ dec[s].codec # <<>> /\ dec'[s].pc = "queue"
           /\ dec'[s].codec = Tail(dec[s].codec) /\ dec'[s].frame = Head(dec[s].codec)
           /\ dec'[s].pkt_serial = dec[s].pkt_serial
    <3> DEFINE d == dec[s]
    <3>1. d \in DecoderType
      BY Known
    <3>2. \/ \E to \in {"fetch", "exit"} : dec' = [dec EXCEPT ![s] = [d EXCEPT !.pc = to]]
          \/ dec' = [dec EXCEPT ![s] = [d EXCEPT !.finished = d.pkt_serial, !.draining = FALSE]]
          \/ /\ d.codec # <<>>
             /\ dec' = [dec EXCEPT ![s] = [d EXCEPT !.pc = "queue", !.codec = Tail(d.codec),
                                                   !.frame = Head(d.codec)]]
      BY <1>4 DEF Receive
    <3> HIDE DEF d
    <3>3. \/ \E to \in {"fetch", "exit"} : dec'[s] = [d EXCEPT !.pc = to]
          \/ dec'[s] = [d EXCEPT !.finished = d.pkt_serial, !.draining = FALSE]
          \/ /\ d.codec # <<>>
             /\ dec'[s] = [d EXCEPT !.pc = "queue", !.codec = Tail(d.codec),
                                    !.frame = Head(d.codec)]
      BY <3>2, Known
    <3>4. /\ \A to \in {"fetch", "exit"} : LET e == [d EXCEPT !.pc = to] IN
               e.codec = d.codec /\ e.pc = to
          /\ LET e == [d EXCEPT !.finished = d.pkt_serial, !.draining = FALSE] IN
               e.codec = d.codec /\ e.pc = d.pc
          /\ LET e == [d EXCEPT !.pc = "queue", !.codec = Tail(d.codec), !.frame = Head(d.codec)]
             IN  /\ e.codec = Tail(d.codec) /\ e.pc = "queue" /\ e.frame = Head(d.codec)
                 /\ e.pkt_serial = d.pkt_serial
      BY <3>1 DEF DecoderType
    <3>5. d.pc = "receive"
      BY <2>1 DEF d
    <3>6. \/ dec'[s].codec = d.codec /\ dec'[s].pc \notin {"send", "queue"}
          \/ /\ d.codec # <<>> /\ dec'[s].pc = "queue"
             /\ dec'[s].codec = Tail(d.codec) /\ dec'[s].frame = Head(d.codec)
             /\ dec'[s].pkt_serial = d.pkt_serial
      BY <3>3, <3>4, <3>5
    <3> QED BY <3>6 DEF d
  <2>4. CASE dec'[s].codec = dec[s].codec /\ dec'[s].pc \notin {"send", "queue"}
    BY <1>1, <2>1, <2>2, <2>4
  <2>5. CASE /\ dec[s].codec # <<>> /\ dec'[s].pc = "queue"
             /\ dec'[s].codec = Tail(dec[s].codec) /\ dec'[s].frame = Head(dec[s].codec)
             /\ dec'[s].pkt_serial = dec[s].pkt_serial
    <3>1. /\ frames[s] \in Seq(Frame) /\ dec[s] \in DecoderType /\ dec'[s] \in DecoderType
          /\ queue[s] \in PacketQueueType /\ SerialInv(queue[s], dec[s], frames[s])
      BY Known, KnownNext
    <3>2. Way(frames[s], dec'[s], queue[s]) = Way(frames[s], dec[s], queue[s])
      BY <2>1, <2>5, <3>1, TakeWay
    <3> QED BY <2>1, <2>2, <3>2, DecoderAdvances
  <2> QED BY <2>3, <2>4, <2>5
<1>5. ASSUME NEW s \in Streams, Fetch(s) PROVE \A t \in Streams : Advances(t)
  <2>1. UNCHANGED <<shown, frames>> /\ dec[s].pc = "fetch" /\ CanGet(queue[s])
    BY <1>5 DEF Fetch
  <2>2. \A t \in Streams \ {s} : dec'[t] = dec[t] /\ queue'[t] = queue[t]
    BY <1>5, Known DEF Fetch
  <2>3. /\ queue'[s] = packet_queue_get(queue[s])
        /\ dec'[s].pc = "send" /\ dec'[s].pkt = Got(queue[s]).pkt
        /\ dec'[s].pkt_serial = Got(queue[s]).serial
        /\ dec'[s].codec = <<>> \/ dec'[s].codec = dec[s].codec
    BY <1>5, Known DEF Fetch, DecoderType
  <2>4. queue'[s].pkt_list = Tail(queue[s].pkt_list) /\ queue'[s].serial = queue[s].serial
    BY <2>3, Known, SMT DEF packet_queue_get, PacketQueueType
  <2>5. LET l == Way(frames[s], dec[s], queue[s])
            k == Way(frames[s], dec'[s], queue'[s])
        IN  k = l \/ Without(l, k)
    BY <2>1, <2>3, <2>4, Known, KnownNext, FetchWay
  <2> QED BY <2>1, <2>2, <2>4, <2>5, DecoderAdvances
<1>6. ASSUME NEW s \in Streams, Send(s) PROVE \A t \in Streams : Advances(t)
  <2>1. UNCHANGED <<shown, queue, frames>> /\ dec[s].pc = "send"
    BY <1>6 DEF Send
  <2>2. \A t \in Streams \ {s} : dec'[t] = dec[t]
    BY <1>6, Known DEF Send
  <2> DEFINE f == [gen |-> dec[s].pkt.gen, pos |-> dec[s].pkt.pos,
                   serial |-> dec[s].pkt_serial]
  <2>3. \/ dec'[s].codec = dec[s].codec /\ dec'[s].pc \notin {"send", "queue"}
        \/ /\ queue[s].serial = dec[s].pkt_serial
           /\ dec'[s].codec = Append(dec[s].codec, f) /\ dec'[s].pc = "receive"
    BY <1>6, Known DEF Send, DecoderType
  <2>4. CASE dec'[s].codec = dec[s].codec /\ dec'[s].pc \notin {"send", "queue"}
    BY <1>1, <2>1, <2>2, <2>4
  <2>5. CASE /\ queue[s].serial = dec[s].pkt_serial
             /\ dec'[s].codec = Append(dec[s].codec, f) /\ dec'[s].pc = "receive"
    <3>1. f \in Frame
      <4>1. /\ dec[s].pkt.gen \in Nat /\ dec[s].pkt.pos \in 0 .. End
            /\ dec[s].pkt_serial \in Nat
        BY <2>5, Known, DecoderFields, QueueFields DEF AVPacket
      <4> QED BY <4>1 DEF Frame
    <3>2. f.serial = dec[s].pkt_serial /\ f.pos = dec[s].pkt.pos
      OBVIOUS
    <3>3. dec'[s].codec = Append(dec[s].codec, f) /\ dec'[s].pc = "receive"
      BY <2>5
    <3> HIDE DEF f
    <3>4. /\ frames[s] \in Seq(Frame) /\ dec[s] \in DecoderType /\ dec'[s] \in DecoderType
          /\ queue[s] \in PacketQueueType
      BY Known, KnownNext
    <3>5. Way(frames[s], dec'[s], queue[s]) = Way(frames[s], dec[s], queue[s])
      BY <2>1, <3>1, <3>2, <3>3, <3>4, SendWay
    <3> QED BY <2>1, <2>2, <3>5, DecoderAdvances
  <2> QED BY <2>3, <2>4, <2>5
<1>7. ASSUME NEW s \in Streams, QueueFrame(s) PROVE \A t \in Streams : Advances(t)
  <2> DEFINE f == [dec[s].frame EXCEPT !.serial = dec[s].pkt_serial]
  <2>1. UNCHANGED <<shown, queue>> /\ dec[s].pc = "queue"
    BY <1>7 DEF QueueFrame
  <2>2. f \in Frame /\ f.serial = dec[s].pkt_serial /\ f.pos = dec[s].frame.pos
    <3>1. /\ dec[s].frame \in Frame /\ dec[s].frame.serial = dec[s].pkt_serial
          /\ dec[s].frame.serial \in Nat
      BY <2>1, Known, DecoderFields DEF SerialInv
    <3> QED BY <3>1 DEF Frame
  <2>3. frames' = [frames EXCEPT ![s] = Append(frames[s], f)]
    BY <1>7 DEF QueueFrame
  <2> HIDE DEF f
  <2>4. \A t \in Streams \ {s} : dec'[t] = dec[t] /\ frames'[t] = frames[t]
    BY <1>7, <2>3, Known DEF QueueFrame
  <2>5. /\ frames'[s] = Append(frames[s], f)
        /\ dec'[s].pc = "receive" /\ dec'[s].codec = dec[s].codec
    BY <1>7, <2>3, Known DEF QueueFrame, DecoderType
  <2>6. /\ frames[s] \in Seq(Frame) /\ dec[s] \in DecoderType /\ dec'[s] \in DecoderType
        /\ queue[s] \in PacketQueueType
    BY Known, KnownNext
  <2>7. Way(Append(frames[s], f), dec'[s], queue[s]) = Way(frames[s], dec[s], queue[s])
    BY <2>1, <2>2, <2>5, <2>6, QueueWay
  <2>8. Way(frames'[s], dec'[s], queue[s]) = Way(frames[s], dec[s], queue[s])
    BY <2>5, <2>7, Zenon
  <2> QED BY <2>1, <2>4, <2>8, DecoderAdvances
<1> QED BY <1>2, <1>3, <1>4, <1>5, <1>6, <1>7 DEF DecoderThread

(* A step of a presenter, or none: it takes the frame at the head, or leaves *)
(* all as it is.                                                           *)
LEMMA TakeAdvances ==
  ASSUME IInv, NEW s \in Streams, frames[s] # <<>>, NextFrame(s), UNCHANGED <<queue, dec>>,
         \A t \in Streams \ {s} : shown'[t] = shown[t],
         shown'[s] \in {shown[s], Head(frames[s])}
  PROVE  \A t \in Streams : Advances(t)
<1> DEFINE l == Way(frames[s], dec[s], queue[s])
           k == Way(frames'[s], dec'[s], queue'[s])
           n == queue[s].serial
           n1 == queue'[s].serial
           a == shown[s].pos
           a1 == shown'[s].pos
<1>1. /\ frames'[s] = Tail(frames[s])
      /\ \A t \in Streams \ {s} : frames'[t] = frames[t]
  BY Known DEF NextFrame
<1>2. /\ frames[s] \in Seq(Frame) /\ dec[s] \in DecoderType /\ queue[s] \in PacketQueueType
  BY Known
<1>3. LET m == Way(Tail(frames[s]), dec[s], queue[s])
      IN  l # <<>> /\ Head(l).id = Head(frames[s]).pos /\ m = Tail(l) /\ Without(l, m)
  BY <1>2, NextWay, Zenon
<1>4. k = Way(Tail(frames[s]), dec[s], queue[s])
  BY <1>1, Zenon
<1>5. l # <<>> /\ k = Tail(l) /\ Without(l, k)
  BY <1>3, <1>4, Zenon
<1>6. n1 = n /\ (a1 = a \/ a1 = Head(l).id)
  BY <1>3
<1> HIDE DEF l, k, n, n1, a, a1
<1>7. LineStep(l, k, n, n1, a, a1)
  BY <1>5, <1>6 DEF LineStep
<1>8. Advances(s)
  BY <1>7, Zenon DEF Advances, n, n1, l, k, a, a1
<1> QED BY <1>1, <1>8, AllAdvance

LEMMA RestAdvances ==
  ASSUME UNCHANGED <<queue, dec, frames, shown>>
  PROVE  \A t \in Streams : Advances(t)
BY Zenon DEF Advances, LineStep

LEMMA PresentAdvances ==
  ASSUME IInv, OrderInv,
         AudioTakes \/ RefreshStale \/ Dequeue \/ NotDue \/ DropLate \/ ShowPicture
  PROVE  \A t \in Streams : Advances(t)
<1>0. /\ Audio # Video /\ open \subseteq Streams /\ shown \in [Streams -> Frame]
      /\ epc \in {"due", "show"} => Video \in Streams /\ frames[Video] # <<>>
                                    /\ vp = Head(frames[Video])
  BY DEF IInv, TypeOK, ControlType, DataType, StageInv, OrderInv, Audio, Video
<1>1. CASE AudioTakes
  <2>1. Audio \in Streams
    BY <1>1 DEF IInv, StageInv, AudioTakes
  <2>2. frames[Audio] # <<>> /\ NextFrame(Audio) /\ UNCHANGED <<queue, dec>>
    BY <1>1, <2>1, Known DEF AudioTakes, Remaining
  <2>3. shown' = shown \/ shown' = [shown EXCEPT ![Audio] = Head(frames[Audio])]
    BY <1>1 DEF AudioTakes
  <2>4. /\ shown'[Audio] \in {shown[Audio], Head(frames[Audio])}
        /\ \A t \in Streams \ {Audio} : shown'[t] = shown[t]
    BY <1>0, <2>1, <2>3
  <2> QED BY <2>1, <2>2, <2>4, TakeAdvances
<1>2. CASE RefreshStale \/ DropLate
  <2>1. Video \in Streams /\ frames[Video] # <<>>
    BY <1>0, <1>2 DEF RefreshStale, Refreshes, Remaining, DropLate
  <2>2. NextFrame(Video) /\ UNCHANGED <<queue, dec, shown>>
    BY <1>2 DEF RefreshStale, DropLate
  <2> QED BY <2>1, <2>2, TakeAdvances
<1>3. CASE ShowPicture
  <2>1. Video \in Streams /\ frames[Video] # <<>> /\ vp = Head(frames[Video])
    BY <1>0, <1>3 DEF ShowPicture
  <2>2. /\ NextFrame(Video) /\ UNCHANGED <<queue, dec>>
        /\ shown' = [shown EXCEPT ![Video] = Head(frames[Video])]
    BY <1>3, <2>1 DEF ShowPicture
  <2>3. /\ shown'[Video] = Head(frames[Video])
        /\ \A t \in Streams \ {Video} : shown'[t] = shown[t]
    BY <1>0, <2>1, <2>2
  <2> QED BY <2>1, <2>2, <2>3, TakeAdvances
<1>4. CASE Dequeue \/ NotDue
  <2>1. UNCHANGED <<queue, dec, frames, shown>>
    BY <1>4 DEF Dequeue, NotDue
  <2> QED BY <2>1, RestAdvances
<1> QED BY <1>1, <1>2, <1>3, <1>4

(* A packet is put in the queue of s, whatever becomes of the other queues.  *)
LEMMA PutAdvances ==
  ASSUME IInv, NEW s \in Streams, NEW x \in AVPacket, UNCHANGED <<dec, frames, shown>>,
         queue'[s] = packet_queue_put(queue[s], x)
  PROVE  Advances(s)
<1> DEFINE l == Way(frames[s], dec[s], queue[s])
           k == Way(frames'[s], dec'[s], queue'[s])
           n == queue[s].serial
           n1 == queue'[s].serial
           a == shown[s].pos
           a1 == shown'[s].pos
           r == packet_queue_put(queue[s], x)
<1>1. /\ frames[s] \in Seq(Frame) /\ dec[s] \in DecoderType /\ queue[s] \in PacketQueueType
  BY Known
<1>2. /\ r.serial = queue[s].serial
      /\ \/ Way(frames[s], dec[s], r) = l
         \/ Way(frames[s], dec[s], r) = Append(l, [id |-> x.pos, serial |-> queue[s].serial])
  BY <1>1, PutWay, Zenon
<1>3. n1 = n /\ a1 = a /\ (k = l \/ k = Append(l, [id |-> x.pos, serial |-> n]))
  BY <1>2, Zenon
<1>4. x.pos \in 0 .. End
  BY DEF AVPacket
<1> HIDE DEF l, k, n, n1, a, a1
<1>5. LineStep(l, k, n, n1, a, a1)
  BY <1>3, <1>4, Zenon DEF LineStep
<1> QED BY <1>5, Zenon DEF Advances, n, n1, l, k, a, a1

LEMMA FeedAdvances ==
  ASSUME IInv, IInv',
         \/ SeekFile \/ ReadPacket \/ ReadEof
         \/ \E s \in Streams : SeekFlush(s) \/ AbortComponent(s) \/ JoinComponent(s)
  PROVE  \A t \in Streams : Advances(t)
<1>1. CASE SeekFile
  <2>1. UNCHANGED <<queue, dec, frames, shown>>
    BY <1>1 DEF SeekFile
  <2> QED BY <2>1, RestAdvances
<1>2. CASE ReadPacket
  <2> DEFINE s == Layout[pos + 1]
             x == [gen |-> gen, pos |-> pos + 1]
  <2>1. pos + 1 \in 1 .. End /\ gen \in Nat /\ pos \in Nat /\ pos + 1 \in Nat
    BY <1>2, Parameters DEF ReadPacket, IInv, TypeOK, DataType
  <2>2. x \in AVPacket
    BY <2>1, Parameters DEF AVPacket
  <2>3. s \in Streams
    BY <2>1, Parameters
  <2>4. /\ queue' = [queue EXCEPT ![s] = packet_queue_put(queue[s], x)]
        /\ UNCHANGED <<dec, frames, shown>>
    BY <1>2 DEF ReadPacket
  <2> HIDE DEF s, x
  <2>5. /\ queue'[s] = packet_queue_put(queue[s], x)
        /\ \A t \in Streams \ {s} : queue'[t] = queue[t]
    BY <2>3, <2>4, Known
  <2>6. Advances(s)
    BY <2>2, <2>3, <2>4, <2>5, PutAdvances
  <2> QED BY <2>3, <2>4, <2>5, <2>6, AllAdvance
<1>3. CASE ReadEof
  <2>1. /\ UNCHANGED <<dec, frames, shown>>
        /\ \/ queue' = queue
           \/ queue' = [s \in Streams |-> packet_queue_put(queue[s], NullPacket)]
    BY <1>3 DEF ReadEof
  <2>2. CASE queue' = queue
    BY <2>1, <2>2, RestAdvances
  <2>3. CASE queue' = [s \in Streams |-> packet_queue_put(queue[s], NullPacket)]
    <3>1. ASSUME NEW t \in Streams PROVE Advances(t)
      <4>1. queue'[t] = packet_queue_put(queue[t], NullPacket)
        BY <2>3
      <4> QED BY <2>1, <4>1, Packets, PutAdvances
    <3> QED BY <3>1
  <2> QED BY <2>1, <2>2, <2>3
<1>4. ASSUME NEW s \in Streams, SeekFlush(s) \/ AbortComponent(s) \/ JoinComponent(s)
      PROVE  \A t \in Streams : Advances(t)
  <2>1. UNCHANGED <<dec, frames, shown>>
    BY <1>4 DEF SeekFlush, AbortComponent, JoinComponent
  <2>2. /\ frames[s] \in Seq(Frame) /\ dec[s] \in DecoderType /\ queue[s] \in PacketQueueType
        /\ queue'[s] \in PacketQueueType
    BY Known, KnownNext
  <2>3. /\ \A t \in Streams \ {s} : queue'[t] = queue[t]
        /\ \/ queue'[s].pkt_list = <<>> /\ queue'[s].serial = queue[s].serial + 1
           \/ queue'[s].pkt_list = queue[s].pkt_list /\ queue'[s].serial = queue[s].serial
    <3>1. /\ packet_queue_flush(queue[s]).pkt_list = <<>>
          /\ packet_queue_flush(queue[s]).serial = queue[s].serial + 1
      BY <2>2, FlushLeaves
    <3>2. /\ packet_queue_abort(queue[s]).pkt_list = queue[s].pkt_list
          /\ packet_queue_abort(queue[s]).serial = queue[s].serial
      BY <2>2 DEF packet_queue_abort, PacketQueueType
    <3>3. \/ queue' = [queue EXCEPT ![s] = packet_queue_flush(queue[s])]
          \/ queue' = [queue EXCEPT ![s] = packet_queue_abort(queue[s])]
      BY <1>4 DEF SeekFlush, AbortComponent, JoinComponent
    <3>4. /\ \A t \in Streams \ {s} : queue'[t] = queue[t]
          /\ queue'[s] \in {packet_queue_flush(queue[s]), packet_queue_abort(queue[s])}
      BY <3>3, Known
    <3> QED BY <3>1, <3>2, <3>4
  <2> DEFINE l == Way(frames[s], dec[s], queue[s])
             k == Way(frames'[s], dec'[s], queue'[s])
             n == queue[s].serial
             n1 == queue'[s].serial
             a == shown[s].pos
             a1 == shown'[s].pos
  <2>4. LET m == Way(frames[s], dec[s], queue'[s])
        IN  /\ queue'[s].pkt_list = queue[s].pkt_list => m = l
            /\ queue'[s].pkt_list = <<>> => Without(l, m)
    BY <2>2, FlushWay
  <2>5. k = Way(frames[s], dec[s], queue'[s]) /\ a1 = a
    BY <2>1
  <2>6. \/ k = l /\ n1 = n
        \/ Without(l, k) /\ n1 = n + 1
    BY <2>3, <2>4, <2>5, Zenon
  <2> HIDE DEF l, k, n, n1, a, a1
  <2>7. LineStep(l, k, n, n1, a, a1)
    BY <2>5, <2>6 DEF LineStep
  <2>8. Advances(s)
    BY <2>7, Zenon DEF Advances, n, n1, l, k, a, a1
  <2> QED BY <2>1, <2>3, <2>8, AllAdvance
<1> QED BY <1>1, <1>2, <1>3, <1>4

LEMMA StepAdvances ==
  ASSUME IInv, IInv', OrderInv, [Next]_vars
  PROVE  \A s \in Streams : Advances(s)
<1>1. CASE Quiet \/ UNCHANGED vars
  <2>1. UNCHANGED <<queue, dec, frames, shown>>
    BY <1>1 DEF Quiet
  <2> QED BY <2>1, RestAdvances
<1> QED BY <1>1, Steps, DecodersAdvance, FeedAdvances, PresentAdvances, Zenon

LEMMA InitLines ==
  ASSUME Init, NEW s \in Streams
  PROVE  Promise(s)!LineInit
<1>1. /\ queue[s] = packet_queue_start(packet_queue_init)
      /\ frames[s] = <<>> /\ shown[s] = NoFrame
      /\ dec[s].pc = "receive" /\ dec[s].codec = <<>>
  BY DEF Init, NewDecoder
<1>2. queue[s].pkt_list = <<>> /\ queue[s].serial \in Nat
  BY <1>1 DEF packet_queue_start, packet_queue_init
<1>3. /\ FramesOf(frames[s]) = <<>> /\ FrameHeld(dec[s]) = <<>> /\ FramesOf(dec[s].codec) = <<>>
      /\ PacketHeld(dec[s]) = <<>> /\ PacketsOf(queue[s]) = <<>>
  BY <1>1, <1>2 DEF FramesOf, FrameHeld, PacketHeld, PacketsOf
<1>4. Way(frames[s], dec[s], queue[s]) = <<>>
  BY <1>3 DEF Way
<1>5. shown[s].pos = 0
  BY <1>1 DEF NoFrame
<1> QED BY <1>2, <1>4, <1>5, Zenon DEF Promise!LineInit

(* Each stream is a PacketLine, from the demuxer to the presentation: packets *)
(* are lost but never passed by another, none comes twice, and each goes by  *)
(* the serial it was put under, for any file and any bounds.                *)
THEOREM Refinement == Spec => ImplementsLines
<1>1. Init => \A s \in Streams : Promise(s)!LineInit
  BY InitLines
<1>2. IInv /\ IInv' /\ OrderInv /\ [Next]_vars =>
        \A s \in Streams : [Promise(s)!LineNext]_(Promise(s)!lvars)
  BY StepAdvances, Lifted
<1> QED BY <1>1, <1>2, Invariance, Line, PTL DEF Spec, ImplementsLines
=============================================================================
