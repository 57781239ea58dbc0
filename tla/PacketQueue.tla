---------------------------- MODULE PacketQueue -----------------------------
(***************************************************************************)
(* PacketQueue of lib-player/ffplay.cpp as operators on its state.  Every  *)
(* function of the queue runs inside q->mutex, so each is one step of the  *)
(* thread that calls it; packet_queue_get, which may wait, is the two      *)
(* cases CanGet / MustWait.                                                *)
(*                                                                         *)
(* A queue is a record of the fields of the C structure.  serial numbers   *)
(* the stretches of packets between two flushes; each listed packet        *)
(* carries the serial of the stretch it was put in.  The sum of durations  *)
(* is left out: it only feeds stream_has_enough_packets.                   *)
(***************************************************************************)
EXTENDS Integers, Sequences, Sums

CONSTANTS
  Packet,        (* packets as the demuxer hands them over                  *)
  Bytes(_),      (* pkt->size, a natural number                             *)
  Overhead       (* sizeof(MyAVPacketList), a natural number                *)

MyAVPacketList == [pkt : Packet, serial : Nat]

PacketQueueType ==
  [pkt_list : Seq(MyAVPacketList), nb_packets : Nat, size : Int,
   serial : Nat, abort_request : BOOLEAN]

(* packet_queue_init: aborted until packet_queue_start                     *)
packet_queue_init ==
  [pkt_list |-> <<>>, nb_packets |-> 0, size |-> 0, serial |-> 0,
   abort_request |-> TRUE]

(* packet_queue_put; an aborted queue refuses and the packet is freed      *)
packet_queue_put(q, pkt) ==
  IF q.abort_request THEN q
  ELSE [q EXCEPT
          !.pkt_list   = Append(@, [pkt |-> pkt, serial |-> q.serial]),
          !.nb_packets = @ + 1,
          !.size       = @ + Bytes(pkt) + Overhead]

(* Mutants: the packets stay listed; the byte count is not reset. *)
FlushKeepsPackets(q) ==
  [q EXCEPT !.nb_packets = 0, !.size = 0, !.serial = @ + 1]
FlushKeepsSize(q) ==
  [q EXCEPT !.pkt_list = <<>>, !.nb_packets = 0, !.serial = @ + 1]

packet_queue_flush(q) ==
  [q EXCEPT !.pkt_list = <<>>, !.nb_packets = 0, !.size = 0, !.serial = @ + 1]

packet_queue_abort(q) == [q EXCEPT !.abort_request = TRUE]

packet_queue_start(q) == [q EXCEPT !.abort_request = FALSE, !.serial = @ + 1]

(* packet_queue_get: what it returns and what is left, when it need not wait *)
CanGet(q)   == ~q.abort_request /\ q.pkt_list # <<>>
MustWait(q) == ~q.abort_request /\ q.pkt_list = <<>>

Got(q) == Head(q.pkt_list)

packet_queue_get(q) ==
  [q EXCEPT !.pkt_list   = Tail(@),
            !.nb_packets = @ - 1,
            !.size       = @ - (Bytes(Got(q).pkt) + Overhead)]

(* Every listed packet belongs to the stretch the queue is in.             *)
OneSerial(q) == \A i \in 1 .. Len(q.pkt_list) : q.pkt_list[i].serial = q.serial

(* what the packets of a list take                                         *)
ListedBytes(list) ==
  Total([i \in 1 .. Len(list) |-> Bytes(list[i].pkt) + Overhead])

(* The counters, which read_thread reads without a lock, agree with the    *)
(* list.                                                                   *)
Counted(q) == q.nb_packets = Len(q.pkt_list) /\ q.size = ListedBytes(q.pkt_list)
=============================================================================
