-------------------------- MODULE FrameQueue_proofs --------------------------
(***************************************************************************)
(* Proofs about FrameQueue, for rings of any size, any number of frames and *)
(* of openings: the inductive invariant, the safety properties it implies   *)
(* and the refinement of FrameChannel.                                      *)
(***************************************************************************)
EXTENDS FrameQueue, TLAPS

USE DEF Nobody, Writer, Reader, Slots, keep_last, Win32, IsSampq, AllKinds, Remaining,
        MutexFree, vars, ring, sync

(* The remainder of an index that has gone round at most once is Wrap's.   *)
LEMMA ModWrap ==
  ASSUME NEW i \in Nat, i < 2 * MaxSize
  PROVE  i % MaxSize = Wrap(i)
BY QueueAssumption, SMT DEF Wrap

(* The slots frame_queue_peek and frame_queue_peek_next return.            *)
LEMMA Peeks ==
  ASSUME TypeOK
  PROVE  /\ PeekIndex = Wrap(rindex + rindex_shown)
         /\ NextIndex = Wrap(rindex + rindex_shown + 1)
<1>1. rindex + rindex_shown \in Nat /\ rindex + rindex_shown < 2 * MaxSize
  BY QueueAssumption DEF TypeOK
<1>2. rindex + rindex_shown + 1 \in Nat /\ rindex + rindex_shown + 1 < 2 * MaxSize
  BY QueueAssumption DEF TypeOK
<1> QED BY <1>1, <1>2, ModWrap DEF PeekIndex, NextIndex

(* One signal empties the wait set: the two threads never wait together.   *)
LEMMA SignalSuffices ==
  ASSUME TypeOK, NoLostWakeup, CondSignal
  PROVE  waiting' = {}
<1>1. waiting = {} \/ waiting = {Writer} \/ waiting = {Reader}
  BY DEF TypeOK, NoLostWakeup
<1> QED BY <1>1, Zenon DEF CondSignal

(* At the start the component is closed and the ring empty.                *)
LEMMA InitInv == Init => IInv
BY QueueAssumption, SMT
   DEF Init, IInv, TypeOK, ControlInv, RingInv, SlotsInv, HeldInv, NoLostWakeup,
       AudioNeverWaits, InUse, Filled, Offset, Wrap
-----------------------------------------------------------------------------
(* The decoder thread keeps the invariant.                                 *)
LEMMA WriterKeeps ==
  ASSUME IInv, WriterSteps
  PROVE  IInv'
<1> USE QueueAssumption
    DEF IInv, TypeOK, ControlInv, RingInv, SlotsInv, HeldInv, NoLostWakeup,
        AudioNeverWaits, InUse, Filled, Offset, Wrap, Advance
<1>1. CASE DecodeFrame
  BY <1>1, SMT DEF DecodeFrame
<1>2. CASE SubtitleLoop
  BY <1>2, SMT DEF SubtitleLoop
<1>3. CASE DecodeAborted
  BY <1>3, SMT DEF DecodeAborted
<1>4. CASE WriterTest
  BY <1>4, SMT DEF WriterTest
<1>5. CASE WriterWait
  BY <1>5, SMT DEF WriterWait
<1>6. CASE WriterGranted
  BY <1>6, SMT DEF WriterGranted
<1>7. CASE WriterFill
  BY <1>7, SMT DEF WriterFill
<1>8. CASE SubtitleFill
  <2>1. windex \in Slots /\ decoded + 1 \in 0 .. MaxFrames /\ 0 \in 0 .. MaxFrames
    BY <1>8 DEF SubtitleFill
  <2>2. queue' \in [Slots -> 0 .. MaxFrames]
    <3>1. CASE queue' = [queue EXCEPT ![windex] = decoded']
      BY <3>1, <2>1, <1>8 DEF SubtitleFill
    <3>2. CASE queue' = [queue EXCEPT ![windex] = 0]
      BY <3>2, <2>1, <1>8 DEF SubtitleFill
    <3> QED BY <3>1, <3>2, <1>8 DEF SubtitleFill
  <2>3. SlotsInv'
    BY <1>8, SMT DEF SubtitleFill
  <2>4. TypeOK'
    BY <2>2, <1>8, SMT DEF SubtitleFill
  <2>5. ControlInv' /\ RingInv' /\ HeldInv' /\ NoLostWakeup' /\ AudioNeverWaits'
    BY <1>8, SMT DEF SubtitleFill
  <2> QED BY <2>3, <2>4, <2>5
<1>9. CASE PushAdvance
  <2>1. TypeOK' /\ ControlInv' /\ NoLostWakeup' /\ AudioNeverWaits'
    BY <1>9, SMT DEF PushAdvance
  <2>2. RingInv'
    BY <1>9, SMT DEF PushAdvance
  <2>3. SlotsInv'
    <3>1. queue[windex] # 0
      BY <1>9, SMT DEF PushAdvance
    <3>2. SUFFICES ASSUME NEW s \in Slots, (Offset(s) < Filled)'
                   PROVE  queue[s] # 0
      BY <1>9, Zenon DEF PushAdvance
    <3>3. Offset(s) < Filled \/ s = windex
      BY <1>9, <3>2, SMT DEF PushAdvance
    <3> QED BY <3>1, <3>3, SMT
  <2>4. HeldInv'
    BY <1>9, SMT DEF PushAdvance
  <2> QED BY <2>1, <2>2, <2>3, <2>4
<1>10. CASE PushPublish
  <2>1. waiting' = {}
    BY SignalSuffices, <1>10 DEF PushPublish
  <2> QED BY <2>1, <1>10, SMT DEF PushPublish
<1> QED BY <1>1, <1>2, <1>3, <1>4, <1>5, <1>6, <1>7, <1>8, <1>9, <1>10 DEF WriterSteps

(* The presenting thread keeps the invariant.                              *)
LEMMA ReaderKeeps ==
  ASSUME IInv, ReaderSteps
  PROVE  IInv'
<1>p. PeekIndex = Wrap(rindex + rindex_shown) /\ NextIndex = Wrap(rindex + rindex_shown + 1)
  BY Peeks DEF IInv
<1> USE QueueAssumption
    DEF IInv, TypeOK, ControlInv, RingInv, SlotsInv, HeldInv, NoLostWakeup,
        AudioNeverWaits, InUse, Filled, Offset, Wrap, Advance, ReaderRuns
<1>1. CASE PollPeek
  BY <1>p, <1>1, SMT DEF PollPeek
<1>2. CASE Redisplay
  BY <1>2, SMT DEF Redisplay
<1>3. CASE LeaveFrame
  BY <1>3, SMT DEF LeaveFrame
<1>4. CASE DisplayDone
  BY <1>4, SMT DEF DisplayDone
<1>5. CASE AudioCallback
  BY <1>5, SMT DEF AudioCallback
<1>6. CASE ReaderTest
  BY <1>6, SMT DEF ReaderTest
<1>7. CASE ReaderWait
  BY <1>7, SMT DEF ReaderWait
<1>8. CASE ReaderGranted
  <2>1. CASE abort_request
    <3>1. /\ rpc' = "idle"
          /\ UNCHANGED <<kind, queue, rindex, windex, size, rindex_shown, mutex, waiting,
                         abort_request, wpc, cpc, held, decoded, opens>>
      BY <2>1, <1>8, Zenon DEF ReaderGranted, ring, sync
    <3>2. TypeOK' /\ NoLostWakeup' /\ AudioNeverWaits'
      BY <1>8, <3>1, SMTT(30) DEF ReaderGranted
    <3>3. ControlInv'
      BY <1>8, <3>1, SMTT(30) DEF ReaderGranted
    <3>4. RingInv'
      BY <1>8, <3>1, SMTT(30) DEF ReaderGranted
    <3>5. SlotsInv' /\ HeldInv'
      BY <1>8, <3>1, SMTT(30) DEF ReaderGranted
    <3> QED BY <3>2, <3>3, <3>4, <3>5
  <2>2. CASE ~abort_request
    <3>1. PeekIndex \in Slots /\ Offset(PeekIndex) < InUse
      BY <2>2, <1>p, <1>8, SMT DEF ReaderGranted
    <3>2. held' \subseteq Slots /\ (\A s \in held' : Offset(s) < InUse)
      BY <3>1, <2>2, <1>8, Zenon DEF ReaderGranted
    <3>3. HeldInv'
      BY <3>2, <1>8, SMT DEF ReaderGranted
    <3> QED BY <3>2, <3>3, <2>2, <1>8, SMT DEF ReaderGranted
  <2> QED BY <2>1, <2>2
<1>9. CASE NextShows
  BY <1>9, SMT DEF NextShows, AfterNext
<1>10. CASE NextReleases
  BY <1>p, <1>10, SMTT(30) DEF NextReleases
<1>11. CASE NextShrinks
  <2>1. waiting' = {}
    BY SignalSuffices, <1>11 DEF NextShrinks
  <2>2. held' \subseteq held
    BY <1>11, SMT DEF NextShrinks, AfterNext
  <2>3. rpc' \in {"use", "idle"} /\ (kind # "pictq" => rpc' = "idle")
    BY <1>11, SMT DEF NextShrinks, AfterNext
  <2>4. HeldInv'
    BY <2>2, <2>3, <1>11, SMT DEF NextShrinks
  <2>5. TypeOK'
    BY <2>1, <2>2, <2>3, <1>11, SMT DEF NextShrinks
  <2> QED BY <2>1, <2>3, <2>4, <2>5, <1>11, SMT DEF NextShrinks
<1> QED BY <1>1, <1>2, <1>3, <1>4, <1>5, <1>6, <1>7, <1>8, <1>9, <1>10, <1>11
        DEF ReaderSteps

(* The thread that opens and closes the component keeps the invariant.     *)
LEMMA CloserKeeps ==
  ASSUME IInv, CloserSteps
  PROVE  IInv'
<1> USE QueueAssumption
    DEF IInv, TypeOK, ControlInv, RingInv, SlotsInv, HeldInv, NoLostWakeup,
        AudioNeverWaits, InUse, Filled, Offset, Wrap
<1>1. CASE DecoderStart
  <2>1. waiting = {}
    BY <1>1, Zenon DEF DecoderStart
  <2>2. opens' \in 0 .. MaxOpens
    BY <1>1, SMT DEF DecoderStart
  <2>3. TypeOK'
    <3>1. abort_request' \in BOOLEAN /\ cpc' = "open"
      BY <1>1 DEF DecoderStart
    <3>2. wpc' \in {"test", "decode"}
      BY <1>1, Zenon DEF DecoderStart
    <3> QED BY <3>1, <3>2, <2>2, <1>1, Zenon DEF DecoderStart
  <2>4. ControlInv'
    BY <2>1, <1>1, SMT DEF DecoderStart
  <2>5. RingInv'
    BY <1>1, SMT DEF DecoderStart
  <2>6. SlotsInv'
    BY <1>1, SMT DEF DecoderStart
  <2>7. HeldInv'
    BY <1>1, SMT DEF DecoderStart
  <2>8. NoLostWakeup'
    BY <2>1, <1>1, SMT DEF DecoderStart
  <2>9. AudioNeverWaits'
    BY <2>1, <1>1, Zenon DEF DecoderStart
  <2> QED BY <2>3, <2>4, <2>5, <2>6, <2>7, <2>8, <2>9
<1>2. CASE Abort
  BY <1>2, SMT DEF Abort
<1>3. CASE SignalAbort
  <2>1. waiting' = {}
    BY SignalSuffices, <1>3 DEF SignalAbort
  <2> QED BY <2>1, <1>3, SMT DEF SignalAbort
<1>4. CASE JoinWriter
  BY <1>4, SMT DEF JoinWriter
<1>5. CASE JoinReader
  BY <1>5, SMT DEF JoinReader
<1> QED BY <1>1, <1>2, <1>3, <1>4, <1>5 DEF CloserSteps

(* Every step keeps the invariant; waking up for no reason disturbs nothing. *)
LEMMA StepKeeps == IInv /\ [Next]_vars => IInv'
<1> SUFFICES ASSUME IInv, [Next]_vars PROVE IInv'
  OBVIOUS
<1>1. CASE WriterSteps BY <1>1, WriterKeeps
<1>2. CASE ReaderSteps BY <1>2, ReaderKeeps
<1>3. CASE CloserSteps BY <1>3, CloserKeeps
<1>4. CASE SpuriousWakeup
  BY <1>4, SMTT(30)
     DEF SpuriousWakeup, IInv, TypeOK, ControlInv, RingInv, SlotsInv, HeldInv,
         NoLostWakeup, AudioNeverWaits, InUse, Filled, Offset, Wrap
<1>5. CASE UNCHANGED vars
  BY <1>5
     DEF IInv, TypeOK, ControlInv, RingInv, SlotsInv, HeldInv, NoLostWakeup,
        AudioNeverWaits,  InUse, Filled, Offset, Wrap
<1> QED BY <1>1, <1>2, <1>3, <1>4, <1>5 DEF Next

(* The ring's indices, its count and the places of the threads in the       *)
(* half-locked push and next always fit together.                           *)
THEOREM Invariance == Spec => []IInv
<1>1. Init => IInv BY InitInv
<1>2. IInv /\ [Next]_vars => IInv' BY StepKeeps
<1> QED BY <1>1, <1>2, PTL DEF Spec
-----------------------------------------------------------------------------
(* The variables stay in their types.                                      *)
THEOREM TypeCorrect == Spec => []TypeOK
<1>1. IInv => TypeOK BY DEF IInv
<1> QED BY <1>1, Invariance, PTL

(* The decoder never writes a slot the presenting thread may look into:     *)
(* the slot it was granted lies just behind the slots in use, and those the *)
(* reader has pointers to are among them.                                   *)
THEOREM SlotSafety == Spec => []NoSlotClash
<1>1. IInv => NoSlotClash
  BY QueueAssumption, SMT
     DEF IInv, TypeOK, RingInv, HeldInv, NoSlotClash, InUse, Filled, Offset, Wrap
<1> QED BY <1>1, Invariance, PTL

(* Whatever the presenting thread looks at is a frame, not a released slot. *)
THEOREM HeldSafety == Spec => []HeldAreFrames
<1>1. IInv => HeldAreFrames
  BY QueueAssumption, SMT
     DEF IInv, TypeOK, SlotsInv, HeldInv, HeldAreFrames, InUse, Filled, Offset
<1> QED BY <1>1, Invariance, PTL

(* No thread waits on the condition variable without a reason or a signal   *)
(* to come, although abort_request is set outside the ring's mutex.         *)
THEOREM WakeupSafety == Spec => []NoLostWakeup
<1>1. IInv => NoLostWakeup BY DEF IInv
<1> QED BY <1>1, Invariance, PTL

(* In the _WIN32 build the poll before frame_queue_peek_readable is enough  *)
(* for the audio callback never to block there: nobody else takes a frame.  *)
THEOREM PollSuffices == Spec => []AudioNeverWaits
<1>1. IInv => AudioNeverWaits BY DEF IInv
<1> QED BY <1>1, Invariance, PTL
-----------------------------------------------------------------------------
(* Functions on 1 .. n as sequences: how Append and Tail look pointwise.    *)
LEMMA FunctionIsSeq ==
  ASSUME NEW n \in Nat, NEW S, NEW f \in [1 .. n -> S]
  PROVE  f \in Seq(S) /\ Len(f) = n
OBVIOUS

LEMMA AppendPointwise ==
  ASSUME NEW n \in Nat, NEW S, NEW f \in [1 .. n -> S], NEW g \in [1 .. n + 1 -> S],
         \A i \in 1 .. n : g[i] = f[i]
  PROVE  g = Append(f, g[n + 1])
<1>1. f \in Seq(S) /\ Len(f) = n /\ g \in Seq(S) /\ Len(g) = n + 1
  BY FunctionIsSeq
<1>2. n + 1 \in 1 .. n + 1 /\ g[n + 1] \in S
  OBVIOUS
<1> DEFINE h == Append(f, g[n + 1])
<1>3. h \in Seq(S) /\ Len(h) = n + 1
  BY <1>1, <1>2
<1>4. \A i \in 1 .. n + 1 : g[i] = h[i]
  BY <1>1, <1>2
<1>5. g = h
  BY <1>1, <1>3, <1>4
<1> QED BY <1>5

LEMMA TailPointwise ==
  ASSUME NEW n \in Nat, n > 0, NEW S, NEW f \in [1 .. n -> S], NEW g \in [1 .. n - 1 -> S],
         \A i \in 1 .. n - 1 : g[i] = f[i + 1]
  PROVE  f # <<>> /\ Head(f) = f[1] /\ g = Tail(f)
<1>1. f \in Seq(S) /\ Len(f) = n
  BY FunctionIsSeq
<1>2. n - 1 \in Nat
  OBVIOUS
<1>3. g \in Seq(S) /\ Len(g) = n - 1
  BY <1>2, FunctionIsSeq
<1>4. f # <<>> /\ Head(f) = f[1]
  BY <1>1
<1>5. Tail(f) \in Seq(S) /\ Len(Tail(f)) = n - 1 /\ \A i \in 1 .. n - 1 : Tail(f)[i] = f[i + 1]
  BY <1>1, <1>4
<1>6. g = Tail(f)
  BY <1>3, <1>5
<1> QED BY <1>4, <1>6
-----------------------------------------------------------------------------
(* The refinement: what the channel's variables are.                       *)
Held == InUse - rindex_shown
Place(i) == Wrap(rindex + rindex_shown + i - 1)
Contents == [i \in 1 .. Held |-> queue[Place(i)]]
Kept == IF rindex_shown = 1 THEN queue[rindex] ELSE 0

(* The counts the refinement is about.                                     *)
LEMMA Counts ==
  ASSUME IInv
  PROVE  /\ rindex_shown \in {0, 1} /\ InUse \in Nat /\ Held \in Nat /\ Filled \in Nat
         /\ InUse <= Filled /\ Filled <= MaxSize /\ rindex \in Slots
         /\ MaxSize \in Nat /\ MaxSize >= 2
BY QueueAssumption, SMT DEF IInv, TypeOK, RingInv, InUse, Filled, Held

(* A slot in use holds a frame.                                            *)
LEMMA UsedSlots ==
  ASSUME IInv, NEW s \in Slots, Offset(s) < Filled
  PROVE  queue[s] \in 1 .. MaxFrames
<1>1. queue[s] # 0 BY DEF IInv, SlotsInv
<1>2. queue[s] \in 0 .. MaxFrames BY DEF IInv, TypeOK
<1> QED BY <1>1, <1>2, QueueAssumption

(* The i-th frame in the channel lies rindex_shown + i - 1 after rindex.   *)
LEMMA Places ==
  ASSUME IInv, NEW i \in Nat, i >= 1, i <= Held + 1, i <= Filled - rindex_shown
  PROVE  Place(i) \in Slots /\ Offset(Place(i)) = rindex_shown + i - 1
BY Counts, SMT DEF Place, Held, Offset, Wrap

(* What is in the channel is a sequence of frames; what is kept, a frame.   *)
LEMMA ContentsType ==
  ASSUME IInv
  PROVE  /\ Contents \in [1 .. Held -> 1 .. MaxFrames]
         /\ Contents \in Seq(1 .. MaxFrames) /\ Len(Contents) = Held
         /\ rindex_shown = 1 => Kept \in 1 .. MaxFrames
         /\ rindex_shown = 0 => Kept = 0
<1>1. \A i \in 1 .. Held : queue[Place(i)] \in 1 .. MaxFrames
  <2> SUFFICES ASSUME NEW i \in 1 .. Held PROVE queue[Place(i)] \in 1 .. MaxFrames
    OBVIOUS
  <2>1. i \in Nat /\ i >= 1 /\ i <= Held + 1 /\ i <= Filled - rindex_shown
    BY Counts, SMT DEF Held
  <2>2. Place(i) \in Slots /\ Offset(Place(i)) < Filled
    BY <2>1, Places, Counts, SMT DEF Held
  <2> QED BY <2>2, UsedSlots
<1>2. Contents \in [1 .. Held -> 1 .. MaxFrames]
  BY <1>1 DEF Contents
<1>3. rindex_shown = 1 => Kept \in 1 .. MaxFrames
  <2>1. rindex_shown = 1 => rindex \in Slots /\ Offset(rindex) < Filled
    BY Counts, SMT DEF Offset, Held
  <2> QED BY <2>1, UsedSlots DEF Kept
<1>4. rindex_shown = 0 => Kept = 0
  BY DEF Kept
<1> QED BY <1>2, <1>3, <1>4, Counts, FunctionIsSeq

(* A step that leaves the slots in use alone is a stutter of the channel.   *)
LEMMA SameContents ==
  ASSUME IInv, kind' = kind, rindex' = rindex, rindex_shown' = rindex_shown,
         InUse' = InUse,
         \A s \in Slots : Offset(s) < InUse => queue'[s] = queue[s]
  PROVE  UNCHANGED <<Contents, Kept, keep_last>>
<1>1. \A i \in 1 .. Held : queue'[Place(i)] = queue[Place(i)]
  <2> SUFFICES ASSUME NEW i \in 1 .. Held PROVE queue'[Place(i)] = queue[Place(i)]
    OBVIOUS
  <2>1. i \in Nat /\ i >= 1 /\ i <= Held + 1 /\ i <= Filled - rindex_shown
    BY Counts, SMT DEF Held
  <2>2. Place(i) \in Slots /\ Offset(Place(i)) < InUse
    BY <2>1, Places, Counts, SMT DEF Held
  <2> QED BY <2>2
<1>2. Held' = Held
  BY DEF Held
<1>3. \A i : Place(i)' = Place(i)
  BY DEF Place, Wrap
<1>4. Contents' = Contents
  BY <1>1, <1>2, <1>3, Zenon DEF Contents
<1>5. Kept' = Kept
  <2>1. rindex_shown = 1 => rindex \in Slots /\ Offset(rindex) < InUse
    BY Counts, SMT DEF Offset, Held
  <2> QED BY <2>1 DEF Kept
<1> QED BY <1>4, <1>5

(* What Put and Take say of the ring.                                      *)
Retains == IF Kept = 0 THEN 0 ELSE 1

LEMMA PutIs ==
  ASSUME NEW f
  PROVE  Channel!Put(f) <=> /\ Len(Contents) + Retains < MaxSize
                            /\ Contents' = Append(Contents, f)
                            /\ UNCHANGED <<Kept, keep_last>>
BY DEF Channel!Put, Channel!Retained, Retains, Contents, Kept, Held, Place

LEMMA TakeIs ==
  Channel!Take <=> /\ Contents # <<>>
                   /\ Contents' = Tail(Contents)
                   /\ Kept' = IF keep_last THEN Head(Contents) ELSE 0
                   /\ keep_last' = keep_last
BY DEF Channel!Take, Contents, Kept, Held, Place

(* frame_queue_push puts the frame in the slot before windex.              *)
LEMMA PushPuts ==
  ASSUME IInv, IInv', PushPublish
  PROVE  \E f \in 1 .. MaxFrames : Channel!Put(f)
<1> DEFINE f == queue[Place(Held + 1)]
<1>1. Filled = InUse + 1 /\ Filled <= MaxSize /\ Held + 1 \in Nat /\ Held + 1 >= 1
      /\ Held + 1 <= Filled - rindex_shown
  BY Counts, SMT DEF PushPublish, Filled, Held
<1>2. f \in 1 .. MaxFrames
  <2>1. Place(Held + 1) \in Slots /\ Offset(Place(Held + 1)) < Filled
    BY <1>1, Places, Counts, SMT DEF Held
  <2> QED BY <2>1, UsedSlots
<1>3. InUse' = InUse + 1 /\ Held' = Held + 1
  BY Counts, SMT DEF PushPublish, InUse, Held, IInv, TypeOK
<1>4. \A i : Place(i)' = Place(i)
  BY DEF PushPublish, Place, Wrap
<1>5. Contents' = [i \in 1 .. Held + 1 |-> queue[Place(i)]]
  BY <1>3, <1>4, Zenon DEF PushPublish, Contents
<1>6. Contents' \in [1 .. Held + 1 -> 1 .. MaxFrames]
  <2>1. (Contents \in [1 .. Held -> 1 .. MaxFrames])'
    BY ContentsType, PTL
  <2> QED BY <2>1, <1>3
<1>7. Contents' = Append(Contents, f)
  <2>1. \A i \in 1 .. Held : Contents'[i] = Contents[i]
    <3> SUFFICES ASSUME NEW i \in 1 .. Held PROVE Contents'[i] = Contents[i]
      OBVIOUS
    <3>1. Contents[i] = queue[Place(i)] BY DEF Contents
    <3>2. i \in 1 .. Held + 1 BY Counts
    <3> QED BY <3>1, <3>2, <1>5
  <2>2. Contents'[Held + 1] = f
    BY <1>5, <1>1, Counts
  <2> QED BY <2>1, <2>2, <1>6, AppendPointwise, ContentsType, Counts
<1>8. Len(Contents) + Retains < MaxSize
  BY <1>1, ContentsType, Counts, SMTT(30) DEF Held, Retains
<1>9. UNCHANGED <<Kept, keep_last>>
  BY DEF PushPublish, Kept
<1> QED BY <1>2, <1>7, <1>8, <1>9, PutIs

(* frame_queue_next on the first frame retains it ...                      *)
LEMMA ShowsTakes ==
  ASSUME IInv, IInv', NextShows
  PROVE  Channel!Take
<1>1. InUse' = InUse /\ Held' = Held - 1 /\ Held >= 1 /\ rindex_shown = 0 /\ keep_last /\ keep_last'
  BY Counts, SMT DEF NextShows, AfterNext, IInv, RingInv, InUse, Held
<1>2. \A i \in 1 .. Held - 1 : Contents'[i] = Contents[i + 1]
  <2>1. \A i \in Nat : Place(i)' = Place(i + 1)
    BY <1>1, Counts DEF NextShows, Place, Wrap
  <2> SUFFICES ASSUME NEW i \in 1 .. Held - 1 PROVE Contents'[i] = Contents[i + 1]
    OBVIOUS
  <2>2. i \in 1 .. Held' /\ i + 1 \in 1 .. Held /\ i \in Nat
    BY <1>1, Counts
  <2>3. Contents'[i] = queue'[Place(i)']
    BY <2>2 DEF Contents
  <2>4. Contents[i + 1] = queue[Place(i + 1)]
    BY <2>2 DEF Contents
  <2> QED BY <2>1, <2>2, <2>3, <2>4 DEF NextShows
<1>3. Contents # <<>> /\ Head(Contents) = Contents[1] /\ Contents' = Tail(Contents)
  <2>1. Contents' \in [1 .. Held - 1 -> 1 .. MaxFrames]
    <3>1. (Contents \in [1 .. Held -> 1 .. MaxFrames])'
      BY ContentsType, PTL
    <3> QED BY <3>1, <1>1
  <2> QED BY <2>1, <1>1, <1>2, TailPointwise, ContentsType, Counts
<1>4. Kept' = Contents[1]
  <2>1. Place(1) = rindex
    BY <1>1, Counts, SMT DEF Place, Wrap
  <2>2. Kept' = queue[rindex]
    BY DEF NextShows, Kept
  <2> QED BY <2>1, <2>2, <1>1, Counts DEF Contents
<1> QED BY <1>1, <1>3, <1>4, TakeIs DEF NextShows

(* ... and on a later one, or without keep_last, releases one.             *)
LEMMA ReleasesTakes ==
  ASSUME IInv, IInv', NextReleases
  PROVE  Channel!Take
<1>1. /\ InUse' = InUse - 1 /\ Held' = Held - 1 /\ Held >= 1
      /\ keep_last' = keep_last /\ rindex_shown' = rindex_shown
      /\ (rindex_shown = 1 <=> keep_last)
  BY Counts, SMT DEF NextReleases, IInv, TypeOK, RingInv, InUse, Held
<1>2. \A i \in 0 .. Held - 1 : 
        /\ Place(i + 1) \in Slots
        /\ i + rindex_shown > 0 => Place(i)' = Place(i + 1) /\ Place(i + 1) # rindex
  <2> SUFFICES ASSUME NEW i \in 0 .. Held - 1
               PROVE  /\ Place(i + 1) \in Slots
                      /\ i + rindex_shown > 0 =>
                           Place(i)' = Place(i + 1) /\ Place(i + 1) # rindex
    OBVIOUS
  <2>1. Place(i)' = Wrap(rindex' + rindex_shown' + i - 1)
    BY DEF Place, Wrap
  <2>2. rindex + rindex_shown + i \in Int /\ rindex_shown + i < MaxSize
    BY Counts, SMT DEF Held
  <2>3. Place(i + 1) = Wrap(rindex + rindex_shown + i)
    BY <2>2 DEF Place
  <2>4. rindex' = Advance(rindex)
    BY DEF NextReleases
  <2>5. i + rindex_shown > 0 =>
          Wrap(Advance(rindex) + rindex_shown + i - 1) = Wrap(rindex + rindex_shown + i)
    BY <2>2, Counts, SMT DEF Advance, Wrap
  <2>6. Wrap(rindex + rindex_shown + i) \in Slots
        /\ (i + rindex_shown > 0 => Wrap(rindex + rindex_shown + i) # rindex)
    BY <2>2, Counts, SMT DEF Wrap
  <2> QED BY <2>1, <2>3, <2>4, <2>5, <2>6, <1>1
<1>3. \A i \in 1 .. Held - 1 : Contents'[i] = Contents[i + 1]
  <2> SUFFICES ASSUME NEW i \in 1 .. Held - 1 PROVE Contents'[i] = Contents[i + 1]
    OBVIOUS
  <2>1. i \in 1 .. Held' /\ i + 1 \in 1 .. Held /\ i \in 0 .. Held - 1 /\ i + rindex_shown > 0
    BY <1>1, Counts, SMT
  <2>2. Contents'[i] = queue'[Place(i)']
    BY <2>1 DEF Contents
  <2>3. Contents[i + 1] = queue[Place(i + 1)]
    BY <2>1 DEF Contents
  <2>4. queue'[Place(i + 1)] = queue[Place(i + 1)]
    BY <2>1, <1>2 DEF NextReleases, IInv, TypeOK
  <2> QED BY <2>1, <2>2, <2>3, <2>4, <1>2
<1>4. Contents # <<>> /\ Head(Contents) = Contents[1] /\ Contents' = Tail(Contents)
  <2>1. Contents' \in [1 .. Held - 1 -> 1 .. MaxFrames]
    <3>1. (Contents \in [1 .. Held -> 1 .. MaxFrames])'
      BY ContentsType, PTL
    <3> QED BY <3>1, <1>1
  <2> QED BY <2>1, <1>1, <1>3, TailPointwise, ContentsType, Counts, SMTT(30)
<1>5. Kept' = IF keep_last THEN Contents[1] ELSE 0
  <2>1. CASE keep_last
    <3>1. Place(1) = Advance(rindex) /\ Place(1) # rindex
      BY <2>1, <1>1, Counts, SMT DEF Place, Advance, Wrap
    <3>2. Kept' = queue'[Advance(rindex)]
      BY <2>1, <1>1 DEF NextReleases, Kept
    <3>3. 1 \in 1 .. Held /\ Place(1) \in Slots
      BY <1>1, <1>2, Counts
    <3>4. Contents[1] = queue[Place(1)]
      BY <3>3 DEF Contents
    <3> QED BY <2>1, <3>1, <3>2, <3>3, <3>4 DEF NextReleases, IInv, TypeOK
  <2>2. CASE ~keep_last
    BY <2>2, <1>1, Counts DEF Kept
  <2> QED BY <2>1, <2>2
<1> QED BY <1>1, <1>4, <1>5, TakeIs, Zenon

(* The other steps are stutters of the channel.                            *)
LEMMA OthersStutter ==
  ASSUME IInv, [Next]_vars, ~PushPublish, ~NextShows, ~NextReleases
  PROVE  UNCHANGED <<Contents, Kept, keep_last>>
<1>1. kind' = kind /\ rindex' = rindex /\ rindex_shown' = rindex_shown
  BY DEF Next, WriterSteps, ReaderSteps, CloserSteps, SpuriousWakeup,
         DecodeFrame, SubtitleLoop, DecodeAborted, WriterTest, WriterWait, WriterGranted,
         WriterFill, SubtitleFill, PushAdvance,
         PollPeek, Redisplay, LeaveFrame, DisplayDone, AudioCallback, ReaderTest,
         ReaderWait, ReaderGranted, NextShrinks,
         DecoderStart, Abort, SignalAbort, JoinWriter, JoinReader
<1>2. InUse' = InUse
  BY DEF Next, WriterSteps, ReaderSteps, CloserSteps, SpuriousWakeup,
         DecodeFrame, SubtitleLoop, DecodeAborted, WriterTest, WriterWait, WriterGranted,
         WriterFill, SubtitleFill, PushAdvance,
         PollPeek, Redisplay, LeaveFrame, DisplayDone, AudioCallback, ReaderTest,
         ReaderWait, ReaderGranted, NextShrinks, AfterNext, InUse,
         DecoderStart, Abort, SignalAbort, JoinWriter, JoinReader
<1>3. ASSUME NEW s \in Slots, Offset(s) < InUse PROVE queue'[s] = queue[s]
  <2>1. CASE WriterFill
    <3>1. s # windex /\ windex \in Slots
      BY <2>1, <1>3, QueueAssumption, SMT
         DEF WriterFill, IInv, TypeOK, RingInv, InUse, Filled, Offset, Wrap
    <3> QED BY <3>1, <2>1 DEF WriterFill, IInv, TypeOK
  <2>2. CASE SubtitleFill
    <3>1. s # windex /\ windex \in Slots
      BY <2>2, <1>3, QueueAssumption, SMT
         DEF SubtitleFill, IInv, TypeOK, RingInv, InUse, Filled, Offset, Wrap
    <3> QED BY <3>1, <2>2 DEF SubtitleFill, IInv, TypeOK
  <2>3. CASE ~WriterFill /\ ~SubtitleFill
    BY <2>3 DEF Next, WriterSteps, ReaderSteps, CloserSteps, SpuriousWakeup,
         DecodeFrame, SubtitleLoop, DecodeAborted, WriterTest, WriterWait, WriterGranted,
         PushAdvance,
         PollPeek, Redisplay, LeaveFrame, DisplayDone, AudioCallback, ReaderTest,
         ReaderWait, ReaderGranted, NextShrinks,
         DecoderStart, Abort, SignalAbort, JoinWriter, JoinReader
  <2> QED BY <2>1, <2>2, <2>3
<1> QED BY <1>1, <1>2, <1>3, SameContents

(* At the start the channel is empty.                                      *)
LEMMA InitShows == Init => Channel!ChanInit
BY QueueAssumption, SMT DEF Init, Channel!ChanInit, InUse, Wrap

(* The ring with its half-locked updates is a bounded FIFO that retains the *)
(* frame taken last: every step is a Put, a Take or a stutter.              *)
THEOREM Refinement == Spec => ImplementsChannel
<1>1. Init => Channel!ChanInit
  BY InitShows
<1>2. IInv /\ IInv' /\ [Next]_vars => [Channel!ChanNext]_(Channel!cvars)
  <2> SUFFICES ASSUME IInv, IInv', [Next]_vars
               PROVE  Channel!ChanNext \/ UNCHANGED <<Contents, Kept, keep_last>>
    BY DEF Channel!cvars, Contents, Kept, Held, Place
  <2>1. CASE PushPublish BY <2>1, PushPuts DEF Channel!ChanNext
  <2>2. CASE NextShows BY <2>2, ShowsTakes DEF Channel!ChanNext
  <2>3. CASE NextReleases BY <2>3, ReleasesTakes DEF Channel!ChanNext
  <2> QED BY <2>1, <2>2, <2>3, OthersStutter
<1> QED BY <1>1, <1>2, Invariance, PTL DEF Spec, ImplementsChannel, Channel!ChanSpec
=============================================================================
