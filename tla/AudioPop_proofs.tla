---------------------------- MODULE AudioPop_proofs ----------------------------
(***************************************************************************)
(* Proofs about AudioPop, for any frames, any sizes of buffers and silence  *)
(* and any times: no sample is lost or repeated, a buffer is dated by its   *)
(* first sample, and the audio clock is right at a buffer's end.           *)
(***************************************************************************)
EXTENDS AudioPop, SequenceTheorems, TLAPS

USE DEF source, pause, clocks, call, pacing, vars

LEMMA Sizes ==
  /\ Buffer \in Nat \ {0} /\ Silence \in Nat \ {0}
  /\ MinSleep \in Nat /\ MaxSleep \in Nat /\ MaxTime \in Nat
BY AudioPopAssumption

LEMMA UnitsOf ==
  ASSUME TypeOK, NEW i \in 1 .. Len(file)
  PROVE  /\ file \in Seq([pts : Time, len : Nat \ {0}])
         /\ file[i] \in [pts : Time, len : Nat \ {0}]
         /\ file[i].len \in Nat \ {0} /\ file[i].pts \in Time
         /\ Units(i) \in Seq(Unit) /\ Len(Units(i)) = file[i].len
         /\ \A j \in 1 .. file[i].len : Units(i)[j] = <<i, j - 1>>
<1>1. file \in Seq([pts : Time, len : Nat \ {0}])
  BY AudioPopAssumption DEF TypeOK, Time
<1>2. file[i] \in [pts : Time, len : Nat \ {0}]
  BY <1>1, ElementOfSeq
<1>3. file[i].len \in Nat \ {0} /\ file[i].pts \in Time /\ i \in Nat
  BY <1>1, <1>2
<1>4. \A j \in 1 .. file[i].len : <<i, j - 1>> \in Unit
  BY <1>3 DEF Unit
<1>5. Units(i) \in [1 .. file[i].len -> Unit]
  BY <1>4 DEF Units
<1>6. Units(i) \in Seq(Unit) /\ Len(Units(i)) = file[i].len
  BY <1>3, <1>5
<1> QED BY <1>1, <1>2, <1>3, <1>6 DEF Units

LEMMA DatedUnit ==
  ASSUME TypeOK, NEW u \in Unit, u[1] \in 1 .. taken, Dated(u)
  PROVE  PtsOf(u) \in Nat
<1>1. u[1] \in 1 .. Len(file) /\ u[2] \in Nat
  BY DEF TypeOK, Unit
<1>2. file[u[1]].pts \in Nat
  BY <1>1, UnitsOf DEF Time, Dated, IsNaN
<1> QED BY <1>1, <1>2 DEF PtsOf

LEMMA Nothing == <<>> \in Seq(Unit) /\ Len(<<>>) = 0
OBVIOUS

LEMMA Joined ==
  ASSUME NEW s \in Seq(Unit), NEW t \in Seq(Unit)
  PROVE  /\ s \o t \in Seq(Unit) /\ Len(s \o t) = Len(s) + Len(t)
         /\ \A j \in 1 .. Len(s) : (s \o t)[j] = s[j]
         /\ \A j \in Len(s) + 1 .. Len(s) + Len(t) : (s \o t)[j] = t[j - Len(s)]
         /\ \A j \in 1 .. Len(t) : (s \o t)[Len(s) + j] = t[j]
<1>1. Len(s) \in Nat /\ Len(t) \in Nat
  OBVIOUS
<1> QED BY <1>1, ConcatProperties

LEMMA Regrouped ==
  ASSUME NEW s \in Seq(Unit), NEW t \in Seq(Unit), NEW u \in Seq(Unit)
  PROVE  (s \o t) \o u = s \o (t \o u)
BY ConcatAssociative

(* What Copy takes from audio_buf, and what is left.                       *)
LEMMA Parts ==
  ASSUME NEW b \in Seq(Unit), b # <<>>, NEW s \in Seq(Unit), Len(s) < Buffer
  PROVE  LET len1 == Smaller(Len(b), Buffer - Len(s))
             part == SubSeq(b, 1, len1)
             rest == SubSeq(b, len1 + 1, Len(b)) IN
         /\ len1 \in 1 .. Len(b) /\ Len(s) + len1 <= Buffer
         /\ len1 < Len(b) => Len(s) + len1 = Buffer
         /\ part \in Seq(Unit) /\ Len(part) = len1
         /\ \A j \in 1 .. len1 : part[j] = b[j]
         /\ rest \in Seq(Unit) /\ Len(rest) = Len(b) - len1
         /\ \A j \in 1 .. Len(b) - len1 : rest[j] = b[len1 + j]
         /\ part \o rest = b
         /\ s \o part \in Seq(Unit) /\ Len(s \o part) = Len(s) + len1
         /\ \A j \in 1 .. Len(s) : (s \o part)[j] = s[j]
         /\ \A j \in 1 .. len1 : (s \o part)[Len(s) + j] = b[j]
<1> DEFINE len1 == Smaller(Len(b), Buffer - Len(s))
           part == SubSeq(b, 1, len1)
           rest == SubSeq(b, len1 + 1, Len(b))
<1>1. Len(b) \in Nat \ {0} /\ Len(s) \in Nat /\ Buffer \in Nat
  BY AudioPopAssumption, EmptySeq
<1>2. /\ len1 \in 1 .. Len(b) /\ Len(s) + len1 <= Buffer
      /\ len1 < Len(b) => Len(s) + len1 = Buffer
  BY <1>1 DEF Smaller
<1> HIDE DEF len1
<1>3. /\ part \in Seq(Unit) /\ Len(part) = len1
      /\ \A j \in 1 .. len1 : part[j] = b[j]
  BY <1>1, <1>2, SMT
<1>4. /\ rest \in Seq(Unit) /\ Len(rest) = Len(b) - len1
      /\ \A j \in 1 .. Len(b) - len1 : rest[j] = b[len1 + j]
  BY <1>1, <1>2, SMT
<1> HIDE DEF part, rest
<1>5. /\ Len(part \o rest) = Len(b) /\ part \o rest \in Seq(Unit)
      /\ \A j \in 1 .. Len(b) : (part \o rest)[j] = b[j]
  <2>1. /\ Len(part \o rest) = len1 + (Len(b) - len1) /\ part \o rest \in Seq(Unit)
        /\ \A j \in 1 .. len1 : (part \o rest)[j] = part[j]
        /\ \A j \in len1 + 1 .. len1 + (Len(b) - len1) : (part \o rest)[j] = rest[j - len1]
    <3>1. /\ part \in Seq(Unit) /\ rest \in Seq(Unit)
          /\ Len(part) = len1 /\ Len(rest) = Len(b) - len1
      BY <1>3, <1>4
    <3>2. /\ Len(part \o rest) = Len(part) + Len(rest) /\ part \o rest \in Seq(Unit)
          /\ \A j \in 1 .. Len(part) : (part \o rest)[j] = part[j]
          /\ \A j \in Len(part) + 1 .. Len(part) + Len(rest) :
               (part \o rest)[j] = rest[j - Len(part)]
      BY <3>1, Joined, Zenon
    <3> QED BY <3>1, <3>2, Zenon
  <2>2. ASSUME NEW j \in len1 + 1 .. Len(b) PROVE (part \o rest)[j] = b[j]
    <3>1. j - len1 \in 1 .. Len(b) - len1 /\ len1 + (j - len1) = j
          /\ j \in len1 + 1 .. len1 + (Len(b) - len1)
      BY <1>1, <1>2
    <3> QED BY <1>4, <2>1, <3>1, Zenon
  <2> QED BY <1>1, <1>2, <1>3, <2>1, <2>2
<1>6. part \o rest = b
  BY <1>5, SeqEqual
<1>7. /\ s \o part \in Seq(Unit) /\ Len(s \o part) = Len(s) + len1
      /\ \A j \in 1 .. Len(s) : (s \o part)[j] = s[j]
      /\ \A j \in 1 .. len1 : (s \o part)[Len(s) + j] = b[j]
  <2>1. /\ s \o part \in Seq(Unit) /\ Len(s \o part) = Len(s) + len1
        /\ \A j \in 1 .. Len(s) : (s \o part)[j] = s[j]
        /\ \A j \in 1 .. len1 : (s \o part)[Len(s) + j] = part[j]
    BY <1>3, Joined, Zenon
  <2> QED BY <1>3, <2>1, Zenon
<1> QED BY <1>2, <1>3, <1>4, <1>6, <1>7 DEF len1, part, rest

(* A frame more is all the samples of one frame more.                      *)
LEMMA OneMore ==
  ASSUME TypeOK, NEW all \in Seq(Unit), NEW n \in 0 .. Len(file) - 1, AllOf(all, n)
  PROVE  AllOf(all \o Units(n + 1), n + 1)
<1> DEFINE us == Units(n + 1)
           more == all \o us
           m == file[n + 1].len
<1>1. n \in Nat /\ Len(file) \in Nat /\ n + 1 \in 1 .. Len(file)
  BY DEF TypeOK
<1>2. /\ us \in Seq(Unit) /\ Len(us) = m /\ m \in Nat \ {0}
      /\ \A j \in 1 .. m : us[j] = <<n + 1, j - 1>>
  BY <1>1, UnitsOf DEF us, m
<1>3. Len(all) \in Nat
  OBVIOUS
<1> HIDE DEF us, m
<1>4. /\ more \in Seq(Unit) /\ Len(more) = Len(all) + m
      /\ \A k \in 1 .. Len(all) : more[k] = all[k]
      /\ \A j \in 1 .. m : more[Len(all) + j] = us[j]
  <2>1. /\ more \in Seq(Unit) /\ Len(more) = Len(all) + Len(us)
        /\ \A k \in 1 .. Len(all) : more[k] = all[k]
        /\ \A j \in 1 .. Len(us) : more[Len(all) + j] = us[j]
    BY <1>2, Joined, Zenon
  <2> QED BY <1>2, <2>1, Zenon
<1> HIDE DEF more
<1>5. /\ \A k \in 1 .. Len(all) : more[k] = all[k]
      /\ \A j \in 1 .. m : more[Len(all) + j] = <<n + 1, j - 1>>
  BY <1>2, <1>4, Zenon
<1>6. more # <<>>
  BY <1>2, <1>3, <1>4
<1>7. more[Len(more)] = <<n + 1, m - 1>>
  <2>1. m \in 1 .. m
    BY <1>2
  <2> QED BY <1>4, <1>5, <2>1, Zenon
<1>8. more[1] = <<1, 0>>
  <2>1. CASE n = 0
    <3>1. Len(all) = 0
      BY <2>1 DEF AllOf
    <3>2. more[0 + 1] = <<0 + 1, 1 - 1>>
      BY <1>2, <1>5, <2>1, <3>1
    <3> QED BY <3>2
  <2>2. CASE n > 0
    <3>1. 1 \in 1 .. Len(all) /\ all[1] = <<1, 0>>
      BY <1>3, <2>2, EmptySeq DEF AllOf
    <3> QED BY <1>5, <3>1
  <2> QED BY <1>1, <2>1, <2>2
<1>9. ASSUME NEW k \in 2 .. Len(more) PROVE Follows(more[k - 1], more[k])
  <2>1. CASE k \in 2 .. Len(all)
    <3>1. n > 0 /\ k \in 1 .. Len(all) /\ k - 1 \in 1 .. Len(all)
      BY <1>1, <1>3, <2>1 DEF AllOf
    <3> QED BY <1>5, <2>1, <3>1 DEF AllOf
  <2>2. CASE k = Len(all) + 1
    <3>1. n > 0 /\ k - 1 = Len(all) /\ k - 1 \in 1 .. Len(all)
      BY <1>1, <1>3, <2>2 DEF AllOf
    <3>2. more[k - 1] = <<n, file[n].len - 1>>
      BY <1>5, <3>1 DEF AllOf
    <3>3. more[k] = <<n + 1, 0>>
      BY <1>2, <1>5, <2>2
    <3>4. n \in 1 .. Len(file) /\ file[n].len \in Nat \ {0}
      BY <1>1, <3>1, UnitsOf
    <3> QED BY <3>2, <3>3, <3>4 DEF Follows
  <2>3. CASE k > Len(all) + 1
    <3> DEFINE j == k - Len(all)
    <3>1. /\ j \in 2 .. m /\ j \in 1 .. m /\ j - 1 \in 1 .. m
          /\ k = Len(all) + j /\ k - 1 = Len(all) + (j - 1) /\ (j - 1) - 1 + 1 = j - 1
      BY <1>2, <1>3, <1>4, <2>3
    <3> HIDE DEF j
    <3>2. more[k] = <<n + 1, j - 1>> /\ more[k - 1] = <<n + 1, (j - 1) - 1>>
      <4>1. more[Len(all) + j] = <<n + 1, j - 1>>
        BY <1>5, <3>1, Zenon
      <4>2. more[Len(all) + (j - 1)] = <<n + 1, (j - 1) - 1>>
        BY <1>5, <3>1, Zenon
      <4> QED BY <3>1, <4>1, <4>2, Zenon
    <3> QED BY <1>2, <3>1, <3>2, SMTT(30) DEF Follows, m
  <2> QED BY <1>3, <1>4, <2>1, <2>2, <2>3
<1>10. AllOf(more, n + 1)
  <2>1. n + 1 > 0 /\ n + 1 # 0
    BY <1>1
  <2>2. more[Len(more)] = <<n + 1, file[n + 1].len - 1>>
    BY <1>7 DEF m
  <2> QED BY <1>6, <1>8, <1>9, <2>1, <2>2, Zenon DEF AllOf
<1> QED BY <1>10 DEF more, us
-----------------------------------------------------------------------------
LEMMA InitInv == Init => IInv
<1> SUFFICES ASSUME Init PROVE IInv
  OBVIOUS
<1>1. file \in Seq([pts : Time, len : Nat \ {0}])
  BY AudioPopAssumption DEF Init, Time
<1>2. Len(file) \in Nat /\ 0 \in 0 .. Len(file)
  BY <1>1
<1>3. TypeOK
  <2>1. audio_buf \in Seq(Unit) /\ stream \in Seq(Unit) /\ written \in Seq(Unit)
        /\ Len(stream) = 0
    BY Nothing, Zenon DEF Init
  <2>2. Len(stream) <= Buffer
    BY <2>1, Sizes
  <2>3. pts_pos \in Time /\ ret_pts \in Time /\ audio_clock \in Time /\ audclk \in Int
    BY DEF Init, Time, NaN
  <2>4. /\ taken \in 0 .. Len(file) /\ toggles \in Nat /\ got_bytes \in Nat
        /\ next_system \in Int /\ start_systime \in Int /\ start_data \in Int
        /\ pre_pts \in Int /\ expect_next_pts \in Int /\ now \in Int /\ handed \in Int
    BY <1>2 DEF Init, NaN
  <2> QED BY <2>1, <2>2, <2>3, <2>4, Zenon DEF Init, TypeOK
<1>4. BufInv /\ PosInv /\ StreamInv /\ ClockIsWritten
  BY AudioPopAssumption DEF Init, BufInv, PosInv, StreamInv, ClockIsWritten, IsNaN
<1>5. SamplesInOrder
  BY DEF Init, SamplesInOrder, AllOf, Waiting
<1> QED BY <1>3, <1>4, <1>5 DEF IInv

(* What depends on none of the variables a step changes.                   *)
LEMMA Kept ==
  ASSUME SamplesInOrder, BufInv, PosInv,
         UNCHANGED <<file, taken, audio_buf, pts_pos, audio_clock, written>>
  PROVE  SamplesInOrder' /\ BufInv' /\ PosInv'
BY DEF SamplesInOrder, BufInv, PosInv, AllOf, Follows, Waiting, IsData, Dated, PtsOf

LEMMA SleepAndPopInv == IInv /\ SleepAndPop => IInv'
<1> SUFFICES ASSUME IInv, SleepAndPop PROVE IInv'
  OBVIOUS
<1>1. now' \in Int
  BY Sizes DEF IInv, TypeOK, SleepAndPop, SleepTime, Smaller
<1>2. pre_pts' \in Int /\ expect_next_pts' \in Int
  BY DEF IInv, TypeOK, SleepAndPop, NaN
<1>3. TypeOK'
  <2>1. stream' \in Seq(Unit) /\ Len(stream') = 0
    BY Nothing, Zenon DEF SleepAndPop
  <2>2. ret_pts' \in Time /\ Len(stream') <= Buffer
    BY <2>1, Sizes DEF SleepAndPop, Time
  <2> QED BY <1>1, <1>2, <2>1, <2>2 DEF IInv, TypeOK, SleepAndPop
<1>4. StreamInv' /\ ClockIsWritten'
  BY AudioPopAssumption DEF SleepAndPop, StreamInv, ClockIsWritten, IsNaN
<1> QED BY <1>3, <1>4, Kept DEF IInv, SleepAndPop

LEMMA FilledInv == IInv /\ Filled => IInv'
<1> SUFFICES ASSUME IInv, Filled PROVE IInv'
  OBVIOUS
<1>1. TypeOK'
  BY AudioPopAssumption DEF IInv, TypeOK, Filled, SetClock, Time, NaN, IsNaN
<1>2. StreamInv'
  BY DEF IInv, StreamInv, Filled, Dated, PtsOf, IsData
<1>3. ClockIsWritten'
  <2>1. SUFFICES ASSUME Dated(stream[Buffer]), pc' = "deliver"
                 PROVE  audclk' + 2 * Buffer = PtsOf(stream[Buffer]) + 1
    BY DEF ClockIsWritten, Filled, Dated, PtsOf
  <2>2. audio_clock = PtsOf(stream[Buffer]) + 1 + Len(audio_buf)
    BY <2>1 DEF IInv, StreamInv, Filled
  <2>3. stream[Buffer] \in Unit /\ stream[Buffer][1] \in 1 .. taken
    <3>1. Buffer \in 1 .. Len(stream)
      BY Sizes DEF Filled
    <3> QED BY <2>1, <3>1, ElementOfSeq DEF IInv, TypeOK, StreamInv, Dated, IsData
  <2>4. PtsOf(stream[Buffer]) \in Nat /\ Len(audio_buf) \in Nat
    BY <2>1, <2>3, DatedUnit DEF IInv, TypeOK
  <2> HIDE DEF PtsOf
  <2>5. ~IsNaN(audio_clock)
    BY <2>2, <2>4 DEF IsNaN, NaN
  <2> QED BY <2>2, <2>4, <2>5, Sizes DEF Filled, SetClock
<1> QED BY <1>1, <1>2, <1>3, Kept DEF IInv, Filled

LEMMA DeliverInv == IInv /\ Deliver => IInv'
<1> SUFFICES ASSUME IInv, Deliver PROVE IInv'
  OBVIOUS
<1>1. ret_pts \in Int
  BY DEF IInv, TypeOK, Time, NaN
<1>2. start_data' \in Int /\ start_systime' \in Int
  BY <1>1 DEF IInv, TypeOK, Deliver
<1>3. next_system' \in Int
  BY <1>1, <1>2, SMTT(30) DEF IInv, TypeOK, Deliver, NextDue
<1>4. pre_pts' \in Int /\ expect_next_pts' \in Int /\ handed' \in Int
  BY <1>1 DEF IInv, TypeOK, Deliver, NaN
<1>5. TypeOK'
  BY <1>2, <1>3, <1>4 DEF IInv, TypeOK, Deliver
<1>6. StreamInv' /\ ClockIsWritten'
  BY DEF IInv, StreamInv, ClockIsWritten, Deliver, Dated, PtsOf, IsData
<1> QED BY <1>5, <1>6, Kept DEF IInv, Deliver

LEMMA TogglePauseInv == IInv /\ TogglePause => IInv'
<1> SUFFICES ASSUME IInv, TogglePause PROVE IInv'
  OBVIOUS
<1>1. TypeOK'
  BY DEF IInv, TypeOK, TogglePause
<1>2. StreamInv' /\ ClockIsWritten'
  BY DEF IInv, StreamInv, ClockIsWritten, TogglePause, Dated, PtsOf, IsData
<1> QED BY <1>1, <1>2, Kept DEF IInv, TogglePause

LEMMA OutputSilenceInv == IInv /\ OutputSilence => IInv'
<1> SUFFICES ASSUME IInv, OutputSilence PROVE IInv'
  OBVIOUS
<1> DEFINE hush == [j \in 1 .. Silence |-> Silent]
<1>1. /\ audio_buf' = hush /\ hush \in Seq(Unit) /\ Len(hush) = Silence
      /\ \A j \in 1 .. Silence : hush[j] = Silent
  BY AudioPopAssumption DEF OutputSilence, Silent, Unit
<1>2. 1 \in 1 .. Silence /\ Silence \in Nat
  BY AudioPopAssumption
<1> HIDE DEF hush
<1>3. TypeOK'
  BY <1>1 DEF IInv, TypeOK, OutputSilence
<1>4. BufInv'
  BY <1>1 DEF BufInv
<1>5. ~IsData(audio_buf'[1])
  BY <1>1, <1>2 DEF IsData
<1>6. PosInv'
  BY <1>5 DEF PosInv, Dated, IsData
<1>7. StreamInv' /\ ClockIsWritten'
  BY AudioPopAssumption DEF IInv, StreamInv, ClockIsWritten, OutputSilence, Dated, PtsOf, IsData
<1>8. Waiting = <<>> /\ Waiting' = <<>>
  BY <1>5 DEF Waiting, OutputSilence, IsData
<1>9. SamplesInOrder'
  BY <1>8 DEF IInv, SamplesInOrder, AllOf, Follows, OutputSilence
<1> QED BY <1>3, <1>4, <1>6, <1>7, <1>9 DEF IInv

LEMMA DecodeFrameInv == IInv /\ DecodeFrame => IInv'
<1> SUFFICES ASSUME IInv, DecodeFrame PROVE IInv'
  OBVIOUS
<1> DEFINE i == taken + 1
           us == Units(i)
<1>1. i \in 1 .. Len(file) /\ i \in Nat /\ taken \in 0 .. Len(file) - 1
  BY DEF IInv, TypeOK, DecodeFrame
<1>2. /\ us \in Seq(Unit) /\ Len(us) = file[i].len /\ file[i].len \in Nat \ {0}
      /\ \A j \in 1 .. file[i].len : us[j] = <<i, j - 1>>
      /\ file[i].pts \in Time
  BY <1>1, UnitsOf DEF IInv
<1>3. /\ taken' = i /\ file' = file /\ pts_pos' = file[i].pts /\ audio_buf' = us
      /\ audio_clock' = IF IsNaN(file[i].pts) THEN NaN ELSE file[i].pts + file[i].len
  BY DEF DecodeFrame
<1>4. us[1] = <<i, 0>>
  BY <1>2
<1> HIDE DEF us, i
<1>5. TypeOK'
  <2>1. pts_pos' \in Time /\ audio_clock' \in Time
    BY <1>2, <1>3 DEF Time, NaN, IsNaN
  <2>2. taken' \in 0 .. Len(file)
    BY <1>1, <1>3
  <2> QED BY <1>2, <1>3, <2>1, <2>2 DEF IInv, TypeOK, DecodeFrame
<1>6. BufInv'
  <2> DEFINE m == file[i].len
  <2>1. i > 0 /\ m <= m /\ \A j \in 1 .. m : us[j] = <<i, m - m + j - 1>>
    BY <1>1, <1>2
  <2> QED BY <1>2, <1>3, <2>1, Zenon DEF BufInv
<1>7. PosInv'
  <2>1. SUFFICES ASSUME ~IsNaN(file[i].pts)
                 PROVE  /\ pts_pos' = file[i].pts + 0
                        /\ audio_clock' = (file[i].pts + 0) + Len(us)
    BY <1>3, <1>4 DEF PosInv, Dated, PtsOf
  <2>2. file[i].pts \in Nat
    BY <1>2, <2>1 DEF Time, IsNaN
  <2> QED BY <1>2, <1>3, <2>1, <2>2
<1>8. StreamInv' /\ ClockIsWritten'
  <2>1. pc' = "fill" /\ Len(stream') # Buffer /\ stream' = stream /\ got_bytes' = got_bytes
        /\ ret_pts' = ret_pts /\ Len(stream) \in Nat
    BY DEF IInv, TypeOK, DecodeFrame
  <2>2. \A n \in 1 .. Len(stream) : IsData(stream[n]) => stream[n][1] \in 1 .. taken'
    BY <1>1, <1>3 DEF IInv, StreamInv, i
  <2> QED BY <1>3, <2>1, <2>2 DEF IInv, StreamInv, ClockIsWritten, Dated, PtsOf, IsData
<1>9. SamplesInOrder'
  <2>1. Waiting = <<>> /\ Waiting' = us /\ written' = written /\ written \o <<>> = written
    BY <1>1, <1>2, <1>3, <1>4, ConcatEmptySeq DEF Waiting, DecodeFrame, IsData, Silent, IInv, TypeOK
  <2>2. AllOf(written \o us, i)
    BY <1>1, <2>1, OneMore DEF IInv, TypeOK, SamplesInOrder, i, us
  <2> QED BY <1>3, <2>1, <2>2 DEF SamplesInOrder, AllOf, Follows
<1> QED BY <1>5, <1>6, <1>7, <1>8, <1>9 DEF IInv

LEMMA CopyInv == IInv /\ Copy => IInv'
<1> SUFFICES ASSUME IInv, Copy PROVE IInv'
  OBVIOUS
<1> DEFINE b == audio_buf
           s == stream
           len1 == Smaller(Len(b), Buffer - Len(s))
           part == SubSeq(b, 1, len1)
           rest == SubSeq(b, len1 + 1, Len(b))
<1>1. /\ b \in Seq(Unit) /\ b # <<>> /\ s \in Seq(Unit) /\ Len(s) < Buffer
      /\ written \in Seq(Unit)
      /\ Len(b) \in Nat \ {0} /\ Len(s) \in Nat /\ Buffer \in Nat /\ Len(written) \in Nat
  <2>1. /\ b \in Seq(Unit) /\ b # <<>> /\ s \in Seq(Unit) /\ Len(s) < Buffer
        /\ written \in Seq(Unit)
    BY DEF IInv, TypeOK, Copy
  <2>2. Len(b) \in Nat \ {0}
    BY <2>1, EmptySeq, Zenon
  <2> HIDE DEF b, s
  <2> QED BY <2>1, <2>2, Sizes
<1>2. /\ len1 \in 1 .. Len(b) /\ Len(s) + len1 <= Buffer
      /\ len1 < Len(b) => Len(s) + len1 = Buffer
      /\ part \in Seq(Unit) /\ Len(part) = len1
      /\ \A j \in 1 .. len1 : part[j] = b[j]
      /\ rest \in Seq(Unit) /\ Len(rest) = Len(b) - len1
      /\ \A j \in 1 .. Len(b) - len1 : rest[j] = b[len1 + j]
      /\ part \o rest = b
      /\ s \o part \in Seq(Unit) /\ Len(s \o part) = Len(s) + len1
      /\ \A j \in 1 .. Len(s) : (s \o part)[j] = s[j]
      /\ \A j \in 1 .. len1 : (s \o part)[Len(s) + j] = b[j]
  BY <1>1, Parts, Zenon
<1>3. /\ pc = "fill" /\ pc' = "fill" /\ file' = file /\ taken' = taken /\ audio_clock' = audio_clock
      /\ stream' = s \o part /\ audio_buf' = rest
      /\ IF IsData(part[1])
           THEN data_got' = TRUE /\ got_bytes' = got_bytes + len1 /\ written' = written \o part
           ELSE UNCHANGED <<data_got, got_bytes, written>>
      /\ ret_pts' = (IF IsNaN(ret_pts) THEN pts_pos ELSE ret_pts)
      /\ pts_pos' = (IF IsNaN(pts_pos) THEN NaN ELSE pts_pos + len1)
  BY Zenon DEF Copy
<1> DEFINE st == s \o part
<1> HIDE DEF part, rest, len1, st
<1>4. 1 \in 1 .. len1 /\ part[1] = b[1] /\ 1 \in 1 .. Len(b) /\ len1 \in Nat \ {0}
  BY <1>1, <1>2
<1>5. TypeOK'
  <2>1. written' \in Seq(Unit) /\ got_bytes' \in Nat /\ data_got' \in BOOLEAN
    <3>1. written \o part \in Seq(Unit)
      BY <1>1, <1>2, Joined, Zenon
    <3>2. got_bytes \in Nat /\ data_got \in BOOLEAN /\ got_bytes + len1 \in Nat
      BY <1>4 DEF IInv, TypeOK
    <3> QED BY <1>1, <1>3, <3>1, <3>2, Zenon
  <2>2. ret_pts' \in Time /\ pts_pos' \in Time
    BY <1>3, <1>4 DEF IInv, TypeOK, Time, NaN, IsNaN
  <2>3. stream' \in Seq(Unit) /\ Len(stream') <= Buffer /\ audio_buf' \in Seq(Unit)
    BY <1>2, <1>3, Zenon
  <2> QED BY <1>3, <2>1, <2>2, <2>3, Zenon DEF IInv, TypeOK, Copy, source, pause, pacing, clocks
<1>6. /\ Len(st) = Len(s) + len1 /\ Len(st) \in Nat
      /\ \A n \in 1 .. Len(s) : st[n] = s[n]
      /\ \A j \in 1 .. len1 : st[Len(s) + j] = b[j]
      /\ \A n \in Len(s) + 1 .. Len(st) : n - Len(s) \in 1 .. len1 /\ st[n] = b[n - Len(s)]
  <2>1. /\ Len(st) = Len(s) + len1 /\ Len(st) \in Nat
        /\ \A n \in 1 .. Len(s) : st[n] = s[n]
        /\ \A j \in 1 .. len1 : st[Len(s) + j] = b[j]
    <3>1. /\ Len(st) = Len(s) + len1
          /\ \A n \in 1 .. Len(s) : st[n] = s[n]
          /\ \A j \in 1 .. len1 : st[Len(s) + j] = b[j]
      BY <1>2, Zenon DEF st
    <3> QED BY <1>1, <1>4, <3>1
  <2>2. ASSUME NEW n \in Len(s) + 1 .. Len(st)
        PROVE  n - Len(s) \in 1 .. len1 /\ st[n] = b[n - Len(s)]
    <3>1. n - Len(s) \in 1 .. len1 /\ n = Len(s) + (n - Len(s))
      BY <1>1, <1>4, <2>1
    <3> QED BY <2>1, <3>1, Zenon
  <2> QED BY <2>1, <2>2
<1>7. /\ stream' = st /\ st # <<>> /\ (s # <<>> => st[1] = s[1])
      /\ s = <<>> => Len(s) = 0 /\ st[1] = b[1]
  <2>1. s # <<>> => 1 \in 1 .. Len(s)
    BY <1>1, EmptySeq
  <2>2. s = <<>> => Len(s) = 0 /\ 0 + 1 = 1
    OBVIOUS
  <2> QED BY <1>3, <1>4, <1>6, <2>1, <2>2, Nothing DEF st
(* a date once given is kept *)
<1>8. Dated(stream[1])' => ret_pts' = PtsOf(stream[1])'
  <2>1. SUFFICES ASSUME Dated(st[1]) PROVE ret_pts' = PtsOf(st[1])
    BY <1>3, <1>7 DEF Dated, PtsOf
  <2>2. CASE s = <<>>
    <3>1. IsNaN(ret_pts)
      BY <2>2 DEF IInv, StreamInv
    <3>2. pts_pos = PtsOf(b[1])
      BY <1>1, <1>7, <2>1, <2>2 DEF IInv, PosInv
    <3> QED BY <1>3, <1>7, <2>2, <3>1, <3>2
  <2>3. CASE s # <<>>
    <3>1. Dated(s[1]) /\ ret_pts = PtsOf(s[1]) /\ s[1] \in Unit /\ IsData(s[1])
          /\ 1 \in 1 .. Len(s)
      BY <1>1, <1>7, <2>1, <2>3, EmptySeq, ElementOfSeq DEF IInv, StreamInv, Dated, IsData
    <3>2. s[1][1] \in 1 .. taken
      BY <3>1 DEF IInv, StreamInv
    <3>3. ret_pts \in Nat
      BY <3>1, <3>2, DatedUnit DEF IInv
    <3> QED BY <1>3, <1>7, <2>3, <3>1, <3>3 DEF IsNaN, NaN
  <2> QED BY <2>2, <2>3
<1>9. got_bytes \in Nat /\ got_bytes <= Len(s)
  BY DEF IInv, TypeOK, StreamInv
<1>10. ClockIsWritten'
  BY <1>3 DEF ClockIsWritten
<1>11. ASSUME \A n \in 1 .. Len(st) : IsData(st[n]) => st[n][1] \in 1 .. taken,
              got_bytes' <= Len(st),
              \/ \A n \in 1 .. Len(st) : IsData(st[n]) <=> n <= got_bytes'
              \/ \E n \in 1 .. Len(st) - 1 : ~IsData(st[n]) /\ IsData(st[n + 1]),
              Len(st) = Buffer /\ Dated(st[Buffer]) =>
                audio_clock = PtsOf(st[Buffer]) + 1 + Len(rest)
       PROVE  StreamInv'
  <2>1. /\ stream' = st /\ st # <<>> /\ taken' = taken /\ pc' = "fill" /\ file' = file
        /\ audio_clock' = audio_clock /\ audio_buf' = rest
    BY <1>3, <1>7
  <2>2. (Len(stream) = Buffer /\ pc = "fill" /\ Dated(stream[Buffer]))'
          => audio_clock' = PtsOf(stream[Buffer])' + 1 + Len(audio_buf')
    BY <1>11, <2>1 DEF Dated, PtsOf
  <2>3. (\A n \in 1 .. Len(stream) : IsData(stream[n]) => stream[n][1] \in 1 .. taken)'
    BY <1>11, <2>1 DEF IsData
  <2>4. (\/ \A n \in 1 .. Len(stream) : IsData(stream[n]) <=> n <= got_bytes
         \/ \E n \in 1 .. Len(stream) - 1 : ~IsData(stream[n]) /\ IsData(stream[n + 1]))'
    BY <1>11, <2>1, Zenon DEF IsData
  <2> QED BY <1>8, <1>11, <2>1, <2>2, <2>3, <2>4, Zenon DEF StreamInv
(* audio_buf is either silence or data, and so is what is taken from it     *)
<1>12. CASE ~IsData(b[1])
  <2>1. \A j \in 1 .. Len(b) : b[j] = Silent
    <3>1. SUFFICES ASSUME taken > 0, Len(b) <= file[taken].len,
                          b[1] = <<taken, file[taken].len - Len(b) + 1 - 1>>
                   PROVE  FALSE
      BY <1>4 DEF IInv, BufInv
    <3>2. b[1] = <<0, 0>> /\ taken \in Nat
      BY <1>12 DEF IsData, Silent, IInv, TypeOK
    <3> QED BY <3>1, <3>2
  <2>2. \A j \in 1 .. Len(rest) : rest[j] = Silent
    <3>1. ASSUME NEW j \in 1 .. Len(b) - len1 PROVE rest[j] = Silent
      <4>1. len1 + j \in 1 .. Len(b)
        BY <1>1, <1>2
      <4> QED BY <1>2, <2>1, <4>1
    <3> QED BY <1>2, <3>1
  <2>3. BufInv'
    BY <1>3, <2>2 DEF BufInv
  <2>4. rest # <<>> => rest[1] = Silent
    <3>1. rest # <<>> => 1 \in 1 .. Len(rest)
      BY <1>2, EmptySeq
    <3> QED BY <2>2, <3>1
  <2>5. PosInv'
    BY <1>3, <2>4 DEF PosInv, Dated
  <2>6. Waiting = <<>> /\ Waiting' = <<>> /\ written' = written /\ got_bytes' = got_bytes
    BY <1>3, <1>4, <1>12, <2>4 DEF Waiting, IsData
  <2>7. SamplesInOrder'
    BY <1>3, <2>6 DEF IInv, SamplesInOrder, AllOf, Follows
  <2>8. \A n \in Len(s) + 1 .. Len(st) : ~IsData(st[n])
    BY <1>2, <1>6, <2>1 DEF IsData
  <2>9. \A n \in 1 .. Len(st) : IsData(st[n]) => n \in 1 .. Len(s) /\ st[n] = s[n]
    BY <1>1, <1>6, <2>8
  <2>10. StreamInv'
    <3>1. \A n \in 1 .. Len(st) : IsData(st[n]) => st[n][1] \in 1 .. taken
      BY <2>9 DEF IInv, StreamInv, IsData
    <3>2. got_bytes <= Len(st)
      BY <1>1, <1>4, <1>6, <1>9
    <3>3. \/ \A n \in 1 .. Len(st) : IsData(st[n]) <=> n <= got_bytes
          \/ \E n \in 1 .. Len(st) - 1 : ~IsData(st[n]) /\ IsData(st[n + 1])
      <4>1. CASE \A n \in 1 .. Len(s) : IsData(s[n]) <=> n <= got_bytes
        <5>1. ASSUME NEW n \in 1 .. Len(st) PROVE IsData(st[n]) <=> n <= got_bytes
          <6>1. CASE n \in 1 .. Len(s)
            BY <1>6, <4>1, <6>1, Zenon
          <6>2. CASE n \in Len(s) + 1 .. Len(st)
            <7>1. ~(n <= got_bytes)
              BY <1>1, <1>9, <6>2
            <7> QED BY <2>8, <6>2, <7>1, Zenon
          <6> QED BY <1>1, <1>6, <6>1, <6>2
        <5> QED BY <5>1
      <4>2. ASSUME NEW n \in 1 .. Len(s) - 1, ~IsData(s[n]), IsData(s[n + 1])
            PROVE  \E k \in 1 .. Len(st) - 1 : ~IsData(st[k]) /\ IsData(st[k + 1])
        <5>1. n \in 1 .. Len(s) /\ n + 1 \in 1 .. Len(s) /\ n \in 1 .. Len(st) - 1
          BY <1>1, <1>4, <1>6
        <5> QED BY <1>6, <4>2, <5>1
      <4> QED BY <4>1, <4>2 DEF IInv, StreamInv
    <3>4. ~(Len(st) = Buffer /\ Dated(st[Buffer]))
      <4>1. Len(st) \in Len(s) + 1 .. Len(st)
        BY <1>1, <1>4, <1>6
      <4> QED BY <2>8, <4>1 DEF Dated, IsData
    <3> QED BY <1>11, <2>6, <3>1, <3>2, <3>3, <3>4
  <2> QED BY <1>5, <1>10, <2>3, <2>5, <2>7, <2>10 DEF IInv
<1>13. CASE IsData(b[1])
  <2> DEFINE m == file[taken].len
             from == m - Len(b)
  <2>1. /\ taken \in Nat \ {0} /\ Len(b) <= m
        /\ \A j \in 1 .. Len(b) : b[j] = <<taken, m - Len(b) + j - 1>>
    BY <1>4, <1>13 DEF IInv, BufInv, IsData, TypeOK
  <2>2. /\ taken \in 1 .. Len(file) /\ m \in Nat \ {0} /\ from \in Nat
        /\ file[taken].pts \in Time
    BY <1>1, <2>1, UnitsOf, SMTT(30) DEF IInv, TypeOK
  <2> HIDE DEF m
  <2>3. \A j \in 1 .. Len(b) : b[j] = <<taken, from + (j - 1)>> /\ IsData(b[j])
    BY <1>1, <2>1, <2>2 DEF IsData, Silent
  <2> HIDE DEF from
  <2>4. \A j \in 1 .. Len(rest) : /\ rest[j] = <<taken, (from + len1) + (j - 1)>>
                                  /\ IsData(rest[j])
    <3>1. ASSUME NEW j \in 1 .. Len(b) - len1
          PROVE  rest[j] = <<taken, (from + len1) + (j - 1)>> /\ IsData(rest[j])
      <4>1. len1 + j \in 1 .. Len(b) /\ from + ((len1 + j) - 1) = (from + len1) + (j - 1)
        BY <1>1, <1>2, <2>2
      <4>2. rest[j] = b[len1 + j]
        BY <1>2, <3>1, Zenon
      <4>3. b[len1 + j] = <<taken, from + ((len1 + j) - 1)>> /\ IsData(b[len1 + j])
        BY <2>3, <4>1, Zenon
      <4> QED BY <4>1, <4>2, <4>3, Zenon
    <3> QED BY <1>2, <3>1
  <2>5. rest # <<>> => 1 \in 1 .. Len(rest)
    BY <1>2, EmptySeq
  <2>6. BufInv'
    <3>1. /\ Len(rest) <= m
          /\ from + len1 = m - Len(rest)
      BY <1>1, <1>2, <2>1, <2>2 DEF from
    <3>2. \A j \in 1 .. Len(rest) : rest[j] = <<taken, m - Len(rest) + j - 1>>
      BY <1>1, <1>2, <2>2, <2>4, <3>1
    <3>3. taken' = taken /\ m = file'[taken].len /\ audio_buf' = rest /\ taken > 0
      BY <1>3, <2>1 DEF m
    <3> QED BY <3>1, <3>2, <3>3, Zenon DEF BufInv
  <2>7. ASSUME Dated(b[1])
        PROVE  /\ file[taken].pts \in Nat
               /\ pts_pos = file[taken].pts + from
               /\ audio_clock = file[taken].pts + from + Len(b)
    <3>1. b[1] = <<taken, from + (1 - 1)>>
      BY <1>4, <2>3
    <3>2. pts_pos = PtsOf(b[1]) /\ audio_clock = PtsOf(b[1]) + Len(b)
      BY <1>1, <2>7 DEF IInv, PosInv
    <3>3. ~IsNaN(file[taken].pts)
      BY <2>7, <3>1 DEF Dated
    <3> QED BY <2>2, <3>1, <3>2, <3>3 DEF PtsOf, Time, IsNaN
  <2>8. ASSUME NEW u, u[1] = taken, Dated(u) PROVE Dated(b[1])
    BY <1>4, <2>3, <2>8 DEF Dated, IsData
  <2>9. PosInv'
    <3>1. SUFFICES ASSUME rest # <<>>, Dated(rest[1])
                   PROVE  pts_pos' = PtsOf(rest[1]) /\ audio_clock = PtsOf(rest[1]) + Len(rest)
      BY <1>3 DEF PosInv, Dated, PtsOf
    <3>2. rest[1] = <<taken, (from + len1) + (1 - 1)>>
      BY <2>4, <2>5, <3>1
    <3>3. /\ file[taken].pts \in Nat /\ pts_pos = file[taken].pts + from
          /\ audio_clock = file[taken].pts + from + Len(b)
      BY <2>7, <2>8, <3>1, <3>2
    <3>4. PtsOf(rest[1]) = file[taken].pts + (from + len1)
      BY <1>4, <2>2, <3>2 DEF PtsOf
    <3>5. ~IsNaN(pts_pos) /\ pts_pos' = pts_pos + len1
      BY <1>3, <2>2, <3>3 DEF IsNaN, NaN
    <3>6. Len(rest) = Len(b) - len1
      BY <1>2
    <3> HIDE DEF PtsOf
    <3> QED BY <1>1, <1>4, <2>2, <3>3, <3>4, <3>5, <3>6, SMTT(30)
  <2>10. /\ Waiting = b /\ Waiting' = rest
         /\ written' = written \o part /\ got_bytes' = got_bytes + len1
    <3>1. rest # <<>> => IsData(rest[1])
      BY <2>4, <2>5
    <3> QED BY <1>1, <1>3, <1>4, <1>13, <3>1 DEF Waiting, IsData
  <2>11. SamplesInOrder'
    <3>1. (written \o part) \o rest = written \o b
      <4>1. written \in Seq(Unit) /\ part \in Seq(Unit) /\ rest \in Seq(Unit) /\ part \o rest = b
        BY <1>1, <1>2
      <4>2. (written \o part) \o rest = written \o (part \o rest)
        BY <4>1, Regrouped
      <4> QED BY <4>1, <4>2, Zenon
    <3>2. (written \o Waiting)' = written \o Waiting
      BY <2>10, <3>1
    <3> QED BY <1>3, <3>2 DEF IInv, SamplesInOrder, AllOf, Follows
  <2>12. \A n \in Len(s) + 1 .. Len(st) : /\ IsData(st[n])
                                          /\ st[n] = <<taken, from + (n - Len(s) - 1)>>
    <3>1. ASSUME NEW n \in Len(s) + 1 .. Len(st)
          PROVE  IsData(st[n]) /\ st[n] = <<taken, from + (n - Len(s) - 1)>>
      <4>1. n - Len(s) \in 1 .. len1 /\ st[n] = b[n - Len(s)]
        BY <1>6, <3>1, Zenon
      <4>2. n - Len(s) \in 1 .. Len(b)
        BY <1>1, <1>2, <4>1
      <4> QED BY <2>3, <4>1, <4>2, Zenon
    <3> QED BY <3>1, Zenon
  <2>13. \A n \in 1 .. Len(st) : IsData(st[n]) => st[n][1] \in 1 .. taken
    <3>1. ASSUME NEW n \in 1 .. Len(s), IsData(st[n]) PROVE st[n][1] \in 1 .. taken
      BY <1>6, <3>1 DEF IInv, StreamInv
    <3>2. ASSUME NEW n \in Len(s) + 1 .. Len(st) PROVE st[n][1] \in 1 .. taken
      BY <2>1, <2>12, <3>2
    <3> QED BY <1>1, <1>6, <3>1, <3>2
  <2>14. got_bytes' <= Len(st)
    BY <1>1, <1>4, <1>6, <1>9, <2>10
  <2>15. \/ \A n \in 1 .. Len(st) : IsData(st[n]) <=> n <= got_bytes'
         \/ \E n \in 1 .. Len(st) - 1 : ~IsData(st[n]) /\ IsData(st[n + 1])
    <3>1. CASE /\ \A n \in 1 .. Len(s) : IsData(s[n]) <=> n <= got_bytes
               /\ got_bytes = Len(s)
      <4>1. ASSUME NEW n \in 1 .. Len(st) PROVE IsData(st[n]) /\ n <= got_bytes'
        <5>1. n <= got_bytes'
          BY <1>1, <1>4, <1>6, <2>10, <3>1
        <5>2. CASE n \in 1 .. Len(s)
          <6>1. n <= got_bytes
            BY <3>1, <5>2
          <6> QED BY <1>6, <3>1, <5>1, <5>2, <6>1, Zenon
        <5>3. CASE n \in Len(s) + 1 .. Len(st)
          BY <2>12, <5>1, <5>3, Zenon
        <5> QED BY <1>1, <1>6, <5>1, <5>2, <5>3
      <4> QED BY <4>1
    <3>2. CASE /\ \A n \in 1 .. Len(s) : IsData(s[n]) <=> n <= got_bytes
               /\ got_bytes # Len(s)
      <4>1. /\ Len(s) \in 1 .. Len(s) /\ ~(Len(s) <= got_bytes)
            /\ Len(s) \in 1 .. Len(st) - 1 /\ Len(s) + 1 \in Len(s) + 1 .. Len(st)
        BY <1>1, <1>4, <1>6, <1>9, <3>2
      <4>2. ~IsData(st[Len(s)]) /\ IsData(st[Len(s) + 1])
        BY <1>6, <2>12, <3>2, <4>1
      <4> QED BY <4>1, <4>2
    <3>3. ASSUME NEW n \in 1 .. Len(s) - 1, ~IsData(s[n]), IsData(s[n + 1])
          PROVE  \E k \in 1 .. Len(st) - 1 : ~IsData(st[k]) /\ IsData(st[k + 1])
      <4>1. n \in 1 .. Len(s) /\ n + 1 \in 1 .. Len(s) /\ n \in 1 .. Len(st) - 1
        BY <1>1, <1>4, <1>6
      <4> QED BY <1>6, <3>3, <4>1
    <3> QED BY <3>1, <3>2, <3>3 DEF IInv, StreamInv
  <2>16. ASSUME Len(st) = Buffer, Dated(st[Buffer])
         PROVE  audio_clock = PtsOf(st[Buffer]) + 1 + Len(rest)
    <3>1. Buffer \in Len(s) + 1 .. Len(st) /\ Buffer - Len(s) = len1
      <4>1. Len(st) = Buffer /\ Len(st) = Len(s) + len1 /\ Len(s) \in Nat /\ len1 \in Nat \ {0}
        BY <1>1, <1>4, <1>6, <2>16
      <4> QED BY <4>1
    <3>2. st[Buffer] = <<taken, from + (len1 - 1)>>
      BY <2>12, <3>1, Zenon
    <3>3. /\ file[taken].pts \in Nat
          /\ audio_clock = file[taken].pts + from + Len(b)
      BY <2>7, <2>8, <2>16, <3>2
    <3>4. PtsOf(st[Buffer]) = file[taken].pts + (from + (len1 - 1))
      BY <3>2 DEF PtsOf
    <3>5. Len(rest) = Len(b) - len1
      BY <1>2
    <3> HIDE DEF PtsOf
    <3> QED BY <1>1, <1>4, <2>2, <3>3, <3>4, <3>5, SMTT(30)
  <2>17. StreamInv'
    BY <1>11, <2>13, <2>14, <2>15, <2>16
  <2> QED BY <1>5, <1>10, <2>6, <2>9, <2>11, <2>17 DEF IInv
<1> QED BY <1>12, <1>13
-----------------------------------------------------------------------------
LEMMA StepInv == IInv /\ [Next]_vars => IInv'
<1> SUFFICES ASSUME IInv, [Next]_vars PROVE IInv'
  OBVIOUS
<1>1. CASE UNCHANGED vars
  <2>1. TypeOK' /\ StreamInv' /\ ClockIsWritten'
    BY <1>1 DEF IInv, TypeOK, StreamInv, ClockIsWritten, Dated, PtsOf, IsData
  <2> QED BY <1>1, <2>1, Kept DEF IInv
<1> QED BY <1>1, SleepAndPopInv, DecodeFrameInv, OutputSilenceInv, CopyInv, FilledInv,
           DeliverInv, TogglePauseInv, Zenon DEF Next

(* The inductive invariant.                                                *)
THEOREM Invariance == Spec => []IInv
BY InitInv, StepInv, PTL DEF Spec

(* No sample of any file is lost, repeated or out of order, whatever the    *)
(* sizes of frames, of the application's buffer and of silence.            *)
THEOREM NothingLost == Spec => []SamplesInOrder
<1>1. IInv => SamplesInOrder
  BY DEF IInv
<1> QED BY <1>1, Invariance, PTL

(* A buffer handed over carries the pts of its first sample.               *)
THEOREM Dating == Spec => []DatedByFirst
<1>1. IInv => DatedByFirst
  <2> SUFFICES ASSUME IInv, pc = "deliver", Dated(stream[1])
               PROVE  /\ ret_pts = PtsOf(stream[1])
                      /\ \/ \A n \in 1 .. got_bytes : IsData(stream[n])
                         \/ \E n \in 1 .. Buffer - 1 : ~IsData(stream[n]) /\ IsData(stream[n + 1])
    BY DEF DatedByFirst
  <2>1. Len(stream) = Buffer /\ stream # <<>> /\ got_bytes \in Nat /\ got_bytes <= Buffer
    BY Sizes, Nothing DEF IInv, StreamInv, TypeOK
  <2>2. ret_pts = PtsOf(stream[1])
    BY <2>1 DEF IInv, StreamInv
  <2>3. (\A n \in 1 .. Buffer : IsData(stream[n]) <=> n <= got_bytes)
          => \A n \in 1 .. got_bytes : IsData(stream[n])
    BY <2>1, Sizes
  <2> QED BY <2>1, <2>2, <2>3 DEF IInv, StreamInv
<1> QED BY <1>1, Invariance, PTL

(* The audio clock is right whenever a buffer is full.                     *)
THEOREM Clock == Spec => []ClockIsWritten
<1>1. IInv => ClockIsWritten
  BY DEF IInv
<1> QED BY <1>1, Invariance, PTL

-----------------------------------------------------------------------------
(* Pace.  A frame that is not dated counts as -1: numbers all the same.     *)
LEMMA Times == \A x \in Time : x \in Int /\ x >= -1 /\ (~IsNaN(x) => x \in Nat)
BY DEF Time, NaN, IsNaN

LEMMA FileTimes ==
  ASSUME TypeOK, NEW i \in 1 .. Len(file)
  PROVE  /\ file[i].pts \in Int /\ file[i].pts >= -1 /\ file[i].len \in Nat \ {0}
         /\ ~IsNaN(file[i].pts) => file[i].pts \in Nat
BY UnitsOf, Times, Zenon

LEMMA UnitTime ==
  ASSUME TypeOK, NEW u \in Unit, u[1] \in 1 .. taken
  PROVE  PtsOf(u) \in Int /\ PtsOf(u) >= -1
<1>1. u[1] \in 1 .. Len(file) /\ u[2] \in Nat
  BY DEF TypeOK, Unit
<1> DEFINE p == file[u[1]].pts
           k == u[2]
<1>2. p \in Int /\ p >= -1 /\ k \in Nat
  BY <1>1, FileTimes
<1>3. PtsOf(u) = p + k
  BY DEF PtsOf
<1> HIDE DEF p, k
<1> QED BY <1>2, <1>3

LEMMA WrittenUnits ==
  ASSUME TypeOK, InTime, NEW n \in 1 .. Len(written)
  PROVE  /\ Len(written) \in Nat /\ Len(written) \in 1 .. Len(written)
         /\ written[n] \in Unit /\ written[n][1] \in 1 .. taken
         /\ PtsOf(written[n]) \in Int /\ PtsOf(written[n]) >= -1
<1>1. written \in Seq(Unit)
  BY DEF TypeOK
<1>2. Len(written) \in Nat /\ written[n] \in Unit
  BY <1>1, ElementOfSeq
<1>3. written[n][1] \in 1 .. taken
  BY DEF InTime
<1> QED BY <1>2, <1>3, UnitTime

(* The file only becomes less steady as more of it is taken.                *)
LEMMA SteadyBefore ==
  ASSUME TypeOK, NEW i \in 1 .. taken, file' = file, taken' \in {taken, taken + 1},
         SteadyFrom(i)'
  PROVE  SteadyFrom(i)
<1>1. taken \in Nat
  BY DEF TypeOK
<1> QED BY <1>1 DEF SteadyFrom

LEMMA InTimeKept ==
  ASSUME InTime, UNCHANGED <<file, taken, written, pts_pos>>
  PROVE  InTime'
BY DEF InTime, SteadyFrom, PtsOf

LEMMA DecodeFrameInTime ==
  ASSUME IInv, InTime, DecodeFrame
  PROVE  InTime'
<1>1. /\ file' = file /\ written' = written /\ taken' = taken + 1
      /\ pts_pos' = file[taken + 1].pts /\ audio_buf = <<>>
      /\ taken \in Nat /\ taken + 1 \in 1 .. Len(file) /\ TypeOK
  BY DEF DecodeFrame, IInv, TypeOK
<1>2. SUFFICES ASSUME NEW n \in 1 .. Len(written)
               PROVE  /\ written[n][1] \in 1 .. taken + 1
                      /\ SteadyFrom(written[n][1])' =>
                           /\ PtsOf(written[n]) + (Len(written) - n)
                                <= PtsOf(written[Len(written)])
                           /\ PtsOf(written[Len(written)]) < file[taken + 1].pts
  BY <1>1 DEF InTime, PtsOf
<1>3. written[n][1] \in 1 .. taken
  BY <1>1, <1>2, WrittenUnits
<1>4. ASSUME SteadyFrom(written[n][1])'
      PROVE  /\ PtsOf(written[n]) + (Len(written) - n) <= PtsOf(written[Len(written)])
             /\ PtsOf(written[Len(written)]) < file[taken + 1].pts
  <2>1. SteadyFrom(written[n][1])
    BY <1>1, <1>3, <1>4, SteadyBefore
  <2>2. PtsOf(written[n]) + (Len(written) - n) <= PtsOf(written[Len(written)])
    BY <2>1 DEF InTime
  (* what was written last is the end of the frame taken last *)
  <2>3. written[Len(written)] = <<taken, file[taken].len - 1>>
    <3>1. written \o Waiting = written
      <4>1. Waiting = <<>> /\ written \in Seq(Unit)
        BY <1>1 DEF Waiting, TypeOK
      <4> QED BY <4>1, ConcatEmptySeq
    <3>2. taken > 0
      BY <1>1, <1>3
    <3> QED BY <3>1, <3>2 DEF IInv, SamplesInOrder, AllOf
  <2>4. file[taken].pts + file[taken].len <= file[taken + 1].pts
    <3>1. taken \in written[n][1] .. taken + 1 /\ taken < taken + 1
      BY <1>1, <1>3
    <3> QED BY <1>1, <1>4, <3>1 DEF SteadyFrom
  <2> DEFINE p == file[taken].pts
             l == file[taken].len
             next == file[taken + 1].pts
  <2>5. taken \in 1 .. Len(file) /\ p \in Int /\ l \in Nat /\ next \in Int
    <3>1. taken \in 1 .. Len(file)
      BY <1>1, <1>3
    <3> QED BY <1>1, <3>1, FileTimes
  <2>6. PtsOf(written[Len(written)]) = p + (l - 1) /\ p + l <= next
    BY <2>3, <2>4 DEF PtsOf
  <2>7. PtsOf(written[Len(written)]) < next
    <3> HIDE DEF p, l, next, PtsOf
    <3> QED BY <2>5, <2>6
  <2> QED BY <2>2, <2>7
<1> QED BY <1>1, <1>3, <1>4

LEMMA InTimeAfter ==
  ASSUME file' = file, taken' = taken,
         \A n \in 1 .. Len(written') :
           /\ written'[n][1] \in 1 .. taken
           /\ SteadyFrom(written'[n][1]) =>
                /\ PtsOf(written'[n]) + (Len(written') - n) <= PtsOf(written'[Len(written')])
                /\ PtsOf(written'[Len(written')]) < pts_pos'
  PROVE  InTime'
BY DEF InTime, SteadyFrom, PtsOf

LEMMA CopyInTime ==
  ASSUME IInv, InTime, Copy
  PROVE  InTime'
<1> DEFINE b == audio_buf
           len1 == Smaller(Len(b), Buffer - Len(stream))
           part == SubSeq(b, 1, len1)
           L == Len(written)
<1>1. /\ b \in Seq(Unit) /\ b # <<>> /\ Len(b) \in Nat \ {0} /\ taken \in Nat
      /\ stream \in Seq(Unit) /\ Len(stream) < Buffer
      /\ written \in Seq(Unit) /\ L \in Nat /\ TypeOK
      /\ pts_pos \in Time
  <2>1. b \in Seq(Unit) /\ b # <<>>
    BY DEF IInv, TypeOK, Copy
  <2>2. Len(b) \in Nat \ {0}
    BY <2>1, EmptySeq
  <2> QED BY <2>1, <2>2 DEF IInv, TypeOK, Copy
<1>2. /\ len1 \in 1 .. Len(b) /\ part \in Seq(Unit) /\ Len(part) = len1
      /\ \A j \in 1 .. len1 : part[j] = b[j]
  BY <1>1, Parts, Zenon
<1>3. len1 \in Nat \ {0} /\ 1 \in 1 .. len1 /\ len1 \in 1 .. len1
  BY <1>1, <1>2
<1>4. /\ file' = file /\ taken' = taken
      /\ pts_pos' = (IF IsNaN(pts_pos) THEN NaN ELSE pts_pos + len1)
      /\ written' = IF IsData(b[1]) THEN written \o part ELSE written
  <2>1. part[1] = b[1]
    BY <1>2, <1>3
  <2> QED BY <2>1 DEF Copy
<1> HIDE DEF len1, part, b
<1>5. CASE ~IsData(b[1])
  <2>1. written' = written
    BY <1>4, <1>5
  <2>2. ASSUME NEW n \in 1 .. L, SteadyFrom(written[n][1])
        PROVE  PtsOf(written[L]) < pts_pos'
    <3>1. PtsOf(written[L]) < pts_pos
      BY <2>2 DEF InTime
    <3>2. PtsOf(written[L]) \in Int /\ PtsOf(written[L]) >= -1
      <4>1. L \in 1 .. Len(written)
        BY <1>1, <2>2, WrittenUnits
      <4> QED BY <1>1, <4>1, WrittenUnits
    <3> HIDE DEF PtsOf
    <3>3. ~IsNaN(pts_pos)
      BY <1>1, <3>1, <3>2 DEF IsNaN, NaN, Time
    <3> QED BY <1>1, <1>3, <1>4, <3>1, <3>2, <3>3 DEF Time, NaN
  <2> QED BY <1>4, <2>1, <2>2, Zenon DEF InTime, SteadyFrom, PtsOf
<1>6. CASE IsData(b[1])
  <2> DEFINE m == file[taken].len
             p == file[taken].pts
             t == p + (m - Len(b))
  <2>1. /\ taken > 0 /\ Len(b) <= m
        /\ \A j \in 1 .. Len(b) : b[j] = <<taken, m - Len(b) + j - 1>>
    <3>1. 1 \in 1 .. Len(b)
      BY <1>1
    <3> QED BY <1>6, <3>1 DEF IInv, BufInv, IsData, b
  <2>2. /\ taken \in 1 .. Len(file) /\ taken \in 1 .. taken
        /\ m \in Nat \ {0} /\ p \in Int
        /\ ~IsNaN(p) => p \in Nat
    <3>1. taken \in 1 .. Len(file)
      BY <1>1, <2>1 DEF TypeOK
    <3> QED BY <1>1, <3>1, FileTimes
  <2> HIDE DEF m, p
  <2>3. t \in Int
    BY <1>1, <2>2
  <2>4. \A j \in 1 .. Len(b) : b[j][1] = taken /\ PtsOf(b[j]) = t + (j - 1)
    <3>1. ASSUME NEW j \in 1 .. Len(b) PROVE b[j][1] = taken /\ PtsOf(b[j]) = t + (j - 1)
      <4>1. b[j] = <<taken, m - Len(b) + j - 1>>
        BY <2>1
      <4>2. PtsOf(b[j]) = p + (m - Len(b) + j - 1)
        BY <4>1 DEF PtsOf, p
      <4>3. PtsOf(b[j]) = t + (j - 1)
        <5> HIDE DEF PtsOf
        <5> QED BY <1>1, <2>2, <4>2
      <4> QED BY <4>1, <4>3
    <3> QED BY <3>1
  (* the samples written keep their places, those of the part come after *)
  <2>5. /\ Len(written') = L + len1
        /\ \A n \in 1 .. L : written'[n] = written[n]
        /\ \A j \in 1 .. len1 : written'[L + j] = b[j]
    <3>1. written' = written \o part
      BY <1>4, <1>6
    <3>2. /\ Len(written \o part) = L + Len(part)
          /\ \A n \in 1 .. L : (written \o part)[n] = written[n]
          /\ \A j \in 1 .. Len(part) : (written \o part)[L + j] = part[j]
      BY <1>1, <1>2, Joined, Zenon
    <3> QED BY <1>2, <3>1, <3>2, Zenon
  <2>6. ASSUME NEW i \in 1 .. taken, SteadyFrom(i)
        PROVE  pts_pos = t /\ pts_pos' = t + len1
    <3>1. taken \in i .. taken
      BY <2>2, <2>6
    <3>2. ~IsNaN(p)
      BY <2>6, <3>1 DEF SteadyFrom, p
    <3>3. b[1][1] = taken /\ PtsOf(b[1]) = t + (1 - 1) /\ b[1] # Silent
      BY <1>1, <1>6, <2>4 DEF IsData
    <3>4. pts_pos = PtsOf(b[1])
      BY <1>1, <3>2, <3>3 DEF IInv, PosInv, Dated, b, p
    <3>5. pts_pos = t
      BY <2>3, <3>3, <3>4
    <3>6. t >= 0
      BY <1>1, <2>1, <2>2, <3>2
    <3> HIDE DEF t
    <3>7. ~IsNaN(pts_pos)
      BY <3>5, <3>6, <2>3 DEF IsNaN, NaN
    <3> QED BY <1>4, <3>5, <3>7
  <2> HIDE DEF t
  <2>7. PtsOf(written'[Len(written')]) = t + (len1 - 1)
    <3>1. len1 \in 1 .. Len(b) /\ written'[Len(written')] = b[len1]
      BY <1>2, <1>3, <2>5, Zenon
    <3> HIDE DEF L
    <3> QED BY <2>4, <3>1
  <2>8. ASSUME NEW n \in 1 .. Len(written')
        PROVE  /\ written'[n][1] \in 1 .. taken
               /\ SteadyFrom(written'[n][1]) =>
                    /\ PtsOf(written'[n]) + (Len(written') - n) <= PtsOf(written'[Len(written')])
                    /\ PtsOf(written'[Len(written')]) < pts_pos'
    <3>1. CASE n \in 1 .. L
      <4>1. /\ written'[n] = written[n] /\ written[n][1] \in 1 .. taken
            /\ PtsOf(written[n]) \in Int
        BY <1>1, <2>5, <3>1, WrittenUnits
      <4>2. ASSUME SteadyFrom(written[n][1])
            PROVE  /\ PtsOf(written[n]) + (Len(written') - n) <= PtsOf(written'[Len(written')])
                   /\ PtsOf(written'[Len(written')]) < pts_pos'
        <5>1. /\ PtsOf(written[n]) + (L - n) <= PtsOf(written[L])
              /\ PtsOf(written[L]) < pts_pos
          BY <3>1, <4>2 DEF InTime
        <5>2. pts_pos = t /\ pts_pos' = t + len1
          BY <2>6, <4>1, <4>2
        <5>3. PtsOf(written[L]) \in Int
          <6>1. L \in 1 .. Len(written)
            BY <1>1, <3>1, WrittenUnits
          <6> QED BY <1>1, <6>1, WrittenUnits
        <5>4. Len(written') = L + len1 /\ L \in Nat /\ n \in Nat /\ len1 \in Nat \ {0}
          BY <1>1, <1>3, <2>5, <3>1
        <5> DEFINE x == PtsOf(written[n])
                   y == PtsOf(written[L])
                   z == PtsOf(written'[Len(written')])
        <5>5. x \in Int /\ y \in Int /\ z = t + (len1 - 1) /\ x + (L - n) <= y /\ y < t
          BY <2>7, <4>1, <5>1, <5>2, <5>3
        <5> HIDE DEF x, y, z, L
        <5>6. x + (L + len1 - n) <= z /\ z < t + len1
          BY <2>3, <5>4, <5>5
        <5> QED BY <5>2, <5>4, <5>6 DEF x, z
      <4> QED BY <4>1, <4>2
    <3>2. CASE n \in L + 1 .. L + len1
      <4> DEFINE j == n - L
      <4>1. j \in 1 .. len1 /\ j \in 1 .. Len(b) /\ n = L + j
        BY <1>1, <1>2, <3>2
      <4>2. written'[n] = b[j] /\ b[j][1] = taken /\ PtsOf(b[j]) = t + (j - 1)
        BY <2>4, <2>5, <4>1, Zenon
      <4>3. PtsOf(written'[n]) + (Len(written') - n) <= PtsOf(written'[Len(written')])
        <5> HIDE DEF j, PtsOf
        <5>1. PtsOf(written'[n]) = t + (j - 1)
          BY <4>2
        <5> HIDE DEF L
        <5> QED BY <1>1, <1>3, <2>3, <2>5, <2>7, <4>1, <5>1
      <4>4. SteadyFrom(taken) => PtsOf(written'[Len(written')]) < pts_pos'
        <5> HIDE DEF PtsOf
        <5> QED BY <1>3, <2>2, <2>3, <2>6, <2>7
      <4> QED BY <2>2, <4>2, <4>3, <4>4
    <3>3. n \in 1 .. L \/ n \in L + 1 .. L + len1
      BY <1>1, <1>3, <2>5, <2>8
    <3> QED BY <3>1, <3>2, <3>3
  <2> QED BY <1>4, <2>8, InTimeAfter
<1> QED BY <1>5, <1>6

(* What has been handed over are the samples written last but for those of   *)
(* the buffer being filled.                                                *)
LEMMA InitPace == Init => InTime /\ CountInv /\ PaceInv
<1> SUFFICES ASSUME Init PROVE InTime /\ CountInv /\ PaceInv
  OBVIOUS
<1>1. InTime
  BY DEF Init, InTime
<1>2. CountInv
  BY DEF Init, CountInv, Ready, IsNaN
<1>3. PaceInv
  BY DEF Init, PaceInv, IsNaN
<1> QED BY <1>1, <1>2, <1>3

LEMMA CountKept ==
  ASSUME CountInv, Ready' = Ready, UNCHANGED <<written, handed, data_got, got_bytes>>,
         pc' = "deliver" => data_got, pre_pts' \in {NaN, pre_pts}
  PROVE  CountInv'
BY DEF CountInv, IsNaN

LEMMA CopyCounts ==
  ASSUME IInv, CountInv, Copy
  PROVE  CountInv'
<1> DEFINE b == audio_buf
           len1 == Smaller(Len(b), Buffer - Len(stream))
           part == SubSeq(b, 1, len1)
<1>1. /\ b \in Seq(Unit) /\ b # <<>> /\ Len(b) \in Nat \ {0} /\ got_bytes \in Nat
      /\ stream \in Seq(Unit) /\ Len(stream) < Buffer /\ written \in Seq(Unit)
  <2>1. b \in Seq(Unit) /\ b # <<>>
    BY DEF IInv, TypeOK, Copy
  <2>2. Len(b) \in Nat \ {0}
    BY <2>1, EmptySeq
  <2> QED BY <2>1, <2>2 DEF IInv, TypeOK, Copy
<1>2. len1 \in 1 .. Len(b) /\ part \in Seq(Unit) /\ Len(part) = len1
  BY <1>1, Parts, Zenon
<1>3. /\ pc = "fill" /\ pc' = "fill" /\ handed' = handed /\ pre_pts' = pre_pts
      /\ \/ /\ data_got' = TRUE /\ got_bytes' = got_bytes + len1 /\ written' = written \o part
         \/ UNCHANGED <<data_got, got_bytes, written>>
  BY DEF Copy, pacing
<1> HIDE DEF len1, part, b
<1>4. CASE UNCHANGED <<data_got, got_bytes, written>>
  BY <1>3, <1>4 DEF CountInv, Ready
<1>5. CASE data_got' = TRUE /\ got_bytes' = got_bytes + len1 /\ written' = written \o part
  <2>1. Len(written') = Len(written) + len1 /\ Len(written) \in Nat
    <3>1. Len(written \o part) = Len(written) + Len(part)
      BY <1>1, <1>2, Joined, Zenon
    <3> QED BY <1>1, <1>2, <1>5, <3>1
  <2>2. len1 \in Nat \ {0}
    BY <1>1, <1>2
  <2>3. Ready = got_bytes /\ Ready' = got_bytes + len1
    BY <1>3, <1>5 DEF Ready
  <2> QED BY <1>1, <1>3, <1>5, <2>1, <2>2, <2>3 DEF CountInv
<1> QED BY <1>3, <1>4, <1>5

LEMMA DeliverCounts ==
  ASSUME IInv, CountInv, Deliver
  PROVE  CountInv'
<1>1. /\ pc = "deliver" /\ pc' = "top" /\ pre_pts' = ret_pts
      /\ UNCHANGED <<written, data_got, got_bytes>> /\ got_bytes \in Nat
      /\ handed' \in {got_bytes, handed + got_bytes} /\ Len(written) \in Nat
  BY DEF Deliver, call, IInv, TypeOK
<1>2. Ready = got_bytes /\ Ready' = 0
  BY <1>1 DEF Ready
<1>3. got_bytes > 0 /\ data_got
  BY <1>1 DEF CountInv
<1> QED BY <1>1, <1>2, <1>3 DEF CountInv

LEMMA StepCounts == IInv /\ CountInv /\ [Next]_vars => CountInv'
<1> SUFFICES ASSUME IInv, CountInv, [Next]_vars PROVE CountInv'
  OBVIOUS
<1>1. CASE SleepAndPop
  <2>1. /\ pc = "top" /\ pc' = "fill" /\ got_bytes' = 0 /\ data_got' = FALSE
        /\ handed' = handed /\ written' = written /\ pre_pts' \in {NaN, pre_pts}
    BY <1>1 DEF SleepAndPop
  <2> QED BY <2>1 DEF CountInv, Ready, IsNaN
<1>2. CASE Filled
  <2>1. /\ pc = "fill" /\ UNCHANGED <<written, handed, data_got, got_bytes, pre_pts>>
        /\ pc' \in {"deliver", "top"}
        /\ pc' = "deliver" => data_got
        /\ pc' = "top" => ~data_got
    <3>1. pc = "fill" /\ UNCHANGED <<written, call, pacing>>
      BY <1>2 DEF Filled
    <3>2. IF data_got THEN pc' = "deliver" /\ now' = now
                      ELSE pc' = "top" /\ now' = now + 1 /\ now' <= MaxTime
      BY <1>2 DEF Filled
    <3> QED BY <3>1, <3>2 DEF call, pacing
  <2>2. got_bytes \in Nat /\ (~data_got => got_bytes = 0)
    BY DEF IInv, TypeOK, CountInv
  <2>3. Ready' = Ready /\ (pc' = "deliver" => data_got)
    BY <2>1, <2>2 DEF Ready
  <2> QED BY <2>1, <2>3, CountKept
<1>3. CASE DecodeFrame \/ OutputSilence \/ TogglePause \/ UNCHANGED vars
  <2>1. UNCHANGED <<written, handed, data_got, got_bytes, pre_pts, pc>>
    BY <1>3 DEF DecodeFrame, OutputSilence, TogglePause, vars, call, pacing
  <2>2. Ready' = Ready /\ (pc' = "deliver" => data_got)
    BY <2>1 DEF Ready, CountInv
  <2> QED BY <2>1, <2>2, CountKept
<1> QED BY <1>1, <1>2, <1>3, CopyCounts, DeliverCounts, Zenon DEF Next

LEMMA StepInTime == IInv /\ InTime /\ [Next]_vars => InTime'
<1> SUFFICES ASSUME IInv, InTime, [Next]_vars PROVE InTime'
  OBVIOUS
<1>1. CASE SleepAndPop \/ OutputSilence \/ Filled \/ Deliver \/ TogglePause \/ UNCHANGED vars
  <2>1. UNCHANGED <<file, taken, written, pts_pos>>
    BY <1>1 DEF SleepAndPop, OutputSilence, Filled, Deliver, TogglePause, vars, source
  <2> QED BY <2>1, InTimeKept
<1> QED BY <1>1, DecodeFrameInTime, CopyInTime, Zenon DEF Next

(* The first sample of the stretch, once there is one.                      *)
LEMMA FirstUnit ==
  ASSUME TypeOK, InTime, CountInv, ~IsNaN(pre_pts)
  PROVE  /\ Len(written) - Ready - handed + 1 \in 1 .. Len(written)
         /\ First[1] \in 1 .. taken /\ PtsOf(First) \in Int
         /\ Lead \in Nat /\ start_data - PtsOf(First) <= Lead
<1>1. Ready \in Nat /\ handed \in Nat \ {0} /\ handed + Ready <= Len(written)
  BY DEF CountInv, TypeOK, Ready
<1>2. Len(written) \in Nat /\ start_data \in Int
  BY DEF TypeOK
<1> DEFINE n == Len(written) - Ready - handed + 1
<1>3. n \in 1 .. Len(written)
  BY <1>1, <1>2
<1>4. First[1] \in 1 .. taken /\ PtsOf(First) \in Int
  <2>1. First = written[n]
    BY DEF First
  <2> HIDE DEF n
  <2> QED BY <1>3, <2>1, WrittenUnits
<1>5. Lead \in Nat /\ start_data - PtsOf(First) <= Lead
  BY <1>2, <1>4 DEF Lead
<1> QED BY <1>3, <1>4, <1>5

(* A step within a stretch.                                                *)
LEMMA PaceAfter ==
  ASSUME IInv, InTime, CountInv,
         file' = file, taken' \in {taken, taken + 1},
         UNCHANGED <<handed, start_data, start_systime, next_system>>,
         pre_pts' \in {NaN, pre_pts},
         ~IsNaN(pre_pts) => First' = First,
         ~IsNaN(pre_pts) /\ SteadyFrom(First[1]) =>
           /\ handed <= next_system - start_systime + Lead
           /\ pc' = "top"  => handed <= now' - start_systime + Lead + MinSleep + Buffer
           /\ pc' # "top" => /\ handed <= now' - start_systime + Lead + MinSleep
                             /\ ~IsNaN(ret_pts') => PtsOf(First) + handed <= ret_pts'
  PROVE  PaceInv'
<1> SUFFICES ASSUME ~IsNaN(pre_pts'), SteadyFrom(First[1])'
             PROVE  /\ handed' <= next_system' - start_systime' + Lead'
                    /\ pc' = "top"  => handed' <= now' - start_systime' + Lead' + MinSleep + Buffer
                    /\ pc' # "top" => /\ handed' <= now' - start_systime' + Lead' + MinSleep
                                      /\ ~IsNaN(ret_pts') => PtsOf(First)' + handed' <= ret_pts'
  BY DEF PaceInv
<1>1. ~IsNaN(pre_pts) /\ First' = First
  BY DEF IsNaN
<1>2. First[1] \in 1 .. taken /\ TypeOK
  BY <1>1, FirstUnit DEF IInv
<1>3. SteadyFrom(First[1])
  <2>1. \A k \in First[1] .. taken' :
          /\ ~IsNaN(file[k].pts)
          /\ k < taken' => file[k].pts + file[k].len <= file[k + 1].pts
    BY <1>1 DEF SteadyFrom
  <2>2. taken \in Nat /\ First[1] \in Nat
    BY <1>2 DEF TypeOK
  <2> QED BY <2>1, <2>2 DEF SteadyFrom
<1>4. PtsOf(First)' = PtsOf(First) /\ Lead' = Lead
  BY <1>1 DEF PtsOf, Lead
<1> QED BY <1>1, <1>3, <1>4

LEMMA SleepPace ==
  ASSUME IInv, InTime, CountInv, PaceInv, SleepAndPop
  PROVE  PaceInv'
<1>1. /\ file' = file /\ taken' = taken /\ pc = "top" /\ pc' = "fill"
      /\ UNCHANGED <<handed, start_data, start_systime, next_system, written>>
      /\ pre_pts' \in {NaN, pre_pts} /\ IsNaN(ret_pts') /\ got_bytes' = 0
  BY DEF SleepAndPop, source, IsNaN
<1>2. First' = First
  BY <1>1 DEF First, Ready
<1>3. \E late \in {0, 1} : now' = now + (IF SleepTime > 0 THEN SleepTime + late ELSE 0)
  BY DEF SleepAndPop
<1>4. /\ now \in Int /\ next_system \in Int /\ start_systime \in Int /\ handed \in Int
      /\ MinSleep \in Nat /\ MaxSleep \in Nat /\ Buffer \in Nat
      /\ MinSleep <= MaxSleep /\ Buffer <= MaxSleep
  BY AudioPopAssumption, SleepAssumption DEF IInv, TypeOK
<1>5. ASSUME ~IsNaN(pre_pts), SteadyFrom(First[1])
      PROVE  /\ handed <= next_system - start_systime + Lead
             /\ handed <= now' - start_systime + Lead + MinSleep
  <2>1. /\ handed <= next_system - start_systime + Lead
        /\ handed <= now - start_systime + Lead + MinSleep + Buffer
    BY <1>1, <1>5 DEF PaceInv
  <2>2. Lead \in Nat
    BY <1>5, FirstUnit DEF IInv
  <2>3. \/ now' >= now + MaxSleep
        \/ now' >= next_system
        \/ now' >= now /\ next_system < now + MinSleep
    BY <1>3, <1>4 DEF SleepTime, Smaller
  <2>4. now' \in Int
    BY <1>3, <1>4 DEF SleepTime, Smaller
  <2>5. handed <= now' - start_systime + Lead + MinSleep
    <3> HIDE DEF Lead
    <3>1. handed \in Int /\ start_systime \in Int /\ Lead \in Int /\ next_system \in Int /\ now \in Int
      BY <1>4, <2>2
    <3>2. MinSleep \in Int /\ MaxSleep \in Int /\ Buffer \in Int
      BY <1>4
    <3> DEFINE e == handed - Lead + start_systime
    <3>3. e \in Int /\ e <= next_system /\ e <= now + MinSleep + Buffer
      BY <3>1, <3>2, <2>1
    <3> DEFINE n1 == now'
    <3>4. /\ n1 \in Int
          /\ n1 >= now + MaxSleep \/ n1 >= next_system \/ (n1 >= now /\ next_system < now + MinSleep)
      BY <2>3, <2>4
    <3> HIDE DEF n1
    <3>5. e <= n1 + MinSleep
      <4> HIDE DEF e
      <4> QED BY <1>4, <3>3, <3>4
    <3>6. handed <= n1 - start_systime + Lead + MinSleep
      BY <3>1, <3>2, <3>4, <3>5
    <3> QED BY <3>6 DEF n1
  <2> QED BY <2>1, <2>5
<1> QED BY <1>1, <1>2, <1>5, PaceAfter, Zenon

(* The buffer's date, taken from pts_pos, lies behind all that was written. *)
LEMMA CopyPace ==
  ASSUME IInv, InTime, CountInv, PaceInv, Copy
  PROVE  PaceInv'
<1>1. /\ file' = file /\ taken' = taken /\ pc = "fill" /\ pc' = "fill" /\ now' = now
      /\ UNCHANGED <<handed, start_data, start_systime, next_system>>
      /\ pre_pts' = pre_pts
      /\ ret_pts' = (IF IsNaN(ret_pts) THEN pts_pos ELSE ret_pts)
  BY DEF Copy, source, pacing
<1>2. ASSUME ~IsNaN(pre_pts) PROVE First' = First
  <2> DEFINE b == audio_buf
             len1 == Smaller(Len(b), Buffer - Len(stream))
             part == SubSeq(b, 1, len1)
             n == Len(written) - Ready - handed + 1
  <2>1. /\ b \in Seq(Unit) /\ b # <<>> /\ Len(stream) < Buffer /\ stream \in Seq(Unit)
        /\ written \in Seq(Unit) /\ Len(written) \in Nat /\ got_bytes \in Nat
        /\ handed \in Nat
    BY DEF IInv, TypeOK, Copy, CountInv
  <2>2. len1 \in 1 .. Len(b) /\ part \in Seq(Unit) /\ Len(part) = len1
    BY <2>1, Parts, Zenon
  <2>3. len1 \in Nat
    <3>1. Len(b) \in Nat
      BY <2>1, EmptySeq
    <3> HIDE DEF len1, b
    <3> QED BY <2>2, <3>1
  <2>4. \/ got_bytes' = got_bytes + len1 /\ written' = written \o part
        \/ UNCHANGED <<got_bytes, written>>
    BY DEF Copy
  <2> HIDE DEF len1, part, b
  <2>5. n \in 1 .. Len(written)
    BY <1>2, FirstUnit DEF IInv
  <2>6. Ready = got_bytes /\ Ready' = got_bytes'
    BY <1>1 DEF Ready
  <2>7. First = written[n] /\ First' = written'[Len(written') - Ready' - handed' + 1]
    BY DEF First
  <2>8. CASE got_bytes' = got_bytes + len1 /\ written' = written \o part
    <3>1. /\ Len(written \o part) = Len(written) + Len(part)
          /\ \A k \in 1 .. Len(written) : (written \o part)[k] = written[k]
      BY <2>1, <2>2, Joined, Zenon
    <3>2. Len(written') - Ready' - handed' + 1 = n
      BY <1>1, <2>1, <2>2, <2>3, <2>6, <2>8, <3>1
    <3> HIDE DEF n
    <3> QED BY <2>5, <2>7, <2>8, <3>1, <3>2, Zenon
  <2>9. CASE UNCHANGED <<got_bytes, written>>
    <3>1. Len(written') - Ready' - handed' + 1 = n
      BY <1>1, <2>6, <2>9
    <3> QED BY <2>7, <2>9, <3>1
  <2> QED BY <2>4, <2>8, <2>9
<1>3. ASSUME ~IsNaN(pre_pts), SteadyFrom(First[1])
      PROVE  /\ handed <= next_system - start_systime + Lead
             /\ handed <= now' - start_systime + Lead + MinSleep
             /\ ~IsNaN(ret_pts') => PtsOf(First) + handed <= ret_pts'
  <2>1. /\ handed <= next_system - start_systime + Lead
        /\ handed <= now - start_systime + Lead + MinSleep
        /\ ~IsNaN(ret_pts) => PtsOf(First) + handed <= ret_pts
    BY <1>1, <1>3 DEF PaceInv
  <2> DEFINE L == Len(written)
             n == L - Ready - handed + 1
             last == PtsOf(written[L])
  <2>2. n \in 1 .. L /\ First = written[n]
    BY <1>3, FirstUnit DEF First, IInv
  <2>3. PtsOf(First) + (L - n) <= last /\ last < pts_pos
    <3> HIDE DEF n
    <3> QED BY <1>3, <2>2, Zenon DEF InTime
  <2>4. PtsOf(First) \in Int /\ L \in Nat /\ last \in Int /\ Ready \in Nat
    <3>1. L \in Nat /\ L \in 1 .. Len(written)
      BY <1>3, <2>2, FirstUnit, WrittenUnits DEF IInv
    <3>2. last \in Int
      BY <3>1, WrittenUnits DEF IInv
    <3>3. PtsOf(First) \in Int
      BY <1>3, FirstUnit DEF IInv
    <3> QED BY <3>1, <3>2, <3>3 DEF IInv, TypeOK, Ready
  <2>5. PtsOf(First) + handed <= pts_pos
    <3> HIDE DEF last, L, PtsOf
    <3>1. pts_pos \in Int /\ handed \in Int
      BY Times DEF IInv, TypeOK
    <3> QED BY <2>3, <2>4, <3>1
  <2> QED BY <1>1, <2>1, <2>5
<1> QED BY <1>1, <1>2, <1>3, PaceAfter, Zenon

LEMMA DeliverPace ==
  ASSUME IInv, InTime, CountInv, PaceInv, Deliver
  PROVE  PaceInv'
<1>1. /\ pc = "deliver" /\ pc' = "top" /\ now' = now /\ pre_pts' = ret_pts
      /\ UNCHANGED <<file, taken, written, ret_pts, got_bytes>>
      /\ handed' = (IF Jumped THEN got_bytes ELSE handed + got_bytes)
      /\ IF Jumped THEN start_data' = ret_pts /\ start_systime' = now
                   ELSE UNCHANGED <<start_data, start_systime>>
      /\ ~IsNaN(ret_pts) =>
           next_system' = start_systime' + (ret_pts - start_data') + got_bytes
  BY DEF Deliver, source, call, NextDue
<1>2. /\ got_bytes \in Nat /\ got_bytes <= Buffer /\ Buffer \in Nat /\ MinSleep \in Nat
      /\ now \in Int /\ start_systime \in Int /\ start_data \in Int /\ handed \in Nat
      /\ Len(written) \in Nat /\ ret_pts \in Int /\ got_bytes > 0
      /\ TypeOK
  <2>1. ret_pts \in Int
    BY Times DEF IInv, TypeOK
  <2>2. Len(stream) = Buffer /\ got_bytes <= Buffer
    BY <1>1 DEF IInv, StreamInv
  <2> QED BY <1>1, <2>1, <2>2, AudioPopAssumption DEF IInv, TypeOK, CountInv
<1>3. Ready = got_bytes /\ Ready' = 0 /\ got_bytes + handed <= Len(written)
  BY <1>1, <1>2 DEF Ready, CountInv
<1>4. SUFFICES ASSUME ~IsNaN(ret_pts), SteadyFrom(First[1])'
      PROVE  /\ handed' <= next_system' - start_systime' + Lead'
             /\ handed' <= now - start_systime' + Lead' + MinSleep + Buffer
  BY <1>1 DEF PaceInv
<1>5. CASE Jumped
  <2> DEFINE n == Len(written) - 0 - got_bytes + 1
  <2>1. handed' = got_bytes /\ start_data' = ret_pts /\ start_systime' = now
        /\ next_system' = now + (ret_pts - ret_pts) + got_bytes
    BY <1>1, <1>4, <1>5
  <2>2. First' = written[n]
    BY <1>1, <1>3, <2>1 DEF First
  <2>3. n \in 1 .. Len(written)
    BY <1>2, <1>3
  <2> HIDE DEF n
  <2>4. PtsOf(written[n]) \in Int
    BY <1>2, <2>3, WrittenUnits
  <2>5. PtsOf(First)' = PtsOf(written[n])
    BY <1>1, <2>2 DEF PtsOf
  <2>6. Lead' \in Nat
    BY <1>2, <2>1, <2>4, <2>5 DEF Lead
  <2> DEFINE lead == Lead'
  <2> HIDE DEF lead
  <2>7. lead \in Nat
    BY <2>6 DEF lead
  <2>8. /\ got_bytes <= (now + (ret_pts - ret_pts) + got_bytes) - now + lead
        /\ got_bytes <= now - now + lead + MinSleep + Buffer
    BY <1>2, <2>7
  <2> QED BY <2>1, <2>8 DEF lead
<1>6. CASE ~Jumped
  <2>1. ~IsNaN(pre_pts)
    BY <1>6 DEF Jumped
  <2>2. /\ handed' = handed + got_bytes
        /\ start_data' = start_data /\ start_systime' = start_systime
        /\ next_system' = start_systime + (ret_pts - start_data) + got_bytes
    BY <1>1, <1>4, <1>6
  <2>3. First' = First
    <3>1. Len(written) - 0 - (handed + got_bytes) + 1 = Len(written) - got_bytes - handed + 1
      BY <1>2
    <3> QED BY <1>1, <1>3, <2>2, <3>1 DEF First
  <2>4. Lead' = Lead
    BY <1>1, <2>2, <2>3 DEF Lead, PtsOf
  <2>5. SteadyFrom(First[1])
    BY <1>1, <1>4, <2>3 DEF SteadyFrom
  <2>6. /\ handed <= now - start_systime + Lead + MinSleep
        /\ PtsOf(First) + handed <= ret_pts
    BY <1>1, <1>4, <2>1, <2>5 DEF PaceInv
  <2>7. PtsOf(First) \in Int /\ Lead \in Nat /\ start_data - PtsOf(First) <= Lead
    BY <1>2, <2>1, FirstUnit
  <2> HIDE DEF PtsOf, Lead
  <2>8. handed + got_bytes <= (start_systime + (ret_pts - start_data) + got_bytes)
                                - start_systime + Lead
    BY <1>2, <2>6, <2>7
  <2>9. handed + got_bytes <= now - start_systime + Lead + MinSleep + Buffer
    BY <1>2, <2>6, <2>7
  <2> QED BY <2>2, <2>4, <2>8, <2>9
<1> QED BY <1>5, <1>6

LEMMA StepPace == IInv /\ InTime /\ CountInv /\ PaceInv /\ [Next]_vars => PaceInv'
<1> SUFFICES ASSUME IInv, InTime, CountInv, PaceInv, [Next]_vars PROVE PaceInv'
  OBVIOUS
<1>1. CASE DecodeFrame \/ OutputSilence \/ Filled \/ TogglePause \/ UNCHANGED vars
  <2>1. /\ file' = file /\ taken' \in {taken, taken + 1}
        /\ UNCHANGED <<handed, start_data, start_systime, next_system, pre_pts, ret_pts,
                       written, got_bytes>>
    BY <1>1 DEF DecodeFrame, OutputSilence, Filled, TogglePause, vars, source, call, pacing
  <2>2. now' \in {now, now + 1} /\ now \in Int
    BY <1>1 DEF DecodeFrame, OutputSilence, Filled, TogglePause, vars, IInv, TypeOK
  <2>3. \/ pc' = pc /\ now' = now
        \/ pc = "fill" /\ pc' = pc
        \/ pc = "fill" /\ pc' = "deliver" /\ now' = now
        \/ pc = "fill" /\ pc' = "top" /\ ~data_got
    BY <1>1 DEF DecodeFrame, OutputSilence, Filled, TogglePause, vars
  <2>4. Ready' = Ready
    <3>1. ~data_got => got_bytes = 0
      BY DEF CountInv, IInv, TypeOK
    <3> QED BY <2>1, <2>3, <3>1 DEF Ready
  <2>5. First' = First
    BY <2>1, <2>4 DEF First
  <2>6. ASSUME ~IsNaN(pre_pts), SteadyFrom(First[1])
        PROVE  /\ handed <= next_system - start_systime + Lead
               /\ pc' = "top"  => handed <= now' - start_systime + Lead + MinSleep + Buffer
               /\ pc' # "top" => /\ handed <= now' - start_systime + Lead + MinSleep
                                 /\ ~IsNaN(ret_pts') => PtsOf(First) + handed <= ret_pts'
    <3>1. /\ handed <= next_system - start_systime + Lead
          /\ pc = "top"  => handed <= now - start_systime + Lead + MinSleep + Buffer
          /\ pc # "top" => /\ handed <= now - start_systime + Lead + MinSleep
                           /\ ~IsNaN(ret_pts) => PtsOf(First) + handed <= ret_pts
      BY <2>6 DEF PaceInv
    <3>2. Lead \in Nat
      BY <2>6, FirstUnit DEF IInv
    <3> DEFINE n1 == now'
    <3>3. n1 = now \/ n1 = now + 1
      BY <2>2
    <3> HIDE DEF n1, Lead, PtsOf
    <3>4. /\ handed \in Int /\ now \in Int /\ start_systime \in Int
          /\ MinSleep \in Nat /\ Buffer \in Nat
      BY AudioPopAssumption DEF IInv, TypeOK
    <3>5. /\ handed <= now - start_systime + Lead + MinSleep =>
               /\ handed <= n1 - start_systime + Lead + MinSleep
               /\ handed <= n1 - start_systime + Lead + MinSleep + Buffer
          /\ handed <= now - start_systime + Lead + MinSleep + Buffer =>
               handed <= n1 - start_systime + Lead + MinSleep + Buffer
      BY <3>2, <3>3, <3>4
    <3> QED BY <2>1, <2>3, <3>1, <3>5, Zenon DEF n1
  <2> QED BY <2>1, <2>5, <2>6, PaceAfter
<1> QED BY <1>1, SleepPace, CopyPace, DeliverPace, Zenon DEF Next

(* Sound is not handed over faster than it plays, for every file, buffer     *)
(* size and sleep, however the clock and the pauses go.                     *)
THEOREM Pace == Spec => NotAhead
<1> DEFINE Inv == IInv /\ InTime /\ CountInv /\ PaceInv
<1>1. Init => Inv
  BY InitInv, InitPace
<1>2. Inv /\ [Next]_vars => Inv'
  BY StepInv, StepInTime, StepCounts, StepPace
<1>3. Inv => (Deliver /\ ~Jumped /\ SteadyFrom(First[1]) =>
                handed <= now - start_systime + Lead + MinSleep)
  BY DEF PaceInv, Deliver, Jumped
<1> QED BY <1>1, <1>2, <1>3, PTL DEF Spec, NotAhead
=============================================================================
