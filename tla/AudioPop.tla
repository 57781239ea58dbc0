------------------------------ MODULE AudioPop ------------------------------
(***************************************************************************)
(* Sound for the application (lib-player/ffplay.cpp): pop_audio_thread cuts *)
(* the frames of sampq into buffers of one size (pop_audio_callback), dates *)
(* each by pts_pos, hands it to on_audio_frame and sleeps until the next    *)
(* one is due by the pts.  sdl_audio_callback fills the device's buffers by *)
(* the same loop.                                                          *)
(*                                                                         *)
(* The unit of sizes, times and pts is one sample for every channel.       *)
(***************************************************************************)
EXTENDS Integers, Sequences

CONSTANTS
  Files,         (* the frames a file may have: their pts and lengths       *)
  Buffer,        (* audio_hw_buf_size                                       *)
  Silence,       (* SDL_AUDIO_MIN_BUFFER_SIZE                               *)
  MinSleep, MaxSleep, TsJumped,  (* 5 ms, 100 ms and ts_jumped              *)
  MaxTime,       (* bound: the clock                                        *)
  MaxToggles     (* bound: pauses and resumes                               *)

NaN == -1
IsNaN(x) == x = NaN

ASSUME AudioPopAssumption ==
  /\ \A f \in Files : f \in Seq([pts : Nat \cup {NaN}, len : Nat \ {0}])
  /\ Buffer \in Nat \ {0} /\ Silence \in Nat \ {0}
  /\ {MinSleep, MaxSleep, TsJumped, MaxTime, MaxToggles} \subseteq Nat

(* A buffer holds at most a 15th of a second: 2 << log2(freq / 30) samples, *)
(* or 512 at a rate of at least 5120 per second.                           *)
ASSUME SleepAssumption == MinSleep <= MaxSleep /\ Buffer <= MaxSleep

VARIABLES
  file, taken,                  (* the file, and how many frames were taken  *)
  paused, toggles,
  (* the units of audio_buf from audio_buf_index to audio_buf_size: silence   *)
  (* when audio_buf is NULL, else <<frame, place in it>>                     *)
  audio_buf,
  pts_pos, audio_clock, audclk,
  (* of a pop_audio_callback: what it has written, and its results           *)
  stream, ret_pts, got_bytes, data_got,
  (* pop_audio_thread                                                       *)
  pc, next_system, start_systime, start_data, pre_pts, expect_next_pts,
  now,
  (* history: the units written, and those handed over since start_systime   *)
  written, handed

source == <<file, taken>>
pause  == <<paused, toggles>>
clocks == <<audio_clock, audclk>>
call   == <<stream, ret_pts, got_bytes, data_got>>
pacing == <<next_system, start_systime, start_data, pre_pts, expect_next_pts, handed>>
vars == <<source, pause, audio_buf, pts_pos, clocks, call, pc, pacing, now, written>>

Silent == <<0, 0>>
Units(i) == [j \in 1 .. file[i].len |-> <<i, j - 1>>]

(* where in the file's time a unit is, if its frame says so                *)
Dated(u) == u # Silent /\ ~IsNaN(file[u[1]].pts)
PtsOf(u) == file[u[1]].pts + u[2]

IsData(u) == u # Silent
Waiting == IF audio_buf # <<>> /\ IsData(audio_buf[1]) THEN audio_buf ELSE <<>>
Smaller(a, b) == IF a < b THEN a ELSE b
Distance(a, b) == IF a < b THEN b - a ELSE a - b
-----------------------------------------------------------------------------
(* pop_audio_thread: sleeps of at least MinSleep and at most MaxSleep, then *)
(* a buffer is filled                                                      *)
SleepTime ==
  LET due == Smaller(next_system - now, MaxSleep) IN IF due >= MinSleep THEN due ELSE 0

SleepAndPop ==
  /\ pc = "top"
  /\ \E late \in {0, 1} :
       /\ now' = now + (IF SleepTime > 0 THEN SleepTime + late ELSE 0)
       /\ SleepTime = 0 => late = 0
  /\ now' <= MaxTime
  /\ IF paused THEN pre_pts' = NaN /\ expect_next_pts' = NaN
               ELSE UNCHANGED <<pre_pts, expect_next_pts>>
  /\ stream' = <<>> /\ ret_pts' = NaN /\ got_bytes' = 0 /\ data_got' = FALSE
  /\ pc' = "fill"
  /\ UNCHANGED <<source, pause, audio_buf, pts_pos, clocks, next_system, start_systime,
                 start_data, handed, written>>

(* audio_decode_frame returns a frame ...                                  *)
DecodeFrame ==
  /\ pc = "fill" /\ Len(stream) < Buffer /\ audio_buf = <<>>
  /\ ~paused /\ taken < Len(file)
  /\ taken' = taken + 1
  /\ LET f == file[taken + 1] IN
       /\ pts_pos' = f.pts
       /\ audio_clock' = (IF IsNaN(f.pts) THEN NaN ELSE f.pts + f.len)
       /\ audio_buf' = Units(taken + 1)
  /\ UNCHANGED <<file, pause, audclk, call, pc, pacing, now, written>>

(* ... or nothing: it is paused, or no frame came in time, which takes time *)
OutputSilence ==
  /\ pc = "fill" /\ Len(stream) < Buffer /\ audio_buf = <<>>
  /\ now' \in {now, now + 1} /\ now' <= MaxTime
  /\ audio_buf' = [j \in 1 .. Silence |-> Silent]
  /\ UNCHANGED <<source, pause, pts_pos, clocks, call, pc, pacing, written>>

(* Mutant: what does not fit is lost. *)
CopyDropsRest ==
  /\ pc = "fill" /\ Len(stream) < Buffer /\ audio_buf # <<>>
  /\ LET len1 == Smaller(Len(audio_buf), Buffer - Len(stream))
         part == SubSeq(audio_buf, 1, len1) IN
       /\ stream' = stream \o part /\ audio_buf' = <<>>
       /\ IF IsData(part[1])
            THEN data_got' = TRUE /\ got_bytes' = got_bytes + len1 /\ written' = written \o part
            ELSE UNCHANGED <<data_got, got_bytes, written>>
       /\ ret_pts' = (IF IsNaN(ret_pts) THEN pts_pos ELSE ret_pts)
       /\ pts_pos' = (IF IsNaN(pts_pos) THEN NaN ELSE pts_pos + len1)
  /\ UNCHANGED <<source, pause, clocks, pc, pacing, now>>

(* Mutant: the pts of what follows. *)
CopyDatesEnd ==
  /\ pc = "fill" /\ Len(stream) < Buffer /\ audio_buf # <<>>
  /\ LET len1 == Smaller(Len(audio_buf), Buffer - Len(stream))
         part == SubSeq(audio_buf, 1, len1) IN
       /\ stream' = stream \o part
       /\ audio_buf' = SubSeq(audio_buf, len1 + 1, Len(audio_buf))
       /\ IF IsData(part[1])
            THEN data_got' = TRUE /\ got_bytes' = got_bytes + len1 /\ written' = written \o part
            ELSE UNCHANGED <<data_got, got_bytes, written>>
       /\ pts_pos' = (IF IsNaN(pts_pos) THEN NaN ELSE pts_pos + len1)
       /\ ret_pts' = (IF IsNaN(ret_pts) THEN pts_pos' ELSE ret_pts)
  /\ UNCHANGED <<source, pause, clocks, pc, pacing, now>>

(* Part of audio_buf, or silence, goes to the buffer; pts_pos, from which   *)
(* the buffer is dated, goes on with either.                               *)
Copy ==
  /\ pc = "fill" /\ Len(stream) < Buffer /\ audio_buf # <<>>
  /\ LET len1 == Smaller(Len(audio_buf), Buffer - Len(stream))
         part == SubSeq(audio_buf, 1, len1) IN
       /\ stream' = stream \o part
       /\ audio_buf' = SubSeq(audio_buf, len1 + 1, Len(audio_buf))
       /\ IF IsData(part[1])
            THEN data_got' = TRUE /\ got_bytes' = got_bytes + len1 /\ written' = written \o part
            ELSE UNCHANGED <<data_got, got_bytes, written>>
       /\ ret_pts' = (IF IsNaN(ret_pts) THEN pts_pos ELSE ret_pts)
       /\ pts_pos' = (IF IsNaN(pts_pos) THEN NaN ELSE pts_pos + len1)
  /\ UNCHANGED <<source, pause, clocks, pc, pacing, now>>

(* Mutant: what is left in audio_buf is not counted. *)
SetClockAtEnd ==
  audclk' = (IF IsNaN(audio_clock) THEN audclk ELSE audio_clock - 2 * Buffer)

(* set_clock_at(audclk): what was decoded, less what the two periods of the *)
(* driver and audio_buf still hold                                         *)
SetClock ==
  audclk' = (IF IsNaN(audio_clock) THEN audclk
             ELSE audio_clock - (2 * Buffer + Len(audio_buf)))

(* the buffer is full; if there is no data in it, the thread sleeps 10 ms   *)
Filled ==
  /\ pc = "fill" /\ Len(stream) = Buffer
  /\ SetClock
  /\ IF data_got THEN pc' = "deliver" /\ now' = now
                 ELSE pc' = "top" /\ now' = now + 1 /\ now' <= MaxTime
  /\ UNCHANGED <<source, pause, audio_buf, pts_pos, audio_clock, call, pacing, written>>

(* does the time of the file go on from the last buffer?                   *)
Jumped ==
  \/ IsNaN(pre_pts) \/ IsNaN(ret_pts) \/ ret_pts <= pre_pts
  \/ Distance(expect_next_pts, ret_pts) >= TsJumped

(* Mutant: the next is due one buffer after the first of the stretch. *)
NextDueByLength(from) == from + got_bytes

(* When the next buffer is due.  (From a NaN, converting to int64_t gives    *)
(* INT64_MIN: at once.)                                                    *)
NextDue(from) ==
  IF IsNaN(ret_pts) THEN 0 ELSE from + (ret_pts - start_data') + got_bytes

(* on_audio_frame                                                          *)
Deliver ==
  /\ pc = "deliver"
  /\ IF Jumped THEN start_data' = ret_pts /\ start_systime' = now
               ELSE UNCHANGED <<start_data, start_systime>>
  /\ handed' = (IF Jumped THEN got_bytes ELSE handed + got_bytes)
  /\ next_system' = NextDue(start_systime')
  /\ pre_pts' = ret_pts
  /\ expect_next_pts' = (IF IsNaN(ret_pts) THEN NaN ELSE ret_pts + got_bytes)
  /\ pc' = "top"
  /\ UNCHANGED <<source, pause, audio_buf, pts_pos, clocks, call, now, written>>

(* toggle_pause, by the event loop                                         *)
TogglePause ==
  /\ toggles < MaxToggles
  /\ paused' = ~paused /\ toggles' = toggles + 1
  /\ UNCHANGED <<source, audio_buf, pts_pos, clocks, call, pc, pacing, now, written>>
-----------------------------------------------------------------------------
Init ==
  /\ file \in Files /\ taken = 0 /\ paused = FALSE /\ toggles = 0
  /\ audio_buf = <<>> /\ pts_pos = NaN /\ audio_clock = 0 /\ audclk = NaN
  /\ stream = <<>> /\ ret_pts = NaN /\ got_bytes = 0 /\ data_got = FALSE
  /\ pc = "top" /\ next_system = 0 /\ start_systime = 0 /\ start_data = 0
  /\ pre_pts = NaN /\ expect_next_pts = NaN
  /\ now = 0 /\ written = <<>> /\ handed = 0

Next ==
  \/ SleepAndPop \/ DecodeFrame \/ OutputSilence \/ Copy \/ Filled \/ Deliver
  \/ TogglePause

Spec == Init /\ [][Next]_vars
-----------------------------------------------------------------------------
(* v is the sample after u *)
Follows(u, v) ==
  v = IF u[2] + 1 < file[u[1]].len THEN <<u[1], u[2] + 1>> ELSE <<u[1] + 1, 0>>

(* all the samples of the first n frames *)
AllOf(all, n) ==
  /\ n = 0 => all = <<>>
  /\ n > 0 => /\ all # <<>> /\ all[1] = <<1, 0>>
              /\ \A k \in 2 .. Len(all) : Follows(all[k - 1], all[k])
              /\ all[Len(all)] = <<n, file[n].len - 1>>

(* Whatever the sizes of frames and buffers, and wherever silence had to be *)
(* put in: every sample decoded is written once, in order, or waits in      *)
(* audio_buf.                                                              *)
SamplesInOrder == AllOf(written \o Waiting, taken)

(* A buffer that begins with sound is dated by its first sample, also when   *)
(* that lies in the middle of a frame, silence came before it or the file's *)
(* time jumps; and without silence in front or amid, the samples that are   *)
(* announced are the ones that are there.                                  *)
DatedByFirst ==
  pc = "deliver" /\ Dated(stream[1]) =>
    /\ ret_pts = PtsOf(stream[1])
    /\ (\A n \in 1 .. got_bytes : IsData(stream[n]))
         \/ \E n \in 1 .. Buffer - 1 : ~IsData(stream[n]) /\ IsData(stream[n + 1])

(* The audio clock, which pictures are shown by, stands two buffers before   *)
(* what was written last: what audio_buf still holds does not count.       *)
ClockIsWritten ==
  pc = "deliver" /\ Dated(stream[Buffer]) =>
    audclk + 2 * Buffer = PtsOf(stream[Buffer]) + 1

(* frame i and those taken after it follow each other, perhaps with gaps    *)
SteadyFrom(i) ==
  \A k \in i .. taken :
    /\ ~IsNaN(file[k].pts)
    /\ k < taken => file[k].pts + file[k].len <= file[k + 1].pts

(* The first sample handed over in this stretch, and how far silence in      *)
(* front of it had moved pts_pos when the stretch was dated by it.          *)
Ready == IF pc = "top" THEN 0 ELSE got_bytes
First == written[Len(written) - Ready - handed + 1]
Lead  == IF start_data > PtsOf(First) THEN start_data - PtsOf(First) ELSE 0

(* The application does not get sound faster than it plays: in a stretch     *)
(* without a jump, what it has been given when the next buffer comes is what *)
(* has played meanwhile, but for the sleep that is too short to be slept and *)
(* for the lead of the stretch, though sleeps are cut at MaxSleep, come late *)
(* or are skipped, frames leave gaps and silence moves the pts on.          *)
NotAhead ==
  [][Deliver /\ ~Jumped /\ SteadyFrom(First[1]) =>
       handed <= now - start_systime + Lead + MinSleep]_vars
-----------------------------------------------------------------------------
(* The inductive invariant of AudioPop_proofs.                             *)
Unit == Nat \X Nat
Time == Nat \cup {NaN}

TypeOK ==
  /\ file \in Files /\ taken \in 0 .. Len(file)
  /\ paused \in BOOLEAN /\ toggles \in Nat
  /\ audio_buf \in Seq(Unit) /\ stream \in Seq(Unit) /\ written \in Seq(Unit)
  /\ Len(stream) <= Buffer
  /\ pts_pos \in Time /\ ret_pts \in Time /\ audio_clock \in Time /\ audclk \in Int
  /\ got_bytes \in Nat /\ data_got \in BOOLEAN
  /\ pc \in {"top", "fill", "deliver"}
  /\ next_system \in Int /\ start_systime \in Int /\ start_data \in Int
  /\ pre_pts \in Int /\ expect_next_pts \in Int /\ now \in Int /\ handed \in Int

(* audio_buf is silence, or the end of the frame taken last                *)
BufInv ==
  \/ \A j \in 1 .. Len(audio_buf) : audio_buf[j] = Silent
  \/ /\ taken > 0 /\ Len(audio_buf) <= file[taken].len
     /\ \A j \in 1 .. Len(audio_buf) :
          audio_buf[j] = <<taken, file[taken].len - Len(audio_buf) + j - 1>>

(* pts_pos and audio_clock belong to it                                    *)
PosInv ==
  audio_buf # <<>> /\ Dated(audio_buf[1]) =>
    /\ pts_pos = PtsOf(audio_buf[1])
    /\ audio_clock = PtsOf(audio_buf[1]) + Len(audio_buf)

(* the buffer being filled: its date, what is counted, and where it ends    *)
StreamInv ==
  /\ \A n \in 1 .. Len(stream) : IsData(stream[n]) => stream[n][1] \in 1 .. taken
  /\ stream = <<>> => IsNaN(ret_pts)
  /\ stream # <<>> /\ Dated(stream[1]) => ret_pts = PtsOf(stream[1])
  /\ got_bytes <= Len(stream)
  /\ \/ \A n \in 1 .. Len(stream) : IsData(stream[n]) <=> n <= got_bytes
     \/ \E n \in 1 .. Len(stream) - 1 : ~IsData(stream[n]) /\ IsData(stream[n + 1])
  /\ Len(stream) = Buffer /\ pc = "fill" /\ Dated(stream[Buffer]) =>
       audio_clock = PtsOf(stream[Buffer]) + 1 + Len(audio_buf)
  /\ pc = "deliver" => Len(stream) = Buffer

IInv ==
  TypeOK /\ BufInv /\ PosInv /\ StreamInv /\ SamplesInOrder /\ ClockIsWritten

(* How written samples lie in the file's time: at least as far apart as      *)
(* there are samples between them; and pts_pos is behind all of them.       *)
InTime ==
  \A n \in 1 .. Len(written) :
    /\ written[n][1] \in 1 .. taken
    /\ SteadyFrom(written[n][1]) =>
         /\ PtsOf(written[n]) + (Len(written) - n) <= PtsOf(written[Len(written)])
         /\ PtsOf(written[Len(written)]) < pts_pos

CountInv ==
  /\ handed \in Nat /\ handed + Ready <= Len(written)
  /\ data_got <=> got_bytes > 0
  /\ pc = "deliver" => data_got
  /\ ~IsNaN(pre_pts) => handed > 0

(* What was handed over is not ahead of the time the next is due at, nor of *)
(* the time that has passed; the buffer being filled goes on from it.       *)
PaceInv ==
  ~IsNaN(pre_pts) /\ SteadyFrom(First[1]) =>
    /\ handed <= next_system - start_systime + Lead
    /\ pc = "top"  => handed <= now - start_systime + Lead + MinSleep + Buffer
    /\ pc # "top" => /\ handed <= now - start_systime + Lead + MinSleep
                     /\ ~IsNaN(ret_pts) => PtsOf(First) + handed <= ret_pts
=============================================================================
