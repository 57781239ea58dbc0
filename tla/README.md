# lib-player: specifications, model checks and proofs

This directory specifies the player of this repository, `src/lib-player`, in
TLA+: the queues its threads share, the decoder threads, a stream that plays,
seeks, pauses and stops, the switching of a stream while it plays, the sound
handed to the application, and the life of a player as its application sees it.
TLC checks the modules on small instances; the TLA+ proof system proves the
frame queue for every size, the decoder thread and its byte counts for every
number of packets, the order of presentation, the byte limit and the truth of
the end of the file for every file, the samples handed over and their pace for
every size of buffers, the order of callbacks for every number of requests, and
that a switch of streams never mistakes one stream's end for another's.  Every
safety property that holds in a run is also the property of a theorem.

`lib-player` is a library made from FFmpeg's `ffplay.c`, with a task pool, an
audio thread that works without an audio device, hardware decoding and
callbacks added.  `src/ffplay` is a console copy of it, `src/lib-player-demo` an
MFC dialog on top.  Everything else under `src/` is third-party (FFmpeg, SDL
headers, binaries) and appears here only as what lib-player uses of it.
There are no tests for lib-player in the repository.

Line numbers below are those of `src/lib-player/ffplay.cpp`.

## 1. Inventory

### Threads

| Thread | Function | What it touches |
|---|---|---|
| application | `run_player`, `request_*`, `stop_player` (4068-4139) | pushes tasks; sets `abort_play`, joins the event loop |
| event loop | `event_loop`, `refresh_loop_wait_event`, `video_refresh` (1716, 3702-3790) | runs tasks, shows pictures, reader of `pictq` and `subpq`; closes the stream |
| read_thread | `read_thread` (3160-3540) | demuxer, puts and flushes the three packet queues |
| decoders | `audio_thread`, `video_thread`, `subtitle_thread` (2132, 2233, 2371) | one packet queue and one frame queue each |
| audio output | `pop_audio_thread` (2597) or `sdl_audio_callback` (2737) | reader of `sampq` |

Callbacks to the application (`ffplay.h`) come from read_thread, the event loop and
`pop_audio_thread`.

### Components

**Packet queues** (127-141, 474-622). State: list of packets, `nb_packets`,
`size`, `serial`, `abort_request`, a mutex and a condition. Operations: init,
put, put null packet, flush, abort, start, get. `serial` grows at each flush and
start; each packet is stamped with it, and every other thread decides by
comparing serials, mostly without the lock, whether what it holds is stale.
*Correct* when no packet of an earlier stretch is ever listed, the counts agree
with the list, and no getter sleeps on a packet or an abort.

**Frame queues** (184-195, 742-858). State: a ring of slots, `rindex`, `windex`,
`size`, `rindex_shown`, a mutex and a condition. Operations: peek_writable,
push, peek, peek_next, peek_last, peek_readable, next, signal. Push and next
move their index without the lock and `size` inside it; with `keep_last` the
consumer goes on using the frame it took. *Correct* when the ring is a bounded
FIFO, no slot is overwritten or released while in use, nobody sleeps for ever.

**Decoder threads** (205-220, 624-729, 870-877, 2132-2410). State: the packet in
hand, `pkt_serial`, `packet_pending`, `finished`, the codec. *Correct* when the
codec never mixes two stretches, frames come in order and once, an abort ends
the thread from anywhere, and `finished` is set only when all has been returned.

**read_thread's loop** (3361-3518). State: `eof`, `loop`, `eof_happened`, the
demuxer's position; takes `seek_req`, `seek_pos`. *Correct* when a seek that is requested
alone is executed, the byte limit holds, the end of the file is concluded only when all
was presented, and playing gets there.

**Event loop and video_refresh** (1716-1836, 3702-3790). *Correct* when pictures
appear in order, none of before a seek is chosen after it, tasks run, and
leaving closes the stream.

**Play control** (1599-1664): `paused`, `step`, `seek_req`, `seek_pos`, written by
the event loop and by read_thread without a lock. *Correct* when a request that no
other crosses is executed, a pause that was told holds, and a step ends at a picture, in a
pause. The code does not keep the second, nor the third where there is no picture (section 5).

**Audio output** (2477-2760): byte accounting of a partly used frame, silence when
there is none for too long. *Correct* when the bytes handed over are the frames'
bytes in order, and pausing or closing never leaves it blocked.

**Player life cycle** (3542-3601, 4068-4139, `do_exit` 1390): opening, errors and
callbacks, the end of the file, stopping. State: `stream_ready`, `abort_play`,
`abort_request`, `video_state`, `loop`, `autoexit`. *Correct* when stopping joins every
thread, the application hears either that the stream is ready or that it failed,
callbacks come in the order `ffplay.h` suggests (no data of the file before `on_stream_ready`)
and none after `stop_player`.

**Task pool** (`task-instance.cpp`): a vector of tasks under a mutex, swapped out and
run by the event loop. *Correct* when tasks run once, in order, and none is lost.

**Stream switching** (`stream_cycle_channel`, 3603): closes and reopens a component
from the event loop while read_thread runs. State: the stream numbers and
pointers, the queues, the decoders, the audio device. *Correct* when the switch
returns, nothing of the old stream is taken for the new one's and playing still
gets to its end.

**Clocks** (1478-1600, 1666-1715): audio, video and external clock, the delay of a
picture. **Picture delivery** (1458-1476): hands the picture of the retained slot
to the application. **Hardware decoding** (3067-3083, 2240-2330): a flag that tells the
decoder thread which buffer to use.

### Interactions

read_thread → packet queue → decoder → frame queue → event loop or audio output
is the pipeline. A seek is a request of the event loop to read_thread; read_thread
flushes the packet queues, whose new serial is noticed by the decoder (it resets
the codec) and by the presenters (they skip frames). The end of the file is read
back the other way: read_thread looks at `finished` of the decoders and at the
frame queues. `abort_request` of a packet queue ends its decoder and, since the
frame queue holds a pointer to it, whoever waits on the frame queue. Pause, step
and seek variables are plain shared fields.

### What is hard

The list in `PROJECT.json` under `hazards` gives each with its line. In short: the
half-locked push and next; one `SDL_CondSignal` for two possible waiters after a
flag set under another mutex; serials that are read unlocked, twice a round,
while a seek may flush between any two steps; a codec that still holds packets
of before a seek; an end of file concluded from fields of two other threads;
control variables toggled by two threads; joins in a fixed order of threads that
may be blocked on each other; a seek, an opening or a read that fails while the
application stops; callbacks from three threads; fields of a component that are
reset and set again, one by one, beside a loop that reads them.

## 2. Modules

| Module | What it is |
|---|---|
| `FrameChannel` | what a frame queue promises: a bounded FIFO that retains the frame taken last |
| `FrameQueue` | the ring with mutex, condition variable, writer, reader and closing thread |
| `Sums` | the sum of a sequence of numbers |
| `PacketQueue` | the packet queue as operators on its record, and when its counts agree with its list |
| `PacketLine` | what a packet queue and its decoder promise, and a whole stream: one line in which packets may be lost but not passed |
| `Decoder` | one decoder thread at its packet queue, against seeks, aborts and reopening |
| `Playback` | the whole pipeline with read_thread, presenters, control and stopping |
| `Session` | what a player promises its application: the order of callbacks between `run_player` and the return of `stop_player` |
| `Player` | application, task pool, event loop, read_thread and audio thread from `run_player` to the end |
| `StreamCycle` | closing and opening components beside read_thread's loop, decoders and consumers |
| `AudioPop` | `pop_audio_callback` and `pop_audio_thread`: frames cut into buffers, dated and paced |
| `Sequences_proofs` | lines in parts, and what a move or a loss does to them; what a sum is, and how it changes with its sequence |
| `FrameQueue_proofs`, `Decoder_proofs`, `Playback_proofs`, `Player_proofs`, `StreamCycle_proofs`, `AudioPop_proofs` | the theorems about these modules |
| `PlaybackOrder_proofs` | that `Playback` presents in order and each of its streams is a `PacketLine`, on top of `Playback_proofs` |
| `MCFrameQueue`, `MCDecoder`, `MCPlayback`, `MCPlayer`, `MCStreamCycle`, `MCAudioPop` | values for TLC |

`FrameQueue` implements `FrameChannel`, `Decoder` and each stream of `Playback` implement `PacketLine`, and
`Player` implements `Session`, by refinement;
`Decoder` and `StreamCycle` use the operators of `PacketQueue`, and so does `Playback`, whose frame
queues are the sequences `FrameChannel` justifies.

### FrameQueue

`kind` is one of the queues: `pictq` (keep_last, polled by the event loop,
the frame may be displayed again), `sampq` (keep_last, the audio callback blocks
on it; `sampq_win32` is the `_WIN32` build, where the callback polls first), `subpq` (no
keep_last, decoded straight into the slot). A step is one
critical section or one access outside one: `PushAdvance` / `PushPublish` are the
two halves of `frame_queue_push`, `NextReleases` / `NextShrinks` those of
`frame_queue_next`; `WriterTest` / `WriterWait` / `WriterGranted` are the loop test,
the wait and the unlocked re-reading of `abort_request` in
`frame_queue_peek_writable`, the `Reader` steps the same in `peek_readable`.
`SDL_CondSignal` wakes one of the waiting threads and a wait may also end by
itself. `held` is the set of slots the reader has pointers to. The closing thread
performs `decoder_abort` (abort, signal, join) and, for sound, the join of the audio
output; `DecoderStart` reopens the component on the ring as it was left.

A frame is the number of its decoding; what is in it plays no role.
`ImplementsChannel` states that the ring is a `FrameChannel`: the frames pushed and
not taken are read off the slots from `rindex + rindex_shown`, one fewer than `size`
says while `next` is between its halves, and the retained frame is the one at
`rindex`. `Playback` then uses frame queues as sequences with that capacity.

### PacketQueue and Decoder

Every function of the packet queue is one critical section, so each is an operator
on the record of its fields (`packet_queue_get` is `CanGet` / `MustWait` with `Got`).
`Decoder` has one action per step of `decoder_decode_frame` between which a flush
can fall: `CheckSerial` and `CompareSerial` are the two unlocked readings of
`serial`. The codec is external: a FIFO that may hold up to `CodecDelay` packets
before it must produce a frame, may fail on a packet, drains after a null packet
and may refuse a packet although it asked for one (`SendRefused`, the API violation
the code logs and survives by `packet_pending`). `codec` remembers the serial each packet
was sent under, which the program does not know.

`PacketLine` is the view of the two ends: packets enter with the number of their stretch,
frames leave at the head, and on the way some neighbours may be lost. `ImplementsLine` reads that
line off the decoder: the frame in hand with the label it will get (`d->pkt_serial`), then what the codec
holds, the packet in hand while it is not sent (also one that was refused), and the list.
A get, a send and a receive move a packet along without changing the line; a flush loses the queue's
part and starts a stretch, a reset the codec's, a stale packet its own; a failed or aborted frame is lost
where it stands.

### Playback

Starts when the components are open. read_thread's loop is a program counter
over the tests and effects another thread can see (`ReadTop` ... `ReadEof`); a
decoder's steps that no thread can tell apart are joined (`Receive`, `Fetch`, `Send`,
`QueueFrame`); the audio output takes a frame and skips stale ones (`AudioTakes`); the
event loop drops stale pictures (`RefreshStale`), takes a look at the next one (`Dequeue`),
finds it due or not (`Due`, `NotDue`), drops or shows it and ends a step (`EndStep`); it
runs one task at a time, each split where read_thread can come between
(`TogglePause` / `ClearStep`, `StepToNextFrame` / `SetStep`). `stream_seek` is three steps in
either thread, the test of `seek_req` (1602), the write of `seek_pos` (1603) and that of
`seek_req` (1608): `RequestSeek` / `RequestSeekPos` / `RequestSeekReq` in the event loop, `Restart` /
`RestartSeekPos` / `RestartSeekReq` in read_thread. The reading of `seek_pos` (`SeekFile`) and the
clearing of `seek_req` (`SeekDone`, 3410) are steps apart too, also when the seek fails.
A toggle of `paused` is a load and a store in both threads that perform it
(`ToggleLoad` / `ToggleStore`, `ReadToggleLoad` / `ReadToggleStore`), so one of two
concurrent toggles may be lost as in the code. The test for the end of playing reads
`finished` and the frame queue of one stream after the other (`PlayedTest`,
`FinishedTest`, `RemainingTest`): the order of these reads is what makes it right.
`StopPlayer`, `StreamClose` and the joins are the way out. Packets carry the generation (seeks done so far) and
position they were read at; the program sees neither, the properties do.

Each stream is a `PacketLine` (`ImplementsLines`): the line is the frame queue, the frame the decoder holds, the codec, the
packet fetched and the packet queue, each element with its position in the file and its serial; what left last is what was
presented last. A frame is queued under the decoder's `pkt_serial`, whatever serial it had (2194, 2352), so the property also says
that nothing can come between the packet and the frame that makes these two differ.

Time is not modelled: a picture is due, late, or not yet due by choice. The audio
output is `pop_audio_thread` (rendering disabled) with the poll of the `_WIN32` build.
The 10 ms wait of read_thread is no step: whatever it misses, it starts over.

### Session and Player

`Session` knows only what the application sees: `heard`, the callbacks that come at most
once (`on_stream_ready`, `on_stream_error`, `on_player_auto_exit`), and the kind of the latest
one. Either the stream becomes ready, once, or it fails and nothing from reading follows; an
error while playing comes only together with the exit; restart and end come only while the
stream is ready and nothing ended it; nothing comes before `run_player` or after
`stop_player` has returned. Sound and pictures of the file come only when the stream is ready;
they may still arrive after the exit (they are on their way). Two kinds of callbacks may precede
`on_stream_ready`, and `Session` allows what the code does there: `on_player_paused` and
`on_player_resumed`, because `stream_ready` is set (3339) before the callback is made (3357); and the
empty picture (`EmptyPicture`) that a file without video hands to `on_video_frame` when rendering is
disabled, because `show_mode` is set before either (3323) and `video_refresh` asks for no more
(3719, 1726-1729, 1458-1471). A failed preparation is nevertheless the first word and the last: what
comes before `on_stream_ready` comes only once streams are open, and then nothing fails before it.

`Player` has the four threads as program counters: `app` (run, ask, push, stop), `el`
(`event_loop`: tasks, wait, exit, `stream_close`), `rt` (`read_thread` from opening to `fail:`) and `at`
(`pop_audio_thread`). `cb` says whether the application still holds its event object, of which
the player has a weak pointer. The flags `abort_play`, `abort_request`, `stream_ready` are single
shared variables, and a step is one access, one callback or one task. What is read is
left open: at any round of read_thread's loop everything may have been played, a seek may
fail, reading may break. `fed` says that a packet, a null packet or an attached picture has been
queued, so that decoded data may exist; `show_mode` is what `video_refresh` goes by. The event
loop's wait is a test of `abort_play` and of the task list (`WaitReturns`, `WaitGoesOn`, 3707), then a sleep and
`video_refresh` (`ShowPicture`), which may make its callback after `abort_play` has been set. `PushAsyncTask`, `RunAllTask` (the swap), each task, and
`ClearAllTask` are the task pool. A request is made only after `is_stream_ready()` returned true,
as the demo does it.

### StreamCycle

A key of the debug window makes the event loop run `stream_cycle_channel`. Closing and opening are a sequence of
single effects in the order of the code: abort the queue, join the decoder and flush,
`discard`, `xxx_st = NULL` and `xxx_stream = -1`; then `last_xxx_stream`, open the codec and `eof = 0`, `xxx_stream`, `xxx_st`,
`decoder_init`, `decoder_start`, the device or the hardware flag. Between any two, read_thread goes through
its tests one field at a time (`TestOpen`, `TestFinished`, `TestRemaining`, `MatchPacket`,
`PutPacket`, `MatchNull`, `PutNull`, `SetEof`), the decoders take packets, and the device takes sound. The
first opening is made by read_thread with the same actions, sound first, then picture, and
each may fail. Pictures are taken by the event loop, so not while it switches.
`hw_decode_used` is set after the decoder has started, as in the code; the decoder picks its
buffer by it and looks at it again after decoding.

### AudioPop

Time, sizes and pts are counted in samples. `DecodeFrame` and `OutputSilence` refill `audio_buf`,
`Copy` moves what fits, counts data, advances `pts_pos` by data and silence alike, `SetClock` is
the audio clock, `SleepAndPop`, `Jumped`, `NextDue` and `Deliver` the pacing: sleeps are cut at 100 ms, skipped under 5 ms and may come
late. Silence is put in when the player is paused or no frame came in time, at any
refill.

`NotAhead` compares what was handed over in a stretch (`handed`) with the time that passed since it began.
It is claimed where frames follow each other, perhaps with gaps (`SteadyFrom`): with overlapping frames pts
say nothing of how much is played. Two allowances are real: sleeps of less than 5 ms are skipped (`MinSleep`), and a
stretch is dated by a `pts_pos` that silence in front of its first sample has moved on (`Lead`); without
`Lead` TLC finds the application fed that much early.

## 3. Runs

| Run | Instance | What it shows |
|---|---|---|
| `framequeue` | 3 slots, 5 frames, opened twice, all kinds and both builds | `NoSlotClash`, `HeldAreFrames`, `NoLostWakeup`, the inductive invariant `IInv`, refinement of `FrameChannel`, that the unlocked poll keeps the `_WIN32` audio callback from blocking, and that an abort joins |
| `decoder` | 4 packets, serials to 4, delay 1 | one serial per queue and per codec, counts, order, wake-ups, refinement of `PacketLine`, the inductive invariant `IInv`; an abort ends the thread, queues drain |
| `playback_av` | picture, sound, picture; one seek to the start | stale is told from fresh everywhere, presentation order, truth of the end of file, byte limit, the inductive invariant `IInv` |
| `playback_control` | two pictures, one seek to the end (may fail), one pause, loop 2, frame dropping, delay 1 | under control requests and failures, the stream is a `PacketLine` from demuxer to screen; truth of the end of file |
| `playback_video` | two pictures, a seek behind the first (may fail) and a restart to the start, pause, auto exit | liveness: the end is reached, stopping joins, a request that stands is executed, to its own target |
| `playback_step` | two pictures, a seek to the start, a pause and a step of the application, no exit at the end | liveness: a step ends, read_thread's after a seek while paused and the application's, as long as a picture is left to step to |
| `audio_only_step` | two sound packets, a seek to the start, a pause | expected violation, see section 5 |
| `player` | played once without a window, with and without auto exit, or twice in the debug window, staying at the end; sound or pictures or both, 2 requests | callbacks come in `Session`'s order; the outcome is always told; tasks run once, in order, and are not forgotten; stopping returns from every state; the inductive invariant `IInv` |
| `request_assert` | the same | expected violation, see section 5 |
| `stream_cycle` | two packets, one switch of either kind, frame queues of one place, codecs with and without a device, openings that fail | the finished mark is the open stream's, a switch returns, the end is told |
| `sound_cut_off` | the same, without a switch | expected violation, see section 5 |
| `audio_pop` | four files of 4-5 frames, buffers of 4 and silence of 2 units, two toggles of pause, time to 16 | no sample lost or out of order, each buffer dated by its first sample, the audio clock right at a buffer's end, the application not fed ahead of time |

Why the bounds suffice. Three slots and five frames let both indices wrap and the
writer wait on a full ring whose oldest slot is in use; two openings start the
second on a ring with frames in it. In `Decoder` four packets and four serials put
a seek on either side of every step, a drain before further data, and a closing
with a reopening after a seek. In `Playback` the limits of the
packet queues are reached with the packets of the file (the byte limit in `playback_av` and
`playback_video`, the number of packets in all), a frame queue of two places makes decoders
block, one seek suffices to have old and new data in every place at once, and
`Loop = 2` with a failing seek gives the restart that finds nothing new. In `playback_video` the application
and the restart ask for different positions, so that one's target in place of the other's is seen; the
step of the application (`MaxSteps = 1`) is in `playback_step`, where steps are what is asked about. What these
bounds do not show: three seeks in flight, or files longer than the queues by far.
In `Player` two requests are enough to have one in the list while another runs, and loop 2
gives one restart and then the end; what is read is unbounded. Its `Setups` are three of the eight combinations of
`loop` 1 or 2, auto exit and window: callbacks with data meet every end of the file, the window the restart. The
proofs are about all. In `StreamCycle` one switch falls
between any two steps of everybody else, also at the end of the file, and a frame
queue of one place is full as soon as it is used. In `AudioPop` the frames are longer, shorter and as long as a
buffer, and the times suffice for a stretch, a jump and a stretch.

`MaxPackets`, `MaxSerial`, `MaxFrames` (of `FrameQueue`), `MaxOpens`, `MaxSeeks`, `MaxToggles`, `MaxSteps`,
`MaxTasks`, `MaxSwitches`, `FilePackets` and `MaxTime` are bounds of the model; `Capacity`, `QueueLimit`, `MinFrames` stand for
`VIDEO_PICTURE_QUEUE_SIZE` / `SAMPLE_QUEUE_SIZE`, `MAX_QUEUE_SIZE` and `MIN_FRAMES`, scaled
down.

`CHECK_DEADLOCK FALSE` is set because these systems may stop: a component stays
closed when nobody reopens it, a decoder waits when no packet comes, and a
player that was stopped does nothing more. That nothing stops too early is what
the liveness properties say.

### Fairness

Weak fairness of each thread's steps: the operating system runs a runnable
thread, mutexes are held for a few instructions, and the 10 ms timeout makes
read_thread start over. The event loop goes through with what it has begun and, when
not paused, begins `video_refresh` again and again; as time passes, a picture it looks
at again and again becomes due, hence strong fairness of `Due`. In `Decoder` strong fairness of `SendPacket`
says that a codec does not refuse for ever what it asked for. In `Player` the application finishes what it has begun (it returns from `run_player` and waits
in `stop_player`), each thread runs (the event loop, when it waits, goes round between its test and
`video_refresh`), a callback returns, and an opening ends when
`abort_request` interrupts it (the interrupt callback of `decode_interrupt_cb`); an opening that nobody
interrupts may take for ever. `stop_player` is called on a thread of the application: called
from a callback it would wait for the thread it runs on. In `StreamCycle` the
threads run, and the device and the display go on taking what they are given. Nothing is assumed of
the application's requests (no request is fair), of packets arriving in `Decoder`
and `FrameQueue`, or of seeks succeeding.

## 4. Proofs

`FrameQueue_proofs` proves, for every `MaxSize >= 2`, every number of frames and
openings, and any subset of the four kinds (`QueueAssumption`, the only assumption):

| Theorem | Says |
|---|---|
| `Invariance` | `Spec => []IInv` |
| `TypeCorrect` | `[]TypeOK` |
| `SlotSafety`, `HeldSafety` | the writer never touches a slot in use, the reader never sees a released one |
| `WakeupSafety` | no waiter without a reason or with nobody left to wake it |
| `PollSuffices` | the `_WIN32` poll |
| `Refinement` | `Spec => ImplementsChannel` |

None of these is inductive alone. `IInv` adds where each thread is while the mutex is
held and while the component closes (`ControlInv`), how `windex`, `rindex` and `size` fit
together in every state of the two half-done updates (`RingInv`: `windex` is always
`Filled` places after `rindex`, where `Filled` counts a slot already pushed but not
published and does not count one released but not yet subtracted), that exactly the
slots in use hold frames (`SlotsInv`), and that the reader's pointers lie in that range
(`HeldInv`). From it: the slot the writer fills is the first one not in use, hence not
held. The argument for one signal being enough is that both threads cannot wait at
once: the writer waits only on a full ring, the reader on one with nothing left.
With `MaxSize = 1` and keep_last that fails, which is why the assumption asks for two
places (the program uses 3, 9 and 16). The proof of `IInv'` has a lemma per
thread, one step per action; the refinement maps each action to a `Put`, a `Take` or a
stutter, with lemmas on what appending and removing do to the mapped sequence.

`Decoder_proofs` proves, for every `MaxPackets`, `MaxSerial` and `CodecDelay`
(`DecoderAssumption`: they are natural numbers):

| Theorem | Says |
|---|---|
| `Invariance` | `Spec => []IInv` |
| `TypeCorrect` | `[]TypeOK` |
| `QueueSerial` | no packet of an earlier stretch is listed |
| `CodecSerial` | the codec never mixes stretches, a frame has its packet's serial |
| `Wakeup` | the thread sleeps only while there is nothing to get and no abort |
| `FramesInOrder` | frames come in the order of their packets, none twice |
| `Accounted` | `[]Accounting`: `nb_packets` and `size` agree with the list |
| `Refinement` | `Spec => ImplementsLine` |

The order of frames is the one that needs strengthening most: `LineInv` puts everything
in the pipeline on one line. The packets listed are in order and younger than the packet
in hand while that is still to be sent (`Unsent`: between get and send, or kept after a
refusal), which is younger than all the codec holds, which are in order and younger than the
frame in hand, which is younger than the last one returned. Each step moves one
packet one place along the line or removes it. `ThreadInv` says what the thread can be doing
while the component closes: a reopening with a new codec needs that the old thread is
gone, does not wait and that the list is empty.

`Accounted` needs no more than that each operation keeps `Counted`. What it rests on is `Sequences_proofs`: `Total` is
a recursive function over the indices, and that two such functions agree, or that the sum of a
longer sequence is the sum plus the new element, is proved by taking the least index where
it would fail (the numbers are well-founded). `PacketQueue`'s put appends, get takes the head, flush and start leave
nothing or all.

`Refinement` maps each action to one of `PacketLine` or to a stutter. The lemmas say what happens to a line made of
four pieces when one is emptied or a packet goes from one piece to the next; the serial of the frame in hand
stays its packet's by `CodecOneSerial`.

`Player_proofs` proves, for any `loop`, auto exit or none, window or none, and any number of requests
(`PlayerAssumption`):

| Theorem | Says |
|---|---|
| `Invariance` | `Spec => []IInv` |
| `OutcomeTold` | read_thread never ends without having told whether the stream became ready |
| `InOrder` | tasks run in the order they were pushed, each once |
| `Refinement` | `Spec => ImplementsSession` |

`IInv` has three parts besides the types. `LifeInv` is which threads exist and the order in which they end: the
event loop is past closing only when read_thread and the audio thread have ended, and the
application has returned from `stop_player` only when the event loop is done; that is why no callback comes
later. `HeardInv` ties what has been heard to the point read_thread is at and to `show_mode`: as long as that is not
set nothing is open, nothing is read and nothing was told, so that a failing preparation is the first word
although pictures do not wait for `on_stream_ready`; and what was queued was queued after it. `PoolInv` numbers the
tasks: those swapped out, then those in the list, follow the one run last without a gap. The
refinement has one lemma for steps that tell nothing, one for the repeated callbacks and one for the single ones.

`StreamCycle_proofs` proves, for files of any length and any number of switches
(`StreamCycleAssumption`):

| Theorem | Says |
|---|---|
| `Invariance` | `Spec => []IInv` |
| `EndIsOwn` | `[]FinishedIsOwn`: at no moment of a switch does `finished` of the old decoder pass for the new stream's |

The argument: no serial a decoder holds is ahead of its queue (`SerialInv`), closing flushes after
the join, so what the old decoder finished with is behind (`OwnerInv`), and from there to
`decoder_start` there is no decoder that could change it (`SwitchInv`, which also has to say when the first opening's
picture has not begun).

`Playback_proofs` and `PlaybackOrder_proofs` prove, for any file of sound and pictures, any limits of
the queues (`Capacity >= 2`) and any number of seeks, pauses and steps (`PlaybackAssumption`):

| Theorem | Says |
|---|---|
| `Invariance`, `TypeCorrect` | `[]IInv`, `[]TypeOK` |
| `FreshIsNew` | `[]StretchIsGeneration`: what has the queue's serial was read after the last seek |
| `EofIsTrue` | `[]EofTruth`: what read_thread takes for the end is the end |
| `Bounded` | `[]BufferBounded`: what is queued exceeds its limit by at most one read |
| `StandingKept` | `RequestKept`: a seek request that stands is kept until the file is sought to its target |
| `Line` | `[]OrderInv`: all that is on its way is in the order of the file |
| `InOrder` | `PresentsInOrder` |
| `Refinement` | `Spec => ImplementsLines` |

`IInv` says of each stream: no serial is ahead of its queue's (`SerialInv`), so that a flush leaves nothing that
passes for fresh; what has the queue's serial is of the demuxer's generation (`GenInv`), unless the seek
under way has yet to flush this queue; and null packets are the last of a stretch, put when the file is read,
so that a decoder that drains or has finished in this stretch has nothing left to come (`NullInv`). `StageInv` adds
what read_thread's tests of the end have established of the streams gone through: `finished` equal to the serial
is stable, since neither serial nor `finished` changes any more before read_thread itself seeks, and with it an
empty frame queue. That is why tests made one after the other, unlocked, may be put together. The lemmas go
from the operators of the packet queue, over what each kind of step does to the three parts of one stream
(`...Keeps`), to the actions (`...Inv`).

`Bounded` is about the test of the sizes and the put that follows it, with a seek, an end-of-file test and
other threads between. `BufferInv` adds to the counts of each queue that from the test to the put
(`MayRead`) the queues are still below the limit: only read_thread adds to them, decoders and flushes take away, and the sizes
they take away are those of the packets, which is where the counts come in.

`StandingKept` is the safety part of `SeekServed` and needs of the invariant only where a toggle of `paused` goes
on; what carries it is that `Stands` is false exactly while one of the two threads is amid its own writes.

`OrderInv` is the line of `Decoder_proofs` with generations for serials: the frame presented last, the frame
queue, the frame in hand, the codec, the packet fetched, the packet queue, each later in the file (or of a later
generation) than all before it, and all of it read by the demuxer. A seek starts a generation and so is later
than everything; a flush, a drop or a reset of the codec only removes; every other step moves one
element to the next group.

`Refinement` takes each stream's line as a row of five parts. `Sequences_proofs` says what becomes of a row when an element goes
over from the head of a part to the end of the one before it (nothing), when a part is emptied (neighbours are
lost), when the first part loses its head or the last one grows. There is a lemma for each thing a step can do to the
row (`TakeWay` ... `FlushWay`); `Advances` puts them together for the actions. A flush that starts a
stretch and the decoder that notices it later lose different parts, at different times, and neither needs to know of the
other. `IInv` gives that frames in the codec and in hand have the serial of their packet, and `OrderInv` that the picture shown is the one at the
head of the frame queue.

`AudioPop_proofs` proves, for any set of files, any sizes of the application's buffer and of silence
(`AudioPopAssumption`); `Pace` also assumes that no buffer lasts longer than the longest sleep
(`SleepAssumption`; a buffer is `2 << log2(freq / 30)` samples, at most 67 ms, or 512 samples, less than
100 ms at any rate from 5120 per second on, see 2811 and 2621):

| Theorem | Says |
|---|---|
| `NothingLost` | `[]SamplesInOrder`: no sample is lost, repeated or out of order |
| `Dating` | `[]DatedByFirst`: a buffer carries the pts of its first sample |
| `Clock` | `[]ClockIsWritten`: the audio clock agrees with the sample written last |
| `Pace` | `NotAhead`: the application is not fed faster than it plays |

What carries them is that `audio_buf` is always silence or the rest of the frame taken last (`BufInv`), with
`pts_pos` and `audio_clock` belonging to it (`PosInv`), and the date of a buffer being filled fixed by
its first piece (`StreamInv`).

The pace needs a second invariant on top. `InTime`: in steady frames, samples written are at least as far apart in
pts as there are samples between them, and `pts_pos` is behind all of them. `CountInv` ties `handed` and `got_bytes` to what was
written, and `PaceInv` says that what was handed over is never ahead of `next_system`, and by how much it may be ahead of the
time: a whole buffer just after it was handed over, only the skipped sleep when the next is being filled.
A sleep cut at 100 ms is still long enough because a buffer is no longer than that. A buffer
that does not jump has its first sample at or behind the stretch's first plus what was handed over, so `NextDue`
moves the due time on by at least what is handed over next.

Model-checked only: liveness (`AbortJoins`, `AbortEndsThread`, `QueueDrains`, `SeekServed` but for `RequestKept`, `PlayReachesEnd`, `StopTerminates`,
`StepEndsAtPicture`, `TasksRun`, `StopReturns`, `SwitchReturns`, `EndIsTold`), because the prover does not handle `ENABLED`, on which
fairness rests; and the three properties of section 5, which are violated (`StepEnds`, `RequestsAreServed`, `EndAlwaysTold`). Induction
over data can be done only where, as in `Sequences_proofs`, the least counterexample can be named
without an operator as a parameter; nothing else here is defined by recursion.

## 5. What was found

`step_to_next_frame` says "if the stream is paused unpause it, then step" (1660); a
step ends where `video_refresh` has shown a picture and pauses again (1826).
read_thread calls it after a seek while paused (3413) whatever the streams are. In
an audio-only file no picture is ever shown: the player, paused by the user, plays
on from the new position, and no callback says so. Run `audio_only_step`. With pictures
the same happens where none is left to step to: when the new position is behind the last picture, when the
seek fails at the end of the file, or when the application itself asks for a step there
(`request_step_to_next_frame`): the player is unpaused and waits for a picture that does not come; or when the decoder drops the last one as
late (`framedrop`, which `playback_step` has switched off). `StepEndsAtPicture` therefore
claims the end of a step only as long as a picture is ahead (`PictureAhead`: unread, or a frame of the
present stretch in the queue).

`request_seek_file`, `request_toggle_pause_resume` and `request_step_to_next_frame` push a task that ends in
`assert(false)` (4104, 4116, 4128) when the stream is not ready at the time it runs. The
application can only ask `is_stream_ready()` before the request, as the demo does; the stream may end in
between, and a debug build aborts on a legal call. Run `request_assert`. (`TasksRun` does not object: a task that
asserts has been run.)

`stream_component_open` closes the audio device on every failure (3098-3105), also when it was the
picture that could not be opened. With the debug window, a file whose video has no
decoder loses the sound that was opened just before: `sampq` stays full, the end is never
reached and neither `on_stream_eof` nor `on_player_auto_exit` comes, although `on_stream_ready` announced
a file with sound. Run `sound_cut_off`; `EndIsTold` in `stream_cycle` therefore asks that the sound be heard.

Seen on the way, and modelled without a property that forbids it, because no comment or document says
otherwise:

* A seek request can be lost to another `stream_seek` or to the end of the one before. Application and
  read_thread (at a restart) may both find `seek_req` unset (1602); of the two positions written (1603) the
  later one stays, and if read_thread takes the first request in between, the second is a request with a target
  already served. A request set after read_thread looked at `seek_req` (3381) falls with it at 3410, and one made while
  another is pending is not taken up (1602). A failing seek is done with, too. `SeekServed` is therefore
  about a request that stands: set, not amid another's writes and not amid read_thread's reading of it; that
  such a request is executed, to its own target, is what the property says, and its mutant, a
  `stream_seek` without the test at 1602, breaks it.
* A pause can be lost to a seek. `toggle_pause` negates `paused` (1624), calls `on_player_paused` and then clears
  `step` (1643). If read_thread has just done a seek, it finds the player paused (3413), unpauses it and sets `step`
  (1661-1663); when `step = 0` follows, nothing is left of either: the player plays on although its application has been told
  that it is paused (in the model: `ToggleStore`, `SeekPaused`, `ReadStepTest` ... `ReadStepSet`, `ClearStep`). The other way
  round, a resume is undone: read_thread tests `paused` (1661), the application resumes, and read_thread's toggle pauses
  again; or its `step = 1` makes the next picture a pause. No callback tells of either. `StepEndsAtPicture` is
  about the step only, and holds over both.
* A restart whose seek fails counts `loop` down and calls `on_player_restart` although nothing is
  played again (`PlayReachesEnd` holds over it); a restart is swallowed when a seek is pending.
* A read error without auto exit ends read_thread without a callback: only `is_stream_ready()` turns false.
  A video filter that cannot be configured sets `abort_play` without a callback.
* `on_player_paused` can come before `on_stream_ready`, frames after `on_player_auto_exit`. A picture may also come after
  `abort_play` is set, since the event loop tests it before it sleeps (3707), but not after `stop_player` has returned.
* `stop_player` waits for itself when it is called from a callback. The destructor asserts that the player was
  stopped, so an application that drops it on `on_player_auto_exit` must call `stop_player` first.
* A switch at the end of the file can lose the null packets: `eof = 0` (3002) makes read_thread queue them
  before the new stream has its number, or before `decoder_start`; no decoder is drained then and the end is
  not told. `EndIsTold` excludes a switch after everything is read.
* While the only component is closed, read_thread finds no stream and takes everything for
  played (3439): a premature restart or exit. In the same window 3417, 3429 and 3508 may use a NULL
  stream pointer after having tested the number.
* A packet read for the old stream that is matched (3508) just before the close may be put into the
  queue of the new decoder. When the last component cannot be reopened, read_thread waits for ever.
* `hw_decode_used` is set after `decoder_start` (3079): a first frame decoded before it is looked for in the
  wrong buffer, the filters fail and the player stops by `abort_play`, silently.
* A buffer with silence in front is announced with `got_bytes` of data but starts with the
  silence (2705): its last samples are not counted. A file without pts is not paced at all
  (2665: a NaN time). After a buffer that ends in silence the audio clock steps back by
  what is left of it.
* In an audio-only file, or one whose video cannot be opened, with rendering disabled, `video_refresh` displays
  the waveform every 20 ms, which hands the application an empty picture each time (1726, 1729, 1479, 1458). As
  `show_mode` is set (3323) before the stream is announced (3357), the first of them can come before
  `on_stream_ready`. `Session` says so, and keeps data of the file behind it.
* Besides the three asserts of the requests, a debug build aborts on failures that the code then handles:
  `avformat_open_input` fails (3206), a seek fails (3390), there is no window or renderer (3760, 4048), `run_player` gets
  invalid parameters or cannot start (4070, 4078). The modules are of the build without asserts, where read_thread or the
  event loop goes on; `ToldOfOutcome`, `PlayReachesEnd`, `SeekServed` and `StopReturns` hold over these paths there.
* The debug windows of two players share SDL's event queue: one takes the other's events (3706).

## 6. Plan

Done: `FrameChannel`, `FrameQueue`, `PacketQueue`, `PacketLine`, `Decoder`, `Playback`, `Session`, `Player`,
`StreamCycle`, `AudioPop`, all with proofs of every safety property. Left, in this order:

1. That each stream of `Playback` uses its frame queue as `FrameChannel` has it, with the picture on display kept.
2. Subtitles in `Playback`, the third queue that a seek flushes.
3. The steps of a switch in `StreamCycle` as a refinement of closing and opening in one step.

## 7. Not modelled

FFmpeg (`src/ffmpeg-6.0`), the SDL headers and the binaries are third-party code and nearly all of the repository's
lines; they appear as external steps. `src/ffplay` is a copy of the library's file and
the demo is its user interface. Of lib-player itself:

* Debug rendering (textures, waves, windows), and SDL key and mouse events but for the keys that switch a
  stream and the closing of the window: output and input of SDL, no shared state but `force_refresh`.
* Filter graphs and opening of files and codecs beyond their failing: library calls.
* `compute_target_delay`, `vp_duration`, `synchronize_audio`, the video and external clocks: floating-point functions of
  the system clock; `Playback` lets a picture be due, late or early by choice, which
  covers every outcome they can have.
* What `send_video_image_to_upper` copies: with rendering disabled a picture is displayed once and its frame moved to the
  application; nothing interleaves with it but what `FrameQueue` checks of the retained slot. When it calls the
  application is in `Player`.
* Attached pictures (in `Player` only as something that may be queued), play ranges, the RTSP pause, seeks by bytes and chapters, subtitles in
  `Playback` and `StreamCycle`, allocation failures, a failing `SDL_CreateThread`, `RemoveTask` (unused).

They are listed in `PROJECT.json` with the reason.
