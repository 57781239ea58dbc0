------------------------------- MODULE Player -------------------------------
(***************************************************************************)
(* The life of a player object (lib-player/ffplay.cpp, task-instance.cpp): *)
(* run_player starts read_thread and the event loop; the application asks  *)
(* whether the stream is ready, pushes requests as tasks and stops; the    *)
(* event loop runs the tasks, shows pictures and finally closes the stream *)
(* and joins the others; read_thread opens the file, reads it and tells    *)
(* the application how it ended.  What is played, and how, is Playback's   *)
(* concern: here the reader may find everything played, a seek may fail    *)
(* and reading may break at any round of its loop.                         *)
(*                                                                         *)
(* The threads share abort_play, abort_request and stream_ready without a  *)
(* lock; a step is one access to them, one callback or one task.           *)
(***************************************************************************)
EXTENDS Integers, Sequences

CONSTANTS
  Setups,      (* parameters.loop and auto_exit_when_eof, and whether a debug *)
               (* window is wanted: the combinations to consider             *)
  MaxTasks     (* bound: requests the application makes                    *)

ASSUME PlayerAssumption ==
  /\ Setups \subseteq [loop : Nat, autoexit : BOOLEAN, window : {"none", "wanted"}]
  /\ MaxTasks \in Nat

VARIABLES
  (* the application: its thread, and whether it still holds its ffplayer_event *)
  app, cb,
  (* parameters: loop (counted down), auto_exit_when_eof; the debug window *)
  loop, autoexit, window,
  (* the task pool, and the tasks the event loop has swapped out           *)
  tasks, batch,
  (* event loop, read_thread, pop_audio_thread                             *)
  el, rt, at,
  ret,                        (* read_thread's ret # 0 at its end           *)
  abort_play, abort_request, stream_ready,
  video_state,                (* the pointer is not NULL                    *)
  seek_req, eof_happened,
  show_mode,                  (* SHOW_MODE_NONE, _VIDEO or _RDFT            *)
  fed,                        (* a packet has been queued                   *)
  (* history: the callbacks made, the tasks pushed and run                  *)
  heard, latest, pushed, ran

params  == <<loop, autoexit, window>>
pool    == <<tasks, batch, pushed, ran>>
flags   == <<abort_play, abort_request, stream_ready>>
reading == <<loop, ret, seek_req, eof_happened, show_mode, fed>>
told    == <<heard, latest>>
vars == <<app, cb, autoexit, window, pool, el, rt, at, flags, video_state,
          reading, told>>

(* The callbacks that come again and again, by kind: on_player_restart and *)
(* on_stream_eof; on_video_frame and on_audio_frame, with data of the file; *)
(* on_video_frame of a file without video, whose picture queue holds       *)
(* nothing but an empty frame; on_player_paused and on_player_resumed.     *)
FromReading  == "restart_or_eof"
Frames       == "frame"
EmptyPicture == "empty_picture"
Control      == "paused_or_resumed"

(* auto cb = event_cb.lock(); if (cb) cb->...()                            *)
Tell(kind) ==
  latest' = (IF cb THEN kind ELSE latest) /\ UNCHANGED heard

(* the same for one of the callbacks that are made at most once            *)
Announce(e) ==
  /\ heard' = (IF cb THEN Append(heard, e) ELSE heard)
  /\ latest' = (IF cb THEN e ELSE latest)
-----------------------------------------------------------------------------
(* The application's thread.                                               *)

(* run_player: apply_play_parameters, stream_open creates read_thread      *)
RunPlayer ==
  /\ app = "new"
  /\ app' = "starting" /\ rt' = "open" /\ video_state' = TRUE
  /\ \E p \in Setups : loop' = p.loop /\ autoexit' = p.autoexit /\ window' = p.window
  /\ UNCHANGED <<cb, pool, el, at, flags, ret, seek_req, eof_happened, show_mode, fed, told>>

(* stream_open fails: stream_close, do_exit, FFPLAY_ERROR_OPEN_FAILED      *)
RunFails ==
  /\ app = "new"
  /\ app' = "failed" /\ abort_play' = TRUE
  /\ UNCHANGED <<cb, autoexit, window, pool, el, rt, at, abort_request, stream_ready,
                 video_state, reading, told>>

(* the event loop's thread is created, run_player returns                  *)
StartLoop ==
  /\ app = "starting"
  /\ app' = "use" /\ el' = "init"
  /\ UNCHANGED <<cb, autoexit, window, pool, rt, at, flags, video_state, reading, told>>

(* the application asks is_stream_ready() ...                              *)
AskReady ==
  /\ app = "use" /\ stream_ready /\ pushed < MaxTasks
  /\ app' = "push"
  /\ UNCHANGED <<cb, autoexit, window, pool, el, rt, at, flags, video_state, reading, told>>

(* ... and makes a request: PushAsyncTask.  (A task is its number; what it *)
(* asks for is chosen when it runs.)                                       *)
PushAsyncTask ==
  /\ app = "push"
  /\ app' = "use" /\ pushed' = pushed + 1
  /\ tasks' = Append(tasks, pushed + 1)
  /\ UNCHANGED <<cb, autoexit, window, batch, ran, el, rt, at, flags, video_state, reading,
                 told>>

(* the application lets its ffplayer_event go (event_cb is a weak_ptr)      *)
DropEvents ==
  /\ app = "use" /\ cb
  /\ cb' = FALSE
  /\ UNCHANGED <<app, autoexit, window, pool, el, rt, at, flags, video_state, reading, told>>

(* Mutant: the player is only told to stop. *)
StopWithoutJoin ==
  /\ app = "use"
  /\ app' = "stopped" /\ abort_play' = TRUE
  /\ UNCHANGED <<cb, autoexit, window, pool, el, rt, at, abort_request, stream_ready,
                 video_state, reading, told>>

(* stop_player: abort_play is set ...                                      *)
StopPlayer ==
  /\ app = "use"
  /\ app' = "stop" /\ abort_play' = TRUE
  /\ UNCHANGED <<cb, autoexit, window, pool, el, rt, at, abort_request, stream_ready,
                 video_state, reading, told>>

(* ... and the event loop joined                                           *)
JoinLoop ==
  /\ app = "stop" /\ el = "done"
  /\ app' = "stopped"
  /\ UNCHANGED <<cb, autoexit, window, pool, el, rt, at, flags, video_state, reading, told>>
-----------------------------------------------------------------------------
(* The event loop.                                                         *)

apart == <<app, cb, autoexit, rt, at, stream_ready, loop, ret, eof_happened,
           show_mode, fed>>

(* init_SDL_video                                                          *)
InitVideo ==
  /\ el = "init"
  /\ el' = "top" /\ window' = (IF window = "wanted" THEN "shown" ELSE "none")
  /\ UNCHANGED <<apart, pool, abort_play, abort_request, video_state, seek_req, told>>

(* no window or no renderer: do_exit, and event_loop returns               *)
InitFails ==
  /\ el = "init" /\ window = "wanted"
  /\ el' = "exit" /\ window' = "failed"
  /\ UNCHANGED <<apart, pool, abort_play, abort_request, video_state, seek_req, told>>

(* while (!abort_play) ...                                                 *)
LoopEnds ==
  /\ el = "top" /\ abort_play
  /\ el' = "exit"
  /\ UNCHANGED <<apart, window, pool, abort_play, abort_request, video_state, seek_req, told>>

(* Mutant: the list is copied, and cleared when its tasks have run. *)
CopyAllTask ==
  /\ el = "top" /\ ~abort_play
  /\ batch' = tasks /\ el' = "run"
  /\ UNCHANGED <<apart, window, tasks, pushed, ran, abort_play, abort_request, video_state,
                 seek_req, told>>

(* ... RunAllTask: the list is swapped out under the pool's lock           *)
RunAllTask ==
  /\ el = "top" /\ ~abort_play
  /\ batch' = tasks /\ tasks' = <<>> /\ el' = "run"
  /\ UNCHANGED <<apart, window, pushed, ran, abort_play, abort_request, video_state, seek_req,
                 told>>

NextTask ==
  /\ el = "run" /\ batch # <<>>
  /\ batch' = Tail(batch) /\ ran' = Head(batch)
  /\ UNCHANGED <<apart, window, tasks, pushed, el, abort_play, abort_request, video_state>>

TaskAllowed == stream_ready /\ ~abort_play /\ video_state

(* request_seek_file, request_toggle_pause_resume, request_step_to_next_frame *)
TaskSeeks ==
  /\ NextTask /\ TaskAllowed
  /\ seek_req' = TRUE
  /\ UNCHANGED <<told>>

(* (toggling is told, stepping is not)                                     *)
TaskControls ==
  /\ NextTask /\ TaskAllowed
  /\ Tell(Control) \/ UNCHANGED told
  /\ UNCHANGED seek_req

(* else assert(false); the release build goes on                           *)
TaskAsserts ==
  /\ NextTask /\ ~TaskAllowed
  /\ UNCHANGED <<seek_req, told>>

TasksDone ==
  /\ el = "run" /\ batch = <<>>
  /\ el' = "wait"
  /\ UNCHANGED <<apart, window, pool, abort_play, abort_request, video_state, seek_req, told>>

(* Mutants: only a stop ends the wait; only a task does. *)
WaitReturnsOnAbort ==
  /\ el = "wait" /\ abort_play
  /\ el' = "top"
  /\ UNCHANGED <<apart, window, pool, abort_play, abort_request, video_state, seek_req, told>>

WaitReturnsOnTask ==
  /\ el = "wait" /\ tasks # <<>>
  /\ el' = "top"
  /\ UNCHANGED <<apart, window, pool, abort_play, abort_request, video_state, seek_req, told>>

(* refresh_loop_wait_event returns on a stop or a task ...                 *)
WaitReturns ==
  /\ el = "wait" /\ (abort_play \/ tasks # <<>>)
  /\ el' = "top"
  /\ UNCHANGED <<apart, window, pool, abort_play, abort_request, video_state, seek_req, told>>

(* ... until then, round by round, it sleeps after this test ...           *)
WaitGoesOn ==
  /\ el = "wait" /\ ~abort_play /\ tasks = <<>>
  /\ el' = "refresh"
  /\ UNCHANGED <<apart, window, pool, abort_play, abort_request, video_state, seek_req, told>>

(* ... and calls video_refresh.  Without a window, that tells a picture    *)
(* that is due; of a file without video, from the moment its sound is open *)
(* on, the empty frame that the picture queue begins with.                 *)
ShowPicture ==
  /\ el = "refresh"
  /\ el' = "wait"
  /\ \/ UNCHANGED told
     \/ window = "none" /\ show_mode = "video" /\ fed /\ Tell(Frames)
     \/ window = "none" /\ show_mode = "rdft" /\ Tell(EmptyPicture)
  /\ UNCHANGED <<apart, window, pool, abort_play, abort_request, video_state, seek_req>>

(* The user of the debug window may close it                               *)
WindowQuits ==
  /\ el = "wait" /\ window = "shown"
  /\ abort_play' = TRUE /\ el' = "top"
  /\ UNCHANGED <<apart, window, pool, abort_request, video_state, seek_req, told>>

(* do_exit, stream_close: read_thread is told to end ...                   *)
TellReader ==
  /\ el = "exit"
  /\ abort_play' = TRUE /\ abort_request' = TRUE /\ el' = "join"
  /\ UNCHANGED <<apart, window, pool, video_state, seek_req, told>>

(* Mutant: read_thread is not waited for. *)
SkipReader ==
  /\ el = "join"
  /\ el' = "close"
  /\ UNCHANGED <<apart, window, pool, abort_play, abort_request, video_state, seek_req, told>>

(* ... and joined; then each component is closed, which joins the audio    *)
JoinReader ==
  /\ el = "join" /\ rt = "ended"
  /\ el' = "close"
  /\ UNCHANGED <<apart, window, pool, abort_play, abort_request, video_state, seek_req, told>>

CloseComponents ==
  /\ el = "close" /\ at \in {"none", "ended"}
  /\ video_state' = FALSE /\ el' = "clear"
  /\ UNCHANGED <<apart, window, pool, abort_play, abort_request, seek_req, told>>

(* uninit_SDL_video, ClearAllTask; skipped when there was no window to begin with *)
ClearAllTask ==
  /\ el = "clear"
  /\ tasks' = (IF window = "failed" THEN tasks ELSE <<>>) /\ el' = "done"
  /\ UNCHANGED <<apart, window, batch, pushed, ran, abort_play, abort_request, video_state,
                 seek_req, told>>
-----------------------------------------------------------------------------
(* read_thread.                                                            *)

beside == <<app, cb, autoexit, window, pool, el, abort_request, video_state, show_mode>>

(* avformat_open_input to stream_component_open: it may fail at any point, *)
(* and its interrupt callback makes it fail when abort_request is set.     *)
OpenFails ==
  /\ rt = "open"
  /\ rt' = "fail" /\ ret' = TRUE
  /\ UNCHANGED <<beside, at, abort_play, stream_ready, loop, seek_req, eof_happened, fed, told>>

(* sound, pictures or both: pop_audio_thread starts if there is sound and   *)
(* no debug window, and only then does show_mode tell what is to be shown  *)
OpenStreams ==
  /\ rt = "open"
  /\ rt' = "opened"
  /\ \E sound, video \in BOOLEAN :
       /\ sound \/ video
       /\ at' = (IF sound /\ window = "none" THEN "run" ELSE "none")
       /\ show_mode' = (IF video THEN "video" ELSE "rdft")
  /\ UNCHANGED <<app, cb, autoexit, window, pool, el, flags, video_state, loop, ret, seek_req,
                 eof_happened, fed, told>>

SetReady ==
  /\ rt = "opened"
  /\ stream_ready' = TRUE /\ rt' = "ready"
  /\ UNCHANGED <<beside, at, abort_play, reading, told>>

TellReady ==
  /\ rt = "ready"
  /\ Announce("on_stream_ready") /\ rt' = "top"
  /\ UNCHANGED <<beside, at, abort_play, stream_ready, reading>>

(* the loop: abort_request ends it with ret = 0, a seek is executed or fails *)
ReadTop ==
  /\ rt = "top"
  /\ rt' = (IF abort_request THEN "fail" ELSE IF seek_req THEN "seek" ELSE "body")
  /\ ret' = FALSE
  /\ UNCHANGED <<beside, at, abort_play, stream_ready, loop, seek_req, eof_happened, fed, told>>

ReadSeeks ==
  /\ rt = "seek"
  /\ rt' = "body" /\ seek_req' = FALSE /\ eof_happened' \in {eof_happened, FALSE}
  /\ UNCHANGED <<beside, at, abort_play, stream_ready, loop, ret, fed, told>>

(* an attached picture may be queued; the queues are full, or not all has  *)
(* been played                                                             *)
PlaysOn ==
  /\ rt = "body"
  /\ rt' \in {"top", "frame"} /\ fed' \in {fed, TRUE}
  /\ UNCHANGED <<beside, at, abort_play, stream_ready, loop, ret, seek_req, eof_happened, told>>

(* all has been played: again (loop != 1 && (!loop || --loop)) ...         *)
Restart ==
  /\ rt = "body" /\ fed /\ loop # 1
  /\ loop' = (IF loop = 0 THEN 0 ELSE loop - 1) /\ seek_req' = TRUE
  /\ Tell(FromReading) /\ rt' = "frame"
  /\ UNCHANGED <<beside, at, abort_play, stream_ready, ret, eof_happened, fed>>

(* ... or that was all: goto fail ...                                      *)
ExitAtEnd ==
  /\ rt = "body" /\ fed /\ loop = 1 /\ autoexit
  /\ Announce("on_player_auto_exit") /\ ret' = TRUE /\ rt' = "fail"
  /\ UNCHANGED <<beside, at, abort_play, stream_ready, loop, seek_req, eof_happened, fed>>

(* ... or it stays at the end, which is told once                          *)
StayAtEnd ==
  /\ rt = "body" /\ fed /\ loop = 1 /\ ~autoexit
  /\ IF eof_happened THEN UNCHANGED told ELSE Tell(FromReading)
  /\ eof_happened' = TRUE /\ rt' = "frame"
  /\ UNCHANGED <<beside, at, abort_play, stream_ready, loop, ret, seek_req, fed>>

(* av_read_frame: a packet, or the end and its null packets                *)
ReadFrame ==
  /\ rt = "frame"
  /\ fed' = TRUE /\ rt' = "top"
  /\ UNCHANGED <<beside, at, abort_play, stream_ready, loop, ret, seek_req, eof_happened, told>>

(* ic->pb->error: without auto exit the loop is left with ret = 0, silently *)
ReadBreaks ==
  /\ rt = "frame" /\ ~autoexit
  /\ ret' = FALSE /\ rt' = "fail"
  /\ UNCHANGED <<beside, at, abort_play, stream_ready, loop, seek_req, eof_happened, fed, told>>

ReadError ==
  /\ rt = "frame" /\ autoexit
  /\ Announce("on_stream_error") /\ ret' = TRUE /\ rt' = "error"
  /\ UNCHANGED <<beside, at, abort_play, stream_ready, loop, seek_req, eof_happened, fed>>

ExitOnError ==
  /\ rt = "error"
  /\ Announce("on_player_auto_exit") /\ rt' = "fail"
  /\ UNCHANGED <<beside, at, abort_play, stream_ready, reading>>

(* Mutant: nothing is told to an application that is stopping. *)
FailQuietly ==
  /\ rt = "fail"
  /\ abort_play' = (abort_play \/ ret)
  /\ rt' = (IF stream_ready \/ abort_play THEN "clear" ELSE "prepare_error")
  /\ UNCHANGED <<beside, at, stream_ready, reading, told>>

(* fail: an error stops the player ...                                     *)
Fail ==
  /\ rt = "fail"
  /\ abort_play' = (abort_play \/ ret)
  /\ rt' = (IF stream_ready THEN "clear" ELSE "prepare_error")
  /\ UNCHANGED <<beside, at, stream_ready, reading, told>>

TellPrepareError ==
  /\ rt = "prepare_error"
  /\ Announce("on_stream_error") /\ rt' = "clear"
  /\ UNCHANGED <<beside, at, abort_play, stream_ready, reading>>

ClearReady ==
  /\ rt = "clear"
  /\ stream_ready' = FALSE /\ rt' = "ended"
  /\ UNCHANGED <<beside, at, abort_play, reading, told>>
-----------------------------------------------------------------------------
(* pop_audio_thread, and the video decoder's thread, which stops the player *)
(* when its filters cannot be configured.                                  *)

AudioLoop ==
  /\ at = "run"
  /\ at' = (IF abort_request \/ abort_play THEN "ended" ELSE "pop")
  /\ UNCHANGED <<beside, rt, abort_play, stream_ready, reading, told>>

(* no sound, or sound for the application; the thread ends when that is gone *)
AudioPops ==
  /\ at = "pop"
  /\ \/ at' = "run" /\ UNCHANGED told
     \/ fed /\ Tell(Frames) /\ at' = (IF cb THEN "run" ELSE "ended")
  /\ UNCHANGED <<beside, rt, abort_play, stream_ready, reading>>

FilterFails ==
  /\ fed /\ el \notin {"clear", "done"}
  /\ abort_play' = TRUE
  /\ UNCHANGED <<beside, rt, at, stream_ready, reading, told>>
-----------------------------------------------------------------------------
Init ==
  /\ app = "new" /\ cb = TRUE
  /\ loop = 1 /\ autoexit = FALSE /\ window = "none"
  /\ tasks = <<>> /\ batch = <<>> /\ pushed = 0 /\ ran = 0
  /\ el = "none" /\ rt = "none" /\ at = "none" /\ ret = FALSE
  /\ abort_play = FALSE /\ abort_request = FALSE /\ stream_ready = FALSE
  /\ video_state = FALSE /\ seek_req = FALSE /\ eof_happened = FALSE
  /\ show_mode = "none" /\ fed = FALSE
  /\ heard = <<>> /\ latest = "none"

Application ==
  \/ RunPlayer \/ RunFails \/ StartLoop \/ AskReady \/ PushAsyncTask
  \/ DropEvents \/ StopPlayer \/ JoinLoop

EventLoop ==
  \/ InitVideo \/ InitFails \/ LoopEnds \/ RunAllTask
  \/ TaskSeeks \/ TaskControls \/ TaskAsserts \/ TasksDone \/ WaitReturns
  \/ WaitGoesOn \/ ShowPicture \/ TellReader \/ JoinReader \/ CloseComponents \/ ClearAllTask

Opening == OpenFails \/ OpenStreams

Reading ==
  \/ SetReady \/ TellReady \/ ReadTop \/ ReadSeeks \/ PlaysOn
  \/ Restart \/ ExitAtEnd \/ StayAtEnd \/ ReadFrame \/ ReadBreaks \/ ReadError
  \/ ExitOnError \/ Fail \/ TellPrepareError \/ ClearReady

AudioThread == AudioLoop \/ AudioPops

Next ==
  \/ Application \/ EventLoop \/ WindowQuits
  \/ Opening \/ Reading \/ AudioThread \/ FilterFails

Spec == Init /\ [][Next]_vars

(* The threads run, callbacks return, and an opening that is interrupted    *)
(* fails; one that is not may take for ever.  stop_player is called by a    *)
(* thread of the application: from a callback it would wait for itself.     *)
FairSpec ==
  /\ Spec
  /\ WF_vars(StartLoop) /\ WF_vars(JoinLoop)
  /\ WF_vars(EventLoop) /\ WF_vars(AudioThread)
  /\ WF_vars(abort_request /\ OpenFails) /\ WF_vars(Reading)
-----------------------------------------------------------------------------
Milestones == {"on_stream_ready", "on_stream_error", "on_player_auto_exit"}
Callbacks == Milestones \cup {FromReading, Frames, EmptyPicture, Control}
Task == 1 .. MaxTasks

FlagsOK ==
  /\ cb \in BOOLEAN /\ autoexit \in BOOLEAN /\ ret \in BOOLEAN
  /\ abort_play \in BOOLEAN /\ abort_request \in BOOLEAN /\ stream_ready \in BOOLEAN
  /\ video_state \in BOOLEAN /\ seek_req \in BOOLEAN /\ eof_happened \in BOOLEAN
  /\ fed \in BOOLEAN

TypeOK ==
  /\ app \in {"new", "starting", "use", "push", "stop", "stopped", "failed"}
  /\ window \in {"none", "wanted", "shown", "failed"} /\ loop \in Nat /\ FlagsOK
  /\ tasks \in Seq(Task) /\ batch \in Seq(Task)
  /\ pushed \in 0 .. MaxTasks /\ ran \in 0 .. MaxTasks
  /\ el \in {"none", "init", "top", "run", "wait", "refresh", "exit", "join", "close", "clear",
             "done"}
  /\ rt \in {"none", "open", "opened", "ready", "top", "seek", "body", "frame", "error",
             "fail", "prepare_error", "clear", "ended"}
  /\ at \in {"none", "run", "pop", "ended"} /\ show_mode \in {"none", "video", "rdft"}
  /\ heard \in Seq(Milestones) /\ latest \in Callbacks \cup {"none"}

(* how far the session is, for the application                             *)
Phase ==
  IF app = "new" THEN "new" ELSE IF app \in {"stopped", "failed"} THEN "over" ELSE "open"

(* The callbacks of all the player's threads together come in the order      *)
(* Session allows, none after stop_player has returned.                      *)
S == INSTANCE Session WITH
  FromReading <- FromReading, Frames <- Frames, EmptyPicture <- EmptyPicture, Control <- Control,
  phase <- Phase

ImplementsSession == S!SessionSpec

(* read_thread does not end, however it is stopped or fails, without having  *)
(* told the application whether the stream became ready; and once it has     *)
(* ended, is_stream_ready() is false, which after a read error without auto  *)
(* exit is all there is to see.                                              *)
ToldOfOutcome == rt = "ended" => ~stream_ready /\ (cb => Len(heard) > 0)

(* Tasks run in the order they were pushed, each once, whatever is pushed    *)
(* while others run (task_instance swaps its list out under the lock).       *)
TasksInOrder == [][ran' # ran => ran' = ran + 1]_vars

(* Every task is run, unless the player is stopped first: whatever is pushed *)
(* while the event loop runs tasks or waits, it gets to the end of the list. *)
TasksRun == (ran < pushed) ~> (ran = pushed \/ abort_play)

(* stop_player returns, in whatever state the threads are; and whatever else *)
(* sets abort_play (an exit at the end, a failed opening, a failed filter,   *)
(* the window) the event loop ends with everything closed.                   *)
StopReturns ==
  abort_play ~> (app = "failed" \/ (app # "stop" /\ el = "done" /\ ~video_state))

(* A request made after is_stream_ready() returned true is not made in vain: *)
(* its task, when it is run, finds the stream ready (else it meets the       *)
(* assert(false) of request_seek_file, request_toggle_pause_resume and       *)
(* request_step_to_next_frame).                                              *)
RequestsAreServed == el = "run" /\ batch # <<>> => TaskAllowed
-----------------------------------------------------------------------------
(* Why the properties hold: the inductive invariant.                       *)

Reads == rt \in {"top", "seek", "body", "frame"}

(* which threads there are, and in which order they end                    *)
LifeInv ==
  /\ app \in {"new", "failed"} => el = "none" /\ rt = "none" /\ at = "none"
  /\ app = "starting" <=> el = "none" /\ rt # "none"
  /\ app = "stopped" => el = "done"
  /\ el \in {"close", "clear", "done"} => rt = "ended"
  /\ el \in {"clear", "done"} => at \in {"none", "ended"}
  /\ rt \in {"none", "open"} => at = "none"
  /\ rt # "none" /\ el \notin {"clear", "done"} => video_state
  /\ rt = "none" => ~video_state

(* what is open, and what the application has heard, when read_thread is at *)
(* a given point: until streams are open nothing, and from on_stream_ready  *)
(* on that first                                                           *)
HeardInv ==
  /\ rt \in {"none", "open", "prepare_error"} => show_mode = "none"
  /\ rt \in {"opened", "ready", "error"} \/ Reads => show_mode # "none"
  /\ show_mode = "none" => ~fed /\ ~stream_ready
  /\ show_mode = "none" /\ rt \notin {"clear", "ended"} => Len(heard) = 0 /\ latest = "none"
  /\ rt \in {"opened", "ready"} => Len(heard) = 0 /\ ~fed
  /\ rt \in {"opened", "ended"} => ~stream_ready
  /\ rt \in {"ready", "error"} \/ Reads => stream_ready
  /\ rt = "fail" /\ show_mode # "none" => stream_ready
  /\ cb /\ Reads => Len(heard) = 1
  /\ cb /\ rt = "error" => Len(heard) = 2 /\ heard[2] = "on_stream_error"
  /\ cb /\ rt \in {"clear", "ended"} => Len(heard) > 0
  /\ cb /\ show_mode # "none" /\ rt \notin {"opened", "ready"} =>
       Len(heard) > 0 /\ heard[1] = "on_stream_ready"

(* the tasks swapped out, then those in the list, are numbered on from the  *)
(* one run last, until the list is cleared                                 *)
PoolInv ==
  /\ app = "push" => pushed < MaxTasks
  /\ el # "run" => batch = <<>>
  /\ \A i \in 1 .. Len(batch) : batch[i] = ran + i
  /\ el # "done" => /\ \A i \in 1 .. Len(tasks) : tasks[i] = ran + Len(batch) + i
                    /\ pushed = ran + Len(batch) + Len(tasks)

(* The inductive invariant: the places of the threads, what has been told    *)
(* and what is in the task pool fit together.                                *)
IInv == TypeOK /\ LifeInv /\ HeardInv /\ PoolInv
=============================================================================
