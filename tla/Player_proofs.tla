---------------------------- MODULE Player_proofs ----------------------------
(***************************************************************************)
(* Proofs about Player, for any values of loop and any number of requests: *)
(* the inductive invariant, what it implies, and the refinement of Session. *)
(***************************************************************************)
EXTENDS Player, SequenceTheorems, TLAPS

USE DEF vars, params, pool, flags, reading, told, apart, beside, TypeOK, LifeInv,
        HeardInv, PoolInv, Reads, Milestones, Callbacks, Task, Announce, Tell,
        FromReading, Frames, EmptyPicture, Control

(* What the head and the rest of a list are, for the tasks swapped out.    *)
LEMMA Tails ==
  ASSUME NEW Elt, NEW s \in Seq(Elt), s # <<>>
  PROVE  /\ Tail(s) \in Seq(Elt) /\ Head(s) = s[1] /\ s[1] \in Elt
         /\ Len(s) \in Nat \ {0} /\ Len(Tail(s)) = Len(s) - 1
         /\ \A i \in 1 .. Len(Tail(s)) : Tail(s)[i] = s[i + 1]
BY SMT

(* At the start there is no thread, nothing is told and nothing pushed.     *)
LEMMA InitInv == Init => IInv
<1> SUFFICES ASSUME Init PROVE IInv
  OBVIOUS
<1>1. FlagsOK
  BY Zenon DEF Init, FlagsOK
<1>2. <<>> \in Seq(Task) /\ <<>> \in Seq(Milestones)
  BY EmptySeq
<1>3. TypeOK
  BY <1>1, <1>2, PlayerAssumption, SMT DEF Init
<1>4. LifeInv /\ HeardInv /\ PoolInv
  BY SMT DEF Init
<1> QED BY <1>3, <1>4 DEF IInv

(* A callback made at most once is one more of those heard.                *)
LEMMA HeardMore ==
  ASSUME TypeOK, NEW e \in Milestones, Announce(e)
  PROVE  /\ heard' \in Seq(Milestones) /\ latest' \in Callbacks \cup {"none"}
         /\ Len(heard) \in Nat
         /\ cb => /\ Len(heard') = Len(heard) + 1 /\ heard'[Len(heard) + 1] = e
                  /\ \A i \in 1 .. Len(heard) : heard'[i] = heard[i]
         /\ ~cb => heard' = heard
<1>1. heard \in Seq(Milestones)
  OBVIOUS
<1>2. /\ Append(heard, e) \in Seq(Milestones) /\ Len(heard) \in Nat
      /\ Len(Append(heard, e)) = Len(heard) + 1
      /\ \A i \in 1 .. Len(heard) : Append(heard, e)[i] = heard[i]
      /\ Append(heard, e)[Len(heard) + 1] = e
  BY <1>1, AppendProperties
<1>3. CASE cb
  BY <1>2, <1>3
<1>4. CASE ~cb
  BY <1>1, <1>2, <1>4
<1> QED BY <1>3, <1>4

(* A task taken from the batch is the next one.                            *)
LEMMA TaskTaken ==
  ASSUME IInv, NextTask
  PROVE  ran' = ran + 1 /\ ran' \in Task /\ batch' \in Seq(Task) /\ PoolInv'
<1> USE DEF IInv
<1>1. /\ tasks \in Seq(Task) /\ batch \in Seq(Task) /\ ran \in Nat
      /\ \A i \in 1 .. Len(batch) : batch[i] = ran + i
  BY PlayerAssumption, SMT
<1>2. /\ batch # <<>> /\ batch' = Tail(batch) /\ ran' = Head(batch)
      /\ el = "run" /\ UNCHANGED <<tasks, pushed, el, app>>
  BY DEF NextTask
<1>3. /\ Len(batch') = Len(batch) - 1 /\ ran' = batch[1] /\ Len(batch) \in Nat \ {0}
      /\ batch[1] \in Task /\ batch' \in Seq(Task)
      /\ \A i \in 1 .. Len(batch') : batch'[i] = batch[i + 1]
  <2>1. batch \in Seq(Task) /\ batch # <<>>
    BY <1>1, <1>2
  <2>2. /\ Tail(batch) \in Seq(Task) /\ Head(batch) = batch[1] /\ batch[1] \in Task
        /\ Len(batch) \in Nat \ {0} /\ Len(Tail(batch)) = Len(batch) - 1
        /\ \A i \in 1 .. Len(Tail(batch)) : Tail(batch)[i] = batch[i + 1]
    <3> HIDE DEF Task
    <3> QED BY <2>1, Tails
  <2> QED BY <1>2, <2>2
<1>4. ran' = ran + 1
  BY <1>1, <1>3, SMT
<1>5. ran' \in Task
  BY <1>3
<1>6. ran' + Len(batch') = ran + Len(batch)
  BY <1>1, <1>3, <1>4, SMT
<1>7. \A i \in 1 .. Len(batch') : batch'[i] = ran' + i
  BY <1>1, <1>3, <1>4, SMT
<1>8. Len(tasks) \in Nat
  BY <1>1, LenProperties
<1>9. PoolInv'
  BY <1>1, <1>2, <1>6, <1>7, <1>8, SMT
<1> QED BY <1>3, <1>4, <1>5, <1>9

(* A task pushed is numbered on from the last in the list.                 *)
LEMMA TaskPushed ==
  ASSUME IInv, PushAsyncTask
  PROVE  PoolInv'
<1> USE DEF IInv
<1>1. tasks \in Seq(Nat) /\ batch \in Seq(Nat) /\ pushed \in Nat /\ ran \in Nat
  BY PlayerAssumption, SMT
<1>2. /\ tasks' = Append(tasks, pushed + 1) /\ pushed' = pushed + 1
      /\ app' = "use" /\ UNCHANGED <<el, batch, ran>>
  BY DEF PushAsyncTask
<1>3. /\ Len(tasks) \in Nat /\ Len(batch) \in Nat
      /\ Len(tasks') = Len(tasks) + 1 /\ tasks'[Len(tasks) + 1] = pushed + 1
      /\ \A i \in 1 .. Len(tasks) : tasks'[i] = tasks[i]
  BY <1>1, <1>2, AppendProperties, LenProperties, SMT
<1> QED BY <1>1, <1>2, <1>3, SMTT(30)

(* Steps of the application's thread.                                       *)
LEMMA AppStep ==
  ASSUME IInv, Application
  PROVE  IInv'
<1> USE DEF IInv
<1>1. CASE RunPlayer
  BY <1>1, PlayerAssumption, SMT DEF RunPlayer, FlagsOK
<1>2. CASE RunFails
  BY <1>2, PlayerAssumption, SMT DEF RunFails, FlagsOK
<1>3. CASE StartLoop
  BY <1>3, PlayerAssumption, SMT DEF StartLoop, FlagsOK
<1>4. CASE AskReady
  BY <1>4, PlayerAssumption, SMT DEF AskReady, FlagsOK
<1>5. CASE PushAsyncTask
  <2>1. TypeOK'
    BY <1>5, PlayerAssumption, SMT DEF PushAsyncTask, FlagsOK
  <2>2. LifeInv' /\ HeardInv'
    BY <1>5, SMT DEF PushAsyncTask
  <2> QED BY <1>5, <2>1, <2>2, TaskPushed
<1>6. CASE DropEvents
  <2>1. FlagsOK'
    BY <1>6, ZenonT(30) DEF DropEvents, FlagsOK
  <2>2. TypeOK'
    BY <1>6, <2>1, SMT DEF DropEvents
  <2>3. LifeInv' /\ HeardInv' /\ PoolInv'
    BY <1>6, SMT DEF DropEvents, FlagsOK
  <2> QED BY <2>2, <2>3
<1>7. CASE StopPlayer
  BY <1>7, PlayerAssumption, SMT DEF StopPlayer, FlagsOK
<1>8. CASE JoinLoop
  BY <1>8, PlayerAssumption, SMT DEF JoinLoop, FlagsOK
<1> QED BY <1>1, <1>2, <1>3, <1>4, <1>5, <1>6, <1>7, <1>8 DEF Application

(* Steps of the event loop.                                                 *)
LEMMA LoopStep ==
  ASSUME IInv, EventLoop \/ WindowQuits
  PROVE  IInv'
<1> USE DEF IInv
<1>1. CASE InitVideo
  BY <1>1, PlayerAssumption, SMT DEF InitVideo, FlagsOK
<1>2. CASE InitFails
  BY <1>2, PlayerAssumption, SMT DEF InitFails, FlagsOK
<1>3. CASE LoopEnds
  BY <1>3, PlayerAssumption, SMT DEF LoopEnds, FlagsOK
<1>4. CASE RunAllTask
  BY <1>4, PlayerAssumption, SMT DEF RunAllTask, FlagsOK
<1>5. CASE TaskSeeks
  <2>1. NextTask
    BY <1>5 DEF TaskSeeks
  <2>2. FlagsOK'
    BY <1>5, ZenonT(30) DEF TaskSeeks, NextTask, FlagsOK
  <2>3. TypeOK'
    BY <1>5, <2>1, <2>2, TaskTaken, SMT DEF TaskSeeks, NextTask
  <2>4. LifeInv' /\ HeardInv'
    BY <1>5, SMT DEF TaskSeeks, NextTask
  <2> QED BY <2>1, <2>3, <2>4, TaskTaken
<1>6. CASE TaskControls
  <2>1. NextTask
    BY <1>6 DEF TaskControls
  <2>2. FlagsOK'
    BY <1>6, ZenonT(30) DEF TaskControls, NextTask, FlagsOK
  <2>3. TypeOK'
    BY <1>6, <2>1, <2>2, TaskTaken, SMTT(30) DEF TaskControls, NextTask
  <2>4. LifeInv' /\ HeardInv'
    BY <1>6, SMTT(30) DEF TaskControls, NextTask, TaskAllowed
  <2> QED BY <2>1, <2>3, <2>4, TaskTaken
<1>7. CASE TaskAsserts
  <2>1. NextTask
    BY <1>7 DEF TaskAsserts
  <2>2. FlagsOK'
    BY <1>7, ZenonT(30) DEF TaskAsserts, NextTask, FlagsOK
  <2>3. TypeOK'
    BY <1>7, <2>1, <2>2, TaskTaken, SMT DEF TaskAsserts, NextTask
  <2>4. LifeInv' /\ HeardInv'
    BY <1>7, SMT DEF TaskAsserts, NextTask
  <2> QED BY <2>1, <2>3, <2>4, TaskTaken
<1>8. CASE TasksDone
  BY <1>8, PlayerAssumption, SMT DEF TasksDone, FlagsOK
<1>9. CASE WaitReturns
  BY <1>9, PlayerAssumption, SMT DEF WaitReturns, FlagsOK
<1>10. CASE TellReader
  BY <1>10, PlayerAssumption, SMT DEF TellReader, FlagsOK
<1>11. CASE JoinReader
  BY <1>11, PlayerAssumption, SMT DEF JoinReader, FlagsOK
<1>12. CASE CloseComponents
  <2>1. FlagsOK'
    BY <1>12, ZenonT(30) DEF CloseComponents, FlagsOK
  <2>2. TypeOK'
    BY <1>12, <2>1, SMT DEF CloseComponents
  <2>3. LifeInv' /\ HeardInv' /\ PoolInv'
    BY <1>12, SMT DEF CloseComponents, FlagsOK
  <2> QED BY <2>2, <2>3
<1>13. CASE ClearAllTask
  <2>1. FlagsOK'
    BY <1>13, ZenonT(30) DEF ClearAllTask, FlagsOK
  <2>2. tasks' \in Seq(Task)
    <3>1. tasks \in Seq(Task) /\ <<>> \in Seq(Task)
      BY EmptySeq
    <3> QED BY <1>13, <3>1, Zenon DEF ClearAllTask
  <2>3. TypeOK'
    BY <1>13, <2>1, <2>2, SMT DEF ClearAllTask
  <2>4. LifeInv' /\ HeardInv' /\ PoolInv'
    BY <1>13, SMT DEF ClearAllTask, FlagsOK
  <2> QED BY <2>3, <2>4
<1>14. CASE ShowPicture
  BY <1>14, PlayerAssumption, SMT DEF ShowPicture, FlagsOK
<1>15. CASE WaitGoesOn
  BY <1>15, PlayerAssumption, SMT DEF WaitGoesOn, FlagsOK
<1>16. CASE WindowQuits
  BY <1>16, PlayerAssumption, SMT DEF WindowQuits, FlagsOK
<1> QED BY <1>1, <1>2, <1>3, <1>4, <1>5, <1>6, <1>7, <1>8, <1>9, <1>10, <1>11, <1>12,
       <1>13, <1>14, <1>15, <1>16, ZenonT(40) DEF EventLoop

(* Steps of read_thread.                                                    *)
LEMMA ReadStep ==
  ASSUME IInv, Opening \/ Reading
  PROVE  IInv'
<1> USE DEF IInv
<1>1. CASE OpenFails
  BY <1>1, PlayerAssumption, SMT DEF OpenFails, FlagsOK
<1>2. CASE OpenStreams
  BY <1>2, PlayerAssumption, SMT DEF OpenStreams, FlagsOK
<1>3. CASE SetReady
  BY <1>3, PlayerAssumption, SMT DEF SetReady, FlagsOK
<1>4. CASE TellReady
  <2>1. TypeOK /\ Announce("on_stream_ready") /\ "on_stream_ready" \in Milestones
    BY <1>4 DEF TellReady
  <2>2. FlagsOK'
    BY <1>4, ZenonT(30) DEF TellReady, FlagsOK
  <2>3. TypeOK'
    BY <1>4, <2>1, <2>2, HeardMore, SMT DEF TellReady
  <2>4. LifeInv' /\ PoolInv'
    BY <1>4, SMT DEF TellReady
  <2>5. HeardInv'
    BY <1>4, <2>1, HeardMore, SMT DEF TellReady, FlagsOK
  <2> QED BY <2>3, <2>4, <2>5
<1>5. CASE ReadTop
  <2>1. FlagsOK'
    BY <1>5, ZenonT(30) DEF ReadTop, FlagsOK
  <2>2. TypeOK'
    BY <1>5, <2>1, SMT DEF ReadTop
  <2>3. LifeInv' /\ HeardInv' /\ PoolInv'
    BY <1>5, SMT DEF ReadTop, FlagsOK
  <2> QED BY <2>2, <2>3
<1>6. CASE ReadSeeks
  <2>1. FlagsOK'
    BY <1>6, ZenonT(30) DEF ReadSeeks, FlagsOK
  <2>2. TypeOK'
    BY <1>6, <2>1, SMT DEF ReadSeeks
  <2>3. LifeInv' /\ HeardInv' /\ PoolInv'
    BY <1>6, SMT DEF ReadSeeks, FlagsOK
  <2> QED BY <2>2, <2>3
<1>7. CASE PlaysOn
  <2>1. FlagsOK'
    BY <1>7, ZenonT(30) DEF PlaysOn, FlagsOK
  <2>2. TypeOK'
    BY <1>7, <2>1, SMT DEF PlaysOn
  <2>3. LifeInv' /\ HeardInv' /\ PoolInv'
    BY <1>7, SMT DEF PlaysOn, FlagsOK
  <2> QED BY <2>2, <2>3
<1>8. CASE Restart
  BY <1>8, PlayerAssumption, SMT DEF Restart, FlagsOK
<1>9. CASE ExitAtEnd
  <2>1. TypeOK /\ Announce("on_player_auto_exit") /\ "on_player_auto_exit" \in Milestones
    BY <1>9 DEF ExitAtEnd
  <2>2. FlagsOK'
    BY <1>9, ZenonT(30) DEF ExitAtEnd, FlagsOK
  <2>3. TypeOK'
    BY <1>9, <2>1, <2>2, HeardMore, SMT DEF ExitAtEnd
  <2>4. LifeInv' /\ PoolInv'
    BY <1>9, SMT DEF ExitAtEnd
  <2>5. HeardInv'
    BY <1>9, <2>1, HeardMore, SMT DEF ExitAtEnd, FlagsOK
  <2> QED BY <2>3, <2>4, <2>5
<1>10. CASE StayAtEnd
  BY <1>10, PlayerAssumption, SMT DEF StayAtEnd, FlagsOK
<1>11. CASE ReadFrame
  BY <1>11, PlayerAssumption, SMT DEF ReadFrame, FlagsOK
<1>12. CASE ReadBreaks
  <2>1. FlagsOK'
    BY <1>12, ZenonT(30) DEF ReadBreaks, FlagsOK
  <2>2. TypeOK'
    BY <1>12, <2>1, SMT DEF ReadBreaks
  <2>3. LifeInv' /\ HeardInv' /\ PoolInv'
    BY <1>12, SMT DEF ReadBreaks, FlagsOK
  <2> QED BY <2>2, <2>3
<1>13. CASE ReadError
  <2>1. TypeOK /\ Announce("on_stream_error") /\ "on_stream_error" \in Milestones
    BY <1>13 DEF ReadError
  <2>2. FlagsOK'
    BY <1>13, ZenonT(30) DEF ReadError, FlagsOK
  <2>3. TypeOK'
    BY <1>13, <2>1, <2>2, HeardMore, SMT DEF ReadError
  <2>4. LifeInv' /\ PoolInv'
    BY <1>13, SMT DEF ReadError
  <2>5. HeardInv'
    <3>1. stream_ready' /\ rt' = "error" /\ cb' = cb
      BY <1>13, SMT DEF ReadError
    <3>2. ASSUME cb
          PROVE  Len(heard') = 2 /\ heard'[2] = "on_stream_error" /\ heard'[1] = "on_stream_ready"
      <4>1. Len(heard) = 1 /\ heard[1] = "on_stream_ready" /\ 1 \in 1 .. Len(heard)
        BY <1>13, <3>2, SMT DEF ReadError
      <4> QED BY <2>1, <3>2, <4>1, HeardMore, SMT
    <3>3. show_mode' = show_mode /\ show_mode # "none" /\ heard' \in Seq(Milestones)
      BY <1>13, <2>3, SMT DEF ReadError
    <3> QED BY <3>1, <3>2, <3>3, SMTT(30)
  <2> QED BY <2>3, <2>4, <2>5
<1>14. CASE ExitOnError
  <2>1. TypeOK /\ Announce("on_player_auto_exit") /\ "on_player_auto_exit" \in Milestones
    BY <1>14 DEF ExitOnError
  <2>2. FlagsOK'
    BY <1>14, ZenonT(30) DEF ExitOnError, FlagsOK
  <2>3. TypeOK'
    BY <1>14, <2>1, <2>2, HeardMore, SMT DEF ExitOnError
  <2>4. LifeInv' /\ PoolInv'
    BY <1>14, SMT DEF ExitOnError
  <2>5. HeardInv'
    BY <1>14, <2>1, HeardMore, SMT DEF ExitOnError, FlagsOK
  <2> QED BY <2>3, <2>4, <2>5
<1>15. CASE Fail
  BY <1>15, PlayerAssumption, SMT DEF Fail, FlagsOK
<1>16. CASE TellPrepareError
  <2>1. TypeOK /\ Announce("on_stream_error") /\ "on_stream_error" \in Milestones
    BY <1>16 DEF TellPrepareError
  <2>2. FlagsOK'
    BY <1>16, ZenonT(30) DEF TellPrepareError, FlagsOK
  <2>3. TypeOK'
    BY <1>16, <2>1, <2>2, HeardMore, SMT DEF TellPrepareError
  <2>4. LifeInv' /\ PoolInv'
    BY <1>16, SMT DEF TellPrepareError
  <2>5. HeardInv'
    BY <1>16, <2>1, HeardMore, SMT DEF TellPrepareError, FlagsOK
  <2> QED BY <2>3, <2>4, <2>5
<1>17. CASE ClearReady
  <2>1. FlagsOK'
    BY <1>17, ZenonT(30) DEF ClearReady, FlagsOK
  <2>2. TypeOK'
    BY <1>17, <2>1, SMT DEF ClearReady
  <2>3. LifeInv' /\ HeardInv' /\ PoolInv'
    BY <1>17, SMT DEF ClearReady, FlagsOK
  <2> QED BY <2>2, <2>3
<1> QED BY <1>1, <1>2, <1>3, <1>4, <1>5, <1>6, <1>7, <1>8, <1>9, <1>10, <1>11, <1>12,
       <1>13, <1>14, <1>15, <1>16, <1>17, ZenonT(40) DEF Opening, Reading

(* Steps of the audio thread and of the video decoder.                      *)
LEMMA OtherStep ==
  ASSUME IInv, AudioThread \/ FilterFails
  PROVE  IInv'
<1> USE DEF IInv
<1>1. CASE AudioLoop
  BY <1>1, PlayerAssumption, SMT DEF AudioLoop, FlagsOK
<1>2. CASE AudioPops
  BY <1>2, PlayerAssumption, SMT DEF AudioPops, FlagsOK
<1>3. CASE FilterFails
  BY <1>3, PlayerAssumption, SMT DEF FilterFails, FlagsOK
<1> QED BY <1>1, <1>2, <1>3 DEF AudioThread

(* The invariant is inductive.                                             *)
LEMMA Inductive == IInv /\ [Next]_vars => IInv'
<1> SUFFICES ASSUME IInv, [Next]_vars PROVE IInv'
  OBVIOUS
<1>1. CASE UNCHANGED vars
  BY <1>1, SMT DEF IInv, FlagsOK
<1>2. CASE Next
  BY <1>2, AppStep, LoopStep, ReadStep, OtherStep DEF Next
<1> QED BY <1>1, <1>2

(* The places of the threads, what was told and the task pool fit together *)
(* at every moment (run_player, event_loop, read_thread, task_instance).   *)
THEOREM Invariance == Spec => []IInv
BY InitInv, Inductive, PTL DEF Spec

(* However read_thread ends, the application has been told whether the      *)
(* stream became ready, and stream_ready is false (read_thread, fail).     *)
THEOREM OutcomeTold == Spec => []ToldOfOutcome
<1>1. IInv => ToldOfOutcome
  BY SMT DEF IInv, ToldOfOutcome
<1> QED BY <1>1, Invariance, PTL

(* The event loop runs the tasks in the order they were pushed, each once,  *)
(* for any number of them (PushAsyncTask, RunAllTask).                     *)
THEOREM InOrder == Spec => TasksInOrder
<1>1. IInv /\ [Next]_vars => [ran' # ran => ran' = ran + 1]_vars
  <2> SUFFICES ASSUME IInv, Next, ran' # ran PROVE ran' = ran + 1
    OBVIOUS
  <2>1. CASE NextTask
    BY <2>1, TaskTaken
  <2>2. CASE ~NextTask
    <3>1. Application \/ Opening \/ Reading \/ AudioThread => UNCHANGED ran
      BY DEF Application, Opening, Reading, AudioThread, RunPlayer, RunFails, StartLoop,
       AskReady, PushAsyncTask, DropEvents, StopPlayer, JoinLoop, OpenFails,
       OpenStreams, SetReady, TellReady, ReadTop, ReadSeeks, PlaysOn, Restart,
       ExitAtEnd, StayAtEnd, ReadFrame, ReadBreaks, ReadError, ExitOnError, Fail,
       TellPrepareError, ClearReady, AudioLoop, AudioPops
    <3>2. EventLoop \/ WindowQuits \/ FilterFails => UNCHANGED ran
      BY <2>2 DEF EventLoop, InitVideo, InitFails, LoopEnds, RunAllTask, TaskSeeks, TaskControls,
       TaskAsserts, TasksDone, WaitReturns, WaitGoesOn, ShowPicture, TellReader, JoinReader,
       CloseComponents, ClearAllTask, WindowQuits, FilterFails
    <3> QED BY <3>1, <3>2 DEF Next
  <2> QED BY <2>1, <2>2
<1> QED BY <1>1, Invariance, PTL DEF Spec, TasksInOrder

(* Steps that make no callback are steps of the session, or none of its concern. *)
LEMMA Silent ==
  ASSUME IInv, UNCHANGED told,
         Application \/ EventLoop \/ WindowQuits \/ Opening \/ Reading \/ AudioThread \/ FilterFails
  PROVE  [S!SessionNext]_S!svars
<1>1. CASE Application
  BY <1>1, SMT DEF Application, RunPlayer, RunFails, StartLoop, AskReady, PushAsyncTask,
       DropEvents, StopPlayer, JoinLoop,
     Phase, S!svars, S!SessionNext, S!Run, S!Over, IInv
<1>2. CASE ~Application
  <2>1. UNCHANGED app
    BY <1>2 DEF InitVideo, InitFails, LoopEnds, RunAllTask, TaskSeeks, TaskControls,
       TaskAsserts, TasksDone, WaitReturns, WaitGoesOn, ShowPicture, TellReader,
       JoinReader, CloseComponents, ClearAllTask, EventLoop, WindowQuits, NextTask, Opening, Reading, AudioThread,
       OpenFails, OpenStreams, SetReady, TellReady, ReadTop, ReadSeeks, PlaysOn,
       Restart, ExitAtEnd, StayAtEnd, ReadFrame, ReadBreaks, ReadError, ExitOnError,
       Fail, TellPrepareError, ClearReady, AudioLoop, AudioPops, FilterFails
  <2> QED BY <2>1 DEF Phase, S!svars
<1> QED BY <1>1, <1>2

(* Callbacks made again and again find the session open: ready if they      *)
(* carry data of the file or tell of reading it, at least not failed if they *)
(* are an empty picture or about a request.                                *)
LEMMA Told ==
  ASSUME IInv, UNCHANGED <<app, heard>>,
         \/ cb /\ Reads /\ latest' = FromReading
         \/ cb /\ fed /\ el \notin {"clear", "done"} /\ latest' = Frames
         \/ cb /\ el = "refresh" /\ show_mode = "rdft" /\ latest' = EmptyPicture
         \/ cb /\ el = "run" /\ stream_ready /\ latest' = Control
  PROVE  [S!SessionNext]_S!svars
<1>1. Phase = "open" /\ Phase' = "open"
  BY SMT DEF IInv, Phase
<1>2. cb /\ show_mode # "none" => ~S!Failed
  BY SMT DEF IInv, S!Failed
<1>3. \/ S!OnlyReady /\ latest' = FromReading
      \/ S!IsReady /\ latest' = Frames
      \/ ~S!Failed /\ latest' \in {EmptyPicture, Control}
  BY <1>2, SMT DEF IInv, S!OnlyReady, S!IsReady
<1> QED BY <1>1, <1>3 DEF S!SessionNext, S!Callback

(* A callback made once comes where the session has it.                     *)
LEMMA Announced ==
  ASSUME IInv, UNCHANGED app,
         \/ rt = "ready" /\ Announce("on_stream_ready")
         \/ rt = "prepare_error" /\ Announce("on_stream_error")
         \/ rt = "frame" /\ Announce("on_stream_error")
         \/ rt \in {"body", "error"} /\ Announce("on_player_auto_exit")
  PROVE  [S!SessionNext]_S!svars
<1>1. CASE ~cb
  BY <1>1 DEF Phase, S!svars
<1>2. CASE cb
  <2>1. Phase = "open" /\ Phase' = "open"
    BY SMT DEF IInv, Phase
  <2>2. CASE rt = "ready" /\ Announce("on_stream_ready")
    <3>1. Len(heard) = 0
      BY <2>2, SMT DEF IInv
    <3> QED BY <1>2, <2>1, <2>2, <3>1 DEF S!SessionNext, S!Ready, S!Announce
  <2>3. CASE rt = "prepare_error" /\ Announce("on_stream_error")
    <3>1. Len(heard) = 0 /\ latest = "none"
      BY <2>3, SMT DEF IInv
    <3> QED BY <1>2, <2>1, <2>3, <3>1 DEF S!SessionNext, S!PrepareError, S!Announce
  <2>4. CASE rt = "frame" /\ Announce("on_stream_error")
    <3>1. S!OnlyReady
      BY <1>2, <2>4, SMT DEF IInv, S!OnlyReady
    <3> QED BY <1>2, <2>1, <2>4, <3>1 DEF S!SessionNext, S!ReadError, S!Announce
  <2>5. CASE rt \in {"body", "error"} /\ Announce("on_player_auto_exit")
    <3>1. S!IsReady /\ \A i \in 1 .. Len(heard) : heard[i] # "on_player_auto_exit"
      <4>1. Len(heard) > 0 /\ heard[1] = "on_stream_ready"
        BY <1>2, <2>5, SMT DEF IInv
      <4>2. Len(heard) = 1 \/ (Len(heard) = 2 /\ heard[2] = "on_stream_error")
        BY <1>2, <2>5, SMT DEF IInv
      <4> QED BY <4>1, <4>2, SMT DEF S!IsReady
    <3> QED BY <1>2, <2>1, <2>5, <3>1 DEF S!SessionNext, S!AutoExit, S!Announce
  <2> QED BY <2>2, <2>3, <2>4, <2>5
<1> QED BY <1>1, <1>2

(* Every step of the player is one of the session, or none of its concern.  *)
LEMMA SessionStep == IInv /\ [Next]_vars => [S!SessionNext]_S!svars
<1> SUFFICES ASSUME IInv, [Next]_vars PROVE [S!SessionNext]_S!svars
  OBVIOUS
<1>1. CASE UNCHANGED told
  <2>1. CASE UNCHANGED vars
    BY <2>1 DEF Phase, S!svars
  <2> QED BY <1>1, <2>1, Silent DEF Next
<1>2. CASE ~UNCHANGED told
  <2>1. CASE TaskControls
    BY <1>2, <2>1, Told DEF TaskControls, NextTask, TaskAllowed
  <2>2. CASE ShowPicture
    BY <1>2, <2>2, Told, SMT DEF ShowPicture
  <2>3. CASE Restart \/ StayAtEnd
    BY <1>2, <2>3, Told, SMT DEF Restart, StayAtEnd
  <2>4. CASE AudioPops
    <3>1. el \notin {"clear", "done"}
      BY <2>4, SMT DEF AudioPops, IInv
    <3> QED BY <1>2, <2>4, <3>1, Told, SMT DEF AudioPops
  <2>5. CASE TellReady \/ TellPrepareError \/ ReadError \/ ExitAtEnd \/ ExitOnError
    BY <2>5, Announced DEF TellReady, TellPrepareError, ReadError, ExitAtEnd, ExitOnError
  <2>6. TaskControls \/ ShowPicture \/ Restart \/ StayAtEnd \/ AudioPops \/ TellReady
        \/ TellPrepareError \/ ReadError \/ ExitAtEnd \/ ExitOnError
    BY <1>2 DEF Next, Application, EventLoop, WindowQuits, Opening, Reading, AudioThread, NextTask,
       RunPlayer, RunFails, StartLoop, AskReady, PushAsyncTask, DropEvents, StopPlayer,
       JoinLoop, InitVideo, InitFails, LoopEnds, RunAllTask, TaskSeeks, TaskAsserts,
       TasksDone, WaitReturns, WaitGoesOn, TellReader, JoinReader, CloseComponents,
       ClearAllTask, OpenFails, OpenStreams, SetReady, ReadTop, ReadSeeks, PlaysOn,
       StayAtEnd, ReadFrame, ReadBreaks, Fail, ClearReady, AudioLoop, FilterFails
  <2> QED BY <2>1, <2>2, <2>3, <2>4, <2>5, <2>6
<1> QED BY <1>1, <1>2

(* The callbacks come in the order Session allows, whichever thread makes   *)
(* them, for any number of loops and requests.                             *)
THEOREM Refinement == Spec => ImplementsSession
<1>1. Init => S!SessionInit
  BY DEF Init, S!SessionInit, Phase
<1> QED BY <1>1, Invariance, SessionStep, PTL DEF Spec, ImplementsSession, S!SessionSpec

=============================================================================
