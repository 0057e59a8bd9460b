---------------------- MODULE CameraSubscriber_proofs ----------------------
(***************************************************************************)
(* Proofs about LatestFrame, for bursts of any length, and about the       *)
(* subscriber that feeds it, for any number of tracks and readers.         *)
(***************************************************************************)
EXTENDS CameraSubscriber, TLAPS

(* The processor. *)

(* A task carries the number of an accepted frame, and the processor's     *)
(* reference points to an accepted frame's task.                           *)
TaskInv == \A t \in Frames : pc[t] # "none" => t <= submitted

(* What stop() and aclose() leave behind. *)
StopInv ==
  /\ closer # "absent" => closed
  /\ NothingKeptAfterStop
  /\ ClosedIsIdle

Inv == TypeOK /\ OneWorker /\ TaskInv /\ NewestIsKept /\ StopInv

-----------------------------------------------------------------------------
LEMMA InitInv == Init => Inv
<1> SUFFICES ASSUME Init PROVE Inv
  OBVIOUS
<1>1. TypeOK
  <2>1. 0 \in 0..MaxFrames
    BY MaxFramesAssumption
  <2>2. pc \in [Frames -> Alive \cup Ended]
    BY DEF Init, Ended
  <2> QED BY <2>1, <2>2 DEF Init, TypeOK
<1>2. OneWorker /\ TaskInv
  BY DEF Init, OneWorker, TaskInv, Alive, Awaiting
<1>3. NewestIsKept /\ StopInv
  BY DEF Init, NewestIsKept, StopInv, NothingKeptAfterStop, ClosedIsIdle
<1> QED BY <1>1, <1>2, <1>3 DEF Inv

LEMMA SubmitInv == ASSUME Inv, Submit PROVE Inv'
<1> USE MaxFramesAssumption DEF Inv, TypeOK, Submit, Put, Frames
<1>1. submitted + 1 \in Frames
  OBVIOUS
<1>2. CASE WorkerAlive /\ UNCHANGED <<worker, pc>>
  <2>1. TypeOK'
    BY <1>1, <1>2
  <2>2. OneWorker' /\ TaskInv'
    BY <1>2 DEF OneWorker, TaskInv
  <2>3. NewestIsKept' /\ StopInv'
    BY <1>2 DEF NewestIsKept, StopInv, NothingKeptAfterStop, ClosedIsIdle
  <2> QED BY <2>1, <2>2, <2>3
<1>3. CASE /\ ~WorkerAlive /\ worker' = submitted + 1
           /\ pc' = [pc EXCEPT ![submitted + 1] = "scheduled"]
  <2>1. TypeOK'
    BY <1>1, <1>3 DEF Alive
  <2>2. \A t \in Frames : pc[t] \notin Alive
    BY <1>3 DEF OneWorker, WorkerAlive
  <2>3. OneWorker' /\ TaskInv'
    BY <1>1, <1>3, <2>2 DEF OneWorker, TaskInv
  <2>4. NewestIsKept' /\ StopInv'
    BY <1>3 DEF NewestIsKept, StopInv, NothingKeptAfterStop, ClosedIsIdle
  <2> QED BY <2>1, <2>3, <2>4
<1> QED BY <1>2, <1>3 DEF EnsureWorker

(* A task that moves on or ends. *)
LEMMA TaskStep ==
  ASSUME Inv, TypeOK', NEW t \in Frames, pc[t] \in Alive,
         NEW where, pc' = [pc EXCEPT ![t] = where], where # "none",
         worker' = worker \/ (worker' = 0 /\ where \notin Alive),
         UNCHANGED <<submitted, closed>>
  PROVE  OneWorker' /\ TaskInv' /\ (ClosedIsIdle /\ closer' = closer => ClosedIsIdle')
<1> USE DEF Inv, TypeOK
<1>1. worker = t
  BY DEF OneWorker
<1>2. OneWorker'
  BY <1>1 DEF OneWorker
<1>3. TaskInv'
  BY DEF TaskInv, Alive, Awaiting
<1>4. ClosedIsIdle /\ closer' = closer => ClosedIsIdle'
  BY DEF ClosedIsIdle
<1> QED BY <1>2, <1>3, <1>4

LEMMA EndInv ==
  ASSUME Inv, NEW t \in Frames, pc[t] \in Alive, NEW how \in Ended \ {"none"},
         pc' = [pc EXCEPT ![t] = how], worker' \in {worker, 0},
         closer' = closer \/ (closer = "joining" /\ closer' = "failed"),
         UNCHANGED <<submitted, slot, taken, cancelling, closed, retained>>
  PROVE  Inv'
<1> USE DEF Inv, TypeOK
<1>1. TypeOK'
  BY MaxFramesAssumption DEF Frames
<1>2. how \notin Alive /\ how # "none"
  BY DEF Ended, Alive, Awaiting
<1>3. OneWorker' /\ TaskInv' /\ ClosedIsIdle'
  BY <1>1, <1>2, TaskStep DEF StopInv, ClosedIsIdle
<1>4. NewestIsKept' /\ NothingKeptAfterStop' /\ (closer' # "absent" => closed')
  BY DEF NewestIsKept, StopInv, NothingKeptAfterStop
<1> QED BY <1>1, <1>3, <1>4 DEF StopInv

LEMMA LoopInv ==
  ASSUME Inv, NEW t \in Frames, pc[t] \in Alive, Loop(t),
         UNCHANGED <<submitted, cancelling, closed, closer>>
  PROVE  Inv'
<1>1. CASE End(t, "ended") /\ UNCHANGED retained
  BY <1>1, EndInv DEF End, Ended
<1>2. CASE /\ ~closed /\ slot # 0 /\ taken' = slot /\ slot' = 0
           /\ pc' = [pc EXCEPT ![t] = "inferring"]
           /\ retained' = retained \ {"error"} /\ UNCHANGED worker
  <2> USE DEF Inv, TypeOK
  <2>1. TypeOK'
    BY <1>2, MaxFramesAssumption DEF Alive, Awaiting
  <2>2. OneWorker' /\ TaskInv' /\ ClosedIsIdle'
    BY <1>2, <2>1, TaskStep DEF StopInv
  <2>3. NewestIsKept' /\ NothingKeptAfterStop' /\ (closer' # "absent" => closed')
    BY <1>2 DEF NewestIsKept, StopInv, NothingKeptAfterStop
  <2> QED BY <2>1, <2>2, <2>3 DEF StopInv
<1> QED BY <1>1, <1>2 DEF Loop

LEMMA SettleInv ==
  ASSUME Inv, NEW t \in Frames, pc[t] \in Alive,
         NEW where \in Awaiting, NEW kind \in {"frame", "error"},
         Settle(t, where, kind),
         UNCHANGED <<submitted, cancelling, closed, closer>>
  PROVE  Inv'
<1>1. CASE closed /\ End(t, "ended") /\ UNCHANGED retained
  BY <1>1, EndInv DEF End, Ended
<1>2. CASE ~closed /\ Call(t, where, kind)
  <2> USE DEF Inv, TypeOK, Call
  <2>1. TypeOK'
    BY <1>2 DEF Alive, Awaiting
  <2>2. OneWorker' /\ TaskInv' /\ ClosedIsIdle'
    BY <1>2, <2>1, TaskStep DEF StopInv, Awaiting
  <2>3. NewestIsKept' /\ NothingKeptAfterStop' /\ (closer' # "absent" => closed')
    BY <1>2 DEF NewestIsKept, StopInv, NothingKeptAfterStop
  <2> QED BY <2>1, <2>2, <2>3 DEF StopInv
<1> QED BY <1>1, <1>2 DEF Settle

LEMMA DrainInv == ASSUME Inv, NEW t \in Frames, Drain(t) PROVE Inv'
<1>1. CASE Start(t)
  BY <1>1, LoopInv DEF Start, Alive
<1>2. CASE Infers(t)
  BY <1>2, SettleInv DEF Infers, Alive, Awaiting
<1>3. CASE Raises(t)
  BY <1>3, SettleInv DEF Raises, Alive, Awaiting
<1>4. CASE Sinks(t)
  BY <1>4, LoopInv DEF Sinks, Alive, Awaiting
<1>5. CASE Crashes(t)
  BY <1>5, EndInv DEF Crashes, End, Alive, Awaiting, Ended
<1>6. CASE Cancelled(t)
  BY <1>6, EndInv DEF Cancelled, End, Alive, Awaiting, Ended
<1> QED BY <1>1, <1>2, <1>3, <1>4, <1>5, <1>6 DEF Drain

LEMMA HaltInv ==
  ASSUME Inv, NEW cancel \in BOOLEAN, Halt(cancel),
         closer' \in {closer, "joining"}
  PROVE  Inv'
<1> USE DEF Inv, TypeOK, Halt
<1>1. TypeOK'
  <2>1. cancelling' \subseteq Frames
    BY DEF WorkerAlive
  <2>2. slot' \in 0..MaxFrames
    BY MaxFramesAssumption
  <2> QED BY <2>1, <2>2
<1>2. OneWorker' /\ TaskInv'
  BY DEF OneWorker, TaskInv
<1>3. NewestIsKept' /\ StopInv'
  BY DEF NewestIsKept, StopInv, NothingKeptAfterStop, ClosedIsIdle
<1> QED BY <1>1, <1>2, <1>3

LEMMA NextInv == Inv /\ [Next]_vars => Inv'
<1> SUFFICES ASSUME Inv, [Next]_vars PROVE Inv'
  OBVIOUS
<1>1. CASE Joined
  <2>1. \A t \in Frames : pc[t] \notin Alive
    BY <1>1 DEF Joined, WorkerAlive, Inv, OneWorker
  <2> QED BY <1>1, <2>1
       DEF Joined, Inv, TypeOK, OneWorker, TaskInv, NewestIsKept, StopInv,
           NothingKeptAfterStop, ClosedIsIdle
<1>2. CASE GivesUp
  BY <1>2
  DEF GivesUp, Inv, TypeOK, OneWorker, TaskInv, NewestIsKept, StopInv,
      NothingKeptAfterStop, ClosedIsIdle
<1>3. ASSUME NEW cancel \in BOOLEAN, Stop(cancel) \/ Aclose(cancel) PROVE Inv'
  BY <1>3, HaltInv DEF Stop, Aclose
<1>4. CASE UNCHANGED vars
  BY <1>4
  DEF vars, Inv, TypeOK, OneWorker, TaskInv, NewestIsKept, StopInv,
      NothingKeptAfterStop, ClosedIsIdle
<1> QED BY <1>1, <1>2, <1>3, <1>4, SubmitInv, DrainInv DEF Next

THEOREM Invariance == Spec => []Inv
BY InitInv, NextInv, PTL DEF Spec

(* At most one worker runs, whatever arrives, raises or is cancelled. *)
THEOREM OneInference == Spec => []OneWorker
<1>1. Inv => OneWorker
  BY DEF Inv
<1> QED BY <1>1, Invariance, PTL

(* The newest frame is never lost while the processor is open. *)
THEOREM Newest == Spec => []NewestIsKept
<1>1. Inv => NewestIsKept
  BY DEF Inv
<1> QED BY <1>1, Invariance, PTL

(* No payload survives stop(), and aclose() leaves no inference behind. *)
THEOREM Quiet == Spec => []NothingKeptAfterStop /\ []ClosedIsIdle
<1>1. Inv => NothingKeptAfterStop /\ ClosedIsIdle
  BY DEF Inv, StopInv
<1> QED BY <1>1, Invariance, PTL

(* After stop() no task enters the provider or a callback. *)
THEOREM NoLateCallback == Spec => NoCallbackAfterStop
<1> DEFINE Late == \A t \in Frames : closed /\ pc'[t] # pc[t] => pc'[t] \notin Awaiting
<1>1. Inv /\ [Next]_vars => Late \/ UNCHANGED vars
  <2> SUFFICES ASSUME Inv, Next, closed, NEW t \in Frames, pc'[t] # pc[t]
               PROVE  pc'[t] \notin Awaiting
    OBVIOUS
  <2>1. PICK u \in Frames : Drain(u)
    BY DEF Next, Submit, Stop, Aclose, Halt, Joined, GivesUp
  <2> USE DEF Inv, TypeOK, Awaiting
  <2>2. ASSUME Loop(u) PROVE pc'[t] \notin Awaiting
    BY <2>2 DEF Loop, End
  <2>3. ASSUME NEW where, NEW kind, Settle(u, where, kind) PROVE pc'[t] \notin Awaiting
    BY <2>3 DEF Settle, End
  <2>4. CASE Crashes(u) \/ Cancelled(u)
    BY <2>4 DEF Crashes, Cancelled, End
  <2> QED BY <2>1, <2>2, <2>3, <2>4 DEF Drain, Start, Infers, Raises, Sinks
<1> QED BY <1>1, Invariance, PTL DEF Spec, NoCallbackAfterStop

-----------------------------------------------------------------------------
(* Who takes the pending frame. *)

(* The worker that the processor refers to has a step of its own to take.   *)
CanDrain(t) == worker = t /\ pc[t] \in Alive /\ t \notin cancelling

PendingIsAttended ==
  ~closed /\ slot # 0 => WorkerCrashed \/ \E t \in Frames : CanDrain(t)

(* Nothing is cancelled before stop(), and a frame that waits without a     *)
(* worker waits since one crashed.                                          *)
WorkerInv ==
  /\ cancelling # {} => closed
  /\ ~closed /\ slot # 0 /\ ~WorkerAlive => \E t \in Frames : pc[t] = "crashed"

LEMMA WorkerStep == Inv /\ WorkerInv /\ [Next]_vars => WorkerInv'
<1> SUFFICES ASSUME Inv, WorkerInv, [Next]_vars PROVE WorkerInv'
  OBVIOUS
<1> USE DEF WorkerInv
<1>1. CASE Submit
  <2>1. submitted + 1 \in Frames /\ pc[submitted + 1] = "none"
    BY <1>1, MaxFramesAssumption DEF Inv, TypeOK, TaskInv, Submit, Frames
  <2>2. WorkerAlive'
    BY <1>1, <2>1 DEF Inv, TypeOK, Submit, EnsureWorker, WorkerAlive, Alive
  <2> QED BY <1>1, <2>2 DEF Submit
<1>2. ASSUME NEW t \in Frames, Drain(t) PROVE WorkerInv'
  <2>1. closed' = closed /\ cancelling' = cancelling
    BY <1>2 DEF Drain, Start, Infers, Raises, Sinks, Crashes, Cancelled
  <2>2. ASSUME ~closed, slot' # 0, ~WorkerAlive' PROVE \E u \in Frames : pc'[u] = "crashed"
    <3>1. t \notin cancelling
      BY <2>2
    <3>2. CASE Crashes(t)
      BY <3>2, <1>2 DEF Crashes, End, Inv, TypeOK
    <3>3. CASE Start(t) \/ Infers(t) \/ Raises(t) \/ Sinks(t)
      <4>1. pc[t] \in Alive /\ worker = t
        BY <3>3, <1>2 DEF Start, Infers, Raises, Sinks, Inv, OneWorker, Alive, Awaiting
      <4>2. slot' = 0 \/ (pc'[t] \in Alive /\ worker' = t)
        BY <2>2, <3>3, <4>1 DEF Start, Infers, Raises, Sinks, Loop, Settle, Call, End,
           Alive, Awaiting, Inv, TypeOK
      <4> QED BY <2>2, <4>2, <1>2 DEF WorkerAlive
    <3> QED BY <1>2, <3>1, <3>2, <3>3 DEF Drain, Cancelled
  <2> QED BY <2>1, <2>2
<1>3. ASSUME NEW cancel \in BOOLEAN, Stop(cancel) \/ Aclose(cancel) PROVE WorkerInv'
  BY <1>3 DEF Stop, Aclose, Halt
<1>4. CASE Joined \/ GivesUp \/ UNCHANGED vars
  BY <1>4 DEF Joined, GivesUp, vars, WorkerAlive
<1> QED BY <1>1, <1>2, <1>3, <1>4 DEF Next

LEMMA WorkerAlways == Spec => []WorkerInv
<1>1. Init => WorkerInv
  BY DEF Init, WorkerInv
<1> QED BY <1>1, WorkerStep, Invariance, PTL DEF Spec

(* A frame never waits for nobody: as long as the processor is open and no  *)
(* error callback has raised, there is a worker for it, and the worker can  *)
(* move, because nothing is cancelled before stop().                        *)
THEOREM PendingHasWorker == Spec => []PendingIsAttended
<1>1. WorkerInv => PendingIsAttended
  BY DEF WorkerInv, PendingIsAttended, WorkerCrashed, WorkerAlive, CanDrain
<1> QED BY <1>1, WorkerAlways, PTL

-----------------------------------------------------------------------------
(* The processor is a pipeline with one place. *)

LEMMA AwaitingIsAlive == \A where \in Awaiting : where \in Alive
BY DEF Alive

(* The job of the one worker. *)
LEMMA JobOf ==
  ASSUME Inv, NEW t \in Frames, pc[t] \in Alive
  PROVE  /\ pc[t] \in Awaiting => Jobs = {<<t, taken>>}
         /\ pc[t] \notin Awaiting => Jobs = {}
<1>1. \A u \in Frames : pc[u] \in Awaiting => u = t
  BY AwaitingIsAlive DEF Inv, OneWorker
<1> QED BY <1>1 DEF Jobs

LEMMA NoJob == ASSUME \A t \in Frames : pc[t] \notin Alive PROVE Jobs = {}
BY AwaitingIsAlive DEF Jobs

(* A task that takes no frame keeps its job or ends it. *)
LEMMA KeepsOrEnds ==
  ASSUME Inv, Inv', NEW t \in Frames, pc[t] \in Alive,
         NEW where, pc' = [pc EXCEPT ![t] = where],
         where \in Awaiting => pc[t] \in Awaiting,
         UNCHANGED <<taken, slot, closed>>
  PROVE  [Pipe!Next]_(Pipe!pipeVars)
<1>1. pc'[t] = where /\ \A u \in Frames \ {t} : pc'[u] = pc[u]
  BY DEF Inv, TypeOK
<1>2. \A u \in Frames \ {t} : pc[u] \notin Awaiting
  BY AwaitingIsAlive DEF Inv, OneWorker
<1>3. CASE where \in Awaiting
  <2>1. Jobs' = {<<t, taken>>} /\ Jobs = {<<t, taken>>}
    BY <1>1, <1>2, <1>3, JobOf DEF Jobs
  <2> QED BY <2>1 DEF Pipe!pipeVars
<1>4. CASE where \notin Awaiting
  <2>1. Jobs' = {}
    BY <1>1, <1>2, <1>4 DEF Jobs
  <2>2. CASE Jobs = {}
    BY <2>1, <2>2 DEF Pipe!pipeVars
  <2>3. CASE Jobs # {}
    BY <2>1, <2>3 DEF Pipe!Next, Pipe!End
  <2> QED BY <2>2, <2>3
<1> QED BY <1>3, <1>4

LEMMA LoopPipe ==
  ASSUME Inv, Inv', NEW t \in Frames, pc[t] \in Alive, Loop(t), closed' = closed
  PROVE  [Pipe!Next]_(Pipe!pipeVars)
<1>1. CASE End(t, "ended")
  BY <1>1, KeepsOrEnds DEF End, Awaiting
<1>2. CASE /\ ~closed /\ slot # 0 /\ taken' = slot /\ slot' = 0
           /\ pc' = [pc EXCEPT ![t] = "inferring"]
  <2>1. pc'[t] \in Awaiting
    BY <1>2 DEF Inv, TypeOK, Awaiting
  <2>2. Jobs' = {<<t, taken'>>}
    <3>1. \A u \in Frames : pc'[u] \in Awaiting => u = t
      BY <2>1, AwaitingIsAlive DEF Inv, OneWorker
    <3> QED BY <2>1, <3>1 DEF Jobs
  <2>3. Pipe!Begin(t)
    BY <1>2, <2>2 DEF Pipe!Begin
  <2> QED BY <2>3 DEF Pipe!Next
<1> QED BY <1>1, <1>2 DEF Loop

LEMMA DrainPipe ==
  ASSUME Inv, Inv', NEW t \in Frames, Drain(t) PROVE [Pipe!Next]_(Pipe!pipeVars)
<1>1. CASE Start(t) \/ Sinks(t)
  BY <1>1, LoopPipe DEF Start, Sinks, Alive, Awaiting
<1>2. CASE Infers(t) \/ Raises(t)
  <2>1. pc[t] \in Awaiting /\ pc[t] \in Alive
    BY <1>2 DEF Infers, Raises, Alive, Awaiting
  <2>2. UNCHANGED <<taken, slot, closed>> /\ \E where : pc' = [pc EXCEPT ![t] = where]
    BY <1>2 DEF Infers, Raises, Settle, End, Call
  <2> QED BY <2>1, <2>2, KeepsOrEnds
<1>3. CASE Crashes(t) \/ Cancelled(t)
  <2>1. pc[t] \in Alive
    BY <1>3 DEF Crashes, Cancelled, Alive, Awaiting
  <2>2. /\ UNCHANGED <<taken, slot, closed>>
        /\ \E where \in {"crashed", "ended"} : pc' = [pc EXCEPT ![t] = where]
    BY <1>3 DEF Crashes, Cancelled, End
  <2> QED BY <2>1, <2>2, KeepsOrEnds DEF Awaiting
<1> QED BY <1>1, <1>2, <1>3 DEF Drain

LEMMA SubmitPipe == ASSUME Inv, Inv', Submit PROVE [Pipe!Next]_(Pipe!pipeVars)
<1>1. submitted + 1 \in Frames /\ slot' = submitted + 1 /\ ~closed /\ closed' = closed
  BY DEF Submit, Put, Inv, TypeOK, Frames
<1>2. Jobs' = Jobs
  <2>1. CASE WorkerAlive
    BY <2>1 DEF Submit, EnsureWorker, Jobs
  <2>2. CASE ~WorkerAlive
    <3>1. \A t \in Frames : pc[t] \notin Alive
      BY <2>2 DEF WorkerAlive, Inv, OneWorker
    <3>2. \A t \in Frames : pc'[t] \notin Awaiting
      BY <2>2, <3>1, AwaitingIsAlive DEF Submit, EnsureWorker, Awaiting, Inv, TypeOK
    <3> QED BY <3>1, <3>2, NoJob DEF Jobs
  <2> QED BY <2>1, <2>2
<1>3. Pipe!Offer(submitted + 1)
  BY <1>1, <1>2 DEF Pipe!Offer, Pipe!Accepts
<1> QED BY <1>1, <1>3 DEF Pipe!Next

LEMMA NextPipe == ASSUME Inv, Inv', [Next]_vars PROVE [Pipe!Next]_(Pipe!pipeVars)
<1>1. ASSUME NEW cancel \in BOOLEAN, Stop(cancel) \/ Aclose(cancel)
      PROVE  [Pipe!Next]_(Pipe!pipeVars)
  <2>1. closed' = TRUE /\ slot' = 0 /\ Jobs' = Jobs
    BY <1>1 DEF Stop, Aclose, Halt, Jobs
  <2> QED BY <2>1 DEF Pipe!Next, Pipe!Stop
<1>2. CASE Joined \/ GivesUp \/ UNCHANGED vars
  <2>1. UNCHANGED <<closed, slot, Jobs>>
    BY <1>2 DEF Joined, GivesUp, vars, Jobs
  <2> QED BY <2>1 DEF Pipe!pipeVars
<1> QED BY <1>1, <1>2, SubmitPipe, DrainPipe DEF Next

(* The processor implements the pipeline with one place.                    *)
THEOREM ProcessorLatestWins == Spec => ImplementsLatestWins
<1>1. Init => Pipe!Init
  <2> SUFFICES ASSUME Init PROVE Pipe!Init
    OBVIOUS
  <2>1. Jobs = {}
    BY NoJob DEF Init, Alive, Awaiting
  <2> QED BY <2>1 DEF Init, Pipe!Init
<1>2. Inv /\ Inv' /\ [Next]_vars => [Pipe!Next]_(Pipe!pipeVars)
  BY NextPipe
<1> QED BY <1>1, <1>2, Invariance, PTL DEF Spec, Pipe!Spec, ImplementsLatestWins

-----------------------------------------------------------------------------
(* The subscriber. *)

(* A key of _track_tasks leads to a reader of that track.  While the factory *)
(* does not suspend, whoever reads a track is its entry.                     *)
EntryInv ==
  /\ \A t \in Tracks : byTrack[t] # 0 =>
       track[byTrack[t]] = t /\ stage[byTrack[t]] \notin {"idle", "opening"}
  /\ \A r \in Readers : stage[r] = "opening" => slow
  /\ ~slow => \A r \in Readers : Reads(r) => byTrack[track[r]] = r

(* From its first step on, stop() waits for every reader there is, and the  *)
(* processor is closed when there is none.                                  *)
ShutInv ==
  /\ awaited # {} => shut /\ Known \subseteq awaited
  /\ closer \in {"joining", "failed", "done"} => shut /\ Known = {}

SubInv == SubscriberTypeOK /\ EntryInv /\ ShutInv

(* Every step of the subscriber is a step of the processor or leaves it. *)
LEMMA StepsProcessor == SubscriberNext => [Next]_vars
<1> SUFFICES ASSUME SubscriberNext PROVE Next \/ UNCHANGED vars
  OBVIOUS
<1>1. CASE Subscriber /\ UNCHANGED vars
  BY <1>1
<1>2. CASE Processor /\ UNCHANGED subVars
  BY <1>2 DEF Processor, Next
<1>3. CASE \E r \in Readers : Frame(r)
  BY <1>3 DEF Frame, Next
<1>4. CASE StopSubscriber
  BY <1>4 DEF StopSubscriber, Next
<1>5. CASE Gathered
  BY <1>5 DEF Gathered, Next
<1> QED BY <1>1, <1>2, <1>3, <1>4, <1>5 DEF SubscriberNext

(* The subscriber runs the processor as LatestFrame describes it, so what   *)
(* is proved of every use of the processor holds of this one.               *)
THEOREM RunsProcessor == SubscriberSpec => Spec
<1>1. SubscriberInit => Init
  BY DEF SubscriberInit
<1>2. [SubscriberNext]_allVars => [Next]_vars
  BY StepsProcessor DEF allVars
<1> QED BY <1>1, <1>2, PTL DEF SubscriberSpec, Spec

(* Fed and closed by the subscriber, the processor is still that pipeline.  *)
THEOREM SubscriberLatestWins == SubscriberSpec => ImplementsLatestWins
BY RunsProcessor, ProcessorLatestWins

LEMMA SubscriberInitInv == SubscriberInit => SubInv
<1> SUFFICES ASSUME SubscriberInit PROVE SubInv
  OBVIOUS
<1>1. (CHOOSE t \in Tracks : TRUE) \in Tracks
  BY TracksAssumption
<1>2. SubscriberTypeOK
  <2>1. track \in [Readers -> Tracks]
    BY <1>1 DEF SubscriberInit
  <2>2. queue \in Seq(Events)
    BY DEF SubscriberInit
  <2>3. /\ cameras \subseteq Tracks /\ wanted \subseteq Tracks
        /\ struck \subseteq Readers /\ awaited \subseteq Readers
    BY DEF SubscriberInit
  <2>4. /\ room \in [Tracks -> {"absent", "published", "subscribed"}]
        /\ stage \in [Readers -> Live \cup {"idle", "done"}]
        /\ byTrack \in [Tracks -> Readers \cup {0}]
    BY DEF SubscriberInit
  <2>5. slow \in BOOLEAN /\ shut \in BOOLEAN
    BY DEF SubscriberInit
  <2> QED BY <2>1, <2>2, <2>3, <2>4, <2>5 DEF SubscriberTypeOK
<1>3. EntryInv
  BY DEF SubscriberInit, EntryInv, Reads
<1>4. ShutInv
  BY DEF SubscriberInit, Init, ShutInv
<1> QED BY <1>2, <1>3, <1>4 DEF SubInv

(* What stop() waits for only shrinks once _closed is set. *)
LEMMA ShutKept ==
  ASSUME SubInv, shut' = shut, awaited' = awaited,
         closer' \in {"joining", "failed", "done"} =>
           closer \in {"joining", "failed", "done"},
         shut => \A r \in Readers : stage'[r] \in Live => stage[r] \in Live
  PROVE  ShutInv'
BY DEF SubInv, ShutInv, Known

LEMMA OpenInv ==
  ASSUME SubInv, NEW t \in Tracks, Open(t), ~shut, UNCHANGED <<slow, struck>>
  PROVE  /\ stage' \in [Readers -> Live \cup {"idle", "done"}]
         /\ track' \in [Readers -> Tracks]
         /\ byTrack' \in [Tracks -> Readers \cup {0}]
         /\ EntryInv'
<1> USE DEF SubInv, SubscriberTypeOK
<1>1. CASE UNCHANGED <<stage, track, byTrack>>
  BY <1>1 DEF EntryInv, Reads
<1>2. ASSUME ~HasReader(t), NEW r \in Readers, stage[r] = "idle",
             track' = [track EXCEPT ![r] = t], slow,
             stage' = [stage EXCEPT ![r] = "opening"], UNCHANGED byTrack
      PROVE  /\ stage' \in [Readers -> Live \cup {"idle", "done"}]
             /\ track' \in [Readers -> Tracks]
             /\ byTrack' \in [Tracks -> Readers \cup {0}]
             /\ EntryInv'
  <2>1. EntryInv'
    BY <1>2 DEF EntryInv, Reads
  <2> QED BY <1>2, <2>1 DEF Live
<1>3. ASSUME ~HasReader(t), NEW r \in Readers, stage[r] = "idle",
             track' = [track EXCEPT ![r] = t], ~slow,
             stage' = [stage EXCEPT ![r] = "scheduled"],
             byTrack' = [byTrack EXCEPT ![t] = r]
      PROVE  /\ stage' \in [Readers -> Live \cup {"idle", "done"}]
             /\ track' \in [Readers -> Tracks]
             /\ byTrack' \in [Tracks -> Readers \cup {0}]
             /\ EntryInv'
  <2>1. \A q \in Readers : q # r /\ Reads(q) => track[q] # t
    BY <1>3 DEF EntryInv, HasReader, Reads, Readers
  <2>2. EntryInv'
    BY <1>3, <2>1 DEF EntryInv, Reads
  <2> QED BY <1>3, <2>2 DEF Live
<1> QED BY <1>1, <1>2, <1>3 DEF Open

LEMMA HandleEventInv ==
  ASSUME SubInv, HandleEvent, UNCHANGED closer PROVE SubInv'
<1> USE DEF SubInv, SubscriberTypeOK
<1> DEFINE e == Head(queue)
<1>1. e \in Events /\ queue' \in Seq(Events)
  BY DEF HandleEvent
<1>2. e.track \in Tracks
  BY <1>1 DEF Events
<1> HIDE DEF e
<1>3. CASE Readerless /\ UNCHANGED struck /\ wanted' \subseteq Tracks
  <2>1. SubscriberTypeOK' /\ EntryInv'
    BY <1>1, <1>3 DEF HandleEvent, Readerless, EntryInv, Reads
  <2>2. ShutInv'
    BY <1>3, ShutKept DEF HandleEvent, Readerless
  <2> QED BY <2>1, <2>2
<1>4. CASE ~shut /\ Open(e.track) /\ UNCHANGED <<struck, wanted>>
  <2>1. SubscriberTypeOK' /\ EntryInv'
    BY <1>1, <1>2, <1>4, OpenInv DEF HandleEvent
  <2>2. ShutInv'
    BY <1>4, ShutKept DEF HandleEvent
  <2> QED BY <2>1, <2>2
<1>5. CASE TrackUnsubscribed(e.track)
  <2>1. struck' \subseteq Readers
    BY <1>2, <1>5 DEF TrackUnsubscribed, HasReader
  <2>2. SubscriberTypeOK'
    BY <1>1, <1>2, <1>5, <2>1 DEF HandleEvent, TrackUnsubscribed
  <2>3. EntryInv'
    BY <1>2, <1>5 DEF HandleEvent, TrackUnsubscribed, EntryInv, Reads, HasReader, Readers
  <2>4. ShutInv'
    BY <1>5, ShutKept DEF HandleEvent, TrackUnsubscribed
  <2> QED BY <2>2, <2>3, <2>4
<1>6. ASSUME SubscribePublication(e.track) PROVE wanted' \subseteq Tracks /\ Readerless
  BY <1>2, <1>6 DEF SubscribePublication
<1>7. ASSUME TrackSubscribed(e.track)
      PROVE  \/ Readerless /\ wanted' \subseteq Tracks
             \/ ~shut /\ Open(e.track) /\ UNCHANGED wanted
  BY <1>7 DEF TrackSubscribed
<1> QED BY <1>3, <1>4, <1>5, <1>6, <1>7 DEF HandleEvent, e

LEMMA RoomEventInv ==
  ASSUME SubInv, NEW t \in Tracks, RoomEvent(t), UNCHANGED closer PROVE SubInv'
<1> USE DEF SubInv, SubscriberTypeOK
<1>1. PICK op \in {"published", "subscribed", "unsubscribed"} : Notify(op, t)
  BY DEF RoomEvent, Published, Subscribed, Unsubscribed
<1>2. queue' \in Seq(Events)
  BY <1>1 DEF Notify, Events
<1>3. room' \in [Tracks -> {"absent", "published", "subscribed"}]
  BY DEF RoomEvent, Published, Subscribed, Unsubscribed
<1>4. SubscriberTypeOK' /\ EntryInv'
  BY <1>1, <1>2, <1>3 DEF Notify, EntryInv, Reads
<1>5. ShutInv'
  BY <1>1, ShutKept DEF Notify
<1> QED BY <1>4, <1>5

LEMMA ReaderInv ==
  ASSUME SubInv, NEW r \in Readers, ReaderStep(r) \/ StreamEnds(r), UNCHANGED closer
  PROVE  SubInv'
<1> USE DEF SubInv, SubscriberTypeOK, Move
<1>1. CASE Opened(r)
  <2>1. SubscriberTypeOK'
    BY <1>1 DEF Opened, Live
  <2>2. EntryInv'
    BY <1>1 DEF Opened, EntryInv, Reads
  <2>3. ShutInv'
    BY <1>1, ShutKept DEF Opened, Live
  <2> QED BY <2>1, <2>2, <2>3
<1>2. CASE StartReader(r) \/ StreamEnds(r) \/ StreamClosed(r)
  <2>1. SubscriberTypeOK'
    BY <1>2 DEF StartReader, StreamEnds, StreamClosed, Live
  <2>2. EntryInv'
    BY <1>2 DEF StartReader, StreamEnds, StreamClosed, EntryInv, Reads
  <2>3. ShutInv'
    BY <1>2, ShutKept DEF StartReader, StreamEnds, StreamClosed, Live
  <2> QED BY <2>1, <2>2, <2>3
<1>3. CASE ReaderCancelled(r)
  <2>1. SubscriberTypeOK'
    BY <1>3 DEF ReaderCancelled, Live
  <2>2. EntryInv'
    BY <1>3 DEF ReaderCancelled, EntryInv, Reads
  <2>3. ShutInv'
    BY <1>3, ShutKept DEF ReaderCancelled, Live
  <2> QED BY <2>1, <2>2, <2>3
<1>4. CASE ForgetTrack(r)
  <2>1. SubscriberTypeOK'
    BY <1>4 DEF ForgetTrack
  <2>2. EntryInv'
    BY <1>4 DEF ForgetTrack, EntryInv, Reads, Readers
  <2>3. ShutInv'
    BY <1>4, ShutKept DEF ForgetTrack, Live
  <2> QED BY <2>1, <2>2, <2>3
<1> QED BY <1>1, <1>2, <1>3, <1>4 DEF ReaderStep

(* Only stop() makes the caller of aclose() wait. *)
LEMMA ProcessorKeeps ==
  ASSUME SubInv, Processor \/ Submit, UNCHANGED subVars PROVE SubInv'
<1>1. closer' = closer \/ closer = "joining"
  BY DEF Processor, Drain, Start, Infers, Raises, Sinks, Crashes, Cancelled,
         Joined, GivesUp, Submit
<1>2. ShutInv'
  BY <1>1, ShutKept DEF subVars
<1> QED BY <1>2 DEF SubInv, SubscriberTypeOK, EntryInv, Reads, subVars

LEMMA StopInvariant ==
  ASSUME SubInv, StopSubscriber \/ Gathered \/ (StopGivesUp /\ UNCHANGED vars)
  PROVE  SubInv'
<1> USE DEF SubInv, SubscriberTypeOK
<1>1. CASE StopSubscriber
  <2>1. SubscriberTypeOK'
    BY <1>1 DEF StopSubscriber, Known
  <2>2. EntryInv'
    BY <1>1 DEF StopSubscriber, EntryInv, Reads
  <2>3. ShutInv'
    BY <1>1 DEF StopSubscriber, ShutInv, Known, vars
  <2> QED BY <2>1, <2>2, <2>3
<1>2. CASE Gathered
  <2>1. Known = {}
    BY <1>2 DEF Gathered, ShutInv, Known
  <2> QED BY <1>2, <2>1 DEF Gathered, ShutInv, EntryInv, Reads, Known
<1>3. CASE StopGivesUp /\ UNCHANGED vars
  <2>1. SubscriberTypeOK' /\ EntryInv'
    BY <1>3 DEF StopGivesUp, EntryInv, Reads
  <2>2. ShutInv'
    BY <1>3 DEF StopGivesUp, ShutInv, Known, vars
  <2> QED BY <2>1, <2>2
<1> QED BY <1>1, <1>2, <1>3

LEMMA SubscriberNextInv == SubInv /\ [SubscriberNext]_allVars => SubInv'
<1> SUFFICES ASSUME SubInv, [SubscriberNext]_allVars PROVE SubInv'
  OBVIOUS
<1>1. CASE Subscriber /\ UNCHANGED vars
  BY <1>1, HandleEventInv, RoomEventInv, ReaderInv, StopInvariant DEF Subscriber, vars
<1>2. CASE Processor /\ UNCHANGED subVars
  BY <1>2, ProcessorKeeps
<1>3. CASE \E r \in Readers : Frame(r)
  BY <1>3, ProcessorKeeps DEF Frame
<1>4. CASE StopSubscriber \/ Gathered
  BY <1>4, StopInvariant
<1>5. CASE UNCHANGED allVars
  BY <1>5 DEF allVars, vars, subVars, SubInv, SubscriberTypeOK, EntryInv, ShutInv,
              Reads, Known
<1> QED BY <1>1, <1>2, <1>3, <1>4, <1>5 DEF SubscriberNext

THEOREM SubscriberInvariance == SubscriberSpec => []SubInv
BY SubscriberInitInv, SubscriberNextInv, PTL DEF SubscriberSpec

(* No track is read twice, however its subscriptions and its readers' ends  *)
(* overlap, as long as the stream factory does not suspend.                 *)
THEOREM NoTrackIsReadTwice == SubscriberSpec => []OneReader
<1>1. SubInv => OneReader
  BY DEF SubInv, EntryInv, OneReader
<1> QED BY <1>1, SubscriberInvariance, PTL

(* stop() returns only when no stream is being opened or read and no        *)
(* inference is left.                                                       *)
THEOREM StopLeavesNothing == SubscriberSpec => []StopIsComplete
<1>1. SubInv /\ ClosedIsIdle => StopIsComplete
  BY DEF SubInv, ShutInv, ClosedIsIdle, StopIsComplete
<1> QED BY <1>1, SubscriberInvariance, RunsProcessor, Quiet, PTL
-----------------------------------------------------------------------------
(* Withdrawn tracks. *)

(* The Room shows t, or its withdrawal waits behind the first n events.     *)
Shown(t, n) ==
  \/ room[t] = "subscribed"
  \/ \E i \in (n + 1)..Len(queue) : queue[i] = [op |-> "unsubscribed", track |-> t]

(* A reader's track, and one that an event announces, is shown, or its       *)
(* withdrawal comes later.                                                   *)
ShownInv ==
  ~slow =>
    /\ \A r \in Readers : Reads(r) => Shown(track[r], 0)
    /\ \A n \in 1..Len(queue) : queue[n].op = "subscribed" => Shown(queue[n].track, n)

LEMMA TailShown ==
  ASSUME SubscriberTypeOK, queue # <<>>, queue' = Tail(queue), room' = room,
         NEW t \in Tracks, NEW n \in Nat, Shown(t, n + 1)
  PROVE  Shown(t, n)'
<1>1. CASE room[t] = "subscribed"
  BY <1>1 DEF Shown
<1>2. ASSUME NEW i \in (n + 2)..Len(queue), queue[i] = [op |-> "unsubscribed", track |-> t]
      PROVE  Shown(t, n)'
  <2>1. queue \in Seq(Events)
    BY DEF SubscriberTypeOK
  <2>2. i - 1 \in (n + 1)..Len(queue') /\ queue'[i - 1] = queue[i]
    BY <2>1
  <2> QED BY <1>2, <2>2 DEF Shown
<1> QED BY <1>1, <1>2 DEF Shown

(* ShownInv', with the tracks named. *)
LEMMA ShownNext ==
  ASSUME SubscriberTypeOK',
         \A t \in Tracks, r \in Readers : Reads(r)' /\ track'[r] = t => Shown(t, 0)',
         \A t \in Tracks, n \in 1..Len(queue') :
           queue'[n] = [op |-> "subscribed", track |-> t] => Shown(t, n)'
  PROVE  ShownInv'
<1>1. \A r \in Readers : track'[r] \in Tracks
  BY DEF SubscriberTypeOK
<1>2. \A n \in 1..Len(queue') : queue'[n] \in Events
  BY DEF SubscriberTypeOK
<1>3. \A n \in 1..Len(queue') : queue'[n].op = "subscribed" =>
        \E t \in Tracks : queue'[n] = [op |-> "subscribed", track |-> t]
  BY <1>2 DEF Events
<1>4. ASSUME NEW r \in Readers, Reads(r)' PROVE Shown(track[r], 0)'
  <2>1. PICK t \in Tracks : t = track'[r]
    BY <1>1
  <2>2. Shown(t, 0)'
    BY <1>4, <2>1
  <2> QED BY <2>1, <2>2 DEF Shown
<1>5. ASSUME NEW n \in 1..Len(queue'), queue'[n].op = "subscribed"
      PROVE  Shown(queue[n].track, n)'
  <2>1. PICK t \in Tracks : queue'[n] = [op |-> "subscribed", track |-> t]
    BY <1>3, <1>5
  <2>2. Shown(t, n)' /\ queue'[n].track = t
    BY <2>1
  <2> QED BY <2>2 DEF Shown
<1> QED BY <1>4, <1>5 DEF ShownInv

LEMMA HandleEventShown ==
  ASSUME SubInv, ShownInv, HandleEvent, SubscriberTypeOK', ~slow PROVE ShownInv'
<1> USE DEF SubInv
<1> DEFINE e == Head(queue)
<1>1. queue \in Seq(Events) /\ queue # <<>> /\ queue' = Tail(queue) /\ room' = room
  BY DEF HandleEvent, SubscriberTypeOK
<1>2. e \in Events /\ e = queue[1] /\ Len(queue) \in Nat \ {0}
  BY <1>1
<1> HIDE DEF e
<1>3. ASSUME NEW t \in Tracks, NEW n \in 1..Len(queue'),
             queue'[n] = [op |-> "subscribed", track |-> t]
      PROVE  Shown(t, n)'
  <2>1. n + 1 \in 1..Len(queue) /\ queue'[n] = queue[n + 1] /\ n \in Nat
    BY <1>1
  <2>2. Shown(t, n + 1)
    BY <1>3, <2>1 DEF ShownInv
  <2> QED BY <1>1, <2>1, <2>2, TailShown
<1>4. ASSUME NEW t \in Tracks, NEW r \in Readers, Reads(r), track[r] = t,
             e # [op |-> "unsubscribed", track |-> t]
      PROVE  Shown(t, 0)'
  <2>1. Shown(t, 0)
    BY <1>4 DEF ShownInv
  <2>2. Shown(t, 0 + 1)
    BY <1>2, <1>4, <2>1 DEF Shown
  <2> QED BY <1>1, <2>2, TailShown
<1>5. ASSUME NEW t \in Tracks, NEW r \in Readers, Reads(r)', track'[r] = t
      PROVE  Shown(t, 0)'
  <2>1. CASE e.op # "unsubscribed" /\ Readerless /\ UNCHANGED struck
    BY <1>4, <1>5, <2>1 DEF Readerless, Reads
  <2>2. CASE e.op = "unsubscribed" /\ TrackUnsubscribed(e.track)
    <3>1. Reads(r) /\ track[r] = t
      BY <1>5, <2>2 DEF TrackUnsubscribed, Reads
    <3>2. t # e.track
      BY <1>5, <2>2, <3>1 DEF TrackUnsubscribed, Reads, EntryInv, HasReader, Readers
    <3> QED BY <1>4, <3>1, <3>2
  <2>3. CASE e.op = "subscribed" /\ UNCHANGED struck /\ Open(e.track)
    <3>1. CASE Reads(r) /\ track[r] = t
      BY <1>4, <2>3, <3>1
    <3>2. CASE ~(Reads(r) /\ track[r] = t)
      <4>1. t = e.track
        BY <1>5, <2>3, <3>2 DEF Open, Reads, SubscriberTypeOK
      <4>2. Shown(t, 1)
        BY <1>2, <2>3, <4>1 DEF ShownInv
      <4>3. Shown(t, 0 + 1)
        BY <4>2
      <4> QED BY <1>1, <4>3, TailShown
    <3> QED BY <3>1, <3>2
  <2> QED BY <2>1, <2>2, <2>3
          DEF HandleEvent, TrackSubscribed, SubscribePublication, e
<1> QED BY <1>3, <1>5, ShownNext

LEMMA RoomEventShown ==
  ASSUME SubInv, ShownInv, NEW t \in Tracks, RoomEvent(t), SubscriberTypeOK', ~slow
  PROVE  ShownInv'
<1> USE DEF SubInv
<1>1. PICK op \in {"published", "subscribed", "unsubscribed"} :
        /\ Notify(op, t)
        /\ op = "published" => room[t] = "absent" /\ room' = [room EXCEPT ![t] = "published"]
        /\ op = "subscribed" => room' = [room EXCEPT ![t] = "subscribed"]
        /\ op = "unsubscribed" => room' = [room EXCEPT ![t] = "absent"]
  BY DEF RoomEvent, Published, Subscribed, Unsubscribed
<1> DEFINE e == [op |-> op, track |-> t]
<1>2. queue \in Seq(Events) /\ queue' = Append(queue, e) /\ e \in Events
  BY <1>1 DEF Notify, SubscriberTypeOK, Events
<1>3. /\ Len(queue') = Len(queue) + 1 /\ Len(queue) \in Nat
      /\ queue'[Len(queue) + 1] = e
      /\ \A i \in 1..Len(queue) : queue'[i] = queue[i]
  BY <1>2
<1>4. ASSUME NEW s \in Tracks, NEW n \in 0..Len(queue), Shown(s, n) PROVE Shown(s, n)'
  <2>1. CASE op = "unsubscribed" /\ s = t
    BY <1>3, <2>1 DEF Shown
  <2>2. CASE room[s] = "subscribed" /\ ~(op = "unsubscribed" /\ s = t)
    BY <1>1, <2>2 DEF Shown, SubscriberTypeOK
  <2>3. CASE \E i \in (n + 1)..Len(queue) : queue[i] = [op |-> "unsubscribed", track |-> s]
    BY <1>3, <2>3 DEF Shown
  <2> QED BY <1>4, <2>1, <2>2, <2>3 DEF Shown
<1>5. ASSUME NEW s \in Tracks, NEW r \in Readers, Reads(r)', track'[r] = s
      PROVE  Shown(s, 0)'
  <2>1. Shown(s, 0)
    BY <1>1, <1>5 DEF Notify, Reads, ShownInv
  <2> QED BY <1>3, <1>4, <2>1
<1>6. ASSUME NEW s \in Tracks, NEW n \in 1..Len(queue'),
             queue'[n] = [op |-> "subscribed", track |-> s]
      PROVE  Shown(s, n)'
  <2>1. CASE n = Len(queue) + 1
    <3>1. op = "subscribed" /\ s = t
      BY <1>3, <1>6, <2>1
    <3>2. room'[s] = "subscribed"
      BY <1>1, <3>1 DEF SubscriberTypeOK
    <3> QED BY <3>2 DEF Shown
  <2>2. CASE n \in 1..Len(queue)
    <3>1. Shown(s, n)
      BY <1>3, <1>6, <2>2 DEF ShownInv
    <3> QED BY <1>3, <1>4, <2>2, <3>1
  <2> QED BY <1>3, <2>1, <2>2
<1> QED BY <1>5, <1>6, ShownNext

(* Everything else lets no reader start to read, and keeps the events.      *)
LEMMA NoNewReader ==
  ASSUME ShownInv, UNCHANGED <<slow, room>>, queue' \in {queue, <<>>},
         ~slow => \A r \in Readers : Reads(r)' =>
           queue' = queue /\ Reads(r) /\ track'[r] = track[r]
  PROVE  ShownInv'
<1>1. CASE queue' = queue
  BY <1>1 DEF ShownInv, Shown
<1>2. CASE queue' = <<>> /\ (~slow => \A r \in Readers : ~Reads(r)')
  BY <1>2 DEF ShownInv
<1> QED BY <1>1, <1>2

LEMMA ReaderShown ==
  ASSUME SubInv, ShownInv, NEW r \in Readers, ReaderStep(r) \/ StreamEnds(r)
  PROVE  ShownInv'
<1> USE DEF SubInv, SubscriberTypeOK, Move
<1>1. UNCHANGED <<slow, room, queue>>
  BY DEF ReaderStep, Opened, StartReader, StreamClosed, ReaderCancelled, ForgetTrack,
         StreamEnds
<1>2. ~slow => \A q \in Readers : Reads(q)' => Reads(q) /\ track'[q] = track[q]
  <2> SUFFICES ASSUME ~slow, NEW q \in Readers, Reads(q)'
               PROVE  Reads(q) /\ track'[q] = track[q]
    OBVIOUS
  <2>1. CASE Opened(r)
    BY <2>1 DEF Opened, EntryInv
  <2>2. CASE StartReader(r) \/ StreamEnds(r) \/ StreamClosed(r) \/ ForgetTrack(r)
    BY <2>2 DEF StartReader, StreamEnds, StreamClosed, ForgetTrack, Reads
  <2>3. CASE ReaderCancelled(r)
    BY <2>3 DEF ReaderCancelled, Reads
  <2> QED BY <2>1, <2>2, <2>3 DEF ReaderStep
<1> QED BY <1>1, <1>2, NoNewReader

LEMMA StopShown ==
  ASSUME SubInv, ShownInv, StopSubscriber \/ Gathered \/ StopGivesUp PROVE ShownInv'
<1>1. CASE StopSubscriber
  <2>1. \A r \in Readers : ~Reads(r)'
    BY <1>1 DEF StopSubscriber, Reads, Known, Live
  <2> QED BY <1>1, <2>1, NoNewReader DEF StopSubscriber
<1>2. CASE Gathered \/ StopGivesUp
  <2>1. \A r \in Readers : Reads(r)' => Reads(r)
    BY <1>2 DEF Gathered, StopGivesUp, Reads
  <2>2. UNCHANGED <<slow, room, queue, track>>
    BY <1>2 DEF Gathered, StopGivesUp
  <2> QED BY <2>1, <2>2, NoNewReader
<1> QED BY <1>1, <1>2

LEMMA StepShown == SubInv /\ ShownInv /\ [SubscriberNext]_allVars => ShownInv'
<1> SUFFICES ASSUME SubInv, ShownInv, [SubscriberNext]_allVars PROVE ShownInv'
  OBVIOUS
<1>1. CASE Subscriber
  <2>1. slow' = slow
    BY <1>1 DEF Subscriber, HandleEvent, StopGivesUp, RoomEvent, Published, Subscribed,
                Unsubscribed, Notify, ReaderStep, StreamEnds, Opened, StartReader,
                StreamClosed, ReaderCancelled, ForgetTrack, Move
  <2>2. CASE slow
    BY <2>1, <2>2 DEF ShownInv
  <2>3. SubscriberTypeOK'
    BY SubscriberNextInv DEF SubInv
  <2> QED BY <1>1, <2>2, <2>3, HandleEventShown, RoomEventShown, ReaderShown, StopShown
          DEF Subscriber
<1>2. CASE UNCHANGED subVars
  BY <1>2, NoNewReader DEF subVars, Reads
<1>3. CASE StopSubscriber \/ Gathered
  BY <1>3, StopShown
<1> QED BY <1>1, <1>2, <1>3 DEF SubscriberNext, Frame, allVars

(* No frame is read of a track after the task of its withdrawal has run.    *)
THEOREM WithdrawnIsNotRead == SubscriberSpec => []OnlySubscribedIsRead
<1>1. SubscriberInit => ShownInv
  BY DEF SubscriberInit, ShownInv, Reads
<1>2. SubscriberSpec => []ShownInv
  BY <1>1, StepShown, SubscriberInvariance, PTL DEF SubscriberSpec
<1>3. SubInv /\ ShownInv => OnlySubscribedIsRead
  <2> SUFFICES ASSUME SubInv, ShownInv, ~slow, NEW r \in Readers, Reads(r)
               PROVE  \/ room[track[r]] = "subscribed"
                      \/ \E i \in 1..Len(queue) :
                           queue[i] = [op |-> "unsubscribed", track |-> track[r]]
    BY DEF OnlySubscribedIsRead
  <2> QED BY DEF ShownInv, Shown
<1> QED BY <1>2, <1>3, SubscriberInvariance, PTL

-----------------------------------------------------------------------------
(* What stop() waits for. *)

(* A reader that is closing its stream, or that a cancellation will reach.  *)
CanEnd(r) == stage[r] \in Live /\ (r \in struck \/ stage[r] = "closing")

(* The worker, if there is one, has its cancellation on the way: stop() is  *)
(* not at the mercy of a provider that does not answer.                     *)
CanJoin == \A t \in Frames : worker = t /\ pc[t] \in Alive => t \in cancelling

StopGoesOn ==
  /\ awaited # {} =>
       \/ closer \in {"absent", "failed"} /\ \A r \in awaited : stage[r] \notin Live
       \/ \E r \in awaited : CanEnd(r)
  /\ closer = "joining" => CanJoin

(* What has ended stays so. *)
NoReaderReturns ==
  [][\A r \in Readers : shut /\ stage[r] \notin Live => stage'[r] \notin Live]_allVars

AttendedInv ==
  /\ closed => CanJoin
  /\ shut => \A r \in Readers : stage[r] \in Live => CanEnd(r)
  /\ awaited # {} => closer \in {"absent", "failed"}

(* Nobody but stop() cancels the worker, and after it no worker starts.     *)
LEMMA JoinKept ==
  ASSUME Inv, closed => CanJoin, SubscriberNext PROVE (closed => CanJoin)'
<1>1. CASE StopSubscriber \/ Gathered
  <2>1. Aclose(TRUE) \/ UNCHANGED vars
    BY <1>1 DEF StopSubscriber, Gathered
  <2> QED BY <2>1 DEF Aclose, Halt, CanJoin, WorkerAlive, vars
<1>2. CASE Processor
  <2>1. ASSUME NEW t \in Frames, Drain(t), closed' PROVE CanJoin'
    <3>1. cancelling' = cancelling /\ closed
      BY <2>1 DEF Drain, Start, Infers, Raises, Sinks, Crashes, Cancelled
    <3>2. \A u \in Frames : u # t => pc'[u] = pc[u]
      BY <2>1 DEF Inv, TypeOK, Drain, Start, Infers, Raises, Sinks, Crashes, Cancelled,
                  Loop, Settle, Call, End
    <3>3. worker' \in {worker, 0}
      BY <2>1 DEF Drain, Start, Infers, Raises, Sinks, Crashes, Cancelled,
                  Loop, Settle, Call, End
    <3>4. pc'[t] \in Alive => pc[t] \in Alive
      BY <2>1 DEF Drain, Start, Infers, Raises, Sinks, Crashes, Cancelled,
                  Loop, Settle, Call, End, Alive, Awaiting
    <3> QED BY <3>1, <3>2, <3>3, <3>4 DEF CanJoin, Frames
  <2> QED BY <1>2, <2>1 DEF Processor, Joined, GivesUp, CanJoin
<1>3. CASE (Subscriber /\ UNCHANGED vars) \/ \E r \in Readers : Frame(r)
  BY <1>3 DEF Frame, Submit, vars, CanJoin
<1> QED BY <1>1, <1>2, <1>3 DEF SubscriberNext

(* A reader that has been cancelled or closes stays so until it has ended.  *)
LEMMA EndKept ==
  ASSUME SubInv, AttendedInv, SubscriberNext, shut
  PROVE  /\ shut'
         /\ \A r \in Readers : stage'[r] \in Live => stage[r] \in Live /\ CanEnd(r)'
<1> USE DEF AttendedInv, SubInv, SubscriberTypeOK
<1>1. CASE Processor /\ UNCHANGED subVars
  BY <1>1 DEF subVars, CanEnd
<1>2. CASE \E r \in Readers : Frame(r)
  BY <1>2 DEF Frame, subVars, CanEnd
<1>3. CASE StopSubscriber \/ Gathered \/ StopGivesUp
  BY <1>3 DEF StopSubscriber, Gathered, StopGivesUp, CanEnd
<1>4. CASE HandleEvent
  <2>1. UNCHANGED <<stage, shut>> /\ struck \subseteq struck'
    BY <1>4 DEF HandleEvent, SubscribePublication, TrackSubscribed, TrackUnsubscribed,
                Readerless
  <2> QED BY <2>1 DEF CanEnd
<1>5. ASSUME NEW t \in Tracks, RoomEvent(t)
      PROVE  UNCHANGED <<stage, shut, struck>>
  BY <1>5 DEF RoomEvent, Published, Subscribed, Unsubscribed, Notify
<1>6. ASSUME NEW q \in Readers, ReaderStep(q) \/ StreamEnds(q)
      PROVE  /\ shut'
             /\ \A r \in Readers : stage'[r] \in Live => stage[r] \in Live /\ CanEnd(r)'
  <2>1. shut' /\ \A r \in Readers : r # q => stage'[r] = stage[r] /\ (r \in struck' <=> r \in struck)
    BY <1>6 DEF ReaderStep, Opened, StartReader, StreamClosed, ReaderCancelled, ForgetTrack,
                StreamEnds, Move
  <2>2. stage'[q] \in Live => stage[q] \in Live /\ CanEnd(q)'
    BY <1>6 DEF ReaderStep, Opened, StartReader, StreamClosed, ReaderCancelled, ForgetTrack,
                StreamEnds, Move, Live, CanEnd
  <2> QED BY <2>1, <2>2 DEF CanEnd
<1> QED BY <1>1, <1>2, <1>3, <1>4, <1>5, <1>6 DEF SubscriberNext, Subscriber, CanEnd

LEMMA AttendedStep ==
  ASSUME Inv, SubInv, AttendedInv, [SubscriberNext]_allVars PROVE AttendedInv'
<1>1. CASE UNCHANGED allVars
  BY <1>1 DEF allVars, vars, subVars, AttendedInv, CanJoin, CanEnd
<1>2. CASE SubscriberNext
  <2>1. (closed => CanJoin)'
    BY <1>2, JoinKept DEF AttendedInv
  <2>2. ASSUME shut', NEW r \in Readers, stage'[r] \in Live PROVE CanEnd(r)'
    <3>1. CASE shut
      BY <1>2, <2>2, <3>1, EndKept
    <3>2. CASE ~shut
      <4>1. StopSubscriber
        BY <1>2, <2>2, <3>2
        DEF SubscriberNext, Subscriber, Processor, subVars, Frame, Gathered, HandleEvent,
            StopGivesUp, RoomEvent, Published, Subscribed, Unsubscribed, Notify, ReaderStep,
            Opened, StartReader, StreamClosed, ReaderCancelled, ForgetTrack, StreamEnds, Move
      <4> QED BY <2>2, <4>1 DEF StopSubscriber, Known, CanEnd
    <3> QED BY <3>1, <3>2
  <2>3. (awaited # {} => closer \in {"absent", "failed"})'
    <3>1. CASE StopSubscriber \/ Gathered
      BY <3>1 DEF StopSubscriber, Gathered, vars
    <3>2. CASE Subscriber /\ UNCHANGED vars
      <4>1. awaited' \subseteq awaited
        BY <3>2 DEF Subscriber, HandleEvent, StopGivesUp, RoomEvent, Published, Subscribed,
             Unsubscribed, Notify, ReaderStep, Opened, StartReader, StreamClosed,
             ReaderCancelled, ForgetTrack, StreamEnds, Move
      <4> QED BY <3>2, <4>1 DEF AttendedInv, vars
    <3>3. CASE (Processor \/ Submit) /\ UNCHANGED subVars
      <4>1. closer' = closer \/ closer = "joining"
        BY <3>3 DEF Processor, Drain, Start, Infers, Raises, Sinks, Crashes, Cancelled,
                    Joined, GivesUp, Submit
      <4> QED BY <3>3, <4>1 DEF AttendedInv, subVars
    <3> QED BY <1>2, <3>1, <3>2, <3>3 DEF SubscriberNext, Frame
  <2> QED BY <2>1, <2>2, <2>3 DEF AttendedInv
<1> QED BY <1>1, <1>2

(* While stop() waits, for readers and then for the worker, what it waits   *)
(* for is over, closing or about to be cancelled, and no reader starts      *)
(* again: whatever the Room, the streams and the provider do, stop() is     *)
(* never left with a task that nobody has told to end.                      *)
THEOREM StopIsAttended == SubscriberSpec => []StopGoesOn /\ NoReaderReturns
<1>1. SubscriberInit => AttendedInv
  BY DEF SubscriberInit, Init, AttendedInv
<1>2. Inv /\ SubInv /\ AttendedInv /\ [SubscriberNext]_allVars => AttendedInv'
  BY AttendedStep
<1>3. Inv /\ SubInv /\ AttendedInv => StopGoesOn
  <2> SUFFICES ASSUME Inv, SubInv, AttendedInv PROVE StopGoesOn
    OBVIOUS
  <2>1. ASSUME awaited # {}
        PROVE  \/ closer \in {"absent", "failed"} /\ \A r \in awaited : stage[r] \notin Live
               \/ \E r \in awaited : CanEnd(r)
    BY <2>1 DEF AttendedInv, SubInv, SubscriberTypeOK, ShutInv
  <2>2. closer = "joining" => CanJoin
    BY DEF AttendedInv, Inv, StopInv
  <2> QED BY <2>1, <2>2 DEF StopGoesOn
<1>4. SubInv /\ AttendedInv /\ [SubscriberNext]_allVars =>
        [\A r \in Readers : shut /\ stage[r] \notin Live => stage'[r] \notin Live]_allVars
  BY EndKept
<1> QED BY <1>1, <1>2, <1>3, <1>4, SubscriberInvariance, RunsProcessor, Invariance, PTL
    DEF SubscriberSpec, NoReaderReturns
=============================================================================
