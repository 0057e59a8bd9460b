---------------------------- MODULE LatestFrame ----------------------------
(***************************************************************************)
(* LatestFrameSlot and LatestFrameProcessor (backend/live_agent.py): the   *)
(* capacity-one slot between the camera's callbacks and the provider, the  *)
(* worker task that drains it, and stop() / aclose().                      *)
(*                                                                         *)
(* Frames are numbered in the order of submission, and a worker task       *)
(* carries the number of the frame whose submission created it.  A worker  *)
(* runs without interleaving between two awaits: the start of the task,    *)
(* the inference, the result callback and the error callback.              *)
(***************************************************************************)
EXTENDS Naturals

CONSTANT MaxFrames   \* bound on the frames submitted in a behaviour

ASSUME MaxFramesAssumption == MaxFrames \in Nat

VARIABLES submitted,   \* number of the newest accepted frame
          slot,        \* the pending frame, or 0
          taken,       \* the newest frame the worker took from the slot
          worker,      \* _worker_task, or 0
          pc,          \* where each task is
          cancelling,  \* tasks with a CancelledError on its way
          closed,      \* _closed of the processor and of its slot
          retained,    \* _last_frame and _last_error hold a payload
          closer       \* the caller of aclose()

vars == <<submitted, slot, taken, worker, pc, cancelling, closed, retained, closer>>

Frames == 1..MaxFrames
Awaiting == {"inferring", "sinking", "erring"}
Alive == {"scheduled"} \cup Awaiting
Ended == {"none", "ended", "crashed"}

TypeOK ==
  /\ submitted \in 0..MaxFrames
  /\ slot \in 0..MaxFrames
  /\ taken \in 0..MaxFrames
  /\ worker \in 0..MaxFrames
  /\ pc \in [Frames -> Alive \cup Ended]
  /\ cancelling \subseteq Frames
  /\ closed \in BOOLEAN
  /\ retained \subseteq {"frame", "error"}
  /\ closer \in {"absent", "joining", "failed", "done"}

Init ==
  /\ submitted = 0
  /\ slot = 0
  /\ taken = 0
  /\ worker = 0
  /\ pc = [t \in Frames |-> "none"]
  /\ cancelling = {}
  /\ closed = FALSE
  /\ retained = {}
  /\ closer = "absent"

WorkerAlive == \E t \in Frames : worker = t /\ pc[t] \in Alive

-----------------------------------------------------------------------------
(* submit_nowait *)

(* Variant: a task is created for every frame. *)
EnsureWorkerAlways(f) ==
  /\ worker' = f
  /\ pc' = [pc EXCEPT ![f] = "scheduled"]

(* A worker that is not done is kept. *)
EnsureWorker(f) ==
  IF WorkerAlive
    THEN UNCHANGED <<worker, pc>>
    ELSE /\ worker' = f
         /\ pc' = [pc EXCEPT ![f] = "scheduled"]

(* Variant: a full slot keeps the frame it has. *)
PutUnlessFull(f) == slot' = IF slot = 0 THEN f ELSE slot

(* The slot has room for one frame, the newest. *)
Put(f) == slot' = f

Submit ==
  /\ ~closed /\ submitted < MaxFrames
  /\ submitted' = submitted + 1
  /\ Put(submitted + 1)
  /\ EnsureWorker(submitted + 1)
  /\ UNCHANGED <<taken, cancelling, closed, retained, closer>>

-----------------------------------------------------------------------------
(* _drain *)

(* The task ends; its finally clause forgets it. *)
End(t, how) ==
  /\ pc' = [pc EXCEPT ![t] = how]
  /\ worker' = IF worker = t THEN 0 ELSE worker
  /\ UNCHANGED <<slot, taken>>

(* Variant: a worker that has a frame ends without looking for the next. *)
LoopOnce(t) ==
  IF pc[t] # "scheduled"
    THEN End(t, "ended") /\ UNCHANGED retained
    ELSE /\ taken' = slot
         /\ slot' = 0
         /\ pc' = [pc EXCEPT ![t] = "inferring"]
         /\ UNCHANGED <<worker, retained>>

(* The head of the loop: leave, or take the pending frame to the provider. *)
Loop(t) ==
  \/ /\ closed \/ slot = 0
     /\ End(t, "ended")
     /\ UNCHANGED retained
  \/ /\ ~closed /\ slot # 0
     /\ taken' = slot
     /\ slot' = 0
     /\ pc' = [pc EXCEPT ![t] = "inferring"]
     /\ retained' = retained \ {"error"}
     /\ UNCHANGED worker

Start(t) ==
  /\ pc[t] = "scheduled" /\ t \notin cancelling
  /\ Loop(t)
  /\ UNCHANGED <<submitted, cancelling, closed, closer>>

(* Enter a callback with what the provider or the previous callback left.  *)
Call(t, where, kind) ==
  /\ pc' = [pc EXCEPT ![t] = where]
  /\ retained' = retained \cup {kind}
  /\ UNCHANGED <<slot, taken, worker>>

(* Variant: the result is reported without looking at _closed again. *)
SettleUnfenced(t, where, kind) == Call(t, where, kind)

(* A result or an exception that arrives after stop() is dropped. *)
Settle(t, where, kind) ==
  \/ closed /\ End(t, "ended") /\ UNCHANGED retained
  \/ ~closed /\ Call(t, where, kind)

Infers(t) ==
  /\ pc[t] = "inferring"
  /\ Settle(t, "sinking", "frame")
  /\ UNCHANGED <<submitted, cancelling, closed, closer>>

(* The provider or the result callback raises. *)
Raises(t) ==
  /\ pc[t] \in {"inferring", "sinking"}
  /\ Settle(t, "erring", "error")
  /\ UNCHANGED <<submitted, cancelling, closed, closer>>

(* A callback returns. *)
Sinks(t) ==
  /\ pc[t] \in {"sinking", "erring"}
  /\ Loop(t)
  /\ UNCHANGED <<submitted, cancelling, closed, closer>>

(* The error callback raises: the exception ends the task, and aclose(),    *)
(* if it is waiting for the task, raises it too.                            *)
Crashes(t) ==
  /\ pc[t] = "erring"
  /\ End(t, "crashed")
  /\ closer' = IF closer = "joining" THEN "failed" ELSE closer
  /\ UNCHANGED <<submitted, cancelling, closed, retained>>

(* CancelledError reaches the task.  One that has not started never runs    *)
(* its finally clause.  A callee may also swallow the exception and go on.  *)
Cancelled(t) ==
  /\ t \in cancelling
  /\ \/ pc[t] \in Awaiting /\ End(t, "ended")
     \/ /\ pc[t] = "scheduled"
        /\ pc' = [pc EXCEPT ![t] = "ended"]
        /\ UNCHANGED <<slot, taken, worker>>
  /\ UNCHANGED <<submitted, cancelling, closed, retained, closer>>

-----------------------------------------------------------------------------
(* stop and aclose *)

(* The slot is emptied, the diagnostics are released, and a task that is    *)
(* not done is cancelled if the caller wants that.                          *)
Halt(cancel) ==
  /\ closed' = TRUE
  /\ slot' = 0
  /\ retained' = {}
  /\ cancelling' = IF cancel /\ WorkerAlive
                     THEN cancelling \cup {worker} ELSE cancelling
  /\ UNCHANGED <<submitted, taken, worker, pc>>

Stop(cancel) == Halt(cancel) /\ UNCHANGED closer

(* aclose() may be called again after its caller was cancelled or it raised. *)
Aclose(cancel) ==
  /\ closer \in {"absent", "failed"}
  /\ Halt(cancel)
  /\ closer' = "joining"

(* Variant: aclose() waits for the reference to be cleared, which a task     *)
(* cancelled before its first step never does.                              *)
JoinedWhenForgotten ==
  /\ closer = "joining"
  /\ worker = 0
  /\ closer' = "done"
  /\ retained' = {}
  /\ UNCHANGED <<submitted, slot, taken, worker, pc, cancelling, closed>>

(* wait_idle() returns: there is no task, or the task is done. *)
Joined ==
  /\ closer = "joining"
  /\ ~WorkerAlive
  /\ closer' = "done"
  /\ retained' = {}
  /\ UNCHANGED <<submitted, slot, taken, worker, pc, cancelling, closed>>

(* The caller of aclose() is cancelled while it waits. *)
GivesUp ==
  /\ closer = "joining"
  /\ closer' = "absent"
  /\ UNCHANGED <<submitted, slot, taken, worker, pc, cancelling, closed, retained>>

-----------------------------------------------------------------------------
Drain(t) ==
  Start(t) \/ Infers(t) \/ Raises(t) \/ Sinks(t) \/ Crashes(t) \/ Cancelled(t)

Next ==
  \/ Submit
  \/ \E t \in Frames : Drain(t)
  \/ \E cancel \in BOOLEAN : Stop(cancel) \/ Aclose(cancel)
  \/ Joined \/ GivesUp

Spec == Init /\ [][Next]_vars

-----------------------------------------------------------------------------
(* Properties *)

(* There is at most one worker, and so at most one inference, although      *)
(* frames arrive, workers end, crash and are cancelled at any time, and     *)
(* the worker the processor would wait for at shutdown is that one.         *)
OneWorker == \A t \in Frames : pc[t] \in Alive => worker = t

(* What waits and what is done, of the pipeline of LatestWins: a worker's   *)
(* job lasts through the inference and the callbacks with its frame.        *)
Jobs == {<<t, taken>> : t \in {u \in Frames : pc[u] \in Awaiting}}

Pipe == INSTANCE LatestWins WITH
  Items   <- Frames,
  Workers <- Frames,
  None    <- 0,
  Reopens <- FALSE,
  open    <- ~closed,
  pending <- slot,
  work    <- Jobs

(* However submissions, crashes, cancellations and stop() interleave with   *)
(* the worker's awaits, the processor is a pipeline with one place: every   *)
(* job is on the newest frame that was submitted when it began, ends before *)
(* the next one begins, and none begins after stop().                       *)
ImplementsLatestWins == Pipe!Spec

(* Until the processor is stopped, the newest frame is pending or was the   *)
(* last one taken: a burst drops only frames that a newer one replaced, and *)
(* the provider goes on with the newest.                                    *)
NewestIsKept ==
  ~closed => slot = submitted \/ (slot = 0 /\ taken = submitted)

(* After stop() no payload is kept and no callback is entered, even when    *)
(* the provider swallows its cancellation and answers after all.            *)
NothingKeptAfterStop == closed => slot = 0 /\ retained = {}
NoCallbackAfterStop ==
  [][\A t \in Frames : closed /\ pc'[t] # pc[t] => pc'[t] \notin Awaiting]_vars

(* aclose() reports completion only when no inference is left running.      *)
ClosedIsIdle == closer = "done" => \A t \in Frames : pc[t] \notin Alive

(* A pending frame reaches the provider, unless a newer one replaces it,    *)
(* the processor is stopped, or an error callback that raised has left the  *)
(* slot without a worker.                                                   *)
WorkerCrashed == ~WorkerAlive /\ \E t \in Frames : pc[t] = "crashed"
PendingIsTaken == \A f \in Frames : slot = f ~> slot # f \/ WorkerCrashed
=============================================================================
