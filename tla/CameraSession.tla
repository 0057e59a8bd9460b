--------------------------- MODULE CameraSession ---------------------------
(***************************************************************************)
(* CameraController (app/src/camera/cameraController.ts) and the starting  *)
(* and stopping half of CameraPreview (app/src/camera/CameraPreview.tsx).  *)
(*                                                                         *)
(* start() makes a task, known by its lifecycle token, that asks for the   *)
(* camera, attaches the stream to the video element and plays it; stop()   *)
(* only takes a new token, and the task finds out at its next check.       *)
(* A task runs without interleaving between two awaits.                    *)
(***************************************************************************)
EXTENDS Naturals, FiniteSets

CONSTANT MaxAttempts   \* bound on the starts and stops of a behaviour

ASSUME BoundAssumption == MaxAttempts \in Nat

VARIABLES token,      \* lifecycleToken
          running,    \* running
          stream,     \* the current stream, known by its task, or 0
          startTask,  \* startTask and startTaskToken, or 0
          stage,      \* where each task is
          after,      \* the task that a queued task waits for
          lit,        \* streams whose tracks are live: the camera is on
          source,     \* video.srcObject, or 0
          view,       \* what the preview shows
          attempt,    \* attemptRef
          waits       \* startCamera calls that await a task

vars == <<token, running, stream, startTask, stage, after, lit, source, view, attempt, waits>>

Tokens == 1..MaxAttempts
Token0 == 0..MaxAttempts
Attached == {"attaching", "loading", "replaying"}
Active == Attached \cup {"asking", "stranded", "aborting"}
Unfinished == Active \cup {"queued"}
Ended == {"none", "quiet", "thrown"}

TypeOK ==
  /\ token \in Token0
  /\ running \in BOOLEAN
  /\ stream \in Token0
  /\ startTask \in Token0
  /\ stage \in [Tokens -> Unfinished \cup Ended]
  /\ after \in [Tokens -> Token0]
  /\ lit \subseteq Tokens
  /\ source \in Token0
  /\ view \in {"idle", "requesting", "playing", "failed", "unmounted"}
  /\ attempt \in Token0
  /\ waits \subseteq [attempt : Tokens, task : Tokens]

Init ==
  /\ token = 0
  /\ running = FALSE
  /\ stream = 0
  /\ startTask = 0
  /\ stage = [t \in Tokens |-> "none"]
  /\ after = [t \in Tokens |-> 0]
  /\ lit = {}
  /\ source = 0
  /\ view = "idle"
  /\ attempt = 0
  /\ waits = {}

-----------------------------------------------------------------------------
(* CameraController.start *)

(* A new task, queued behind another one (p) or asking for the camera.      *)
NewTask(p) ==
  /\ token' = token + 1
  /\ startTask' = token + 1
  /\ stage' = [stage EXCEPT ![token + 1] = IF p = 0 THEN "asking" ELSE "queued"]
  /\ after' = [after EXCEPT ![token + 1] = p]

(* The caller awaits a task; that of the token has ended if it is running.  *)
Awaits(t) == waits' = waits \cup {[attempt |-> attempt + 1, task |-> t]}

Shares == Awaits(token) /\ UNCHANGED <<token, startTask, stage, after>>

(* Variant: a restart does not wait for the task that was stopped. *)
StartTaskOverlapping ==
  \/ ~running /\ (startTask = 0 \/ startTask # token) /\ NewTask(0) /\ Awaits(token + 1)
  \/ (running \/ (startTask # 0 /\ startTask = token)) /\ Shares

(* Variant: whether there is a task at all is not looked at. *)
StartTaskByToken ==
  \/ (running \/ startTask = token) /\ Shares
  \/ ~running /\ startTask # token /\ NewTask(startTask) /\ Awaits(token + 1)

(* Nothing to do while running; a pending start is shared, unless it was    *)
(* stopped, which the restart waits for.                                    *)
StartTask ==
  \/ running /\ Shares
  \/ /\ ~running /\ startTask # 0 /\ startTask = token
     /\ Shares
  \/ /\ ~running /\ (startTask = 0 \/ startTask # token)
     /\ NewTask(startTask) /\ Awaits(token + 1)

(* The button, or a second press before it is disabled. *)
StartCamera ==
  /\ view \in {"idle", "failed", "requesting"}
  /\ attempt < MaxAttempts
  /\ view' = "requesting"
  /\ attempt' = attempt + 1
  /\ StartTask
  /\ UNCHANGED <<running, stream, lit, source>>

-----------------------------------------------------------------------------
(* CameraController.startInternal *)

Unchecked == <<token, after, view, attempt, waits>>

(* The task ends; finally forgets it unless a later one took its place. *)
Ends(t, how) ==
  /\ stage' = [stage EXCEPT ![t] = how]
  /\ startTask' = IF startTask = t THEN 0 ELSE startTask

(* The catch clause: the stream, if there is one, is released with the video. *)
Fails(t, how) ==
  /\ Ends(t, how)
  /\ running' = FALSE
  /\ stream' = IF stream = t THEN 0 ELSE stream

Release(t) == lit' = lit \ {t} /\ source' = 0

(* The awaited task has ended, one way or another. *)
Begin(t) ==
  /\ stage[t] = "queued" /\ stage[after[t]] \in Ended
  /\ \/ /\ t = token
        /\ stage' = [stage EXCEPT ![t] = "asking"]
        /\ UNCHANGED <<running, stream, startTask>>
     \/ /\ t # token
        /\ Ends(t, "quiet")
        /\ running' = FALSE
        /\ UNCHANGED stream
  /\ UNCHANGED <<lit, source, Unchecked>>

(* getUserMedia rejects, or the browser cannot offer it. *)
Refused(t) ==
  /\ stage[t] = "asking"
  /\ Ends(t, "thrown")
  /\ running' = FALSE
  /\ UNCHANGED <<stream, lit, source, Unchecked>>

(* The stream arrives, and is released at once when the start was stopped.  *)
Acquired(t) ==
  /\ stage[t] = "asking"
  /\ \/ /\ t = token
        /\ stream' = t /\ source' = t /\ lit' = lit \cup {t}
        /\ stage' = [stage EXCEPT ![t] = "attaching"]
        /\ UNCHANGED <<running, startTask>>
     \/ t # token /\ Fails(t, "quiet") /\ Release(t)
  /\ UNCHANGED Unchecked

(* play() resolves. *)
Plays(t) ==
  /\ stage[t] \in {"attaching", "replaying"}
  /\ \/ /\ t = token
        /\ running' = TRUE
        /\ Ends(t, "quiet")
        /\ UNCHANGED <<stream, lit, source>>
     \/ t # token /\ Fails(t, "quiet") /\ Release(t)
  /\ UNCHANGED Unchecked

(* play(), or loading the attached stream, fails for good. *)
PlayFails(t) ==
  /\ stage[t] \in {"attaching", "replaying", "aborting"} \/ (stage[t] = "loading" /\ source = t)
  /\ Fails(t, "thrown") /\ Release(t)
  /\ UNCHANGED Unchecked

(* The first play() is aborted, by the browser or by pause(). *)
Aborted(t) ==
  /\ stage[t] = "attaching"
  /\ stage' = [stage EXCEPT ![t] = "loading"]
  /\ UNCHANGED <<running, stream, startTask, lit, source, Unchecked>>

(* Variant: without the timeout only loadeddata ends the wait. *)
ReplayedWhenLoaded(t) ==
  /\ stage[t] = "loading" /\ source = t
  /\ stage' = [stage EXCEPT ![t] = "replaying"]
  /\ UNCHANGED <<running, stream, startTask, lit, source, Unchecked>>

(* loadeddata or the timeout, then play() again; on an element without a    *)
(* source its promise stays pending.                                        *)
Replayed(t) ==
  /\ stage[t] = "loading"
  /\ stage' = [stage EXCEPT ![t] = IF source = t THEN "replaying" ELSE "stranded"]
  /\ UNCHANGED <<running, stream, startTask, lit, source, Unchecked>>

-----------------------------------------------------------------------------
(* Stopping, and the end of startCamera *)

(* pause() aborts a play() that was pending. *)
Paused(st) == [t \in Tokens |-> IF st[t] = "stranded" THEN "aborting" ELSE st[t]]

(* stopCamera by the button, a hidden page or the end of the component. *)
StopCamera(how) ==
  /\ view # "unmounted" /\ attempt < MaxAttempts
  /\ view' = how
  /\ attempt' = attempt + 1
  /\ token' = token + 1
  /\ running' = FALSE
  /\ stream' = 0 /\ lit' = lit \ {stream} /\ source' = 0
  /\ stage' = Paused(stage)
  /\ UNCHANGED <<startTask, after, waits>>

(* What a startCamera call shows when its task has ended. *)
Shows(t) ==
  IF stage[t] = "thrown" THEN "failed" ELSE IF running THEN "playing" ELSE "idle"

(* Variant: the attempt is not compared after the await. *)
ReturnUnchecked(w) ==
  /\ stage[w.task] \in Ended
  /\ waits' = waits \ {w}
  /\ view' = IF view = "unmounted" THEN view ELSE Shows(w.task)
  /\ UNCHANGED <<token, running, stream, startTask, stage, after, lit, source, attempt>>

Return(w) ==
  /\ stage[w.task] \in Ended
  /\ waits' = waits \ {w}
  /\ view' = IF view # "unmounted" /\ w.attempt = attempt THEN Shows(w.task) ELSE view
  /\ UNCHANGED <<token, running, stream, startTask, stage, after, lit, source, attempt>>

-----------------------------------------------------------------------------
Task(t) ==
  \/ Begin(t)
  \/ Acquired(t) \/ Refused(t)
  \/ Plays(t) \/ PlayFails(t) \/ Aborted(t) \/ Replayed(t)

Next ==
  \/ StartCamera
  \/ \E how \in {"idle", "unmounted"} : StopCamera(how)
  \/ \E t \in Tokens : Task(t)
  \/ \E w \in waits : Return(w)

Spec == Init /\ [][Next]_vars

(* The permission prompt is answered, a play() on a video with a source     *)
(* settles, and promises run their continuations.                           *)
Fairness ==
  /\ \A t \in Tokens : WF_vars(Task(t))
  /\ WF_vars(\E w \in waits : Return(w))

FairSpec == Spec /\ Fairness

-----------------------------------------------------------------------------
(* Properties *)

(* A restart does not overlap two camera acquisitions, however often the    *)
(* page is hidden and the button pressed while a start is pending.          *)
OneAcquisition == Cardinality({t \in Tokens : stage[t] \in Active}) <= 1

(* The camera is on only while the preview plays or is starting: a stream   *)
(* that arrives after stop(), or whose playback failed, is turned off.      *)
CameraOnIsShown == lit # {} => view \in {"requesting", "playing"}

(* What the preview shows as playing is the current, live, attached stream; *)
(* no task that was overtaken detaches it or switches it off.               *)
PlayingIsLive ==
  view = "playing" => running /\ stream # 0 /\ lit = {stream} /\ source = stream

(* The preview does not stay in preparation, unless a play() without a      *)
(* source holds up the task.                                                *)
Stranded == \E t \in Tokens : stage[t] = "stranded"
RequestIsAnswered == view = "requesting" ~> view # "requesting" \/ Stranded

(* The restart that start() queued behind a stopped start is performed, or  *)
(* is cancelled itself.                                                     *)
RestartIsPerformed == \A t \in Tokens : stage[t] = "queued" ~> stage[t] # "queued"
=============================================================================
