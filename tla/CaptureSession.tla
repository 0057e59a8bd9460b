--------------------------- MODULE CaptureSession ---------------------------
(***************************************************************************)
(* The capture session of the browser: captureReducer                      *)
(* (app/src/capture/captureReducer.ts), the App component that dispatches  *)
(* to it (app/src/App.tsx) and the shutter of CameraPreview.               *)
(*                                                                         *)
(* A dispatched action is reduced in order but becomes visible to handlers *)
(* and effects only when React commits a render.  session is the state     *)
(* after every dispatched action, shown the last committed one.  React     *)
(* commits what a click or an upload dispatched before that event is over; *)
(* what a promise dispatched (a camera frame, the provider's answer) is    *)
(* committed some time later, together with whatever was dispatched until  *)
(* then.                                                                   *)
(***************************************************************************)
EXTENDS Naturals, Sequences

CONSTANTS None,         \* null
          MaxRequests,  \* bound on the provider requests of a behaviour
          MaxAttempts   \* bound on the starts of the camera

ASSUME BoundsAssumption == MaxRequests \in Nat /\ MaxAttempts \in Nat

Order == <<"front", "back", "tag">>             \* CAPTURE_SLOTS
Slots == {Order[i] : i \in 1..3}
Requests == 1..MaxRequests

VARIABLES session,   \* CaptureState after every dispatched action
          shown,     \* CaptureState of the last commit, and stateRef.current
          locked,    \* submissionInFlightRef
          asking,    \* calls of the provider that have not answered
          made,      \* requestSequence
          camera,    \* the preview: playing, attemptRef, captureActiveRef
          grabs,     \* the camera starts whose frame is being encoded
          editing,   \* editStarted
          passed     \* the photos the provider accepted, each for its shot

vars == <<session, shown, locked, asking, made, camera, grabs, editing, passed>>

(* A photo is known by the first request that carried it. *)
Photos == [Slots -> Requests \cup {None}]
Pending == [slot : Slots, photo : Requests, req : Requests]

ASSUME NoneAssumption == None \notin Requests /\ None \notin Pending

(* CaptureState, one shape for each status. *)
CaptureState ==
  [step : Slots, status : {"capturing"}, slots : Photos, pending : {None}]
  \cup [step : Slots, status : {"analyzing", "error"}, slots : Photos, pending : Pending]
  \cup [step : {"edit"}, status : {"ready_to_edit"}, slots : Photos, pending : {None}]

TypeOK ==
  /\ session \in CaptureState
  /\ shown \in CaptureState
  /\ locked \in BOOLEAN
  /\ asking \subseteq [req : Requests, slot : Slots, photo : Requests, attempt : 0..MaxAttempts]
  /\ made \in 0..MaxRequests
  /\ camera \in [playing : BOOLEAN, attempt : 0..MaxAttempts, busy : BOOLEAN]
  /\ grabs \subseteq 0..MaxAttempts
  /\ editing \in BOOLEAN
  /\ passed \subseteq Slots \X Requests

Start0 ==
  [step |-> "front", status |-> "capturing", slots |-> [s \in Slots |-> None], pending |-> None]

Init ==
  /\ session = Start0
  /\ shown = Start0
  /\ locked = FALSE
  /\ asking = {}
  /\ made = 0
  /\ camera = [playing |-> FALSE, attempt |-> 0, busy |-> FALSE]
  /\ grabs = {}
  /\ editing = FALSE
  /\ passed = {}

-----------------------------------------------------------------------------
(* captureReducer: what an action makes of a state *)

State(step, status, slots, pending) ==
  [step |-> step, status |-> status, slots |-> slots, pending |-> pending]

Missing(slots) == {i \in 1..3 : slots[Order[i]] = None}

(* Variant: the last shot that is missing. *)
NextStepLast(slots) ==
  IF Missing(slots) = {} THEN "edit"
  ELSE Order[CHOOSE i \in Missing(slots) : \A j \in Missing(slots) : j <= i]

(* nextCaptureStep: the first shot that is missing. *)
NextStep(slots) ==
  IF Missing(slots) = {} THEN "edit"
  ELSE Order[CHOOSE i \in Missing(slots) : \A j \in Missing(slots) : i <= j]

Submitted(s, p) ==
  IF s.status = "capturing" /\ s.step = p.slot
    THEN State(s.step, "analyzing", s.slots, p) ELSE s

(* Variant: an answer is matched by its shot alone. *)
AwaitsShot(s, r) ==
  s.status = "analyzing" /\ s.pending.slot = r.slot /\ s.step = r.slot

(* The state waits for the answer to request r. *)
Awaits(s, r) ==
  /\ s.status = "analyzing"
  /\ s.pending.slot = r.slot /\ s.pending.req = r.req
  /\ s.step = r.slot

(* Variant: a rejected photo empties its slot. *)
AssessedDropping(s, r, ok) ==
  LET slots == [s.slots EXCEPT ![r.slot] = IF ok THEN s.pending.photo ELSE None]
      step == IF ok THEN NextStep(slots) ELSE s.step
  IN IF Awaits(s, r)
       THEN State(step, IF step = "edit" THEN "ready_to_edit" ELSE "capturing", slots, None)
       ELSE s

Assessed(s, r, ok) ==
  LET slots == IF ok THEN [s.slots EXCEPT ![r.slot] = s.pending.photo] ELSE s.slots
      step == IF ok THEN NextStep(slots) ELSE s.step
  IN IF Awaits(s, r)
       THEN State(step, IF step = "edit" THEN "ready_to_edit" ELSE "capturing", slots, None)
       ELSE s

ProviderFailed(s, r) ==
  IF Awaits(s, r) THEN State(s.step, "error", s.slots, s.pending) ELSE s

(* Variant: the retry waits for the answer that failed. *)
RetriedUnderOldId(s, req) ==
  IF s.status = "error" THEN State(s.step, "analyzing", s.slots, s.pending) ELSE s

Retried(s, req) ==
  IF s.status = "error"
    THEN State(s.step, "analyzing", s.slots, [s.pending EXCEPT !.req = req]) ELSE s

(* Variant: the photo under assessment stays pending. *)
RetakenKeepingPending(s, slot) ==
  IF s.slots[slot] # None \/ s.step = slot
    THEN State(slot, "capturing", s.slots, s.pending) ELSE s

(* A retake may not jump over a shot that is missing. *)
Retaken(s, slot) ==
  IF s.slots[slot] # None \/ s.step = slot
    THEN State(slot, "capturing", s.slots, None) ELSE s

EditRequested(s) ==
  IF s.status # "analyzing" /\ s.pending = None /\ Missing(s.slots) = {}
    THEN State("edit", "ready_to_edit", s.slots, None) ELSE s

-----------------------------------------------------------------------------
(* React *)

(* The effect that ends a submission runs when the step or the status of    *)
(* the commit differs from those of the commit before.                      *)
Unlock(s, l) ==
  locked' = (l /\ (s.status # "capturing"
                   \/ (s.step = shown.step /\ s.status = shown.status)))

(* A commit; the camera preview is unmounted when no shot is requested.     *)
Commit(s) ==
  /\ shown' = s
  /\ camera' = IF s.step = "edit" THEN [camera EXCEPT !.playing = FALSE] ELSE camera

(* An action dispatched by a click, committed at once. *)
Click(s) == session' = s /\ Commit(s) /\ Unlock(s, locked)

Render ==
  /\ shown # session
  /\ Commit(session)
  /\ Unlock(session, locked)
  /\ UNCHANGED <<session, asking, made, grabs, editing, passed>>

-----------------------------------------------------------------------------
(* App *)

CanSubmit == shown.status = "capturing" /\ shown.step \in Slots /\ ~locked

(* runAssessment calls the provider. *)
Ask(slot, photo, attempt) ==
  /\ made < MaxRequests
  /\ made' = made + 1
  /\ asking' = asking \cup
       {[req |-> made + 1, slot |-> slot, photo |-> photo, attempt |-> attempt]}

Capture == [slot |-> shown.step, photo |-> made + 1, req |-> made + 1]

(* submitImage of an uploaded file: the change event commits the action     *)
(* before the provider can answer.                                          *)
Upload ==
  /\ CanSubmit
  /\ Ask(shown.step, made + 1, 0)
  /\ session' = Submitted(session, Capture)
  /\ Commit(session')
  /\ Unlock(session', TRUE)
  /\ UNCHANGED <<grabs, editing, passed>>

(* handleRetryAnalysis *)
Retry ==
  /\ shown.status = "error"
  /\ Ask(shown.pending.slot, shown.pending.photo, 0)
  /\ Click(Retried(session, made + 1))
  /\ UNCHANGED <<grabs, editing, passed>>

(* The button of an accepted photo, or of a failed assessment. *)
Retake(slot) ==
  /\ shown.step \in Slots
  /\ shown.slots[slot] # None \/ (shown.status = "error" /\ shown.step = slot)
  /\ Click(Retaken(session, slot))
  /\ UNCHANGED <<asking, made, grabs, editing, passed>>

StartEdit ==
  /\ shown.status = "ready_to_edit" /\ ~editing
  /\ editing' = TRUE
  /\ Click(EditRequested(session))
  /\ UNCHANGED <<asking, made, grabs, passed>>

(* The end of captureCurrentFrame, unless the camera was stopped meanwhile. *)
Release(attempt) ==
  camera' = IF camera.playing /\ camera.attempt = attempt
              THEN [camera EXCEPT !.busy = FALSE] ELSE camera

(* The provider accepts or rejects the photo of a request, or fails.        *)
Answer(r, verdict) ==
  /\ asking' = asking \ {r}
  /\ session' = IF verdict = "error" THEN ProviderFailed(session, r)
                ELSE Assessed(session, r, verdict = "accept")
  /\ passed' = IF verdict = "accept" THEN passed \cup {<<r.slot, r.photo>>} ELSE passed
  /\ Release(r.attempt)
  /\ UNCHANGED <<shown, locked, made, grabs, editing>>

-----------------------------------------------------------------------------
(* CameraPreview *)

StartCamera ==
  /\ shown.step \in Slots /\ ~camera.playing
  /\ camera.attempt < MaxAttempts
  /\ camera' = [playing |-> TRUE, attempt |-> camera.attempt + 1, busy |-> FALSE]
  /\ UNCHANGED <<session, shown, locked, asking, made, grabs, editing, passed>>

(* The stop button, or a page that is hidden. *)
StopCamera ==
  /\ camera.playing
  /\ camera' = [playing |-> FALSE, attempt |-> camera.attempt, busy |-> FALSE]
  /\ UNCHANGED <<session, shown, locked, asking, made, grabs, editing, passed>>

Shutter ==
  /\ camera.playing /\ ~camera.busy
  /\ shown.status = "capturing"
  /\ camera' = [camera EXCEPT !.busy = TRUE]
  /\ grabs' = grabs \cup {camera.attempt}
  /\ UNCHANGED <<session, shown, locked, asking, made, editing, passed>>

(* The frame is encoded and handed to submitImage, unless the camera was    *)
(* stopped meanwhile; nobody is in an event that React would commit.        *)
Grabbed(attempt) ==
  /\ grabs' = grabs \ {attempt}
  /\ \/ /\ camera.playing /\ camera.attempt = attempt /\ CanSubmit
        /\ Ask(shown.step, made + 1, attempt)
        /\ session' = Submitted(session, Capture)
        /\ locked' = TRUE
        /\ UNCHANGED camera
     \/ /\ ~(camera.playing /\ camera.attempt = attempt /\ CanSubmit)
        /\ Release(attempt)
        /\ UNCHANGED <<session, locked, asking, made>>
  /\ UNCHANGED <<shown, editing, passed>>

GrabFails(attempt) ==
  /\ grabs' = grabs \ {attempt}
  /\ Release(attempt)
  /\ UNCHANGED <<session, shown, locked, asking, made, editing, passed>>

-----------------------------------------------------------------------------
Answers(req) ==
  \E r \in asking, verdict \in {"accept", "reject", "error"} :
    r.req = req /\ Answer(r, verdict)

Next ==
  \/ Render
  \/ Upload \/ Retry \/ StartEdit
  \/ \E slot \in Slots : Retake(slot)
  \/ \E req \in Requests : Answers(req)
  \/ StartCamera \/ StopCamera \/ Shutter
  \/ \E g \in grabs : Grabbed(g) \/ GrabFails(g)

Spec == Init /\ [][Next]_vars

(* React renders what was dispatched, and the provider's promise settles.   *)
(* Users need not do anything.                                              *)
Fairness == WF_vars(Render) /\ \A req \in Requests : WF_vars(Answers(req))

FairSpec == Spec /\ Fairness

-----------------------------------------------------------------------------
(* Properties *)

Wizard == INSTANCE GuidedCapture WITH
  End     <- "edit",
  Photos  <- Requests,
  step    <- session.step,
  photos  <- session.slots,
  review  <- IF session.pending = None THEN None ELSE session.pending.photo,
  waiting <- session.status = "analyzing"

(* Whatever answers come late, whatever handlers act on a state React has   *)
(* not replaced yet, and whatever is retried or retaken meanwhile, the      *)
(* session is a wizard with one photo under review: only the verdict on     *)
(* that photo moves it on, and nothing changes once editing has started.    *)
ImplementsGuidedCapture == Wizard!Spec

(* A slot holds a photo only if the provider accepted that very photo for   *)
(* that shot: late answers of abandoned requests, retries and retakes never *)
(* put another photo there.                                                 *)
PhotosWereAccepted ==
  \A s \in Slots : session.slots[s] # None => <<s, session.slots[s]>> \in passed

(* No answer of the provider and no retake leads past a required shot: the  *)
(* shots before the current step, all three before editing, have photos.    *)
NothingSkipped ==
  \A i \in 1..3 :
    (\A j \in 1..i : session.step # Order[j]) \/ editing => session.slots[Order[i]] # None

(* An accepted photo stays until another one for the same shot is accepted, *)
(* and nothing but the shot being taken changes.                            *)
AcceptedPhotosAreKept ==
  [][\A s \in Slots : session'.slots[s] # session.slots[s] =>
       session.step = s /\ session'.slots[s] # None]_vars

(* The session never waits for an answer that nobody is going to give.      *)
AnalysisIsAwaited ==
  session.status = "analyzing" =>
    \E r \in asking : r.req = session.pending.req /\ r.slot = session.step

(* What the user sees as ready for a photo takes one: submitImage does not  *)
(* ignore the photo as a duplicate of a submission that is over.            *)
ReadyAcceptsPhoto ==
  shown = session /\ shown.status = "capturing" => ~locked

(* An analysis ends on the screen too: accepted, rejected or failed.        *)
AnalysisEnds == shown.status = "analyzing" ~> shown.status # "analyzing"
=============================================================================
