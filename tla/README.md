# Team-D in TLA+: live guidance, capture session, camera, scheduling and the API

Team-D is a guided photo-capture product. A React app (`app/src`) walks a seller
through three required photographs of a garment, a LiveKit Agent (`backend`)
watches the camera and sends advice over a data channel, and stateless HTTP
endpoints assess, measure and edit the photographs with providers the backend
does not trust. This directory holds TLA+ models of the stateful, concurrent
part of that program and of the endpoints, the TLC configurations that check
them on small instances, and TLAPS proofs of their main safety properties for
every size.

All paths below are relative to the repository (`backend/...`, `app/...`).

## 1. Inventory

| Component | State | Operations | Interacts with | Module |
|---|---|---|---|---|
| Guidance transport and state machine: `backend/guidance_transport.py`, `guidance_state_machine.py` | shot, connected, closed, three generation counters, a FIFO lock; sequence number, last code, dedup key | `set_shot`, `resync`, `process_frame`, `mark_disconnected`, `on_reconnected`, `close` | Room's `publish_data`, the vision provider | `GuidanceTransport`, `GuidanceGate` |
| Agent runtime and Room lifecycle: `backend/live_agent.py` (811-1010), `agent.py` | `current_shot`, closing task, set of lifecycle tasks | `set_shot`, frame callback, Room events, `close` | transport, provider, frame processor | `AgentRuntime` |
| Latest-frame slot and processor: `live_agent.py` (77-442) | one pending frame, worker task, last frame and error | `submit_nowait`, the worker, `stop`, `aclose`, `wait_idle` | subscriber, transport, callbacks | `LatestFrame`, `LatestWins` |
| Capture session: `app/src/capture/captureReducer.ts`, `App.tsx` | `CaptureState`, `stateRef`, `submissionInFlightRef`, request sequence | the reducer's actions, upload, retry, retake, edit | assessment endpoint, camera preview, React's commits | `CaptureSession`, `GuidedCapture` |
| Camera controller and preview: `app/src/camera/*` | lifecycle token, start task, stream, `srcObject`, attempt counter, view | `start`, `stop`, `startCamera`, `stopCamera`, shutter | `getUserMedia`, the video element, capture session | `CameraSession` (shutter: `CaptureSession`) |
| Live frame scheduler: `app/src/live/scheduler.ts` | pending and active frame, next due time, wake timer, source callback | `start`, `stop`, `tick`, browser callbacks | browser timers, local analysis | `FrameScheduler`, `LatestWins` |
| Camera track subscriber: `live_agent.py` (592-806) | event tasks, streams being opened, one reader task per track, `_closed` | Room track events, `stop` | Room publications, frame processor | `CameraSubscriber` |
| Local image analysis: `app/src/live/stability-tracker.ts`, `imageQuality.ts`, `pixelRoi.ts` | sliding window of differences | one update per frame | scheduler | planned (tracker) |
| Shot assessment: `backend/analyze_shot.py`, `providers/shot_assessor*.py` | per request | one POST | image normalisation, Responses API | `ApiRequests`, `ProviderContracts` |
| Measurement points: `suggest_measurement_points.py`, `providers/measurement_line*.py` | per request | one POST | image normalisation, Responses API | `ApiRequests`, `ProviderContracts` |
| Background removal: `remove_background.py`, `providers/garment_masker.py` | per request | one POST | image normalisation, rembg sidecar | `ApiRequests`, `ProviderContracts` |
| Background generation: `providers/background_generator.py` | per call | one call, from the smoke tool | Images API | `ApiRequests`, `ProviderContracts` |
| Image normalisation: `image_normalization.py` | process-wide warning filters, in worker threads | one call | endpoints | `ApiRequests` |
| Token endpoint: `livekit_token.py` | none | one POST | configuration, LiveKit SDK | `ApiRequests`, `ProviderContracts` |
| Vision guidance providers: `backend/providers/vision_guidance*.py`, `runtime.py` | none | `infer` | runtime (when it reads the shot) | that reading is in `AgentRuntime` |
| Configuration and entry points: `config.py`, `main.py` and others | read once | - | everything above | the provider mode, the token settings and the wiring of the API in `ApiRequests` |
| Shared schemas, smoke tools, static mock | stateless | - | - | not modelled |

What makes each of them hard, and what makes it correct:

* **Transport.** Six operations share one lock, but inference runs outside it.
  A provider's answer may be overtaken by a disconnect, a reconnect, a shot
  change there and back, a newer frame, or `close()`. A reliable packet that
  raises may have arrived. A task can be cancelled at every await. Correct
  means: advice is only published while the browser has been told the shot it
  is about, and for the newest frame; nothing keeps the lock for ever.
* **Runtime.** The shot exists twice, in the runtime (what the provider is
  asked) and in the transport (what the browser is told), and the two are
  updated by different steps. `close()` joins tasks that wait for the lock it
  has just used. Correct means that both agree, and that nothing happens after
  `close()`.
* **Frame processor.** Submissions race with the end, crash or cancellation of
  the worker. Correct means one inference at a time, the newest frame is never
  the one dropped, and nothing runs or is kept after `stop()`.
* **Capture session.** Answers are late, photos are retried and retaken, and
  state is visible to handlers only after React commits it. Correct means a
  slot holds only a photo that was accepted for it and no shot is skipped.
* **Camera.** A page can be hidden during any await of a start. Correct means
  no two acquisitions, no camera left on, and a preview that says what is true.
* **Scheduler.** Frames own resources. Correct means each is analysed or
  released exactly once, analyses do not overlap or crowd, and a waiting frame
  is not forgotten.
* **Subscriber.** Room events become tasks; the reader of a track that was
  withdrawn is still closing, or waits for its done callback, when the track
  comes back; `stop()` may arrive while a task is opening a stream whose reader
  does not exist yet. Correct means that no track is read twice or after it was
  withdrawn, and that nothing runs after `stop()`, which returns.
* **API requests.** Images are decoded in threads that overlap and replace the
  process-wide warning filters under each other; a deadline cancels the
  provider, but a thread that already runs goes on without its request; the
  provider answers late, out of contract, or never; a live mode without a key
  must not be served by fixtures. Correct means that only the upload decides
  whether it is taken, that a success has what its endpoint promises, and that
  every request is answered.

`PROJECT.json` lists each of these hazards at its line, with the properties that
cover it.

## 2. Modules

```
GuidanceGate  <--refines--  GuidanceTransport  <--extends--  AgentRuntime
                             | MCGuidanceTransport            | MCAgentRuntime
                             | _proofs, _gate                 | _proofs
LatestWins  <--refines--  LatestFrame  <--extends--  CameraSubscriber | _proofs
LatestWins  <--refines--  FrameScheduler | _proofs
GuidedCapture  <--refines--  CaptureSession | _proofs
ProviderContracts  <--extends--  ApiRequests | _proofs, MCApiRequests
CameraSession | _proofs
```

The unit of interleaving is the same everywhere: Python's event loop and
JavaScript's both run a piece of code until its next `await` or its end, so one
action is one such piece; a worker thread interleaves between its calls.
Definitions named `...Unfenced`, `...AtOnce`,
`...Keeping...` and the like, each introduced by "Variant:", are wrong versions
of the definition after them. No specification uses them; each exists to show
that a property would notice that mistake.

**GuidanceGate** is the abstract promise, without lock, generations or flags: a
gate that is open while the browser's last reliable packet names the session's
shot; advice leaves only through the open gate, only for the newest frame
observed since it opened, with a growing sequence number; a frame once forgotten
never comes back.

**GuidanceTransport** has one record for the adapter's fields (`tp`), one for
the state machine's (`sm`), the lock as a holder and a FIFO of waiters, and for
each coroutine call its place (`pc`). `Begin` is the code from the call to its
first await: it either enters the lock's section or queues. `Section`
dispatches to one operator per method. `Grant` is the lock handed to the next
waiter, `Delivered` and `Undelivered` the end of `publish_data`, the latter with
a packet that the browser may or may not have received, `Answer` and
`InferenceFails` the end of an inference, `CancelWait` a cancellation in the
lock's queue, in `publish_data` or in the provider. `peer` is what the browser
was told by the packets it accepted. Times and packet encoding are left out.

**AgentRuntime** extends it: every step is a transport step together with what
the runtime does in the same piece of code (`current_shot` before the call, its
restoration in the exception handler, the question to the provider), plus the
Room's events and the stages of `close()`. `Faults` says which of a dropped
Room, a failed reliable packet and an abandoned caller the environment may
produce. A runtime without a transport is left out.

**LatestWins** is the abstract promise of both frame pipelines, the Agent's
processor and the browser's scheduler: one place for an item that waits, one job
at a time, a newer item replaces the one that waits, a job begins with the item
that waits (or with one offered to an idle pipeline), and a stopped pipeline
begins nothing. In `LatestFrame` the job is a worker inside the provider or a
callback with the frame it took, and stopping is final (`Reopens = FALSE`); in
`FrameScheduler` each promise chain is its own worker, and `start()` reopens.

**GuidedCapture** is the wizard the seller sees, without request numbers, stale
handlers, locks, camera or rendering: one photo under review, for the current
shot; only the verdict on that very photo moves on, to the first shot without a
photo; going back withdraws the photo under review; nothing changes once editing
has started. `CaptureSession` implements it with its reducer's state, the photo
under review being the pending one.

**LatestFrame** numbers frames by submission and names a worker task after the
submission that created it. The worker has its three awaits (inference, result
callback, error callback), can raise or be cancelled at each, and may swallow
the cancellation. Counters and timestamps are left out.

**CameraSubscriber** extends it to the whole path from the Room to the
provider, so that the processor is fed and closed only as the subscriber does
it. Events wait in `queue`, their order, until their task starts; the task runs
to its end in one step unless an injected factory is asynchronous (`slow`).
Readers are slots with a stage (`opening`, `scheduled`, `reading`, `closing`,
`done`, where `done` still has its done callback to run) and `byTrack` is
`_track_tasks`. `struck` holds the cancellations on their way: a reader that is
cancelled before its first step never closes its stream, and one still being
opened never exists. `StopSubscriber` is the code up to the `gather`,
`Gathered` the processor's `aclose()` after it, `StopGivesUp` a caller of
`stop()` that is itself cancelled.

**CaptureSession** separates `session`, the state after every dispatched action,
from `shown`, the state of the last commit, which handlers read through
`stateRef`. React commits what a discrete event (a click, a file input's
change) dispatched before that event is over; updates dispatched from a promise
(an encoded camera frame, an answer) are rendered later, together with whatever
was dispatched until then. Passive effects run in the same step as their commit.
Object URLs, the text of an assessment and `RESET`, which nothing dispatches,
are left out.

**CameraSession** has the controller's token, task and stream, the stage of each
start task (queued behind a stopped one, asking for the camera, attaching,
waiting for data, playing again), which streams are switched on, and the
preview's attempt counter. A `play()` on a video whose source was removed stays
pending until a later `pause()` aborts it, as the HTML standard has it.

**FrameScheduler** keeps the scheduler's fields in one record, so that its
private methods are functions from fields to fields. Times count down to zero:
`wait` is what is left until `nextProcessAt`, `wake` what is left of the timer,
`since` the time since an analysis began. A timer may fire one unit early, as
browsers cut fractional delays. `setTimeout` and the registration of callbacks
do not fail, the caller's callbacks do not re-enter the scheduler, and frame
timestamps are not ahead of the clock.

**ProviderContracts** has, as operators, what the backend accepts: the two JSON
contracts of the Responses API, the mask of the sidecar, the picture of the
Images API, the claims of a token, and the lifetime it is given. A JSON object
is a function whose domain is its keys, a coordinate a number of units of
`1/Scale`, an image a record of what is checked of it.

**ApiRequests** has a coroutine per request (`stage`) and its newest job in a
thread (`job`, `at`). A decoding job enters `catch_warnings` (`Enter`: a copy of
the list that is installed now is installed, and the old one saved), makes the
warning an error in the list installed by then (`Arm`), looks at the image
(`Look`) and installs the list it saved (`Leave`); jobs of several requests do
this in any order, and go on after their request has been answered
(`Abandoned`). Lists are numbers; one that nobody will install again is reused.
The size of the thread pool is left out, since a queued job may start at any
time. `Deadline` is `wait_for` cancelling the provider and `CancelEnds` the end
of the provider; `ReturnsLate` is a client that finishes in spite of its
cancellation, whose result Python then returns. The HTTP client of the sidecar
always passes the cancellation on, so a mask is never late. The background
removal contacts the sidecar in every mode, and the background generator runs
only in the smoke tool's own process. Prompts, names, the wording of errors and
colour conversion are left out.

## 3. Runs

Passing runs:

| Run | Instance | Distinct states | What it shows |
|---|---|---|---|
| `transport` | 4 calls, 2 shots, 2 codes, symmetric | 696,453 | The transport implements the gate in every interleaving, failure and cancellation; the browser is told the shot before advice (`BrowserKnowsShot`); what the dedup key withholds is in the resync snapshot |
| `runtime_steady` | 5 calls, failing packets, symmetric | 117,158 | With a Room that stays up and callers that wait, whatever reliable packets fail, the runtime, the transport and the provider's question agree on the shot, and a frame never undoes a selection |
| `runtime_faults` | 3 calls, all faults, fair | 32,959 | After a completed `close()` nothing happens; every call and `close()` end |
| `camera_tracks` | 1 track, 2 readers, 2 waiting events, 2 frames, fair | 538,226 | No track is read twice or after it was withdrawn; the processor implements `LatestWins`; the newest frame survives and is taken; nothing runs after `stop()`, which returns |
| `capture` | 5 provider requests, 2 camera starts, fair | 204,483 | The session implements `GuidedCapture`; only accepted photos fill slots, and they stay; an analysis always has someone who will answer it, and ends on the screen |
| `camera` | 6 starts and stops, fair | 58,343 | One acquisition; no camera left on; a playing preview is live; preparation ends, unless a replay is stranded |
| `scheduler` | 4 frames, interval 3, fair | 3,622 | The scheduler implements `LatestWins`; no leak and no use after release; one callback; analyses an interval apart; a waiting frame is woken |
| `requests` | 2 requests of every pair of endpoints, fair | 405,387 | An upload is judged by itself alone, a success keeps its contract, and every request is answered |

Runs whose violation is a finding (the quoted text and the lines are in
`PROJECT.json`):

* `runtime_diverge`: a `set_shot` whose packet fails puts the transport's shot
  into `current_shot` in its exception handler. A later `set_shot`, queued at
  the lock behind a disconnect and a reconnect, had already written its own.
  When that one succeeds, the transport and the runtime hold different shots for
  good, and the provider is asked about the wrong one. (A dropping Room alone
  suffices, with five calls: a frame queued under a selection that a disconnect
  makes fail carries its shot through after the reconnect.)
* `runtime_misasked`: the provider's question is read from the runtime when the
  provider is called, after the frame left the lock. A selection that is
  cancelled while it waits for the lock leaves a frame whose advice is published
  for another shot than the provider was asked about.
* `capture_locked`: `submissionInFlightRef` is cleared by an effect on step and
  status. A camera photo that is rejected before React renders the submission
  is batched with it; neither dependency changes, the effect does not run, and
  every later photo is silently ignored.
* `camera_stranded`: hiding the page during the first `play()` aborts it, which
  the playback helper takes for Safari's spurious abort: it waits and plays
  again, on a video whose source `stop()` removed. That promise stays pending,
  and the restart that `start()` queued behind the task waits for it.

`RequestIsAnswered` and `PendingIsTaken` are stated with the exception of the
states those findings and the code's accepted behaviour lead to (a stranded
replay; an error callback that raised, after which only a new submission makes a
worker). `OneReader` and `OnlySubscribedIsRead` except a factory that suspends,
which the product does not inject: two events for one track then both open a
stream. `ShotsAgree` and `AdviceAnswersAskedShot` hold as long as the Room does
not drop and no caller gives up, even when packets fail, since a failed packet
fences the Room and nothing is published until a reconnect; they are violated
with drops, and with cancellations, which the three runs of `AgentRuntime` show
together.
`AtMostFourHertz` speaks of one run of the scheduler: `start()` resets the due
time, so stopping and starting again in quick succession may analyse more often
than the "at most four times per second" of the class comment.

### Bounds, and why they are enough

* Calls: the hazards of the transport are between a frame, a call that overtakes
  it, a call that restores the state, and a call that waits behind them: four.
  The runtime needs a fifth for a frame after two selections and a frame; with
  all faults and liveness three calls already include a failed or cancelled
  holder, a waiter and `close()`. The theorems hold for any set of calls.
* Two shots suffice for "another shot" and a change there and back; two codes
  for a duplicate and a fresh advice.
* Frames (2): one at the provider and one that replaces what waits, through a
  crash, the worker's end and `stop()`. The theorems hold for any number.
* One track that comes and goes has an old reader that is closing and a new one
  that is reading; a third reader of it would need a second closing one. Two
  waiting events are a withdrawal and what follows it.
* Requests of the capture session (5): three shots, a rejection and a retry or
  retake. Two camera starts give a frame that outlives its camera session.
* API requests: two, which is what it takes to leave the filters of one thread
  installed by another; `Offers` gives the two requests every pair of image
  endpoints, with a token or a background beside them. Four names of lists
  (`MaxLists = 3`) suffice for two jobs: two saved and one installed list are in
  use, and one is free. The uploads, replies, masks and pictures are one of each
  class the checks tell apart.
* Camera: six starts and stops give three overlapping tasks, the last queued
  behind a queued one.
* Scheduler: one frame analysed, one pending, one that replaces it and one
  after; an interval of three has a start, a middle where a timer can be one
  unit early, and an end. Deadlock checking is off everywhere, since every one
  of these systems may run out of bounded input and rest.

### Fairness

The event loop runs every ready task and delivers every cancellation;
`publish_data` and the vision provider end with a result or an exception (an
assumption about the SDK and the provider: the transport sets them no deadline,
and only the shutdown cancels them); the assessment provider answers or fails;
React renders what was dispatched; the permission prompt is answered and a
`play()` on a video with a source settles; a stream that is ending closes;
worker threads run, the deadline of an image request passes and a cancelled
provider client ends (no provider is obliged to answer); time passes, timers fire and analyses
end. All of it is weak fairness of the step that the environment or the runtime
owes. No call, frame, event or fault is ever obliged to happen.

## 4. Proofs

Proved with TLAPS for all values of the constants; the only assumptions are the
named ones in the modules (`None` is not an element of the data, bounds are
natural numbers, `Interval > 0`, the first shot is a shot). Each inductive
invariant was first checked by TLC.

* `GuidanceTransport_proofs`: `TypeOK`, `BrowserKnowsShot` and
  `SuppressedAdviceIsInSnapshot`. What the browser knows depends on what the
  packet in flight will tell it, and that on who may hold the lock; hence the
  strengthening: `LockInv` (the lock is held exactly by the call inside
  `publish_data`), `CallInv` and `GenInv` (a frame of the present shot
  generation asked about the present shot; the newest frame generation belongs
  to one call), `OutboxInv` (the event in flight is the newest, names the
  machine's shot and fits its call), `PeerInv`. `LineInv` is about the lock's
  queue: it holds exactly the calls that wait, each once, also after a
  cancellation in its middle.
* `GuidanceTransport_gate`: the transport implements `GuidanceGate`, from the
  same invariant: every step maps to a step of the gate or a stutter.
* `AgentRuntime_proofs`: every behaviour of the runtime is one of the transport,
  so the theorems above hold of it, the refinement included (`RuntimeIsGate`);
  `RuntimeTypeOK`; and `ClosedIsQuiet` follows from
  `ShutdownInv`, which follows the stages of `close()`. For `Faults` within
  `{"fail"}` (with any other fault they fail, see the findings) also
  `ShotsAgree`, `AdviceAnswersAskedShot` and `FrameKeepsSelection`, for any
  number of calls and shots. The argument is about the lock's queue: selections
  take effect in its order, so the runtime is ahead of the transport by the
  selections that wait. `Chosen(n, s)` says that s will be the transport's shot
  after the first n turns, or none is chosen yet; `OpenInv` says that the whole
  queue leads to the runtime's shot, that a waiting frame is about the shot its
  turn will find, and that a frame at the provider was asked about its shot or a
  selection of another one waits before its answer. A call that has its turn, or
  joins the queue, is a `Turn`, and one lemma per part says that a turn keeps
  it. Once a packet has failed the Room is fenced for good, since nothing
  reconnects a Room that did not drop: the selections that wait fail in turn,
  and each falls back to the transport's shot.
* `CameraSubscriber_proofs`: every step of the subscriber is a step of the
  processor or leaves it alone (`RunsProcessor`), so what is proved of
  `LatestFrame` holds of the composition: `OneWorker`, `NewestIsKept`,
  `NothingKeptAfterStop` with `ClosedIsIdle`, the action property
  `NoCallbackAfterStop`, and that the processor implements `LatestWins`
  (`ProcessorLatestWins`, `SubscriberLatestWins`): `OneWorker` makes the jobs at
  most one, and each step of the worker keeps it, ends it, or begins one with
  the frame in the slot. Of the subscriber itself: `OneReader`,
  `OnlySubscribedIsRead` and `StopIsComplete`. `TaskInv` keeps the names of
  future tasks free and `StopInv` says what `stop()` and `aclose()` leave behind;
  `EntryInv` says that a reader which is not being cancelled is the one its
  track's entry names, and `ShutInv` that once `stop()` began every living
  reader is awaited, and that the processor is closed when there is none.
  `ShownInv` ties the readers to the events that still wait: unless the factory
  suspends, a track is only read while the Room has it subscribed or its
  withdrawal is among them.
* `ApiRequests_proofs`: `OnlyTheImageDecides` and `AnswersAreHonest`, from
  `ApiInv`: `TypeOK` and, for each request, `Sound(r)`, which says where the
  request's job can be for the stage it is in (`Placed`), what its upload is by
  then (`ImageSound`), what the reply has passed (`ReplySound`), and what a
  finished job's verdict means. A step of one request touches another only
  through the filters (`OthersStaySound`), on which `Sound` does not depend:
  that is the argument why the leaking filters are harmless. `ListIsFree` shows
  by counting that `MaxLists` above the number of requests never keeps a job
  from entering `catch_warnings`: the bound of the run hides nothing.
* `CaptureSession_proofs`: `TypeOK`, `PhotosWereAccepted`, `NothingSkipped` and
  `AnalysisIsAwaited`, the action property `AcceptedPhotosAreKept`, and that the
  session implements `GuidedCapture` (`SessionIsGuidedCapture`). The
  reducer is shown to keep a `CaptureState` sound (the
  filled slots are the first ones, the pending photo is the current step's);
  stale handlers act on `shown`, so both copies are kept sound and related.
  For the refinement each dispatched action is a step of the wizard or
  invisible: an answer to another request than the awaited one changes nothing
  the wizard has (`Late`), and `EndedInv` says that once
  editing has started everything dispatched is on the screen, so no handler
  can change the session any more.
* `CameraSession_proofs`: `TypeOK`, `OneAcquisition`, `CameraOnIsShown`,
  `PlayingIsLive`. `QueueInv` and `TaskInv` order the tasks: a queued task waits
  for the last unfinished one before it, so an active task has none before it.
  `StreamInv` and `ViewInv` tie the stream to the token, and the token to the
  call the preview listens to.
* `FrameScheduler_proofs`: `TypeOK`, `NoUseAfterRelease`, `NothingLeaks`,
  `OneCallback`, the spacing of analyses (`AtMostFourHertz`), `OneAnalysis`,
  and that the scheduler implements `LatestWins`. The private
  methods have a lemma each (`ArmedIs`, `DrainIs`, `DrainSound`), and the clock
  argument is `since + wait = Interval`. `TimerIsExact` is the other side of the
  spacing: the timer of a frame that waits is due exactly an interval after the
  last analysis began, never later.

Liveness under fairness is out of the prover's reach: `EveryCallEnds`,
`CloseEnds`, `PendingIsTaken`, `StopEnds`, `AnalysisEnds`, `RequestIsAnswered`,
`PendingIsAnalysed` and `EveryRequestAnswered` are only model-checked. What is
proved of each is its safety part, for every size: no reachable state that still
owes something is one in which nobody has a step to take. (That these steps are
taken, and that they come to an end, is what the runs check.)

| Liveness, model-checked | Safety part, proved | Why somebody can go on |
|---|---|---|
| `EveryCallEnds` | `NobodyIsForgotten` | the lock is held only inside `publish_data`, and the first of a free lock's queue is a call that waits |
| `CloseEnds` | `ShutdownIsAttended` | `close()` never cancels or awaits itself, and what it cancelled has begun |
| `PendingIsTaken` | `PendingHasWorker` | a worker ends with a frame in the slot only by a crash, and nothing is cancelled before `stop()` |
| `StopEnds` | `StopIsAttended` | from its first step on, every living reader is struck or closing and none starts again; then the worker, if any, is being cancelled |
| `AnalysisEnds` | `SomeoneAnswers` | the provider owes an answer to the very request the session waits for |
| `RequestIsAnswered` | `RequestHasAnswerer` | restarts wait for earlier tasks only, so the first unfinished task moves (`Least`), or is the stranded replay |
| `PendingIsAnalysed` | `NothingSleeps`, `TimerIsExact` | a frame that waits while nothing is analysed has a timer |
| `EveryRequestAnswered` | `RequestsAreCarriedOn` | outside a deadline a request has a job, and no job waits for another |

The three agreement properties of the runtime are proved, as they are checked,
for a Room that does not drop and callers that do not give up. Nothing here is
proved by induction over data, and no model needs it: no operator is recursive.

## 5. Not modelled

Pixel arithmetic (orientation, colour conversion, brightness, blur, ROI), JWT
encoding and prompts are functions of their input, and floating point is out of
TLC's reach; the browser's schemas are stateless validation, the counterpart of
`ProviderContracts`. Configuration is read once. Generated, vendored and operator
code (`live_smoke.py`, the smoke tools) is outside the product's runtime: each
script runs one call after another. Of the subscriber, a synchronous factory
that raises, and a change of the Room's publications while a task that walks
them is suspended, are left out; of the assessor, the code of an unexpected
encoder failure.
Reconnection inside the LiveKit SDK, `getUserMedia`, the video element, React,
`asyncio.Lock`, `asyncio.wait_for`, `warnings.catch_warnings` and Pillow are
modelled from how this code uses them and marked external.

What was met while modelling, and is no finding because nothing in the
repository says otherwise:

* Interleaved `catch_warnings` may leave another thread's list installed for
  good. The decoders' own bound on pixels, lower than Pillow's, is what keeps
  the answers independent of it; without it `OnlyTheImageDecides` fails.
* The masker checks the front image more strictly than the endpoint did, and a
  failure of that check is reported as a response of the sidecar that is not
  valid (502), before the sidecar was contacted.
* A docstring of `livekit_token.py` (183) speaks of a local signer that replaces
  a token without the required claims; the code refuses it with a configuration
  error.
* A camera photo is analysed for the step that is current when its encoding
  ends, not when the shutter was pressed.
* A reader that is cancelled before its first step leaves its stream open.

## 6. Plan

Done, in this order: transport and gate, runtime, frame processor, capture
session, camera, scheduler, track subscriber with the processor, provider
contracts and API requests; then the proofs, the two abstract specifications
`LatestWins` and `GuidedCapture` with what implements them, and the safety parts
of the liveness properties. Left:

1. The capture session's camera replaced by `CameraSession`, so that a frame
   that outlives its start is the controller's and not an abstraction's.
2. `StabilityTracker` (`stability-tracker.ts` 153-271): the window against a
   reference definition.
3. With every fault allowed, how the next selection that reaches the gate brings
   the runtime, the gate and the provider's question back together (today TLC
   shows the divergence and the theorems exclude it when callers wait).
