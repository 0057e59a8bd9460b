---------------------------- MODULE AgentRuntime ----------------------------
(***************************************************************************)
(* AgentRuntime (backend/live_agent.py) around one guidance transport: the *)
(* capture step the provider is asked about, the Room's lifecycle events,  *)
(* the single frame worker and the shutdown.  Every step is a step of      *)
(* GuidanceTransport together with what the runtime does synchronously     *)
(* before the call's first await, or after its last one.                   *)
(***************************************************************************)
EXTENDS GuidanceTransport

CONSTANTS FirstShot,  \* AgentRuntime.current_shot at construction
          Faults      \* what the environment may do to the runtime: the Room
                      \* drops, a reliable packet fails, a caller gives up

ASSUME FirstShotAssumption == FirstShot \in Shots
ASSUME FaultsAssumption == Faults \subseteq {"drop", "fail", "cancel"}

VARIABLES currentShot,  \* AgentRuntime.current_shot
          previous,     \* current_shot as each set_shot call found it
          asked,        \* the shot each inference was asked about
          room,         \* the Room's connection as its events report it
          stage,        \* how far AgentRuntime.close() got
          doomed        \* lifecycle tasks that close() cancelled

runtimeVars == <<currentShot, previous, asked, room, stage, doomed>>
allVars == <<vars, runtimeVars>>

Stages == {"open", "fencing", "joining", "stopping", "closed"}
Lifecycle == {"disconnect", "reconnect"}

RuntimeTypeOK ==
  /\ TypeOK
  /\ currentShot \in Shots
  /\ previous \in [Calls -> Shots]
  /\ asked \in [Calls -> Shot0]
  /\ room \in {"up", "reconnecting", "gone"}
  /\ stage \in Stages
  /\ doomed \subseteq Calls

RuntimeInit ==
  /\ Init
  /\ currentShot = FirstShot
  /\ previous = [c \in Calls |-> FirstShot]
  /\ asked = [c \in Calls |-> None]
  /\ room = "up"
  /\ stage = "open"
  /\ doomed = {}

Running(op) == {c \in Calls : call[c].op = op /\ pc[c] \notin Final \cup {"idle"}}

-----------------------------------------------------------------------------
(* What the runtime does in the same step as the transport call c *)

(* Variant: restore what the call found. *)
FallbackToPrevious(c, before) == before

(* set_shot's handler: take the transport's shot for authoritative. *)
Fallback(c, before) == IF tp'.shot = None THEN before ELSE tp'.shot

(* create_provider_inference reads current_shot when the provider is called. *)
AskProvider(c) ==
  asked' = IF pc'[c] = "inferring" /\ pc[c] # "inferring"
             THEN [asked EXCEPT ![c] = currentShot'] ELSE asked

(* close() goes on to cancel the lifecycle tasks once the transport is      *)
(* closed, and gives up when it is cancelled before that.                   *)
FollowClose(c) ==
  /\ stage' = IF pc'[c] = "returned" THEN "joining"
              ELSE IF pc'[c] = "failed" THEN "open" ELSE "fencing"
  /\ doomed' = IF pc'[c] = "returned"
                 THEN doomed \cup Running("disconnect") \cup Running("reconnect")
                 ELSE doomed

(* The end or the progress of a call made earlier. *)
Follow(c) ==
  /\ currentShot' = IF call[c].op = "set_shot" /\ pc'[c] = "failed"
                      THEN Fallback(c, previous[c]) ELSE currentShot
  /\ AskProvider(c)
  /\ IF call[c].op = "close" THEN FollowClose(c) ELSE UNCHANGED <<stage, doomed>>
  /\ UNCHANGED <<previous, room>>

-----------------------------------------------------------------------------
(* Calls *)

(* AgentRuntime.set_shot *)
SetShot(c, s) ==
  /\ Begin(c, "set_shot", s)
  /\ previous' = [previous EXCEPT ![c] = currentShot]
  /\ currentShot' = IF pc'[c] = "failed" THEN Fallback(c, currentShot) ELSE s
  /\ UNCHANGED <<asked, room, stage, doomed>>

(* Variant: the worker keeps the shot the runtime was built with. *)
ProcessFrameOfFirstShot(c) ==
  /\ Running("frame") = {} /\ stage # "closed"
  /\ Begin(c, "frame", FirstShot)
  /\ UNCHANGED <<currentShot, previous, room, stage, doomed>>
  /\ AskProvider(c)

(* The frame worker hands one frame at a time to the transport, with the    *)
(* runtime's shot; the worker is gone once the runtime is closed.           *)
ProcessFrame(c) ==
  /\ Running("frame") = {} /\ stage # "closed"
  /\ Begin(c, "frame", currentShot)
  /\ UNCHANGED <<currentShot, previous, room, stage, doomed>>
  /\ AskProvider(c)

(* Room events schedule a task each, and the tasks reach the lock in order. *)
RoomEvent(c, op, from, to) ==
  /\ "drop" \in Faults
  /\ room \in from
  /\ Begin(c, op, None)
  /\ room' = to
  /\ UNCHANGED <<currentShot, previous, asked, stage, doomed>>

Reconnecting(c) == RoomEvent(c, "disconnect", {"up"}, "reconnecting")
Reconnected(c) == RoomEvent(c, "reconnect", {"reconnecting"}, "up")
Disconnected(c) == RoomEvent(c, "disconnect", {"up", "reconnecting"}, "gone")

-----------------------------------------------------------------------------
(* Shutdown *)

(* close() first fences publication; a second caller waits for the first. *)
Close(c) ==
  /\ stage = "open"
  /\ Begin(c, "close", None)
  /\ FollowClose(c)
  /\ UNCHANGED <<currentShot, previous, asked, room>>

(* Every cancelled lifecycle task has ended. *)
Joined ==
  /\ stage = "joining"
  /\ \A c \in doomed : pc[c] \in Final
  /\ stage' = "stopping"
  /\ doomed' = {}
  /\ UNCHANGED <<vars, currentShot, previous, asked, room>>

(* subscriber.stop() joined the frame worker. *)
Stopped ==
  /\ stage = "stopping"
  /\ Running("frame") = {}
  /\ stage' = "closed"
  /\ UNCHANGED <<vars, currentShot, previous, asked, room, doomed>>

(* close() is cancelled while it waits for those tasks; it can be retried. *)
Abandoned ==
  /\ "cancel" \in Faults
  /\ stage \in {"joining", "stopping"}
  /\ stage' = "open"
  /\ UNCHANGED <<vars, currentShot, previous, asked, room, doomed>>

(* The calls whose task someone may cancel now. *)
Cancellable(c) ==
  \/ c \in doomed
  \/ stage = "stopping" /\ call[c].op = "frame"
  \/ "cancel" \in Faults /\ call[c].op \in {"set_shot", "close"}

-----------------------------------------------------------------------------
Start(c) ==
  \/ \E s \in Shots : SetShot(c, s)
  \/ ProcessFrame(c)
  \/ Reconnecting(c) \/ Reconnected(c) \/ Disconnected(c)
  \/ Close(c)

(* A cancelled task does not resume. *)
Proceed(c) ==
  /\ c \notin doomed
  /\ \/ Grant(c)
     \/ Delivered(c)
     \/ Undelivered(c) /\ ("fail" \in Faults \/ ~Reliable(outbox))
  /\ Follow(c)

Conclude1(c) == Conclude(c) /\ Follow(c)

CancelCall(c) == Cancellable(c) /\ Cancel(c) /\ Follow(c)

Step(c) == Proceed(c) \/ Conclude1(c) \/ (c \in doomed /\ CancelCall(c))

RuntimeNext ==
  \/ \E c \in Calls : Start(c) \/ Step(c) \/ CancelCall(c)
  \/ Joined \/ Stopped \/ Abandoned

RuntimeSpec == RuntimeInit /\ [][RuntimeNext]_allVars

(* The event loop runs every ready call and delivers cancellations, and     *)
(* publish_data and the provider end sooner or later, with a result or an   *)
(* exception.  Nobody is obliged to call or to give up.                     *)
RuntimeFairness ==
  /\ \A c \in Calls : WF_allVars(Step(c))
  /\ WF_allVars(Joined) /\ WF_allVars(Stopped)

FairRuntimeSpec == RuntimeSpec /\ RuntimeFairness

-----------------------------------------------------------------------------
(* Properties *)

(* Advice is published for the shot its inference was asked about, although *)
(* the question is read from the runtime after the frame left the lock.     *)
AdviceAnswersAskedShot ==
  \A c \in Calls : holder = c /\ ~Reliable(outbox) => asked[c] = outbox.shot

(* Once no selection is in progress, the runtime asks the provider about    *)
(* the shot that the transport holds and that a resync would announce.      *)
ShotsAgree ==
  Running("set_shot") = {} /\ tp.shot # None => currentShot = tp.shot

(* A camera frame never takes the session back from a shot that was chosen: *)
(* it may only announce the first one.                                      *)
FrameKeepsSelection ==
  [][\A c \in Calls : call'[c].op = "frame" /\ pc'[c] # pc[c] =>
       tp'.shot = tp.shot \/ tp.shot = None]_allVars

(* After close() completed nothing is published, inferred or reconnected,   *)
(* whatever Room events and selections still arrive.                        *)
ClosedIsQuiet ==
  stage = "closed" =>
    /\ tp.closed /\ ~tp.connected /\ outbox = None
    /\ Running("frame") = {}

(* close() completes, or its caller gave up: it never waits for itself, for *)
(* a lifecycle task or for the frame worker for ever.                       *)
CloseEnds == stage # "open" ~> stage \in {"open", "closed"}
=============================================================================
