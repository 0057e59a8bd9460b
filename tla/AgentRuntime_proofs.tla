------------------------ MODULE AgentRuntime_proofs ------------------------
(***************************************************************************)
(* Proofs about AgentRuntime: its steps are steps of the transport, what a *)
(* completed close() guarantees, and how the runtime's shot, the           *)
(* transport's shot and the provider's question agree.                     *)
(***************************************************************************)
EXTENDS AgentRuntime, GuidanceTransport_gate

(* What the runtime knows of its selection and of its shutdown. *)
SelectionInv == currentShot \in Shots /\ previous \in [Calls -> Shots]

ShutdownInv ==
  /\ stage \in {"joining", "stopping", "closed"} => tp.closed
  /\ stage = "closed" => Running("frame") = {}

OtherTypes ==
  /\ asked \in [Calls -> Shot0]
  /\ room \in {"up", "reconnecting", "gone"}
  /\ stage \in Stages
  /\ doomed \subseteq Calls

RuntimeInv == SelectionInv /\ ShutdownInv /\ OtherTypes

-----------------------------------------------------------------------------
(* Steps of the transport *)

LEMMA ClosedStays == ASSUME Inv, Inv', [Next]_vars, tp.closed PROVE tp'.closed
<1>1. CASE Gate!Next
  BY <1>1 DEF Gate!Next, Gate!Shut, Gate!Sync, Gate!Refresh, Gate!Advise, Gate!Observe
<1>2. CASE UNCHANGED Gate!gateVars
  BY <1>2 DEF Gate!gateVars
<1> QED BY <1>1, <1>2, NextGate

LEMMA StartSteps ==
  ASSUME SelectionInv, NEW c \in Calls, Start(c)
  PROVE  Request(c)
BY DEF SelectionInv, Start, SetShot, ProcessFrame, Reconnecting, Reconnected,
       Disconnected, RoomEvent, Close, Request

LEMMA StepSteps ==
  ASSUME NEW c \in Calls, Step(c) \/ CancelCall(c)
  PROVE  (Resume(c) \/ Conclude(c) \/ CancelWait(c)) /\ Follow(c)
BY DEF Step, Proceed, Conclude1, CancelCall, Cancel, Resume, Conclude

LEMMA TransportSteps == ASSUME SelectionInv, [RuntimeNext]_allVars PROVE [Next]_vars
<1>1. ASSUME NEW c \in Calls, Start(c) PROVE Next
  BY <1>1, StartSteps DEF Next
<1>2. ASSUME NEW c \in Calls, Step(c) \/ CancelCall(c) PROVE Next
  BY <1>2, StepSteps DEF Next
<1>3. CASE Joined \/ Stopped \/ Abandoned
  BY <1>3 DEF Joined, Stopped, Abandoned
<1> QED BY <1>1, <1>2, <1>3 DEF RuntimeNext, allVars

-----------------------------------------------------------------------------
(* The selection *)

LEMMA SelectionStep ==
  ASSUME Inv, Inv', SelectionInv, [RuntimeNext]_allVars
  PROVE  SelectionInv'
<1>1. tp'.shot \in Shots \cup {None}
  BY DEF Inv, TypeOK, Adapter, Shot0
<1>2. ASSUME NEW c \in Calls, NEW before \in Shots PROVE Fallback(c, before) \in Shots
  BY <1>1 DEF Fallback
<1>3. ASSUME NEW c \in Calls, Start(c) PROVE SelectionInv'
  BY <1>2, <1>3
  DEF SelectionInv, Start, SetShot, ProcessFrame, Reconnecting, Reconnected,
      Disconnected, RoomEvent, Close
<1>4. ASSUME NEW c \in Calls, Follow(c) PROVE SelectionInv'
  BY <1>2, <1>4 DEF SelectionInv, Follow
<1>5. CASE Joined \/ Stopped \/ Abandoned \/ UNCHANGED allVars
  BY <1>5 DEF SelectionInv, Joined, Stopped, Abandoned, allVars, runtimeVars
<1> QED BY <1>3, <1>4, <1>5, StepSteps DEF RuntimeNext

LEMMA OtherTypesStep ==
  ASSUME OtherTypes, SelectionInv', [RuntimeNext]_allVars
  PROVE  OtherTypes'
<1> USE DEF OtherTypes
<1>1. ASSUME NEW c \in Calls, AskProvider(c) PROVE asked' \in [Calls -> Shot0]
  BY <1>1 DEF AskProvider, SelectionInv, Shot0
<1>2. ASSUME NEW c \in Calls, FollowClose(c) PROVE stage' \in Stages /\ doomed' \subseteq Calls
  BY <1>2 DEF FollowClose, Running, Stages
<1>3. ASSUME NEW c \in Calls, Start(c) PROVE OtherTypes'
  BY <1>1, <1>2, <1>3
  DEF Start, SetShot, ProcessFrame, Reconnecting, Reconnected, Disconnected, RoomEvent, Close
<1>4. ASSUME NEW c \in Calls, Follow(c) PROVE OtherTypes'
  BY <1>1, <1>2, <1>4 DEF Follow
<1>5. CASE Joined \/ Stopped \/ Abandoned \/ UNCHANGED allVars
  BY <1>5 DEF Joined, Stopped, Abandoned, Stages, allVars, runtimeVars
<1> QED BY <1>3, <1>4, <1>5, StepSteps DEF RuntimeNext

-----------------------------------------------------------------------------
(* The shutdown *)

(* A close() of the transport that returned has closed it. *)
LEMMA CloseReturned ==
  ASSUME Inv, NEW c \in Calls,
         \/ Begin(c, "close", None)
         \/ Resume(c) \/ Conclude(c) \/ CancelWait(c),
         call'[c].op = "close", pc'[c] = "returned"
  PROVE  tp'.closed
<1> USE DEF Inv, TypeOK
<1>1. ASSUME NEW s, Section(c, "close", s) PROVE tp'.closed
  BY <1>1
  DEF Section, SetShotSection, ResyncSection, FrameSection, InactiveSection,
      DisconnectSection, ReconnectSection, CloseSection, Fenced
<1>2. CASE Begin(c, "close", None)
  BY <1>1, <1>2 DEF Begin, Enqueue
<1>3. CASE Grant(c)
  BY <1>1, <1>3 DEF Grant, CallInv, Thinking
<1>4. CASE Delivered(c)
  BY <1>4, NoneAssumption DEF Delivered, LockInv, OutboxInv, Busy
<1>5. CASE Undelivered(c) \/ InferenceFails(c) \/ CancelWait(c)
  BY <1>5 DEF Undelivered, Leave, InferenceFails, CancelWait
<1>6. ASSUME NEW code \in Code0, Answer(c, code) PROVE tp'.closed
  BY <1>6 DEF Answer, CallInv, Thinking
<1> QED BY <1>2, <1>3, <1>4, <1>5, <1>6 DEF Resume, Conclude

(* A step of a call that has begun is a step of that call alone, and makes  *)
(* no frame run that did not.                                               *)
LEMMA StepKeeps ==
  ASSUME Inv, Inv', NEW c \in Calls, Resume(c) \/ Conclude(c) \/ CancelWait(c)
  PROVE  /\ call' = call /\ pc[c] \notin Final \cup {"idle"}
         /\ \A d \in Calls \ {c} : pc'[d] = pc[d]
<1> USE DEF Inv, TypeOK
<1>1. call' = call
  BY DEF Resume, Conclude, Grant, Delivered, Undelivered, InferenceFails, Answer, CancelWait
<1>2. pc[c] \notin Final \cup {"idle"}
  BY DEF Resume, Conclude, Grant, Delivered, Undelivered, InferenceFails, Answer,
         CancelWait, Final
<1>3. \A d \in Calls \ {c} : pc'[d] = pc[d]
  <2>1. ASSUME NEW op, NEW s, Section(c, op, s)
        PROVE  \A d \in Calls \ {c} : pc'[d] = pc[d]
    BY <2>1, SectionCases
    DEF SectionChanges, ChangeShot, SectionObserves, SectionSnapshots,
        SectionReconnects, SectionFences, SectionLeaves, Publish, Leave, Observe
  <2>2. ASSUME NEW code, SettleSection(c, code)
        PROVE  \A d \in Calls \ {c} : pc'[d] = pc[d]
    BY <2>2 DEF SettleSection, Publish, Leave
  <2>3. CASE Grant(c)
    BY <2>1, <2>2, <2>3 DEF Grant
  <2>4. CASE Delivered(c) \/ Undelivered(c) \/ InferenceFails(c) \/ CancelWait(c)
    BY <2>4 DEF Delivered, Undelivered, Leave, Observe, InferenceFails, CancelWait
  <2>5. ASSUME NEW code \in Code0, Answer(c, code)
        PROVE  \A d \in Calls \ {c} : pc'[d] = pc[d]
    BY <2>2, <2>5 DEF Answer, Enqueue
  <2> QED BY <2>3, <2>4, <2>5 DEF Resume, Conclude
<1> QED BY <1>1, <1>2, <1>3

LEMMA RunningStep ==
  ASSUME Inv, Inv', NEW c \in Calls, Resume(c) \/ Conclude(c) \/ CancelWait(c)
  PROVE  /\ call' = call
         /\ Running("frame")' \subseteq Running("frame")
BY StepKeeps DEF Running

(* A new call is of the operation it was made with, and of no other.        *)
LEMMA BeginKeeps ==
  ASSUME Inv, Inv', NEW c \in Calls, NEW op, NEW s, Begin(c, op, s)
  PROVE  /\ pc[c] = "idle" /\ call'[c].op = op /\ call'[c].shot = s
         /\ \A d \in Calls \ {c} : call'[d] = call[d] /\ pc'[d] = pc[d]
<1> USE DEF Inv, TypeOK
<1>1. /\ call'[c].op = op /\ call'[c].shot = s
      /\ \A d \in Calls \ {c} : call'[d] = call[d]
  BY DEF Begin
<1>2. \A d \in Calls \ {c} : pc'[d] = pc[d]
  <2>1. CASE Section(c, op, s)
    BY <2>1, SectionCases
    DEF SectionChanges, ChangeShot, SectionObserves, SectionSnapshots,
        SectionReconnects, SectionFences, SectionLeaves, Publish, Leave, Observe
  <2> QED BY <2>1 DEF Begin, Enqueue
<1> QED BY <1>1, <1>2 DEF Begin

LEMMA BeginRuns ==
  ASSUME Inv, Inv', NEW c \in Calls, NEW op, op # "frame", NEW s, Begin(c, op, s)
  PROVE  Running("frame")' \subseteq Running("frame") /\ call'[c].op = op
<1>1. /\ call'[c].op = op
      /\ \A d \in Calls \ {c} : call'[d] = call[d] /\ pc'[d] = pc[d]
  BY BeginKeeps
<1> QED BY <1>1 DEF Running

LEMMA ShutdownStep ==
  ASSUME Inv, Inv', RuntimeInv, [RuntimeNext]_allVars
  PROVE  ShutdownInv'
<1>1. tp.closed => tp'.closed
  BY ClosedStays, TransportSteps DEF RuntimeInv
<1>2. ASSUME NEW c \in Calls, Close(c) PROVE ShutdownInv'
  BY <1>1, <1>2, CloseReturned, BeginRuns DEF Close, FollowClose, ShutdownInv, RuntimeInv
<1>3. ASSUME NEW c \in Calls, Start(c), ~Close(c) PROVE ShutdownInv'
  <2>1. stage' = stage
    BY <1>3 DEF Start, SetShot, ProcessFrame, Reconnecting, Reconnected, Disconnected, RoomEvent
  <2>2. stage = "closed" => Running("frame")' \subseteq Running("frame")
    BY <1>3, BeginRuns
    DEF Start, SetShot, ProcessFrame, Reconnecting, Reconnected, Disconnected, RoomEvent
  <2> QED BY <1>1, <2>1, <2>2 DEF ShutdownInv, RuntimeInv
<1>4. ASSUME NEW c \in Calls, Step(c) \/ CancelCall(c) PROVE ShutdownInv'
  <2>1. call' = call /\ Running("frame")' \subseteq Running("frame") /\ Follow(c)
    BY <1>4, StepSteps, RunningStep
  <2>2. CASE call[c].op # "close"
    BY <1>1, <2>1, <2>2 DEF Follow, ShutdownInv, RuntimeInv
  <2>3. CASE call[c].op = "close"
    <3>1. pc'[c] = "returned" => tp'.closed
      BY <1>4, <2>1, <2>3, StepSteps, CloseReturned
    <3>2. FollowClose(c)
      BY <2>1, <2>3 DEF Follow
    <3> QED BY <3>1, <3>2 DEF FollowClose, ShutdownInv
  <2> QED BY <2>2, <2>3
<1>5. CASE Joined \/ Stopped \/ Abandoned \/ UNCHANGED allVars
  BY <1>5
  DEF Joined, Stopped, Abandoned, allVars, runtimeVars, vars, ShutdownInv, RuntimeInv, Running
<1> QED BY <1>2, <1>3, <1>4, <1>5 DEF RuntimeNext

-----------------------------------------------------------------------------
(* The runtime runs the transport of GuidanceTransport: what is proved      *)
(* there holds for it, whatever selections, frames, Room events, failures   *)
(* and cancellations it meets.                                              *)
THEOREM RunsTransport == RuntimeSpec => Spec /\ []RuntimeInv
<1>1. RuntimeInit => Init /\ RuntimeInv
  BY FirstShotAssumption DEF RuntimeInit, RuntimeInv, SelectionInv, ShutdownInv, OtherTypes, Stages, Shot0
<1>2. Inv /\ RuntimeInv /\ [RuntimeNext]_allVars => Inv' /\ RuntimeInv' /\ [Next]_vars
  <2> SUFFICES ASSUME Inv, RuntimeInv, [RuntimeNext]_allVars
               PROVE  Inv' /\ RuntimeInv' /\ [Next]_vars
    OBVIOUS
  <2>1. [Next]_vars
    BY TransportSteps DEF RuntimeInv
  <2>2. Inv'
    BY <2>1, NextInv
  <2> QED BY <2>1, <2>2, SelectionStep, ShutdownStep, OtherTypesStep DEF RuntimeInv
<1> QED BY <1>1, <1>2, InitInv, PTL DEF RuntimeSpec, Spec

(* The runtime's own fields keep their types too.                           *)
THEOREM RuntimeTypeCorrectness == RuntimeSpec => []RuntimeTypeOK
<1>1. Inv /\ RuntimeInv => RuntimeTypeOK
  BY DEF Inv, RuntimeInv, SelectionInv, OtherTypes, RuntimeTypeOK
<1> QED BY <1>1, RunsTransport, Invariance, PTL

(* After close() completed nothing is published, inferred or reconnected.   *)
THEOREM QuietAfterClose == RuntimeSpec => []ClosedIsQuiet
<1>1. Inv /\ RuntimeInv => ClosedIsQuiet
  BY DEF Inv, PeerInv, OutboxInv, Busy, RuntimeInv, ShutdownInv, ClosedIsQuiet
<1> QED BY <1>1, RunsTransport, Invariance, PTL

(* The browser meets a GuidanceGate in every behaviour of the runtime, and  *)
(* is told the shot before it is advised, whatever the runtime's Room,      *)
(* worker and shutdown do around the transport.                             *)
THEOREM RuntimeIsGate == RuntimeSpec => ImplementsGate /\ []BrowserKnowsShot
BY RunsTransport, Implements, BrowserIsTold

-----------------------------------------------------------------------------
(* The shutdown is attended *)

(* A fencing close() is one unfinished call, and the tasks that close()     *)
(* cancelled are Room events whose call has begun: never close() itself.    *)
AttendedInv ==
  /\ stage = "fencing" <=> Running("close") # {}
  /\ \A c, d \in Running("close") : c = d
  /\ \A c \in doomed : call[c].op \in Lifecycle /\ pc[c] # "idle"

LEMMA StepBegun ==
  ASSUME Inv, NEW c \in Calls, Resume(c) \/ Conclude(c) \/ CancelWait(c)
  PROVE  pc'[c] # "idle"
<1> USE DEF Inv, TypeOK
<1>1. ASSUME NEW where \in Places, pc' = [pc EXCEPT ![c] = where] PROVE pc'[c] # "idle"
  BY <1>1 DEF Places
<1>2. CASE Grant(c)
  BY <1>1, <1>2, GrantDeparts DEF Departs
<1>3. CASE Delivered(c) \/ Undelivered(c) \/ InferenceFails(c) \/ CancelWait(c)
  BY <1>3 DEF Delivered, Undelivered, Leave, Observe, InferenceFails, CancelWait
<1>4. ASSUME NEW code \in Code0, Answer(c, code) PROVE pc'[c] # "idle"
  BY <1>1, <1>4, SettlePlace DEF Answer, Enqueue
<1> QED BY <1>2, <1>3, <1>4 DEF Resume, Conclude

LEMMA CloseAttended ==
  ASSUME Inv, Inv', RuntimeInv, AttendedInv, NEW c \in Calls, Close(c)
  PROVE  AttendedInv'
<1>1. /\ pc[c] = "idle" /\ call'[c].op = "close"
      /\ \A d \in Calls \ {c} : call'[d] = call[d] /\ pc'[d] = pc[d]
  BY BeginKeeps DEF Close
<1>2. pc'[c] # "idle"
  <2>1. CASE Section(c, "close", None)
    BY <2>1, SectionPlace DEF Places, Inv, TypeOK
  <2> QED BY <2>1 DEF Close, Begin, Enqueue, Inv, TypeOK
<1>3. Running("close") = {}
  BY DEF Close, AttendedInv
<1>4. Running("close")' = IF pc'[c] \in Final THEN {} ELSE {c}
  BY <1>1, <1>2, <1>3 DEF Running
<1>6. stage' = "fencing" <=> pc'[c] \notin Final
  BY DEF Close, FollowClose, Final
<1>7. \A d \in doomed' : call'[d].op \in Lifecycle /\ pc'[d] # "idle"
  <2> SUFFICES ASSUME NEW d \in doomed' PROVE call'[d].op \in Lifecycle /\ pc'[d] # "idle"
    OBVIOUS
  <2>1. d \in doomed \/ d \in Running("disconnect") \/ d \in Running("reconnect")
    BY DEF Close, FollowClose
  <2>2. call[d].op \in Lifecycle /\ pc[d] # "idle"
    BY <2>1 DEF AttendedInv, Running, Lifecycle
  <2>3. d \in Calls
    BY <2>1 DEF Running, RuntimeInv, OtherTypes
  <2> QED BY <1>1, <2>2, <2>3
<1> QED BY <1>4, <1>6, <1>7 DEF AttendedInv

LEMMA AttendedStep ==
  ASSUME Inv, Inv', RuntimeInv, AttendedInv, [RuntimeNext]_allVars
  PROVE  AttendedInv'
<1>1. doomed \subseteq Calls
  BY DEF RuntimeInv, OtherTypes
<1>2. ASSUME NEW c \in Calls, Start(c), ~Close(c) PROVE AttendedInv'
  <2>1. PICK op, s : op \in {"set_shot", "frame", "disconnect", "reconnect"} /\ Begin(c, op, s)
    BY <1>2 DEF Start, SetShot, ProcessFrame, Reconnecting, Reconnected, Disconnected, RoomEvent
  <2>2. /\ pc[c] = "idle" /\ call'[c].op # "close"
        /\ \A d \in Calls \ {c} : call'[d] = call[d] /\ pc'[d] = pc[d]
    BY <2>1, BeginKeeps
  <2>3. Running("close")' = Running("close")
    BY <2>2 DEF Running
  <2>4. stage' = stage /\ doomed' = doomed
    BY <1>2 DEF Start, SetShot, ProcessFrame, Reconnecting, Reconnected, Disconnected, RoomEvent
  <2> QED BY <1>1, <2>2, <2>3, <2>4 DEF AttendedInv
<1>3. ASSUME NEW c \in Calls, Step(c) \/ CancelCall(c) PROVE AttendedInv'
  <2>1. (Resume(c) \/ Conclude(c) \/ CancelWait(c)) /\ Follow(c)
    BY <1>3, StepSteps
  <2>2. /\ call' = call /\ pc[c] \notin Final \cup {"idle"} /\ pc'[c] # "idle"
        /\ \A d \in Calls \ {c} : pc'[d] = pc[d]
    BY <2>1, StepKeeps, StepBegun
  <2>3. CASE call[c].op # "close"
    <3>1. Running("close")' = Running("close")
      BY <2>2, <2>3 DEF Running
    <3>2. stage' = stage /\ doomed' = doomed
      BY <2>1, <2>3 DEF Follow
    <3> QED BY <1>1, <2>2, <3>1, <3>2 DEF AttendedInv
  <2>4. CASE call[c].op = "close"
    <3>1. Running("close") = {c}
      BY <2>2, <2>4 DEF Running, AttendedInv
    <3>2. Running("close")' = IF pc'[c] \in Final THEN {} ELSE {c}
      BY <2>2, <2>4, <3>1 DEF Running
    <3>3. FollowClose(c)
      BY <2>1, <2>4 DEF Follow
    <3>4. stage' = "fencing" <=> pc'[c] \notin Final
      BY <3>3 DEF FollowClose, Final
    <3>5. \A d \in doomed' : call'[d].op \in Lifecycle /\ pc'[d] # "idle"
      BY <1>1, <2>2, <3>3 DEF FollowClose, AttendedInv, Running, Lifecycle
    <3> QED BY <3>2, <3>4, <3>5 DEF AttendedInv
  <2> QED BY <2>3, <2>4
<1>4. CASE Joined \/ Stopped \/ Abandoned \/ UNCHANGED allVars
  BY <1>4
  DEF Joined, Stopped, Abandoned, allVars, runtimeVars, vars, AttendedInv, Running
<1> QED BY <1>2, <1>3, <1>4, CloseAttended DEF RuntimeNext

(* During a shutdown something can go on: a cancelled task ends, some call  *)
(* has its next step, or close() itself moves to its next stage.            *)
ShutdownGoesOn ==
  stage \notin {"open", "closed"} =>
    \/ \E c \in Calls :
         \/ pc[c] \in {"publishing", "inferring"}
         \/ holder = None /\ waiters # << >> /\ Head(waiters) = c /\ Waits(c)
         \/ c \in doomed /\ pc[c] \notin Final \cup {"idle"}
    \/ stage = "joining" /\ \A c \in doomed : pc[c] \in Final
    \/ stage = "stopping" /\ Running("frame") = {}

(* close() never waits for itself, for a lifecycle task that waits for it,  *)
(* or for a worker that nobody will answer: the safety part of CloseEnds.   *)
THEOREM ShutdownIsAttended == RuntimeSpec => [](AttendedInv /\ ShutdownGoesOn)
<1>1. RuntimeInit => AttendedInv
  BY DEF RuntimeInit, Init, AttendedInv, Running
<1>2. Inv /\ RuntimeInv /\ AttendedInv /\ Inv' /\ [RuntimeNext]_allVars => AttendedInv'
  BY AttendedStep
<1>3. Inv /\ RuntimeInv /\ AttendedInv /\ SomeoneGoesOn => ShutdownGoesOn
  <2> SUFFICES ASSUME Inv, RuntimeInv, AttendedInv, SomeoneGoesOn,
                      stage \notin {"open", "closed"}
               PROVE  ShutdownGoesOn
    BY DEF ShutdownGoesOn
  <2>1. ASSUME NEW c \in Calls, pc[c] \notin Final \cup {"idle"} PROVE ShutdownGoesOn
    BY <2>1 DEF SomeoneGoesOn, ShutdownGoesOn
  <2>2. CASE stage = "fencing"
    BY <2>1, <2>2 DEF AttendedInv, Running
  <2>3. CASE stage = "joining"
    BY <2>1, <2>3 DEF AttendedInv, RuntimeInv, OtherTypes, ShutdownGoesOn
  <2>4. CASE stage = "stopping"
    BY <2>1, <2>4 DEF Running, ShutdownGoesOn
  <2> QED BY <2>2, <2>3, <2>4 DEF RuntimeInv, OtherTypes, Stages
<1> QED BY <1>1, <1>2, <1>3, RunsTransport, Invariance, NobodyIsForgotten, PTL DEF RuntimeSpec

-----------------------------------------------------------------------------
(* Agreement while the Room does not drop and nobody gives up: selections   *)
(* take effect in the order of the lock's queue, so the runtime is ahead of *)
(* the transport by the selections that wait.  A reliable packet that fails *)
(* fences the transport: without a reconnection it stays fenced, keeps its  *)
(* shot, and every selection that still waits falls back to that shot.      *)

Selects(i) == pc[waiters[i]] = "waiting" /\ call[waiters[i]].op = "set_shot"
Awaits(i) == pc[waiters[i]] = "waiting" /\ call[waiters[i]].op = "frame"
Wants(i) == call[waiters[i]].shot

(* Once the first n of the queue have had their turn, the transport's shot  *)
(* is s, or still unknown.                                                  *)
Chosen(n, s) ==
  \/ \E i \in 1..n : Selects(i) /\ Wants(i) = s /\ \A j \in (i + 1)..n : ~Selects(j)
  \/ (\A i \in 1..n : ~Selects(i)) /\ tp.shot \in {s, None}

QueueInv ==
  /\ \A i \in 1..Len(waiters) : pc[waiters[i]] \in {"waiting", "settling"}
  /\ \A i, j \in 1..Len(waiters) : waiters[i] = waiters[j] => i = j

(* A frame in the queue is about the shot that its turn will find.          *)
FrameInv ==
  \A k \in 1..Len(waiters) : Awaits(k) =>
    /\ Chosen(k - 1, Wants(k))
    /\ (\A j \in (k + 1)..Len(waiters) : ~Selects(j)) => Wants(k) = currentShot

(* The provider was asked about the frame's shot, or a selection of another *)
(* one comes before the frame's answer.                                     *)
Overtaken(c) ==
  \E i \in 1..Len(waiters) :
    Selects(i) /\ Wants(i) # tp.shot /\ \A j \in 1..i : waiters[j] # c

AskedInv ==
  \A c \in Calls : pc[c] \in Thinking /\ snap[c].shots = tp.shots =>
    asked[c] = call[c].shot \/ Overtaken(c)

OpenInv ==
  /\ tp.connected
  /\ QueueInv /\ Chosen(Len(waiters), currentShot) /\ FrameInv /\ AskedInv

CallsInv ==
  /\ \A c \in Calls : pc[c] # "idle" => call[c].op \in {"set_shot", "frame", "close"}
  /\ \A c, d \in Running("frame") : c = d
  /\ doomed = {}

AgreeInv ==
  /\ Active => OpenInv
  /\ CallsInv /\ AdviceAnswersAskedShot /\ ShotsAgree

-----------------------------------------------------------------------------
(* What a step of call c does to the queue, k = 1 if it had its turn.       *)
Others(c) ==
  \A d \in Calls \ {c} :
    pc'[d] = pc[d] /\ call'[d] = call[d] /\ snap'[d] = snap[d] /\ asked'[d] = asked[d]

Turn(c, k) ==
  /\ k \in {0, 1} /\ k <= Len(waiters) /\ (k = 1 => c = waiters[1])
  /\ Others(c)
  /\ \A i \in 1..(Len(waiters) - k) : waiters'[i] = waiters[i + k] /\ waiters[i + k] # c
  /\ \/ Len(waiters') = Len(waiters) - k
     \/ /\ k = 0 /\ Len(waiters') = Len(waiters) + 1 /\ waiters'[Len(waiters) + 1] = c
        /\ pc'[c] \in {"waiting", "settling"}

LEMMA TurnKeeps ==
  ASSUME TypeOK, NEW c \in Calls, NEW k, Turn(c, k), NEW i \in 1..(Len(waiters) - k)
  PROVE  /\ Selects(i)' <=> Selects(i + k)
         /\ Awaits(i)' <=> Awaits(i + k)
         /\ Wants(i)' = Wants(i + k)
         /\ waiters'[i] = waiters[i + k] /\ waiters'[i] # c /\ waiters'[i] \in Calls
         /\ pc'[waiters'[i]] = pc[waiters[i + k]]
         /\ i + k \in 1..Len(waiters) /\ i \in 1..Len(waiters')
<1>1. waiters \in Seq(Calls) /\ Len(waiters) \in Nat /\ k \in {0, 1}
  BY DEF TypeOK, Turn
<1>2. i + k \in 1..Len(waiters)
  BY <1>1
<1>3. waiters'[i] = waiters[i + k] /\ waiters'[i] \in Calls \ {c}
  BY <1>1, <1>2 DEF Turn
<1>4. i \in 1..Len(waiters')
  BY <1>1 DEF Turn
<1> QED BY <1>2, <1>3, <1>4 DEF Turn, Others, Selects, Awaits, Wants

LEMMA TurnQueue ==
  ASSUME TypeOK, QueueInv, NEW c \in Calls, NEW k, Turn(c, k)
  PROVE  QueueInv'
<1>1. waiters \in Seq(Calls) /\ Len(waiters) \in Nat /\ k \in {0, 1}
  BY DEF TypeOK, Turn
<1>2. ASSUME NEW i \in 1..Len(waiters')
      PROVE  \/ i \in 1..(Len(waiters) - k)
             \/ /\ i = Len(waiters) + 1 /\ k = 0 /\ waiters'[i] = c
                /\ pc'[c] \in {"waiting", "settling"}
  BY <1>1 DEF Turn
<1>3. \A i \in 1..Len(waiters') : pc'[waiters'[i]] \in {"waiting", "settling"}
  BY <1>1, <1>2, TurnKeeps DEF QueueInv
<1>4. \A i, j \in 1..Len(waiters') : waiters'[i] = waiters'[j] => i = j
  <2> TAKE i, j \in 1..Len(waiters')
  <2>1. CASE i \in 1..(Len(waiters) - k) /\ j \in 1..(Len(waiters) - k)
    BY <1>1, <2>1, TurnKeeps DEF QueueInv
  <2>2. CASE i \notin 1..(Len(waiters) - k) /\ j \notin 1..(Len(waiters) - k)
    BY <1>2, <2>2
  <2>3. CASE i \in 1..(Len(waiters) - k) /\ j \notin 1..(Len(waiters) - k)
    BY <1>2, <2>3, TurnKeeps
  <2>4. CASE i \notin 1..(Len(waiters) - k) /\ j \in 1..(Len(waiters) - k)
    BY <1>2, <2>4, TurnKeeps
  <2> QED BY <2>1, <2>2, <2>3, <2>4
<1> QED BY <1>3, <1>4 DEF QueueInv

(* What is chosen stays chosen when the first of the queue has its turn.    *)
LEMMA TurnChosen ==
  ASSUME TypeOK, NEW c \in Calls, NEW k, Turn(c, k),
         NEW n \in k..Len(waiters), NEW s, Chosen(n, s),
         \/ tp'.shot = tp.shot /\ (k = 1 => ~Selects(1))
         \/ k = 1 /\ Selects(1) /\ tp'.shot = Wants(1)
         \/ /\ k = 1 => ~Selects(1)
            /\ tp'.shot = s \/ \E i \in (k + 1)..n : Selects(i)
  PROVE  Chosen(n - k, s)'
<1>1. Len(waiters) \in Nat /\ k \in {0, 1} /\ n \in Nat /\ n - k \in Nat
  BY DEF TypeOK, Turn
<1>2. ASSUME NEW i \in 1..(n - k)
      PROVE  (Selects(i)' <=> Selects(i + k)) /\ Wants(i)' = Wants(i + k)
  <2>1. i \in 1..(Len(waiters) - k)
    BY <1>1
  <2> QED BY <2>1, TurnKeeps
<1>3. ASSUME NEW i \in (k + 1)..n, Selects(i), Wants(i) = s,
             \A j \in (i + 1)..n : ~Selects(j)
      PROVE  Chosen(n - k, s)'
  <2>1. i - k \in 1..(n - k) /\ (i - k) + k = i
    BY <1>1
  <2>2. Selects(i - k)' /\ Wants(i - k)' = s
    BY <1>2, <1>3, <2>1
  <2>3. \A j \in ((i - k) + 1)..(n - k) : ~Selects(j)'
    <3> TAKE j \in ((i - k) + 1)..(n - k)
    <3>1. j \in 1..(n - k) /\ j + k \in (i + 1)..n
      BY <1>1
    <3> QED BY <1>2, <1>3, <3>1
  <2> QED BY <2>1, <2>2, <2>3 DEF Chosen
<1>4. ASSUME \A i \in (k + 1)..n : ~Selects(i), tp'.shot \in {s, None}
      PROVE  Chosen(n - k, s)'
  <2>1. \A i \in 1..(n - k) : ~Selects(i)'
    <3> TAKE i \in 1..(n - k)
    <3>1. i + k \in (k + 1)..n
      BY <1>1
    <3> QED BY <1>2, <1>4, <3>1
  <2> QED BY <1>4, <2>1 DEF Chosen
<1>5. \/ \E i \in (k + 1)..n : Selects(i) /\ Wants(i) = s /\ \A j \in (i + 1)..n : ~Selects(j)
      \/ /\ \A i \in (k + 1)..n : ~Selects(i)
         /\ \/ k = 1 /\ Selects(1) /\ Wants(1) = s
            \/ (k = 1 => ~Selects(1)) /\ tp.shot \in {s, None}
  BY <1>1 DEF Chosen
<1> QED BY <1>3, <1>4, <1>5

(* The one frame in the queue keeps its place among the selections.         *)
LEMMA TurnFrame ==
  ASSUME TypeOK, FrameInv, NEW c \in Calls, NEW k, Turn(c, k),
         NEW L, L = Len(waiters), NEW now, now = currentShot',
         \/ tp'.shot = tp.shot /\ (k = 1 => ~Selects(1))
         \/ k = 1 /\ Selects(1) /\ tp'.shot = Wants(1)
         \/ \A i \in 1..(L - k) : ~Awaits(i + k),
         \/ now = currentShot
         \/ Len(waiters') = L + 1 /\ Selects(L + 1)',
         Len(waiters') = L + 1 /\ Awaits(L + 1)' => Wants(L + 1)' = now /\ Chosen(L, now)'
  PROVE  FrameInv'
<1>1. L \in Nat /\ k \in {0, 1} /\ L - k \in Nat /\ Len(waiters') \in Nat
      /\ Len(waiters') >= L - k
  BY DEF TypeOK, Turn
<1>2. ASSUME NEW i \in 1..(L - k), Awaits(i)'
      PROVE  /\ Chosen(i - 1, Wants(i))'
             /\ (\A j \in (i + 1)..Len(waiters') : ~Selects(j)') => Wants(i)' = now
  <2>1. /\ Awaits(i + k) /\ Wants(i)' = Wants(i + k) /\ i + k \in 1..L
        /\ i \in 1..Len(waiters')
    BY <1>2, TurnKeeps
  <2>2. Chosen((i + k) - 1, Wants(i + k))
    BY <2>1 DEF FrameInv
  <2>3. \/ tp'.shot = tp.shot /\ (k = 1 => ~Selects(1))
        \/ k = 1 /\ Selects(1) /\ tp'.shot = Wants(1)
    BY <2>1
  <2>4. (i + k) - 1 \in k..L /\ ((i + k) - 1) - k = i - 1
    BY <1>1
  <2>5. \A s : Chosen((i + k) - 1, s) => Chosen(i - 1, s)'
    BY <2>3, <2>4, TurnChosen
  <2>6. Chosen(i - 1, Wants(i))'
    <3>1. PICK s : s = Wants(i + k)
      OBVIOUS
    <3>2. Chosen(i - 1, s)' /\ Wants(i)' = s
      BY <2>1, <2>2, <2>5, <3>1
    <3> QED BY <3>2 DEF Chosen
  <2>7. ASSUME \A j \in (i + 1)..Len(waiters') : ~Selects(j)'
        PROVE  Wants(i)' = now
    <3>1. now = currentShot
      <4>1. Len(waiters') = L + 1 => L + 1 \in (i + 1)..Len(waiters')
        BY <1>1
      <4> QED BY <2>7, <4>1
    <3>2. \A j \in ((i + k) + 1)..L : ~Selects(j)
      <4> TAKE j \in ((i + k) + 1)..L
      <4>1. j - k \in 1..(L - k) /\ j - k \in (i + 1)..Len(waiters') /\ (j - k) + k = j
        BY <1>1
      <4> QED BY <2>7, <4>1, TurnKeeps
    <3> QED BY <2>1, <3>1, <3>2 DEF FrameInv
  <2> QED BY <2>6, <2>7
<1>3. ASSUME Len(waiters') = L + 1, NEW i, i = L + 1, Awaits(i)'
      PROVE  Chosen(i - 1, Wants(i))' /\ Wants(i)' = now
  <2>1. Wants(i)' = now /\ Chosen(L, now)' /\ i - 1 = L
    BY <1>1, <1>3
  <2> QED BY <2>1 DEF Chosen
<1>4. \A i \in 1..Len(waiters') : i \in 1..(L - k) \/ (Len(waiters') = L + 1 /\ i = L + 1)
  BY <1>1 DEF Turn
<1>5. ASSUME NEW i \in 1..Len(waiters'), Awaits(i)'
      PROVE  /\ Chosen(i - 1, Wants(i))'
             /\ (\A j \in (i + 1)..Len(waiters') : ~Selects(j)') => Wants(i)' = currentShot'
  BY <1>2, <1>3, <1>4, <1>5
<1> QED BY <1>5 DEF FrameInv

(* What another frame's provider was asked.                                 *)
LEMMA TurnAsked ==
  ASSUME TypeOK, TypeOK', GenInv, AskedInv, NEW c \in Calls, NEW k, Turn(c, k),
         \/ /\ tp'.shot = tp.shot /\ tp'.shots = tp.shots
            /\ k = 1 => ~Selects(1) \/ Wants(1) = tp.shot
         \/ tp'.shots = tp.shots + 1,
         pc'[c] \in Thinking /\ snap'[c].shots = tp'.shots =>
           asked'[c] = call'[c].shot \/ Overtaken(c)'
  PROVE  AskedInv'
<1>1. /\ Len(waiters) \in Nat /\ k \in {0, 1} /\ Len(waiters') \in Nat
      /\ Len(waiters') >= Len(waiters) - k
  BY DEF TypeOK, Turn
<1>2. ASSUME NEW d \in Calls \ {c}, pc'[d] \in Thinking, snap'[d].shots = tp'.shots
      PROVE  asked'[d] = call'[d].shot \/ Overtaken(d)'
  <2>1. /\ pc[d] \in Thinking /\ snap[d] = snap'[d] /\ asked'[d] = asked[d]
        /\ call'[d] = call[d]
    BY <1>2 DEF Turn, Others
  <2>2. snap[d].shots \in Nat /\ snap[d].shots <= tp.shots /\ tp.shots \in Nat
    BY DEF GenInv, TypeOK, Gens, Adapter
  <2>3. /\ tp'.shot = tp.shot /\ tp'.shots = tp.shots
        /\ k = 1 => ~Selects(1) \/ Wants(1) = tp.shot
    BY <1>2, <2>1, <2>2
  <2>4. CASE asked[d] = call[d].shot
    BY <2>1, <2>4
  <2>5. ASSUME NEW i \in 1..Len(waiters), Selects(i), Wants(i) # tp.shot,
               \A j \in 1..i : waiters[j] # d
        PROVE  Overtaken(d)'
    <3>1. i - k \in 1..(Len(waiters) - k) /\ (i - k) + k = i
      BY <1>1, <2>3, <2>5
    <3>2. Selects(i - k)' /\ Wants(i - k)' # tp'.shot /\ i - k \in 1..Len(waiters')
      BY <2>3, <2>5, <3>1, TurnKeeps
    <3>3. \A j \in 1..(i - k) : waiters'[j] # d
      <4> TAKE j \in 1..(i - k)
      <4>1. j \in 1..(Len(waiters) - k) /\ j + k \in 1..i
        BY <1>1, <3>1
      <4> QED BY <2>5, <4>1, TurnKeeps
    <3> QED BY <3>2, <3>3 DEF Overtaken
  <2> QED BY <1>2, <2>1, <2>3, <2>4, <2>5 DEF AskedInv, Overtaken
<1> QED BY <1>2 DEF AskedInv

(* A frame that starts its inference: the question is the runtime's shot,   *)
(* so if it is not the frame's, a selection of it waits.                    *)
LEMMA AskedNow ==
  ASSUME TypeOK', NEW c \in Calls, tp'.shot # None, call'[c].shot = tp'.shot,
         asked'[c] = currentShot', Chosen(Len(waiters), currentShot)',
         \A i \in 1..Len(waiters') : waiters'[i] # c
  PROVE  asked'[c] = call'[c].shot \/ Overtaken(c)'
<1>1. CASE \A i \in 1..Len(waiters') : ~Selects(i)'
  BY <1>1 DEF Chosen
<1>2. CASE \E i \in 1..Len(waiters') : Selects(i)' /\ Wants(i)' = currentShot'
  BY <1>2 DEF Overtaken
<1> QED BY <1>1, <1>2 DEF Chosen

LEMMA SettleLeaves ==
  ASSUME TypeOK, NEW c \in Calls, NEW code, SettleSection(c, code)
  PROVE  /\ tp' = tp /\ snap' = snap
         /\ \E where \in {"publishing", "returned", "failed"} : pc' = [pc EXCEPT ![c] = where]
BY DEF SettleSection, Publish, Leave

(* A call that has its turn at the lock.                                    *)
LEMMA GrantTurn ==
  ASSUME Inv, QueueInv, NEW c \in Calls, Grant(c), Follow(c),
         \E where : pc' = [pc EXCEPT ![c] = where],
         \A d \in Calls \ {c} : snap'[d] = snap[d]
  PROVE  /\ Turn(c, 1) /\ Len(waiters) \in Nat \ {0} /\ waiters[1] = c
         /\ Len(waiters') = Len(waiters) - 1
         /\ \A i \in 1..Len(waiters') : waiters'[i] # c
<1> USE DEF Inv, TypeOK
<1>1. /\ waiters \in Seq(Calls) /\ waiters # <<>> /\ c = waiters[1]
      /\ waiters' = Tail(waiters)
  BY DEF Grant
<1>2. Len(waiters) \in Nat \ {0} /\ Len(waiters') = Len(waiters) - 1
  BY <1>1
<1>3. ASSUME NEW i \in 1..(Len(waiters) - 1)
      PROVE  waiters'[i] = waiters[i + 1] /\ waiters[i + 1] # c
  <2>1. waiters'[i] = waiters[i + 1] /\ i + 1 \in 1..Len(waiters) /\ 1 \in 1..Len(waiters)
    BY <1>1, <1>2
  <2> QED BY <1>1, <2>1 DEF QueueInv
<1>4. Others(c)
  <2>1. call' = call /\ \A d \in Calls \ {c} : asked'[d] = asked[d]
    BY DEF Grant, Follow, AskProvider
  <2> QED BY <2>1 DEF Others
<1> QED BY <1>1, <1>2, <1>3, <1>4 DEF Turn

LEMMA GrantOpen ==
  ASSUME Inv, Inv', CallsInv, OpenInv, OtherTypes, Active, Active',
         NEW c \in Calls, Grant(c), Follow(c)
  PROVE  OpenInv'
<1> USE DEF Inv, OpenInv
<1>a. Active
  OBVIOUS
<1>b. PICK L : L = Len(waiters)
  OBVIOUS
<1>c. PICK now : now = currentShot'
  OBVIOUS
<1>1. ASSUME Turn(c, 1), L \in Nat \ {0}, waiters[1] = c, Len(waiters') = L - 1,
             tp'.connected, now = currentShot, Chosen(L - 1, now)', FrameInv', AskedInv'
      PROVE  OpenInv'
  <2>1. QueueInv'
    BY <1>1, TurnQueue
  <2>2. Chosen(Len(waiters), currentShot)'
    BY <1>1, <1>c DEF Chosen
  <2> QED BY <1>1, <2>1, <2>2
<1>2. CASE pc[c] = "waiting" /\ call[c].op = "set_shot"
  <2>1. SetShotSection(c, call[c].shot)
    BY <1>2, <1>a DEF Grant, Section, InactiveSection
  <2>2. \E where \in {"publishing", "returned"} : pc' = [pc EXCEPT ![c] = where]
    BY <2>1 DEF SetShotSection, ChangeShot, Publish, Leave
  <2>3. /\ tp'.shot = call[c].shot /\ tp'.connected
        /\ \/ tp'.shots = tp.shots /\ tp'.shot = tp.shot
           \/ tp'.shots = tp.shots + 1
    BY <2>1 DEF SetShotSection, ChangeShot, Showing
  <2>4. snap' = snap
    BY <2>1 DEF SetShotSection, ChangeShot
  <2>5. /\ Turn(c, 1) /\ L \in Nat \ {0} /\ waiters[1] = c /\ Len(waiters') = L - 1
    BY <1>b, <2>2, <2>4, GrantTurn
  <2>6. now = currentShot /\ pc'[c] \notin Thinking
    BY <1>c, <2>2 DEF Follow, Thinking, TypeOK
  <2>7. Selects(1) /\ Wants(1) = call[c].shot
    BY <1>2, <2>5 DEF Selects, Wants
  <2>8. Chosen(L - 1, now)'
    <3>1. L \in 1..Len(waiters) /\ Chosen(L, now)
      BY <1>b, <2>5, <2>6
    <3> QED BY <2>3, <2>5, <2>7, <3>1, TurnChosen
  <2>9. FrameInv'
    <3>1. ~(Len(waiters') = L + 1)
      BY <2>5
    <3> QED BY <1>b, <1>c, <2>3, <2>5, <2>6, <2>7, <3>1, TurnFrame
  <2>10. AskedInv'
    BY <2>3, <2>5, <2>6, <2>7, TurnAsked
  <2> QED BY <1>1, <2>3, <2>5, <2>6, <2>8, <2>9, <2>10
<1>3. CASE pc[c] = "waiting" /\ call[c].op = "frame"
  <2>1. FrameSection(c, call[c].shot)
    BY <1>3, <1>a DEF Grant, Section, InactiveSection
  <2>2. \E where \in {"publishing", "inferring"} : pc' = [pc EXCEPT ![c] = where]
    BY <2>1 DEF FrameSection, ChangeShot, Publish, Observe
  <2>3. \A d \in Calls \ {c} : snap'[d] = snap[d]
    BY <2>1 DEF FrameSection, ChangeShot, Observe, TypeOK
  <2>4. /\ Turn(c, 1) /\ L \in Nat \ {0} /\ waiters[1] = c /\ Len(waiters') = L - 1
        /\ \A i \in 1..Len(waiters') : waiters'[i] # c
    BY <1>b, <2>2, <2>3, GrantTurn
  <2>5. now = currentShot /\ call' = call
    BY <1>c, <1>3 DEF Follow, Grant
  <2>6. /\ Awaits(1) /\ ~Selects(1) /\ Wants(1) = call[c].shot /\ call[c].shot \in Shots
        /\ 1 \in 1..Len(waiters)
    BY <1>b, <1>3, <2>4 DEF Awaits, Selects, Wants, CallInv
  <2>7. \A i \in 1..(L - 1) : ~Awaits(i + 1)
    <3> SUFFICES ASSUME NEW i \in 1..(L - 1), Awaits(i + 1) PROVE FALSE
      OBVIOUS
    <3>1. i + 1 \in 1..Len(waiters) /\ waiters[i + 1] \in Calls /\ waiters[i + 1] # c
      <4>1. i + 1 \in 1..Len(waiters) /\ i \in 1..(Len(waiters) - 1)
        BY <1>b, <2>4
      <4>2. waiters[i + 1] # c
        BY <2>4, <4>1 DEF Turn
      <4> QED BY <4>1, <4>2 DEF TypeOK
    <3>2. c \in Running("frame") /\ waiters[i + 1] \in Running("frame")
      BY <1>3, <3>1 DEF Running, Awaits, Final
    <3> QED BY <3>1, <3>2 DEF CallsInv
  <2>8. FrameInv'
    <3>1. ~(Len(waiters') = L + 1)
      BY <2>4
    <3> QED BY <1>b, <1>c, <2>4, <2>5, <2>7, <3>1, TurnFrame
  <2>9. Chosen(L, now) /\ L \in 1..Len(waiters) /\ L \in Nat
    BY <1>b, <2>4, <2>5
  <2>10. CASE call[c].shot # tp.shot
    <3>1. /\ tp'.shot = call[c].shot /\ tp'.connected /\ tp'.shots = tp.shots + 1
          /\ pc'[c] \notin Thinking
      BY <2>1, <2>10 DEF FrameSection, ChangeShot, Publish, Showing, Thinking, TypeOK
    <3>2. tp'.shot = now \/ \E i \in 2..L : Selects(i)
      <4>1. CASE \A j \in 2..L : ~Selects(j)
        <5>1. \A j \in (1 + 1)..Len(waiters) : ~Selects(j)
          BY <1>b, <4>1
        <5>2. Wants(1) = currentShot
          BY <2>6, <5>1 DEF FrameInv
        <5> QED BY <2>5, <2>6, <3>1, <5>2
      <4> QED BY <4>1
    <3>3. Chosen(L - 1, now)'
      <4>1. tp'.shot = now \/ \E i \in (1 + 1)..L : Selects(i)
        BY <3>2
      <4> QED BY <2>4, <2>6, <2>9, <4>1, TurnChosen
    <3>4. AskedInv'
      BY <2>4, <3>1, TurnAsked
    <3> QED BY <1>1, <2>4, <2>5, <2>8, <3>1, <3>3, <3>4
  <2>11. CASE call[c].shot = tp.shot
    <3>1. /\ tp'.shot = tp.shot /\ tp'.connected /\ tp'.shots = tp.shots
          /\ pc'[c] = "inferring"
      BY <2>1, <2>11 DEF FrameSection, Observe, TypeOK, Adapter
    <3>2. Chosen(L - 1, now)'
      BY <2>4, <2>6, <2>9, <3>1, TurnChosen
    <3>3. asked'[c] = currentShot'
      BY <1>3, <3>1 DEF Follow, AskProvider, OtherTypes
    <3>4. asked'[c] = call'[c].shot \/ Overtaken(c)'
      <4>1. Chosen(Len(waiters), currentShot)'
        BY <1>c, <2>4, <3>2 DEF Chosen
      <4>2. tp'.shot # None /\ call'[c].shot = tp'.shot
        BY <2>5, <2>6, <2>11, <3>1, NoneAssumption
      <4> QED BY <2>4, <3>3, <4>1, <4>2, AskedNow
    <3>5. AskedInv'
      BY <2>4, <2>6, <3>1, <3>4, TurnAsked
    <3> QED BY <1>1, <2>4, <2>5, <2>8, <3>1, <3>2, <3>5
  <2> QED BY <2>10, <2>11
<1>4. CASE pc[c] = "settling"
  <2>1. PICK code : SettleSection(c, code)
    BY <1>4 DEF Grant
  <2>2. /\ tp' = tp /\ snap' = snap
        /\ \E where \in {"publishing", "returned", "failed"} : pc' = [pc EXCEPT ![c] = where]
    BY <2>1, SettleLeaves
  <2>3. /\ Turn(c, 1) /\ L \in Nat \ {0} /\ waiters[1] = c /\ Len(waiters') = L - 1
    BY <1>b, <2>2, GrantTurn
  <2>4. now = currentShot /\ ~Selects(1) /\ pc'[c] \notin Thinking
    BY <1>c, <1>4, <2>2, <2>3 DEF Follow, CallInv, Thinking, Selects, TypeOK
  <2>5. Chosen(L - 1, now)'
    <3>1. L \in 1..Len(waiters) /\ Chosen(L, now)
      BY <1>b, <2>3, <2>4
    <3> QED BY <2>2, <2>3, <2>4, <3>1, TurnChosen
  <2>6. FrameInv'
    <3>1. ~(Len(waiters') = L + 1)
      BY <2>3
    <3> QED BY <1>b, <1>c, <2>2, <2>3, <2>4, <3>1, TurnFrame
  <2>7. AskedInv'
    BY <2>2, <2>3, <2>4, TurnAsked
  <2> QED BY <1>1, <2>2, <2>3, <2>4, <2>5, <2>6, <2>7
<1>5. CASE pc[c] = "waiting" /\ call[c].op = "close"
  BY <1>5 DEF Grant, Section, InactiveSection, CloseSection, Fenced, Active
<1> QED BY <1>2, <1>3, <1>4, <1>5 DEF Grant, CallsInv

(* A call that stays out of the queue: it ends its inference, or leaves     *)
(* publish_data.                                                            *)
LEMMA StayTurn ==
  ASSUME TypeOK, QueueInv, NEW c \in Calls, pc[c] \in {"inferring", "publishing"},
         waiters' = waiters, call' = call,
         \E where : pc' = [pc EXCEPT ![c] = where],
         \A d \in Calls \ {c} : snap'[d] = snap[d] /\ asked'[d] = asked[d]
  PROVE  Turn(c, 0) /\ \A i \in 1..Len(waiters') : waiters'[i] # c
<1>1. \A i \in 1..Len(waiters) : waiters[i] # c
  BY DEF QueueInv
<1>2. Others(c)
  BY DEF Others, TypeOK
<1>3. Len(waiters) \in Nat
  BY DEF TypeOK
<1> QED BY <1>1, <1>2, <1>3 DEF Turn

LEMMA StayOpen ==
  ASSUME Inv, Inv', CallsInv, OpenInv, NEW c \in Calls,
         Turn(c, 0), waiters' = waiters, currentShot' = currentShot,
         tp'.shot = tp.shot, tp'.shots = tp.shots, tp'.connected,
         pc'[c] \in Thinking => /\ tp'.shot # None /\ call'[c].shot = tp'.shot
                                /\ asked'[c] = currentShot'
                                /\ \A i \in 1..Len(waiters') : waiters'[i] # c
  PROVE  OpenInv'
<1> USE DEF Inv, OpenInv
<1>b. PICK L : L = Len(waiters)
  OBVIOUS
<1>c. PICK now : now = currentShot'
  OBVIOUS
<1>1. L \in Nat /\ L \in 0..Len(waiters) /\ Len(waiters') = L
  BY <1>b DEF TypeOK
<1>2. Chosen(L, now)'
  <2>1. Chosen(L, now)
    BY <1>b, <1>c
  <2>2. Chosen(L - 0, now)'
    BY <1>1, <2>1, TurnChosen
  <2> QED BY <1>1, <2>2
<1>3. Chosen(Len(waiters), currentShot)'
  BY <1>1, <1>2, <1>c DEF Chosen
<1>4. FrameInv'
  <2>1. ~(Len(waiters') = L + 1) /\ TypeOK /\ FrameInv /\ now = currentShot
    BY <1>1, <1>c
  <2>2. tp'.shot = tp.shot /\ (0 = 1 => ~Selects(1))
    OBVIOUS
  <2> HIDE DEF Inv, OpenInv
  <2> QED BY <1>b, <1>c, <2>1, <2>2, TurnFrame
<1>5. AskedInv'
  <2>1. pc'[c] \in Thinking => asked'[c] = call'[c].shot \/ Overtaken(c)'
    BY <1>3, AskedNow
  <2> QED BY <2>1, TurnAsked
<1>6. QueueInv'
  BY TurnQueue
<1> QED BY <1>3, <1>4, <1>5, <1>6

LEMMA DeliveredOpen ==
  ASSUME Inv, Inv', CallsInv, OpenInv, OtherTypes,
         NEW c \in Calls, Delivered(c), Follow(c)
  PROVE  OpenInv'
<1> USE DEF Inv
<1>1. holder = c /\ Busy /\ call' = call /\ waiters' = waiters /\ pc[c] = "publishing"
  BY NoneAssumption DEF Delivered, LockInv, Busy
<1>2. CASE call[c].op = "frame" /\ Reliable(outbox)
  <2>1. Observe(c)
    BY <1>2 DEF Delivered
  <2>2. /\ tp'.shot = tp.shot /\ tp'.shots = tp.shots /\ tp'.connected
        /\ pc' = [pc EXCEPT ![c] = "inferring"] /\ pc'[c] = "inferring"
        /\ \A d \in Calls \ {c} : snap'[d] = snap[d]
    BY <2>1 DEF Observe, TypeOK, Adapter, OpenInv
  <2>3. currentShot' = currentShot /\ asked' = [asked EXCEPT ![c] = currentShot']
    BY <1>1, <1>2, <2>2 DEF Follow, AskProvider
  <2>4. call'[c].shot = tp'.shot /\ tp'.shot # None
    <3>1. call[c].shot = tp.shot
      BY <1>1, <1>2 DEF OutboxInv, Reliable
    <3>2. call[c].shot \in Shots
      BY <1>2 DEF CallInv
    <3> QED BY <1>1, <2>2, <3>1, <3>2, NoneAssumption
  <2>5. asked'[c] = currentShot' /\ \A d \in Calls \ {c} : asked'[d] = asked[d]
    BY <2>3 DEF OtherTypes
  <2>6. Turn(c, 0) /\ \A i \in 1..Len(waiters') : waiters'[i] # c
    BY <1>1, <2>2, <2>5, StayTurn DEF OpenInv
  <2> QED BY <1>1, <2>2, <2>3, <2>4, <2>5, <2>6, StayOpen
<1>3. CASE ~(call[c].op = "frame" /\ Reliable(outbox))
  <2>1. /\ pc' = [pc EXCEPT ![c] = "returned"] /\ snap' = snap /\ tp' = tp
        /\ pc'[c] = "returned"
    BY <1>1, <1>3 DEF Delivered, Leave, CallsInv, TypeOK
  <2>2. currentShot' = currentShot /\ asked' = asked
    BY <2>1 DEF Follow, AskProvider
  <2>3. Turn(c, 0)
    BY <1>1, <2>1, <2>2, StayTurn DEF OpenInv
  <2> QED BY <1>1, <2>1, <2>2, <2>3, StayOpen DEF Thinking, OpenInv
<1> QED BY <1>2, <1>3

LEMMA LostOpen ==
  ASSUME Inv, Inv', CallsInv, OpenInv, NEW c \in Calls, Follow(c),
         InferenceFails(c) \/ (Undelivered(c) /\ ~Reliable(outbox))
  PROVE  OpenInv'
<1> USE DEF Inv
<1>1. /\ call' = call /\ waiters' = waiters /\ pc' = [pc EXCEPT ![c] = "failed"]
      /\ snap' = snap /\ tp' = tp /\ pc[c] \in {"inferring", "publishing"}
  BY DEF InferenceFails, Undelivered, Leave
<1>2. call[c].op = "frame"
  <2>1. CASE InferenceFails(c)
    BY <2>1 DEF InferenceFails, CallInv, Thinking
  <2>2. CASE Undelivered(c) /\ ~Reliable(outbox)
    BY <2>2, NoneAssumption DEF Undelivered, LockInv, OutboxInv, Busy, Reliable
  <2> QED BY <2>1, <2>2
<1>3. pc'[c] = "failed" /\ currentShot' = currentShot /\ asked' = asked
  BY <1>1, <1>2 DEF Follow, AskProvider, TypeOK
<1>4. Turn(c, 0)
  BY <1>1, <1>3, StayTurn DEF OpenInv
<1> QED BY <1>1, <1>3, <1>4, StayOpen DEF Thinking, OpenInv

(* A call that joins the queue: a selection, which the runtime already      *)
(* shows, a frame about the shot the runtime shows, or a frame's answer.    *)
LEMMA EnqueueOpen ==
  ASSUME Inv, Inv', OpenInv, NEW c \in Calls, NEW where \in {"waiting", "settling"},
         pc[c] \in {"idle", "inferring"}, Enqueue(c, where),
         \A d \in Calls \ {c} : call'[d] = call[d] /\ asked'[d] = asked[d],
         where = "settling" =>
           pc[c] = "inferring" /\ call'[c] = call[c] /\ asked'[c] = asked[c],
         \/ currentShot' = currentShot
         \/ where = "waiting" /\ call'[c].op = "set_shot",
         where = "waiting" /\ call'[c].op \in {"set_shot", "frame"}
           => call'[c].shot = currentShot'
  PROVE  OpenInv'
<1> USE DEF Inv, OpenInv
<1>b. PICK L : L = Len(waiters)
  OBVIOUS
<1>c. PICK now : now = currentShot'
  OBVIOUS
<1>1. /\ L \in Nat /\ Len(waiters') = L + 1 /\ waiters'[L + 1] = c
      /\ pc'[c] = where /\ tp' = tp /\ snap' = snap
      /\ \A d \in Calls \ {c} : pc'[d] = pc[d]
  BY <1>b DEF Enqueue, TypeOK
<1>2. \A i \in 1..L : waiters'[i] = waiters[i] /\ waiters[i] # c
  <2> TAKE i \in 1..L
  <2>1. waiters'[i] = waiters[i]
    BY <1>b DEF Enqueue, TypeOK
  <2>2. pc[waiters[i]] \in {"waiting", "settling"}
    BY <1>b DEF QueueInv
  <2> QED BY <2>1, <2>2
<1>3. Turn(c, 0)
  BY <1>b, <1>1, <1>2 DEF Turn, Others
<1>4. /\ Selects(L + 1)' <=> (where = "waiting" /\ call'[c].op = "set_shot")
      /\ Awaits(L + 1)' <=> (where = "waiting" /\ call'[c].op = "frame")
      /\ Wants(L + 1)' = call'[c].shot
  BY <1>1 DEF Selects, Awaits, Wants
<1>5. now = currentShot => Chosen(L, now)'
  <2>1. L \in 0..Len(waiters) /\ (now = currentShot => Chosen(L, now))
    BY <1>b, <1>1
  <2>2. now = currentShot => Chosen(L - 0, now)'
    BY <1>1, <1>3, <2>1, TurnChosen
  <2> QED BY <1>1, <2>2
<1>6. Chosen(L + 1, now)'
  <2>1. CASE Selects(L + 1)'
    BY <1>1, <1>4, <1>c, <2>1 DEF Chosen
  <2>2. CASE ~Selects(L + 1)'
    <3>1. Chosen(L, now)'
      BY <1>4, <1>5, <1>c, <2>2
    <3>2. \A i \in 1..L : i \in 1..(L + 1)
      BY <1>1
    <3>3. \A j : \A i \in 0..L : j \in (i + 1)..(L + 1) => j \in (i + 1)..L \/ j = L + 1
      BY <1>1
    <3> QED BY <1>1, <2>2, <3>1, <3>2, <3>3 DEF Chosen
  <2> QED BY <2>1, <2>2
<1>7. Chosen(Len(waiters), currentShot)'
  BY <1>1, <1>6, <1>c DEF Chosen
<1>8. FrameInv'
  <2>1. TypeOK /\ FrameInv /\ tp'.shot = tp.shot /\ (0 = 1 => ~Selects(1))
    BY <1>1
  <2>2. now = currentShot \/ (Len(waiters') = L + 1 /\ Selects(L + 1)')
    BY <1>1, <1>4, <1>c
  <2>3. Awaits(L + 1)' => Wants(L + 1)' = now /\ Chosen(L, now)'
    BY <1>4, <1>5, <1>c
  <2> HIDE DEF Inv, OpenInv
  <2> QED BY <1>b, <1>c, <1>3, <2>1, <2>2, <2>3, TurnFrame
<1>9. AskedInv'
  <2>1. ASSUME pc'[c] \in Thinking, snap'[c].shots = tp'.shots
        PROVE  asked'[c] = call'[c].shot \/ Overtaken(c)'
    <3>1. where = "settling" /\ pc[c] \in Thinking /\ snap[c].shots = tp.shots
      BY <1>1, <2>1 DEF Thinking
    <3>2. asked[c] = call[c].shot \/ Overtaken(c)
      BY <3>1 DEF AskedInv
    <3>3. Overtaken(c) => Overtaken(c)'
      <4> SUFFICES ASSUME NEW i \in 1..L, Selects(i), Wants(i) # tp.shot
                   PROVE  Overtaken(c)'
        BY <1>b DEF Overtaken
      <4>1. Selects(i)' /\ Wants(i)' # tp'.shot
        <5>1. i \in 1..(Len(waiters) - 0) /\ i + 0 = i
          BY <1>b, <1>1
        <5> QED BY <1>1, <1>3, <5>1, TurnKeeps
      <4>2. i \in 1..Len(waiters') /\ \A j \in 1..i : j \in 1..L
        BY <1>1
      <4> QED BY <1>2, <4>1, <4>2 DEF Overtaken
    <3> QED BY <3>1, <3>2, <3>3
  <2> QED BY <1>1, <1>3, <2>1, TurnAsked
<1>10. QueueInv'
  BY <1>3, TurnQueue
<1> QED BY <1>1, <1>7, <1>8, <1>9, <1>10

(* A call that finds the lock free and leaves the transport with the shot   *)
(* of the runtime.                                                          *)
LEMMA FreeOpen ==
  ASSUME Inv, Inv', OpenInv, NEW c \in Calls, waiters = << >>, waiters' = << >>,
         Others(c), tp'.connected, tp'.shot = currentShot',
         \/ tp'.shots = tp.shots /\ tp'.shot = tp.shot
         \/ tp'.shots = tp.shots + 1,
         pc'[c] \in Thinking => asked'[c] = call'[c].shot
  PROVE  OpenInv'
<1> USE DEF Inv, OpenInv
<1>1. Len(waiters) = 0 /\ Len(waiters') = 0
  OBVIOUS
<1>2. QueueInv' /\ FrameInv'
  BY <1>1 DEF QueueInv, FrameInv
<1>3. Chosen(Len(waiters), currentShot)'
  BY <1>1 DEF Chosen
<1>4. Turn(c, 0)
  BY <1>1 DEF Turn
<1>5. AskedInv'
  BY <1>4, TurnAsked
<1> QED BY <1>2, <1>3, <1>5

LEMMA AnswerOpen ==
  ASSUME Inv, Inv', OpenInv, CallsInv, OtherTypes,
         NEW c \in Calls, NEW code \in Code0, Answer(c, code), Follow(c)
  PROVE  OpenInv'
<1> USE DEF Inv
<1>1. call[c].op = "frame" /\ pc[c] = "inferring" /\ call' = call
  BY DEF Answer, CallInv, Thinking
<1>2. currentShot' = currentShot /\ asked' = asked
  BY <1>1 DEF Follow, AskProvider
<1>3. CASE LockFree /\ SettleSection(c, code) /\ UNCHANGED waiters
  <2>1. /\ tp' = tp /\ snap' = snap
        /\ \E where \in {"publishing", "returned", "failed"} : pc' = [pc EXCEPT ![c] = where]
    BY <1>3, SettleLeaves
  <2>2. Turn(c, 0)
    BY <1>1, <1>2, <1>3, <2>1, StayTurn DEF OpenInv
  <2>3. pc'[c] \notin Thinking
    BY <2>1 DEF Thinking, TypeOK
  <2> QED BY <1>2, <1>3, <2>1, <2>2, <2>3, StayOpen DEF OpenInv
<1>4. CASE Enqueue(c, "settling")
  BY <1>1, <1>2, <1>4, EnqueueOpen
<1> QED BY <1>3, <1>4 DEF Answer

LEMMA SetShotOpen ==
  ASSUME Inv, Inv', OpenInv, Active, NEW c \in Calls, NEW s \in Shots, SetShot(c, s)
  PROVE  OpenInv'
<1> USE DEF Inv
<1>1. Begin(c, "set_shot", s) /\ asked' = asked
  BY DEF SetShot
<1>2. /\ pc[c] = "idle" /\ call'[c].op = "set_shot" /\ call'[c].shot = s
      /\ \A d \in Calls \ {c} : call'[d] = call[d] /\ pc'[d] = pc[d]
  BY <1>1, BeginKeeps
<1>3. CASE LockFree /\ Section(c, "set_shot", s) /\ UNCHANGED waiters
  <2>1. SetShotSection(c, s)
    BY <1>3 DEF Section, InactiveSection, Active, OpenInv
  <2>2. /\ snap' = snap /\ tp'.connected /\ tp'.shot = s
        /\ \/ tp'.shots = tp.shots /\ tp'.shot = tp.shot
           \/ tp'.shots = tp.shots + 1
        /\ pc'[c] \in {"publishing", "returned"}
    BY <2>1 DEF SetShotSection, ChangeShot, Publish, Leave, Showing, Active, TypeOK
  <2>3. currentShot' = s /\ pc'[c] \notin Thinking /\ Others(c)
    BY <1>1, <1>2, <2>2 DEF SetShot, Thinking, Others
  <2> QED BY <1>3, <2>2, <2>3, FreeOpen DEF LockFree
<1>4. CASE ~LockFree /\ Enqueue(c, "waiting")
  <2>1. currentShot' = s
    BY <1>4 DEF SetShot, Enqueue, TypeOK
  <2> QED BY <1>1, <1>2, <1>4, <2>1, EnqueueOpen
<1> QED BY <1>1, <1>3, <1>4 DEF Begin

LEMMA ProcessFrameOpen ==
  ASSUME Inv, Inv', OpenInv, OtherTypes, SelectionInv, Active,
         NEW c \in Calls, ProcessFrame(c)
  PROVE  OpenInv'
<1> USE DEF Inv
<1>1. Begin(c, "frame", currentShot) /\ AskProvider(c) /\ currentShot' = currentShot
  BY DEF ProcessFrame
<1>2. /\ pc[c] = "idle" /\ call'[c].op = "frame" /\ call'[c].shot = currentShot
      /\ \A d \in Calls \ {c} : call'[d] = call[d] /\ pc'[d] = pc[d]
  BY <1>1, BeginKeeps
<1>3. \A d \in Calls \ {c} : asked'[d] = asked[d]
  BY <1>1 DEF AskProvider, OtherTypes
<1>4. CASE LockFree /\ Section(c, "frame", currentShot) /\ UNCHANGED waiters
  <2>1. FrameSection(c, currentShot)
    BY <1>4 DEF Section, InactiveSection, Active, OpenInv
  <2>2. /\ \A d \in Calls \ {c} : snap'[d] = snap[d]
        /\ tp'.connected /\ tp'.shot = currentShot
        /\ \/ tp'.shots = tp.shots /\ tp'.shot = tp.shot
           \/ tp'.shots = tp.shots + 1
        /\ pc'[c] \in {"publishing", "inferring"}
    BY <2>1 DEF FrameSection, ChangeShot, Publish, Observe, Showing, Active, TypeOK, Adapter
  <2>3. pc'[c] \in Thinking => asked'[c] = call'[c].shot
    BY <1>1, <1>2, <2>2 DEF AskProvider, OtherTypes, Thinking
  <2>4. Others(c)
    BY <1>2, <1>3, <2>2 DEF Others
  <2> QED BY <1>1, <1>4, <2>2, <2>3, <2>4, FreeOpen DEF LockFree
<1>5. CASE ~LockFree /\ Enqueue(c, "waiting")
  BY <1>1, <1>2, <1>3, <1>5, EnqueueOpen
<1> QED BY <1>1, <1>4, <1>5 DEF Begin

LEMMA CloseOpen ==
  ASSUME Inv, Inv', OpenInv, Active', NEW c \in Calls, Close(c)
  PROVE  OpenInv'
<1> USE DEF Inv
<1>1. Begin(c, "close", None) /\ currentShot' = currentShot /\ asked' = asked
  BY DEF Close
<1>2. /\ pc[c] = "idle" /\ call'[c].op = "close" /\ call'[c].shot = None
      /\ \A d \in Calls \ {c} : call'[d] = call[d] /\ pc'[d] = pc[d]
  BY <1>1, BeginKeeps
<1>3. ~Section(c, "close", None)
  BY DEF Section, InactiveSection, CloseSection, Fenced, Active
<1>4. Enqueue(c, "waiting")
  BY <1>1, <1>3 DEF Begin
<1> QED BY <1>1, <1>2, <1>4, EnqueueOpen

LEMMA OpenStep ==
  ASSUME Faults \subseteq {"fail"}, Inv, Inv', RuntimeInv, OpenInv, CallsInv,
         Active, Active', [RuntimeNext]_allVars
  PROVE  OpenInv'
<1>1. ASSUME NEW c \in Calls, Start(c) PROVE OpenInv'
  BY <1>1, SetShotOpen, ProcessFrameOpen, CloseOpen
  DEF Start, Reconnecting, Reconnected, Disconnected, RoomEvent, RuntimeInv
<1>2. ASSUME NEW c \in Calls, Step(c) \/ CancelCall(c) PROVE OpenInv'
  <2>1. c \notin doomed /\ ~CancelCall(c)
    BY DEF CancelCall, Cancellable, CallsInv, RuntimeInv, ShutdownInv, Active
  <2>2. CASE Proceed(c)
    <3>1. ~(Undelivered(c) /\ Reliable(outbox))
      BY DEF Undelivered, Fenced, Active
    <3> QED BY <2>2, <3>1, GrantOpen, DeliveredOpen, LostOpen DEF Proceed, RuntimeInv
  <2>3. CASE Conclude1(c)
    BY <2>3, AnswerOpen, LostOpen DEF Conclude1, Conclude, RuntimeInv
  <2> QED BY <1>2, <2>1, <2>2, <2>3 DEF Step
<1>3. CASE Joined \/ Stopped \/ Abandoned \/ UNCHANGED allVars
  <2>1. /\ tp' = tp /\ waiters' = waiters /\ pc' = pc /\ call' = call /\ snap' = snap
        /\ asked' = asked /\ currentShot' = currentShot
    BY <1>3 DEF Joined, Stopped, Abandoned, allVars, vars, runtimeVars
  <2> QED BY <2>1 DEF OpenInv, QueueInv, FrameInv, AskedInv, Overtaken, Chosen,
                      Selects, Awaits, Wants
<1> QED BY <1>1, <1>2, <1>3 DEF RuntimeNext

LEMMA CallsStep ==
  ASSUME Faults \subseteq {"fail"}, Inv, Inv', RuntimeInv, CallsInv, [RuntimeNext]_allVars
  PROVE  CallsInv'
<1> USE DEF CallsInv
<1>0. Running("disconnect") = {} /\ Running("reconnect") = {}
  BY DEF Running
<1>1. ASSUME NEW c \in Calls, FollowClose(c) PROVE doomed' = {}
  BY <1>0, <1>1 DEF FollowClose
<1>2. ASSUME NEW c \in Calls, NEW s, SetShot(c, s) PROVE CallsInv'
  <2>1. Begin(c, "set_shot", s) /\ doomed' = doomed
    BY <1>2 DEF SetShot
  <2> QED BY <2>1, BeginKeeps DEF Running
<1>3. ASSUME NEW c \in Calls, ProcessFrame(c) PROVE CallsInv'
  <2>1. Begin(c, "frame", currentShot) /\ doomed' = doomed /\ Running("frame") = {}
    BY <1>3 DEF ProcessFrame
  <2> QED BY <2>1, BeginKeeps DEF Running
<1>4. ASSUME NEW c \in Calls, Close(c) PROVE CallsInv'
  <2>1. Begin(c, "close", None) /\ doomed' = {}
    BY <1>1, <1>4 DEF Close
  <2> QED BY <2>1, BeginKeeps DEF Running
<1>5. ASSUME NEW c \in Calls, Step(c) \/ CancelCall(c) PROVE CallsInv'
  <2>1. /\ Follow(c) /\ call' = call /\ pc[c] \notin Final \cup {"idle"}
        /\ \A d \in Calls \ {c} : pc'[d] = pc[d]
    BY <1>5, StepSteps, StepKeeps
  <2>2. doomed' = {}
    BY <1>1, <2>1 DEF Follow
  <2>3. \A d \in Calls : pc[d] = "idle" => pc'[d] = "idle"
    BY <2>1
  <2>4. Running("frame")' \subseteq Running("frame")
    BY <2>1 DEF Running
  <2> QED BY <2>1, <2>2, <2>3, <2>4
<1>6. CASE Joined \/ Stopped \/ Abandoned \/ UNCHANGED allVars
  BY <1>6 DEF Joined, Stopped, Abandoned, allVars, vars, runtimeVars, Running
<1> QED BY <1>2, <1>3, <1>4, <1>5, <1>6
        DEF RuntimeNext, Start, Reconnecting, Reconnected, Disconnected, RoomEvent

(* Advice reaches the outbox only where its frame is still the newest and   *)
(* nothing waits before it.                                                 *)
LEMMA SectionQuiet ==
  ASSUME NEW c \in Calls, NEW op, NEW s, Section(c, op, s)
  PROVE  holder' = None \/ Reliable(outbox')
BY SectionCases
DEF SectionChanges, ChangeShot, SectionObserves, SectionSnapshots, SectionReconnects,
    SectionFences, SectionLeaves, Publish, Leave, Observe, Reliable

LEMMA AdviceStep ==
  ASSUME Faults \subseteq {"fail"}, Inv, Inv', RuntimeInv, Active => OpenInv,
         CallsInv, AdviceAnswersAskedShot, [RuntimeNext]_allVars
  PROVE  AdviceAnswersAskedShot'
<1> USE DEF Inv
<1>1. ASSUME holder' = None \/ Reliable(outbox') PROVE AdviceAnswersAskedShot'
  BY <1>1, NoneAssumption DEF AdviceAnswersAskedShot
<1>2. ASSUME holder' = holder, outbox' = outbox,
             \A d \in Calls : holder = d => asked'[d] = asked[d]
      PROVE  AdviceAnswersAskedShot'
  BY <1>2 DEF AdviceAnswersAskedShot
<1>3. ASSUME NEW c \in Calls, NEW code, SettleSection(c, code), Follow(c),
             call[c].op = "frame", pc[c] \in Thinking, ~Overtaken(c)
      PROVE  AdviceAnswersAskedShot'
  <2>1. CASE holder' = None
    BY <1>1, <2>1
  <2>2. CASE /\ Fresh(c) /\ Publish(c, "advice", Emit(call[c].shot, code))
    <3>1. OpenInv /\ snap[c].shots = tp.shots
      BY <2>2 DEF Fresh
    <3>2. asked[c] = call[c].shot
      BY <1>3, <3>1 DEF OpenInv, AskedInv
    <3>3. asked' = asked
      BY <1>3, <2>2 DEF Follow, AskProvider, Publish, TypeOK
    <3>4. outbox'.shot = call[c].shot /\ holder' = c
      BY <2>2 DEF Publish, Emit
    <3> QED BY <3>2, <3>3, <3>4 DEF AdviceAnswersAskedShot
  <2> QED BY <1>3, <2>1, <2>2 DEF SettleSection, Leave
<1>4. ASSUME NEW c \in Calls, NEW op, NEW s, Begin(c, op, s), pc'[c] # "inferring" => asked' = asked
      PROVE  AdviceAnswersAskedShot'
  <2>1. CASE Section(c, op, s)
    BY <1>1, <2>1, SectionQuiet
  <2>2. CASE Enqueue(c, "waiting")
    BY <1>2, <1>4, <2>2 DEF Enqueue, TypeOK
  <2> QED BY <1>4, <2>1, <2>2 DEF Begin
<1>5. ASSUME NEW c \in Calls, Start(c) PROVE AdviceAnswersAskedShot'
  BY <1>4, <1>5
  DEF Start, SetShot, ProcessFrame, AskProvider, Close, Reconnecting, Reconnected,
      Disconnected, RoomEvent
<1>6. ASSUME NEW c \in Calls, Grant(c), Follow(c) PROVE AdviceAnswersAskedShot'
  <2>1. CASE pc[c] = "settling"
    <3>1. ~Overtaken(c)
      <4>1. waiters[1] = c /\ \A i \in 1..Len(waiters) : 1 \in 1..i
        BY <1>6 DEF Grant, TypeOK
      <4> QED BY <4>1 DEF Overtaken
    <3> QED BY <1>3, <1>6, <2>1, <3>1 DEF Grant, CallInv, Thinking
  <2>2. CASE pc[c] = "waiting"
    BY <1>1, <1>6, <2>2, SectionQuiet DEF Grant
  <2> QED BY <1>6, <2>1, <2>2 DEF Grant
<1>7. ASSUME NEW c \in Calls, Delivered(c) \/ Undelivered(c) PROVE AdviceAnswersAskedShot'
  BY <1>1, <1>7 DEF Delivered, Undelivered, Leave, Observe
<1>8. ASSUME NEW c \in Calls, InferenceFails(c), Follow(c) PROVE AdviceAnswersAskedShot'
  <2>1. asked' = asked
    BY <1>8 DEF Follow, AskProvider, InferenceFails, TypeOK
  <2> QED BY <1>2, <1>8, <2>1 DEF InferenceFails
<1>9. ASSUME NEW c \in Calls, NEW code \in Code0, Answer(c, code), Follow(c)
      PROVE  AdviceAnswersAskedShot'
  <2>0. call[c].op = "frame" /\ pc[c] \in Thinking
    BY <1>9 DEF Answer, CallInv, Thinking
  <2>1. CASE LockFree /\ SettleSection(c, code)
    <3>1. ~Overtaken(c)
      BY <2>1 DEF LockFree, Overtaken
    <3> QED BY <1>3, <1>9, <2>0, <2>1, <3>1
  <2>2. CASE Enqueue(c, "settling")
    <3>1. asked' = asked
      BY <1>9, <2>2 DEF Follow, AskProvider, Enqueue, TypeOK
    <3> QED BY <1>2, <2>2, <3>1 DEF Enqueue
  <2> QED BY <1>9, <2>1, <2>2 DEF Answer
<1>10. CASE Joined \/ Stopped \/ Abandoned \/ UNCHANGED allVars
  BY <1>2, <1>10 DEF Joined, Stopped, Abandoned, allVars, vars, runtimeVars
<1>11. ASSUME NEW c \in Calls, CancelWait(c), Follow(c) PROVE AdviceAnswersAskedShot'
  <2>1. asked' = asked
    BY <1>11 DEF Follow, AskProvider, CancelWait, TypeOK
  <2> QED BY <1>2, <1>11, <2>1 DEF CancelWait
<1> QED BY <1>5, <1>6, <1>7, <1>8, <1>9, <1>10, <1>11, StepSteps
        DEF RuntimeNext, Resume, Conclude

(* Only a reconnection makes a fenced transport active again.               *)
LEMMA InactiveStays ==
  ASSUME Inv, Inv', CallsInv, CallsInv', RuntimeInv, ~Active, [RuntimeNext]_allVars
  PROVE  ~Active'
<1> USE DEF Inv, TypeOK
<1>0. tp.closed => tp'.closed
  BY ClosedStays, TransportSteps DEF RuntimeInv
<1>1. CASE tp.closed
  BY <1>0, <1>1 DEF Active
<1>2. CASE ~tp.connected
  <2>1. ASSUME NEW c \in Calls, NEW op, NEW s, Section(c, op, s) PROVE ~tp'.connected
    BY <1>2, <2>1
    DEF Section, SetShotSection, ResyncSection, FrameSection, InactiveSection,
        DisconnectSection, ReconnectSection, CloseSection, Fenced, Active, Adapter
  <2>2. ASSUME NEW c \in Calls, NEW op, NEW s, Begin(c, op, s) PROVE ~tp'.connected
    BY <1>2, <2>1, <2>2 DEF Begin, Enqueue
  <2>3. ASSUME NEW c \in Calls, Start(c) PROVE ~tp'.connected
    BY <2>2, <2>3
    DEF Start, SetShot, ProcessFrame, Reconnecting, Reconnected, Disconnected,
        RoomEvent, Close
  <2>4. ASSUME NEW c \in Calls, Grant(c) PROVE ~tp'.connected
    BY <1>2, <2>1, <2>4, SettleLeaves DEF Grant
  <2>5. ASSUME NEW c \in Calls, Delivered(c) \/ Undelivered(c) PROVE ~tp'.connected
    <3>1. call[c].op # "reconnect"
      BY <2>5 DEF Delivered, Undelivered, CallsInv
    <3> QED BY <1>2, <2>5, <3>1 DEF Delivered, Undelivered, Observe, Fenced, Adapter
  <2>6. ASSUME NEW c \in Calls, InferenceFails(c) \/ CancelWait(c) PROVE ~tp'.connected
    BY <1>2, <2>6 DEF InferenceFails, CancelWait
  <2>7. ASSUME NEW c \in Calls, NEW code \in Code0, Answer(c, code) PROVE ~tp'.connected
    BY <1>2, <2>7, SettleLeaves DEF Answer, Enqueue
  <2>8. CASE Joined \/ Stopped \/ Abandoned \/ UNCHANGED allVars
    <3>1. tp' = tp
      BY <2>8 DEF Joined, Stopped, Abandoned, allVars, vars
    <3> QED BY <1>2, <3>1 DEF Active
  <2> QED BY <2>3, <2>4, <2>5, <2>6, <2>7, <2>8, StepSteps
          DEF RuntimeNext, Resume, Conclude, Active
<1> QED BY <1>1, <1>2 DEF Active

(* A transport that is fenced, or gets fenced in this step, keeps its shot; *)
(* a selection that ends then has failed.                                   *)
LEMMA ClosedSection ==
  ASSUME Inv, NEW c \in Calls, NEW op, NEW s, Section(c, op, s), ~Active'
  PROVE  tp'.shot = tp.shot /\ (op = "set_shot" => pc'[c] = "failed")
BY DEF Section, SetShotSection, ResyncSection, FrameSection, InactiveSection,
       DisconnectSection, ReconnectSection, CloseSection, ChangeShot, Showing, Observe,
       Publish, Leave, Fenced, Active, Inv, TypeOK, Adapter

LEMMA ClosedStep ==
  ASSUME Inv, NEW c \in Calls, Resume(c) \/ Conclude(c) \/ CancelWait(c), ~Active'
  PROVE  tp'.shot = tp.shot /\ (call[c].op = "set_shot" => pc'[c] = "failed")
<1> USE DEF Inv, TypeOK
<1>1. CASE Grant(c) /\ pc[c] = "waiting"
  BY <1>1, ClosedSection DEF Grant
<1>2. CASE Grant(c) /\ pc[c] = "settling"
  BY <1>2, SettleLeaves DEF Grant, CallInv, Thinking
<1>3. CASE Delivered(c)
  <2>1. call[c].op = "set_shot" => Active
    BY <1>3, NoneAssumption DEF Delivered, LockInv, OutboxInv, Busy, Active
  <2> QED BY <1>3, <2>1 DEF Delivered, Observe, Adapter, Active
<1>4. CASE Undelivered(c)
  BY <1>4 DEF Undelivered, Leave, Fenced
<1>5. CASE InferenceFails(c) \/ CancelWait(c)
  BY <1>5 DEF InferenceFails, CancelWait
<1>6. ASSUME NEW code \in Code0, Answer(c, code)
      PROVE  tp'.shot = tp.shot /\ call[c].op # "set_shot"
  BY <1>6, SettleLeaves DEF Answer, Enqueue, CallInv, Thinking
<1> QED BY <1>1, <1>2, <1>3, <1>4, <1>5, <1>6 DEF Resume, Conclude, Grant

LEMMA ClosedAgree ==
  ASSUME Inv, Inv', RuntimeInv, ~Active', ShotsAgree, [RuntimeNext]_allVars
  PROVE  ShotsAgree'
<1>1. ASSUME tp'.shot = tp.shot, currentShot' = currentShot,
             Running("set_shot") \subseteq Running("set_shot")'
      PROVE  ShotsAgree'
  BY <1>1 DEF ShotsAgree
<1>2. ASSUME tp'.shot # None => currentShot' = tp'.shot PROVE ShotsAgree'
  BY <1>2 DEF ShotsAgree
<1>3. ASSUME NEW c \in Calls, NEW op, NEW s, Begin(c, op, s)
      PROVE  /\ tp'.shot = tp.shot /\ Running("set_shot") \subseteq Running("set_shot")'
             /\ op = "set_shot" => pc'[c] = "failed" \/ c \in Running("set_shot")'
  <2>1. /\ pc[c] = "idle" /\ call'[c].op = op
        /\ \A d \in Calls \ {c} : call'[d] = call[d] /\ pc'[d] = pc[d]
    BY <1>3, BeginKeeps
  <2>2. Running("set_shot") \subseteq Running("set_shot")'
    BY <2>1 DEF Running
  <2>3. CASE Section(c, op, s)
    BY <2>2, <2>3, ClosedSection
  <2>4. CASE Enqueue(c, "waiting")
    BY <2>1, <2>2, <2>4 DEF Enqueue, Running, Final, Inv, TypeOK
  <2> QED BY <1>3, <2>3, <2>4 DEF Begin
<1>4. ASSUME NEW c \in Calls, NEW s \in Shots, SetShot(c, s) PROVE ShotsAgree'
  <2>1. pc'[c] = "failed" \/ c \in Running("set_shot")'
    BY <1>3, <1>4 DEF SetShot
  <2>2. CASE pc'[c] = "failed"
    BY <1>2, <1>4, <2>2 DEF SetShot, Fallback
  <2>3. CASE c \in Running("set_shot")'
    BY <2>3 DEF ShotsAgree
  <2> QED BY <2>1, <2>2, <2>3
<1>5. ASSUME NEW c \in Calls, Start(c), \A s \in Shots : ~SetShot(c, s) PROVE ShotsAgree'
  <2>1. PICK op, s : Begin(c, op, s) /\ currentShot' = currentShot
    BY <1>5 DEF Start, ProcessFrame, Reconnecting, Reconnected, Disconnected, RoomEvent, Close
  <2> QED BY <1>1, <1>3, <2>1
<1>6. ASSUME NEW c \in Calls, Step(c) \/ CancelCall(c) PROVE ShotsAgree'
  <2>1. /\ Follow(c) /\ call' = call /\ \A d \in Calls \ {c} : pc'[d] = pc[d]
        /\ tp'.shot = tp.shot /\ (call[c].op = "set_shot" => pc'[c] = "failed")
    BY <1>6, StepSteps, StepKeeps, ClosedStep
  <2>2. CASE call[c].op = "set_shot"
    BY <1>2, <2>1, <2>2 DEF Follow, Fallback
  <2>3. CASE call[c].op # "set_shot"
    BY <1>1, <2>1, <2>3 DEF Follow, Running
  <2> QED BY <2>2, <2>3
<1>7. CASE Joined \/ Stopped \/ Abandoned \/ UNCHANGED allVars
  BY <1>1, <1>7 DEF Joined, Stopped, Abandoned, allVars, vars, runtimeVars, Running
<1> QED BY <1>4, <1>5, <1>6, <1>7 DEF RuntimeNext

LEMMA AgreeStep ==
  ASSUME Faults \subseteq {"fail"}, Inv, Inv', RuntimeInv, AgreeInv, [RuntimeNext]_allVars
  PROVE  AgreeInv'
<1> USE DEF AgreeInv
<1>0. CallsInv'
  BY CallsStep
<1>1. ~Active => ~Active'
  BY <1>0, InactiveStays
<1>2. Active' => OpenInv'
  BY <1>1, OpenStep
<1>3. ShotsAgree'
  <2>1. CASE ~Active'
    BY <2>1, ClosedAgree
  <2>2. ASSUME OpenInv', Running("set_shot")' = {}, tp'.shot # None
        PROVE  currentShot' = tp'.shot
    <3>1. \A i \in 1..Len(waiters') : ~Selects(i)'
      <4>1. \A i \in 1..Len(waiters') : waiters'[i] \in Calls
        BY DEF Inv, TypeOK
      <4> QED BY <2>2, <4>1 DEF Selects, Running, Final
    <3>2. Chosen(Len(waiters), currentShot)'
      BY <2>2 DEF OpenInv
    <3> QED BY <2>2, <3>1, <3>2 DEF Chosen
  <2> QED BY <1>2, <2>1, <2>2 DEF ShotsAgree
<1>4. AdviceAnswersAskedShot'
  BY AdviceStep
<1> QED BY <1>0, <1>2, <1>3, <1>4

(* A frame changes the transport's shot only while there is none.           *)
LEMMA FrameStep ==
  ASSUME Inv, Inv', RuntimeInv, Active => OpenInv, [RuntimeNext]_allVars,
         NEW c \in Calls, call'[c].op = "frame", pc'[c] # pc[c]
  PROVE  tp'.shot = tp.shot \/ tp.shot = None
<1>1. ASSUME NEW op, NEW s, Section(c, op, s)
      PROVE  \/ tp'.shot = tp.shot
             \/ op \in {"set_shot", "frame"} /\ Active /\ tp'.shot = s /\ s # tp.shot
  BY <1>1
  DEF Section, SetShotSection, ResyncSection, FrameSection, InactiveSection,
      DisconnectSection, ReconnectSection, CloseSection, ChangeShot, Showing, Observe,
      Publish, Leave, Fenced, Inv, TypeOK, Adapter
<1>2. ASSUME NEW d \in Calls, Start(d) PROVE tp'.shot = tp.shot \/ tp.shot = None
  <2>1. PICK op, s : /\ Begin(d, op, s)
                     /\ op = "frame" => s = currentShot
    BY <1>2 DEF Start, SetShot, ProcessFrame, Reconnecting, Reconnected, Disconnected,
                RoomEvent, Close
  <2>2. d = c /\ op = "frame"
    BY <2>1, BeginKeeps
  <2>3. CASE Enqueue(d, "waiting")
    BY <2>3 DEF Enqueue
  <2>4. CASE LockFree /\ Section(d, op, s)
    <3>1. tp'.shot = tp.shot \/ (Active /\ s # tp.shot)
      BY <1>1, <2>2, <2>4
    <3>2. Active => Chosen(Len(waiters), currentShot) /\ Len(waiters) = 0
      BY <2>4 DEF Active, OpenInv, LockFree
    <3>3. Active => tp.shot \in {currentShot, None}
      BY <3>2 DEF Chosen
    <3> QED BY <2>1, <2>2, <3>1, <3>3
  <2> QED BY <2>1, <2>3, <2>4 DEF Begin
<1>3. ASSUME NEW d \in Calls, Step(d) \/ CancelCall(d)
      PROVE  tp'.shot = tp.shot \/ tp.shot = None
  <2>1. /\ d = c /\ call' = call /\ call[c].op = "frame"
        /\ Resume(c) \/ Conclude(c) \/ CancelWait(c)
    BY <1>3, StepSteps, StepKeeps
  <2>2. CASE Grant(c) /\ pc[c] = "waiting"
    <3>1. tp'.shot = tp.shot \/ (Active /\ call[c].shot # tp.shot)
      BY <1>1, <2>1, <2>2 DEF Grant
    <3>2. Len(waiters) \in Nat \ {0} /\ waiters[1] = c /\ 1 \in 1..Len(waiters)
      BY <2>2 DEF Grant, Inv, TypeOK
    <3>3. Awaits(1) /\ Wants(1) = call[c].shot
      BY <2>1, <2>2, <3>2 DEF Awaits, Wants
    <3>4. Active => Chosen(1 - 1, Wants(1))
      BY <3>2, <3>3 DEF Active, OpenInv, FrameInv
    <3>5. Active => tp.shot \in {call[c].shot, None}
      BY <3>3, <3>4 DEF Chosen
    <3> QED BY <3>1, <3>5
  <2>3. CASE Grant(c) /\ pc[c] = "settling"
    BY <2>3, SettleLeaves DEF Grant, Inv
  <2>4. CASE Delivered(c) \/ Undelivered(c)
    BY <2>4 DEF Delivered, Undelivered, Leave, Observe, Fenced, Inv, TypeOK, Adapter
  <2>5. CASE InferenceFails(c) \/ CancelWait(c)
    BY <2>5 DEF InferenceFails, CancelWait
  <2>6. ASSUME NEW code \in Code0, Answer(c, code) PROVE tp'.shot = tp.shot
    BY <2>6, SettleLeaves DEF Answer, Enqueue, Inv
  <2> QED BY <2>1, <2>2, <2>3, <2>4, <2>5, <2>6 DEF Resume, Conclude, Grant
<1>4. CASE Joined \/ Stopped \/ Abandoned \/ UNCHANGED allVars
  BY <1>4 DEF Joined, Stopped, Abandoned, allVars, vars
<1> QED BY <1>2, <1>3, <1>4 DEF RuntimeNext

LEMMA AgreeAlways == ASSUME Faults \subseteq {"fail"} PROVE RuntimeSpec => []AgreeInv
<1>1. RuntimeInit => AgreeInv
  <2> SUFFICES ASSUME RuntimeInit PROVE AgreeInv
    OBVIOUS
  <2>1. Len(waiters) = 0 /\ holder = None /\ tp.shot = None /\ tp.connected /\ doomed = {}
    BY DEF RuntimeInit, Init
  <2>2. \A c \in Calls : pc[c] = "idle"
    BY DEF RuntimeInit, Init
  <2>3. OpenInv
    BY <2>1, <2>2 DEF OpenInv, QueueInv, Chosen, FrameInv, AskedInv, Thinking
  <2>4. CallsInv
    BY <2>1, <2>2 DEF CallsInv, Running
  <2> QED BY <2>1, <2>3, <2>4, NoneAssumption DEF AgreeInv, AdviceAnswersAskedShot, ShotsAgree
<1>2. /\ Inv /\ Inv' /\ RuntimeInv /\ AgreeInv /\ [RuntimeNext]_allVars => AgreeInv'
  BY AgreeStep
<1> QED BY <1>1, <1>2, RunsTransport, Invariance, PTL DEF RuntimeSpec

(* Once no selection is in progress the runtime's shot is the transport's,  *)
(* however selections, frames and answers overlapped.                       *)
THEOREM RuntimeAgrees == ASSUME Faults \subseteq {"fail"} PROVE RuntimeSpec => []ShotsAgree
<1>1. AgreeInv => ShotsAgree
  BY DEF AgreeInv
<1> QED BY <1>1, AgreeAlways, PTL

(* The published advice answers the question that was put to the provider.  *)
THEOREM AdviceIsAnswer == ASSUME Faults \subseteq {"fail"} PROVE RuntimeSpec => []AdviceAnswersAskedShot
<1>1. AgreeInv => AdviceAnswersAskedShot
  BY DEF AgreeInv
<1> QED BY <1>1, AgreeAlways, PTL

(* A frame never takes the session back from a selection.                   *)
THEOREM SelectionIsKept == ASSUME Faults \subseteq {"fail"} PROVE RuntimeSpec => FrameKeepsSelection
<1>1. /\ Inv /\ Inv' /\ RuntimeInv /\ AgreeInv /\ [RuntimeNext]_allVars
      => [\A c \in Calls : call'[c].op = "frame" /\ pc'[c] # pc[c] =>
            tp'.shot = tp.shot \/ tp.shot = None]_allVars
  BY FrameStep DEF AgreeInv
<1> QED BY <1>1, AgreeAlways, RunsTransport, Invariance, PTL DEF RuntimeSpec, FrameKeepsSelection
=============================================================================
