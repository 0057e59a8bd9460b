--------------------------- MODULE FrameScheduler ---------------------------
(***************************************************************************)
(* FrameScheduler (app/src/live/scheduler.ts): the browser's frame source, *)
(* one pending frame, one analysis at a time, a minimum interval between   *)
(* analyses and a wake timer for the frame that arrived too early.         *)
(*                                                                         *)
(* JavaScript runs one callback at a time: a step is a callback, a method  *)
(* call, or the end of an analysis.  Times are counted down to zero        *)
(* instead of being compared with a clock, in units of which an interval   *)
(* has Interval.  Registering a callback or a timer does not throw, and    *)
(* the caller's own callbacks do not call start() or stop().               *)
(***************************************************************************)
EXTENDS Naturals, FiniteSets

CONSTANTS Interval,   \* intervalMs
          MaxFrames,  \* bound on the frames of a behaviour
          None        \* undefined

ASSUME IntervalAssumption == Interval \in Nat \ {0} /\ MaxFrames \in Nat
ASSUME NoneAssumption == None \notin Nat

VARIABLES mode,      \* "auto" or "manual"
          q,         \* the scheduler's fields
          callbacks, \* callbacks registered with the browser
          read,      \* the number of the newest frame
          released,  \* frames given to disposeFrame
          analysed,  \* frames whose analysis has ended
          since      \* time since an analysis began, as far as it matters

vars == <<mode, q, callbacks, read, released, analysed, since>>

Frames == 1..MaxFrames
Frame0 == Frames \cup {None}
Delays == 0..Interval

(* wait is what is left until nextProcessAt, wake what is left of the wake  *)
(* timer, jobs the promise chains that have not run their finally clause.   *)
Fields == [running : BOOLEAN, processing : BOOLEAN, scheduled : BOOLEAN,
           pending : Frame0, active : Frame0, jobs : SUBSET Frames,
           wait : Delays, wake : Delays \cup {None}]

TypeOK ==
  /\ mode \in {"auto", "manual"}
  /\ q \in Fields /\ (q.processing <=> q.active # None)
  /\ callbacks \in Nat
  /\ read \in 0..MaxFrames
  /\ released \subseteq Frames
  /\ analysed \subseteq Frames
  /\ since \in Delays

Init ==
  /\ mode \in {"auto", "manual"}
  /\ q = [running |-> FALSE, processing |-> FALSE, scheduled |-> FALSE,
          pending |-> None, active |-> None, jobs |-> {}, wait |-> 0, wake |-> None]
  /\ callbacks = 0
  /\ read = 0
  /\ released = {}
  /\ analysed = {}
  /\ since = Interval

-----------------------------------------------------------------------------
(* The private methods, from the fields they find to the fields they leave *)

Idle(s) == s.running /\ ~s.processing /\ s.pending # None

(* scheduleWakeTimer *)
Armed(s) == IF Idle(s) /\ s.wake = None THEN [s EXCEPT !.wake = s.wait] ELSE s

(* Variant: the next analysis may begin at once. *)
BegunAtOnce(s) ==
  [running |-> s.running, processing |-> TRUE, scheduled |-> s.scheduled,
   pending |-> None, active |-> s.pending, jobs |-> s.jobs \cup {s.pending},
   wait |-> 0, wake |-> None]

(* The pending frame becomes the active one. *)
Begun(s) ==
  [running |-> s.running, processing |-> TRUE, scheduled |-> s.scheduled,
   pending |-> None, active |-> s.pending, jobs |-> s.jobs \cup {s.pending},
   wait |-> Interval, wake |-> None]

(* drainIfDue *)
Drained(s) ==
  IF ~Idle(s) THEN s ELSE IF s.wait > 0 THEN Armed(s) ELSE Begun(s)

(* Variant: a frame that arrives early does not arm the timer. *)
AcceptedUnarmed(s, f) ==
  LET next == [s EXCEPT !.pending = f] IN IF s.wait > 0 THEN next ELSE Drained(next)

(* acceptTick *)
Accepted(s, f) == Armed(Drained([s EXCEPT !.pending = f]))

(* Variant: the frame being analysed is released as well. *)
DroppedAlways(s, f) == released \cup ({s.pending} \ {None, f})

(* disposeDroppedFrame, for what the pending slot held *)
Dropped(s, f) ==
  IF s.pending \in {None, f, s.active} THEN released ELSE released \cup {s.pending}

-----------------------------------------------------------------------------
(* scheduleNextFrame registers a callback unless one is registered. *)
Registers(s) ==
  IF mode = "auto" /\ s.running /\ ~s.scheduled
    THEN q' = [s EXCEPT !.scheduled = TRUE] /\ callbacks' = callbacks + 1
    ELSE q' = s /\ callbacks' = callbacks

(* Time counts from the last analysis of this run of the scheduler. *)
Timed(before) == since' = IF q'.jobs \subseteq q.jobs THEN before ELSE 0

Restarted(s, wake) ==
  [running |-> TRUE, processing |-> s.processing, scheduled |-> s.scheduled, pending |-> s.pending,
   active |-> s.active, jobs |-> s.jobs, wait |-> 0, wake |-> wake]

(* start() *)
Start ==
  /\ \/ q.running /\ Registers(q) /\ UNCHANGED since
     \/ ~q.running /\ Registers(Restarted(q, None)) /\ since' = Interval
  /\ UNCHANGED <<mode, read, released, analysed>>

Stopped(processing, active) ==
  [running |-> FALSE, processing |-> processing, scheduled |-> FALSE,
   pending |-> None, active |-> active, jobs |-> q.jobs, wait |-> q.wait, wake |-> None]

(* Variant: stop() forgets the analysis under way. *)
StopForgetting ==
  /\ q' = Stopped(FALSE, None)
  /\ callbacks' = IF q.scheduled THEN callbacks - 1 ELSE callbacks
  /\ released' = Dropped(q, None)
  /\ UNCHANGED <<mode, read, analysed, since>>

(* Variant: the callback is not cancelled. *)
StopUncancelled ==
  /\ q' = Stopped(q.processing, q.active)
  /\ released' = Dropped(q, None)
  /\ UNCHANGED <<mode, callbacks, read, analysed, since>>

(* Variant: the pending frame is dropped without being released. *)
StopLeaking ==
  /\ q' = Stopped(q.processing, q.active)
  /\ callbacks' = IF q.scheduled THEN callbacks - 1 ELSE callbacks
  /\ UNCHANGED <<mode, read, released, analysed, since>>

(* stop() cancels the callback and the timer and drops the pending frame.   *)
Stop ==
  /\ q' = Stopped(q.processing, q.active)
  /\ callbacks' = IF q.scheduled THEN callbacks - 1 ELSE callbacks
  /\ released' = Dropped(q, None)
  /\ UNCHANGED <<mode, read, analysed, since>>

(* The frame that a caller or readFrame supplies: a new one, or the object  *)
(* that is pending or being analysed already.                               *)
Supplies(f) ==
  \/ f \in Frames /\ f = read + 1 /\ read' = f
  \/ f \in {q.pending, q.active} \ {None} /\ UNCHANGED read

(* tick(): in manual mode it starts the scheduler. *)
Supply(f) ==
  /\ Supplies(f)
  /\ released' = Dropped(q, f)
  /\ \/ q.running /\ q' = Accepted(q, f) /\ Timed(since)
     \/ ~q.running /\ mode = "manual" /\ q' = Accepted(Restarted(q, q.wake), f) /\ Timed(Interval)
  /\ UNCHANGED <<mode, callbacks, analysed>>

(* The browser calls back; readFrame has a frame or not, and may raise.     *)
Callback ==
  /\ callbacks > 0 /\ q.running
  /\ \/ q' = q /\ UNCHANGED <<read, released>>
     \/ \E f \in Frames :
          /\ Supplies(f)
          /\ released' = Dropped(q, f)
          /\ q' = Accepted(q, f)
  /\ Timed(since)
  /\ UNCHANGED <<mode, callbacks, analysed>>

(* Variant: activeFrame is not reset. *)
FinishedStillActive(f) ==
  [running |-> q.running, processing |-> FALSE, scheduled |-> q.scheduled, pending |-> q.pending,
   active |-> q.active, jobs |-> q.jobs \ {f}, wait |-> q.wait, wake |-> q.wake]

Finished(f) ==
  [running |-> q.running, processing |-> FALSE, scheduled |-> q.scheduled, pending |-> q.pending,
   active |-> None, jobs |-> q.jobs \ {f}, wait |-> q.wait, wake |-> q.wake]

(* The analysis of f resolves or rejects; the pending frame is next. *)
Finish(f) ==
  /\ f \in q.jobs
  /\ q' = Armed(Drained(Finished(f)))
  /\ analysed' = analysed \cup {f}
  /\ since' = IF q'.processing THEN 0 ELSE since
  /\ UNCHANGED <<mode, callbacks, read, released>>

(* The wake timer fires, when due or (a fractional delay was cut) early. *)
Wake ==
  /\ q.running /\ q.wake \in {0, 1}
  /\ q' = Drained([q EXCEPT !.wake = None])
  /\ Timed(since)
  /\ UNCHANGED <<mode, callbacks, read, released, analysed>>

(* Time passes, not beyond a timer that is due. *)
Less(n) == IF n = 0 THEN 0 ELSE n - 1

Pass ==
  /\ q.wake # 0
  /\ q.wait > 0 \/ since < Interval
  /\ q' = [running |-> q.running, processing |-> q.processing, scheduled |-> q.scheduled,
           pending |-> q.pending, active |-> q.active, jobs |-> q.jobs,
           wait |-> Less(q.wait), wake |-> IF q.wake = None THEN None ELSE q.wake - 1]
  /\ since' = IF since < Interval THEN since + 1 ELSE since
  /\ UNCHANGED <<mode, callbacks, read, released, analysed>>

Next ==
  \/ Start \/ Stop \/ Callback \/ Wake \/ Pass
  \/ \E f \in Frames : Supply(f) \/ Finish(f)

Spec == Init /\ [][Next]_vars

(* Time passes, timers fire and analyses end.  The source owes nothing.     *)
Fairness ==
  /\ WF_vars(Pass) /\ WF_vars(q.wake = 0 /\ Wake)
  /\ \A f \in Frames : WF_vars(Finish(f))

FairSpec == Spec /\ Fairness

-----------------------------------------------------------------------------
(* Properties *)

(* One analysis at a time, also when the scheduler is stopped and started   *)
(* again while one is under way.                                            *)
OneAnalysis == Cardinality(q.jobs) <= 1

(* The scheduler as the pipeline of LatestWins: a promise chain is its own  *)
(* worker.                                                                  *)
UnderWay == {<<f, f>> : f \in q.jobs}

Pipe == INSTANCE LatestWins WITH
  Items   <- Frames,
  Workers <- Frames,
  Reopens <- TRUE,
  open    <- q.running,
  pending <- q.pending,
  work    <- UnderWay

(* However ticks, browser callbacks, timers, ends of analyses, stop() and   *)
(* start() follow each other, the scheduler is a pipeline with one place:   *)
(* an analysis is of the frame offered last, begins when no other is under  *)
(* way, and none begins while the scheduler is stopped.                     *)
ImplementsLatestWins == Pipe!Spec

(* A frame that waits or is analysed was not released, although the same    *)
(* object may be offered again while it is.                                 *)
NoUseAfterRelease == released \cap ({q.pending} \cup q.jobs) = {}

(* Every frame that was accepted waits, is or was analysed, or is released. *)
NothingLeaks ==
  \A f \in 1..read : f \in released \cup analysed \cup q.jobs \cup {q.pending}

(* A running scheduler is fed by exactly one callback, a stopped one by none. *)
OneCallback == callbacks = IF q.running /\ mode = "auto" THEN 1 ELSE 0

(* Analyses of one run of the scheduler begin an interval apart, whether a  *)
(* frame, the timer or the end of the previous analysis begins them, be it  *)
(* of the same object again.                                                *)
Begins == q'.processing /\ (~q.processing \/ \E f \in q.jobs : Finish(f))
AtMostFourHertz == [][Begins /\ q.running => since = Interval]_vars

(* The pending frame is analysed, replaced or dropped, even if the source   *)
(* never delivers another one.                                              *)
PendingIsAnalysed == \A f \in Frames : q.pending = f ~> q.pending # f
=============================================================================
