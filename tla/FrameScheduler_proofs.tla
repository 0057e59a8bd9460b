------------------------ MODULE FrameScheduler_proofs ------------------------
(***************************************************************************)
(* For any interval and any number of frames: one analysis at a time, no   *)
(* frame is used after its release or lost, the browser holds one callback *)
(* exactly while the scheduler runs, the scheduler is a pipeline of        *)
(* LatestWins, and a frame that waits is watched by a timer that is due    *)
(* when the interval has passed, neither earlier nor later.                *)
(***************************************************************************)
EXTENDS FrameScheduler, FiniteSetTheorems, TLAPS

(* A frame that waits while nothing is analysed has a timer to wake it: the *)
(* reason why PendingIsAnalysed needs no further frame.                     *)
PendingIsWatched == Idle(q) => q.wake # None

Jobs(s) == IF s.active = None THEN {} ELSE {s.active}

(* What holds of the fields between two steps. *)
Sound(s) ==
  /\ s \in Fields
  /\ s.processing <=> s.active # None
  /\ s.jobs = Jobs(s)
  /\ ~s.running => s.pending = None /\ s.wake = None
  /\ s.scheduled <=> s.running /\ mode = "auto"
  /\ Idle(s) => s.wake # None

FrameInv ==
  /\ read \in 0..MaxFrames
  /\ q.pending # None => q.pending <= read
  /\ q.active # None => q.active <= read
  /\ released \subseteq 1..read /\ analysed \subseteq 1..read
  /\ q.pending \notin released /\ q.active \notin released
  /\ NothingLeaks

Inv ==
  /\ mode \in {"auto", "manual"}
  /\ Sound(q)
  /\ OneCallback
  /\ FrameInv
  /\ since \in Delays /\ since + q.wait = Interval

(* An analysis of another frame begins only when the wait is over. *)
Spaced == ~(q'.jobs \subseteq q.jobs) /\ q.running => since = Interval

USE IntervalAssumption, NoneAssumption DEF Frames, Frame0, Delays

-----------------------------------------------------------------------------
(* The private methods *)

Same(r, s) ==
  /\ r.running = s.running /\ r.processing = s.processing /\ r.scheduled = s.scheduled
  /\ r.pending = s.pending /\ r.active = s.active /\ r.jobs = s.jobs /\ r.wait = s.wait

LEMMA NoneIs == None \notin Frames /\ None \notin Delays
  OBVIOUS

LEMMA ArmedIs ==
  ASSUME NEW s \in Fields
  PROVE  /\ Armed(s) \in Fields
         /\ Same(Armed(s), s)
         /\ Idle(s) => Armed(s).wake # None
         /\ ~Idle(s) => Armed(s) = s
<1>1. CASE Idle(s) /\ s.wake = None
  <2>1. Armed(s) = [s EXCEPT !.wake = s.wait]
    BY <1>1 DEF Armed
  <2>2. s.wait \in Delays
    BY DEF Fields
  <2> QED BY <1>1, <2>1, <2>2, NoneIs DEF Fields, Same
<1>2. CASE ~(Idle(s) /\ s.wake = None)
  BY <1>2 DEF Armed, Same
<1> QED BY <1>1, <1>2

LEMMA BegunIs ==
  ASSUME NEW s \in Fields, Idle(s)
  PROVE  Begun(s) \in Fields
<1>1. s.pending \in Frames
  BY DEF Idle, Fields
<1> QED BY <1>1 DEF Begun, Fields

(* Draining, and arming the timer if that left the frame where it was.      *)
LEMMA DrainIs ==
  ASSUME NEW s \in Fields, NEW r, r = Armed(Drained(s)) \/ r = Drained(s)
  PROVE  /\ r \in Fields
         /\ Idle(r) => r.wake # None
         /\ \/ Same(r, s)
            \/ Idle(s) /\ s.wait = 0 /\ r = Begun(s)
         /\ ~Idle(s) => r = s
<1>1. CASE ~Idle(s)
  BY <1>1, ArmedIs DEF Drained
<1>2. CASE Idle(s) /\ s.wait > 0
  <2>1. Drained(s) = Armed(s)
    BY <1>2 DEF Drained
  <2>2. Idle(Armed(s)) /\ Armed(s).wake # None
    BY <1>2, ArmedIs DEF Same, Idle
  <2>3. Armed(Armed(s)) = Armed(s)
    BY <2>2 DEF Armed
  <2> QED BY <1>2, <2>1, <2>2, <2>3, ArmedIs
<1>3. CASE Idle(s) /\ ~(s.wait > 0)
  <2>1. s.wait = 0
    BY <1>3 DEF Fields
  <2>2. Drained(s) = Begun(s)
    BY <1>3 DEF Drained
  <2>3. ~Idle(Begun(s))
    BY DEF Idle, Begun
  <2>4. r = Begun(s)
    BY <2>2, <2>3, ArmedIs, BegunIs, <1>3
  <2> QED BY <1>3, <2>1, <2>3, <2>4, BegunIs
<1> QED BY <1>1, <1>2, <1>3

(* The fields stay sound when a running scheduler drains. *)
LEMMA DrainSound ==
  ASSUME NEW s, NEW r, s \in Fields, s.processing <=> s.active # None, s.jobs = Jobs(s),
         s.scheduled <=> s.running /\ mode = "auto",
         ~s.running => s.pending = None /\ s.wake = None,
         r = Armed(Drained(s)) \/ r = Drained(s)
  PROVE  /\ Sound(r)
         /\ \/ Same(r, s)
            \/ s.wait = 0 /\ s.active = None /\ s.pending # None /\ r = Begun(s)
<1>1. /\ r \in Fields
      /\ Idle(r) => r.wake # None
      /\ Same(r, s) \/ (Idle(s) /\ s.wait = 0 /\ r = Begun(s))
      /\ ~Idle(s) => r = s
  BY DrainIs
<1>2. CASE Same(r, s)
  BY <1>1, <1>2 DEF Same, Sound, Jobs, Idle
<1>3. CASE Idle(s) /\ s.wait = 0 /\ r = Begun(s)
  <2>1. s.jobs = {} /\ s.active = None
    BY <1>3 DEF Jobs, Idle
  <2> QED BY <1>1, <1>3, <2>1 DEF Begun, Sound, Jobs, Idle
<1> QED BY <1>1, <1>2, <1>3

-----------------------------------------------------------------------------
(* The steps *)

LEMMA InitInv == Init => Inv
<1> SUFFICES ASSUME Init PROVE Inv
  OBVIOUS
<1>1. Sound(q)
  BY DEF Init, Sound, Fields, Jobs, Idle
<1>2. FrameInv /\ OneCallback
  BY NoneIs DEF Init, FrameInv, NothingLeaks, OneCallback
<1> QED BY <1>1, <1>2 DEF Init, Inv

(* Nothing but the source and the clock is disturbed. *)
LEMMA FramesKept ==
  ASSUME FrameInv, q'.pending = q.pending, q'.active = q.active, q'.jobs = q.jobs,
         UNCHANGED <<read, released, analysed>>
  PROVE  FrameInv'
  BY DEF FrameInv, NothingLeaks

LEMMA StartInv == Inv /\ Start => Inv'
<1> SUFFICES ASSUME Inv, Start PROVE Inv'
  OBVIOUS
<1>1. CASE q.running
  <2>1. q' = q /\ callbacks' = callbacks /\ since' = since /\ mode' = mode
    BY <1>1 DEF Start, Registers, Inv, Sound
  <2>2. UNCHANGED <<read, released, analysed>>
    BY DEF Start
  <2>3. Sound(q)' /\ OneCallback'
    BY <2>1 DEF Inv, Sound, Jobs, Idle, OneCallback
  <2>4. FrameInv'
    BY <2>1, <2>2, FramesKept DEF Inv
  <2> QED BY <2>1, <2>3, <2>4 DEF Inv
<1>2. CASE ~q.running
  <2> DEFINE s == Restarted(q, None)
  <2>1. q \in Fields /\ q.pending = None /\ ~q.scheduled /\ callbacks = 0
    BY <1>2 DEF Inv, Sound, OneCallback
  <2>2. s = [running |-> TRUE, processing |-> q.processing, scheduled |-> FALSE,
             pending |-> None, active |-> q.active, jobs |-> q.jobs,
             wait |-> 0, wake |-> None]
    BY <2>1 DEF Restarted, Fields
  <2>3. q' = [running |-> TRUE, processing |-> q.processing, scheduled |-> mode = "auto",
              pending |-> None, active |-> q.active, jobs |-> q.jobs,
              wait |-> 0, wake |-> None]
    <3> HIDE DEF s
    <3>1. Registers(s)
      BY <1>2 DEF Start, s
    <3> QED BY <2>2, <3>1 DEF Registers
  <2>4. callbacks' = IF mode = "auto" THEN 1 ELSE 0
    BY <1>2, <2>1, <2>2 DEF Start, Registers
  <2>5. /\ mode' = mode /\ since' = Interval
        /\ UNCHANGED <<read, released, analysed>>
    BY <1>2 DEF Start
  <2>6. q' \in Fields
    BY <2>1, <2>3 DEF Fields
  <2>7. Sound(q)'
    BY <2>1, <2>3, <2>5, <2>6 DEF Inv, Sound, Jobs, Idle
  <2>8. FrameInv'
    BY <2>1, <2>3, <2>5, FramesKept DEF Inv
  <2> QED BY <2>3, <2>4, <2>5, <2>7, <2>8 DEF Inv, OneCallback
<1> QED BY <1>1, <1>2

LEMMA StopInv == Inv /\ Stop => Inv'
<1> SUFFICES ASSUME Inv, Stop PROVE Inv'
  OBVIOUS
<1> USE DEF Inv, Stop, Stopped
<1>0. q \in Fields
  BY DEF Sound
<1>1. Sound(q)'
  <2>1. q' \in Fields
    BY <1>0 DEF Fields
  <2>2. /\ q'.running = FALSE /\ q'.pending = None /\ q'.wake = None /\ q'.scheduled = FALSE
        /\ q'.processing = q.processing /\ q'.active = q.active /\ q'.jobs = q.jobs
    OBVIOUS
  <2>3. ~Idle(q')
    BY <2>2 DEF Idle
  <2>4. Jobs(q') = Jobs(q)
    BY <2>2 DEF Jobs
  <2> QED BY <2>1, <2>2, <2>3, <2>4 DEF Sound
<1>2. OneCallback'
  BY DEF OneCallback, Sound
<1>3. released' = released \cup ({q.pending} \ {None, q.active})
  BY DEF Dropped
<1>4. FrameInv'
  <2>1. q'.pending = None /\ q'.active = q.active /\ q'.jobs = q.jobs
    OBVIOUS
  <2>2. q.pending \in Frame0 /\ (q.active # None => q.active \in q.jobs)
    BY <1>0 DEF Fields, Sound, Jobs
  <2>3. released' \subseteq 1..read /\ q.active \notin released' /\ None \notin released'
    <3>1. read \in Nat /\ 1..read \subseteq Frames
      BY DEF FrameInv
    <3>2. q.pending # None => q.pending \in 1..read
      BY <2>2, <3>1 DEF FrameInv
    <3>3. released \subseteq 1..read /\ q.active \notin released
      BY DEF FrameInv
    <3> QED BY <1>3, <3>1, <3>2, <3>3, NoneIs
  <2>4. NothingLeaks'
    BY <1>3, <2>1, <2>2, NoneIs DEF FrameInv, NothingLeaks
  <2> QED BY <2>1, <2>3, <2>4 DEF FrameInv
<1>5. since' \in Delays /\ since' + q'.wait = Interval
  OBVIOUS
<1> QED BY <1>1, <1>2, <1>4, <1>5

(* The frame f is offered to the running scheduler s. *)
LEMMA AcceptedInv ==
  ASSUME Inv, NEW f \in Frames, NEW s, s \in Fields, s.running,
         s.processing = q.processing, s.pending = q.pending, s.active = q.active,
         s.jobs = q.jobs, s.scheduled <=> mode = "auto",
         Supplies(f), released' = Dropped(q, f), q' = Accepted(s, f),
         UNCHANGED <<mode, callbacks, analysed>>
  PROVE  /\ Sound(q)' /\ FrameInv'
         /\ q'.running = s.running
         /\ \/ q'.jobs \subseteq q.jobs /\ q'.wait = s.wait
            \/ ~(q'.jobs \subseteq q.jobs) /\ s.wait = 0 /\ q'.wait = Interval
<1> DEFINE t == [s EXCEPT !.pending = f]
<1>1. /\ t \in Fields /\ t.running = s.running /\ t.processing = s.processing
      /\ t.pending = f /\ t.active = q.active /\ t.jobs = q.jobs
      /\ t.scheduled = s.scheduled /\ t.wait = s.wait
  BY DEF Fields
<1>2. q' = Armed(Drained(t))
  BY DEF Accepted
<1> HIDE DEF t
<1>3. /\ Sound(q')
      /\ \/ Same(q', t)
         \/ t.wait = 0 /\ t.active = None /\ t.pending # None /\ q' = Begun(t)
  <2>1. t.processing <=> t.active # None
    BY <1>1 DEF Inv, Sound
  <2>2. t.jobs = Jobs(t)
    BY <1>1 DEF Inv, Sound, Jobs
  <2>3. t.scheduled <=> t.running /\ mode = "auto"
    BY <1>1
  <2> QED BY <1>1, <1>2, <2>1, <2>2, <2>3, DrainSound
<1>4. Sound(q)'
  BY <1>3 DEF Sound, Jobs, Idle
<1>5. /\ q'.pending \in {f, None} /\ q'.active \in {f, q.active}
      /\ q'.running = s.running
      /\ {f} \cup q.jobs \subseteq {q'.pending} \cup q'.jobs
      /\ \/ q'.jobs \subseteq q.jobs /\ q'.wait = s.wait
         \/ ~(q'.jobs \subseteq q.jobs) /\ s.wait = 0 /\ q'.wait = Interval
  <2>1. CASE Same(q', t)
    BY <1>1, <2>1 DEF Same
  <2>2. CASE t.wait = 0 /\ t.active = None /\ t.pending # None /\ q' = Begun(t)
    <3>1. q.jobs = {}
      BY <1>1, <2>2 DEF Inv, Sound, Jobs
    <3> QED BY <1>1, <2>2, <3>1 DEF Begun
  <2> QED BY <1>3, <2>1, <2>2
<1>6. /\ q.pending \in Frame0 /\ q.active \in Frame0
      /\ q.active # None => q.active \in q.jobs
  BY DEF Inv, Sound, Fields, Jobs
<1>7. /\ read' \in 0..MaxFrames /\ read \in 0..MaxFrames /\ read <= read' /\ f <= read'
      /\ \A g \in 1..read' : g = f \/ g \in 1..read
      /\ f \notin released
  BY <1>6, NoneIs DEF Supplies, Inv, FrameInv
<1>8. /\ released' \subseteq 1..read' /\ released \subseteq released'
      /\ q.pending \in released' \cup {None, f, q.active}
      /\ f \notin released' /\ q.active \notin released' /\ None \notin released'
  <2>1. released \subseteq 1..read /\ q.active \notin released
    BY DEF Inv, FrameInv
  <2>4. 1..read \subseteq 1..read' /\ 1..read \subseteq Frames
    BY <1>7
  <2>5. None \notin released
    BY <2>1, <2>4, NoneIs
  <2>2. q.pending # None => q.pending \in 1..read'
    BY <1>6, <1>7 DEF Inv, FrameInv
  <2>3. released' = released \cup ({q.pending} \ {None, f, q.active})
    BY DEF Dropped
  <2>6. released' \subseteq 1..read'
    BY <2>1, <2>2, <2>3, <2>4
  <2> QED BY <1>7, <2>1, <2>3, <2>5, <2>6
<1>9. NothingLeaks'
  <2> SUFFICES ASSUME NEW g \in 1..read'
               PROVE  g \in released' \cup analysed' \cup q'.jobs \cup {q'.pending}
    BY DEF NothingLeaks
  <2>1. CASE g = f
    BY <1>5, <2>1
  <2>2. CASE g \in 1..read
    <3>1. g \in released \cup analysed \cup q.jobs \cup {q.pending}
      BY <2>2 DEF Inv, FrameInv, NothingLeaks
    <3>2. g # None
      BY <2>2, <1>7, NoneIs
    <3>3. CASE g \in q.jobs
      BY <1>5, <3>3
    <3>4. CASE g = q.pending
      <4>1. g \in released' \cup {f, q.active}
        BY <1>8, <3>2, <3>4
      <4> QED BY <1>5, <1>6, <3>2, <4>1
    <3> QED BY <1>8, <3>1, <3>3, <3>4
  <2> QED BY <1>7, <2>1, <2>2
<1>10. FrameInv'
  <2>1. analysed' \subseteq 1..read'
    BY <1>7 DEF Inv, FrameInv
  <2>2. q'.pending # None => q'.pending <= read'
    BY <1>5, <1>7
  <2>4. q.active # None => q.active <= read
    BY DEF Inv, FrameInv
  <2>3. q'.active # None => q'.active <= read'
    <3>1. CASE q'.active = f
      BY <1>7, <3>1
    <3>2. CASE q'.active = q.active /\ q.active # None
      BY <1>6, <1>7, <2>4, <3>2
    <3> QED BY <1>5, <3>1, <3>2
  <2> QED BY <1>5, <1>7, <1>8, <1>9, <2>1, <2>2, <2>3 DEF FrameInv
<1> QED BY <1>4, <1>5, <1>10

(* A running scheduler accepts a frame, from a caller or from the browser.  *)
LEMMA OfferInv ==
  ASSUME Inv, NEW f \in Frames, q.running, Supplies(f), released' = Dropped(q, f),
         q' = Accepted(q, f), Timed(since), UNCHANGED <<mode, callbacks, analysed>>
  PROVE  Inv' /\ Spaced
<1>1. q \in Fields /\ (q.scheduled <=> mode = "auto")
  BY DEF Inv, Sound
<1>2. /\ Sound(q)' /\ FrameInv'
      /\ q'.running = q.running
      /\ \/ q'.jobs \subseteq q.jobs /\ q'.wait = q.wait
         \/ ~(q'.jobs \subseteq q.jobs) /\ q.wait = 0 /\ q'.wait = Interval
  BY <1>1, AcceptedInv
<1>4. since' \in Delays /\ since' + q'.wait = Interval
  BY <1>2 DEF Inv, Timed
<1>5. OneCallback'
  BY <1>2 DEF Inv, OneCallback
<1>6. Spaced
  BY <1>2 DEF Spaced, Inv
<1> QED BY <1>2, <1>4, <1>5, <1>6 DEF Inv

LEMMA SupplyInv == ASSUME NEW f \in Frames PROVE Inv /\ Supply(f) => Inv' /\ Spaced
<1> SUFFICES ASSUME Inv, Supply(f) PROVE Inv' /\ Spaced
  OBVIOUS
<1>1. CASE q.running
  BY <1>1, OfferInv DEF Supply
<1>2. CASE ~q.running
  <2> DEFINE s == Restarted(q, q.wake)
  <2>1. /\ mode = "manual" /\ q' = Accepted(s, f) /\ Timed(Interval)
        /\ Supplies(f) /\ released' = Dropped(q, f) /\ UNCHANGED <<mode, callbacks, analysed>>
    BY <1>2 DEF Supply
  <2>2. q \in Fields /\ ~q.scheduled /\ callbacks = 0
    BY <1>2 DEF Inv, Sound, OneCallback
  <2>3. /\ s \in Fields /\ s.running /\ s.processing = q.processing /\ s.pending = q.pending
        /\ s.active = q.active /\ s.jobs = q.jobs /\ s.wait = 0
        /\ s.scheduled <=> mode = "auto"
    BY <2>1, <2>2 DEF Restarted, Fields
  <2> HIDE DEF s
  <2>4. /\ Sound(q)' /\ FrameInv'
        /\ \/ q'.jobs \subseteq q.jobs /\ q'.wait = s.wait
           \/ ~(q'.jobs \subseteq q.jobs) /\ s.wait = 0 /\ q'.wait = Interval
    BY <2>1, <2>3, AcceptedInv
  <2>5. since' \in Delays /\ since' + q'.wait = Interval
    BY <2>1, <2>3, <2>4 DEF Timed
  <2>6. OneCallback'
    BY <2>1, <2>2 DEF OneCallback
  <2>7. mode' \in {"auto", "manual"}
    BY <2>1 DEF Inv
  <2>8. Spaced
    BY <1>2 DEF Spaced
  <2> QED BY <2>4, <2>5, <2>6, <2>7, <2>8 DEF Inv
<1> QED BY <1>1, <1>2

LEMMA CallbackInv == Inv /\ Callback => Inv' /\ Spaced
<1> SUFFICES ASSUME Inv, Callback PROVE Inv' /\ Spaced
  OBVIOUS
<1>1. q.running /\ Timed(since) /\ UNCHANGED <<mode, callbacks, analysed>>
  BY DEF Callback
<1>2. CASE q' = q /\ UNCHANGED <<read, released>>
  <2>1. since' = since
    BY <1>1, <1>2 DEF Timed
  <2>2. Sound(q)' /\ OneCallback'
    BY <1>1, <1>2 DEF Inv, Sound, Jobs, Idle, OneCallback
  <2>3. FrameInv'
    BY <1>1, <1>2, FramesKept DEF Inv
  <2> QED BY <1>1, <1>2, <2>1, <2>2, <2>3 DEF Inv, Spaced
<1>3. CASE \E f \in Frames :
             Supplies(f) /\ released' = Dropped(q, f) /\ q' = Accepted(q, f)
  BY <1>1, <1>3, OfferInv
<1> QED BY <1>2, <1>3 DEF Callback

(* The scheduler drains, when an analysis ended or the timer fired.         *)
LEMMA DrainInv ==
  ASSUME Inv, NEW s, s \in Fields, s.processing <=> s.active # None, s.jobs = Jobs(s),
         s.running = q.running, s.scheduled = q.scheduled, s.pending = q.pending,
         s.wait = q.wait, s.active \in {None, q.active},
         ~s.running => s.wake = None,
         q' = Armed(Drained(s)) \/ q' = Drained(s),
         since' = (IF q'.active # None /\ q'.active # s.active THEN 0 ELSE since),
         q.jobs \subseteq s.jobs \cup analysed', analysed \subseteq analysed',
         analysed' \subseteq 1..read,
         UNCHANGED <<mode, callbacks, read, released>>
  PROVE  Inv' /\ Spaced
<1>1. /\ q \in Fields
      /\ q.scheduled <=> q.running /\ mode = "auto"
      /\ ~q.running => q.pending = None
      /\ q.jobs = Jobs(q)
  BY DEF Inv, Sound
<1>2. /\ Sound(q')
      /\ \/ Same(q', s)
         \/ s.wait = 0 /\ s.active = None /\ s.pending # None /\ q' = Begun(s)
  BY <1>1, DrainSound
<1>3. Sound(q)'
  BY <1>2 DEF Sound, Jobs, Idle
<1>4. /\ q'.running = q.running
      /\ q'.pending \in {q.pending, None} /\ q'.active \in {q.pending, q.active, None}
      /\ {q.pending} \cup s.jobs \subseteq {q'.pending} \cup q'.jobs
  <2>1. CASE Same(q', s)
    BY <2>1 DEF Same
  <2>2. CASE s.wait = 0 /\ s.active = None /\ s.pending # None /\ q' = Begun(s)
    BY <2>2 DEF Begun, Jobs
  <2> QED BY <1>2, <2>1, <2>2
<1>5. /\ since' \in Delays /\ since' + q'.wait = Interval
      /\ Spaced
  <2>1. CASE Same(q', s)
    <3>1. since' = since /\ q'.wait = q.wait
      BY <2>1 DEF Same
    <3>2. q'.jobs \subseteq q.jobs
      BY <1>1, <2>1 DEF Same, Jobs
    <3> QED BY <3>1, <3>2 DEF Inv, Spaced
  <2>2. CASE s.wait = 0 /\ s.active = None /\ s.pending # None /\ q' = Begun(s)
    <3>1. since' = 0 /\ q'.wait = Interval
      BY <2>2 DEF Begun
    <3> QED BY <2>2, <3>1 DEF Inv, Spaced
  <2> QED BY <1>2, <2>1, <2>2
<1>6. NothingLeaks'
  <2> SUFFICES ASSUME NEW g \in 1..read
               PROVE  g \in released' \cup analysed' \cup q'.jobs \cup {q'.pending}
    BY DEF NothingLeaks
  <2>1. g \in released \cup analysed \cup q.jobs \cup {q.pending}
    BY DEF Inv, FrameInv, NothingLeaks
  <2> QED BY <1>4, <2>1
<1>7. FrameInv'
  <2>1. /\ read \in 0..MaxFrames /\ released \subseteq 1..read
        /\ q.pending # None => q.pending <= read
        /\ q.active # None => q.active <= read
        /\ q.pending \notin released /\ q.active \notin released
    BY DEF Inv, FrameInv
  <2>2. None \notin released
    <3>1. 1..read \subseteq Frames
      BY <2>1
    <3> QED BY <2>1, <3>1, NoneIs
  <2>3. q'.pending \notin released /\ q'.active \notin released
    BY <1>4, <2>1, <2>2
  <2>4. /\ q'.pending # None => q'.pending <= read
        /\ q'.active # None => q'.active <= read
    <3>1. q'.pending = q.pending \/ q'.pending = None
      BY <1>4
    <3>2. q'.active = q.active \/ q'.active = q.pending \/ q'.active = None
      BY <1>4
    <3> QED BY <2>1, <3>1, <3>2
  <2> QED BY <1>6, <2>1, <2>3, <2>4 DEF FrameInv
<1>8. OneCallback' /\ mode' \in {"auto", "manual"}
  BY <1>4 DEF Inv, OneCallback
<1> QED BY <1>3, <1>5, <1>7, <1>8 DEF Inv

LEMMA FinishInv == ASSUME NEW f \in Frames PROVE Inv /\ Finish(f) => Inv' /\ Spaced
<1> SUFFICES ASSUME Inv, Finish(f) PROVE Inv' /\ Spaced
  OBVIOUS
<1> DEFINE s == Finished(f)
<1>1. /\ q \in Fields /\ q.jobs = Jobs(q) /\ f \in q.jobs
      /\ ~q.running => q.wake = None
  BY DEF Inv, Sound, Finish
<1>2. q.jobs = {f} /\ q.active = f
  BY <1>1 DEF Jobs
<1>3. /\ s \in Fields /\ s.jobs = {} /\ s.active = None /\ s.processing = FALSE
      /\ s.running = q.running /\ s.scheduled = q.scheduled /\ s.pending = q.pending
      /\ s.wait = q.wait /\ s.wake = q.wake
  BY <1>1, <1>2 DEF Finished, Fields
<1>4. /\ q' = Armed(Drained(s)) /\ analysed' = analysed \cup {f}
      /\ since' = (IF q'.processing THEN 0 ELSE since)
      /\ UNCHANGED <<mode, callbacks, read, released>>
  BY DEF Finish
<1> HIDE DEF s
<1>5. s.jobs = Jobs(s)
  BY <1>3 DEF Jobs
<1>6. q'.processing <=> q'.active # None /\ q'.active # s.active
  <2>1. s.scheduled <=> s.running /\ mode = "auto"
    BY <1>3 DEF Inv, Sound
  <2>2. ~s.running => s.pending = None /\ s.wake = None
    BY <1>3 DEF Inv, Sound
  <2>3. Sound(q')
    BY <1>3, <1>4, <1>5, <2>1, <2>2, DrainSound
  <2> QED BY <1>3, <2>3 DEF Sound
<1>7. since' = IF q'.active # None /\ q'.active # s.active THEN 0 ELSE since
  BY <1>4, <1>6
<1>8. analysed' \subseteq 1..read
  BY <1>2, <1>4, NoneIs DEF Inv, FrameInv
<1>9. q.jobs \subseteq s.jobs \cup analysed' /\ analysed \subseteq analysed'
  BY <1>2, <1>4
<1>10. (s.processing <=> s.active # None) /\ s.active \in {None, q.active}
  BY <1>3
<1>11. ~s.running => s.wake = None
  BY <1>1, <1>3
<1> QED BY <1>3, <1>4, <1>5, <1>7, <1>8, <1>9, <1>10, <1>11, DrainInv

(* The next analysis begins at once only when the wait is over. *)
LEMMA FinishSpaced ==
  ASSUME NEW f \in Frames, Inv, Finish(f), q'.processing PROVE since = Interval
<1> DEFINE s == Finished(f)
<1>1. /\ q \in Fields /\ q.jobs = Jobs(q) /\ f \in q.jobs
      /\ ~q.running => q.pending = None /\ q.wake = None
      /\ q.scheduled <=> q.running /\ mode = "auto"
  BY DEF Inv, Sound, Finish
<1>2. q.jobs = {f}
  BY <1>1 DEF Jobs
<1>3. /\ s \in Fields /\ s.jobs = {} /\ s.active = None /\ s.processing = FALSE
      /\ s.running = q.running /\ s.scheduled = q.scheduled /\ s.pending = q.pending
      /\ s.wait = q.wait /\ s.wake = q.wake
  BY <1>1, <1>2 DEF Finished, Fields
<1>4. q' = Armed(Drained(s))
  BY DEF Finish
<1> HIDE DEF s
<1>5. s.jobs = Jobs(s)
  BY <1>3 DEF Jobs
<1>6. Same(q', s) \/ s.wait = 0
  BY <1>1, <1>3, <1>4, <1>5, DrainSound
<1>7. q.wait = 0
  BY <1>3, <1>6 DEF Same
<1> QED BY <1>7 DEF Inv

LEMMA WakeInv == Inv /\ Wake => Inv' /\ Spaced
<1> SUFFICES ASSUME Inv, Wake PROVE Inv' /\ Spaced
  OBVIOUS
<1> DEFINE s == [q EXCEPT !.wake = None]
<1>1. /\ q \in Fields /\ q.jobs = Jobs(q) /\ (q.processing <=> q.active # None)
      /\ q.scheduled <=> q.running /\ mode = "auto"
      /\ ~q.running => q.pending = None
  BY DEF Inv, Sound
<1>2. /\ s \in Fields /\ s.jobs = q.jobs /\ s.active = q.active /\ s.processing = q.processing
      /\ s.running = q.running /\ s.scheduled = q.scheduled /\ s.pending = q.pending
      /\ s.wait = q.wait /\ s.wake = None
  BY <1>1 DEF Fields
<1>3. q' = Drained(s) /\ Timed(since) /\ UNCHANGED <<mode, callbacks, read, released, analysed>>
  BY DEF Wake
<1> HIDE DEF s
<1>4. s.jobs = Jobs(s) /\ (s.processing <=> s.active # None)
  BY <1>1, <1>2 DEF Jobs
<1>5. q'.jobs \subseteq q.jobs <=> ~(q'.active # None /\ q'.active # s.active)
  <2>1. s.scheduled <=> s.running /\ mode = "auto"
    BY <1>1, <1>2
  <2>2. ~s.running => s.pending = None /\ s.wake = None
    BY <1>1, <1>2
  <2>3. Sound(q')
    BY <1>2, <1>3, <1>4, <2>1, <2>2, DrainSound
  <2>4. q'.jobs = Jobs(q')
    BY <2>3 DEF Sound
  <2> QED BY <1>1, <1>2, <2>4 DEF Jobs
<1>6. since' = IF q'.active # None /\ q'.active # s.active THEN 0 ELSE since
  BY <1>3, <1>5 DEF Timed
<1>7. analysed' \subseteq 1..read
  BY <1>3 DEF Inv, FrameInv
<1> QED BY <1>2, <1>3, <1>4, <1>6, <1>7, DrainInv

LEMMA PassInv == Inv /\ Pass => Inv' /\ Spaced
<1> SUFFICES ASSUME Inv, Pass PROVE Inv' /\ Spaced
  OBVIOUS
<1>1. q \in Fields
  BY DEF Inv, Sound
<1>2. q.wait \in 1..Interval /\ since \in 0..(Interval - 1) /\ since + q.wait = Interval
  BY <1>1 DEF Inv, Fields, Pass
<1>3. q.wake # None => q.wake - 1 \in Delays
  BY <1>1 DEF Fields, Pass
<1>4. /\ q'.running = q.running /\ q'.processing = q.processing
      /\ q'.scheduled = q.scheduled /\ q'.pending = q.pending
      /\ q'.active = q.active /\ q'.jobs = q.jobs
      /\ q'.wait = q.wait - 1 /\ since' = since + 1
      /\ q'.wake = IF q.wake = None THEN None ELSE q.wake - 1
      /\ UNCHANGED <<mode, callbacks, read, released, analysed>>
  BY <1>2 DEF Pass, Less
<1>5. q' \in Fields
  BY <1>1, <1>2, <1>3 DEF Fields, Pass, Less
<1>6. q'.wake = None <=> q.wake = None
  BY <1>3, <1>4, NoneIs
<1>7. Sound(q)'
  BY <1>4, <1>5, <1>6 DEF Inv, Sound, Jobs, Idle
<1>8. FrameInv'
  BY <1>4, FramesKept DEF Inv
<1> QED BY <1>2, <1>4, <1>7, <1>8 DEF Inv, OneCallback, Spaced

LEMMA NextInv == Inv /\ [Next]_vars => Inv' /\ [Spaced]_vars
<1> SUFFICES ASSUME Inv, [Next]_vars PROVE Inv' /\ [Spaced]_vars
  OBVIOUS
<1>1. CASE Start
  <2>1. q \in Fields /\ q'.jobs = q.jobs
    BY <1>1 DEF Inv, Sound, Fields, Start, Registers, Restarted
  <2> QED BY <1>1, <2>1, StartInv DEF Spaced
<1>2. CASE Stop
  <2>1. q'.jobs = q.jobs
    BY <1>2 DEF Stop, Stopped
  <2> QED BY <1>2, <2>1, StopInv DEF Spaced
<1>3. CASE Callback
  BY <1>3, CallbackInv
<1>4. CASE Wake
  BY <1>4, WakeInv
<1>5. CASE Pass
  BY <1>5, PassInv
<1>6. ASSUME NEW f \in Frames, Supply(f) PROVE Inv' /\ Spaced
  BY <1>6, SupplyInv
<1>7. ASSUME NEW f \in Frames, Finish(f) PROVE Inv' /\ Spaced
  BY <1>7, FinishInv
<1>8. CASE UNCHANGED vars
  BY <1>8 DEF vars, Inv, Sound, Jobs, Idle, OneCallback, FrameInv, NothingLeaks
<1> QED BY <1>1, <1>2, <1>3, <1>4, <1>5, <1>6, <1>7, <1>8 DEF Next

THEOREM Invariance == Spec => []Inv
<1>1. Inv /\ [Next]_vars => Inv'
  BY NextInv
<1> QED BY InitInv, <1>1, PTL DEF Spec

-----------------------------------------------------------------------------
(* The fields keep their types, and a frame is marked as analysed exactly   *)
(* while its analysis is under way.                                         *)
THEOREM TypeCorrectness == Spec => []TypeOK
<1>1. Inv => TypeOK
  <2> SUFFICES ASSUME Inv PROVE TypeOK
    OBVIOUS
  <2>1. callbacks \in Nat
    BY DEF Inv, OneCallback
  <2>2. /\ read \in 0..MaxFrames /\ released \subseteq 1..read /\ analysed \subseteq 1..read
        /\ 1..read \subseteq Frames
    BY DEF Inv, FrameInv
  <2>3. q \in Fields /\ (q.processing <=> q.active # None)
    BY DEF Inv, Sound
  <2> QED BY <2>1, <2>2, <2>3 DEF Inv, TypeOK
<1> QED BY Invariance, <1>1, PTL

(* One analysis at a time, through any number of stops and starts.          *)
THEOREM NeverTwoAnalyses == Spec => []OneAnalysis
<1>1. Inv => OneAnalysis
  <2> SUFFICES ASSUME Inv PROVE Cardinality(q.jobs) <= 1
    BY DEF OneAnalysis
  <2>1. q.jobs = {} \/ \E f : q.jobs = {f}
    BY DEF Inv, Sound, Jobs
  <2>2. Cardinality(q.jobs) \in {0, 1}
    BY <2>1, FS_EmptySet, FS_Singleton, Zenon
  <2> QED BY <2>2
<1> QED BY Invariance, <1>1, PTL

(* A frame that waits or is analysed has not been given to disposeFrame.    *)
THEOREM ReleasedIsUnused == Spec => []NoUseAfterRelease
<1>1. Inv => NoUseAfterRelease
  BY DEF Inv, Sound, Jobs, FrameInv, NoUseAfterRelease
<1> QED BY Invariance, <1>1, PTL

(* Every frame that was read waits, is or was analysed, or is released.     *)
THEOREM NoFrameIsLost == Spec => []NothingLeaks
<1>1. Inv => NothingLeaks
  BY DEF Inv, FrameInv
<1> QED BY Invariance, <1>1, PTL

(* The browser holds one callback exactly while the scheduler runs.         *)
THEOREM SourceIsRegistered == Spec => []OneCallback
<1>1. Inv => OneCallback
  BY DEF Inv
<1> QED BY Invariance, <1>1, PTL

(* A frame that waits while nothing is analysed has a timer to wake it.     *)
THEOREM NothingSleeps == Spec => []PendingIsWatched
<1>1. Inv => PendingIsWatched
  BY DEF Inv, Sound, PendingIsWatched
<1> QED BY Invariance, <1>1, PTL

(* Two analyses of one run of the scheduler begin an interval apart.        *)
THEOREM AnalysesAreSpaced == Spec => AtMostFourHertz
<1>1. Inv /\ Inv' /\ [Next]_vars => [Begins /\ q.running => since = Interval]_vars
  <2> SUFFICES ASSUME Inv, Inv', Next, Begins, q.running, ~(UNCHANGED vars)
               PROVE  since = Interval
    OBVIOUS
  <2>1. CASE ~q.processing
    <3>1. q.active = None /\ q.jobs = {}
      BY <2>1 DEF Inv, Sound, Jobs
    <3>2. q'.active # None /\ q'.jobs = {q'.active}
      BY DEF Begins, Inv, Sound, Jobs
    <3>3. Spaced
      BY NextInv
    <3> QED BY <3>1, <3>2, <3>3 DEF Spaced
  <2>2. CASE \E f \in q.jobs : Finish(f)
    <3>1. q.jobs \subseteq Frames
      BY DEF Inv, Sound, Fields
    <3> QED BY <2>2, <3>1, FinishSpaced DEF Begins
  <2> QED BY <2>1, <2>2 DEF Begins
<1> QED BY Invariance, <1>1, PTL DEF Spec, AtMostFourHertz
-----------------------------------------------------------------------------
(* The scheduler is a pipeline with one place. *)

LEMMA WorkIs ==
  /\ q'.jobs = q.jobs => UnderWay' = UnderWay
  /\ q.jobs = {} <=> UnderWay = {}
  /\ q'.jobs = {} => UnderWay' = {}
  /\ \A f : q'.jobs = {f} => UnderWay' = {<<f, f>>}
BY DEF UnderWay

(* A scheduler that drains either keeps what waits and what is analysed, or *)
(* begins the analysis of what waits.                                       *)
LEMMA DrainBegins ==
  ASSUME NEW s, s \in Fields, s.processing <=> s.active # None, s.jobs = Jobs(s),
         q' = Armed(Drained(s)) \/ q' = Drained(s)
  PROVE  /\ q'.running = s.running
         /\ \/ q'.pending = s.pending /\ q'.jobs = s.jobs
            \/ /\ s.running /\ s.pending \in Frames /\ s.jobs = {}
               /\ q'.pending = None /\ q'.jobs = {s.pending}
<1>1. Same(q', s) \/ (Idle(s) /\ s.wait = 0 /\ q' = Begun(s))
  BY DrainIs
<1>2. CASE Same(q', s)
  BY <1>2 DEF Same
<1>3. CASE Idle(s) /\ q' = Begun(s)
  <2>1. s.jobs = {} /\ s.pending \in Frames
    BY <1>3 DEF Idle, Jobs, Fields
  <2> QED BY <1>3, <2>1 DEF Idle, Begun
<1> QED BY <1>1, <1>2, <1>3

LEMMA AcceptedPipe ==
  ASSUME Inv, NEW f \in Frames, NEW s, s \in Fields, s.running,
         s.processing = q.processing, s.active = q.active, s.jobs = q.jobs,
         q' = Accepted(s, f)
  PROVE  Pipe!Offer(f) \/ Pipe!OfferAndBegin(f, f)
<1> DEFINE t == [s EXCEPT !.pending = f]
<1>1. /\ t \in Fields /\ t.running /\ t.processing = q.processing /\ t.pending = f
      /\ t.active = q.active /\ t.jobs = q.jobs
  BY DEF Fields
<1>2. q' = Armed(Drained(t))
  BY DEF Accepted
<1> HIDE DEF t
<1>3. (t.processing <=> t.active # None) /\ t.jobs = Jobs(t)
  BY <1>1 DEF Inv, Sound, Jobs
<1>4. /\ q'.running = t.running
      /\ \/ q'.pending = t.pending /\ q'.jobs = t.jobs
         \/ t.jobs = {} /\ q'.pending = None /\ q'.jobs = {t.pending}
  BY <1>1, <1>2, <1>3, DrainBegins
<1>5. q'.running = TRUE
  BY <1>1, <1>4 DEF Fields
<1>6. CASE q'.pending = f /\ q'.jobs = q.jobs
  BY <1>5, <1>6, WorkIs DEF Pipe!Offer, Pipe!Accepts
<1>7. CASE q.jobs = {} /\ q'.pending = None /\ q'.jobs = {f}
  BY <1>5, <1>7, WorkIs DEF Pipe!OfferAndBegin, Pipe!Accepts
<1> QED BY <1>1, <1>4, <1>6, <1>7

LEMMA SupplyPipe ==
  ASSUME Inv, NEW f \in Frames, Supply(f) PROVE [Pipe!Next]_(Pipe!pipeVars)
<1>1. q \in Fields
  BY DEF Inv, Sound
<1>2. CASE q.running
  <2>1. q' = Accepted(q, f)
    BY <1>2 DEF Supply
  <2> QED BY <1>1, <1>2, <2>1, AcceptedPipe DEF Pipe!Next
<1>3. CASE ~q.running
  <2> DEFINE s == Restarted(q, q.wake)
  <2>1. q' = Accepted(s, f)
    BY <1>3 DEF Supply
  <2>2. /\ s \in Fields /\ s.running /\ s.processing = q.processing
        /\ s.active = q.active /\ s.jobs = q.jobs
    BY <1>1 DEF Restarted, Fields
  <2> HIDE DEF s
  <2> QED BY <2>1, <2>2, AcceptedPipe DEF Pipe!Next
<1> QED BY <1>2, <1>3

LEMMA CallbackPipe == ASSUME Inv, Callback PROVE [Pipe!Next]_(Pipe!pipeVars)
<1>1. q \in Fields /\ q.running
  BY DEF Inv, Sound, Callback
<1>2. CASE q' = q
  BY <1>2, WorkIs DEF Pipe!pipeVars
<1>3. CASE \E f \in Frames : q' = Accepted(q, f)
  BY <1>1, <1>3, AcceptedPipe DEF Pipe!Next
<1> QED BY <1>2, <1>3 DEF Callback

LEMMA FinishPipe ==
  ASSUME Inv, NEW f \in Frames, Finish(f) PROVE [Pipe!Next]_(Pipe!pipeVars)
<1> DEFINE s == Finished(f)
<1>1. q \in Fields /\ q.jobs = {f}
  BY DEF Inv, Sound, Finish, Jobs
<1>2. /\ s \in Fields /\ s.jobs = {} /\ s.active = None /\ s.processing = FALSE
      /\ s.running = q.running /\ s.pending = q.pending
  BY <1>1 DEF Finished, Fields
<1>3. q' = Armed(Drained(s))
  BY DEF Finish
<1> HIDE DEF s
<1>4. s.jobs = Jobs(s)
  BY <1>2 DEF Jobs
<1>5. /\ q'.running = q.running
      /\ \/ q'.pending = q.pending /\ q'.jobs = {}
         \/ /\ q.running /\ q.pending \in Frames
            /\ q'.pending = None /\ q'.jobs = {q.pending}
  BY <1>2, <1>3, <1>4, DrainBegins
<1>6. CASE q'.pending = q.pending /\ q'.jobs = {}
  BY <1>1, <1>5, <1>6, WorkIs DEF Pipe!Next, Pipe!End
<1>7. CASE /\ q.running /\ q.pending \in Frames
           /\ q'.pending = None /\ q'.jobs = {q.pending}
  <2>1. Pipe!Begin(q.pending)
    BY <1>5, <1>7, NoneIs, WorkIs DEF Pipe!Begin
  <2> QED BY <1>7, <2>1 DEF Pipe!Next
<1> QED BY <1>5, <1>6, <1>7

LEMMA WakePipe == ASSUME Inv, Wake PROVE [Pipe!Next]_(Pipe!pipeVars)
<1> DEFINE s == [q EXCEPT !.wake = None]
<1>1. q \in Fields /\ (q.processing <=> q.active # None) /\ q.jobs = Jobs(q)
  BY DEF Inv, Sound
<1>2. /\ s \in Fields /\ s.jobs = q.jobs /\ s.active = q.active /\ s.processing = q.processing
      /\ s.running = q.running /\ s.pending = q.pending
  BY <1>1 DEF Fields
<1>3. q' = Drained(s)
  BY DEF Wake
<1> HIDE DEF s
<1>4. s.jobs = Jobs(s)
  BY <1>1, <1>2 DEF Jobs
<1>5. /\ q'.running = q.running
      /\ \/ q'.pending = q.pending /\ q'.jobs = q.jobs
         \/ /\ q.running /\ q.pending \in Frames
            /\ q'.pending = None /\ q'.jobs = {q.pending}
  BY <1>1, <1>2, <1>3, <1>4, DrainBegins
<1>6. CASE q'.pending = q.pending /\ q'.jobs = q.jobs
  BY <1>5, <1>6, WorkIs DEF Pipe!pipeVars
<1>7. CASE /\ q.running /\ q.pending \in Frames
           /\ q'.pending = None /\ q'.jobs = {q.pending}
  <2>1. Pipe!Begin(q.pending)
    BY <1>5, <1>7, NoneIs, WorkIs DEF Pipe!Begin
  <2> QED BY <1>7, <2>1 DEF Pipe!Next
<1> QED BY <1>5, <1>6, <1>7

LEMMA NextPipe == ASSUME Inv, [Next]_vars PROVE [Pipe!Next]_(Pipe!pipeVars)
<1>1. CASE Start
  <2>1. q \in Fields /\ (~q.running => q.pending = None)
    BY DEF Inv, Sound
  <2>2. \/ q'.running = q.running /\ q'.pending = q.pending /\ q'.jobs = q.jobs
        \/ q'.running = TRUE /\ q'.pending = q.pending /\ q'.jobs = q.jobs
    BY <1>1, <2>1 DEF Start, Registers, Restarted, Fields
  <2> QED BY <2>2, WorkIs DEF Pipe!Next, Pipe!Start, Pipe!pipeVars
<1>2. CASE Stop
  <2>1. q'.running = FALSE /\ q'.pending = None /\ q'.jobs = q.jobs
    BY <1>2 DEF Stop, Stopped
  <2> QED BY <2>1, WorkIs DEF Pipe!Next, Pipe!Stop
<1>3. CASE Pass
  <2>1. q'.running = q.running /\ q'.pending = q.pending /\ q'.jobs = q.jobs
    BY <1>3 DEF Pass
  <2> QED BY <2>1, WorkIs DEF Pipe!pipeVars
<1>4. CASE UNCHANGED vars
  BY <1>4, WorkIs DEF vars, Pipe!pipeVars
<1> QED BY <1>1, <1>2, <1>3, <1>4, SupplyPipe, CallbackPipe, FinishPipe, WakePipe DEF Next

(* The scheduler implements the pipeline with one place.                    *)
THEOREM SchedulerLatestWins == Spec => ImplementsLatestWins
<1>1. Init => Pipe!Init
  BY DEF Init, Pipe!Init, UnderWay
<1>2. Inv /\ [Next]_vars => [Pipe!Next]_(Pipe!pipeVars)
  BY NextPipe
<1> QED BY <1>1, <1>2, Invariance, PTL DEF Spec, Pipe!Spec, ImplementsLatestWins

-----------------------------------------------------------------------------
(* The timer. *)

(* The timer runs exactly while a frame waits and nothing is analysed, and  *)
(* is due when the interval since the last analysis has passed.             *)
OnTime(s) == IF Idle(s) THEN s.wake = s.wait ELSE s.wake = None

WakesInTime == OnTime(q) /\ (Idle(q) => since + q.wake = Interval)

(* So are the fields that the private methods leave, if no timer of theirs  *)
(* was wrong before.                                                        *)
LEMMA DrainOnTime ==
  ASSUME NEW s \in Fields, s.wake = None \/ (Idle(s) /\ s.wake = s.wait)
  PROVE  OnTime(Drained(s)) /\ OnTime(Armed(Drained(s)))
<1>1. CASE ~Idle(s)
  BY <1>1 DEF Drained, Armed, OnTime
<1>2. CASE Idle(s) /\ s.wait > 0
  <2>1. Idle(Armed(s)) /\ Armed(s).wake = s.wait /\ Armed(s).wait = s.wait
    <3>1. CASE s.wake = None
      <4>1. Armed(s) = [s EXCEPT !.wake = s.wait]
        BY <1>2, <3>1 DEF Armed
      <4> QED BY <1>2, <4>1 DEF Fields, Idle
    <3>2. CASE s.wake # None
      BY <1>2, <3>2 DEF Armed
    <3> QED BY <3>1, <3>2
  <2>2. Armed(s).wake # None
    BY <2>1, NoneIs DEF Fields
  <2>3. Drained(s) = Armed(s) /\ Armed(Drained(s)) = Armed(s)
    BY <1>2, <2>2 DEF Drained, Armed
  <2> QED BY <2>1, <2>3 DEF OnTime
<1>3. CASE Idle(s) /\ ~(s.wait > 0)
  <2>1. Drained(s) = Begun(s) /\ ~Idle(Begun(s)) /\ Begun(s).wake = None
    BY <1>3 DEF Drained, Begun, Idle
  <2> QED BY <2>1 DEF Armed, OnTime
<1> QED BY <1>1, <1>2, <1>3

LEMMA AcceptedOnTime ==
  ASSUME NEW s \in Fields, s.wake = None \/ (Idle(s) /\ s.wake = s.wait), NEW f \in Frames
  PROVE  OnTime(Accepted(s, f))
<1>1. [s EXCEPT !.pending = f] \in Fields
  BY DEF Fields
<1>2. \/ [s EXCEPT !.pending = f].wake = None
      \/ /\ Idle([s EXCEPT !.pending = f])
         /\ [s EXCEPT !.pending = f].wake = [s EXCEPT !.pending = f].wait
  BY NoneIs DEF Fields, Idle
<1> QED BY <1>1, <1>2, DrainOnTime DEF Accepted

LEMMA OnTimeStep == Inv /\ OnTime(q) /\ [Next]_vars => OnTime(q)'
<1> SUFFICES ASSUME Inv, OnTime(q), [Next]_vars PROVE OnTime(q)'
  OBVIOUS
<1>1. q \in Fields
  BY DEF Inv, Sound
<1>2. q.wake = None \/ (Idle(q) /\ q.wake = q.wait)
  BY DEF OnTime
<1>3. CASE Start
  <2>1. CASE q.running
    <3>1. Idle(q') = Idle(q) /\ q'.wake = q.wake /\ q'.wait = q.wait
      BY <1>1, <1>3, <2>1 DEF Start, Registers, Idle, Fields
    <3> QED BY <3>1 DEF OnTime
  <2>2. CASE ~q.running
    <3>1. q.pending = None
      BY <2>2 DEF Inv, Sound
    <3>2. ~Idle(q') /\ q'.wake = None
      BY <1>3, <2>2, <3>1 DEF Start, Registers, Restarted, Idle
    <3> QED BY <3>2 DEF OnTime
  <2> QED BY <2>1, <2>2
<1>4. CASE Stop
  BY <1>4 DEF Stop, Stopped, OnTime, Idle
<1>5. ASSUME NEW f \in Frames, Supply(f) PROVE OnTime(q)'
  <2>1. CASE q.running /\ q' = Accepted(q, f)
    <3>1. OnTime(Accepted(q, f))
      BY <1>1, <1>2, AcceptedOnTime
    <3> QED BY <2>1, <3>1
  <2>2. CASE ~q.running /\ q' = Accepted(Restarted(q, q.wake), f)
    <3>1. q.wake = None /\ 0 \in Delays
      BY <2>2 DEF Inv, Sound
    <3>2. Restarted(q, q.wake) \in Fields /\ Restarted(q, q.wake).wake = None
      BY <1>1, <3>1 DEF Restarted, Fields
    <3>3. OnTime(Accepted(Restarted(q, q.wake), f))
      BY <3>2, AcceptedOnTime
    <3> QED BY <2>2, <3>3
  <2> QED BY <1>5, <2>1, <2>2 DEF Supply
<1>6. CASE Callback
  <2>1. ASSUME NEW f \in Frames, q' = Accepted(q, f) PROVE OnTime(q)'
    <3>1. OnTime(Accepted(q, f))
      BY <1>1, <1>2, AcceptedOnTime
    <3> QED BY <2>1, <3>1
  <2> QED BY <1>6, <2>1 DEF Callback
<1>7. ASSUME NEW f \in Frames, Finish(f) PROVE OnTime(q)'
  <2>1. q.processing
    BY <1>7 DEF Finish, Inv, Sound, Jobs
  <2>2. q.wake = None
    BY <2>1 DEF OnTime, Idle
  <2>3. Finished(f) \in Fields /\ Finished(f).wake = None
    BY <1>1, <2>2 DEF Finished, Fields
  <2>4. OnTime(Armed(Drained(Finished(f))))
    BY <2>3, DrainOnTime
  <2> QED BY <1>7, <2>4 DEF Finish
<1>8. CASE Wake
  <2>1. [q EXCEPT !.wake = None] \in Fields /\ [q EXCEPT !.wake = None].wake = None
    BY <1>1 DEF Fields
  <2>2. OnTime(Drained([q EXCEPT !.wake = None]))
    BY <2>1, DrainOnTime
  <2> QED BY <1>8, <2>2 DEF Wake
<1>9. CASE Pass
  <2>1. Idle(q') = Idle(q)
    BY <1>9 DEF Pass, Idle
  <2>2. CASE Idle(q)
    <3>1. q.wake = q.wait /\ q.wait \in Delays /\ q.wake # 0
      BY <1>1, <1>9, <2>2 DEF Pass, OnTime, Fields
    <3> QED BY <1>9, <2>1, <2>2, <3>1, NoneIs DEF Pass, OnTime, Less
  <2>3. CASE ~Idle(q)
    BY <1>9, <2>1, <2>3 DEF Pass, OnTime
  <2> QED BY <2>2, <2>3
<1>10. CASE UNCHANGED vars
  BY <1>10 DEF vars, OnTime, Idle
<1> QED BY <1>3, <1>4, <1>5, <1>6, <1>7, <1>8, <1>9, <1>10 DEF Next

(* An analysis is not only never early but never late: the timer of a frame *)
(* that waits is due exactly an interval after the last analysis began, for *)
(* every interval, although ticks, early timers, stop() and start() arm and *)
(* clear it in any order.                                                   *)
THEOREM TimerIsExact == Spec => []WakesInTime
<1>1. Init => OnTime(q)
  BY DEF Init, OnTime, Idle
<1>2. Inv /\ OnTime(q) => WakesInTime
  BY DEF Inv, OnTime, WakesInTime
<1> QED BY <1>1, <1>2, OnTimeStep, Invariance, PTL DEF Spec
=============================================================================
