----------------------- MODULE GuidanceTransport_gate -----------------------
(***************************************************************************)
(* GuidanceTransport implements GuidanceGate: every step of a call maps to *)
(* a step of the gate or changes nothing the gate shows.                   *)
(***************************************************************************)
EXTENDS GuidanceTransport_proofs

(* Nothing the gate shows changes. *)
Hidden ==
  /\ GateOpen' = GateOpen
  /\ LiveFrame' = LiveFrame
  /\ Observed' = Observed
  /\ tp'.closed = tp.closed
  /\ peer' = peer

LEMMA HiddenStutters == Hidden => UNCHANGED Gate!gateVars
BY DEF Hidden, Gate!gateVars

-----------------------------------------------------------------------------
(* The live frame *)

LEMMA LiveIs == Inv => \A c \in Calls : Live(c) => LiveFrame = c
<1> SUFFICES ASSUME Inv, NEW c \in Calls, Live(c) PROVE LiveFrame = c
  OBVIOUS
<1>1. ASSUME NEW d \in Calls, Live(d) PROVE d = c
  <2>1. snap[c].frames # 0 /\ snap[d].frames # 0
    BY <1>1, NoneAssumption
    DEF Live, Inv, CallInv, OutboxInv, LockInv, Busy, Thinking, Reliable
  <2>2. snap[c].frames = snap[d].frames
    BY <1>1 DEF Live, Fresh
  <2> QED BY <2>1, <2>2 DEF Inv, GenInv
<1> QED BY <1>1 DEF LiveFrame

LEMMA LiveIsNext == Inv' => (\A c \in Calls : Live(c) => LiveFrame = c)'
BY LiveIs, PTL

LEMMA LiveGone == (\A c \in Calls : ~Live(c)') => LiveFrame' = None
BY DEF LiveFrame

LEMMA LiveSame ==
  ASSUME Inv, Inv', \A c \in Calls : Live(c)' <=> Live(c)
  PROVE  LiveFrame' = LiveFrame
<1>1. CASE \E c \in Calls : Live(c)
  BY <1>1, LiveIs, LiveIsNext
<1>2. CASE \A c \in Calls : ~Live(c)
  BY <1>2, LiveGone DEF LiveFrame
<1> QED BY <1>1, <1>2

(* A live frame keeps the gate open. *)
LEMMA LiveIsOpen == ASSUME Inv, NEW c \in Calls, Live(c) PROVE GateOpen
BY DEF Live, Fresh, Active, GateOpen, Inv, OutboxInv, Busy, TypeOK, Adapter, Gens

-----------------------------------------------------------------------------
(* The critical sections *)

LEMMA SectionGate ==
  ASSUME Inv, Inv', NEW c \in Calls, NEW op, NEW s,
         Granted(c, op, s), Section(c, op, s)
  PROVE  Hidden \/ Gate!Next
<1> USE DEF Inv, TypeOK, Granted
<1>0. snap[c].frames = 0 /\ ~Live(c) /\ outbox = None /\ c \notin Observed
  BY DEF CallInv, LockInv, Live, Observed, Thinking, Final
<1>1. CASE SectionChanges(c, op, s)
  <2>1. ~GateOpen'
    BY <1>1, NoneAssumption DEF GateOpen, SectionChanges, ChangeShot, Publish, LockInv
  <2>2. LiveFrame' = None
    <3>1. \A d \in Calls : snap'[d].shots < tp'.shots
      BY <1>1 DEF SectionChanges, ChangeShot, Showing, GenInv, Adapter, Gens
    <3>2. \A d \in Calls : snap'[d].shots # tp'.shots
      BY <3>1 DEF Gens, Adapter
    <3> QED BY <3>2, LiveGone DEF Live, Fresh
  <2>3. /\ tp'.closed = tp.closed /\ Observed' = Observed
        /\ peer' = peer /\ peer.shot \in Shots \cup {None} /\ peer.seq >= peer.seq
    BY <1>1 DEF SectionChanges, ChangeShot, Showing, Observed, Peer, Shot0
  <2> QED BY <2>1, <2>2, <2>3 DEF Gate!Next, Gate!Shut
<1>2. CASE SectionObserves(c, op, s)
  <2>1. GateOpen /\ GateOpen'
    BY <1>0, <1>2 DEF SectionObserves, Observe, GateOpen, Active, Adapter
  <2>2. LiveFrame' = c
    <3>1. Live(c)'
      BY <1>2 DEF SectionObserves, Observe, Live, Fresh, Active, Adapter, Gens
    <3> QED BY <3>1, LiveIsNext
  <2>3. Observed' = Observed \cup {c}
    <3>1. snap' = [snap EXCEPT ![c] = snap'[c]] /\ snap'[c].frames # 0
      BY <1>2 DEF SectionObserves, Observe, Adapter, Gens
    <3> QED BY <3>1 DEF Observed
  <2>4. tp'.closed = tp.closed /\ peer' = peer
    BY <1>2 DEF SectionObserves, Observe, Adapter
  <2>5. Gate!Observe(c)
    BY <1>0, <2>1, <2>2, <2>3, <2>4 DEF Gate!Observe, Gate!Admit
  <2> QED BY <2>5 DEF Gate!Next
<1>3. CASE SectionSnapshots(c, op)
  <2>1. \A d \in Calls : Live(d)' <=> Live(d)
    BY <1>0, <1>3 DEF SectionSnapshots, Publish, Live, Fresh, Active, Reliable, LockInv
  <2>2. GateOpen' = GateOpen
    BY <1>0, <1>3 DEF SectionSnapshots, Publish, GateOpen, Active
  <2> QED BY <1>3, <2>1, <2>2, LiveSame DEF Hidden, SectionSnapshots, Observed
<1>4. CASE SectionReconnects(c, op)
  <2>1. ~tp.connected /\ ~tp'.connected /\ tp'.closed = tp.closed
    BY <1>4 DEF SectionReconnects, Adapter
  <2>2. \A d \in Calls : Live(d)' <=> Live(d)
    BY <2>1 DEF Live, Fresh, Active
  <2> QED BY <1>4, <2>1, <2>2, LiveSame DEF Hidden, SectionReconnects, GateOpen, Observed
<1>5. ASSUME NEW closed \in BOOLEAN, SectionFences(c, closed) PROVE Gate!Next
  <2>1. ~tp'.connected /\ tp'.closed = closed /\ ~tp.closed
    BY <1>5 DEF SectionFences, Fenced
  <2>2. LiveFrame' = None /\ GateOpen' = FALSE
    BY <2>1, LiveGone DEF Live, Fresh, Active, GateOpen
  <2>3. /\ Observed' = Observed
        /\ peer' = peer /\ peer.shot \in Shots \cup {None} /\ peer.seq >= peer.seq
    BY <1>5 DEF SectionFences, Observed, Peer, Shot0
  <2>4. tp'.closed \in {tp.closed, TRUE}
    BY <2>1 DEF Adapter
  <2>5. Gate!Shut
    BY <2>2, <2>3, <2>4 DEF Gate!Shut
  <2> QED BY <2>5 DEF Gate!Next
<1>6. ASSUME NEW how \in Final, SectionLeaves(c, how) PROVE Hidden
  <2>1. \A d \in Calls : Live(d)' <=> Live(d)
    BY <1>0, <1>6 DEF SectionLeaves, Leave, Live, Fresh, Active, LockInv, Final
  <2> QED BY <1>0, <1>6, <2>1, LiveSame DEF Hidden, SectionLeaves, Leave, GateOpen, Observed
<1> QED BY SectionCases, <1>1, <1>2, <1>3, <1>4, <1>5, <1>6

LEMMA SettleGate ==
  ASSUME Inv, Inv', NEW c \in Calls, NEW code,
         Settling(c, code), SettleSection(c, code)
  PROVE  Hidden \/ Gate!Next
<1> USE DEF Inv, TypeOK, Settling
<1>0. outbox = None /\ Observed' = Observed /\ tp' = tp /\ snap' = snap
  BY DEF LockInv, SettleSection, Observed
<1>1. CASE /\ Fresh(c) /\ code # None
           /\ Publish(c, "advice", Emit(call[c].shot, code))
  <2>1. Live(c) /\ Live(c)'
    BY <1>0, <1>1 DEF Live, Fresh, Active, Publish, Reliable, Thinking
  <2>2. LiveFrame' = LiveFrame
    BY <2>1, LiveIs, LiveIsNext
  <2>3. GateOpen' = GateOpen
    BY <1>0, <1>1 DEF GateOpen, Publish
  <2> QED BY <1>0, <2>2, <2>3 DEF Hidden
<1>2. ASSUME NEW how \in Final, Leave(c, how) PROVE Hidden \/ Gate!Next
  <2>1. GateOpen' = GateOpen
    BY <1>0, <1>2 DEF GateOpen, Leave
  <2>2. /\ ~Live(c)'
        /\ \A d \in Calls \ {c} : Live(d)' <=> Live(d)
    BY <1>0, <1>2 DEF Leave, Live, Fresh, Active, LockInv, Final
  <2>3. CASE ~Live(c)
    <3>1. \A d \in Calls : Live(d)' <=> Live(d)
      BY <2>2, <2>3
    <3> QED BY <1>0, <2>1, <3>1, LiveSame DEF Hidden
  <2>4. CASE Live(c)
    <3>1. LiveFrame = c
      BY <2>4, LiveIs
    <3>2. \A d \in Calls \ {c} : ~Live(d)
      BY <3>1, LiveIs
    <3>3. LiveFrame' = None
      BY <2>2, <3>2, LiveGone
    <3>4. GateOpen
      BY <2>4, LiveIsOpen
    <3> QED BY <1>0, <2>1, <3>3, <3>4 DEF Gate!Next, Gate!Observe, Gate!Admit
  <2> QED BY <2>3, <2>4
<1> QED BY <1>1, <1>2 DEF SettleSection, Final

-----------------------------------------------------------------------------
(* The steps of a call *)

LEMMA EnqueueGate ==
  ASSUME Inv, Inv', NEW c \in Calls, NEW where, Enqueue(c, where), peer' = peer,
         \/ where = "waiting" /\ pc[c] = "idle"
            /\ \E r : call' = [call EXCEPT ![c] = r]
         \/ where = "settling" /\ pc[c] = "inferring" /\ call' = call
  PROVE  Hidden
<1> USE DEF Inv, TypeOK, Enqueue
<1>1. \A d \in Calls : Live(d)' <=> Live(d)
  BY DEF Live, Fresh, Active
<1>2. LiveFrame' = LiveFrame
  BY <1>1, LiveSame
<1> QED BY <1>2 DEF Hidden, GateOpen, Observed

LEMMA DeliveredGate ==
  ASSUME Inv, Inv', NEW c \in Calls, Delivered(c)
  PROVE  Gate!Next
<1> USE DEF Inv, TypeOK
<1>1. /\ holder = c /\ outbox \in Event /\ call[c].op \in Ops /\ snap[c] \in Gens
      /\ outbox.shot = tp.shot /\ ~tp.closed /\ tp.connected = (call[c].op # "reconnect")
      /\ outbox' = None
  BY NoneAssumption DEF Delivered, Observe, Leave, LockInv, OutboxInv, PeerInv, Busy, Adapter
<1>2. /\ peer'.seq = outbox.seq /\ peer'.seq > peer.seq
      /\ peer'.shot = IF Reliable(outbox) THEN tp.shot ELSE peer.shot
      /\ peer'.shot \in Shots \cup {None}
  BY <1>1, NoneAssumption DEF Delivered, Accepted, OutboxInv, Busy, Peer, Machine, Adapter, Shot0
<1>3. CASE call[c].op = "frame" /\ Reliable(outbox) /\ Observe(c)
  <2>1. ~GateOpen /\ GateOpen' /\ tp'.closed = tp.closed
    BY <1>1, <1>3, NoneAssumption
    DEF OutboxInv, Busy, Reliable, GateOpen, Observe, Adapter
  <2>2. c \notin Observed
    BY <1>1, <1>3 DEF CallInv, LockInv, Observed, Thinking, Final
  <2>3. snap' = [snap EXCEPT ![c] = snap'[c]] /\ snap'[c].frames # 0
    BY <1>3 DEF Observe, Adapter, Gens
  <2>4. Observed' = Observed \cup {c}
    BY <2>3 DEF Observed
  <2>5. Live(c)'
    BY <1>1, <1>3, NoneAssumption
    DEF Delivered, Observe, OutboxInv, Busy, Reliable, Live, Fresh, Active, Adapter, Gens
  <2>6. LiveFrame' = c
    BY <2>5, LiveIsNext
  <2>7. Gate!Sync(c)
    BY <1>1, <1>2, <2>1, <2>2, <2>4, <2>6 DEF Gate!Sync, Gate!Admit
  <2> QED BY <2>7 DEF Gate!Next
<1>4. CASE /\ Leave(c, "returned") /\ UNCHANGED snap
           /\ ~(call[c].op = "frame" /\ Reliable(outbox))
           /\ tp' = IF call[c].op = "reconnect" THEN [tp EXCEPT !.connected = TRUE] ELSE tp
  <2>1. /\ GateOpen' /\ tp'.closed = tp.closed /\ Observed' = Observed
        /\ tp'.frames = tp.frames /\ tp'.shots = tp.shots
    BY <1>1, <1>4 DEF GateOpen, Observed, Adapter
  <2>2. CASE call[c].op = "reconnect" \/ outbox.kind = "shot_changed"
    <3>1. ~GateOpen
      BY <1>1, <2>2, NoneAssumption DEF GateOpen
    <3>2. \A d \in Calls : snap[d].frames # tp.frames \/ snap[d].shots # tp.shots
      <4>1. CASE call[c].op = "reconnect"
        BY <1>1, <4>1 DEF GenInv, Adapter, Gens
      <4>2. CASE outbox.kind = "shot_changed"
        <5>1. \A d \in Calls : snap[d].shots < tp.shots
          BY <1>1, <4>2, NoneAssumption DEF OutboxInv, Busy
        <5> QED BY <5>1 DEF Adapter, Gens
      <4> QED BY <2>2, <4>1, <4>2
    <3>3. LiveFrame' = None
      BY <1>4, <2>1, <3>2, LiveGone DEF Live, Fresh
    <3>4. Gate!Sync(None)
      BY <1>1, <1>2, <2>1, <3>1, <3>3 DEF Gate!Sync, Gate!Admit
    <3> QED BY <3>4 DEF Gate!Next
  <2>3. CASE outbox.kind = "resync" /\ call[c].op # "reconnect"
    <3>1. GateOpen
      BY <1>1, <2>3 DEF GateOpen
    <3>2. \A d \in Calls : Live(d)' <=> Live(d)
      BY <1>1, <1>4, <2>3 DEF Delivered, Leave, Live, Fresh, Active, Reliable, LockInv
    <3>3. peer'.shot = peer.shot
      BY <1>2, <2>3, <3>1 DEF Reliable, PeerInv, BrowserKnowsShot
    <3>4. Gate!Refresh
      BY <1>2, <1>4, <2>1, <3>1, <3>2, <3>3, LiveSame DEF Gate!Refresh, GateOpen
    <3> QED BY <3>4 DEF Gate!Next
  <2>4. CASE outbox.kind = "advice"
    <3>1. Live(c) /\ call[c].op # "reconnect"
      BY <1>1, <2>4, NoneAssumption DEF Live, OutboxInv, Busy, Reliable, LockInv
    <3>2. LiveFrame = c /\ GateOpen
      BY <3>1, LiveIs, LiveIsOpen
    <3>3. \A d \in Calls \ {c} : ~Live(d)
      BY <3>2, LiveIs
    <3>4. \A d \in Calls : ~Live(d)'
      <4>1. tp' = tp /\ snap' = snap /\ pc' = [pc EXCEPT ![c] = "returned"] /\ call' = call
        BY <1>4, <3>1 DEF Leave, Delivered
      <4> QED BY <1>1, <3>3, <4>1 DEF Live, Fresh, Active, LockInv
    <3>5. LiveFrame' = None
      BY <3>4, LiveGone
    <3>6. peer'.shot = peer.shot
      BY <1>2, <2>4 DEF Reliable
    <3>7. Gate!Advise
      BY <1>2, <2>1, <3>2, <3>5, <3>6, NoneAssumption DEF Gate!Advise, GateOpen
    <3> QED BY <3>7 DEF Gate!Next
  <2> QED BY <1>1, <2>2, <2>3, <2>4 DEF Event
<1> QED BY <1>3, <1>4 DEF Delivered

LEMMA UndeliveredGate ==
  ASSUME Inv, Inv', NEW c \in Calls, Undelivered(c)
  PROVE  Gate!Next
<1> USE DEF Inv, TypeOK
<1>1. /\ holder = c /\ outbox \in Event /\ outbox' = None
      /\ Observed' = Observed
  BY NoneAssumption DEF Undelivered, Leave, LockInv, Observed
<1>2. /\ peer' = peer \/ peer'.seq > peer.seq
      /\ Reliable(outbox) \/ peer'.shot = peer.shot
      /\ peer'.shot \in Shots \cup {None} /\ peer'.seq >= peer.seq
  BY <1>1, NoneAssumption
  DEF Undelivered, Accepted, OutboxInv, Busy, Peer, Machine, Event, Shot0
<1>3. CASE Reliable(outbox)
  <2>1. ~tp'.connected /\ tp'.closed = tp.closed
    BY <1>3 DEF Undelivered, Fenced
  <2>2. LiveFrame' = None /\ ~GateOpen'
    BY <2>1, LiveGone DEF Live, Fresh, Active, GateOpen
  <2> QED BY <1>1, <1>2, <2>1, <2>2 DEF Gate!Next, Gate!Shut
<1>4. CASE ~Reliable(outbox)
  <2>1. Live(c) /\ tp' = tp
    BY <1>1, <1>4, NoneAssumption DEF Undelivered, Live, OutboxInv, Busy, Reliable, LockInv
  <2>2. LiveFrame = c /\ GateOpen
    BY <2>1, LiveIs, LiveIsOpen
  <2>3. \A d \in Calls \ {c} : ~Live(d)
    BY <2>2, LiveIs
  <2>4. \A d \in Calls : ~Live(d)'
    BY <1>1, <2>1, <2>3 DEF Undelivered, Leave, Live, Fresh, Active, LockInv
  <2>5. LiveFrame' = None /\ GateOpen'
    BY <1>1, <2>1, <2>2, <2>4, LiveGone DEF GateOpen
  <2>6. CASE peer' = peer
    <3>1. Gate!Observe(None)
      BY <1>1, <2>1, <2>2, <2>5, <2>6 DEF Gate!Observe, Gate!Admit, GateOpen
    <3> QED BY <3>1 DEF Gate!Next
  <2>7. CASE peer'.seq > peer.seq
    <3>1. Gate!Advise
      BY <1>1, <1>2, <1>4, <2>1, <2>2, <2>5, <2>7, NoneAssumption DEF Gate!Advise, GateOpen
    <3> QED BY <3>1 DEF Gate!Next
  <2> QED BY <1>2, <2>6, <2>7
<1> QED BY <1>3, <1>4

LEMMA AbandonGate ==
  ASSUME Inv, Inv', NEW c \in Calls, InferenceFails(c) \/ CancelWait(c)
  PROVE  Hidden \/ Gate!Next
<1> USE DEF Inv, TypeOK
<1>1. /\ pc[c] # "publishing" /\ pc' = [pc EXCEPT ![c] = "failed"]
      /\ UNCHANGED <<sm, tp, holder, outbox, call, snap, result, peer>>
      /\ GateOpen' = GateOpen /\ Observed' = Observed
  BY DEF InferenceFails, CancelWait, GateOpen, Observed
<1>2. /\ ~Live(c)'
      /\ \A d \in Calls \ {c} : Live(d)' <=> Live(d)
  BY <1>1 DEF Live, Fresh, Active
<1>3. CASE ~Live(c)
  <2>1. \A d \in Calls : Live(d)' <=> Live(d)
    BY <1>2, <1>3
  <2> QED BY <1>1, <2>1, LiveSame DEF Hidden
<1>4. CASE Live(c)
  <2>1. LiveFrame = c /\ GateOpen
    BY <1>4, LiveIs, LiveIsOpen
  <2>2. \A d \in Calls : ~Live(d)'
    BY <1>2, <2>1, LiveIs
  <2>3. LiveFrame' = None
    BY <2>2, LiveGone
  <2>4. Gate!Observe(None)
    BY <1>1, <2>1, <2>3 DEF Gate!Observe, Gate!Admit
  <2> QED BY <2>4 DEF Gate!Next
<1> QED BY <1>3, <1>4

-----------------------------------------------------------------------------
(* Refinement *)

LEMMA InitGate == Init => Gate!Init
<1> SUFFICES ASSUME Init PROVE Gate!Init
  OBVIOUS
<1>1. LiveFrame = None
  BY DEF Init, LiveFrame, Live
<1>2. GateOpen /\ Observed = {}
  BY DEF Init, GateOpen, Observed
<1> QED BY <1>1, <1>2 DEF Init, Gate!Init, GateOpen

LEMMA NextGate == Inv /\ Inv' /\ [Next]_vars => [Gate!Next]_Gate!gateVars
<1> SUFFICES ASSUME Inv, Inv', [Next]_vars PROVE Hidden \/ Gate!Next
  BY HiddenStutters
<1>1. ASSUME NEW c \in Calls, NEW op \in Ops, NEW s \in Shot0,
             op \in {"set_shot", "frame"} => s \in Shots,
             Begin(c, op, s)
      PROVE  Hidden \/ Gate!Next
  <2>1. CASE LockFree /\ Section(c, op, s) /\ UNCHANGED waiters
    <3>1. Granted(c, op, s)
      BY <1>1, <2>1 DEF Begin, Granted, LockFree, Inv, TypeOK
    <3> QED BY <2>1, <3>1, SectionGate
  <2>2. CASE Enqueue(c, "waiting")
    BY <1>1, <2>2, EnqueueGate DEF Begin
  <2> QED BY <1>1, <2>1, <2>2 DEF Begin
<1>2. ASSUME NEW c \in Calls, NEW code \in Code0, Answer(c, code)
      PROVE  Hidden \/ Gate!Next
  <2>1. CASE LockFree /\ SettleSection(c, code) /\ UNCHANGED waiters
    <3>1. Settling(c, code)
      BY <1>2, <2>1 DEF Answer, Settling, LockFree, Inv, TypeOK, Thinking
    <3> QED BY <2>1, <3>1, SettleGate
  <2>2. CASE Enqueue(c, "settling")
    BY <1>2, <2>2, EnqueueGate DEF Answer
  <2> QED BY <1>2, <2>1, <2>2 DEF Answer
<1>3. ASSUME NEW c \in Calls, Grant(c) PROVE Hidden \/ Gate!Next
  <2>1. CASE pc[c] = "waiting" /\ Section(c, call[c].op, call[c].shot)
    BY <1>3, <2>1, GrantedAgain, SectionGate
  <2>2. CASE pc[c] = "settling" /\ SettleSection(c, result[c])
    <3>1. Settling(c, result[c])
      BY <1>3, <2>2 DEF Grant, Settling, Thinking, Inv, TypeOK
    <3> QED BY <2>2, <3>1, SettleGate
  <2> QED BY <1>3, <2>1, <2>2 DEF Grant
<1>4. ASSUME NEW c \in Calls, Request(c) PROVE Hidden \/ Gate!Next
  BY <1>1, <1>4 DEF Request, Ops, Shot0
<1>5. ASSUME NEW c \in Calls, Resume(c) \/ Conclude(c) \/ CancelWait(c)
      PROVE  Hidden \/ Gate!Next
  BY <1>2, <1>3, <1>5, DeliveredGate, UndeliveredGate, AbandonGate DEF Resume, Conclude
<1>6. CASE UNCHANGED vars
  <2>1. \A d \in Calls : Live(d)' <=> Live(d)
    BY <1>6 DEF vars, Live, Fresh, Active, Reliable
  <2> QED BY <1>6, <2>1, LiveSame DEF vars, Hidden, GateOpen, Observed
<1> QED BY <1>4, <1>5, <1>6 DEF Next

(* For any number of overlapping calls, packets, failures, reconnections    *)
(* and cancellations, the transport shows the browser a GuidanceGate.       *)
THEOREM Implements == Spec => ImplementsGate
BY InitGate, NextGate, Invariance, PTL DEF Spec, ImplementsGate, Gate!Spec
=============================================================================
