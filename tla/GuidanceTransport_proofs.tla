---------------------- MODULE GuidanceTransport_proofs ----------------------
(***************************************************************************)
(* Proofs about GuidanceTransport, for any number of overlapping calls,    *)
(* shots and codes.                                                        *)
(***************************************************************************)
EXTENDS GuidanceTransport, TLAPS

-----------------------------------------------------------------------------
(* The inductive invariant *)

Busy == outbox # None
Thinking == {"inferring", "settling"}

(* The lock is held exactly by the call inside publish_data. *)
LockInv ==
  /\ \A c \in Calls : pc[c] = "publishing" <=> holder = c
  /\ holder = None <=> outbox = None

(* What the arguments of a call, and its place, say of each other. *)
CallInv ==
  \A c \in Calls :
    /\ call[c].op \in {"set_shot", "frame"} => call[c].shot \in Shots
    /\ pc[c] \in Thinking => call[c].op = "frame" /\ snap[c].frames # 0
    /\ snap[c].frames # 0 =>
         \/ pc[c] \in Thinking \cup Final
         \/ pc[c] = "publishing" /\ ~Reliable(outbox)

(* The generations only grow, one frame has the newest one, and a frame of  *)
(* the present shot generation asked about the present shot.                *)
GenInv ==
  /\ \A c \in Calls :
       /\ snap[c].frames <= tp.frames
       /\ snap[c].shots <= tp.shots
       /\ snap[c].frames # 0 /\ snap[c].shots = tp.shots => call[c].shot = tp.shot
       /\ ~tp.connected => snap[c].frames < tp.frames
  /\ \A c, d \in Calls :
       snap[c].frames # 0 /\ snap[c].frames = snap[d].frames => c = d

(* The event in flight is the newest, tells the state machine's shot, and   *)
(* is of the kind its call publishes.                                       *)
OutboxInv ==
  Busy =>
    /\ outbox.seq = sm.seq /\ peer.seq < sm.seq
    /\ outbox.shot = sm.shot
    /\ ~tp.closed
    /\ tp.connected <=> call[holder].op # "reconnect"
    /\ \/ outbox.kind = "resync" /\ call[holder].op \in {"resync", "reconnect"}
       \/ /\ outbox.kind = "advice" /\ call[holder].op = "frame"
          /\ Fresh(holder) /\ snap[holder].frames # 0
       \/ /\ outbox.kind = "shot_changed" /\ call[holder].op \in {"set_shot", "frame"}
          /\ call[holder].shot = tp.shot
          /\ \A c \in Calls : snap[c].shots < tp.shots

PeerInv ==
  /\ peer.seq <= sm.seq
  /\ tp.shot = sm.shot
  /\ tp.closed => ~tp.connected
  /\ BrowserKnowsShot

Inv == TypeOK /\ LockInv /\ CallInv /\ GenInv /\ OutboxInv /\ PeerInv

-----------------------------------------------------------------------------
(* Lemmas about the operators *)

LEMMA MachineTypes ==
  ASSUME sm \in Machine
  PROVE  /\ Resync \in Machine
         /\ \A s \in Shots : SelectShot(s) \in Machine
         /\ \A s \in Shots, code \in Codes : Emit(s, code) \in Machine
<1>1. Resync \in Machine
  BY DEF Resync, Machine
<1>2. ASSUME NEW s \in Shots PROVE SelectShot(s) \in Machine
  <2>1. (IF s = sm.shot THEN sm.code ELSE None) \in Code0
    BY DEF Machine, Code0
  <2>2. (IF s = sm.shot THEN sm.key ELSE None) \in (Shots \X Codes) \cup {None}
    BY DEF Machine
  <2>3. sm.seq + 1 \in Nat /\ s \in Shot0
    BY DEF Machine, Shot0
  <2> QED BY <2>1, <2>2, <2>3 DEF SelectShot, Machine
<1>3. ASSUME NEW s \in Shots, NEW code \in Codes PROVE Emit(s, code) \in Machine
  BY DEF Emit, Machine, Shot0, Code0
<1> QED BY <1>1, <1>2, <1>3

LEMMA AdapterTypes ==
  ASSUME tp \in Adapter
  PROVE  /\ \A closed \in BOOLEAN : Fenced(closed) \in Adapter
         /\ \A s \in Shots : Showing(s) \in Adapter
BY DEF Adapter, Fenced, Showing, Shot0

(* A frame that starts a new generation for the shot it was asked about. *)
LEMMA ObserveGens ==
  ASSUME TypeOK, TypeOK', GenInv, NEW c \in Calls,
         tp'.connected, tp'.shot = tp.shot,
         tp'.shots = tp.shots, tp'.frames = tp.frames + 1,
         snap'[c].shots = tp.shots, snap'[c].frames = tp.frames + 1,
         call'[c].shot = tp.shot,
         \A d \in Calls \ {c} : snap'[d] = snap[d] /\ call'[d] = call[d]
  PROVE  GenInv'
<1>1. ASSUME NEW d \in Calls
      PROVE  /\ snap'[d].frames <= tp'.frames /\ snap'[d].shots <= tp'.shots
             /\ snap'[d].frames # 0 /\ snap'[d].shots = tp'.shots
                  => call'[d].shot = tp'.shot
  <2>1. CASE d = c
    BY <2>1 DEF TypeOK, Adapter
  <2>2. CASE d # c
    <3>1. snap'[d] = snap[d] /\ call'[d] = call[d] /\ snap[d] \in Gens /\ tp \in Adapter
      BY <2>2 DEF TypeOK
    <3> QED BY <3>1 DEF GenInv, Adapter, Gens
  <2> QED BY <2>1, <2>2
<1>2. ASSUME NEW d \in Calls, NEW e \in Calls,
             snap'[d].frames # 0, snap'[d].frames = snap'[e].frames
      PROVE  d = e
  <2>1. \A k \in Calls : snap[k].frames \in Nat /\ snap[k].frames <= tp.frames
    BY DEF TypeOK, GenInv, Gens
  <2>2. tp.frames \in Nat
    BY DEF TypeOK, Adapter
  <2>3. CASE d = c /\ e # c
    BY <1>2, <2>1, <2>2, <2>3
  <2>4. CASE d # c /\ e = c
    BY <1>2, <2>1, <2>2, <2>4
  <2>5. CASE d # c /\ e # c
    BY <1>2, <2>5 DEF GenInv
  <2> QED BY <2>3, <2>4, <2>5
<1> QED BY <1>1, <1>2 DEF GenInv

-----------------------------------------------------------------------------
(* The critical sections *)

(* A call that has just got the lock. *)
Granted(c, op, s) ==
  /\ holder = None
  /\ pc[c] \in {"idle", "waiting"}
  /\ op \in Ops /\ s \in Shot0 /\ (op \in {"set_shot", "frame"} => s \in Shots)
  /\ call' = [call EXCEPT ![c] = [op |-> op, shot |-> s]]
  /\ waiters' \in Seq(Calls)
  /\ UNCHANGED <<result, peer>>

(* What a critical section can do. *)
SectionChanges(c, op, s) ==
  op \in {"set_shot", "frame"} /\ Active /\ s # tp.shot /\ ChangeShot(c, s)
SectionObserves(c, op, s) ==
  op = "frame" /\ Active /\ s = tp.shot /\ Observe(c) /\ UNCHANGED sm
SectionSnapshots(c, op) ==
  op = "resync" /\ Active /\ Publish(c, "resync", Resync) /\ UNCHANGED <<tp, snap>>
SectionReconnects(c, op) ==
  /\ op = "reconnect" /\ ~tp.closed /\ ~tp.connected
  /\ tp' = [tp EXCEPT !.conn = @ + 1]
  /\ Publish(c, "resync", Resync) /\ UNCHANGED snap
SectionFences(c, closed) ==
  ~tp.closed /\ tp' = Fenced(closed) /\ Leave(c, "returned") /\ UNCHANGED <<sm, snap>>
SectionLeaves(c, how) ==
  Leave(c, how) /\ UNCHANGED <<sm, tp, snap>>

LEMMA SectionCases ==
  ASSUME NEW c \in Calls, NEW op, NEW s, Section(c, op, s)
  PROVE  \/ SectionChanges(c, op, s)
         \/ SectionObserves(c, op, s)
         \/ SectionSnapshots(c, op)
         \/ SectionReconnects(c, op)
         \/ \E closed \in BOOLEAN : SectionFences(c, closed)
         \/ \E how \in Final : SectionLeaves(c, how)
<1>1. CASE op = "set_shot" /\ SetShotSection(c, s)
  BY <1>1 DEF SetShotSection, SectionChanges, SectionLeaves, Final
<1>2. CASE op = "resync" /\ ResyncSection(c)
  BY <1>2 DEF ResyncSection, SectionSnapshots
<1>3. CASE op = "frame" /\ FrameSection(c, s)
  BY <1>3 DEF FrameSection, SectionChanges, SectionObserves
<1>4. CASE InactiveSection(c, op)
  BY <1>4 DEF InactiveSection, SectionLeaves, Final
<1>5. CASE op = "disconnect" /\ DisconnectSection(c)
  BY <1>5 DEF DisconnectSection, SectionFences, SectionLeaves, Active, Final
<1>6. CASE op = "reconnect" /\ ReconnectSection(c)
  BY <1>6 DEF ReconnectSection, SectionReconnects, SectionLeaves, Final
<1>7. CASE op = "close" /\ CloseSection(c)
  BY <1>7 DEF CloseSection, SectionFences, SectionLeaves, Final
<1> QED BY <1>1, <1>2, <1>3, <1>4, <1>5, <1>6, <1>7 DEF Section

LEMMA SectionInv ==
  ASSUME Inv, NEW c \in Calls, NEW op, NEW s, Granted(c, op, s), Section(c, op, s)
  PROVE  Inv'
<1> USE DEF Inv, TypeOK, Granted
<1>1. CASE SectionChanges(c, op, s)
  <2>0. outbox' \in Event
    BY <1>1, MachineTypes DEF SectionChanges, ChangeShot, Publish, Machine, Event
  <2>1. TypeOK'
    BY <1>1, <2>0, MachineTypes, AdapterTypes DEF SectionChanges, ChangeShot, Showing, Publish, SelectShot, Machine, Adapter, Gens, Event, PCs, Final, Ops, Shot0, Code0
  <2>2. LockInv'
    BY <1>1, <2>0, NoneAssumption DEF LockInv, SectionChanges, ChangeShot, Showing, Publish, SelectShot, Final
  <2>3. CallInv'
    BY <1>1, NoneAssumption DEF LockInv, CallInv, SectionChanges, ChangeShot, Showing, Publish, SelectShot, Reliable, Thinking, Final
  <2>4. GenInv'
    BY <1>1 DEF LockInv, CallInv, GenInv, SectionChanges, ChangeShot, Showing, Publish, SelectShot, Reliable, Thinking, Final, Adapter, Gens, Active
  <2>5. OutboxInv'
    BY <1>1, NoneAssumption DEF LockInv, CallInv, GenInv, PeerInv, OutboxInv, Busy, SectionChanges, ChangeShot, Showing, Publish, SelectShot, Adapter, Gens, Machine, Peer, Active
  <2>6. PeerInv'
    BY <1>1, <2>0, NoneAssumption DEF LockInv, PeerInv, BrowserKnowsShot, GateOpen, SectionChanges, ChangeShot, Showing, Publish, SelectShot, Adapter, Machine, Peer, Active
  <2> QED BY <2>1, <2>2, <2>3, <2>4, <2>5, <2>6
<1>2. CASE SectionObserves(c, op, s)
  <2>0. /\ tp' \in Adapter
        /\ tp'.shot = tp.shot /\ tp'.connected = tp.connected /\ tp'.closed = tp.closed
        /\ tp'.conn = tp.conn /\ tp'.shots = tp.shots /\ tp'.frames = tp.frames + 1
    BY <1>2 DEF SectionObserves, Observe, Adapter
  <2>a. /\ snap' \in [Calls -> Gens]
        /\ snap'[c].shots = tp.shots /\ snap'[c].frames = tp.frames + 1
        /\ \A d \in Calls \ {c} : snap'[d] = snap[d]
    BY <1>2 DEF SectionObserves, Observe, Adapter, Gens
  <2>b. /\ holder' = None /\ outbox' = None /\ pc' = [pc EXCEPT ![c] = "inferring"]
        /\ op = "frame" /\ Active /\ s = tp.shot /\ sm' = sm
    BY <1>2 DEF SectionObserves, Observe
  <2>1. TypeOK'
    BY <2>0, <2>a, <2>b DEF PCs, Ops, Shot0
  <2>2. LockInv'
    BY <2>b, NoneAssumption DEF LockInv
  <2>3. CallInv'
    BY <2>a, <2>b, NoneAssumption DEF LockInv, CallInv, Thinking, Final, Adapter
  <2>4. GenInv'
    BY <2>0, <2>a, <2>b, <2>1, ObserveGens DEF Active
  <2>5. OutboxInv'
    BY <2>b DEF OutboxInv, Busy
  <2>6. PeerInv'
    BY <2>0, <2>b DEF LockInv, PeerInv, BrowserKnowsShot, GateOpen
  <2> QED BY <2>1, <2>2, <2>3, <2>4, <2>5, <2>6
<1>3. CASE SectionSnapshots(c, op)
  <2>0. outbox' \in Event
    BY <1>3, MachineTypes DEF SectionSnapshots, Publish, Machine, Event
  <2>1. TypeOK'
    BY <1>3, <2>0, MachineTypes, AdapterTypes DEF SectionSnapshots, Publish, Resync, Machine, Adapter, Gens, Event, PCs, Final, Ops, Shot0, Code0
  <2>2. LockInv'
    BY <1>3, <2>0, NoneAssumption DEF LockInv, SectionSnapshots, Publish, Resync, Final
  <2>3. CallInv'
    BY <1>3, NoneAssumption DEF LockInv, CallInv, SectionSnapshots, Publish, Resync, Reliable, Thinking, Final
  <2>4. GenInv'
    BY <1>3 DEF LockInv, CallInv, GenInv, SectionSnapshots, Publish, Resync, Reliable, Thinking, Final, Adapter, Gens, Active
  <2>5. OutboxInv'
    BY <1>3, NoneAssumption DEF LockInv, CallInv, GenInv, PeerInv, OutboxInv, Busy, SectionSnapshots, Publish, Resync, Adapter, Gens, Machine, Peer, Active
  <2>6. PeerInv'
    BY <1>3, NoneAssumption DEF LockInv, PeerInv, BrowserKnowsShot, GateOpen, SectionSnapshots, Publish, Resync, Adapter, Machine, Peer, Active
  <2> QED BY <2>1, <2>2, <2>3, <2>4, <2>5, <2>6
<1>4. CASE SectionReconnects(c, op)
  <2>0. outbox' \in Event
    BY <1>4, MachineTypes DEF SectionReconnects, Publish, Machine, Event
  <2>a. tp' \in Adapter
    BY <1>4 DEF SectionReconnects, Adapter
  <2>1. TypeOK'
    BY <1>4, <2>0, <2>a, MachineTypes DEF SectionReconnects, Publish, PCs, Ops, Shot0
  <2>2. LockInv'
    BY <1>4, <2>0, NoneAssumption DEF LockInv, SectionReconnects, Publish, Resync, Final
  <2>3. CallInv'
    BY <1>4, NoneAssumption DEF LockInv, CallInv, SectionReconnects, Publish, Resync, Reliable, Thinking, Final
  <2>4. GenInv'
    BY <1>4 DEF LockInv, CallInv, GenInv, SectionReconnects, Publish, Resync, Reliable, Thinking, Final, Adapter, Gens, Active
  <2>5. OutboxInv'
    BY <1>4, NoneAssumption DEF LockInv, CallInv, GenInv, PeerInv, OutboxInv, Busy, SectionReconnects, Publish, Resync, Adapter, Gens, Machine, Peer, Active
  <2>6. PeerInv'
    BY <1>4, NoneAssumption DEF LockInv, PeerInv, BrowserKnowsShot, GateOpen, SectionReconnects, Publish, Resync, Adapter, Machine, Peer, Active
  <2> QED BY <2>1, <2>2, <2>3, <2>4, <2>5, <2>6
<1>5. ASSUME NEW closed \in BOOLEAN, SectionFences(c, closed) PROVE Inv'
  <2>0. /\ tp' \in Adapter
        /\ tp'.shot = tp.shot /\ tp'.connected = FALSE /\ tp'.closed = closed
        /\ tp'.shots = tp.shots /\ tp'.frames = tp.frames + 1
    BY <1>5, AdapterTypes DEF SectionFences, Fenced
  <2>a. /\ holder' = None /\ outbox' = None /\ pc' = [pc EXCEPT ![c] = "returned"]
        /\ sm' = sm /\ snap' = snap
    BY <1>5 DEF SectionFences, Leave
  <2>1. TypeOK'
    BY <2>0, <2>a DEF PCs, Final
  <2>2. LockInv'
    BY <2>a, NoneAssumption DEF LockInv
  <2>3. CallInv'
    BY <2>a, NoneAssumption DEF LockInv, CallInv, Thinking, Final
  <2>4. GenInv'
    <3>1. ASSUME NEW d \in Calls
          PROVE  /\ snap[d].frames <= tp'.frames /\ snap[d].shots <= tp'.shots
                 /\ snap[d].frames # 0 /\ snap[d].shots = tp'.shots
                      => call'[d].shot = tp'.shot
                 /\ snap[d].frames < tp'.frames
      <4>1. snap[c].frames = 0
        BY DEF CallInv, Thinking, Final, LockInv
      <4>2. snap[d] \in Gens /\ tp \in Adapter
        OBVIOUS
      <4> QED BY <4>1, <4>2, <2>0 DEF GenInv, Adapter, Gens
    <3> QED BY <3>1, <2>a DEF GenInv
  <2>5. OutboxInv'
    BY <2>a DEF OutboxInv, Busy
  <2>6. PeerInv'
    BY <2>0, <2>a DEF PeerInv, BrowserKnowsShot, GateOpen
  <2> QED BY <2>1, <2>2, <2>3, <2>4, <2>5, <2>6
<1>6. ASSUME NEW how \in Final, SectionLeaves(c, how) PROVE Inv'
  <2>1. TypeOK'
    BY <1>6, MachineTypes, AdapterTypes DEF SectionLeaves, Leave, Machine, Adapter, Gens, Event, PCs, Final, Ops, Shot0, Code0
  <2>2. LockInv'
    BY <1>6, NoneAssumption DEF LockInv, SectionLeaves, Leave, Final
  <2>3. CallInv'
    BY <1>6, NoneAssumption DEF LockInv, CallInv, SectionLeaves, Leave, Reliable, Thinking, Final
  <2>4. GenInv'
    BY <1>6 DEF LockInv, CallInv, GenInv, SectionLeaves, Leave, Reliable, Thinking, Final, Adapter, Gens, Active
  <2>5. OutboxInv'
    BY <1>6, NoneAssumption DEF LockInv, CallInv, GenInv, PeerInv, OutboxInv, Busy, SectionLeaves, Leave, Adapter, Gens, Machine, Peer, Active
  <2>6. PeerInv'
    BY <1>6, NoneAssumption DEF LockInv, PeerInv, BrowserKnowsShot, GateOpen, SectionLeaves, Leave, Adapter, Machine, Peer, Active
  <2> QED BY <2>1, <2>2, <2>3, <2>4, <2>5, <2>6
<1> QED BY SectionCases, <1>1, <1>2, <1>3, <1>4, <1>5, <1>6

(* A frame that has just got the lock for the second time. *)
Settling(c, code) ==
  /\ holder = None
  /\ pc[c] \in Thinking
  /\ code \in Code0
  /\ waiters' \in Seq(Calls)
  /\ result' \in [Calls -> Code0]
  /\ UNCHANGED <<call, peer>>

LEMMA SettleInv ==
  ASSUME Inv, NEW c \in Calls, NEW code, Settling(c, code), SettleSection(c, code)
  PROVE  Inv'
<1> USE DEF Inv, TypeOK, Settling
<1>1. CASE /\ Fresh(c) /\ code # None
           /\ Publish(c, "advice", Emit(call[c].shot, code))
           /\ UNCHANGED <<tp, snap>>
  <2>a. call[c].op = "frame" /\ call[c].shot \in Shots /\ snap[c].frames # 0
    BY DEF CallInv
  <2>b. Emit(call[c].shot, code) \in Machine /\ code \in Codes
    BY <1>1, <2>a, MachineTypes DEF Code0
  <2>0. outbox' \in Event
    BY <1>1, <2>b DEF Publish, Machine, Event
  <2>1. TypeOK'
    BY <1>1, <2>0, <2>b DEF Publish, PCs
  <2>2. LockInv'
    BY <1>1, <2>0, NoneAssumption DEF Publish, LockInv
  <2>3. CallInv'
    BY <1>1, <2>a DEF Publish, CallInv, LockInv, Reliable, Thinking, Final
  <2>4. GenInv'
    BY <1>1 DEF GenInv
  <2>5. OutboxInv'
    BY <1>1, <2>a DEF Publish, Emit, OutboxInv, PeerInv, Busy, Fresh, Active, Machine, Peer
  <2>6. PeerInv'
    BY <1>1 DEF Publish, Emit, PeerInv, BrowserKnowsShot, GateOpen, Fresh, LockInv, Machine, Peer
  <2> QED BY <2>1, <2>2, <2>3, <2>4, <2>5, <2>6
<1>2. ASSUME NEW how \in Final, Leave(c, how), UNCHANGED <<sm, tp, snap>> PROVE Inv'
  <2>1. TypeOK'
    BY <1>2 DEF Leave, PCs
  <2>2. LockInv'
    BY <1>2, NoneAssumption DEF Leave, LockInv, Final
  <2>3. CallInv'
    BY <1>2 DEF Leave, CallInv, LockInv, Thinking, Final
  <2>4. GenInv'
    BY <1>2 DEF GenInv
  <2>5. OutboxInv'
    BY <1>2 DEF Leave, OutboxInv, Busy
  <2>6. PeerInv'
    BY <1>2 DEF Leave, PeerInv, BrowserKnowsShot, GateOpen, LockInv
  <2> QED BY <2>1, <2>2, <2>3, <2>4, <2>5, <2>6
<1> QED BY <1>1, <1>2 DEF SettleSection, Final

-----------------------------------------------------------------------------
(* The steps of a call *)

LEMMA EnqueueInv ==
  ASSUME Inv, NEW c \in Calls, NEW where \in {"waiting", "settling"},
         Enqueue(c, where),
         \/ /\ where = "waiting" /\ pc[c] = "idle"
            /\ \E op \in Ops, s \in Shot0 :
                 /\ op \in {"set_shot", "frame"} => s \in Shots
                 /\ call' = [call EXCEPT ![c] = [op |-> op, shot |-> s]]
            /\ UNCHANGED <<result, peer>>
         \/ /\ where = "settling" /\ pc[c] = "inferring"
            /\ result' \in [Calls -> Code0]
            /\ UNCHANGED <<call, peer>>
  PROVE  Inv'
<1> USE DEF Inv, TypeOK, Enqueue
<1>0. waiters' \in Seq(Calls)
  OBVIOUS
<1>1. CASE where = "settling" /\ pc[c] = "inferring" /\ UNCHANGED call
  <2>1. TypeOK' 
    BY <1>0, <1>1 DEF PCs
  <2>2. LockInv'
    BY <1>1 DEF LockInv
  <2>3. CallInv'
    BY <1>1 DEF CallInv, Thinking, Final
  <2>4. GenInv'
    BY <1>1 DEF GenInv
  <2>5. OutboxInv'
    BY <1>1, NoneAssumption DEF OutboxInv, Busy, Fresh, Active
  <2>6. PeerInv'
    BY DEF PeerInv, BrowserKnowsShot, GateOpen
  <2> QED BY <2>1, <2>2, <2>3, <2>4, <2>5, <2>6
<1>2. ASSUME where = "waiting", pc[c] = "idle", NEW op \in Ops, NEW s \in Shot0,
             op \in {"set_shot", "frame"} => s \in Shots,
             call' = [call EXCEPT ![c] = [op |-> op, shot |-> s]],
             UNCHANGED <<result, peer>>
      PROVE  Inv'
  <2>a. snap[c].frames = 0 /\ holder # c
    BY <1>2 DEF CallInv, LockInv, Thinking, Final
  <2>1. TypeOK'
    BY <1>0, <1>2 DEF PCs
  <2>2. LockInv'
    BY <1>2 DEF LockInv
  <2>3. CallInv'
    BY <1>2, <2>a DEF CallInv, Thinking, Final
  <2>4. GenInv'
    BY <1>2, <2>a DEF GenInv
  <2>5. OutboxInv'
    <3>1. Busy => holder \in Calls /\ call'[holder] = call[holder]
      BY <1>2, <2>a DEF Busy, LockInv
    <3> QED BY <1>2, <3>1 DEF OutboxInv, Busy, Fresh, Active
  <2>6. PeerInv'
    BY <1>2 DEF PeerInv, BrowserKnowsShot, GateOpen
  <2> QED BY <2>1, <2>2, <2>3, <2>4, <2>5, <2>6
<1> QED BY <1>1, <1>2

LEMMA DeliveredInv ==
  ASSUME Inv, NEW c \in Calls, Delivered(c)
  PROVE  Inv'
<1> USE DEF Inv, TypeOK
<1>1. /\ holder = c /\ outbox \in Event /\ peer' = Accepted /\ call[c].op \in Ops
      /\ outbox.shot = tp.shot /\ outbox.seq = sm.seq
      /\ UNCHANGED <<sm, waiters, call, result>>
  BY NoneAssumption DEF Delivered, LockInv, OutboxInv, PeerInv, Busy
<1>2. peer' \in Peer /\ peer'.seq = sm.seq
      /\ peer'.shot = IF Reliable(outbox) THEN tp.shot ELSE peer.shot
  BY <1>1 DEF Accepted, Peer, Event
<1>3. CASE call[c].op = "frame" /\ Reliable(outbox) /\ Observe(c)
  <2>0. /\ tp' \in Adapter
        /\ tp'.shot = tp.shot /\ tp'.connected = tp.connected /\ tp'.closed = tp.closed
        /\ tp'.conn = tp.conn /\ tp'.shots = tp.shots /\ tp'.frames = tp.frames + 1
    BY <1>3 DEF Observe, Adapter
  <2>a. /\ snap' \in [Calls -> Gens]
        /\ snap'[c].shots = tp.shots /\ snap'[c].frames = tp.frames + 1
        /\ \A d \in Calls \ {c} : snap'[d] = snap[d]
    BY <1>3 DEF Observe, Adapter, Gens
  <2>b. holder' = None /\ outbox' = None /\ pc' = [pc EXCEPT ![c] = "inferring"]
    BY <1>3 DEF Observe
  <2>c. call[c].shot = tp.shot /\ tp.connected
    BY <1>1, <1>3, NoneAssumption DEF OutboxInv, Busy, Reliable
  <2>1. TypeOK'
    BY <1>1, <1>2, <2>0, <2>a, <2>b DEF PCs
  <2>2. LockInv'
    BY <1>1, <2>b, NoneAssumption DEF LockInv
  <2>3. CallInv'
    BY <1>1, <1>3, <2>a, <2>b DEF LockInv, CallInv, Thinking, Final, Adapter
  <2>4. GenInv'
    BY <1>1, <2>0, <2>a, <2>c, <2>1, ObserveGens
  <2>5. OutboxInv'
    BY <2>b DEF OutboxInv, Busy
  <2>6. PeerInv'
    BY <1>1, <1>2, <1>3, <2>0, <2>b DEF PeerInv, BrowserKnowsShot, GateOpen, Machine
  <2> QED BY <2>1, <2>2, <2>3, <2>4, <2>5, <2>6
<1>4. CASE /\ Leave(c, "returned") /\ UNCHANGED snap
           /\ ~(call[c].op = "frame" /\ Reliable(outbox))
           /\ tp' = IF call[c].op = "reconnect" THEN [tp EXCEPT !.connected = TRUE] ELSE tp
  <2>0. /\ tp' \in Adapter
        /\ tp'.shot = tp.shot /\ tp'.closed = tp.closed
        /\ tp'.shots = tp.shots /\ tp'.frames = tp.frames
        /\ tp'.connected = (tp.connected \/ call[c].op = "reconnect")
    BY <1>4 DEF Adapter
  <2>b. holder' = None /\ outbox' = None /\ pc' = [pc EXCEPT ![c] = "returned"]
    BY <1>4 DEF Leave
  <2>1. TypeOK'
    BY <1>1, <1>2, <1>4, <2>0, <2>b DEF PCs, Final
  <2>2. LockInv'
    BY <1>1, <2>b, NoneAssumption DEF LockInv
  <2>3. CallInv'
    BY <1>1, <1>4, <2>b DEF LockInv, CallInv, Thinking, Final
  <2>4. GenInv'
    BY <1>1, <1>4, <2>0 DEF GenInv
  <2>5. OutboxInv'
    BY <2>b DEF OutboxInv, Busy
  <2>6. PeerInv'
    BY <1>1, <1>2, <2>0, <2>b, NoneAssumption
    DEF PeerInv, BrowserKnowsShot, GateOpen, OutboxInv, Busy, Reliable, Machine
  <2> QED BY <2>1, <2>2, <2>3, <2>4, <2>5, <2>6
<1> QED BY <1>3, <1>4 DEF Delivered

LEMMA UndeliveredInv ==
  ASSUME Inv, NEW c \in Calls, Undelivered(c)
  PROVE  Inv'
<1> USE DEF Inv, TypeOK
<1>1. /\ holder = c /\ outbox \in Event /\ outbox.seq = sm.seq
      /\ holder' = None /\ outbox' = None /\ pc' = [pc EXCEPT ![c] = "failed"]
      /\ UNCHANGED <<sm, waiters, call, snap, result>>
  BY NoneAssumption DEF Undelivered, Leave, LockInv, OutboxInv, Busy
<1>2. /\ peer' \in Peer /\ peer'.seq <= sm.seq
      /\ Reliable(outbox) \/ peer'.shot = peer.shot
  BY <1>1 DEF Undelivered, Accepted, Peer, Event, Machine, PeerInv
<1>3. /\ tp' \in Adapter
      /\ tp'.shot = tp.shot /\ tp'.closed = tp.closed
      /\ tp'.shots = tp.shots
      /\ IF Reliable(outbox) THEN ~tp'.connected /\ tp'.frames = tp.frames + 1
                             ELSE tp' = tp
  BY AdapterTypes DEF Undelivered, Fenced, Adapter
<1>4. TypeOK'
  BY <1>1, <1>2, <1>3 DEF PCs, Final
<1>5. LockInv'
  BY <1>1, NoneAssumption DEF LockInv
<1>6. CallInv'
  BY <1>1 DEF LockInv, CallInv, Thinking, Final
<1>7. GenInv'
  BY <1>1, <1>3 DEF GenInv, Adapter, Gens
<1>8. OutboxInv'
  BY <1>1 DEF OutboxInv, Busy
<1>9. PeerInv'
  BY <1>1, <1>2, <1>3, NoneAssumption DEF PeerInv, BrowserKnowsShot, GateOpen, OutboxInv, Busy, Reliable
<1> QED BY <1>4, <1>5, <1>6, <1>7, <1>8, <1>9

(* A call ends without touching the adapter. *)
LEMMA AbandonInv ==
  ASSUME Inv, NEW c \in Calls,
         InferenceFails(c) \/ CancelWait(c)
  PROVE  Inv'
<1> USE DEF Inv, TypeOK
<1>1. /\ pc[c] \notin {"publishing", "idle"} \cup Final
      /\ pc' = [pc EXCEPT ![c] = "failed"]
      /\ UNCHANGED <<sm, tp, holder, outbox, call, snap, result, peer>>
  BY DEF InferenceFails, CancelWait, Final
<1>2. waiters' \in Seq(Calls)
  <2>1. CASE CancelWait(c)
    <3>1. PICK k \in 1..Len(waiters) :
            waiters' = SubSeq(waiters, 1, k - 1) \o SubSeq(waiters, k + 1, Len(waiters))
      BY <2>1 DEF CancelWait
    <3>2. SubSeq(waiters, 1, k - 1) \in Seq(Calls)
      OBVIOUS
    <3>3. SubSeq(waiters, k + 1, Len(waiters)) \in Seq(Calls)
      OBVIOUS
    <3> QED BY <3>1, <3>2, <3>3
  <2> QED BY <2>1 DEF InferenceFails
<1>4. TypeOK'
  BY <1>1, <1>2 DEF PCs, Final
<1>5. LockInv'
  BY <1>1 DEF LockInv
<1>6. CallInv'
  BY <1>1 DEF CallInv, Thinking, Final
<1>7. GenInv'
  BY <1>1 DEF GenInv
<1>8. OutboxInv'
  BY <1>1 DEF OutboxInv, Busy, Fresh, Active
<1>9. PeerInv'
  BY <1>1 DEF PeerInv, BrowserKnowsShot, GateOpen
<1> QED BY <1>4, <1>5, <1>6, <1>7, <1>8, <1>9

LEMMA BeginInv ==
  ASSUME Inv, NEW c \in Calls, NEW op \in Ops, NEW s \in Shot0,
         op \in {"set_shot", "frame"} => s \in Shots,
         Begin(c, op, s)
  PROVE  Inv'
<1>1. CASE LockFree /\ Section(c, op, s) /\ UNCHANGED waiters
  <2>1. Granted(c, op, s)
    BY <1>1 DEF Begin, Granted, LockFree, Inv, TypeOK
  <2> QED BY <1>1, <2>1, SectionInv
<1>2. CASE Enqueue(c, "waiting")
  BY <1>2, EnqueueInv DEF Begin
<1> QED BY <1>1, <1>2 DEF Begin

LEMMA AnswerInv ==
  ASSUME Inv, NEW c \in Calls, NEW code \in Code0, Answer(c, code)
  PROVE  Inv'
<1>1. result' \in [Calls -> Code0]
  BY DEF Answer, Inv, TypeOK
<1>2. CASE LockFree /\ SettleSection(c, code) /\ UNCHANGED waiters
  <2>1. Settling(c, code)
    BY <1>1, <1>2 DEF Answer, Settling, LockFree, Inv, TypeOK, Thinking
  <2> QED BY <1>2, <2>1, SettleInv
<1>3. CASE Enqueue(c, "settling")
  BY <1>1, <1>3, EnqueueInv DEF Answer
<1> QED BY <1>2, <1>3 DEF Answer

LEMMA GrantedAgain ==
  ASSUME Inv, NEW c \in Calls, Grant(c), pc[c] = "waiting"
  PROVE  Granted(c, call[c].op, call[c].shot)
<1>1. call' = [call EXCEPT ![c] = [op |-> call[c].op, shot |-> call[c].shot]]
  BY DEF Grant, Inv, TypeOK
<1>2. waiters' \in Seq(Calls)
  BY DEF Grant, Inv, TypeOK
<1> QED BY <1>1, <1>2 DEF Grant, Granted, Inv, TypeOK, CallInv

LEMMA GrantInv ==
  ASSUME Inv, NEW c \in Calls, Grant(c)
  PROVE  Inv'
<1>1. waiters' \in Seq(Calls)
  BY DEF Grant, Inv, TypeOK
<1>2. CASE pc[c] = "waiting" /\ Section(c, call[c].op, call[c].shot)
  BY <1>2, GrantedAgain, SectionInv
<1>3. CASE pc[c] = "settling" /\ SettleSection(c, result[c])
  <2>1. Settling(c, result[c])
    BY <1>1, <1>3 DEF Grant, Settling, Thinking, Inv, TypeOK
  <2> QED BY <1>3, <2>1, SettleInv
<1> QED BY <1>2, <1>3 DEF Grant

-----------------------------------------------------------------------------
(* Safety *)

LEMMA InitInv == Init => Inv
<1> SUFFICES ASSUME Init PROVE Inv
  OBVIOUS
<1>1. TypeOK
  BY DEF Init, TypeOK, Machine, Adapter, Gens, Peer, PCs, Ops, Shot0, Code0
<1>2. LockInv
  BY NoneAssumption DEF Init, LockInv
<1>3. CallInv /\ OutboxInv
  BY DEF Init, CallInv, OutboxInv, Busy, Thinking
<1>4. GenInv
  BY DEF Init, GenInv
<1>5. PeerInv
  BY DEF Init, PeerInv, BrowserKnowsShot, GateOpen
<1> QED BY <1>1, <1>2, <1>3, <1>4, <1>5 DEF Inv

LEMMA NextInv == Inv /\ [Next]_vars => Inv'
<1> SUFFICES ASSUME Inv, [Next]_vars PROVE Inv'
  OBVIOUS
<1>1. ASSUME NEW c \in Calls, Request(c) PROVE Inv'
  <2>1. ASSUME NEW s \in Shots, NEW op \in {"set_shot", "frame"}, Begin(c, op, s)
        PROVE  Inv'
    BY <2>1, BeginInv DEF Ops, Shot0
  <2>2. ASSUME NEW op \in {"resync", "disconnect", "reconnect", "close"},
               Begin(c, op, None)
        PROVE  Inv'
    BY <2>2, BeginInv DEF Ops, Shot0
  <2> QED BY <1>1, <2>1, <2>2 DEF Request
<1>2. ASSUME NEW c \in Calls, Resume(c) PROVE Inv'
  BY <1>2, GrantInv, DeliveredInv, UndeliveredInv DEF Resume
<1>3. ASSUME NEW c \in Calls, Conclude(c) PROVE Inv'
  BY <1>3, AbandonInv, AnswerInv DEF Conclude
<1>4. ASSUME NEW c \in Calls, CancelWait(c) PROVE Inv'
  BY <1>4, AbandonInv
<1>5. CASE UNCHANGED vars
  <2>1. TypeOK' /\ LockInv' /\ CallInv' /\ GenInv'
    BY <1>5 DEF vars, Inv, TypeOK, LockInv, CallInv, GenInv, Reliable
  <2>2. OutboxInv' /\ PeerInv'
    BY <1>5 DEF vars, Inv, OutboxInv, PeerInv, BrowserKnowsShot, GateOpen, Busy, Fresh, Active
  <2> QED BY <2>1, <2>2 DEF Inv
<1> QED BY <1>1, <1>2, <1>3, <1>4, <1>5 DEF Next

THEOREM Invariance == Spec => []Inv
BY InitInv, NextInv, PTL DEF Spec

(* The fields of the adapter and of the state machine keep their types     *)
(* through every overlap of calls.                                          *)
THEOREM TypeCorrectness == Spec => []TypeOK
<1>1. Inv => TypeOK
  BY DEF Inv
<1> QED BY <1>1, Invariance, PTL

(* Whenever advice may be published, the browser's last reliable packet     *)
(* named the shot that the adapter and the state machine hold.              *)
THEOREM BrowserIsTold == Spec => []BrowserKnowsShot
<1>1. Inv => BrowserKnowsShot
  BY DEF Inv, PeerInv
<1> QED BY <1>1, Invariance, PTL

-----------------------------------------------------------------------------
(* The dedup key and the snapshot *)

(* What a step may do to the state machine. *)
LEMMA MachineSteps ==
  ASSUME Inv, [Next]_vars
  PROVE  \/ sm' = sm \/ sm' = Resync
         \/ \E s \in Shot0 : sm' = SelectShot(s)
         \/ \E s \in Shot0, code \in Code0 : sm' = Emit(s, code)
<1> DEFINE Known == \/ sm' = sm \/ sm' = Resync
                    \/ \E s \in Shot0 : sm' = SelectShot(s)
                    \/ \E s \in Shot0, code \in Code0 : sm' = Emit(s, code)
<1>1. ASSUME NEW c \in Calls, NEW op, NEW s \in Shot0, Section(c, op, s) PROVE Known
  BY <1>1, SectionCases
  DEF SectionChanges, ChangeShot, SectionObserves, SectionSnapshots, SectionReconnects,
      SectionFences, SectionLeaves, Publish
<1>2. ASSUME NEW c \in Calls, NEW code \in Code0, SettleSection(c, code) PROVE Known
  BY <1>2 DEF SettleSection, Publish, Inv, TypeOK
<1>3. ASSUME NEW c \in Calls, NEW op, NEW s \in Shot0, Begin(c, op, s) PROVE Known
  BY <1>1, <1>3 DEF Begin, Enqueue
<1>4. ASSUME NEW c \in Calls, Request(c) PROVE Known
  BY <1>3, <1>4 DEF Request, Shot0
<1>5. ASSUME NEW c \in Calls, Resume(c) PROVE Known
  <2>1. CASE Grant(c)
    BY <1>1, <1>2, <2>1 DEF Grant, Inv, TypeOK
  <2> QED BY <1>5, <2>1 DEF Resume, Delivered, Undelivered
<1>6. ASSUME NEW c \in Calls, Conclude(c) PROVE Known
  BY <1>2, <1>6 DEF Conclude, InferenceFails, Answer, Enqueue
<1>7. ASSUME NEW c \in Calls, CancelWait(c) PROVE Known
  BY <1>7 DEF CancelWait
<1> QED BY <1>4, <1>5, <1>6, <1>7 DEF Next, vars

(* Advice withheld as a duplicate is always in the next resync snapshot.    *)
THEOREM SuppressedIsKnown == Spec => []SuppressedAdviceIsInSnapshot
<1>1. Init => SuppressedAdviceIsInSnapshot
  BY DEF Init, SuppressedAdviceIsInSnapshot
<1>2. Inv /\ SuppressedAdviceIsInSnapshot /\ [Next]_vars => SuppressedAdviceIsInSnapshot'
  <2> SUFFICES ASSUME Inv, SuppressedAdviceIsInSnapshot, [Next]_vars
               PROVE  SuppressedAdviceIsInSnapshot'
    OBVIOUS
  <2>1. CASE sm' = sm
    BY <2>1 DEF SuppressedAdviceIsInSnapshot
  <2>2. CASE sm' = Resync
    BY <2>2 DEF Resync, SuppressedAdviceIsInSnapshot, Inv, TypeOK, Machine
  <2>3. ASSUME NEW s \in Shot0, sm' = SelectShot(s) PROVE SuppressedAdviceIsInSnapshot'
    BY <2>3 DEF SelectShot, SuppressedAdviceIsInSnapshot
  <2>4. ASSUME NEW s \in Shot0, NEW code \in Code0, sm' = Emit(s, code)
        PROVE  SuppressedAdviceIsInSnapshot'
    BY <2>4 DEF Emit, SuppressedAdviceIsInSnapshot
  <2> QED BY <2>1, <2>2, <2>3, <2>4, MachineSteps
<1> QED BY <1>1, <1>2, Invariance, PTL DEF Spec

-----------------------------------------------------------------------------
(* The lock's queue *)

Waits(c) == pc[c] \in {"waiting", "settling"}
Places == PCs \ {"idle", "waiting", "settling"}

(* The queue holds exactly the calls that wait, each of them once.          *)
LineInv ==
  /\ \A i \in 1..Len(waiters) : Waits(waiters[i])
  /\ \A i, j \in 1..Len(waiters) : waiters[i] = waiters[j] => i = j
  /\ \A c \in Calls : Waits(c) => \E i \in 1..Len(waiters) : waiters[i] = c

(* A call that does not wait goes on to another place outside the queue.    *)
PassesBy(c) ==
  /\ waiters' = waiters
  /\ ~Waits(c)
  /\ \E where \in Places : pc' = [pc EXCEPT ![c] = where]

LEMMA PassesByLine ==
  ASSUME Inv, LineInv, NEW c \in Calls, PassesBy(c)
  PROVE  LineInv'
BY DEF Inv, TypeOK, LineInv, PassesBy, Waits, Places

LEMMA SectionPlace ==
  ASSUME NEW c \in Calls, NEW op, NEW s, Section(c, op, s)
  PROVE  \E where \in Places : pc' = [pc EXCEPT ![c] = where]
BY SectionCases
DEF SectionChanges, ChangeShot, SectionObserves, Observe, SectionSnapshots, SectionReconnects,
    SectionFences, SectionLeaves, Leave, Publish, Places, PCs, Final

LEMMA SettlePlace ==
  ASSUME NEW c \in Calls, NEW code, SettleSection(c, code)
  PROVE  \E where \in Places : pc' = [pc EXCEPT ![c] = where]
BY DEF SettleSection, Leave, Publish, Places, PCs, Final

LEMMA EnqueueLine ==
  ASSUME Inv, LineInv, NEW c \in Calls, ~Waits(c),
         NEW where \in {"waiting", "settling"}, Enqueue(c, where)
  PROVE  LineInv'
<1>1. /\ Len(waiters') = Len(waiters) + 1
      /\ \A i \in 1..Len(waiters) : waiters'[i] = waiters[i]
      /\ waiters'[Len(waiters) + 1] = c
      /\ Len(waiters) \in Nat
  BY DEF Enqueue, Inv, TypeOK
<1>2. \A d \in Calls : pc'[d] = IF d = c THEN where ELSE pc[d]
  BY DEF Enqueue, Inv, TypeOK
<1>3. \A i \in 1..Len(waiters) : waiters[i] \in Calls /\ waiters[i] # c
  BY DEF Inv, TypeOK, LineInv
<1> QED BY <1>1, <1>2, <1>3 DEF LineInv, Waits

(* Element k leaves the queue, for another place.                           *)
Departs(c, k) ==
  /\ k \in 1..Len(waiters) /\ waiters[k] = c
  /\ Len(waiters') = Len(waiters) - 1
  /\ \A i \in 1..Len(waiters') : waiters'[i] = IF i < k THEN waiters[i] ELSE waiters[i + 1]
  /\ \E where \in Places : pc' = [pc EXCEPT ![c] = where]

LEMMA DepartsLine ==
  ASSUME Inv, LineInv, NEW c \in Calls, NEW k, Departs(c, k)
  PROVE  LineInv'
<1>1. Len(waiters) \in Nat /\ \A i \in 1..Len(waiters) : waiters[i] \in Calls
  BY DEF Inv, TypeOK
<1>2. \A i \in 1..Len(waiters') : \E j \in 1..Len(waiters) :
        j # k /\ waiters'[i] = waiters[j]
  <2> SUFFICES ASSUME NEW i \in 1..Len(waiters')
               PROVE  \E j \in 1..Len(waiters) : j # k /\ waiters'[i] = waiters[j]
    OBVIOUS
  <2>1. CASE i < k
    BY <1>1, <2>1 DEF Departs
  <2>2. CASE ~(i < k)
    <3>1. i + 1 \in 1..Len(waiters) /\ i + 1 # k /\ waiters'[i] = waiters[i + 1]
      BY <1>1, <2>2 DEF Departs
    <3> QED BY <3>1
  <2> QED BY <2>1, <2>2
<1>3. \A j \in 1..Len(waiters) : j # k => \E i \in 1..Len(waiters') : waiters'[i] = waiters[j]
  <2> SUFFICES ASSUME NEW j \in 1..Len(waiters), j # k
               PROVE  \E i \in 1..Len(waiters') : waiters'[i] = waiters[j]
    OBVIOUS
  <2>1. CASE j < k
    BY <1>1, <2>1 DEF Departs
  <2>2. CASE j > k
    <3>1. j - 1 \in 1..Len(waiters') /\ ~(j - 1 < k)
      BY <1>1, <2>2 DEF Departs
    <3>2. waiters'[j - 1] = waiters[(j - 1) + 1] /\ (j - 1) + 1 = j
      BY <1>1, <3>1 DEF Departs
    <3> QED BY <3>1, <3>2
  <2> QED BY <1>1, <2>1, <2>2 DEF Departs
<1>4. \A d \in Calls \ {c} : pc'[d] = pc[d]
  BY DEF Departs, Inv, TypeOK
<1>5. ~Waits(c)'
  BY DEF Departs, Waits, Inv, TypeOK, Places
<1>6. \A j \in 1..Len(waiters) : j # k => waiters[j] # c
  BY <1>1 DEF Departs, LineInv
<1>8. (\A i \in 1..Len(waiters) : Waits(waiters[i]))'
  <2> SUFFICES ASSUME NEW i \in 1..Len(waiters') PROVE Waits(waiters[i])'
    OBVIOUS
  <2>1. PICK j \in 1..Len(waiters) : j # k /\ waiters'[i] = waiters[j]
    BY <1>2
  <2>2. waiters[j] \in Calls \ {c} /\ Waits(waiters[j])
    BY <1>1, <1>6, <2>1 DEF LineInv
  <2> QED BY <1>4, <2>1, <2>2 DEF Waits
<1>9. (\A i, j \in 1..Len(waiters) : waiters[i] = waiters[j] => i = j)'
  BY <1>1 DEF LineInv, Departs
<1>10. (\A d \in Calls : Waits(d) => \E i \in 1..Len(waiters) : waiters[i] = d)'
  <2> SUFFICES ASSUME NEW d \in Calls, Waits(d)'
               PROVE  \E i \in 1..Len(waiters') : waiters'[i] = d
    OBVIOUS
  <2>1. d # c /\ Waits(d)
    BY <1>4, <1>5 DEF Waits
  <2>2. PICK j \in 1..Len(waiters) : waiters[j] = d
    BY <2>1 DEF LineInv
  <2> QED BY <1>3, <2>1, <2>2 DEF Departs
<1> QED BY <1>8, <1>9, <1>10 DEF LineInv

LEMMA GrantDeparts ==
  ASSUME Inv, NEW c \in Calls, Grant(c)
  PROVE  Departs(c, 1)
<1>1. waiters \in Seq(Calls) /\ waiters # << >> /\ waiters' = Tail(waiters) /\ c = waiters[1]
  BY DEF Grant, Inv, TypeOK
<1>2. /\ 1 \in 1..Len(waiters) /\ Len(waiters') = Len(waiters) - 1
      /\ \A i \in 1..Len(waiters') : waiters'[i] = waiters[i + 1]
  BY <1>1
<1>3. \E where \in Places : pc' = [pc EXCEPT ![c] = where]
  BY SectionPlace, SettlePlace DEF Grant
<1>4. \A i \in 1..Len(waiters') : ~(i < 1)
  BY <1>1
<1> QED BY <1>1, <1>2, <1>3, <1>4 DEF Departs

LEMMA CancelDeparts ==
  ASSUME Inv, NEW c \in Calls, CancelWait(c)
  PROVE  \E k : Departs(c, k)
<1>1. PICK k \in 1..Len(waiters) :
        /\ waiters[k] = c
        /\ waiters' = SubSeq(waiters, 1, k - 1) \o SubSeq(waiters, k + 1, Len(waiters))
  BY DEF CancelWait
<1>2. waiters \in Seq(Calls) /\ Len(waiters) \in Nat
  BY DEF Inv, TypeOK
<1> DEFINE before == SubSeq(waiters, 1, k - 1)
           after == SubSeq(waiters, k + 1, Len(waiters))
<1>3. before \in Seq(Calls) /\ Len(before) = k - 1 /\ \A i \in 1..(k - 1) : before[i] = waiters[i]
  BY <1>2
<1>4. /\ after \in Seq(Calls) /\ Len(after) = Len(waiters) - k
      /\ \A i \in 1..(Len(waiters) - k) : after[i] = waiters[i + k]
  BY <1>2
<1>5. waiters' = before \o after
  BY <1>1
<1> HIDE DEF before, after
<1>6. /\ Len(waiters') = Len(waiters) - 1
      /\ \A i \in 1..Len(waiters') :
           waiters'[i] = IF i < k THEN before[i] ELSE after[i - (k - 1)]
  BY <1>2, <1>3, <1>4, <1>5
<1>7. \A i \in 1..Len(waiters') : waiters'[i] = IF i < k THEN waiters[i] ELSE waiters[i + 1]
  <2> SUFFICES ASSUME NEW i \in 1..Len(waiters')
               PROVE  waiters'[i] = IF i < k THEN waiters[i] ELSE waiters[i + 1]
    OBVIOUS
  <2>1. CASE i < k
    BY <1>2, <1>3, <1>6, <2>1
  <2>2. CASE ~(i < k)
    <3>1. i - (k - 1) \in 1..(Len(waiters) - k) /\ (i - (k - 1)) + k = i + 1
      BY <1>2, <1>6, <2>2
    <3>2. after[i - (k - 1)] = waiters[(i - (k - 1)) + k]
      BY <1>4, <3>1
    <3> QED BY <1>6, <2>2, <3>1, <3>2
  <2> QED BY <2>1, <2>2
<1> QED BY <1>1, <1>6, <1>7 DEF Departs, CancelWait, Places, PCs, Final

LEMMA LineStep == Inv /\ LineInv /\ [Next]_vars => LineInv'
<1> SUFFICES ASSUME Inv, LineInv, [Next]_vars PROVE LineInv'
  OBVIOUS
<1>1. ASSUME NEW c \in Calls, NEW op, NEW s, Begin(c, op, s) PROVE LineInv'
  <2>1. ~Waits(c)
    BY <1>1 DEF Begin, Waits
  <2>2. CASE LockFree /\ Section(c, op, s) /\ UNCHANGED waiters
    BY <2>1, <2>2, SectionPlace, PassesByLine DEF PassesBy
  <2> QED BY <1>1, <2>1, <2>2, EnqueueLine DEF Begin
<1>2. ASSUME NEW c \in Calls, NEW code, Answer(c, code) PROVE LineInv'
  <2>1. ~Waits(c)
    BY <1>2 DEF Answer, Waits
  <2>2. CASE LockFree /\ SettleSection(c, code) /\ UNCHANGED waiters
    BY <2>1, <2>2, SettlePlace, PassesByLine DEF PassesBy
  <2> QED BY <1>2, <2>1, <2>2, EnqueueLine DEF Answer
<1>3. ASSUME NEW c \in Calls, Grant(c) \/ CancelWait(c) PROVE LineInv'
  BY <1>3, GrantDeparts, CancelDeparts, DepartsLine
<1>4. ASSUME NEW c \in Calls, Delivered(c) \/ Undelivered(c) \/ InferenceFails(c) PROVE LineInv'
  <2>1. PassesBy(c)
    BY <1>4 DEF Delivered, Undelivered, InferenceFails, PassesBy, Waits, Observe, Leave, Places, PCs, Final
  <2> QED BY <2>1, PassesByLine
<1>5. CASE UNCHANGED vars
  BY <1>5 DEF vars, LineInv, Waits
<1> QED BY <1>1, <1>2, <1>3, <1>4, <1>5 DEF Next, Request, Resume, Conclude

LEMMA LineAlways == Spec => []LineInv
<1>1. Init => LineInv
  BY DEF Init, LineInv, Waits
<1> QED BY <1>1, LineStep, Invariance, PTL DEF Spec

(* While any call is unfinished, some call has its next step to take: the   *)
(* one inside publish_data, one that waits for the provider, or the first   *)
(* in the queue of a lock that is free.                                     *)
SomeoneGoesOn ==
  (\E c \in Calls : pc[c] \notin Final \cup {"idle"}) =>
    \E c \in Calls :
      \/ pc[c] \in {"publishing", "inferring"}
      \/ holder = None /\ waiters # << >> /\ Head(waiters) = c /\ Waits(c)

(* No call is forgotten: whatever fails or is cancelled, the lock's queue   *)
(* holds exactly the calls that wait and the lock is never held by a call   *)
(* that ended.  This is the safety part of EveryCallEnds.                   *)
THEOREM NobodyIsForgotten == Spec => [](LineInv /\ SomeoneGoesOn)
<1>1. Inv /\ LineInv => SomeoneGoesOn
  <2> SUFFICES ASSUME Inv, LineInv, NEW c \in Calls, pc[c] \notin Final \cup {"idle"}
               PROVE  \E d \in Calls :
                        \/ pc[d] \in {"publishing", "inferring"}
                        \/ holder = None /\ waiters # << >> /\ Head(waiters) = d /\ Waits(d)
    BY DEF SomeoneGoesOn
  <2>1. CASE holder # None
    BY <2>1 DEF Inv, TypeOK, LockInv
  <2>2. CASE holder = None /\ Waits(c)
    <3>1. waiters \in Seq(Calls) /\ \E i \in 1..Len(waiters) : waiters[i] = c
      BY <2>2 DEF Inv, TypeOK, LineInv
    <3>2. waiters # << >> /\ Head(waiters) = waiters[1] /\ 1 \in 1..Len(waiters)
      BY <3>1
    <3> QED BY <2>2, <3>1, <3>2 DEF LineInv
  <2>3. CASE ~Waits(c)
    BY <2>3 DEF Inv, TypeOK, PCs, Waits
  <2> QED BY <2>1, <2>2, <2>3
<1> QED BY <1>1, LineAlways, Invariance, PTL
=============================================================================
