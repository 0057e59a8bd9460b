------------------------- MODULE GuidanceTransport -------------------------
(***************************************************************************)
(* GuidanceTransportAdapter (backend/guidance_transport.py) over           *)
(* GuidanceStateMachine (backend/guidance_state_machine.py).               *)
(*                                                                         *)
(* Every element of Calls is one coroutine call of the adapter's interface.*)
(* A call runs without interleaving between two awaits; it can wait at     *)
(* the FIFO asyncio.Lock, inside publish_data while it holds that lock,    *)
(* and inside the provider's inference, which runs without the lock.       *)
(***************************************************************************)
EXTENDS Naturals, Sequences

CONSTANTS Calls,    \* coroutine calls
          Shots,    \* GuidanceShot
          Codes,    \* GuidanceCode
          None      \* Python's None

VARIABLES sm,       \* the state machine: sequence, shot, code, dedup key
          tp,       \* the adapter's fields
          holder,   \* the call that holds the lock, or None
          waiters,  \* the lock's FIFO of waiting calls
          outbox,   \* the event inside publish_data, or None
          pc,       \* where each call is
          call,     \* the operation of each call and its shot argument
          snap,     \* the generations a frame read before its inference
          result,   \* what the inference of a frame returned
          peer      \* what the accepted packets have told the browser

vars == <<sm, tp, holder, waiters, outbox, pc, call, snap, result, peer>>

-----------------------------------------------------------------------------
(* Types *)

Ops == {"set_shot", "resync", "frame", "disconnect", "reconnect", "close"}
Final == {"returned", "failed"}
PCs == {"idle", "waiting", "publishing", "inferring", "settling"} \cup Final

Shot0 == Shots \cup {None}
Code0 == Codes \cup {None}

Machine == [seq : Nat, shot : Shot0, code : Code0,
            key : (Shots \X Codes) \cup {None}]
Adapter == [shot : Shot0, connected : BOOLEAN, closed : BOOLEAN,
            conn : Nat, shots : Nat, frames : Nat]
Gens == [conn : Nat, shots : Nat, frames : Nat]
Event == [kind : {"shot_changed", "resync", "advice"}, seq : Nat,
          shot : Shot0, code : Code0]
Peer == [seq : Nat, shot : Shot0]

ASSUME NoneAssumption == None \notin Calls \cup Shots \cup Codes /\ None \notin Event

TypeOK ==
  /\ sm \in Machine
  /\ tp \in Adapter
  /\ holder \in Calls \cup {None}
  /\ waiters \in Seq(Calls)
  /\ outbox \in Event \cup {None}
  /\ pc \in [Calls -> PCs]
  /\ call \in [Calls -> [op : Ops, shot : Shot0]]
  /\ snap \in [Calls -> Gens]
  /\ result \in [Calls -> Code0]
  /\ peer \in Peer

Init ==
  /\ sm = [seq |-> 0, shot |-> None, code |-> None, key |-> None]
  /\ tp = [shot |-> None, connected |-> TRUE, closed |-> FALSE,
           conn |-> 0, shots |-> 0, frames |-> 0]
  /\ holder = None
  /\ waiters = << >>
  /\ outbox = None
  /\ pc = [c \in Calls |-> "idle"]
  /\ call = [c \in Calls |-> [op |-> "resync", shot |-> None]]
  /\ snap = [c \in Calls |-> [conn |-> 0, shots |-> 0, frames |-> 0]]
  /\ result = [c \in Calls |-> None]
  /\ peer = [seq |-> 0, shot |-> None]

-----------------------------------------------------------------------------
(* GuidanceStateMachine: each transition allocates one sequence number. *)

(* Variant: the dedup key survives a change of shot. *)
SelectShotKeepingKey(s) ==
  [seq |-> sm.seq + 1, shot |-> s,
   code |-> IF s = sm.shot THEN sm.code ELSE None, key |-> sm.key]

SelectShot(s) ==
  [seq  |-> sm.seq + 1,
   shot |-> s,
   code |-> IF s = sm.shot THEN sm.code ELSE None,
   key  |-> IF s = sm.shot THEN sm.key ELSE None]

Resync == [sm EXCEPT !.seq = @ + 1]

(* Variant: advice is deduplicated by its code alone. *)
EmitKeyedByCode(s, code) == [seq |-> sm.seq + 1, shot |-> s, code |-> code, key |-> code]

Emit(s, code) == [seq |-> sm.seq + 1, shot |-> s, code |-> code, key |-> <<s, code>>]

-----------------------------------------------------------------------------
(* Helper state formulae *)

Active == tp.connected /\ ~tp.closed            \* _require_active passes
LockFree == holder = None /\ waiters = << >>    \* acquire() does not suspend
Reliable(e) == e.kind # "advice"

(* The adapter cut off from its Room, and from every inference under way. *)
Fenced(closed) ==
  [shot |-> tp.shot, connected |-> FALSE, closed |-> closed,
   conn |-> tp.conn + 1, shots |-> tp.shots, frames |-> tp.frames + 1]

(* The adapter committed to another shot. *)
Showing(s) ==
  [shot |-> s, connected |-> tp.connected, closed |-> tp.closed,
   conn |-> tp.conn, shots |-> tp.shots + 1, frames |-> tp.frames]

(* Variant: only the shot itself is compared, not how often it was selected. *)
FreshByShotName(c) ==
  /\ Active
  /\ snap[c].conn = tp.conn /\ snap[c].frames = tp.frames
  /\ call[c].shot = tp.shot

(* The six conditions under which an inference result is discarded. *)
Fresh(c) ==
  /\ Active
  /\ snap[c].conn = tp.conn
  /\ snap[c].shots = tp.shots
  /\ snap[c].frames = tp.frames
  /\ call[c].shot = tp.shot

(* Variant: an exception leaves the lock held. *)
LeaveHoldingLock(c, how) ==
  /\ holder' = IF how = "failed" THEN c ELSE None
  /\ pc' = [pc EXCEPT ![c] = how]
  /\ outbox' = None

(* Leave the critical section and end the call. *)
Leave(c, how) ==
  /\ holder' = None
  /\ pc' = [pc EXCEPT ![c] = how]
  /\ outbox' = None

(* Keep the lock and enter publish_data with the event of m. *)
Publish(c, kind, m) ==
  /\ sm' = m
  /\ holder' = c
  /\ outbox' = [kind |-> kind, seq |-> m.seq, shot |-> m.shot, code |-> m.code]
  /\ pc' = [pc EXCEPT ![c] = "publishing"]

(* Start a new frame generation, remember the three generations, leave the *)
(* lock and call the provider.                                             *)
Observe(c) ==
  /\ tp' = [tp EXCEPT !.frames = @ + 1]
  /\ snap' = [snap EXCEPT ![c] = [conn |-> tp.conn, shots |-> tp.shots,
                                  frames |-> tp.frames + 1]]
  /\ pc' = [pc EXCEPT ![c] = "inferring"]
  /\ holder' = None
  /\ outbox' = None

-----------------------------------------------------------------------------
(* The critical sections, from lock acquisition to the next await *)

ChangeShot(c, s) ==
  /\ tp' = Showing(s)
  /\ Publish(c, "shot_changed", SelectShot(s))
  /\ UNCHANGED snap

SetShotSection(c, s) ==
  \/ /\ Active /\ s # tp.shot
     /\ ChangeShot(c, s)
  \/ /\ Active /\ s = tp.shot
     /\ Leave(c, "returned")
     /\ UNCHANGED <<sm, tp, snap>>

ResyncSection(c) ==
  /\ Active
  /\ Publish(c, "resync", Resync)
  /\ UNCHANGED <<tp, snap>>

FrameSection(c, s) ==
  \/ /\ Active /\ s # tp.shot
     /\ ChangeShot(c, s)
  \/ /\ Active /\ s = tp.shot
     /\ Observe(c)
     /\ UNCHANGED sm

InactiveSection(c, op) ==
  /\ op \in {"set_shot", "resync", "frame"}
  /\ ~Active
  /\ Leave(c, "failed")
  /\ UNCHANGED <<sm, tp, snap>>

DisconnectSection(c) ==
  /\ tp' = IF Active THEN Fenced(FALSE) ELSE tp
  /\ Leave(c, "returned")
  /\ UNCHANGED <<sm, snap>>

(* Variant: a reconnection is refused only while connected. *)
ReconnectSectionAfterClose(c) ==
  \/ /\ tp.connected
     /\ Leave(c, "failed")
     /\ UNCHANGED <<sm, tp, snap>>
  \/ /\ ~tp.connected
     /\ tp' = [tp EXCEPT !.conn = @ + 1]
     /\ Publish(c, "resync", Resync)
     /\ UNCHANGED snap

ReconnectSection(c) ==
  \/ /\ tp.closed \/ tp.connected
     /\ Leave(c, "failed")
     /\ UNCHANGED <<sm, tp, snap>>
  \/ /\ ~tp.closed /\ ~tp.connected
     /\ tp' = [tp EXCEPT !.conn = @ + 1]
     /\ Publish(c, "resync", Resync)
     /\ UNCHANGED snap

CloseSection(c) ==
  /\ tp' = IF tp.closed THEN tp ELSE Fenced(TRUE)
  /\ Leave(c, "returned")
  /\ UNCHANGED <<sm, snap>>

Section(c, op, s) ==
  \/ op = "set_shot" /\ SetShotSection(c, s)
  \/ op = "resync" /\ ResyncSection(c)
  \/ op = "frame" /\ FrameSection(c, s)
  \/ InactiveSection(c, op)
  \/ op = "disconnect" /\ DisconnectSection(c)
  \/ op = "reconnect" /\ ReconnectSection(c)
  \/ op = "close" /\ CloseSection(c)

(* The second critical section of process_frame, with the provider's answer. *)
(* None stands for an answer that validate_vision_decision rejects.          *)
SettleSection(c, code) ==
  /\ UNCHANGED <<tp, snap>>
  /\ \/ /\ Fresh(c) /\ code # None /\ <<call[c].shot, code>> # sm.key
        /\ Publish(c, "advice", Emit(call[c].shot, code))
     \/ /\ Fresh(c) /\ code = None
        /\ Leave(c, "failed")
        /\ UNCHANGED sm
     \/ /\ ~Fresh(c) \/ <<call[c].shot, code>> = sm.key
        /\ Leave(c, "returned")
        /\ UNCHANGED sm

-----------------------------------------------------------------------------
(* The steps of a call *)

Enqueue(c, where) ==
  /\ waiters' = Append(waiters, c)
  /\ pc' = [pc EXCEPT ![c] = where]
  /\ UNCHANGED <<sm, tp, snap, holder, outbox>>

(* A caller awaits an operation; only a free lock is acquired at once. *)
Begin(c, op, s) ==
  /\ pc[c] = "idle"
  /\ call' = [call EXCEPT ![c] = [op |-> op, shot |-> s]]
  /\ \/ LockFree /\ Section(c, op, s) /\ UNCHANGED waiters
     \/ ~LockFree /\ Enqueue(c, "waiting")
  /\ UNCHANGED <<result, peer>>

(* The provider answers; the frame asks for the lock again. *)
Answer(c, code) ==
  /\ pc[c] = "inferring"
  /\ result' = [result EXCEPT ![c] = code]
  /\ \/ LockFree /\ SettleSection(c, code) /\ UNCHANGED waiters
     \/ ~LockFree /\ Enqueue(c, "settling")
  /\ UNCHANGED <<call, peer>>

(* The released lock wakes the call that has waited longest. *)
Grant(c) ==
  /\ holder = None /\ waiters # << >> /\ c = Head(waiters)
  /\ waiters' = Tail(waiters)
  /\ \/ pc[c] = "waiting" /\ Section(c, call[c].op, call[c].shot)
     \/ pc[c] = "settling" /\ SettleSection(c, result[c])
  /\ UNCHANGED <<call, result, peer>>

(* publish_data returns: the packet was accepted. *)
Accepted ==
  [seq |-> outbox.seq, shot |-> IF Reliable(outbox) THEN outbox.shot ELSE peer.shot]

Delivered(c) ==
  /\ pc[c] = "publishing"
  /\ peer' = Accepted
  /\ \/ /\ call[c].op = "frame" /\ Reliable(outbox)
        /\ Observe(c)
     \/ /\ ~(call[c].op = "frame" /\ Reliable(outbox))
        /\ Leave(c, "returned")
        /\ tp' = IF call[c].op = "reconnect" THEN [tp EXCEPT !.connected = TRUE] ELSE tp
        /\ UNCHANGED snap
  /\ UNCHANGED <<sm, waiters, call, result>>

(* Variant: a failed reliable packet does not fence the Room. *)
UndeliveredUnfenced(c) ==
  /\ pc[c] = "publishing"
  /\ Leave(c, "failed")
  /\ peer' \in {peer, Accepted}
  /\ UNCHANGED <<sm, tp, waiters, call, snap, result>>

(* publish_data raises.  A reliable packet may have reached the browser or  *)
(* not, so the adapter fences the Room; a lossy one is only lost.           *)
Undelivered(c) ==
  /\ pc[c] = "publishing"
  /\ Leave(c, "failed")
  /\ tp' = IF Reliable(outbox) THEN Fenced(tp.closed) ELSE tp
  /\ peer' \in {peer, Accepted}
  /\ UNCHANGED <<sm, waiters, call, snap, result>>

(* Inference raises. *)
InferenceFails(c) ==
  /\ pc[c] = "inferring"
  /\ pc' = [pc EXCEPT ![c] = "failed"]
  /\ UNCHANGED <<sm, tp, holder, waiters, outbox, call, snap, result, peer>>

(* The task of a call is cancelled at one of its awaits: a waiting call     *)
(* leaves the lock's queue, an inference is abandoned, and cancellation     *)
(* inside publish_data takes the path of a publisher error.                 *)
CancelWait(c) ==
  /\ pc[c] \in {"waiting", "settling"}
  /\ \E k \in 1..Len(waiters) :
       /\ waiters[k] = c
       /\ waiters' = SubSeq(waiters, 1, k - 1) \o SubSeq(waiters, k + 1, Len(waiters))
  /\ pc' = [pc EXCEPT ![c] = "failed"]
  /\ UNCHANGED <<sm, tp, holder, outbox, call, snap, result, peer>>

Cancel(c) == CancelWait(c) \/ InferenceFails(c) \/ Undelivered(c)

-----------------------------------------------------------------------------
Request(c) ==
  \/ \E s \in Shots, op \in {"set_shot", "frame"} : Begin(c, op, s)
  \/ \E op \in {"resync", "disconnect", "reconnect", "close"} : Begin(c, op, None)

Resume(c) == Grant(c) \/ Delivered(c) \/ Undelivered(c)

Conclude(c) == InferenceFails(c) \/ \E code \in Code0 : Answer(c, code)

Next == \E c \in Calls : Request(c) \/ Resume(c) \/ Conclude(c) \/ CancelWait(c)

Spec == Init /\ [][Next]_vars

-----------------------------------------------------------------------------
(* Properties *)

(* The gate the adapter implements: a shot change in flight shuts it, and   *)
(* the live frame is the one whose answer would still be published.         *)
GateOpen == tp.connected /\ (outbox = None \/ outbox.kind # "shot_changed")

Live(c) ==
  /\ pc[c] \in {"inferring", "settling"} \/ (pc[c] = "publishing" /\ ~Reliable(outbox))
  /\ Fresh(c)

LiveFrame == IF \E c \in Calls : Live(c) THEN CHOOSE c \in Calls : Live(c) ELSE None

Observed == {c \in Calls : snap[c].frames # 0}

Gate == INSTANCE GuidanceGate WITH
  Frames <- Calls,
  open   <- GateOpen,
  ended  <- tp.closed,
  live   <- LiveFrame,
  seen   <- Observed,
  shot   <- peer.shot,
  seq    <- peer.seq

(* Advice is published only over a synchronised connection, for the newest  *)
(* frame, never for one that a disconnect, a reconnect, a shot change, a    *)
(* later frame or close() overtook while the provider was thinking, and     *)
(* sequence numbers only grow (generations of guidance_transport.py).       *)
ImplementsGate == Gate!Spec

(* Whenever advice may be published, the last reliable packet has told the  *)
(* browser the shot that the adapter and the state machine hold, even after *)
(* failed packets and reconnections.                                        *)
BrowserKnowsShot ==
  GateOpen => peer.shot = tp.shot /\ tp.shot = sm.shot

(* The dedup key suppresses exactly the advice that a resync snapshot would *)
(* carry, so no advice is both withheld as a duplicate and absent from the  *)
(* state a reconnecting browser receives.                                   *)
SuppressedAdviceIsInSnapshot ==
  \/ sm.key = None /\ sm.code = None
  \/ sm.key = <<sm.shot, sm.code>>

(* A disconnect or a close that was requested while a packet or another     *)
(* call was in progress does take effect, and every call ends: no call is   *)
(* forgotten in the lock's queue or left inside the adapter.                *)
EveryCallEnds == \A c \in Calls : pc[c] # "idle" ~> pc[c] \in Final
=============================================================================
