---------------------------- MODULE GuidanceGate ----------------------------
(***************************************************************************)
(* What the guidance transport of the live Agent promises to the browser,  *)
(* with no lock, no generation counter and no connection flag.             *)
(*                                                                         *)
(* The gate is open while the browser's last reliable packet names the     *)
(* session's shot.  Advice leaves the session only through an open gate,   *)
(* only for the newest camera frame observed since the gate opened, and    *)
(* with a sequence number above every number accepted before.  Whatever    *)
(* may change what the browser should believe (a new shot, a lost Room, a  *)
(* failed reliable packet, the end of the session) shuts the gate and      *)
(* forgets the frame, and a frame once forgotten never comes back.         *)
(***************************************************************************)
EXTENDS Naturals

CONSTANTS Frames,   \* camera frames offered for inference
          Shots,    \* capture steps
          None      \* no frame, no shot

VARIABLES open,     \* the last reliable packet names the session's shot
          ended,    \* the session was closed
          live,     \* the only frame whose advice may still be sent, or None
          seen,     \* the frames that were ever live
          shot,     \* the shot the browser was last told of
          seq       \* the sequence number of the last packet it received

gateVars == <<open, ended, live, seen, shot, seq>>

Init ==
  /\ open = TRUE
  /\ ended = FALSE
  /\ live = None
  /\ seen = {}
  /\ shot = None
  /\ seq = 0

(* Frame f, never live before, becomes the live one; f = None forgets. *)
Admit(f) ==
  \/ f = None /\ live' = None /\ UNCHANGED seen
  \/ f \in Frames \ seen /\ live' = f /\ seen' = seen \cup {f}

(* What the browser believes became obsolete, or a reliable packet was lost *)
(* (it may have arrived all the same): no advice until the next Sync.       *)
Shut ==
  /\ open' = FALSE
  /\ live' = None
  /\ ended' \in {ended, TRUE}
  /\ shot' \in Shots \cup {None}
  /\ seq' >= seq
  /\ UNCHANGED seen

(* A reliable packet is accepted and opens the gate; a packet sent on behalf *)
(* of a frame of a new shot lets that frame in.                              *)
Sync(f) ==
  /\ ~open /\ ~ended
  /\ open' = TRUE
  /\ Admit(f)
  /\ shot' \in Shots \cup {None}
  /\ seq' > seq
  /\ UNCHANGED ended

(* A snapshot of what the browser already knows. *)
Refresh ==
  /\ open
  /\ seq' > seq
  /\ UNCHANGED <<open, ended, live, seen, shot>>

(* A newer frame takes the place of the previous one. *)
Observe(f) ==
  /\ open
  /\ Admit(f)
  /\ UNCHANGED <<open, ended, shot, seq>>

(* Advice for the live frame is received, and the frame is used up. *)
Advise ==
  /\ open
  /\ live # None
  /\ live' = None
  /\ seq' > seq
  /\ UNCHANGED <<open, ended, seen, shot>>

Next ==
  \/ Shut
  \/ Refresh
  \/ Advise
  \/ \E f \in Frames \cup {None} : Sync(f) \/ Observe(f)

Spec == Init /\ [][Next]_gateVars
=============================================================================
