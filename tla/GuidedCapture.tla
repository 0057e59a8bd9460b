--------------------------- MODULE GuidedCapture ---------------------------
(***************************************************************************)
(* What the capture session promises, with no request ids, no stale        *)
(* handlers, no lock, no camera and no rendering.                          *)
(*                                                                         *)
(* A seller takes the shots in order.  One photo is under review at a      *)
(* time, always for the shot the seller is at; only the verdict on that    *)
(* very photo moves the seller on, to the first shot without a photo.  A   *)
(* verdict that comes late changes nothing.  The seller may go back to a   *)
(* shot that has a photo, which withdraws the photo under review, until    *)
(* editing has started.                                                    *)
(***************************************************************************)
EXTENDS Naturals, Sequences

CONSTANTS Order,    \* the shots, in the order they are asked for
          End,      \* the step after the last shot
          Photos,   \* what may be taken
          None      \* no photo

VARIABLES step,     \* the shot that is asked for, or End
          photos,   \* the accepted photo of each shot
          review,   \* the photo under review
          waiting,  \* a verdict on it is outstanding
          editing,  \* editing has started
          passed    \* the verdicts that accepted a photo for a shot

captureVars == <<step, photos, review, waiting, editing, passed>>

Shots == {Order[i] : i \in 1..Len(Order)}

Init ==
  /\ step = Order[1]
  /\ photos = [s \in Shots |-> None]
  /\ review = None /\ waiting = FALSE
  /\ editing = FALSE
  /\ passed = {}

(* s is the first step for which p has no photo. *)
FirstMissing(s, p) ==
  \/ \E i \in 1..Len(Order) :
       /\ s = Order[i] /\ p[s] = None
       /\ \A j \in 1..(i - 1) : p[Order[j]] # None
  \/ s = End /\ \A i \in 1..Len(Order) : p[Order[i]] # None

Take(photo) ==
  /\ step \in Shots /\ review = None
  /\ review' = photo /\ waiting' = TRUE
  /\ UNCHANGED <<step, photos, editing, passed>>

Accept ==
  /\ waiting
  /\ passed' = passed \cup {<<step, review>>}
  /\ photos' = [photos EXCEPT ![step] = review]
  /\ FirstMissing(step', photos')
  /\ review' = None /\ waiting' = FALSE
  /\ UNCHANGED editing

Reject ==
  /\ waiting
  /\ review' = None /\ waiting' = FALSE
  /\ UNCHANGED <<step, photos, editing, passed>>

(* The review failed, and can be asked for again with the same photo. *)
Fail ==
  /\ waiting /\ waiting' = FALSE
  /\ UNCHANGED <<step, photos, review, editing, passed>>

Retry ==
  /\ review # None /\ ~waiting
  /\ waiting' = TRUE
  /\ UNCHANGED <<step, photos, review, editing, passed>>

GoBack(shot) ==
  /\ ~editing
  /\ photos[shot] # None \/ shot = step
  /\ step' = shot
  /\ review' = None /\ waiting' = FALSE
  /\ UNCHANGED <<photos, editing, passed>>

Edit ==
  /\ step = End /\ ~editing
  /\ editing' = TRUE
  /\ UNCHANGED <<step, photos, review, waiting, passed>>

(* A photo that is no longer under review is accepted after all. *)
Late(shot, photo) ==
  /\ passed' = passed \cup {<<shot, photo>>}
  /\ UNCHANGED <<step, photos, review, waiting, editing>>

Next ==
  \/ \E photo \in Photos : Take(photo)
  \/ Accept \/ Reject \/ Fail \/ Retry \/ Edit
  \/ \E shot \in Shots : GoBack(shot)
  \/ \E shot \in Shots, photo \in Photos : Late(shot, photo)

Spec == Init /\ [][Next]_captureVars
=============================================================================
