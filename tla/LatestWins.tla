----------------------------- MODULE LatestWins -----------------------------
(***************************************************************************)
(* What both frame pipelines promise, the Agent's processor and the        *)
(* browser's scheduler, with no task, timer, callback or promise chain.    *)
(*                                                                         *)
(* There is room for one item that waits and for one job.  An item that is *)
(* offered replaces the one that waits.  A job begins with the item that   *)
(* waits, or with one that is offered to an idle pipeline, and only when   *)
(* the previous job has ended.  Stopping forgets the item that waits and   *)
(* lets the job come to its end; a stopped pipeline begins nothing.        *)
(***************************************************************************)
CONSTANTS Items,     \* what may be offered
          Workers,   \* who may do a job
          None,      \* no item waits
          Reopens    \* whether a stopped pipeline may be started again

VARIABLES open,      \* the pipeline accepts items
          pending,   \* the item that waits, or None
          work       \* the jobs under way, each a worker with its item

pipeVars == <<open, pending, work>>

Init ==
  /\ open \in BOOLEAN
  /\ pending = None
  /\ work = {}

(* Offering to a pipeline that can be started again starts it. *)
Accepts == (open \/ Reopens) /\ open' = TRUE

(* The newest item waits, instead of the one that did. *)
Offer(i) ==
  /\ Accepts
  /\ pending' = i
  /\ UNCHANGED work

(* A job begins with the item that waits; the previous one, if any, ends. *)
Begin(w) ==
  /\ open /\ pending # None
  /\ work' = {<<w, pending>>}
  /\ pending' = None
  /\ UNCHANGED open

(* An item is offered while no job is under way, and begins at once. *)
OfferAndBegin(w, i) ==
  /\ Accepts
  /\ work = {}
  /\ work' = {<<w, i>>}
  /\ pending' = None

(* The job ends, with a result or without one. *)
End ==
  /\ work # {} /\ work' = {}
  /\ UNCHANGED <<open, pending>>

Stop ==
  /\ open' = FALSE
  /\ pending' = None
  /\ UNCHANGED work

Start ==
  /\ Reopens
  /\ open' = TRUE
  /\ UNCHANGED <<pending, work>>

Next ==
  \/ \E i \in Items : Offer(i)
  \/ \E w \in Workers : Begin(w)
  \/ \E w \in Workers, i \in Items : OfferAndBegin(w, i)
  \/ End \/ Stop \/ Start

Spec == Init /\ [][Next]_pipeVars
=============================================================================
