----------------------- MODULE CaptureSession_proofs -----------------------
(***************************************************************************)
(* Proofs about CaptureSession, for any number of requests and camera      *)
(* starts.                                                                 *)
(***************************************************************************)
EXTENDS CaptureSession, TLAPS

-----------------------------------------------------------------------------
(* The reducer *)

(* A reachable CaptureState: a pending photo belongs to the current step,   *)
(* and the accepted shots are the first ones, the current step next to them *)
(* or among them.                                                           *)
Filled(s, i) == s.slots[Order[i]] # None

Sound(s) ==
  /\ s \in CaptureState
  /\ s.status \in {"analyzing", "error"} => s.pending.slot = s.step
  /\ Filled(s, 2) => Filled(s, 1)
  /\ Filled(s, 3) => Filled(s, 2)
  /\ s.step \in {"back", "tag", "edit"} => Filled(s, 1)
  /\ s.step \in {"tag", "edit"} => Filled(s, 2)
  /\ s.step = "edit" => Filled(s, 3)

LEMMA OrderIs ==
  /\ Order[1] = "front" /\ Order[2] = "back" /\ Order[3] = "tag"
  /\ Slots = {"front", "back", "tag"}
<1>1. 1..3 = {1, 2, 3}
  OBVIOUS
<1>2. Order[1] = "front" /\ Order[2] = "back" /\ Order[3] = "tag"
  BY DEF Order
<1> QED BY <1>1, <1>2 DEF Slots

(* nextCaptureStep returns the first shot that is missing, or "edit". *)
LEMMA NextStepIs ==
  ASSUME NEW slots \in Photos
  PROVE  /\ slots["front"] = None => NextStep(slots) = "front"
         /\ slots["front"] # None /\ slots["back"] = None => NextStep(slots) = "back"
         /\ slots["front"] # None /\ slots["back"] # None /\ slots["tag"] = None
              => NextStep(slots) = "tag"
         /\ slots["front"] # None /\ slots["back"] # None /\ slots["tag"] # None
              => NextStep(slots) = "edit"
<1> DEFINE First(i) == i \in Missing(slots) /\ \A j \in Missing(slots) : i <= j
<1>1. /\ 1 \in Missing(slots) <=> slots["front"] = None
      /\ 2 \in Missing(slots) <=> slots["back"] = None
      /\ 3 \in Missing(slots) <=> slots["tag"] = None
      /\ Missing(slots) \subseteq {1, 2, 3}
  BY OrderIs DEF Missing
<1>2. ASSUME NEW i \in 1..3, First(i)
      PROVE  NextStep(slots) = Order[i]
  <2>1. \A k \in Missing(slots) : First(k) => k = i
    BY <1>1, <1>2
  <2>2. (CHOOSE k \in Missing(slots) : \A j \in Missing(slots) : k <= j) = i
    BY <1>2, <2>1
  <2> QED BY <1>2, <2>2 DEF NextStep
<1>3. CASE slots["front"] = None
  <2>1. First(1)
    BY <1>1, <1>3
  <2> QED BY <1>2, <1>3, <2>1, OrderIs
<1>4. CASE slots["front"] # None /\ slots["back"] = None
  <2>1. First(2)
    BY <1>1, <1>4
  <2> QED BY <1>2, <1>4, <2>1, OrderIs
<1>5. CASE slots["front"] # None /\ slots["back"] # None /\ slots["tag"] = None
  <2>1. First(3)
    BY <1>1, <1>5
  <2> QED BY <1>2, <1>5, <2>1, OrderIs
<1>6. CASE slots["front"] # None /\ slots["back"] # None /\ slots["tag"] # None
  BY <1>1, <1>6 DEF NextStep
<1> QED BY <1>3, <1>4, <1>5, <1>6

(* What the shape of a state says about its fields. *)
LEMMA Shapes ==
  ASSUME NEW s \in CaptureState
  PROVE  /\ s = [step |-> s.step, status |-> s.status, slots |-> s.slots, pending |-> s.pending]
         /\ s.step \in Slots \cup {"edit"}
         /\ s.status \in {"capturing", "analyzing", "error", "ready_to_edit"}
         /\ s.slots \in Photos
         /\ s.pending \in Pending \cup {None}
         /\ s.status = "capturing" => s.step \in Slots /\ s.pending = None
         /\ s.status \in {"analyzing", "error"} => s.step \in Slots /\ s.pending \in Pending
         /\ s.status = "ready_to_edit" <=> s.step = "edit"
         /\ s.status = "ready_to_edit" => s.pending = None
BY OrderIs DEF CaptureState

LEMMA SubmittedSound ==
  ASSUME NEW s, Sound(s), NEW p \in Pending
  PROVE  Sound(Submitted(s, p)) /\ Submitted(s, p).slots = s.slots
<1>1. CASE s.status = "capturing" /\ s.step = p.slot
  <2>1. Submitted(s, p) \in CaptureState
    BY <1>1, Shapes DEF Submitted, State, Sound, CaptureState
  <2> QED BY <1>1, <2>1 DEF Submitted, State, Sound, Filled
<1>2. CASE ~(s.status = "capturing" /\ s.step = p.slot)
  BY <1>2 DEF Submitted
<1> QED BY <1>1, <1>2

LEMMA FailedSound ==
  ASSUME NEW s, Sound(s), NEW r
  PROVE  /\ Sound(ProviderFailed(s, r)) /\ ProviderFailed(s, r).slots = s.slots
         /\ Awaits(s, r) => ProviderFailed(s, r).status = "error"
<1>1. CASE Awaits(s, r)
  <2>1. ProviderFailed(s, r) \in CaptureState
    BY <1>1, Shapes DEF ProviderFailed, State, Sound, CaptureState, Awaits
  <2> QED BY <1>1, <2>1 DEF ProviderFailed, State, Sound, Filled, Awaits
<1>2. CASE ~Awaits(s, r)
  BY <1>2 DEF ProviderFailed
<1> QED BY <1>1, <1>2

LEMMA RetriedSound ==
  ASSUME NEW s, Sound(s), NEW q \in Requests
  PROVE  Sound(Retried(s, q)) /\ Retried(s, q).slots = s.slots
<1>1. CASE s.status = "error"
  <2>1. [s.pending EXCEPT !.req = q] \in Pending /\ [s.pending EXCEPT !.req = q].slot = s.pending.slot
    BY <1>1, Shapes DEF Sound, Pending
  <2>2. Retried(s, q) \in CaptureState
    BY <1>1, <2>1, Shapes DEF Retried, State, Sound, CaptureState
  <2> QED BY <1>1, <2>1, <2>2 DEF Retried, State, Sound, Filled
<1>2. CASE s.status # "error"
  BY <1>2 DEF Retried
<1> QED BY <1>1, <1>2

LEMMA RetakenSound ==
  ASSUME NEW s, Sound(s), NEW slot \in Slots
  PROVE  /\ Sound(Retaken(s, slot)) /\ Retaken(s, slot).slots = s.slots
         /\ Retaken(s, slot) = s \/ Retaken(s, slot).status = "capturing"
<1>1. CASE s.slots[slot] # None \/ s.step = slot
  <2>1. Retaken(s, slot) \in CaptureState
    BY <1>1, Shapes DEF Retaken, State, Sound, CaptureState
  <2> QED BY <1>1, <2>1, OrderIs DEF Retaken, State, Sound, Filled
<1>2. CASE ~(s.slots[slot] # None \/ s.step = slot)
  BY <1>2 DEF Retaken
<1> QED BY <1>1, <1>2

LEMMA EditSound ==
  ASSUME NEW s, Sound(s)
  PROVE  /\ Sound(EditRequested(s)) /\ EditRequested(s).slots = s.slots
         /\ EditRequested(s) = s \/ EditRequested(s).status = "ready_to_edit"
<1>1. CASE s.status # "analyzing" /\ s.pending = None /\ Missing(s.slots) = {}
  <2>1. EditRequested(s) \in CaptureState
    BY <1>1, Shapes DEF EditRequested, State, Sound, CaptureState
  <2>2. \A i \in 1..3 : Filled(s, i)
    BY <1>1 DEF Missing, Filled
  <2> QED BY <1>1, <2>1, <2>2 DEF EditRequested, State, Sound, Filled
<1>2. CASE ~(s.status # "analyzing" /\ s.pending = None /\ Missing(s.slots) = {})
  BY <1>2 DEF EditRequested
<1> QED BY <1>1, <1>2

(* An answer that is awaited ends the analysis; if it accepts the photo, the *)
(* pending photo and nothing else gets into the slot of the current step.    *)
LEMMA AssessedSound ==
  ASSUME NEW s, Sound(s), NEW r, NEW ok \in BOOLEAN
  PROVE  /\ Sound(Assessed(s, r, ok))
         /\ Awaits(s, r) => Assessed(s, r, ok).status # "analyzing"
         /\ ~(Awaits(s, r) /\ ok) => Assessed(s, r, ok).slots = s.slots
         /\ Awaits(s, r) /\ ok =>
              /\ s.pending.photo \in Requests /\ r.slot = s.step
              /\ Assessed(s, r, ok).slots = [s.slots EXCEPT ![s.step] = s.pending.photo]
<1>1. CASE ~Awaits(s, r)
  BY <1>1 DEF Assessed
<1>2. CASE Awaits(s, r) /\ ~ok
  <2>1. Assessed(s, r, ok) = State(s.step, "capturing", s.slots, None)
    BY <1>2, Shapes, OrderIs DEF Assessed, Awaits, Sound
  <2>2. Assessed(s, r, ok) \in CaptureState
    BY <1>2, <2>1, Shapes DEF State, Sound, CaptureState, Awaits
  <2> QED BY <1>2, <2>1, <2>2 DEF State, Sound, Filled
<1>3. CASE Awaits(s, r) /\ ok
  <2> DEFINE slots == [s.slots EXCEPT ![s.step] = s.pending.photo]
             step == NextStep(slots)
             t == Assessed(s, r, ok)
  <2>1. s.step \in Slots /\ s.slots \in Photos /\ s.pending.photo \in Requests /\ r.slot = s.step
    BY <1>3, Shapes DEF Awaits, Sound, Pending
  <2>2. slots \in Photos /\ \A x \in Slots : slots[x] = IF x = s.step THEN s.pending.photo ELSE s.slots[x]
    BY <2>1 DEF Photos
  <2>3. t = State(step, IF step = "edit" THEN "ready_to_edit" ELSE "capturing", slots, None)
    BY <1>3, <2>1 DEF Assessed
  <2>4. slots["front"] # None /\ (slots["back"] # None \/ s.step = "front")
        /\ (slots["tag"] # None => slots["back"] # None)
    BY <1>3, <2>1, <2>2, OrderIs, NoneAssumption DEF Sound, Filled
  <2>5. step \in Slots \cup {"edit"}
    BY <2>2, OrderIs, NextStepIs
  <2> HIDE DEF slots, step
  <2>6. t \in CaptureState
    BY <2>2, <2>3, <2>5, OrderIs DEF State, CaptureState
  <2>7. /\ step \in {"back", "tag", "edit"}
        /\ step \in {"tag", "edit"} => slots["back"] # None
        /\ step = "edit" => slots["tag"] # None
    BY <2>2, <2>4, NextStepIs DEF step
  <2>8. t.step = step /\ t.slots = slots /\ t.status \in {"capturing", "ready_to_edit"}
    BY <2>3 DEF State
  <2>9. Sound(t)
    BY <2>4, <2>6, <2>7, <2>8, OrderIs DEF Sound, Filled
  <2> QED BY <1>3, <2>1, <2>8, <2>9 DEF slots
<1> QED BY <1>1, <1>2, <1>3

-----------------------------------------------------------------------------
(* The session *)

(* What is shown is behind what was dispatched only while a photo can be    *)
(* submitted or is analysed: a failure, and the end, are left by clicks.    *)
Lag == shown.status \in {"error", "ready_to_edit"} => session = shown

(* Requests are numbered as they are made, and the one that is awaited      *)
(* carries the pending photo.                                               *)
Numbered ==
  /\ \A r \in asking : r.req <= made
  /\ session.pending # None => session.pending.req <= made
  /\ \A r \in asking :
       session.pending # None /\ r.req = session.pending.req => r.photo = session.pending.photo

Edited == editing => Filled(session, 1) /\ Filled(session, 2) /\ Filled(session, 3)

Inv ==
  /\ TypeOK /\ Sound(session) /\ Sound(shown)
  /\ Lag /\ Numbered /\ Edited
  /\ PhotosWereAccepted /\ AnalysisIsAwaited

LEMMA InitInv == Init => Inv
<1> SUFFICES ASSUME Init PROVE Inv
  OBVIOUS
<1>1. Start0 \in CaptureState
  BY OrderIs DEF Start0, CaptureState, Photos
<1>2. Start0.step = "front" /\ Start0.status = "capturing" /\ Start0.pending = None
      /\ \A s \in Slots : Start0.slots[s] = None
  BY DEF Start0
<1>3. Sound(Start0)
  BY <1>1, <1>2, OrderIs DEF Sound, Filled
<1>4. TypeOK
  <2>1. 0 \in 0..MaxAttempts /\ 0 \in 0..MaxRequests
    BY BoundsAssumption
  <2> QED BY <1>1, <2>1 DEF Init, TypeOK
<1> QED BY <1>2, <1>3, <1>4
     DEF Init, Inv, Lag, Numbered, Edited, PhotosWereAccepted, AnalysisIsAwaited

(* The parts about the photos need only look at the slots that change. *)
LEMMA SameSlots ==
  ASSUME Inv, session'.slots = session.slots, passed \subseteq passed', UNCHANGED editing
  PROVE  PhotosWereAccepted' /\ Edited'
BY DEF Inv, PhotosWereAccepted, Edited, Filled

(* A click that retries nothing: a session that waits for no answer. *)
LEMMA ClickInv ==
  ASSUME Inv, NEW s, Click(s), Sound(s), s.slots = session.slots,
         s = session \/ s.status \in {"capturing", "ready_to_edit"},
         UNCHANGED <<asking, made, grabs, passed>>, editing' \in BOOLEAN,
         editing' => editing \/ s.step = "edit"
  PROVE  Inv'
<1> USE DEF Click, Commit, Unlock
<1>1. s \in CaptureState /\ session' = s /\ shown' = s
  BY DEF Sound
<1>2. TypeOK'
  BY <1>1 DEF Inv, TypeOK
<1>3. Sound(session)' /\ Sound(shown)' /\ Lag'
  BY <1>1 DEF Sound, Filled, Lag
<1>4. Numbered' /\ AnalysisIsAwaited'
  <2>1. CASE s = session
    BY <1>1, <2>1 DEF Inv, Numbered, AnalysisIsAwaited
  <2>2. CASE s.status \in {"capturing", "ready_to_edit"}
    <3>1. s.pending = None
      BY <1>1, <2>2, Shapes
    <3> QED BY <1>1, <2>2, <3>1 DEF Inv, Numbered, AnalysisIsAwaited
  <2> QED BY <2>1, <2>2
<1>5. PhotosWereAccepted' /\ Edited'
  BY <1>1 DEF Inv, PhotosWereAccepted, Edited, Filled, Sound
<1> QED BY <1>2, <1>3, <1>4, <1>5 DEF Inv

(* A submission: the request is new, and the session waits for it if it     *)
(* took the photo.                                                          *)
LEMMA SubmitInv ==
  ASSUME Inv, CanSubmit, NEW attempt \in 0..MaxAttempts,
         Ask(shown.step, made + 1, attempt),
         session' = Submitted(session, Capture),
         UNCHANGED <<editing, passed>>
  PROVE  /\ Sound(session)' /\ session' \in CaptureState
         /\ asking' \subseteq [req : Requests, slot : Slots, photo : Requests, attempt : 0..MaxAttempts]
         /\ made' \in 0..MaxRequests
         /\ Numbered' /\ Edited' /\ PhotosWereAccepted' /\ AnalysisIsAwaited'
<1> DEFINE p == Capture
           r == [req |-> made + 1, slot |-> shown.step, photo |-> made + 1, attempt |-> attempt]
<1>1. made + 1 \in Requests /\ made + 1 \in 0..MaxRequests /\ made \in Nat
  BY BoundsAssumption DEF Inv, TypeOK, Ask, Requests
<1>2. p \in Pending /\ p.slot = shown.step /\ p.photo = made + 1 /\ p.req = made + 1
  BY <1>1 DEF Capture, CanSubmit, Pending
<1>3. Sound(Submitted(session, p)) /\ Submitted(session, p).slots = session.slots
  BY <1>2, SubmittedSound DEF Inv
<1>4. Sound(session)' /\ session' \in CaptureState
  BY <1>3 DEF Sound, Filled
<1>5. asking' = asking \cup {r} /\ made' = made + 1
  BY DEF Ask
<1>6. asking' \subseteq [req : Requests, slot : Slots, photo : Requests, attempt : 0..MaxAttempts]
  BY <1>1, <1>5 DEF Inv, TypeOK, CanSubmit
<1>7. \A q \in asking : q.req \in Nat /\ q.req <= made /\ q.req # made + 1
  BY <1>1 DEF Inv, Numbered, TypeOK, Requests
<1>8. Numbered' /\ AnalysisIsAwaited'
  <2>1. CASE session.status = "capturing" /\ session.step = p.slot
    <3>1. session'.status = "analyzing" /\ session'.pending = p /\ session'.step = p.slot
      BY <2>1 DEF Submitted, State
    <3>2. r \in asking' /\ r.req = made + 1 /\ r.slot = shown.step /\ r.photo = made + 1
      BY <1>5
    <3>3. Numbered'
      BY <1>1, <1>2, <1>5, <1>7, <3>1, <3>2 DEF Numbered
    <3>4. AnalysisIsAwaited'
      BY <1>2, <3>1, <3>2 DEF AnalysisIsAwaited
    <3> QED BY <3>3, <3>4
  <2>2. CASE ~(session.status = "capturing" /\ session.step = p.slot)
    <3>1. session' = session
      BY <2>2 DEF Submitted
    <3>2. session.pending # None => session.pending.req \in Nat /\ session.pending.req <= made
      BY <1>1, Shapes DEF Inv, Sound, Numbered, Pending, Requests
    <3> QED BY <1>1, <1>5, <1>7, <3>1, <3>2 DEF Inv, Numbered, AnalysisIsAwaited
  <2> QED BY <2>1, <2>2
<1>9. PhotosWereAccepted' /\ Edited'
  BY <1>3, SameSlots
<1> QED BY <1>1, <1>4, <1>5, <1>6, <1>8, <1>9

LEMMA UploadInv == ASSUME Inv, Upload PROVE Inv'
<1> USE DEF Upload
<1>1. shown.step \in Slots /\ 0 \in 0..MaxAttempts
  BY BoundsAssumption DEF CanSubmit
<1>2. /\ Sound(session)' /\ session' \in CaptureState
      /\ asking' \subseteq [req : Requests, slot : Slots, photo : Requests, attempt : 0..MaxAttempts]
      /\ made' \in 0..MaxRequests
      /\ Numbered' /\ Edited' /\ PhotosWereAccepted' /\ AnalysisIsAwaited'
  BY <1>1, SubmitInv
<1>3. shown' = session'
  BY DEF Commit
<1>4. TypeOK'
  BY <1>2, <1>3 DEF Inv, TypeOK, Commit, Unlock
<1>5. Sound(shown)' /\ Lag'
  BY <1>2, <1>3 DEF Lag, Sound, Filled
<1> QED BY <1>2, <1>4, <1>5 DEF Inv

LEMMA GrabbedInv == ASSUME Inv, NEW g \in grabs, Grabbed(g) PROVE Inv'
<1> USE DEF Grabbed
<1>1. g \in 0..MaxAttempts
  BY BoundsAssumption DEF Inv, TypeOK
<1>2. Sound(shown)' /\ shown' = shown
  BY DEF Inv, Sound, Filled
<1>3. CASE CanSubmit /\ Ask(shown.step, made + 1, g)
           /\ session' = Submitted(session, Capture) /\ locked' = TRUE
           /\ UNCHANGED camera
  <2>1. /\ Sound(session)' /\ session' \in CaptureState
        /\ asking' \subseteq [req : Requests, slot : Slots, photo : Requests, attempt : 0..MaxAttempts]
        /\ made' \in 0..MaxRequests
        /\ Numbered' /\ Edited' /\ PhotosWereAccepted' /\ AnalysisIsAwaited'
    BY <1>1, <1>3, SubmitInv
  <2>2. TypeOK'
    BY <1>3, <2>1 DEF Inv, TypeOK
  <2>3. Lag'
    BY <1>3 DEF Lag, CanSubmit
  <2> QED BY <1>2, <2>1, <2>2, <2>3 DEF Inv
<1>4. CASE Release(g) /\ UNCHANGED <<session, locked, asking, made>>
  <2>1. TypeOK'
    BY <1>4 DEF Inv, TypeOK, Release
  <2> QED BY <1>2, <1>4, <2>1
       DEF Inv, Sound, Filled, Lag, Numbered, Edited, PhotosWereAccepted, AnalysisIsAwaited
<1> QED BY <1>3, <1>4

LEMMA RetryInv == ASSUME Inv, Retry PROVE Inv'
<1> USE DEF Retry
<1> DEFINE s == Retried(session, made + 1)
           r == [req |-> made + 1, slot |-> shown.pending.slot,
                 photo |-> shown.pending.photo, attempt |-> 0]
<1>1. session = shown /\ session.status = "error" /\ session.pending \in Pending
      /\ session.pending.slot = session.step /\ session.step \in Slots
  BY Shapes DEF Inv, Lag, Sound
<1>2. made + 1 \in Requests /\ made + 1 \in 0..MaxRequests /\ made \in Nat
      /\ 0 \in 0..MaxAttempts
  BY BoundsAssumption DEF Inv, TypeOK, Ask, Requests
<1>3. Sound(s) /\ s.slots = session.slots
  BY <1>2, RetriedSound DEF Inv
<1>4. s.status = "analyzing" /\ s.step = session.step
      /\ s.pending = [session.pending EXCEPT !.req = made + 1]
  BY <1>1 DEF Retried, State
<1>5. s.pending.req = made + 1 /\ s.pending.photo = session.pending.photo
  BY <1>1, <1>4 DEF Pending
<1>6. session' = s /\ shown' = s /\ asking' = asking \cup {r} /\ made' = made + 1
  BY DEF Click, Commit, Ask
<1>7. r \in [req : Requests, slot : Slots, photo : Requests, attempt : 0..MaxAttempts]
  BY <1>1, <1>2 DEF Pending
<1>8. TypeOK'
  BY <1>2, <1>3, <1>6, <1>7 DEF Inv, TypeOK, Click, Commit, Unlock, Sound
<1>9. Sound(session)' /\ Sound(shown)' /\ Lag'
  BY <1>3, <1>6 DEF Sound, Filled, Lag
<1>10. \A q \in asking : q.req \in Nat /\ q.req <= made /\ q.req # made + 1
  BY <1>2 DEF Inv, Numbered, TypeOK, Requests
<1>11. Numbered'
  BY <1>1, <1>2, <1>5, <1>6, <1>10 DEF Numbered
<1>12. AnalysisIsAwaited'
  <2>1. r.req = session'.pending.req /\ r.slot = session'.step /\ r \in asking'
    BY <1>1, <1>4, <1>5, <1>6
  <2> QED BY <2>1 DEF AnalysisIsAwaited
<1>13. PhotosWereAccepted' /\ Edited'
  BY <1>3, <1>6, SameSlots
<1> QED BY <1>8, <1>9, <1>11, <1>12, <1>13 DEF Inv

LEMMA RetakeInv == ASSUME Inv, NEW slot \in Slots, Retake(slot) PROVE Inv'
<1>1. LET s == Retaken(session, slot)
      IN  /\ Sound(s) /\ s.slots = session.slots
          /\ s = session \/ s.status = "capturing"
  BY RetakenSound DEF Inv
<1>2. Click(Retaken(session, slot)) /\ UNCHANGED <<asking, made, grabs, editing, passed>>
  BY DEF Retake
<1>3. editing' \in BOOLEAN
  BY <1>2 DEF Inv, TypeOK
<1> QED BY <1>1, <1>2, <1>3, ClickInv

LEMMA StartEditInv == ASSUME Inv, StartEdit PROVE Inv'
<1> USE DEF StartEdit
<1>1. LET s == EditRequested(session)
      IN  /\ Sound(s) /\ s.slots = session.slots
          /\ s = session \/ s.status = "ready_to_edit"
  BY EditSound DEF Inv
<1>2. session.step = "edit"
  BY Shapes DEF Inv, Lag, Sound
<1>3. EditRequested(session).step = "edit"
  BY <1>2 DEF EditRequested, State
<1> QED BY <1>1, <1>3, ClickInv

LEMMA RenderInv == ASSUME Inv, Render PROVE Inv'
<1> USE DEF Render, Commit, Unlock
<1>1. TypeOK'
  BY DEF Inv, TypeOK
<1> QED BY <1>1 DEF Inv, Sound, Filled, Lag, Numbered, Edited, PhotosWereAccepted, AnalysisIsAwaited

LEMMA AnswerInv ==
  ASSUME Inv, NEW r \in asking, NEW verdict \in {"accept", "reject", "error"}, Answer(r, verdict)
  PROVE  Inv'
<1> DEFINE ok == verdict = "accept"
           s == IF verdict = "error" THEN ProviderFailed(session, r) ELSE Assessed(session, r, ok)
<1> USE DEF Answer
<1>1. session' = s /\ shown' = shown
  OBVIOUS
<1>2. Sound(s) /\ (Awaits(session, r) => s.status # "analyzing") /\ (~Awaits(session, r) => s = session)
  <2>1. CASE verdict = "error"
    BY <2>1, FailedSound DEF Inv, ProviderFailed
  <2>2. CASE verdict # "error"
    BY <2>2, AssessedSound DEF Inv, Assessed
  <2> QED BY <2>1, <2>2
<1>3. session' \in CaptureState /\ Sound(session)' /\ Sound(shown)'
  BY <1>1, <1>2 DEF Inv, Sound, Filled
<1>4. TypeOK'
  <2>1. r.slot \in Slots /\ r.photo \in Requests
    BY DEF Inv, TypeOK
  <2>2. passed' \subseteq Slots \X Requests
    BY <2>1 DEF Inv, TypeOK
  <2>3. camera' \in [playing : BOOLEAN, attempt : 0..MaxAttempts, busy : BOOLEAN]
    BY DEF Inv, TypeOK, Release
  <2> QED BY <1>3, <2>2, <2>3 DEF Inv, TypeOK
<1>5. Lag'
  <2>1. shown.status \in {"error", "ready_to_edit"} => ~Awaits(session, r)
    BY DEF Inv, Lag, Awaits
  <2> QED BY <1>1, <1>2, <2>1 DEF Inv, Lag
<1>6. session'.pending = session.pending \/ session'.pending = None
  <2>1. CASE verdict = "error"
    BY <1>1, <2>1 DEF ProviderFailed, State
  <2>2. CASE verdict # "error"
    BY <1>1, <2>2 DEF Assessed, State
  <2> QED BY <2>1, <2>2
<1>7. Numbered'
  BY <1>6 DEF Inv, Numbered
<1>8. AnalysisIsAwaited'
  <2>1. SUFFICES ASSUME session'.status = "analyzing"
        PROVE  \E q \in asking' : q.req = session'.pending.req /\ q.slot = session'.step
    BY DEF AnalysisIsAwaited
  <2>2. ~Awaits(session, r) /\ session' = session
    BY <1>1, <1>2, <2>1
  <2>3. PICK q \in asking : q.req = session.pending.req /\ q.slot = session.step
    BY <2>1, <2>2 DEF Inv, AnalysisIsAwaited
  <2>4. session.pending.slot = session.step
    BY <2>1, <2>2 DEF Inv, Sound
  <2>5. q # r
    BY <2>1, <2>2, <2>3, <2>4 DEF Awaits
  <2> QED BY <2>2, <2>3, <2>5
<1>9. PhotosWereAccepted' /\ Edited'
  <2>1. CASE s.slots = session.slots
    BY <1>1, <2>1, SameSlots
  <2>2. CASE s.slots # session.slots
    <3>1. Awaits(session, r) /\ verdict = "accept"
      BY <2>2, FailedSound, AssessedSound DEF Inv
    <3>2. /\ r.slot = session.step /\ session.pending.photo \in Requests
          /\ s.slots = [session.slots EXCEPT ![session.step] = session.pending.photo]
      BY <3>1, AssessedSound DEF Inv
    <3>3. session.pending # None /\ r.photo = session.pending.photo
      <4>1. session.pending \in Pending /\ session.pending # None
        BY <3>1, Shapes, NoneAssumption DEF Awaits, Inv, Sound
      <4> QED BY <3>1, <4>1 DEF Inv, Numbered, Awaits
    <3>4. session.slots \in Photos
      BY Shapes DEF Inv, Sound
    <3>5. passed' = passed \cup {<<session.step, session.pending.photo>>}
      BY <3>1, <3>2, <3>3
    <3>6. PhotosWereAccepted'
      BY <1>1, <3>2, <3>4, <3>5 DEF Inv, PhotosWereAccepted, Photos
    <3>7. Edited'
      BY <1>1, <3>2, <3>4, OrderIs, NoneAssumption DEF Inv, Edited, Filled, Photos
    <3> QED BY <3>6, <3>7
  <2> QED BY <2>1, <2>2
<1> QED BY <1>3, <1>4, <1>5, <1>7, <1>8, <1>9 DEF Inv

(* The steps of the camera preview leave the session alone. *)
LEMMA CameraInv ==
  ASSUME Inv,
         \/ StartCamera \/ StopCamera \/ Shutter
         \/ \E g \in grabs : GrabFails(g)
         \/ UNCHANGED vars
  PROVE  Inv'
<1>1. UNCHANGED <<session, shown, locked, asking, made, editing, passed>>
  BY DEF StartCamera, StopCamera, Shutter, GrabFails, vars
<1>2. TypeOK'
  <2>1. camera' \in [playing : BOOLEAN, attempt : 0..MaxAttempts, busy : BOOLEAN]
    <3>1. camera \in [playing : BOOLEAN, attempt : 0..MaxAttempts, busy : BOOLEAN]
      BY DEF Inv, TypeOK
    <3>2. CASE StartCamera
      <4>1. camera.attempt + 1 \in 0..MaxAttempts
        BY <3>1, <3>2, BoundsAssumption DEF StartCamera
      <4> QED BY <3>2, <4>1 DEF StartCamera
    <3>3. CASE StopCamera
      BY <3>1, <3>3 DEF StopCamera
    <3>4. CASE Shutter
      BY <3>1, <3>4 DEF Shutter
    <3>5. CASE \E g \in grabs : GrabFails(g)
      BY <3>1, <3>5 DEF GrabFails, Release
    <3>6. CASE UNCHANGED vars
      BY <3>1, <3>6 DEF vars
    <3> QED BY <3>2, <3>3, <3>4, <3>5, <3>6
  <2>2. grabs' \subseteq 0..MaxAttempts
    <3>1. CASE Shutter
      <4>1. camera.attempt \in 0..MaxAttempts
        BY DEF Inv, TypeOK
      <4>2. shown.step \in Slots
        BY <3>1, Shapes DEF Shutter, Inv, Sound
      <4> QED BY <3>1, <4>1, <4>2 DEF Shutter, Inv, TypeOK
    <3>2. CASE ~Shutter
      BY <3>2 DEF Inv, TypeOK, StartCamera, StopCamera, GrabFails, vars
    <3> QED BY <3>1, <3>2
  <2> QED BY <1>1, <2>1, <2>2 DEF Inv, TypeOK
<1> QED BY <1>1, <1>2
     DEF Inv, Sound, Filled, Lag, Numbered, Edited, PhotosWereAccepted, AnalysisIsAwaited

-----------------------------------------------------------------------------
(* The theorems *)

LEMMA StepInv == Inv /\ [Next]_vars => Inv'
<1> SUFFICES ASSUME Inv, [Next]_vars PROVE Inv'
  OBVIOUS
<1>1. CASE Render
  BY <1>1, RenderInv
<1>2. CASE Upload
  BY <1>2, UploadInv
<1>3. CASE Retry
  BY <1>3, RetryInv
<1>4. CASE StartEdit
  BY <1>4, StartEditInv
<1>5. ASSUME NEW slot \in Slots, Retake(slot) PROVE Inv'
  BY <1>5, RetakeInv
<1>6. ASSUME NEW req \in Requests, Answers(req) PROVE Inv'
  BY <1>6, AnswerInv DEF Answers
<1>7. ASSUME NEW g \in grabs, Grabbed(g) PROVE Inv'
  BY <1>7, GrabbedInv
<1>8. CASE \/ StartCamera \/ StopCamera \/ Shutter
           \/ \E g \in grabs : GrabFails(g)
           \/ UNCHANGED vars
  BY <1>8, CameraInv
<1> QED BY <1>1, <1>2, <1>3, <1>4, <1>5, <1>6, <1>7, <1>8 DEF Next

LEMMA Invariance == Spec => []Inv
<1>1. Init => Inv
  BY InitInv
<1>2. Inv /\ [Next]_vars => Inv'
  BY StepInv
<1> QED BY <1>1, <1>2, PTL DEF Spec

(* The state, the refs and the requests of the session keep their types,    *)
(* and a pending photo goes with exactly the statuses that need one.        *)
THEOREM TypeCorrectness == Spec => []TypeOK
<1>1. Inv => TypeOK
  BY DEF Inv
<1> QED BY <1>1, Invariance, PTL

(* A slot holds only a photo that the provider accepted for that shot,      *)
(* whatever answers come late and whatever is retried or retaken.           *)
THEOREM OnlyAcceptedPhotos == Spec => []PhotosWereAccepted
<1>1. Inv => PhotosWereAccepted
  BY DEF Inv
<1> QED BY <1>1, Invariance, PTL

(* No required shot is skipped, and editing starts with all three photos.   *)
THEOREM NoShotIsSkipped == Spec => []NothingSkipped
<1>1. Inv => NothingSkipped
  <2>1. SUFFICES ASSUME Inv, NEW i \in 1..3,
                        (\A j \in 1..i : session.step # Order[j]) \/ editing
        PROVE  session.slots[Order[i]] # None
    BY DEF NothingSkipped
  <2>2. CASE editing
    BY <2>2, <2>1 DEF Inv, Edited, Filled
  <2>3. CASE \A j \in 1..i : session.step # Order[j]
    <3>1. session.step \in {"front", "back", "tag", "edit"}
      BY <2>1, Shapes, OrderIs DEF Inv, Sound
    <3>2. /\ session.step # "front"
          /\ i >= 2 => session.step # "back"
          /\ i = 3 => session.step # "tag"
      BY <2>3, OrderIs
    <3> QED BY <2>1, <3>1, <3>2 DEF Inv, Sound, Filled
  <2> QED BY <2>1, <2>2, <2>3
<1> QED BY <1>1, Invariance, PTL

(* While a photo is being analysed, the provider owes an answer to the very *)
(* request the session waits for.                                           *)
THEOREM SomeoneAnswers == Spec => []AnalysisIsAwaited
<1>1. Inv => AnalysisIsAwaited
  BY DEF Inv
<1> QED BY <1>1, Invariance, PTL

(* Only an answer that accepts the photo under assessment changes a slot:   *)
(* the one of the step.                                                     *)
LEMMA SlotsChange ==
  ASSUME Inv, Next, NEW s \in Slots, session'.slots[s] # session.slots[s]
  PROVE  session.step = s /\ session'.slots[s] # None
<1>1. session'.slots # session.slots
  OBVIOUS
<1>2. CASE Render \/ StartCamera \/ StopCamera \/ Shutter \/ \E g \in grabs : GrabFails(g)
  BY <1>1, <1>2 DEF Render, StartCamera, StopCamera, Shutter, GrabFails
<1>3. CASE Upload \/ \E g \in grabs : Grabbed(g)
  <2>1. session' = session \/ session' = Submitted(session, Capture)
    BY <1>3 DEF Upload, Grabbed
  <2>2. Submitted(session, Capture).slots = session.slots
    BY DEF Submitted, State
  <2> QED BY <1>1, <2>1, <2>2
<1>4. CASE Retry \/ StartEdit \/ \E slot \in Slots : Retake(slot)
  <2>1. \/ session' = Retried(session, made + 1)
        \/ session' = EditRequested(session)
        \/ \E slot \in Slots : session' = Retaken(session, slot)
    BY <1>4 DEF Retry, StartEdit, Retake, Click
  <2>2. /\ Retried(session, made + 1).slots = session.slots
        /\ EditRequested(session).slots = session.slots
        /\ \A slot \in Slots : Retaken(session, slot).slots = session.slots
    BY DEF Retried, EditRequested, Retaken, State
  <2> QED BY <1>1, <2>1, <2>2
<1>5. ASSUME NEW r \in asking, NEW verdict \in {"accept", "reject", "error"},
             Answer(r, verdict)
      PROVE  session.step = s /\ session'.slots[s] # None
  <2>1. CASE verdict = "error"
    BY <1>1, <1>5, <2>1 DEF Answer, ProviderFailed, State
  <2>2. CASE verdict # "error"
    <3>1. Awaits(session, r) /\ verdict = "accept"
      BY <1>1, <1>5, <2>2 DEF Answer, Assessed, State
    <3>2. /\ r.slot = session.step /\ session.pending.photo \in Requests
          /\ session'.slots = [session.slots EXCEPT ![session.step] = session.pending.photo]
      BY <1>5, <3>1, AssessedSound DEF Inv, Answer
    <3>3. session.slots \in Photos
      BY Shapes DEF Inv, Sound
    <3> QED BY <3>2, <3>3, NoneAssumption DEF Photos
  <2> QED BY <2>1, <2>2
<1> QED BY <1>2, <1>3, <1>4, <1>5 DEF Next, Answers

(* An accepted photo stays until another one for the same shot is accepted. *)
THEOREM AcceptedIsKept == Spec => AcceptedPhotosAreKept
<1>1. Inv /\ [Next]_vars =>
        [\A s \in Slots : session'.slots[s] # session.slots[s] =>
           session.step = s /\ session'.slots[s] # None]_vars
  BY SlotsChange
<1> QED BY <1>1, Invariance, PTL DEF Spec, AcceptedPhotosAreKept

-----------------------------------------------------------------------------
(* The session implements GuidedCapture *)

(* Once editing has started there is nothing left to render or to change.   *)
EndedInv == editing => session = shown /\ session.status = "ready_to_edit"

LEMMA EndedStep == Inv /\ EndedInv /\ [Next]_vars => EndedInv'
<1> SUFFICES ASSUME Inv, EndedInv, [Next]_vars, editing' PROVE (session = shown)' /\ session'.status = "ready_to_edit"
  BY DEF EndedInv
<1>1. CASE StartEdit
  <2>1. session.status = "ready_to_edit"
    BY <1>1 DEF StartEdit, Inv, Lag
  <2>2. EditRequested(session).status = "ready_to_edit"
    BY <2>1 DEF EditRequested, State
  <2> QED BY <1>1, <2>2 DEF StartEdit, Click, Commit
<1>2. CASE editing
  <2>1. /\ session = shown /\ session.status = "ready_to_edit" /\ session.step = "edit"
        /\ session.step \notin Slots
    BY <1>2, Shapes, OrderIs DEF EndedInv, Inv, Sound
  <2>2. ~Upload /\ ~Retry /\ ~Shutter /\ ~Render /\ \A slot \in Slots : ~Retake(slot)
    BY <2>1 DEF Upload, CanSubmit, Retry, Shutter, Render, Retake
  <2>3. ASSUME NEW g \in grabs, Grabbed(g) PROVE UNCHANGED <<session, shown>>
    BY <2>1, <2>3 DEF Grabbed, CanSubmit
  <2>4. ASSUME NEW r \in asking, NEW verdict \in {"accept", "reject", "error"}, Answer(r, verdict)
        PROVE  UNCHANGED <<session, shown>>
    BY <2>1, <2>4 DEF Answer, ProviderFailed, Assessed, Awaits
  <2>5. CASE \/ StartCamera \/ StopCamera
             \/ \E g \in grabs : GrabFails(g)
             \/ UNCHANGED vars
    BY <2>1, <2>5 DEF StartCamera, StopCamera, GrabFails, vars
  <2> QED BY <1>1, <2>1, <2>2, <2>3, <2>4, <2>5 DEF Next, Answers
<1>3. CASE ~editing /\ ~StartEdit
  BY <1>3 DEF Next, Render, Upload, Retry, Retake, Answers, Answer, StartCamera, StopCamera,
              Shutter, Grabbed, GrabFails, vars
<1> QED BY <1>1, <1>2, <1>3

(* What the wizard's review is, for each state.                             *)
Review(s) == IF s.pending = None THEN None ELSE s.pending.photo
Waiting(s) == s.status = "analyzing"

LEMMA WizardIs ==
  /\ Wizard!Shots = Slots
  /\ Wizard!captureVars =
       <<session.step, session.slots, Review(session), Waiting(session), editing, passed>>
BY OrderIs DEF Wizard!Shots, Wizard!captureVars, Review, Waiting, Slots, Order

LEMMA FirstMissingIs ==
  ASSUME NEW slots \in Photos
  PROVE  Wizard!FirstMissing(NextStep(slots), slots)
<1>1. Len(Order) = 3 /\ 1..(1 - 1) = {} /\ 1..(2 - 1) = {1} /\ 1..(3 - 1) = {1, 2}
      /\ 1..3 = {1, 2, 3}
  BY DEF Order
<1>2. CASE slots["front"] = None
  BY <1>1, <1>2, NextStepIs, OrderIs DEF Wizard!FirstMissing
<1>3. CASE slots["front"] # None /\ slots["back"] = None
  BY <1>1, <1>3, NextStepIs, OrderIs DEF Wizard!FirstMissing
<1>4. CASE slots["front"] # None /\ slots["back"] # None /\ slots["tag"] = None
  BY <1>1, <1>4, NextStepIs, OrderIs DEF Wizard!FirstMissing
<1>5. CASE slots["front"] # None /\ slots["back"] # None /\ slots["tag"] # None
  BY <1>1, <1>5, NextStepIs, OrderIs DEF Wizard!FirstMissing
<1> QED BY <1>2, <1>3, <1>4, <1>5

(* A submission takes a photo, or is ignored.                               *)
LEMMA SubmitWizard ==
  ASSUME Inv, CanSubmit, made + 1 \in Requests,
         session' = Submitted(session, Capture), UNCHANGED <<editing, passed>>
  PROVE  [Wizard!Next]_Wizard!captureVars
<1>1. CASE session.status = "capturing" /\ session.step = shown.step
  <2>1. session.step \in Slots /\ session.pending = None
    BY <1>1, Shapes DEF Inv, Sound
  <2>2. /\ session'.step = session.step /\ session'.slots = session.slots
        /\ session'.pending = Capture /\ session'.status = "analyzing"
    BY <1>1 DEF Submitted, State, Capture
  <2>3. Capture # None /\ Capture.photo = made + 1
    BY NoneAssumption DEF Capture, CanSubmit, Pending
  <2>4. Wizard!Take(made + 1)
    BY <2>1, <2>2, <2>3, WizardIs DEF Wizard!Take, Review, Waiting
  <2> QED BY <2>4 DEF Wizard!Next
<1>2. CASE ~(session.status = "capturing" /\ session.step = shown.step)
  BY <1>2, WizardIs DEF Submitted, Capture, Review, Waiting, Wizard!captureVars
<1> QED BY <1>1, <1>2

LEMMA AnswerWizard ==
  ASSUME Inv, NEW r \in asking, NEW verdict \in {"accept", "reject", "error"}, Answer(r, verdict)
  PROVE  [Wizard!Next]_Wizard!captureVars
<1>1. UNCHANGED editing
  BY DEF Answer
<1>2. r.slot \in Slots /\ r.photo \in Requests
  BY DEF Inv, TypeOK
<1>3. CASE ~Awaits(session, r)
  <2>1. session' = session
    BY <1>3 DEF Answer, ProviderFailed, Assessed
  <2>2. CASE verdict = "accept"
    <3>1. Wizard!Late(r.slot, r.photo)
      BY <1>1, <2>1, <2>2, WizardIs DEF Wizard!Late, Answer
    <3> QED BY <1>2, <3>1, WizardIs DEF Wizard!Next
  <2>3. CASE verdict # "accept"
    BY <1>1, <2>1, <2>3 DEF Answer, Wizard!captureVars
  <2> QED BY <2>2, <2>3
<1>4. CASE Awaits(session, r)
  <2>1. /\ session.status = "analyzing" /\ r.slot = session.step
        /\ session.pending \in Pending /\ session.pending # None
    BY <1>4, Shapes, NoneAssumption DEF Awaits, Inv, Sound
  <2>2. r.photo = session.pending.photo
    BY <1>4, <2>1 DEF Awaits, Inv, Numbered
  <2>3. CASE verdict = "error"
    <3>1. /\ session'.step = session.step /\ session'.slots = session.slots
          /\ session'.pending = session.pending /\ session'.status = "error"
      BY <1>4, <2>3 DEF Answer, ProviderFailed, State
    <3>2. Wizard!Fail
      BY <1>1, <2>1, <2>3, <3>1 DEF Wizard!Fail, Answer
    <3> QED BY <3>2 DEF Wizard!Next
  <2>4. CASE verdict = "reject"
    <3>1. session' = State(session.step,
                           IF session.step = "edit" THEN "ready_to_edit" ELSE "capturing",
                           session.slots, None)
      BY <1>4, <2>4 DEF Answer, Assessed
    <3>2. /\ session'.step = session.step /\ session'.slots = session.slots
          /\ session'.pending = None /\ session'.status # "analyzing"
      BY <3>1 DEF State
    <3>3. Wizard!Reject
      BY <1>1, <2>1, <2>4, <3>2 DEF Wizard!Reject, Answer
    <3> QED BY <3>3 DEF Wizard!Next
  <2>5. CASE verdict = "accept"
    <3> DEFINE slots == [session.slots EXCEPT ![session.step] = session.pending.photo]
    <3>1. session' = State(NextStep(slots),
                           IF NextStep(slots) = "edit" THEN "ready_to_edit" ELSE "capturing",
                           slots, None)
      BY <1>4, <2>1, <2>5 DEF Answer, Assessed
    <3>2. slots \in Photos
      BY <2>1, Shapes DEF Inv, Sound, Photos, Pending
    <3>3. /\ session'.step = NextStep(slots) /\ session'.slots = slots
          /\ session'.pending = None /\ session'.status # "analyzing"
      BY <3>1 DEF State
    <3>4. Wizard!FirstMissing(NextStep(slots), slots)
      BY <3>2, FirstMissingIs
    <3>5. passed' = passed \cup {<<session.step, session.pending.photo>>}
      BY <2>1, <2>2, <2>5 DEF Answer
    <3>6. Wizard!Accept
      BY <1>1, <2>1, <3>3, <3>4, <3>5 DEF Wizard!Accept
    <3> QED BY <3>6 DEF Wizard!Next
  <2> QED BY <2>3, <2>4, <2>5
<1> QED BY <1>3, <1>4

LEMMA RetryWizard == ASSUME Inv, Retry PROVE [Wizard!Next]_Wizard!captureVars
<1>1. session = shown /\ session.status = "error" /\ session.pending \in Pending
  BY Shapes DEF Retry, Inv, Lag, Sound
<1>2. [session.pending EXCEPT !.req = made + 1] \in [slot : Slots, photo : Requests, req : Requests]
      /\ [session.pending EXCEPT !.req = made + 1].photo = session.pending.photo
  BY <1>1, BoundsAssumption DEF Pending, Retry, Ask, Inv, TypeOK, Requests
<1>3. /\ session'.step = session.step /\ session'.slots = session.slots
      /\ session'.pending = [session.pending EXCEPT !.req = made + 1]
      /\ session'.status = "analyzing"
  BY <1>1 DEF Retry, Click, Retried, State
<1>4. session.pending # None /\ session'.pending # None
  BY <1>1, <1>2, <1>3, NoneAssumption DEF Pending
<1>5. session.pending.photo # None
  BY <1>1, NoneAssumption DEF Pending
<1>6. Wizard!Retry
  BY <1>1, <1>2, <1>3, <1>4, <1>5 DEF Wizard!Retry, Retry
<1> QED BY <1>6 DEF Wizard!Next

LEMMA RetakeWizard ==
  ASSUME Inv, EndedInv, NEW slot \in Slots, Retake(slot)
  PROVE  [Wizard!Next]_Wizard!captureVars
<1>1. session' = Retaken(session, slot) /\ UNCHANGED <<editing, passed>>
  BY DEF Retake, Click
<1>2. ~editing
  BY Shapes, OrderIs DEF EndedInv, Retake, Inv, Sound
<1>3. CASE session.slots[slot] # None \/ session.step = slot
  <2>1. /\ session'.step = slot /\ session'.slots = session.slots
        /\ session'.pending = None /\ session'.status = "capturing"
    BY <1>1, <1>3 DEF Retaken, State
  <2>2. Wizard!GoBack(slot)
    BY <1>1, <1>2, <1>3, <2>1 DEF Wizard!GoBack
  <2> QED BY <2>2, WizardIs DEF Wizard!Next
<1>4. CASE ~(session.slots[slot] # None \/ session.step = slot)
  BY <1>1, <1>4 DEF Retaken, Wizard!captureVars
<1> QED BY <1>3, <1>4

LEMMA EditWizard == ASSUME Inv, StartEdit PROVE [Wizard!Next]_Wizard!captureVars
<1>1. session.status = "ready_to_edit" /\ session.step = "edit" /\ session.pending = None
  BY Shapes DEF StartEdit, Inv, Lag, Sound
<1>2. /\ session'.step = session.step /\ session'.slots = session.slots
      /\ session'.pending = session.pending /\ session'.status = session.status
  BY <1>1 DEF StartEdit, Click, EditRequested, State
<1>3. Wizard!Edit
  BY <1>1, <1>2 DEF Wizard!Edit, StartEdit
<1> QED BY <1>3 DEF Wizard!Next

(* For any number of requests, late answers, retries and retakes, and       *)
(* whatever React has not rendered yet, the session is a GuidedCapture: one *)
(* photo under review, moved on by its own verdict only, and nothing        *)
(* changes once editing has started.                                        *)
THEOREM SessionIsGuidedCapture == Spec => ImplementsGuidedCapture
<1>1. Init => Wizard!Init
  BY OrderIs, WizardIs DEF Init, Start0, Wizard!Init
<1>2. Inv /\ EndedInv /\ [Next]_vars => [Wizard!Next]_Wizard!captureVars
  <2> SUFFICES ASSUME Inv, EndedInv, [Next]_vars PROVE [Wizard!Next]_Wizard!captureVars
    OBVIOUS
  <2>1. CASE Upload \/ \E g \in grabs : Grabbed(g)
    <3>1. CASE UNCHANGED <<session, editing, passed>>
      BY <3>1 DEF Wizard!captureVars
    <3>2. CASE \/ Upload
               \/ CanSubmit /\ (\E g \in grabs : Ask(shown.step, made + 1, g))
                  /\ session' = Submitted(session, Capture) /\ UNCHANGED <<editing, passed>>
      <4>1. made < MaxRequests /\ made \in 0..MaxRequests
        BY <3>2 DEF Upload, Ask, Inv, TypeOK
      <4>2. made + 1 \in Requests
        BY <4>1, BoundsAssumption DEF Requests
      <4> QED BY <3>2, <4>2, SubmitWizard DEF Upload
    <3> QED BY <2>1, <3>1, <3>2 DEF Grabbed
  <2>2. ASSUME NEW req \in Requests, Answers(req) PROVE [Wizard!Next]_Wizard!captureVars
    BY <2>2, AnswerWizard DEF Answers
  <2>3. CASE \/ Render \/ StartCamera \/ StopCamera \/ Shutter
             \/ \E g \in grabs : GrabFails(g)
             \/ UNCHANGED vars
    BY <2>3 DEF Render, StartCamera, StopCamera, Shutter, GrabFails, vars, Wizard!captureVars
  <2> QED BY <2>1, <2>2, <2>3, RetryWizard, EditWizard, RetakeWizard DEF Next
<1>3. Init => EndedInv
  BY DEF Init, EndedInv
<1> QED BY <1>1, <1>2, <1>3, EndedStep, Invariance, PTL
     DEF Spec, ImplementsGuidedCapture, Wizard!Spec
=============================================================================
