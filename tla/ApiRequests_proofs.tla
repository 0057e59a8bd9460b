------------------------ MODULE ApiRequests_proofs ------------------------
(***************************************************************************)
(* Proofs about ApiRequests, for any number of requests and of overlapping *)
(* jobs.  A step concerns one request: the invariant Sound(r) is kept by   *)
(* the others because all that a step changes for them is the list of      *)
(* warning filters, and Sound(r) does not mention it.                      *)
(***************************************************************************)
EXTENDS ApiRequests, FiniteSets, FiniteSetTheorems, TLAPS

Ends == {"judged", "returned"}

(* Where a coroutine can be for a kind of request, and the job it has there. *)
Placed(r) ==
  /\ stage[r] # "answered" => answer[r] = "none"
  /\ stage[r] = "checking" =>
       kind[r] \in ImageKinds /\ job[r] = "check" /\ input[r] \in Images \ {"refused"}
  /\ stage[r] \in {"sizing", "unmasking", "proving"} => kind[r] = "mask"
  /\ stage[r] = "unmasking" => job[r] = "unmask"
  /\ stage[r] = "decoding" => kind[r] = "background" /\ job[r] = "decode"
  /\ stage[r] \in {"asking", "cancelling"} =>
       kind[r] \in {"mask", "background"} \/ (kind[r] \in {"shot", "points"} /\ mode = "live")

(* What the job found is true of the upload, and only a good one is past it. *)
ImageSound(r) ==
  /\ stage[r] \in Waiting \ {"checking"} /\ kind[r] \in ImageKinds => input[r] = "good"
  /\ stage[r] = "checking" /\ at[r] \in Ends =>
       /\ verdict[r] = "ok" => input[r] = "good"
       /\ verdict[r] = "rejected" => input[r] # "good"

(* What the job found is true of the reply. *)
ReplySound(r) ==
  /\ stage[r] = "unmasking" /\ at[r] \in Ends /\ verdict[r] = "ok" => MaskShape(reply[r])
  /\ stage[r] = "proving" => MaskShape(reply[r])
  /\ stage[r] = "decoding" =>
       /\ SingleImage(reply[r])
       /\ at[r] \in Ends /\ verdict[r] = "ok" =>
            PictureFits(reply[r]) /\ PictureShape(reply[r].picture)

TakenRightly(r) ==
  kind[r] \in ImageKinds =>
    /\ stage[r] \in Waiting \ {"checking"} => input[r] = "good"
    /\ answer[r] \in {"OK", "INVALID_RESPONSE", "TIMEOUT"} => input[r] = "good"
    /\ answer[r] = "INVALID_INPUT" => input[r] # "good"

Honest(r) ==
  answer[r] = "OK" =>
    /\ kind[r] \in {"shot", "points"} => Assessed(r)
    /\ kind[r] = "mask" => MaskShape(reply[r])
    /\ kind[r] = "background" => /\ SingleImage(reply[r]) /\ PictureFits(reply[r])
                                 /\ PictureShape(reply[r].picture)
    /\ kind[r] = "token" => Granted(r)

Sound(r) == Placed(r) /\ ImageSound(r) /\ ReplySound(r) /\ TakenRightly(r) /\ Honest(r)

ApiInv == TypeOK /\ \A r \in Requests : Sound(r)

-----------------------------------------------------------------------------
(* Lemmas about the contracts *)

(* The lifetime a token is minted with is positive and at most the code's   *)
(* ceiling, whatever integers the two configured values are: zero, negative *)
(* or larger than the ceiling.                                              *)
THEOREM TokensAreShort ==
  ASSUME NEW ttl \in Int, NEW max \in Int
  PROVE  /\ EffectiveTtl(ttl, max) \in 1..HardMax
         /\ max >= 1 => EffectiveTtl(ttl, max) <= max
BY DEF EffectiveTtl, Least, Largest, HardMax

(* A missing, malformed or non-positive environment value becomes the       *)
(* default, so what is configured is always a positive integer.             *)
LEMMA PositiveIntIsPositive ==
  ASSUME NEW raw \in Int \cup {Absent, Junk}, NEW default \in Nat \ {0}
  PROVE  /\ PositiveInt(raw, default) \in Nat \ {0}
         /\ raw \in Nat \ {0} => PositiveInt(raw, default) = raw
BY NoNumberAssumption DEF PositiveInt

(* What the fixture provider answers satisfies the contract that a live     *)
(* provider's answer is checked against.                                    *)
THEOREM FixturesAreContractual ==
  ASSUME NEW k \in {"shot", "points"}, NEW value \in FixtureReplies(k)
  PROVE  Contractual(k, value)
<1>1. \A shot \in RequestedShots : ValidAssessment(FixtureAssessment(shot))
  <2>1. SUFFICES ASSUME NEW shot \in RequestedShots
                 PROVE  ValidAssessment(FixtureAssessment(shot))
    OBVIOUS
  <2>2. IsObject(FixtureAssessment(shot))
    BY ObjectAssumption
  <2>3. DOMAIN FixtureAssessment(shot) =
          {"shotType", "quality", "issues", "missingShots", "nextAction"}
    BY DEF FixtureAssessment
  <2>4. MissingAfter(shot) \subseteq RequestedShots
    BY DEF MissingAfter, RequestedShots
  <2>5. /\ FixtureAssessment(shot).shotType \in RequestedShots \cup {"unknown"}
        /\ FixtureAssessment(shot).quality \in {"ok", "retry"}
        /\ FixtureAssessment(shot).issues \subseteq Issues
        /\ FixtureAssessment(shot).missingShots \subseteq RequestedShots
        /\ FixtureAssessment(shot).nextAction \in {"RETAKE", "REQUEST_NEXT", "COMPLETE"}
    BY <2>4 DEF FixtureAssessment
  <2>. QED  BY <2>2, <2>3, <2>5 DEF ValidAssessment, HasOnly
<1>2. ValidEndpoints(FixtureEndpoints)
  <2>1. HasOnly(FixtureEndpoints, EndpointKeys)
    BY ObjectAssumption DEF HasOnly, FixtureEndpoints
  <2>2. NormalizedPoint(FixturePoint)
    BY ObjectAssumption, ScaleAssumption DEF NormalizedPoint, HasOnly, FixturePoint
  <2>. QED  BY <2>1, <2>2 DEF ValidEndpoints, FixtureEndpoints
<1>. QED  BY <1>1, <1>2 DEF FixtureReplies, Contractual

-----------------------------------------------------------------------------
(* Types *)

JobTypes ==
  /\ job \in [Requests -> Jobs \cup {"none"}]
  /\ at \in [Requests -> {"idle", "queued", "entered", "armed", "judged", "returned"}]
  /\ saved \in [Requests -> Lists]
  /\ verdict \in [Requests -> Findings \cup {"none"}]
  /\ filters \in Lists
  /\ armed \subseteq Lists

RequestTypes ==
  /\ mode \in {"fixture", "live", "keyless"} /\ process \in {"api", "smoke"}
  /\ kind \in [Requests -> Kinds \cup {"none"}]
  /\ DOMAIN input = Requests

LoopTypes ==
  /\ stage \in [Requests -> Waiting \cup {"absent", "answered"}]
  /\ answer \in [Requests -> Codes \cup {"none"}]
  /\ DOMAIN reply = Requests

LEMMA SubmitsTyped ==
  ASSUME TypeOK, NEW r \in Requests, NEW j \in Jobs, Submits(r, j)
  PROVE  JobTypes'
BY DEF Submits, TypeOK, JobTypes

LEMMA CollectedTyped ==
  ASSUME TypeOK, NEW r \in Requests, Collected(r)
  PROVE  JobTypes'
BY DEF Collected, Judges, TypeOK, JobTypes

LEMMA KeptTyped == TypeOK /\ Kept => RequestTypes'
BY DEF TypeOK, Kept, RequestTypes

LEMMA JobsKeptTyped == TypeOK /\ UNCHANGED jobVars => JobTypes'
BY DEF TypeOK, jobVars, JobTypes

LEMMA ThreadTyped ==
  ASSUME TypeOK, NEW r \in Requests, Thread(r)
  PROVE  TypeOK'
<1>1. RequestTypes' /\ LoopTypes'
  BY DEF Thread, Kept, TypeOK, RequestTypes, LoopTypes
<1>2. JobTypes'
  <2>1. CASE NoPillow(r)
    BY <2>1 DEF NoPillow, Judges, TypeOK, JobTypes, Findings
  <2>2. CASE Enter(r)
    BY <2>2 DEF Enter, TypeOK, JobTypes
  <2>3. CASE Arm(r)
    BY <2>3 DEF Arm, TypeOK, JobTypes
  <2>4. CASE Look(r)
    BY <2>4 DEF Look, Judges, TypeOK, JobTypes
  <2>5. CASE Leave(r)
    BY <2>5, MaxListsAssumption DEF Leave, TypeOK, JobTypes, Lists
  <2>6. CASE Prove(r)
    BY <2>6 DEF Prove, Judges, TypeOK, JobTypes
  <2>. QED  BY <2>1, <2>2, <2>3, <2>4, <2>5, <2>6 DEF Thread
<1>. QED  BY <1>1, <1>2 DEF TypeOK, RequestTypes, LoopTypes, JobTypes

LEMMA TakesTyped ==
  ASSUME TypeOK, NEW r \in Requests, Takes(r) \/ Fails(r)
  PROVE  LoopTypes' /\ JobTypes'
<1>1. CASE TakesResponse(r)
  BY <1>1, JobsKeptTyped DEF TakesResponse, Answers, TypeOK, LoopTypes, Codes
<1>2. CASE TakesMask(r)
  <2>1. CASE \E sidecar \in SidecarReplies :
               /\ Answers(r, IF SidecarFailed(sidecar) THEN "UNAVAILABLE" ELSE "INVALID_RESPONSE")
               /\ UNCHANGED <<reply, jobVars>>
    BY <2>1, JobsKeptTyped DEF Answers, TypeOK, LoopTypes, Codes
  <2>2. CASE \E mask \in Masks :
               /\ reply' = [reply EXCEPT ![r] = mask]
               /\ Goes(r, "unmasking") /\ Submits(r, "unmask")
    BY <2>2, SubmitsTyped DEF Goes, TypeOK, LoopTypes, Waiting, Jobs
  <2>. QED  BY <1>2, <2>1, <2>2 DEF TakesMask
<1>3. CASE TakesPicture(r)
  <2>1. CASE Answers(r, "INVALID_RESPONSE") /\ UNCHANGED <<reply, jobVars>>
    BY <2>1, JobsKeptTyped DEF Answers, TypeOK, LoopTypes, Codes
  <2>2. CASE \E pictures \in PictureReplies :
               /\ reply' = [reply EXCEPT ![r] = pictures]
               /\ Goes(r, "decoding") /\ Submits(r, "decode")
    BY <2>2, SubmitsTyped DEF Goes, TypeOK, LoopTypes, Waiting, Jobs
  <2>. QED  BY <1>3, <2>1, <2>2 DEF TakesPicture
<1>4. CASE Fails(r)
  BY <1>4, JobsKeptTyped DEF Fails, Answers, TypeOK, LoopTypes, Codes
<1>. QED  BY <1>1, <1>2, <1>3, <1>4 DEF Takes

LEMMA AsksTyped ==
  ASSUME TypeOK, NEW r \in Requests, PostImage(r) \/ Generate(r) \/ PostToken(r)
  PROVE  TypeOK'
<1>1. RequestTypes'
  <2>1. ASSUME NEW k \in Kinds, NEW i, Asks(r, k, i)
        PROVE  RequestTypes'
    BY <2>1 DEF Asks, TypeOK, RequestTypes
  <2>. QED  BY <2>1 DEF PostImage, Generate, PostToken, Kinds
<1>2. LoopTypes' /\ JobTypes'
  <2>1. CASE PostImage(r)
    <3>1. PICK i \in Images :
            /\ \/ i = "refused" /\ Answers(r, "INVALID_INPUT") /\ UNCHANGED jobVars
               \/ i # "refused" /\ Goes(r, "checking") /\ Submits(r, "check")
            /\ UNCHANGED reply
      BY <2>1 DEF PostImage
    <3>. QED  BY <3>1, JobsKeptTyped, SubmitsTyped
              DEF Answers, Goes, TypeOK, LoopTypes, Codes, Waiting, Jobs
  <2>2. CASE Generate(r)
    <3>1. LoopTypes'
      BY <2>2 DEF Generate, Answers, Goes, TypeOK, LoopTypes, Codes, Waiting
    <3>. QED  BY <2>2, <3>1, JobsKeptTyped DEF Generate
  <2>3. CASE PostToken(r)
    <3>1. PICK config \in TokenConfigs :
            \/ Answers(r, "INVALID_INPUT") /\ UNCHANGED reply
            \/ Answers(r, "UNAVAILABLE") /\ UNCHANGED reply
            \/ \E lifetime \in {TtlOf(config), 3600}, subscribe \in BOOLEAN :
                 /\ reply' = [reply EXCEPT ![r] = Token(lifetime, subscribe)]
                 /\ Answers(r, IF ClaimsHold(Token(lifetime, subscribe), TtlOf(config))
                                 THEN "OK" ELSE "UNAVAILABLE")
      BY <2>3 DEF PostToken
    <3>2. LoopTypes'
      <4>1. CASE \/ Answers(r, "INVALID_INPUT") /\ UNCHANGED reply
                 \/ Answers(r, "UNAVAILABLE") /\ UNCHANGED reply
        BY <4>1 DEF Answers, TypeOK, LoopTypes, Codes
      <4>2. ASSUME NEW lifetime, NEW subscribe,
                   reply' = [reply EXCEPT ![r] = Token(lifetime, subscribe)],
                   Answers(r, IF ClaimsHold(Token(lifetime, subscribe), TtlOf(config))
                                THEN "OK" ELSE "UNAVAILABLE")
            PROVE  LoopTypes'
        BY <4>2 DEF Answers, TypeOK, LoopTypes, Codes
      <4>. QED  BY <3>1, <4>1, <4>2
    <3>. QED  BY <2>3, <3>2, JobsKeptTyped DEF PostToken
  <2>. QED  BY <2>1, <2>2, <2>3
<1>. QED  BY <1>1, <1>2 DEF TypeOK, RequestTypes, LoopTypes, JobTypes

LEMMA LoopTyped ==
  ASSUME TypeOK, NEW r \in Requests, Loop(r)
  PROVE  TypeOK'
<1>1. RequestTypes'
  BY KeptTyped DEF Loop, Checked, Sized, Unmasked, Finished, Abandoned
<1>2. JobTypes'
  BY CollectedTyped, SubmitsTyped
     DEF Loop, Checked, Sized, Unmasked, Finished, Abandoned, Spoilt, Jobs
<1>3. LoopTypes'
  <2>1. ASSUME AskProvider(r)
        PROVE  LoopTypes'
    BY <2>1 DEF AskProvider, Answers, Goes, TypeOK, LoopTypes, Codes, Waiting
  <2>2. ASSUME Spoilt(r)
        PROVE  LoopTypes'
    BY <2>2 DEF Spoilt, Forgets, Answers, TypeOK, LoopTypes, Codes
  <2>3. CASE Checked(r)
    BY <2>1, <2>3 DEF Checked, Answers, Goes, TypeOK, LoopTypes, Codes, Waiting
  <2>4. CASE Sized(r) \/ Unmasked(r) \/ Finished(r)
    BY <2>2, <2>4 DEF Sized, Unmasked, Finished, Answers, Goes, TypeOK, LoopTypes, Codes, Waiting
  <2>5. CASE Abandoned(r)
    BY <2>5 DEF Abandoned, TypeOK, LoopTypes
  <2>. QED  BY <2>3, <2>4, <2>5 DEF Loop
<1>. QED  BY <1>1, <1>2, <1>3 DEF TypeOK, RequestTypes, LoopTypes, JobTypes

LEMMA EndTyped ==
  ASSUME TypeOK, NEW r \in Requests, Deadline(r) \/ CancelEnds(r)
  PROVE  TypeOK'
<1>1. RequestTypes'
  BY KeptTyped DEF Deadline, CancelEnds
<1>2. JobTypes'
  BY JobsKeptTyped DEF Deadline, CancelEnds, TypeOK, JobTypes
<1>3. LoopTypes'
  BY DEF Deadline, CancelEnds, Answers, Goes, TypeOK, LoopTypes, Codes, Waiting
<1>. QED  BY <1>1, <1>2, <1>3 DEF TypeOK, RequestTypes, LoopTypes, JobTypes

LEMMA TypeStep == TypeOK /\ [Next]_vars => TypeOK'
<1>1. SUFFICES ASSUME TypeOK, [Next]_vars
               PROVE  TypeOK'
  OBVIOUS
<1>2. CASE UNCHANGED vars
  BY <1>1, <1>2 DEF vars, TypeOK
<1>3. ASSUME NEW r \in Requests, Returns(r) \/ ReturnsLate(r)
      PROVE  TypeOK'
  BY <1>1, <1>3, TakesTyped, KeptTyped DEF Returns, ReturnsLate, TypeOK, RequestTypes, LoopTypes, JobTypes
<1>. QED  BY <1>1, <1>2, <1>3, ThreadTyped, AsksTyped, LoopTyped, EndTyped DEF Next

LEMMA TypeInit == Init => TypeOK
BY MaxListsAssumption DEF Init, TypeOK, Lists

-----------------------------------------------------------------------------
(* One request's step *)

(* Nothing changes for the other requests but the warning filters.          *)
Alone(r) ==
  /\ mode' = mode
  /\ \A q \in Requests \ {r} :
       /\ kind'[q] = kind[q] /\ input'[q] = input[q] /\ stage'[q] = stage[q]
       /\ job'[q] = job[q] /\ at'[q] = at[q] /\ verdict'[q] = verdict[q]
       /\ reply'[q] = reply[q] /\ answer'[q] = answer[q]

LEMMA OthersStaySound ==
  ASSUME ApiInv, NEW r \in Requests, Alone(r)
  PROVE  \A q \in Requests \ {r} : Sound(q)'
<1>1. SUFFICES ASSUME NEW q \in Requests \ {r}
               PROVE  Sound(q)'
  OBVIOUS
<1>2. Sound(q)
  BY DEF ApiInv
<1>3. Placed(q)' /\ ImageSound(q)' /\ ReplySound(q)' /\ TakenRightly(q)'
  BY <1>2 DEF Alone, Sound, Placed, ImageSound, ReplySound, TakenRightly
<1>4. Honest(q)'
  BY <1>2 DEF Alone, Sound, Honest, Assessed, Granted
<1>. QED  BY <1>3, <1>4 DEF Sound

LEMMA ThreadSound ==
  ASSUME ApiInv, NEW r \in Requests, Thread(r)
  PROVE  Alone(r) /\ Sound(r)'
<1>1. TypeOK /\ Sound(r)
  BY DEF ApiInv
<1>2. Alone(r)
  BY <1>1 DEF Thread, NoPillow, Enter, Arm, Look, Leave, Prove, Judges, Kept, Alone, TypeOK
<1>3. /\ kind' = kind /\ input' = input /\ stage' = stage /\ mode' = mode
      /\ reply' = reply /\ answer' = answer /\ job' = job
  BY DEF Thread, NoPillow, Enter, Arm, Look, Leave, Prove, Kept
<1>4. Placed(r)' /\ TakenRightly(r)' /\ Honest(r)'
  BY <1>1, <1>3 DEF Sound, Placed, TakenRightly, Honest, Assessed, Granted
<1>5. ASSUME at'[r] \in Ends
      PROVE  \/ verdict'[r] = "unavailable"
             \/ at[r] \in Ends /\ verdict'[r] = verdict[r]
             \/ Finds(r, verdict'[r])
  BY <1>1, <1>5 DEF Thread, NoPillow, Enter, Arm, Look, Leave, Prove, Judges, Ends, TypeOK
<1>6. ImageSound(r)'
  <2>1. stage[r] = "checking" /\ Finds(r, verdict'[r]) =>
          /\ verdict'[r] = "ok" => input[r] # "foreign" /\ input[r] # "large"
          /\ verdict'[r] = "rejected" => input[r] \in {"foreign", "large"}
    BY <1>1 DEF Sound, Placed, Finds, Rejects, TooLarge, PillowRaises
  <2>. QED  BY <1>1, <1>3, <1>5, <2>1 DEF Sound, Placed, ImageSound, Images
<1>7. ReplySound(r)'
  <2>1. /\ stage[r] = "unmasking" /\ Finds(r, verdict'[r]) /\ verdict'[r] = "ok" => MaskShape(reply[r])
        /\ stage[r] = "decoding" /\ Finds(r, verdict'[r]) /\ verdict'[r] = "ok" =>
             PictureFits(reply[r]) /\ PictureShape(reply[r].picture)
    BY <1>1 DEF Sound, Placed, Finds
  <2>. QED  BY <1>1, <1>3, <1>5, <2>1 DEF Sound, ReplySound
<1>. QED  BY <1>2, <1>4, <1>6, <1>7 DEF Sound

LEMMA LoopSound ==
  ASSUME ApiInv, NEW r \in Requests, Loop(r)
  PROVE  Alone(r) /\ Sound(r)'
<1>1. TypeOK /\ Sound(r)
  BY DEF ApiInv
<1>2. mode' = mode /\ kind' = kind /\ input' = input
  BY DEF Loop, Checked, Sized, Unmasked, Finished, Abandoned, Kept
<1>3. Alone(r)
  BY <1>1, <1>2 DEF Loop, Checked, Sized, Unmasked, Finished, Abandoned, AskProvider, Spoilt,
                    Forgets, Collected, Submits, Judges, Goes, Answers, Alone, TypeOK
<1>. SUFFICES Sound(r)'
  BY <1>3
<1>4. CASE Checked(r)
  <2>1. /\ stage[r] = "checking" /\ kind[r] \in ImageKinds /\ at[r] \in Ends
        /\ verdict[r] = "ok" => input[r] = "good"
        /\ verdict[r] = "rejected" => input[r] # "good"
    BY <1>1, <1>4 DEF Checked, Sound, Placed, ImageSound, Ends
  <2>2. CASE verdict[r] = "ok" /\ kind[r] = "mask"
    <3>1. stage'[r] = "sizing" /\ answer' = answer
      BY <1>1, <1>4, <2>2 DEF Checked, Goes, TypeOK
    <3>. QED  BY <1>1, <1>2, <2>1, <2>2, <3>1
              DEF Sound, Placed, ImageSound, ReplySound, TakenRightly, Honest, ImageKinds
  <2>3. CASE verdict[r] = "ok" /\ kind[r] # "mask" /\ mode = "fixture"
    <3>1. PICK value \in FixtureReplies(kind[r]) :
            reply'[r] = value /\ stage'[r] = "answered" /\ answer'[r] = "OK"
      BY <1>1, <1>4, <2>3 DEF Checked, AskProvider, Answers, TypeOK
    <3>2. kind[r] \in {"shot", "points"}
      BY <2>1, <2>3 DEF ImageKinds
    <3>3. Assessed(r)'
      BY <1>2, <2>3, <3>1, <3>2, FixturesAreContractual DEF Assessed
    <3>. QED  BY <1>2, <2>1, <2>3, <3>1, <3>2, <3>3
              DEF Sound, Placed, ImageSound, ReplySound, TakenRightly, Honest, Waiting
  <2>4. CASE verdict[r] = "ok" /\ kind[r] # "mask" /\ mode = "live"
    <3>1. stage'[r] = "asking" /\ answer' = answer
      BY <1>1, <1>4, <2>4 DEF Checked, AskProvider, Goes, TypeOK
    <3>. QED  BY <1>1, <1>2, <2>1, <2>4, <3>1
              DEF Sound, Placed, ImageSound, ReplySound, TakenRightly, Honest, ImageKinds
  <2>5. CASE \/ verdict[r] = "ok" /\ kind[r] # "mask" /\ mode = "keyless"
             \/ verdict[r] \in {"rejected", "unavailable"}
    <3>1. /\ stage'[r] = "answered"
          /\ \/ answer'[r] = "UNAVAILABLE"
             \/ answer'[r] = "INVALID_INPUT" /\ verdict[r] = "rejected"
      BY <1>1, <1>4, <2>5 DEF Checked, AskProvider, Answers, TypeOK
    <3>. QED  BY <1>2, <2>1, <3>1
              DEF Sound, Placed, ImageSound, ReplySound, TakenRightly, Honest, Waiting
  <2>. QED  BY <1>1, <1>4, <2>2, <2>3, <2>4, <2>5 DEF Checked, TypeOK
<1>5. ASSUME Spoilt(r), stage[r] \in Waiting \ {"checking"}
      PROVE  Sound(r)'
  <2>1. stage'[r] = "answered" /\ answer'[r] \in {"INVALID_RESPONSE", "UNAVAILABLE"}
    BY <1>1, <1>5 DEF Spoilt, Answers, TypeOK
  <2>2. kind[r] \in ImageKinds => input[r] = "good"
    BY <1>1, <1>5 DEF Sound, ImageSound
  <2>. QED  BY <1>2, <2>1, <2>2
            DEF Sound, Placed, ImageSound, ReplySound, TakenRightly, Honest, Waiting
<1>6. CASE Sized(r)
  <2>1. CASE stage'[r] = "asking" /\ answer' = answer
    BY <1>1, <1>2, <1>6, <2>1
       DEF Sized, Sound, Placed, ImageSound, ReplySound, TakenRightly, Honest, Waiting, ImageKinds
  <2>. QED  BY <1>1, <1>5, <1>6, <2>1 DEF Sized, Goes, TypeOK, Waiting
<1>7. CASE Unmasked(r)
  <2>1. CASE stage'[r] = "proving" /\ answer' = answer /\ reply' = reply /\ verdict[r] = "ok"
    BY <1>1, <1>2, <1>7, <2>1
       DEF Unmasked, Sound, Placed, ImageSound, ReplySound, TakenRightly, Honest, Waiting,
           ImageKinds, Ends
  <2>. QED  BY <1>1, <1>5, <1>7, <2>1 DEF Unmasked, Goes, TypeOK, Waiting
<1>8. CASE Finished(r)
  <2>1. CASE /\ stage'[r] = "answered" /\ answer'[r] = "OK" /\ reply' = reply
             /\ verdict[r] = "ok"
    BY <1>1, <1>2, <1>8, <2>1
       DEF Finished, Sound, Placed, ImageSound, ReplySound, TakenRightly, Honest, Waiting,
           ImageKinds, Ends
  <2>. QED  BY <1>1, <1>5, <1>8, <2>1 DEF Finished, Answers, TypeOK, Waiting
<1>9. CASE Abandoned(r)
  <2>1. stage[r] \in {"cancelling", "answered"} /\ stage' = stage /\ reply' = reply /\ answer' = answer
    BY <1>9 DEF Abandoned
  <2>. QED  BY <1>1, <1>2, <2>1
            DEF Sound, Placed, ImageSound, ReplySound, TakenRightly, Honest, Assessed, Granted,
                Waiting
<1>. QED  BY <1>4, <1>6, <1>7, <1>8, <1>9 DEF Loop

LEMMA ReturnSound ==
  ASSUME ApiInv, NEW r \in Requests, Returns(r) \/ ReturnsLate(r)
  PROVE  Alone(r) /\ Sound(r)'
<1>1. TypeOK /\ Sound(r)
  BY DEF ApiInv
<1>2. /\ mode' = mode /\ kind' = kind /\ input' = input
      /\ stage[r] \in {"asking", "cancelling"}
      /\ Takes(r) \/ Fails(r)
  BY DEF Returns, ReturnsLate, Kept
<1>3. /\ kind[r] \in {"mask", "background"} \/ (kind[r] \in {"shot", "points"} /\ mode = "live")
      /\ kind[r] \in ImageKinds => input[r] = "good"
      /\ answer[r] = "none"
  BY <1>1, <1>2 DEF Sound, Placed, ImageSound, Waiting
<1>4. Alone(r)
  BY <1>1, <1>2 DEF Takes, TakesResponse, TakesMask, TakesPicture, Fails, Goes, Answers, Submits,
                    jobVars, Alone, TypeOK
<1>. SUFFICES Sound(r)'
  BY <1>4
<1>5. ASSUME stage'[r] = "answered", answer'[r] # "OK", answer'[r] # "INVALID_INPUT"
      PROVE  Sound(r)'
  BY <1>2, <1>3, <1>5
     DEF Sound, Placed, ImageSound, ReplySound, TakenRightly, Honest, Waiting
<1>6. CASE kind[r] \in {"shot", "points"} /\ TakesResponse(r)
  <2>1. PICK response \in Responses(kind[r]) :
          \/ /\ Contractual(kind[r], ResponsePayload(response))
             /\ reply' = [reply EXCEPT ![r] = ResponsePayload(response)]
             /\ Answers(r, "OK")
          \/ Answers(r, "INVALID_RESPONSE")
    BY <1>6 DEF TakesResponse
  <2>2. CASE Answers(r, "INVALID_RESPONSE")
    BY <1>1, <1>5, <2>2 DEF Answers, TypeOK
  <2>3. CASE /\ Contractual(kind[r], ResponsePayload(response))
             /\ reply' = [reply EXCEPT ![r] = ResponsePayload(response)]
             /\ Answers(r, "OK")
    <3>1. /\ stage'[r] = "answered" /\ answer'[r] = "OK"
          /\ Contractual(kind[r], reply'[r])
      BY <1>1, <2>3 DEF Answers, TypeOK
    <3>2. Assessed(r)'
      BY <1>2, <1>3, <1>6, <3>1 DEF Assessed
    <3>. QED  BY <1>2, <1>3, <1>6, <3>1, <3>2
              DEF Sound, Placed, ImageSound, ReplySound, TakenRightly, Honest, Waiting
  <2>. QED  BY <2>1, <2>2, <2>3
<1>7. CASE kind[r] = "mask" /\ TakesMask(r)
  <2>1. CASE /\ stage'[r] = "answered"
             /\ answer'[r] \in {"UNAVAILABLE", "INVALID_RESPONSE"}
    BY <1>5, <2>1
  <2>2. CASE /\ stage'[r] = "unmasking" /\ answer' = answer
             /\ job'[r] = "unmask" /\ at'[r] = "queued"
    BY <1>2, <1>3, <1>7, <2>2
       DEF Sound, Placed, ImageSound, ReplySound, TakenRightly, Honest, Ends, ImageKinds
  <2>. QED  BY <1>1, <1>7, <2>1, <2>2 DEF TakesMask, Answers, Goes, Submits, TypeOK
<1>8. CASE kind[r] = "background" /\ TakesPicture(r)
  <2>1. CASE stage'[r] = "answered" /\ answer'[r] = "INVALID_RESPONSE"
    BY <1>5, <2>1
  <2>2. CASE /\ stage'[r] = "decoding" /\ answer' = answer
             /\ job'[r] = "decode" /\ at'[r] = "queued" /\ SingleImage(reply'[r])
    BY <1>2, <1>3, <1>8, <2>2
       DEF Sound, Placed, ImageSound, ReplySound, TakenRightly, Honest, Ends, ImageKinds
  <2>. QED  BY <1>1, <1>8, <2>1, <2>2 DEF TakesPicture, Answers, Goes, Submits, TypeOK
<1>9. CASE Fails(r)
  BY <1>1, <1>5, <1>9 DEF Fails, Answers, TypeOK
<1>. QED  BY <1>2, <1>6, <1>7, <1>8, <1>9 DEF Takes

LEMMA EndSound ==
  ASSUME ApiInv, NEW r \in Requests, Deadline(r) \/ CancelEnds(r)
  PROVE  Alone(r) /\ Sound(r)'
<1>1. TypeOK /\ Sound(r)
  BY DEF ApiInv
<1>2. mode' = mode /\ kind' = kind /\ input' = input
  BY DEF Deadline, CancelEnds, Kept
<1>3. Alone(r)
  BY <1>1, <1>2 DEF Deadline, CancelEnds, Goes, Answers, jobVars, Alone, TypeOK
<1>. SUFFICES Sound(r)'
  BY <1>3
<1>4. CASE Deadline(r)
  <2>1. /\ stage[r] \in Timed /\ stage'[r] = "cancelling" /\ answer' = answer
    BY <1>1, <1>4 DEF Deadline, Goes, TypeOK
  <2>. QED  BY <1>1, <1>2, <2>1
            DEF Sound, Placed, ImageSound, ReplySound, TakenRightly, Honest, Waiting, Timed
<1>5. CASE CancelEnds(r)
  <2>1. stage[r] = "cancelling" /\ stage'[r] = "answered" /\ answer'[r] = "TIMEOUT"
    BY <1>1, <1>5 DEF CancelEnds, Answers, TypeOK
  <2>. QED  BY <1>1, <1>2, <2>1
            DEF Sound, Placed, ImageSound, ReplySound, TakenRightly, Honest, Waiting
<1>. QED  BY <1>4, <1>5

LEMMA ConfiguredTtl ==
  ASSUME NEW config \in TokenConfigs
  PROVE  /\ TtlOf(config) \in 1..HardMax
         /\ config.max \in 1..HardMax => TtlOf(config) <= config.max
<1>1. config.ttl \in Int \cup {Absent, Junk} /\ config.max \in Int \cup {Absent, Junk}
  BY DEF TokenConfigs, TokenConfig
<1>2. DefaultTtl \in Nat \ {0} /\ DefaultMax \in Nat \ {0}
  BY DEF DefaultTtl, DefaultMax
<1>3. /\ PositiveInt(config.ttl, DefaultTtl) \in Nat \ {0}
      /\ PositiveInt(config.max, DefaultMax) \in Nat \ {0}
      /\ config.max \in Nat \ {0} => PositiveInt(config.max, DefaultMax) = config.max
  BY <1>1, <1>2, PositiveIntIsPositive
<1>. DEFINE ttl == PositiveInt(config.ttl, DefaultTtl)
            max == PositiveInt(config.max, DefaultMax)
<1>4. ttl \in Int /\ max \in Int /\ max >= 1
  BY <1>3
<1>5. EffectiveTtl(ttl, max) \in 1..HardMax /\ EffectiveTtl(ttl, max) <= max
  <2>. HIDE DEF ttl, max
  <2>. QED  BY <1>4, TokensAreShort
<1>6. config.max \in 1..HardMax => max = config.max
  BY <1>3 DEF HardMax
<1>. QED  BY <1>5, <1>6 DEF TtlOf

LEMMA AskSound ==
  ASSUME ApiInv, NEW r \in Requests, PostImage(r) \/ Generate(r) \/ PostToken(r)
  PROVE  Alone(r) /\ Sound(r)'
<1>1. TypeOK /\ Sound(r)
  BY DEF ApiInv
<1>2. mode' = mode /\ stage[r] = "absent" /\ answer[r] = "none"
  BY <1>1 DEF PostImage, Generate, PostToken, Asks, Sound, Placed
<1>3. Alone(r)
  BY <1>1, <1>2 DEF PostImage, Generate, PostToken, Asks, Submits, Goes, Answers, jobVars, Alone,
                    TypeOK
<1>. SUFFICES Sound(r)'
  BY <1>3
<1>4. CASE PostImage(r)
  <2>1. PICK k \in ImageKinds, i \in Images :
          /\ kind'[r] = k /\ input'[r] = i
          /\ \/ i = "refused" /\ stage'[r] = "answered" /\ answer'[r] = "INVALID_INPUT"
             \/ /\ i # "refused" /\ stage'[r] = "checking" /\ answer' = answer
                /\ job'[r] = "check" /\ at'[r] = "queued"
    BY <1>1, <1>4 DEF PostImage, Asks, Submits, Goes, Answers, TypeOK
  <2>. QED  BY <1>2, <2>1
            DEF Sound, Placed, ImageSound, ReplySound, TakenRightly, Honest, Waiting, Ends
<1>5. CASE Generate(r)
  <2>1. /\ kind'[r] = "background"
        /\ \/ stage'[r] = "answered" /\ answer'[r] = "INVALID_RESPONSE"
           \/ stage'[r] = "answered" /\ answer'[r] = "OK" /\ reply'[r] = FixturePicture
           \/ stage'[r] = "asking" /\ answer' = answer
    BY <1>1, <1>5 DEF Generate, Asks, Goes, Answers, TypeOK
  <2>2. /\ SingleImage(FixturePicture) /\ PictureFits(FixturePicture)
        /\ PictureShape(FixturePicture.picture)
    BY DEF SingleImage, PictureFits, PictureShape, FixturePicture, Picture
  <2>. QED  BY <1>2, <2>1, <2>2
            DEF Sound, Placed, ImageSound, ReplySound, TakenRightly, Honest, Waiting, ImageKinds
<1>6. CASE PostToken(r)
  <2>1. PICK config \in TokenConfigs :
          /\ kind'[r] = "token" /\ input'[r] = config /\ stage'[r] = "answered"
          /\ answer'[r] = "OK" =>
               /\ Configured(config)
               /\ \E lifetime \in {TtlOf(config), 3600}, subscribe \in BOOLEAN :
                    /\ reply'[r] = Token(lifetime, subscribe)
                    /\ ClaimsHold(Token(lifetime, subscribe), TtlOf(config))
    BY <1>1, <1>6 DEF PostToken, Asks, Answers, TypeOK
  <2>2. ASSUME answer'[r] = "OK"
        PROVE  Granted(r)'
    <3>1. PICK lifetime \in {TtlOf(config), 3600}, subscribe \in BOOLEAN :
            /\ reply'[r] = Token(lifetime, subscribe)
            /\ ClaimsHold(Token(lifetime, subscribe), TtlOf(config))
      BY <2>1, <2>2
    <3>2. TtlOf(config) \in 1..HardMax
          /\ (config.max \in 1..HardMax => TtlOf(config) <= config.max)
      BY ConfiguredTtl
    <3>3. Token(lifetime, subscribe).lifetime = lifetime /\ lifetime \in Int
      BY <3>2 DEF Token
    <3>4. lifetime \in 1..HardMax /\ (config.max \in 1..HardMax => lifetime <= config.max)
      BY <3>1, <3>2, <3>3 DEF ClaimsHold, HardMax
    <3>. QED  BY <2>1, <2>2, <3>1, <3>3, <3>4 DEF Granted, ClaimsHold
  <2>. QED  BY <2>1, <2>2
            DEF Sound, Placed, ImageSound, ReplySound, TakenRightly, Honest, Waiting, ImageKinds
<1>. QED  BY <1>4, <1>5, <1>6

-----------------------------------------------------------------------------
(* The theorems *)

(* Every step of the API keeps the types of its variables.                  *)
THEOREM RequestsAreTyped == Spec => []TypeOK
<1>1. Init => TypeOK
  BY TypeInit
<1>2. TypeOK /\ [Next]_vars => TypeOK'
  BY TypeStep
<1>. QED  BY <1>1, <1>2, PTL DEF Spec

LEMMA ApiInvariance == Spec => []ApiInv
<1>1. Init => ApiInv
  <2>1. ASSUME Init, NEW r \in Requests
        PROVE  Sound(r)
    BY <2>1 DEF Init, Sound, Placed, ImageSound, ReplySound, TakenRightly, Honest, Waiting,
                ImageKinds
  <2>. QED  BY <2>1, TypeInit DEF ApiInv
<1>2. ApiInv /\ [Next]_vars => ApiInv'
  <2>1. SUFFICES ASSUME ApiInv, [Next]_vars
                 PROVE  \A q \in Requests : Sound(q)'
    BY TypeStep DEF ApiInv
  <2>2. CASE UNCHANGED vars
    BY <2>1, <2>2 DEF vars, ApiInv, Sound, Placed, ImageSound, ReplySound, TakenRightly, Honest,
                      Assessed, Granted
  <2>3. ASSUME NEW r \in Requests, Alone(r) /\ Sound(r)'
        PROVE  \A q \in Requests : Sound(q)'
    BY <2>1, <2>3, OthersStaySound
  <2>4. CASE Next
    <3>1. PICK r \in Requests :
            \/ PostImage(r) \/ Generate(r) \/ PostToken(r)
            \/ Thread(r) \/ Loop(r)
            \/ Returns(r) \/ ReturnsLate(r) \/ Deadline(r) \/ CancelEnds(r)
      BY <2>4 DEF Next
    <3>2. Alone(r) /\ Sound(r)'
      BY <2>1, <3>1, AskSound, ThreadSound, LoopSound, ReturnSound, EndSound
    <3>. QED  BY <2>3, <3>2
  <2>. QED  BY <2>1, <2>2, <2>4
<1>. QED  BY <1>1, <1>2, PTL DEF Spec

(* For any number of requests, and however their jobs replace and restore   *)
(* the shared warning filters, what is decided about an upload depends on   *)
(* the upload alone.                                                        *)
THEOREM UploadsAreJudgedAlone == Spec => []OnlyTheImageDecides
<1>1. ApiInv => OnlyTheImageDecides
  BY DEF ApiInv, Sound, TakenRightly, OnlyTheImageDecides
<1>. QED  BY <1>1, ApiInvariance, PTL

(* Every successful answer is what its endpoint promises, from the provider *)
(* the settings select.                                                     *)
THEOREM SuccessIsHonest == Spec => []AnswersAreHonest
<1>1. ApiInv => AnswersAreHonest
  BY DEF ApiInv, Sound, Honest, AnswersAreHonest
<1>. QED  BY <1>1, ApiInvariance, PTL

-----------------------------------------------------------------------------
(* Who carries a request on. *)

(* The stages in which a coroutine waits for a job, and for which one.      *)
Joining == {"checking", "sizing", "unmasking", "proving", "decoding"}
JobOf(where) ==
  CASE where = "checking"  -> "check"
    [] where = "sizing"    -> "size"
    [] where = "unmasking" -> "unmask"
    [] where = "proving"   -> "prove"
    [] where = "decoding"  -> "decode"

(* The job that a coroutine waits for is there, and is the one it wants.    *)
Busy(r) ==
  /\ stage[r] \in {"absent", "asking"} => at[r] = "idle"
  /\ stage[r] = "cancelling" /\ kind[r] # "mask" => at[r] = "idle"
  /\ stage[r] \in Joining => at[r] # "idle" /\ job[r] = JobOf(stage[r])
  /\ at[r] # "idle" => job[r] \in Jobs
  /\ at[r] \in {"entered", "armed"} => job[r] # "prove"
  /\ at[r] \in Ends => verdict[r] \in Findings

(* A job is never stuck: it can take its next step, or it has returned what *)
(* its coroutine can use, or what nobody waits for.                         *)
JobMoves(r) ==
  \/ at[r] = "queued" /\ (job[r] = "prove" \/ Lists \ InUse(filters, saved) # {})
  \/ at[r] = "entered"
  \/ at[r] = "armed" /\ \E found \in Findings : Finds(r, found)
  \/ at[r] = "judged"
  \/ /\ at[r] = "returned"
     /\ \/ stage[r] \in {"cancelling", "answered"}
        \/ stage[r] \in Joining /\ job[r] = JobOf(stage[r]) /\ verdict[r] \in Findings

RequestsGoOn ==
  \A r \in Requests :
    /\ stage[r] \in Waiting => stage[r] \in Timed \cup {"cancelling"} \/ at[r] # "idle"
    /\ at[r] # "idle" => JobMoves(r)

LEMMA OthersStayBusy ==
  ASSUME NEW r \in Requests, Alone(r), NEW q \in Requests \ {r}, Busy(q)
  PROVE  Busy(q)'
BY DEF Alone, Busy

LEMMA LoopBusy ==
  ASSUME TypeOK, NEW r \in Requests, Sound(r), Busy(r), Loop(r)
  PROVE  Busy(r)'
<1>1. kind' = kind
  BY DEF Loop, Checked, Sized, Unmasked, Finished, Abandoned, Kept
<1>2. CASE Collected(r)
  <2>1. at'[r] = "idle" /\ stage'[r] \notin Joining
    BY <1>2 DEF Loop, Checked, Sized, Unmasked, Finished, Abandoned, Collected, Submits, Spoilt,
                AskProvider, Goes, Answers, TypeOK, Joining
  <2>. QED  BY <2>1 DEF Busy, Ends
<1>3. CASE stage[r] = "checking" /\ kind[r] = "mask" /\ Goes(r, "sizing") /\ Submits(r, "size")
  BY <1>3 DEF Goes, Submits, TypeOK, Busy, Joining, JobOf, Jobs, Ends
<1>4. CASE Goes(r, "proving") /\ Submits(r, "prove")
  BY <1>4 DEF Goes, Submits, TypeOK, Busy, Joining, JobOf, Jobs, Ends
<1>. QED  BY <1>2, <1>3, <1>4
          DEF Loop, Checked, Sized, Unmasked, Finished, Abandoned, Spoilt

LEMMA TakesBusy ==
  ASSUME TypeOK, NEW r \in Requests, Busy(r), at[r] = "idle", Takes(r) \/ Fails(r)
  PROVE  Busy(r)'
<1>1. CASE stage'[r] = "answered" /\ UNCHANGED jobVars
  BY <1>1 DEF jobVars, Busy, Joining
<1>2. CASE Goes(r, "unmasking") /\ Submits(r, "unmask")
  BY <1>2 DEF Goes, Submits, TypeOK, Busy, Joining, JobOf, Jobs, Ends
<1>3. CASE Goes(r, "decoding") /\ Submits(r, "decode")
  BY <1>3 DEF Goes, Submits, TypeOK, Busy, Joining, JobOf, Jobs, Ends
<1>. QED  BY <1>1, <1>2, <1>3
          DEF Takes, Fails, TakesResponse, TakesMask, TakesPicture, Answers, TypeOK

LEMMA ThreadBusy ==
  ASSUME TypeOK, NEW r \in Requests, Busy(r), Thread(r)
  PROVE  Busy(r)'
<1>1. stage' = stage /\ kind' = kind /\ job' = job
  BY DEF Thread, NoPillow, Enter, Arm, Look, Leave, Prove, Kept
<1>2. at[r] # "idle" /\ at'[r] # "idle"
  BY DEF Thread, NoPillow, Enter, Arm, Look, Leave, Prove, TypeOK
<1>3. at'[r] \in Ends => verdict'[r] \in Findings
  BY DEF Thread, NoPillow, Enter, Arm, Look, Leave, Prove, Judges, Ends, Findings, TypeOK, Busy
<1>4. at'[r] \in {"entered", "armed"} => job[r] # "prove"
  BY DEF Thread, NoPillow, Enter, Arm, Look, Leave, Prove, TypeOK, Busy
<1>. QED  BY <1>1, <1>2, <1>3, <1>4 DEF Busy

LEMMA BusyStep ==
  ASSUME ApiInv, \A r \in Requests : Busy(r), [Next]_vars
  PROVE  \A r \in Requests : Busy(r)'
<1>1. CASE UNCHANGED vars
  BY <1>1 DEF vars, Busy
<1>2. ASSUME NEW r \in Requests,
             \/ PostImage(r) \/ Generate(r) \/ PostToken(r)
             \/ Thread(r) \/ Loop(r)
             \/ Returns(r) \/ ReturnsLate(r) \/ Deadline(r) \/ CancelEnds(r)
      PROVE  \A q \in Requests : Busy(q)'
  <2>1. Alone(r)
    BY <1>2, AskSound, ThreadSound, LoopSound, ReturnSound, EndSound
  <2>2. TypeOK /\ Sound(r) /\ Busy(r)
    BY DEF ApiInv
  <2>. SUFFICES Busy(r)'
    BY <2>1, OthersStayBusy
  <2>3. CASE PostImage(r)
    <3>1. CASE stage'[r] = "answered" /\ UNCHANGED jobVars
      BY <2>2, <3>1 DEF jobVars, Busy, Joining
    <3>2. CASE Goes(r, "checking") /\ Submits(r, "check")
      BY <2>2, <3>2 DEF Goes, Submits, TypeOK, Busy, Joining, JobOf, Jobs, Ends
    <3>. QED  BY <2>2, <2>3, <3>1, <3>2 DEF PostImage, Answers, TypeOK
  <2>4. CASE Generate(r) \/ PostToken(r)
    <3>1. /\ UNCHANGED jobVars /\ stage[r] = "absent"
          /\ stage'[r] \in {"answered", "asking"}
      BY <2>2, <2>4 DEF Generate, PostToken, Asks, Goes, Answers, TypeOK
    <3>. QED  BY <2>2, <3>1 DEF jobVars, Busy, Joining
  <2>5. CASE Returns(r) \/ ReturnsLate(r)
    BY <2>2, <2>5, TakesBusy DEF Returns, ReturnsLate, Busy
  <2>6. CASE Deadline(r)
    <3>1. /\ stage[r] \in Timed /\ stage'[r] = "cancelling" /\ job' = job /\ verdict' = verdict
          /\ kind' = kind /\ at'[r] \in {at[r], "idle"}
      BY <2>2, <2>6 DEF Deadline, Goes, Kept, TypeOK
    <3>. QED  BY <2>2, <3>1 DEF Sound, Placed, Busy, Timed, Joining, Ends
  <2>7. CASE CancelEnds(r)
    <3>1. stage'[r] = "answered" /\ UNCHANGED jobVars
      BY <2>2, <2>7 DEF CancelEnds, Answers, TypeOK
    <3>. QED  BY <2>2, <3>1 DEF jobVars, Busy, Joining
  <2>. QED  BY <1>2, <2>2, <2>3, <2>4, <2>5, <2>6, <2>7, ThreadBusy, LoopBusy
<1>. QED  BY <1>1, <1>2 DEF Next

(* A free name for a list of filters: the installed one and those that jobs *)
(* will put back are not all there are.                                     *)
LEMMA ListIsFree ==
  ASSUME TypeOK, IsFiniteSet(Requests), Cardinality(Requests) < MaxLists
  PROVE  Lists \ InUse(filters, saved) # {}
<1>. DEFINE Held == {saved[q] : q \in Requests}
<1>1. saved \in Surjection(Requests, Held)
  BY DEF TypeOK, Surjection
<1>2. IsFiniteSet(Held) /\ Cardinality(Held) <= Cardinality(Requests)
  BY <1>1, FS_Surjection
<1>3. /\ IsFiniteSet(InUse(filters, saved))
      /\ Cardinality(InUse(filters, saved)) <= Cardinality(Held) + 1
  <2>1. InUse(filters, saved) = Held \cup {filters}
    BY DEF InUse
  <2>2. Cardinality(Held) \in Nat
    BY <1>2, FS_CardinalityType
  <2>3. /\ IsFiniteSet(Held \cup {filters})
        /\ Cardinality(Held \cup {filters}) =
             IF filters \in Held THEN Cardinality(Held) ELSE Cardinality(Held) + 1
    <3>. HIDE DEF Held
    <3>. QED  BY <1>2, FS_AddElement
  <2>. QED  BY <2>1, <2>2, <2>3
<1>4. Cardinality(Lists) = MaxLists + 1
  BY MaxListsAssumption, FS_Interval DEF Lists
<1>5. Cardinality(InUse(filters, saved)) < Cardinality(Lists)
  BY <1>2, <1>3, <1>4, MaxListsAssumption, FS_CardinalityType
<1>6. ~(Lists \subseteq InUse(filters, saved))
  BY <1>3, <1>5, MaxListsAssumption, FS_Subset, FS_CardinalityType
<1>. QED  BY <1>6

(* No request waits for nothing: one that is not bounded by a deadline has  *)
(* a job in a thread, and every job, abandoned ones included, has a next    *)
(* step of its own, whatever the jobs of other requests do with the filters *)
(* they share.  With a name for every list in use, MaxLists hinders none.   *)
THEOREM RequestsAreCarriedOn ==
  ASSUME IsFiniteSet(Requests), Cardinality(Requests) < MaxLists
  PROVE  Spec => []RequestsGoOn
<1>1. Init => \A r \in Requests : Busy(r)
  BY DEF Init, Busy, Joining, Ends
<1>2. ApiInv /\ (\A r \in Requests : Busy(r)) /\ [Next]_vars => (\A r \in Requests : Busy(r))'
  BY BusyStep
<1>3. ASSUME ApiInv, NEW r \in Requests, Busy(r)
      PROVE  /\ stage[r] \in Waiting => stage[r] \in Timed \cup {"cancelling"} \/ at[r] # "idle"
             /\ at[r] # "idle" => JobMoves(r)
  <2>1. TypeOK
    BY <1>3 DEF ApiInv
  <2>2. stage[r] \in Waiting => stage[r] \in Timed \cup {"cancelling"} \/ at[r] # "idle"
    BY <1>3 DEF Busy, Waiting, Timed, Joining
  <2>3. CASE at[r] = "armed"
    <3>1. job[r] \in {"check", "size", "unmask", "decode"}
      BY <1>3, <2>3 DEF Busy, Jobs
    <3>2. \E found \in {"ok", "rejected"} : Finds(r, found)
      BY <3>1 DEF Finds
    <3>. QED  BY <2>3, <3>2 DEF JobMoves, Findings
  <2>4. CASE at[r] = "returned"
    BY <1>3, <2>1, <2>4 DEF Busy, JobMoves, Ends, TypeOK, Waiting, Joining
  <2>5. CASE at[r] = "queued"
    BY <2>1, <2>5, ListIsFree DEF JobMoves
  <2>. QED  BY <2>1, <2>2, <2>3, <2>4, <2>5 DEF JobMoves, TypeOK
<1>4. ApiInv /\ (\A r \in Requests : Busy(r)) => RequestsGoOn
  BY <1>3 DEF RequestsGoOn
<1>. QED  BY <1>1, <1>2, <1>4, ApiInvariance, PTL DEF Spec
=============================================================================
