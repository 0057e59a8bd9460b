---------------------------- MODULE ApiRequests ----------------------------
(***************************************************************************)
(* The HTTP endpoints of the backend and the providers behind them         *)
(* (backend/analyze_shot.py, suggest_measurement_points.py,                *)
(* remove_background.py, livekit_token.py), and the background generator,  *)
(* which the smoke tool runs in a process of its own.                      *)
(*                                                                         *)
(* A request is a coroutine that runs to its next await; images are        *)
(* decoded by jobs in worker threads, which interleave at the calls below. *)
(* Every decoding job replaces the list warnings.filters, shared by all    *)
(* threads, and puts the list it found back.                               *)
(***************************************************************************)
EXTENDS ProviderContracts

CONSTANTS Requests,
          Offers,     \* the endpoints each request may be for
          MaxLists    \* bounds the names of lists of filters: none that is in
                      \* use is used again

ASSUME MaxListsAssumption == MaxLists \in Nat

VARIABLES mode,      \* the provider the settings select
          process,   \* the API server or the smoke tool
          kind,      \* which endpoint a request is for
          input,     \* the class of its image, its style, or the configuration
          stage,     \* where its coroutine is
          job,       \* its newest job in a worker thread
          at,        \* where that job is
          saved,     \* the list of filters the job will put back
          verdict,   \* what the job found
          reply,     \* what the provider returned
          answer,    \* the response: "OK" or an error code
          filters,   \* the list that warnings.filters is
          armed      \* the lists that turn DecompressionBombWarning into an error

Lists == 0..MaxLists

vars == <<mode, process, kind, input, stage, job, at, saved, verdict, reply,
          answer, filters, armed>>
jobVars == <<job, at, saved, verdict, filters, armed>>

(* An upload that is refused by its type or length, that Pillow cannot turn *)
(* into the pixels the endpoint wants, or that has more pixels than the     *)
(* endpoint allows, so many that Pillow warns.                              *)
Images == {"refused", "good", "foreign", "large"}
ImageKinds == {"shot", "points", "mask"}
Kinds == ImageKinds \cup {"background", "token"}

Waiting == {"checking", "sizing", "asking", "unmasking", "cancelling", "proving",
            "decoding"}
Timed == {"sizing", "asking", "unmasking"}   \* inside asyncio.wait_for
Jobs == {"check", "size", "unmask", "prove", "decode"}
Findings == {"ok", "rejected", "unavailable"}
Codes == {"OK", "INVALID_INPUT", "INVALID_RESPONSE", "TIMEOUT", "UNAVAILABLE"}

TypeOK ==
  /\ mode \in {"fixture", "live", "keyless"} /\ process \in {"api", "smoke"}
  /\ kind \in [Requests -> Kinds \cup {"none"}]
  /\ DOMAIN input = Requests /\ DOMAIN reply = Requests
  /\ stage \in [Requests -> Waiting \cup {"absent", "answered"}]
  /\ job \in [Requests -> Jobs \cup {"none"}]
  /\ at \in [Requests -> {"idle", "queued", "entered", "armed", "judged", "returned"}]
  /\ saved \in [Requests -> Lists]
  /\ verdict \in [Requests -> Findings \cup {"none"}]
  /\ answer \in [Requests -> Codes \cup {"none"}]
  /\ filters \in Lists
  /\ armed \subseteq Lists

Init ==
  /\ mode \in {"fixture", "live", "keyless"} /\ process \in {"api", "smoke"}
  /\ kind = [r \in Requests |-> "none"]
  /\ input = [r \in Requests |-> Absent]
  /\ stage = [r \in Requests |-> "absent"]
  /\ job = [r \in Requests |-> "none"]
  /\ at = [r \in Requests |-> "idle"]
  /\ saved = [r \in Requests |-> 0]
  /\ verdict = [r \in Requests |-> "none"]
  /\ reply = [r \in Requests |-> Absent]
  /\ answer = [r \in Requests |-> "none"]
  /\ filters = 0
  /\ armed = {}

-----------------------------------------------------------------------------
(* Steps of a coroutine *)

Goes(r, where) == stage' = [stage EXCEPT ![r] = where] /\ UNCHANGED answer

Answers(r, code) ==
  /\ stage' = [stage EXCEPT ![r] = "answered"]
  /\ answer' = [answer EXCEPT ![r] = code]

(* asyncio.to_thread *)
Submits(r, j) ==
  /\ job' = [job EXCEPT ![r] = j]
  /\ at' = [at EXCEPT ![r] = "queued"]
  /\ UNCHANGED <<saved, verdict, filters, armed>>

Kept == UNCHANGED <<mode, process, kind, input>>

Asks(r, k, i) ==
  /\ stage[r] = "absent" /\ k \in Offers[r]
  /\ kind' = [kind EXCEPT ![r] = k]
  /\ input' = [input EXCEPT ![r] = i]
  /\ UNCHANGED <<mode, process>>

(* The upload is read, and decoded in a thread before any provider is asked. *)
PostImage(r) ==
  \E k \in ImageKinds, i \in Images :
    /\ process = "api"
    /\ Asks(r, k, i)
    /\ \/ i = "refused" /\ Answers(r, "INVALID_INPUT") /\ UNCHANGED jobVars
       \/ i # "refused" /\ Goes(r, "checking") /\ Submits(r, "check")
    /\ UNCHANGED reply

-----------------------------------------------------------------------------
(* Jobs *)

(* The warning is an error to a job that finds the installed list armed.   *)
PillowRaises(i) == i = "large" /\ filters \in armed

(* Variant: the decoders leave the number of pixels to Pillow's warning. *)
TooLargeByWarning(i) == PillowRaises(i)

(* The bound the decoders check themselves is lower than Pillow's. *)
TooLarge(i) == PillowRaises(i) \/ i = "large"

(* Whether a job that decodes an upload rejects it.                         *)
Rejects(r) == TooLarge(input[r]) \/ input[r] = "foreign"

(* The assessment alone tells a failure that its decoder does not expect    *)
(* from an image that is not valid, and the masker's own look at the front  *)
(* image is stricter than the endpoint's: it also verifies it.              *)
Finds(r, found) ==
  \/ job[r] = "check" /\ found = IF Rejects(r) THEN "rejected" ELSE "ok"
  \/ job[r] = "check" /\ kind[r] = "shot" /\ input[r] = "foreign" /\ found = "unavailable"
  \/ job[r] = "size" /\ found = "ok" /\ ~Rejects(r)
  \/ job[r] = "size" /\ found = "rejected"
  \/ job[r] \in {"unmask", "prove"} /\ found = IF MaskShape(reply[r]) THEN "ok" ELSE "rejected"
  \/ /\ job[r] = "decode"
     /\ found = IF PictureFits(reply[r]) /\ PictureShape(reply[r].picture)
                  THEN "ok" ELSE "rejected"

(* The lists that are installed, or that a job will install again. *)
InUse(installed, kept) == {installed} \cup {kept[q] : q \in Requests}

Judges(r, found) == verdict' = [verdict EXCEPT ![r] = found]

(* Pillow cannot be imported. *)
NoPillow(r) ==
  /\ at[r] = "queued"
  /\ at' = [at EXCEPT ![r] = "returned"]
  /\ Judges(r, "unavailable")
  /\ UNCHANGED <<job, saved, filters, armed>>

(* catch_warnings is entered: no call separates the two assignments.        *)
Enter(r) ==
  /\ at[r] = "queued" /\ job[r] # "prove"
  /\ at' = [at EXCEPT ![r] = "entered"]
  /\ saved' = [saved EXCEPT ![r] = filters]
  /\ \E copy \in Lists \ InUse(filters, saved) :
       /\ \A list \in Lists \ InUse(filters, saved) : copy <= list
       /\ filters' = copy
       /\ armed' = IF filters \in armed THEN armed \cup {copy} ELSE armed
  /\ UNCHANGED <<job, verdict>>

(* simplefilter() adds to the list that is installed now. *)
Arm(r) ==
  /\ at[r] = "entered"
  /\ at' = [at EXCEPT ![r] = "armed"]
  /\ armed' = armed \cup {filters}
  /\ UNCHANGED <<job, saved, verdict, filters>>

(* The image is opened and looked at. *)
Look(r) ==
  /\ at[r] = "armed"
  /\ at' = [at EXCEPT ![r] = "judged"]
  /\ \E found \in Findings : Finds(r, found) /\ Judges(r, found)
  /\ UNCHANGED <<job, saved, filters, armed>>

Leave(r) ==
  /\ at[r] = "judged"
  /\ at' = [at EXCEPT ![r] = "returned"]
  /\ filters' = saved[r]
  /\ saved' = [saved EXCEPT ![r] = 0]
  /\ armed' = armed \cap InUse(filters', saved')
  /\ UNCHANGED <<job, verdict>>

(* The result of the masker is validated again, with the filters as they are. *)
Prove(r) ==
  /\ at[r] = "queued" /\ job[r] = "prove"
  /\ at' = [at EXCEPT ![r] = "returned"]
  /\ \E found \in Findings : Finds(r, found) /\ Judges(r, found)
  /\ UNCHANGED <<job, saved, filters, armed>>

Thread(r) ==
  /\ NoPillow(r) \/ Enter(r) \/ Arm(r) \/ Look(r) \/ Leave(r) \/ Prove(r)
  /\ Kept /\ UNCHANGED <<stage, reply, answer>>

(* The coroutine that waits for a job goes on, or nothing does any more.    *)
Collected(r) ==
  /\ at[r] = "returned"
  /\ at' = [at EXCEPT ![r] = "idle"]
  /\ job' = [job EXCEPT ![r] = "none"]
  /\ Judges(r, "none")
  /\ UNCHANGED <<saved, filters, armed>>

Forgets(r) == reply' = [reply EXCEPT ![r] = Absent]

Abandoned(r) ==
  /\ stage[r] \in {"cancelling", "answered"}
  /\ Collected(r) /\ Kept /\ UNCHANGED <<stage, reply, answer>>

-----------------------------------------------------------------------------
(* The provider of the mode is asked *)

FixtureReplies(k) ==
  IF k = "shot" THEN {FixtureAssessment(s) : s \in RequestedShots} ELSE {FixtureEndpoints}

(* Variant: a live provider that cannot be built is replaced by the fixture. *)
AskProviderOrFixture(r) ==
  \/ /\ mode \in {"fixture", "keyless"}
     /\ \E value \in FixtureReplies(kind[r]) : reply' = [reply EXCEPT ![r] = value]
     /\ Answers(r, "OK")
  \/ /\ mode = "live"
     /\ Goes(r, "asking") /\ UNCHANGED reply

AskProvider(r) ==
  \/ /\ mode = "fixture"
     /\ \E value \in FixtureReplies(kind[r]) : reply' = [reply EXCEPT ![r] = value]
     /\ Answers(r, "OK")
  \/ /\ mode = "keyless"
     /\ Answers(r, "UNAVAILABLE") /\ UNCHANGED reply
  \/ /\ mode = "live"
     /\ Goes(r, "asking") /\ UNCHANGED reply

(* The masker looks at the front image itself, within the deadline.         *)
Checked(r) ==
  /\ stage[r] = "checking" /\ at[r] = "returned"
  /\ \/ /\ verdict[r] = "ok" /\ kind[r] = "mask"
        /\ Goes(r, "sizing") /\ Submits(r, "size") /\ UNCHANGED reply
     \/ /\ verdict[r] = "ok" /\ kind[r] # "mask"
        /\ AskProvider(r) /\ Collected(r)
     \/ /\ verdict[r] = "rejected"
        /\ Answers(r, "INVALID_INPUT") /\ Collected(r) /\ UNCHANGED reply
     \/ /\ verdict[r] = "unavailable"
        /\ Answers(r, "UNAVAILABLE") /\ Collected(r) /\ UNCHANGED reply
  /\ Kept

(* A job about what the provider sent, or about its input, has failed.      *)
Spoilt(r) ==
  /\ verdict[r] # "ok"
  /\ Answers(r, IF verdict[r] = "rejected" THEN "INVALID_RESPONSE" ELSE "UNAVAILABLE")
  /\ Collected(r) /\ Forgets(r)

Sized(r) ==
  /\ stage[r] = "sizing" /\ at[r] = "returned"
  /\ \/ verdict[r] = "ok" /\ Goes(r, "asking") /\ Collected(r) /\ UNCHANGED reply
     \/ Spoilt(r)
  /\ Kept

Unmasked(r) ==
  /\ stage[r] = "unmasking" /\ at[r] = "returned"
  /\ \/ verdict[r] = "ok" /\ Goes(r, "proving") /\ Submits(r, "prove") /\ UNCHANGED reply
     \/ Spoilt(r)
  /\ Kept

Finished(r) ==
  /\ stage[r] \in {"proving", "decoding"} /\ at[r] = "returned"
  /\ \/ verdict[r] = "ok" /\ Answers(r, "OK") /\ Collected(r) /\ UNCHANGED reply
     \/ Spoilt(r)
  /\ Kept

-----------------------------------------------------------------------------
(* What a live provider does *)

Payloads(k) ==
  IF k = "shot" THEN {FixtureAssessment("back"), [FixtureAssessment("tag") EXCEPT !.quality = "fair"]}
                ELSE {FixtureEndpoints, [FixtureEndpoints EXCEPT !["widthEnd"].x = Scale + 1]}

Responses(k) ==
  {[parsed |-> p, text |-> t] : p \in Payloads(k) \cup {Absent}, t \in Payloads(k) \cup {Junk}}

Contractual(k, value) == IF k = "shot" THEN ValidAssessment(value) ELSE ValidEndpoints(value)

(* Validated in the step in which the response arrives. *)
TakesResponse(r) ==
  \E response \in Responses(kind[r]) :
    LET value == ResponsePayload(response) IN
      /\ \/ /\ Contractual(kind[r], value)
            /\ reply' = [reply EXCEPT ![r] = value]
            /\ Answers(r, "OK")
         \/ /\ ~Contractual(kind[r], value)
            /\ Answers(r, "INVALID_RESPONSE") /\ UNCHANGED reply
      /\ UNCHANGED jobVars

Mask(format, bands, same, low, high) ==
  [format |-> format, mode |-> bands, sameSize |-> same, loads |-> TRUE,
   low |-> low, high |-> high]
Masks == {Mask("PNG", "L", TRUE, 0, 1), Mask("PNG", "1", TRUE, 0, 0)}
SidecarReplies ==
  [success : BOOLEAN, png : BOOLEAN, body : {"empty", "fits", "long"}]

TakesMask(r) ==
  \/ \E sidecar \in SidecarReplies :
       /\ SidecarFailed(sidecar) \/ ~MaskBodyFits(sidecar)
       /\ Answers(r, IF SidecarFailed(sidecar) THEN "UNAVAILABLE" ELSE "INVALID_RESPONSE")
       /\ UNCHANGED <<reply, jobVars>>
  \/ \E mask \in Masks :
       /\ reply' = [reply EXCEPT ![r] = mask]
       /\ Goes(r, "unmasking") /\ Submits(r, "unmask")

Picture(large) ==
  [format |-> "PNG", frames |-> 1, loads |-> TRUE, large |-> large, transparent |-> FALSE]
FixturePicture ==
  [images |-> 1, base64 |-> "valid", bytes |-> "fits", picture |-> Picture(FALSE)]
PictureReplies ==
  {FixturePicture, [FixturePicture EXCEPT !.images = 2],
   [FixturePicture EXCEPT !.base64 = "missing"],
   [FixturePicture EXCEPT !.base64 = "invalid"], [FixturePicture EXCEPT !.bytes = "long"],
   [FixturePicture EXCEPT !.picture = Picture(TRUE)]}

TakesPicture(r) ==
  \E pictures \in PictureReplies :
    \/ /\ ~SingleImage(pictures)
       /\ Answers(r, "INVALID_RESPONSE") /\ UNCHANGED <<reply, jobVars>>
    \/ /\ SingleImage(pictures)
       /\ reply' = [reply EXCEPT ![r] = pictures]
       /\ Goes(r, "decoding") /\ Submits(r, "decode")

Takes(r) ==
  \/ kind[r] \in {"shot", "points"} /\ TakesResponse(r)
  \/ kind[r] = "mask" /\ TakesMask(r)
  \/ kind[r] = "background" /\ TakesPicture(r)

(* The Responses providers do not tell the SDK's own timeout, which is not  *)
(* a TimeoutError, from other failures.                                     *)
Fails(r) ==
  /\ \/ Answers(r, "UNAVAILABLE")
     \/ kind[r] \in {"mask", "background"} /\ Answers(r, "TIMEOUT")
  /\ UNCHANGED <<reply, jobVars>>

Returns(r) ==
  /\ stage[r] = "asking"
  /\ Takes(r) \/ Fails(r)
  /\ Kept

(* Variant: the provider is called without wait_for. *)
DeadlineMissing(r) == stage[r] = "asking" /\ UNCHANGED vars

(* wait_for cancels the provider and waits for it to end.  A job that has   *)
(* not started is dropped; one that runs goes on, and nobody waits for it.  *)
Deadline(r) ==
  /\ stage[r] \in Timed
  /\ Goes(r, "cancelling")
  /\ at' = [at EXCEPT ![r] = IF at[r] = "queued" THEN "idle" ELSE at[r]]
  /\ Kept /\ UNCHANGED <<job, saved, verdict, filters, armed, reply>>

CancelEnds(r) ==
  /\ stage[r] = "cancelling"
  /\ Answers(r, "TIMEOUT")
  /\ Kept /\ UNCHANGED <<reply, jobVars>>

(* A client that finishes in spite of its cancellation has its result used. *)
ReturnsLate(r) ==
  /\ stage[r] = "cancelling" /\ kind[r] # "mask"
  /\ Takes(r) \/ Fails(r)
  /\ Kept

-----------------------------------------------------------------------------
(* Requests without an upload *)

(* The fixture's picture is decoded at once, by the event loop's thread.    *)
Generate(r) ==
  \E style \in {"allowed", "unknown"} :
    /\ process = "smoke" /\ mode # "keyless"
    /\ Asks(r, "background", style)
    /\ \/ style = "unknown" /\ Answers(r, "INVALID_RESPONSE") /\ UNCHANGED reply
       \/ /\ style = "allowed" /\ mode = "fixture"
          /\ reply' = [reply EXCEPT ![r] = FixturePicture]
          /\ Answers(r, "OK")
       \/ style = "allowed" /\ mode = "live" /\ Goes(r, "asking") /\ UNCHANGED reply
    /\ UNCHANGED jobVars

(* Configured lifetimes, as the environment gives them. *)
TokenConfig(session, url, ttl, max) ==
  [session |-> session, key |-> TRUE, secret |-> TRUE, url |-> url, ttl |-> ttl, max |-> max]
TokenConfigs ==
  {TokenConfig(FALSE, "wss", Absent, Absent), TokenConfig(TRUE, "http", 90, 300),
   TokenConfig(TRUE, "wss", Junk, 60), TokenConfig(TRUE, "https", 900, 600)}

Token(lifetime, subscribe) ==
  [forIdentity |-> TRUE, forRoom |-> TRUE, publish |-> TRUE, data |-> TRUE,
   subscribe |-> subscribe, sources |-> {"camera"}, lifetime |-> lifetime]

TtlOf(config) ==
  EffectiveTtl(PositiveInt(config.ttl, DefaultTtl), PositiveInt(config.max, DefaultMax))

(* The SDK is asked for a token of the effective lifetime, and what it made  *)
(* is decoded and checked.                                                   *)
PostToken(r) ==
  \E config \in TokenConfigs :
    /\ process = "api"
    /\ Asks(r, "token", config)
    /\ \/ /\ ~config.session
          /\ Answers(r, "INVALID_INPUT") /\ UNCHANGED reply
       \/ /\ config.session /\ ~Configured(config)
          /\ Answers(r, "UNAVAILABLE") /\ UNCHANGED reply
       \/ /\ config.session /\ Configured(config)
          /\ \E lifetime \in {TtlOf(config), 3600}, subscribe \in BOOLEAN :
               LET token == Token(lifetime, subscribe) IN
               /\ reply' = [reply EXCEPT ![r] = token]
               /\ Answers(r, IF ClaimsHold(token, TtlOf(config)) THEN "OK" ELSE "UNAVAILABLE")
    /\ UNCHANGED jobVars

-----------------------------------------------------------------------------
Loop(r) ==
  Checked(r) \/ Sized(r) \/ Unmasked(r) \/ Finished(r) \/ Abandoned(r)

Next ==
  \E r \in Requests :
    \/ PostImage(r) \/ Generate(r) \/ PostToken(r)
    \/ Thread(r) \/ Loop(r)
    \/ Returns(r) \/ ReturnsLate(r) \/ Deadline(r) \/ CancelEnds(r)

Spec == Init /\ [][Next]_vars

(* Threads and the event loop run; a deadline passes, and a cancelled        *)
(* client ends.  No provider is obliged to answer.                           *)
Fairness ==
  \A r \in Requests :
    WF_vars(Thread(r)) /\ WF_vars(Loop(r)) /\ WF_vars(Deadline(r)) /\ WF_vars(CancelEnds(r))

FairSpec == Spec /\ Fairness

-----------------------------------------------------------------------------
(* Properties *)

(* Whether an upload is taken depends on nothing but the upload: however    *)
(* the jobs of several requests overlap, and in whatever order they replace *)
(* and restore the warning filters they share, an image that is too large,  *)
(* of another format or broken goes to no provider and is never answered    *)
(* with a result, and an acceptable one is never refused.                   *)
OnlyTheImageDecides ==
  \A r \in Requests : kind[r] \in ImageKinds =>
    /\ stage[r] \in Waiting \ {"checking"} => input[r] = "good"
    /\ answer[r] \in {"OK", "INVALID_RESPONSE", "TIMEOUT"} => input[r] = "good"
    /\ answer[r] = "INVALID_INPUT" => input[r] # "good"

Assessed(r) ==
  /\ mode \in {"fixture", "live"}
  /\ Contractual(kind[r], reply[r])
  /\ mode = "fixture" => reply[r] \in FixtureReplies(kind[r])

Granted(r) ==
  /\ NarrowGrant(reply[r]) /\ Configured(input[r])
  /\ reply[r].lifetime \in 1..HardMax
  /\ input[r].max \in 1..HardMax => reply[r].lifetime <= input[r].max

(* A request that succeeds has what its endpoint promises, from the         *)
(* provider the settings select: no fixture stands in for a live provider   *)
(* without a key, no reply of a provider outside its contract is passed on  *)
(* (one that returns after its deadline included), no mask that a late or   *)
(* an earlier job has judged, and no token that lives longer than the code's *)
(* ceiling or the configured one, or grants more than the camera needs.     *)
AnswersAreHonest ==
  \A r \in Requests : answer[r] = "OK" =>
    /\ kind[r] \in {"shot", "points"} => Assessed(r)
    /\ kind[r] = "mask" => MaskShape(reply[r])
    /\ kind[r] = "background" => /\ SingleImage(reply[r]) /\ PictureFits(reply[r])
                                 /\ PictureShape(reply[r].picture)
    /\ kind[r] = "token" => Granted(r)

(* Every request is answered, though a provider may never return: its       *)
(* deadline passes, and the job it abandons in a thread keeps nobody        *)
(* waiting.                                                                 *)
EveryRequestAnswered ==
  \A r \in Requests : stage[r] # "absent" ~> stage[r] = "answered"
=============================================================================
