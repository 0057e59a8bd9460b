-------------------------- MODULE ProviderContracts --------------------------
(***************************************************************************)
(* What the backend accepts from the providers it does not trust: the      *)
(* Responses API behind the shot assessor and the measurement lines, the   *)
(* rembg sidecar, the Images API; and from itself, the SDK's access token. *)
(*                                                                         *)
(* A JSON object is a function whose domain is its set of keys; anything   *)
(* that is not an object of the expected shape is Junk.  Coordinates are   *)
(* in units of 1/Scale.  An image is a record of what its checks look at.  *)
(***************************************************************************)
EXTENDS Integers

CONSTANTS Scale,     \* the units of a normalised coordinate
          Junk,      \* any value that is not a JSON object
          Absent     \* None

ASSUME ScaleAssumption == Scale \in Nat
ASSUME NoNumberAssumption == Junk \notin Int /\ Absent \notin Int

-----------------------------------------------------------------------------
(* Responses API *)

(* The parsed output if there is one, and the JSON text otherwise.          *)
ResponsePayload(response) ==
  IF response.parsed # Absent THEN response.parsed ELSE response.text

IsObject(value) == value \notin {Junk, Absent}

HasOnly(value, keys) == IsObject(value) /\ DOMAIN value = keys

RequestedShots == {"front", "back", "tag"}
Issues == {"TOO_DARK", "TOO_BRIGHT", "TOO_BLURRY", "BLURRY",
           "GARMENT_CROPPED", "TAG_UNREADABLE", "WRONG_SHOT"}

(* A list of enumerated values is kept as the set of its items.             *)
ValidAssessment(value) ==
  /\ HasOnly(value, {"shotType", "quality", "issues", "missingShots", "nextAction"})
  /\ value.shotType \in RequestedShots \cup {"unknown"}
  /\ value.quality \in {"ok", "retry"}
  /\ value.issues \subseteq Issues
  /\ value.missingShots \subseteq RequestedShots
  /\ value.nextAction \in {"RETAKE", "REQUEST_NEXT", "COMPLETE"}

MissingAfter(shot) ==
  CASE shot = "front" -> {"back", "tag"} [] shot = "back" -> {"tag"} [] OTHER -> {}

FixtureAssessment(shot) ==
  [shotType |-> shot, quality |-> "ok", issues |-> {},
   missingShots |-> MissingAfter(shot),
   nextAction |-> IF MissingAfter(shot) = {} THEN "COMPLETE" ELSE "REQUEST_NEXT"]

EndpointKeys == {"lengthStart", "lengthEnd", "widthStart", "widthEnd"}

(* NaN, an infinity or a Boolean is no coordinate; 0 and 1 are.             *)
NormalizedPoint(point) ==
  HasOnly(point, {"x", "y"}) /\ point.x \in 0..Scale /\ point.y \in 0..Scale

ValidEndpoints(value) ==
  HasOnly(value, EndpointKeys) /\ \A k \in EndpointKeys : NormalizedPoint(value[k])

FixturePoint == [x |-> 0, y |-> Scale]
FixtureEndpoints == [k \in EndpointKeys |-> FixturePoint]

ASSUME ObjectAssumption ==
  /\ IsObject(FixturePoint) /\ IsObject(FixtureEndpoints)
  /\ \A shot \in RequestedShots : IsObject(FixtureAssessment(shot))

-----------------------------------------------------------------------------
(* rembg *)

(* The status line is looked at first, and its body is not read unless the  *)
(* status and the content type are right.                                   *)
SidecarFailed(reply) == ~reply.success

(* The body is a PNG, not empty, and not longer than the limit; a declared  *)
(* length only stops the transfer early.                                    *)
MaskBodyFits(reply) == reply.png /\ reply.body = "fits"

(* Grey, of the front image's size, neither all black nor all white.        *)
MaskShape(mask) ==
  /\ mask.format = "PNG" /\ mask.mode \in {"1", "L"}
  /\ mask.sameSize /\ mask.loads
  /\ mask.high > 0 /\ mask.low = 0

-----------------------------------------------------------------------------
(* Images API *)

SingleImage(reply) == reply.images = 1 /\ reply.base64 # "missing"

(* The text is bounded before it is decoded, the bytes after.               *)
PictureFits(reply) == reply.base64 = "valid" /\ reply.bytes = "fits"

PictureShape(picture) ==
  /\ picture.format = "PNG" /\ picture.frames = 1
  /\ picture.loads /\ ~picture.large /\ ~picture.transparent

-----------------------------------------------------------------------------
(* LiveKit access token *)

HardMax == 300
DefaultTtl == 90
DefaultMax == 300
Largest(a, b) == IF a >= b THEN a ELSE b
Least(a, b) == IF a <= b THEN a ELSE b

(* An environment value that is missing, malformed or not positive is       *)
(* replaced by the default.                                                 *)
PositiveInt(raw, default) ==
  IF raw \in {Absent, Junk} THEN default ELSE IF raw > 0 THEN raw ELSE default

(* Variant: the code's ceiling is left to the configuration. *)
EffectiveTtlAsConfigured(ttl, max) == Least(Largest(1, ttl), Largest(1, max))

EffectiveTtl(ttl, max) == Least(Least(Largest(1, ttl), Largest(1, max)), HardMax)

Configured(config) == config.key /\ config.secret /\ config.url \in {"wss", "https"}

(* The token the SDK made, decoded again.                                   *)
NarrowGrant(token) ==
  /\ token.forIdentity /\ token.forRoom
  /\ token.publish /\ token.data /\ ~token.subscribe
  /\ token.sources = {"camera"}

ClaimsHold(token, ttl) ==
  NarrowGrant(token) /\ 0 < token.lifetime /\ token.lifetime <= ttl
=============================================================================
