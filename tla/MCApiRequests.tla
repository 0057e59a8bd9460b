--------------------------- MODULE MCApiRequests ---------------------------
(* Two requests, of which every pair of endpoints that decode images, and a *)
(* token or a background beside any of them, may overlap.                   *)
EXTENDS ApiRequests, TLC

CONSTANTS r1, r2

MCRequests == {r1, r2}
MCOffers == r1 :> {"shot", "mask", "token"} @@ r2 :> {"points", "mask", "background"}
=============================================================================
