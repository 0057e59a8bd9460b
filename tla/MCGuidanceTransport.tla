------------------------ MODULE MCGuidanceTransport ------------------------
(* GuidanceTransport for TLC: a handful of overlapping calls. *)
EXTENDS GuidanceTransport, TLC

Symmetry == Permutations(Calls) \cup Permutations(Shots) \cup Permutations(Codes)
=============================================================================
