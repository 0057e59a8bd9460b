--------------------------- MODULE MCAgentRuntime ---------------------------
(* AgentRuntime for TLC: overlapping selections, frames and Room events. *)
EXTENDS AgentRuntime, TLC

Symmetry == Permutations(Calls) \cup Permutations(Codes)
=============================================================================
