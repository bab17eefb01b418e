--------------------------- MODULE MCAgentDispatch ---------------------------
(* The dispatch view alone, with the six agents of the code. *)
EXTENDS AgentDispatch
=============================================================================
