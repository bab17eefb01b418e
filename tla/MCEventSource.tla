---------------------------- MODULE MCEventSource ----------------------------
(* EventSource alone. *)
EXTENDS EventSource
=============================================================================
