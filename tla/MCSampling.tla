------------------------------ MODULE MCSampling ------------------------------
(* Sampling alone. *)
EXTENDS Sampling
=============================================================================
