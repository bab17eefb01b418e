-------------------------------- MODULE MCApp --------------------------------
(* The whole program with the smallest mission, fleet and sampling. *)
EXTENDS App
=============================================================================
