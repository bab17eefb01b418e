------------------------------ MODULE MCShipsLog ------------------------------
(* The Ship's Log alone. *)
EXTENDS ShipsLog
=============================================================================
