----------------------------- MODULE MCTokenBudget -----------------------------
(* TokenBudget alone, with lengths on both sides of each rounding step. *)
EXTENDS TokenBudget
=============================================================================
