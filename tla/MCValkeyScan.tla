----------------------------- MODULE MCValkeyScan -----------------------------
(* ValkeyScan alone. *)
EXTENDS ValkeyScan, TLC
KeySymmetry == Permutations(Key)
=============================================================================
