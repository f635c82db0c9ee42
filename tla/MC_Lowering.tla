----------------------------- MODULE MC_Lowering -----------------------------
(* Instantiation of Lowering for TLC: two bases and small bounds. *)
EXTENDS Lowering

CONSTANTS x, y

MCBases == {x, y}
MCSymmetry == Permutations(MCBases)

(* Only x is a Float global; y is a global of another type. *)
=============================================================================
