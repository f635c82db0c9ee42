-------------------------- MODULE MC_LoweredAsserts --------------------------
(* Lowering and assertion compilation for TLC: two bases, the operands   *)
(* x, x + 1 and literals, in every combination symmetric in x and y.      *)
EXTENDS LoweredAsserts

CONSTANTS x, y

MCBases == {x, y}
MCSymmetry == Permutations(MCBases)

(* Variables and sums on either side, a literal on the right. *)
MCOperands ==
  {<< a, c >> : a \in {Var(b) : b \in MCBases} \cup {Sum(b) : b \in MCBases},
                c \in {Var(b) : b \in MCBases} \cup {Sum(b) : b \in MCBases} \cup {Lit}}

(* A state of a later round compared with a literal: "assert x[1] > 5". *)
MCIndexLit == {<< Idx(b, 1), Lit >> : b \in MCBases}
=============================================================================
