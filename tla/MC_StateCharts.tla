---------------------------- MODULE MC_StateCharts ----------------------------
(* Instantiation of StateCharts for TLC: component c with states a and b. *)
EXTENDS StateCharts

CONSTANTS a, b, c, stay

MCBases == {a, b, c}
MCTargets == {a, b}

(* advance(a) && advance(b); advance(a) || advance(b);                  *)
(* advance(a) || stay(); (advance(b) && stay()) || advance(a).          *)
MCChains ==
  { And(Call(a), Call(b)),
    Or(Call(a), Call(b)),
    Or(Call(a), Call(stay)),
    Or(And(Call(b), Call(stay)), Call(a)) }

(* advance(a) || advance(b) || stay(). *)
MCChainsStay == { Or(Or(Call(a), Call(b)), Call(stay)) }
=============================================================================
