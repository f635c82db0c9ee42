---------------------------- MODULE MC_SolverDriver ----------------------------
(* Instantiation of SolverDriver: three bases, two of them uncertain. *)
EXTENDS SolverDriver

CONSTANTS a, b, c

MCBases == {a, b, c}
MCUncertains == {a, b}

(* What z3 prints for (check-sat) (get-model): the status line, then the *)
(* model, or an error s-expression when there is no model.               *)
Z3Outputs ==
  { <<"sat", Paren>>, <<"sat", Paren, Paren>>, <<"unsat", Paren>>,
    <<"sat", "", Paren>> }

(* A status line alone, which spec 4.7 allows ("optionally followed by *)
(* an s-expression model"). *)
BareOutputs == { <<"unsat">> }
=============================================================================
