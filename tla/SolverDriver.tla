----------------------------- MODULE SolverDriver -----------------------------
(***************************************************************************)
(* ModelChecker.Solve and Filter of execute/execute.go: the solver's      *)
(* output, after strings.TrimSpace, is cut by cleanExtraOutputs up to the *)
(* first line starting with "(", parsed into one Scenario per base, and   *)
(* the traces of uncertain bases are reweighted by stateAssessment.       *)
(*                                                                         *)
(* The output is a sequence of lines, each abstracted to its kind: a      *)
(* status word ("sat", "unsat", "unknown"), an empty line, or "paren" for *)
(* a line starting with "(" (the model or an error s-expression).         *)
(***************************************************************************)
EXTENDS Integers, Sequences

CONSTANTS
  Bases,       \* bases in the solver's model
  Uncertains,  \* bases declared uncertain(mu, sigma): mc.Uncertains
  TraceTypes,  \* Scenario types the parser may return: "float", "int", "bool"
  Outputs      \* solver outputs enumerated, as sequences of line kinds

ASSUME /\ Uncertains \subseteq Bases
       /\ TraceTypes \subseteq {"float", "int", "bool"}

VARIABLES
  output,   \* the text cleanExtraOutputs is working on
  pc,       \* "clean", "parse", "filter", "done", or "panic"
  results,  \* base -> Scenario, or None for a nil entry
  parsed    \* history: the map Solve returned, before Filter

vars == <<output, pc, results, parsed>>

None == [type |-> "nil", weighted |-> FALSE]
Scenarios == [type : TraceTypes, weighted : {FALSE}]

Paren == "paren"

(***************************************************************************)
(* One iteration of the loop of cleanExtraOutputs.  results[0:1] panics   *)
(* on the empty string; strings.Index returns -1 when there is no newline,*)
(* so the slice results[0:] leaves the text as it is.                     *)
(***************************************************************************)
(* Fault variant: results[newline:] keeps the newline, so the next       *)
(* iteration finds it at index 0 and the text never shrinks.             *)
CleanStepKeepNewline ==
  /\ pc = "clean"
  /\ IF output = << >>
     THEN /\ pc' = "panic" /\ UNCHANGED output
     ELSE IF Head(output) = Paren
     THEN /\ pc' = "parse" /\ UNCHANGED output
     ELSE UNCHANGED <<output, pc>>
  /\ UNCHANGED <<results, parsed>>

CleanStep ==
  /\ pc = "clean"
  /\ IF output = << >>
     THEN /\ pc' = "panic" /\ UNCHANGED output
     ELSE IF Head(output) = Paren
     THEN /\ pc' = "parse" /\ UNCHANGED output
     ELSE /\ output' = IF Len(output) = 1 THEN output ELSE Tail(output)
          /\ UNCHANGED pc
  /\ UNCHANGED <<results, parsed>>

(* The SMT-LIB listener fills one Scenario per base of the model.  The    *)
(* grammar walk itself is not modelled: any typed trace per base.         *)
Parse ==
  /\ pc = "parse"
  /\ \E r \in [Bases -> Scenarios \cup {None}] :
       /\ results' = r
       /\ parsed' = r
  /\ pc' = "filter"
  /\ UNCHANGED output

(***************************************************************************)
(* stateAssessment: a Float or Int trace gets a weight per state; for a   *)
(* Bool trace the weighting is commented out and the nil Scenario is      *)
(* returned.                                                               *)
(***************************************************************************)
StateAssessment(s) ==
  IF s.type \in {"float", "int"} THEN [s EXCEPT !.weighted = TRUE] ELSE None

(* Filter: each uncertain base with a non-nil trace is reassessed. *)
Filter ==
  /\ pc = "filter"
  /\ results' = [k \in Bases |->
                   IF k \in Uncertains /\ results[k] # None
                   THEN StateAssessment(results[k]) ELSE results[k]]
  /\ pc' = "done"
  /\ UNCHANGED <<output, parsed>>

Init ==
  /\ output \in Outputs
  /\ pc = "clean"
  /\ results = [k \in Bases |-> None]
  /\ parsed = [k \in Bases |-> None]

Next == CleanStep \/ Parse \/ Filter

(* Solve and Filter run sequentially in one goroutine: each step that is *)
(* enabled is taken.                                                      *)
Spec == Init /\ [][Next]_vars /\ WF_vars(Next)

-----------------------------------------------------------------------------
(***************************************************************************)
(* Spec 4.7/6: Solve returns: the preamble before the first "(" is        *)
(* discarded and the model parsed, or malformed output is reported as an  *)
(* error; cleanExtraOutputs must end for every output the solver gives.   *)
(***************************************************************************)
SolveTerminates == <>(pc = "done")

(***************************************************************************)
(* Not checked by a run: with Float and Int traces it restates Filter's  *)
(* guard, and with Bool traces TLC reports it violated (execute.go:182). *)
(* Spec 4.7: reweighting keeps every trace: after Filter each base has    *)
(* the trace Solve returned, of the same type, weighted exactly when the  *)
(* base is uncertain (the Bool branch leaves the trace unweighted).       *)
(***************************************************************************)
FilterKeepsTraces ==
  pc = "done" =>
    \A k \in Bases :
      /\ results[k].type = parsed[k].type
      /\ results[k].weighted = (k \in Uncertains /\ parsed[k] # None
                                  /\ parsed[k].type # "bool")

=============================================================================
