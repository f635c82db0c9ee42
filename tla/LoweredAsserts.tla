---------------------------- MODULE LoweredAsserts ----------------------------
(***************************************************************************)
(* Lowering composed with the assertion compiler: once generateRules has  *)
(* run, an assertion "l op r" is compiled (newAsserts -> parseAssert) over *)
(* the round log g.RoundVars that lowering built, with the pairing rules  *)
(* of StatePairing.  The round log is the interface between C1/C2 and C5: *)
(* every state the lowering logged is one an assertion may be evaluated   *)
(* on.  parseAssert only reads the log, so it is an operator applied to   *)
(* the state lowering ends in, for every assertion of Operands.           *)
(***************************************************************************)
EXTENDS Lowering, StatePairing

CONSTANTS
  Operands   \* pairs <<l, r>> of assertion operands enumerated

(* LoadMeta: g.Rounds is the number of run rounds, 1 when there are none. *)
LoadMetaRounds(runs) == IF runs = 0 THEN 1 ELSE runs

(* The front end stores @__rounds once per run round. *)
Runs == Len(roundVars) - 1

(* newAsserts: parseAssert of the assertion, after the rules are generated. *)
CompileAssert(l, r) == CompileComparison(roundVars, LoadMetaRounds(Runs), l, r)

-----------------------------------------------------------------------------
(* The rendered terms an operand stands for, read off the round log. *)
Denotes(o) ==
  LET states == {StateTerm(e.base, e.n) : e \in Range(LookupVarRounds(roundVars, o.base))}
  IN CASE o.kind = "var" -> states
       [] o.kind = "sum" -> {Clause(t, LitTerm) : t \in states}
       [] o.kind = "idx" -> {StateTerm(o.base, o.n)}
       [] o.kind = "lit" -> {LitTerm}

(***************************************************************************)
(* Spec 4.5 steps 1-3: once the rules are generated, every assertion of   *)
(* Operands compiles without a runtime panic into clauses (op a b) whose  *)
(* a is a state of the left side and b a state of the right side, in that *)
(* order, and every state either side passed through is compared in some  *)
(* clause: no state the lowering logged is left out of the assertion.    *)
(***************************************************************************)
ClausesFaithful ==
  phase = "done" =>
    \A p \in Operands :
      LET res == CompileAssert(p[1], p[2])
          cs  == Range(res.clauses)
      IN res.status # "missing" =>
           /\ res.status = "ok"
           /\ \A c \in cs : c.l \in Denotes(p[1]) /\ c.r \in Denotes(p[2])
           /\ \A t \in Denotes(p[1]) : \E c \in cs : c.l = t
           /\ \A t \in Denotes(p[2]) : \E c \in cs : c.r = t

=============================================================================
