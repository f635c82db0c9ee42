---------------------------- MODULE StatePairing ----------------------------
(***************************************************************************)
(* How the assertion compiler of smt/asserts.go turns the two sides of a   *)
(* comparison into per-round lists of SMT clauses: the round log lookups   *)
(* of smt/generator.go (addVarToRoundLookup, lookupVarRounds,             *)
(* lookupVarSpecificState, varRounds), parseInvariantNode for one operand, *)
(* mergeByRound with its pairing rules (constants, same base, balance,    *)
(* termCombos, cross product) and flattenStates.                          *)
(*                                                                         *)
(* The round log rv is g.RoundVars: a sequence of rounds, each a sequence *)
(* of <<base, index>>; round r of the code is rv[r + 1].  A rendered term *)
(* ("x_3", "5", "(+ x_3 5)") is kept as a record, a clause "(op a b)" as  *)
(* the pair it was built from.  A map keyed by round (map[int][]string)   *)
(* is a function whose domain is the set of keys present.                  *)
(***************************************************************************)
EXTENDS Integers, Sequences, SequencesExt, FiniteSets

NoBase == ""

StateTerm(b, n) == [kind |-> "state", base |-> b, n |-> n]
LitTerm == [kind |-> "lit", base |-> "__int", n |-> 0]
NoTerm == [kind |-> "none", base |-> NoBase, n |-> 0]

(* packageStateGraph(pairs, op): each pair becomes the clause (op a b). *)
Clause(a, b) == [kind |-> "clause", l |-> a, r |-> b]
PackageStateGraph(pairs) == [i \in DOMAIN pairs |-> Clause(pairs[i][1], pairs[i][2])]

(* util.PairCombinations: every pair of the two lists, the first leading. *)
PairCombinations(a, b) ==
  [i \in 1..(Len(a) * Len(b)) |-> << a[(i - 1) \div Len(b) + 1], b[((i - 1) % Len(b)) + 1] >>]

(* The operands of an assertion (ast nodes): a variable, x[k], a literal *)
(* and the infix x + literal.                                            *)
Var(b) == [kind |-> "var", base |-> b, n |-> 0]
Idx(b, k) == [kind |-> "idx", base |-> b, n |-> k]
Lit == [kind |-> "lit", base |-> "__int", n |-> 0]
Sum(b) == [kind |-> "sum", base |-> b, n |-> 0]

-----------------------------------------------------------------------------
(* The entries of the round log in the order addVarToRound made them. *)
Log(rv) ==
  FlattenSeq([r \in DOMAIN rv |->
    [j \in DOMAIN rv[r] |-> [base |-> rv[r][j][1], n |-> rv[r][j][2], round |-> r - 1]]])

(* RVarLookup[b] (lookupVarRounds with no state): b's entries in order. *)
LookupVarRounds(rv, b) == SelectSeq(Log(rv), LAMBDA e : e.base = b)

(* lookupVarSpecificState: the first entry of state k; << >> stands for  *)
(* its panic "state k of variable b is missing".                         *)
LookupVarSpecificState(rv, b, k) ==
  LET es == LookupVarRounds(rv, b)
      i  == SelectInSeq(es, LAMBDA e : e.n = k)
  IN IF i = 0 THEN << >> ELSE << es[i] >>

(* varRounds: round -> the terms b_n of the entries, in order. *)
VarRounds(es) ==
  [r \in {es[i].round : i \in DOMAIN es} |->
     LET sel == SelectSeq(es, LAMBDA e : e.round = r)
     IN [j \in DOMAIN sel |-> StateTerm(sel[j].base, sel[j].n)]]

(* rules.States: base, Terminal, Constant and the states per round. *)
States(b, term, const, st) ==
  [panic |-> FALSE, base |-> b, terminal |-> term, constant |-> const, st |-> st]
Panic == [States(NoBase, FALSE, FALSE, << >>) EXCEPT !.panic = TRUE]

(* invalidBase: literal bases and the empty base. *)
InvalidBase(b) == b \in {"__string", "__bool", "__float", "__int", NoBase}

At0(s) == IF 0 \in DOMAIN s.st THEN s.st[0] ELSE << >>

-----------------------------------------------------------------------------
(***************************************************************************)
(* Same base: states are paired by position in each round; the shorter    *)
(* side is extended by its last state.  slast is declared inside the      *)
(* round loop, so a round the shorter side lacks indexes nil[-1].         *)
(***************************************************************************)
SameBase(l, r, rounds) ==
  LET leftLead == Cardinality(DOMAIN l.st) >= Cardinality(DOMAIN r.st)
      long  == IF leftLead THEN l.st ELSE r.st
      short == IF leftLead THEN r.st ELSE l.st
      MergePairs(s, t) == IF leftLead THEN << s, t >> ELSE << t, s >>
      Row(i) ==
        IF i \notin DOMAIN long THEN << >>
        ELSE [j \in DOMAIN long[i] |->
                MergePairs(long[i][j], short[i][IF j <= Len(short[i]) THEN j ELSE Len(short[i])])]
  IN IF \E i \in 0..rounds : i \in DOMAIN long /\ long[i] # << >> /\ i \notin DOMAIN short
     THEN Panic
     ELSE States(l.base, FALSE, FALSE, [i \in 0..rounds |-> PackageStateGraph(Row(i))])

(* balance: each round of the variable side crossed with the constant's  *)
(* round 0, the variable side leading.                                    *)
Balance(vr, con, rounds) ==
  [i \in DOMAIN vr.st \cap 0..rounds |-> PackageStateGraph(PairCombinations(vr.st[i], At0(con)))]

(***************************************************************************)
(* termCombos: along the whole round log, each entry of either base is    *)
(* paired with the last entry of the other, once both have been seen;     *)
(* llast and rlast carry over from one round to the next.                 *)
(***************************************************************************)
(* Fault variant: llast and rlast are declared inside the round loop. *)
TermCombosPerRound(rv, lb, rb) ==
  LET Step(acc, e) ==
        LET ll == IF e.round # acc.round THEN NoTerm ELSE acc.l
            rl == IF e.round # acc.round THEN NoTerm ELSE acc.r
            l1 == IF e.base = lb THEN StateTerm(e.base, e.n) ELSE ll
            c1 == IF e.base = lb /\ rl # NoTerm THEN Append(acc.c[e.round], << l1, rl >>)
                  ELSE acc.c[e.round]
            r1 == IF e.base = rb THEN StateTerm(e.base, e.n) ELSE rl
            c2 == IF e.base = rb /\ l1 # NoTerm THEN Append(c1, << l1, r1 >>) ELSE c1
        IN [l |-> l1, r |-> r1, round |-> e.round, c |-> [acc.c EXCEPT ![e.round] = c2]]
      combos == FoldLeft(Step, [l |-> NoTerm, r |-> NoTerm, round |-> 0,
                                c |-> [i \in 0..(Len(rv) - 1) |-> << >>]], Log(rv)).c
  IN [i \in DOMAIN combos |-> PackageStateGraph(combos[i])]

TermCombos(rv, lb, rb) ==
  LET Step(acc, e) ==
        LET l1 == IF e.base = lb THEN StateTerm(e.base, e.n) ELSE acc.l
            c1 == IF e.base = lb /\ acc.r # NoTerm THEN Append(acc.c[e.round], << l1, acc.r >>)
                  ELSE acc.c[e.round]
            r1 == IF e.base = rb THEN StateTerm(e.base, e.n) ELSE acc.r
            c2 == IF e.base = rb /\ l1 # NoTerm THEN Append(c1, << l1, r1 >>) ELSE c1
        IN [l |-> l1, r |-> r1, c |-> [acc.c EXCEPT ![e.round] = c2]]
      combos == FoldLeft(Step, [l |-> NoTerm, r |-> NoTerm,
                                c |-> [i \in 0..(Len(rv) - 1) |-> << >>]], Log(rv)).c
  IN [i \in DOMAIN combos |-> PackageStateGraph(combos[i])]

(***************************************************************************)
(* The last case of mergeByRound: per round the cross product of the two  *)
(* sides; a round a side lacks takes its last states, or base_0 before    *)
(* any (a panic for an invalid base), and l[len(l)-1:] of an empty list   *)
(* panics.                                                                 *)
(***************************************************************************)
CrossByRound(l, r, rounds) ==
  LET Side(s, i, last) ==
        IF i \in DOMAIN s.st THEN s.st[i]
        ELSE IF last # << >> THEN last
        ELSE IF InvalidBase(s.base) THEN << >>
        ELSE << StateTerm(s.base, 0) >>
      Step(acc, i) ==
        LET li == Side(l, i, acc.ll)  ri == Side(r, i, acc.rl) IN
        IF acc.panic \/ li = << >> \/ ri = << >>
        THEN [acc EXCEPT !.panic = TRUE]
        ELSE [panic |-> FALSE, ll |-> << Last(li) >>, rl |-> << Last(ri) >>,
              st |-> acc.st @@ (i :> PackageStateGraph(PairCombinations(li, ri)))]
      res == FoldLeft(Step, [panic |-> FALSE, ll |-> << >>, rl |-> << >>, st |-> << >>],
                      [k \in 1..(rounds + 1) |-> k - 1])
  IN IF res.panic THEN Panic ELSE States(NoBase, FALSE, FALSE, res.st)

(* mergeByRound: the first pairing rule that applies. *)
MergeByRound(rv, rounds, l, r) ==
  CASE l.panic \/ r.panic -> Panic
    [] l.constant /\ r.constant ->
         States(NoBase, FALSE, FALSE, 0 :> PackageStateGraph(PairCombinations(At0(l), At0(r))))
    [] l.base = r.base /\ l.base # NoBase -> SameBase(l, r, rounds)
    [] l.constant -> States(r.base, FALSE, FALSE, Balance(r, l, rounds))
    [] r.constant -> States(l.base, FALSE, FALSE, Balance(l, r, rounds))
    [] l.terminal /\ r.terminal -> States(NoBase, FALSE, FALSE, TermCombos(rv, l.base, r.base))
    [] OTHER -> CrossByRound(l, r, rounds)

(***************************************************************************)
(* parseInvariantNode for one operand.  An AssertVar instance is taken to *)
(* be a full name (package_component_field), so captureState makes it     *)
(* terminal and not constant; an IndexExpression is constant with the     *)
(* rounds of its one state; x + literal is an infix merged by round.      *)
(***************************************************************************)
ParseInvariantNode(rv, rounds, o) ==
  LET VarNode(b) == States(b, TRUE, FALSE, VarRounds(LookupVarRounds(rv, b)))
      LitNode == States("__int", FALSE, TRUE, 0 :> << LitTerm >>)
  IN CASE o.kind = "var" -> VarNode(o.base)
       [] o.kind = "idx" -> States(o.base, FALSE, TRUE,
                                   VarRounds(LookupVarSpecificState(rv, o.base, o.n)))
       [] o.kind = "lit" -> LitNode
       [] o.kind = "sum" -> MergeByRound(rv, rounds, VarNode(o.base), LitNode)

(* flattenStates: the clauses of rounds 0..g.Rounds, in round order. *)
FlattenStates(s, rounds) ==
  FlattenSeq([k \in 1..(rounds + 1) |-> IF k - 1 \in DOMAIN s.st THEN s.st[k - 1] ELSE << >>])

(***************************************************************************)
(* parseAssert of "l op r" without temporal logic: both sides parsed, then *)
(* mergeInvariantInfix and joinStates over the flattened clauses.  An x[k] *)
(* whose state is not in the log is reported (lookupVarSpecificState).    *)
(***************************************************************************)
CompileComparison(rv, rounds, l, r) ==
  LET missing == \E o \in {l, r} : o.kind = "idx" /\ LookupVarSpecificState(rv, o.base, o.n) = << >>
      m == MergeByRound(rv, rounds, ParseInvariantNode(rv, rounds, l),
                                    ParseInvariantNode(rv, rounds, r))
  IN CASE missing -> [status |-> "missing", clauses |-> << >>]
       [] m.panic -> [status |-> "panic", clauses |-> << >>]
       [] OTHER   -> [status |-> "ok", clauses |-> FlattenStates(m, rounds)]

=============================================================================
