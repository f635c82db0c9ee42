--------------------------- MODULE TemporalAsserts ---------------------------
(***************************************************************************)
(* The assertion compiler of smt/asserts.go and applyTemporalLogic: an    *)
(* assertion over n enumerated states (the Cartesian product of the two   *)
(* sides' per-round states) is compiled to an SMT term.  A term is kept   *)
(* as a tree of and/or nodes over per-state clauses; the clause of state i *)
(* is the comparison of the i-th pair, and an off-clause is its negation  *)
(* (llvm.OP_NEGATE, or (not (= ..)) for equality).  Eval gives the truth  *)
(* of a term for a valuation of the clauses, which is what the solver     *)
(* decides.                                                                *)
(***************************************************************************)
EXTENDS Integers, Sequences, SequencesExt, FiniteSets, FiniteSetsExt

CONSTANTS
  MaxStates,  \* largest number of enumerated states n
  MaxN,       \* largest N of a counting filter
  Temporals,  \* temporal modifiers enumerated
  Filters     \* temporal filters enumerated

ASSUME /\ Temporals \subseteq {"", "eventually", "always", "eventually-always"}
       /\ Filters \subseteq {"", "nmt", "nft"}

VARIABLES
  assertion,  \* the AssertionStatement being compiled
  compiled    \* the term parseAssert returned, or "none" / "panic"

vars == <<assertion, compiled>>

(* An AssertionStatement: assume or assert, temporal modifier, filter and *)
(* its N (0 without a filter), and n, the number of enumerated states.    *)
Inputs ==
  {a \in [assume : BOOLEAN, temporal : Temporals, filter : Filters,
          N : 0..MaxN, n : 1..MaxStates] : (a.filter = "") = (a.N = 0)}

Node(op, xs) == [kind |-> op, idx |-> 0, neg |-> FALSE, args |-> xs]
Leaf(k) == Node(k, << >>)
Atom(i, neg) == [kind |-> "atom", idx |-> i, neg |-> neg, args |-> << >>]

(* The recurring "if len(o) == 1 { o[0] } else { (op o...) }". *)
Wrap(op, xs) == IF Len(xs) = 1 THEN xs[1] ELSE Node(op, xs)

Atoms(S, neg) == LET s == SetToSortSeq(S, <) IN [j \in DOMAIN s |-> Atom(s[j], neg)]

RECURSIVE Eval(_, _)
Eval(t, v) ==
  CASE t.kind = "atom" -> v[t.idx] # t.neg
    [] t.kind = "and"  -> \A j \in DOMAIN t.args : Eval(t.args[j], v)
    [] t.kind = "or"   -> \E j \in DOMAIN t.args : Eval(t.args[j], v)

(***************************************************************************)
(* expandAssertStateGraph with impliesOnOffPairs and packageStateGraph.   *)
(* nmt: per size-N combination S, (and (or on(S)) (and off(rest)));       *)
(* nft: per combination, (and on(S)); otherwise one clause per state.      *)
(* util.Combinations' order is not in the repository; a fixed order is    *)
(* taken.                                                                  *)
(***************************************************************************)
(* Fault variant: nft joins the on-clauses of a combination with or. *)
ExpandNftAny(n, filter, N) ==
  LET combos == SetToSeq(kSubset(N, 1..n)) IN
  CASE filter = "nmt" ->
         [k \in DOMAIN combos |-> Node("and", << Wrap("or", Atoms(combos[k], FALSE)),
                                      Wrap("and", Atoms((1..n) \ combos[k], TRUE)) >>)]
    [] filter = "nft" -> [k \in DOMAIN combos |-> Wrap("or", Atoms(combos[k], FALSE))]
    [] OTHER -> Atoms(1..n, FALSE)

ExpandAssertStateGraph(n, filter, N) ==
  LET combos == SetToSeq(kSubset(N, 1..n)) IN
  CASE filter = "nmt" ->
         [k \in DOMAIN combos |-> Node("and", << Wrap("or", Atoms(combos[k], FALSE)),
                                      Wrap("and", Atoms((1..n) \ combos[k], TRUE)) >>)]
    [] filter = "nft" -> [k \in DOMAIN combos |-> Wrap("and", Atoms(combos[k], FALSE))]
    [] OTHER -> Atoms(1..n, FALSE)

(* eventuallyAlways: (or (and ir[i..]) ...) over every suffix. *)
EventuallyAlways(ir) ==
  Node("or", [i \in DOMAIN ir |-> Node("and", SubSeq(ir, i, Len(ir)))])

(***************************************************************************)
(* applyTemporalLogic: one term is returned as is; an empty list is       *)
(* indexed at ir[0], which panics.                                         *)
(***************************************************************************)
(* Fault variant: eventually wraps the terms with the off operator. *)
ApplyTemporalLogicSwapped(temp, ir, filter, on, off) ==
  IF ir = << >> THEN Leaf("panic")
  ELSE IF Len(ir) = 1 THEN ir[1]
  ELSE CASE temp = "eventually"        -> Node(off, ir)
         [] temp = "always"            -> Node(off, ir)
         [] temp = "eventually-always" -> EventuallyAlways(ir)
         [] OTHER -> Node(IF filter \in {"nft", "nmt"} THEN "or" ELSE off, ir)

ApplyTemporalLogic(temp, ir, filter, on, off) ==
  IF ir = << >> THEN Leaf("panic")
  ELSE IF Len(ir) = 1 THEN ir[1]
  ELSE CASE temp = "eventually"        -> Node(on, ir)
         [] temp = "always"            -> Node(off, ir)
         [] temp = "eventually-always" -> EventuallyAlways(ir)
         [] OTHER -> Node(IF filter \in {"nft", "nmt"} THEN "or" ELSE off, ir)

(***************************************************************************)
(* parseAssert for two sides of different bases: an assume joins with     *)
(* on = or / off = and, an assert (whose operator the front end negated)   *)
(* with on = and / off = or; without temporal logic joinStates is used.   *)
(***************************************************************************)
ParseAssert(a) ==
  LET on  == IF a.assume THEN "or" ELSE "and"
      off == IF a.assume THEN "and" ELSE "or"
  IN IF a.temporal # "" \/ a.filter # ""
     THEN ApplyTemporalLogic(a.temporal,
                             ExpandAssertStateGraph(a.n, a.filter, a.N),
                             a.filter, on, off)
     ELSE Wrap(off, Atoms(1..a.n, FALSE))

Init ==
  /\ assertion \in Inputs
  /\ compiled = Leaf("none")

(* newAsserts / newAssumes: parseAssert of one statement. *)
Compile ==
  /\ compiled = Leaf("none")
  /\ compiled' = ParseAssert(assertion)
  /\ UNCHANGED assertion

Next == Compile

Spec == Init /\ [][Next]_vars

-----------------------------------------------------------------------------
(* Meaning of "P <temporal> <filter> N" over the truth P of each state.  *)
Count(P) == Cardinality({i \in DOMAIN P : P[i]})

Holds(a, P) ==
  CASE a.filter = "nmt" -> Count(P) <= a.N
    [] a.filter = "nft" -> Count(P) >= a.N
    [] a.temporal = "eventually" -> \E i \in DOMAIN P : P[i]
    [] a.temporal = "eventually-always" ->
         \E i \in DOMAIN P : \A j \in i..Len(P) : P[j]
    [] OTHER -> \A i \in DOMAIN P : P[i]

Valuations(a) == [1..a.n -> BOOLEAN]

Compiled == compiled.kind \in {"atom", "and", "or"}

(***************************************************************************)
(* Spec 4.5: an assume is a constraint the solver must satisfy, so the    *)
(* compiled term holds exactly when the property, with its temporal       *)
(* modifier or counting filter ("no more than / no fewer than N of the    *)
(* enumerated states"), holds.  Checked for each modifier or filter alone. *)
(***************************************************************************)
AssumeMeaning ==
  (Compiled /\ assertion.assume /\ (assertion.temporal = "" \/ assertion.filter = ""))
    => \A v \in Valuations(assertion) : Eval(compiled, v) = Holds(assertion, v)

(***************************************************************************)
(* Spec 4.5/7: an assert is compiled so that the solver finds a model iff *)
(* the property is violated; the clauses carry the negated comparison,    *)
(* so the term holds iff the property fails over the states where the    *)
(* comparison is false.  Checked for the temporal modifiers.              *)
(***************************************************************************)
AssertMeaning ==
  (Compiled /\ ~assertion.assume /\ assertion.filter = "")
    => \A v \in Valuations(assertion) :
         Eval(compiled, v) = ~Holds(assertion, [i \in DOMAIN v |-> ~v[i]])

=============================================================================
