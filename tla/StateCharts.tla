------------------------------ MODULE StateCharts ------------------------------
(***************************************************************************)
(* The statechart built-ins of smt/generator.go, lowered inside the body  *)
(* of a state function @Comp__state: a plain call advance(t)              *)
(* (parseBuiltIn, not complex), and a chain of advance/stay calls joined  *)
(* by && and || (isStateChangeChain, parseChoice) that parseBlock turns    *)
(* into one Choices rule with stateRules: andStateRule, orStateRule and   *)
(* syncStateRules with newFork, buildForkChoice, capCond and               *)
(* capCondSyncRules.  The lowering of Lowering (stores, conditionals,     *)
(* generateRules) runs around these steps and shares its state.           *)
(*                                                                         *)
(* A call of a chain is a target state base, or Stay: stay() has no       *)
(* argument, and parseBuiltIn returns no rule for a call without one.     *)
(* A chain is a tree of && and || over calls (the InstAnd, InstOr and   *)
(* InstCall of the IR); parseChoice flattens it into a StateChange        *)
(* [ands, ors]: the calls met under && and the calls met under ||.        *)
(***************************************************************************)
EXTENDS Lowering

CONSTANTS
  Comp,     \* the component's state base, from the function name @Comp__state
  Targets,  \* state bases advance may name
  Stay,     \* a call to stay()
  Chains    \* trees of && / || over calls enumerated

ASSUME /\ Comp \in Bases
       /\ Targets \subseteq Bases \ {Comp}
       /\ \A e \in Chains : e.op \in {"and", "or"}

(* The instructions of a chain. *)
Call(t) == [op |-> "call", t |-> t]
And(x, y) == [op |-> "and", x |-> x, y |-> y]
Or(x, y) == [op |-> "or", x |-> x, y |-> y]

(***************************************************************************)
(* parseChoice of an && or || instruction: a call operand is appended to  *)
(* Ands (under &&) or Ors (under ||); an operand that is itself && or ||   *)
(* was lowered first into storedChoice, whose Ands and Ors are appended   *)
(* to Ands and Ors whatever the operator above it.                         *)
(***************************************************************************)
(* Fault variant: a call under && is appended to Ors. *)
RECURSIVE ParseChoiceAndAsOr(_)
ParseChoiceAndAsOr(e) ==
  LET Operand(s) == IF s.op = "call" THEN [ands |-> << >>, ors |-> <<s.t>>]
                 ELSE ParseChoiceAndAsOr(s)
  IN [ands |-> Operand(e.x).ands \o Operand(e.y).ands, ors |-> Operand(e.x).ors \o Operand(e.y).ors]

RECURSIVE ParseChoice(_)
ParseChoice(e) ==
  LET Operand(s) == CASE s.op = "call" /\ e.op = "and" -> [ands |-> <<s.t>>, ors |-> << >>]
                   [] s.op = "call" /\ e.op = "or"  -> [ands |-> << >>, ors |-> <<s.t>>]
                   [] OTHER -> ParseChoice(s)
  IN [ands |-> Operand(e.x).ands \o Operand(e.y).ands, ors |-> Operand(e.x).ors \o Operand(e.y).ors]

ReadIn(st, b) == IF st[b] = Unset THEN 0 ELSE st[b]
AdvanceIn(st, b) == IF st[b] = Unset THEN 0 ELSE st[b] + 1

(* createRule(id, "true" / "false", "Bool", "="): an identifier equated  *)
(* with a literal, written by writeInitRule like a store.               *)
BoolRule(b, i) == [kind |-> "store", def |-> <<b, i>>, uses |-> << >>]

(***************************************************************************)
(* parseBuiltIn: nothing for a call without argument; otherwise the      *)
(* target is logged at SSA+1 and advanced (t_n = true), then the          *)
(* component's state likewise (Comp_m = false).                           *)
(***************************************************************************)
(* Fault variant: the target is logged at its index before the advance. *)
ParseBuiltInLogBefore(st, t) ==
  IF t = Stay THEN [ssa |-> st, log |-> << >>, rules |-> << >>]
  ELSE LET st1 == [st EXCEPT ![t] = AdvanceIn(st, t)]
           st2 == [st1 EXCEPT ![Comp] = AdvanceIn(st1, Comp)]
       IN [ssa   |-> st2,
           log   |-> << <<t, ReadIn(st, t)>>, <<Comp, ReadIn(st1, Comp) + 1>> >>,
           rules |-> << BoolRule(t, st1[t]), BoolRule(Comp, st2[Comp]) >>]

ParseBuiltIn(st, t) ==
  IF t = Stay THEN [ssa |-> st, log |-> << >>, rules |-> << >>]
  ELSE LET st1 == [st EXCEPT ![t] = AdvanceIn(st, t)]
           st2 == [st1 EXCEPT ![Comp] = AdvanceIn(st1, Comp)]
       IN [ssa   |-> st2,
           log   |-> << <<t, ReadIn(st, t) + 1>>, <<Comp, ReadIn(st1, Comp) + 1>> >>,
           rules |-> << BoolRule(t, st1[t]), BoolRule(Comp, st2[Comp]) >>]

(* andStateRule / orStateRule: parseBuiltIn of each call in order; the   *)
(* rules of each call are kept apart (orStateRule's map by call).        *)
BuiltIns(st, calls) ==
  FoldLeft(LAMBDA acc, t :
             LET b == ParseBuiltIn(acc.ssa, t)
             IN [ssa |-> b.ssa, log |-> acc.log \o b.log, per |-> Append(acc.per, b.rules)],
           [ssa |-> st, log |-> << >>, per |-> << >>], calls)

Defs(rs) == {rs[i].def : i \in DOMAIN rs}

(* Index of base b at the end of rules rs, or start when rs leaves it.   *)
EndIn(rs, b, start) ==
  IF \E i \in DOMAIN rs : rs[i].def[1] = b
  THEN rs[Max({i \in DOMAIN rs : rs[i].def[1] = b})].def[2]
  ELSE start

-----------------------------------------------------------------------------
(* parseInstruct, call of a built-in without metadata: parseBuiltIn(false). *)
AdvanceCall(t) ==
  /\ phase = "lower"
  /\ LET b == ParseBuiltIn(ssa, t) IN
     /\ b.ssa[t] <= MaxSSA /\ b.ssa[Comp] <= MaxSSA
     /\ ssa' = b.ssa
     /\ roundVars' = FoldLeft(AddVarToRound, roundVars, b.log)
     /\ EmitRules(b.rules, {<<t, b.ssa[t]>>, <<Comp, b.ssa[Comp]>>})
  /\ UNCHANGED <<forks, inits, phase, joined>>

(***************************************************************************)
(* parseBlock -> stateRules with no || call: andStateRule (parseBuiltIn   *)
(* complex, which declares both states at once) and one Choices rule of   *)
(* one Ands, op "and".                                                     *)
(***************************************************************************)
(* Fault variant: andStateRule calls parseBuiltIn(call, false), so the  *)
(* states it writes are never declared.                                 *)
StateChoiceAndNoDecl(e) ==
  /\ phase = "lower"
  /\ ParseChoice(e).ors = << >>
  /\ LET a  == BuiltIns(ssa, ParseChoice(e).ands)
         rs == FlattenSeq(a.per)
     IN /\ \A b \in Bases : a.ssa[b] <= MaxSSA
        /\ ssa' = a.ssa
        /\ roundVars' = FoldLeft(AddVarToRound, roundVars, a.log)
        /\ EmitRules(<< [kind |-> "choices", op |-> "and", ands |-> <<rs>>,
                         expr |-> e, phis |-> << >>, truth |-> << >>] >>,
                     {<<b, a.ssa[b]>> : b \in {d[1] : d \in Defs(rs)}})
  /\ UNCHANGED <<forks, inits, phase, joined>>

StateChoiceAnd(e) ==
  /\ phase = "lower"
  /\ ParseChoice(e).ors = << >>
  /\ LET a  == BuiltIns(ssa, ParseChoice(e).ands)
         rs == FlattenSeq(a.per)
     IN /\ \A b \in Bases : a.ssa[b] <= MaxSSA
        /\ ssa' = a.ssa
        /\ roundVars' = FoldLeft(AddVarToRound, roundVars, a.log)
        /\ inits' = inits \cup Defs(rs)
        /\ EmitRules(<< [kind |-> "choices", op |-> "and", ands |-> <<rs>>,
                         expr |-> e, phis |-> << >>, truth |-> << >>] >>,
                     {<<b, a.ssa[b]>> : b \in {d[1] : d \in Defs(rs)}})
  /\ UNCHANGED <<forks, phase, joined>>

(***************************************************************************)
(* parseBlock -> stateRules with || calls: andStateRule, then orStateRule, *)
(* each call one branch and the && calls one more ("joined_ands"); then   *)
(* syncStateRules: newFork (in a phi state, so it replaces the last fork) *)
(* and, for each branch in Go map order, buildForkChoice and capCond      *)
(* (one phi per base, declared and logged, equated with the end of each  *)
(* choice of the branch); capCondSyncRules adds to every other branch the *)
(* bases with a single choice, equated with their start state.  The      *)
(* order of phi allocation and of rules inside an Ands follows Go map     *)
(* order too; it is fixed here, as no property reads it.                  *)
(***************************************************************************)
(* Fault variant: a base with a single choice is synced in every branch. *)
SyncBasesEvery(fork, ks, k) == SelectSeq(ks, LAMBDA x : Len(fork[x]) = 1)

SyncBases(fork, ks, k) == SelectSeq(ks, LAMBDA x : Len(fork[x]) = 1 /\ fork[x][1].branch # k)

StateChoiceOr(e) ==
  /\ phase = "lower"
  /\ ParseChoice(e).ors # << >>
  /\ LET sc     == ParseChoice(e)
         a      == BuiltIns(ssa, sc.ands)
         o      == BuiltIns(a.ssa, sc.ors)
         andRs  == FlattenSeq(a.per)
         n      == Len(sc.ors)
         labels == (1..n) \cup (IF sc.ands # << >> THEN {n + 1} ELSE {})
         V(k)   == IF k <= n THEN o.per[k] ELSE andRs
     IN \E ord \in SetToSeqs(labels) :
        LET fork == FoldLeft(LAMBDA f, k : BuildForkChoice(f, V(k), k), << >>, ord)
            K    == DOMAIN fork
            ks   == SetToSeq(K)
            phi  == [k \in K |-> AdvanceIn(o.ssa, k)]
            Syncs(k) == LET xs == SyncBases(fork, ks, k)
                        IN [i \in DOMAIN xs |-> CapRule(xs[i], phi[xs[i]], ReadIn(ssa, xs[i]))]
            Ands(k) == V(k) \o CapCond(fork, phi, k, ks) \o Syncs(k)
            new  == [b \in Bases |-> IF b \in K THEN phi[b] ELSE o.ssa[b]]
            rule == [kind  |-> "choices", op |-> "or", expr |-> e,
                     ands  |-> [i \in DOMAIN ord |-> Ands(ord[i])],
                     phis  |-> phi,
                     truth |-> [i \in DOMAIN ord |->
                                  [b \in K |-> EndIn(V(ord[i]), b, ReadIn(ssa, b))]]]
        IN /\ \A b \in Bases : new[b] <= MaxSSA
           /\ ssa' = new
           /\ roundVars' = FoldLeft(AddVarToRound, roundVars,
                                    a.log \o o.log \o [i \in DOMAIN ks |-> <<ks[i], phi[ks[i]]>>])
           /\ inits' = inits \cup Defs(andRs) \cup Defs(FlattenSeq(o.per))
                             \cup {<<k, phi[k]>> : k \in K}
           /\ forks' = NewFork(forks, fork)
           /\ EmitRules(<<rule>>, {<<b, new[b]>> : b \in K})
  /\ UNCHANGED <<phase, joined>>

(* The body of a state function: built-in calls and chains, inside or   *)
(* outside if/else, then generateRules.  Stores are those of Lowering.   *)
SNext ==
  \/ \E t \in Targets : AdvanceCall(t)
  \/ \E cb \in Bases : OpenCond(cb)
  \/ ElseBranch
  \/ CloseEmptyCond
  \/ JoinCond
  \/ GenerateRules
  \/ \E e \in Chains : StateChoiceAnd(e)
  \/ \E e \in Chains : StateChoiceOr(e)

SSpec == Init /\ [][SNext]_vars

-----------------------------------------------------------------------------
Choiceses == {AllRules[i] : i \in {j \in DOMAIN AllRules : AllRules[j].kind = "choices"}}

(***************************************************************************)
(* Spec 4.4 (state-machine transitions): the || of a chain is an Ands per *)
(* branch under (assert (or ..)), so each branch must fix the phi of      *)
(* every base of the fork exactly once, to the value the base has when   *)
(* that branch alone is taken: its last state written in the branch, or  *)
(* its state before the chain.  Written by capCond and capCondSyncRules. *)
(***************************************************************************)
ChoicesSynced ==
  \A r \in Choiceses : r.op = "or" =>
    \A i \in DOMAIN r.ands, k \in DOMAIN r.phis :
      LET caps == {j \in DOMAIN r.ands[i] : r.ands[i][j].def = <<k, r.phis[k]>>}
      IN /\ Cardinality(caps) = 1
         /\ \A j \in caps : r.ands[i][j].uses = << <<k, r.truth[i][k]>> >>

(* The alternatives of a chain: the sets of states advanced together.   *)
RECURSIVE Dnf(_)
Dnf(e) ==
  CASE e.op = "call" -> IF e.t = Stay THEN {{}} ELSE {{e.t}}
    [] e.op = "or"   -> Dnf(e.x) \cup Dnf(e.y)
    [] e.op = "and"  -> {u \cup v : u \in Dnf(e.x), v \in Dnf(e.y)}

Advanced(rs) == {rs[j].def[1] : j \in {i \in DOMAIN rs : rs[i].kind = "store"}} \cap Targets

(***************************************************************************)
(* Spec 4.4: a chain of advance/stay joined by && and || is lowered with   *)
(* "the correct Boolean operator": the branches of its Choices rule       *)
(* (parseChoice, then stateRules) advance exactly the sets of states the  *)
(* alternatives of the expression advance together.                        *)
(***************************************************************************)
ChainMeaning ==
  \A r \in Choiceses : {Advanced(r.ands[i]) : i \in DOMAIN r.ands} = Dnf(r.expr)

=============================================================================
