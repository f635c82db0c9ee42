------------------------------- MODULE Lowering -------------------------------
(***************************************************************************)
(* SSA lowering of smt/generator.go: stores, run-round boundaries and     *)
(* if/else conditionals with their join (fork choices, capCond and the    *)
(* capCondSyncRules patch), the round log RoundVars and the declarations  *)
(* written by the emitter.                                                 *)
(*                                                                         *)
(* The IR program is not fixed: every behaviour is the lowering of one    *)
(* program, whose next instruction is chosen by the step taken.  Depth of *)
(* the frame stack is the nesting of conditionals being lowered, i.e. the *)
(* level of inPhiState.                                                    *)
(***************************************************************************)
EXTENDS Integers, Sequences, SequencesExt, FiniteSets, TLC

CONSTANTS
  Bases,        \* bases of user variables (model values)
  FloatGlobals, \* bases declared as Float globals, registered by constantRule
  StoreOps,     \* kinds of stored value enumerated: "lit", "load", "expr"
  MaxSSA,       \* largest SSA index a base may reach
  MaxRounds,    \* number of stores to @__rounds in the run block
  MaxDepth      \* nesting depth of conditionals

ASSUME /\ FloatGlobals \subseteq Bases
       /\ StoreOps \subseteq {"lit", "load", "expr"}
       /\ MaxSSA \in Nat /\ MaxRounds \in Nat /\ MaxDepth \in Nat

VARIABLES
  ssa,        \* variables.SSA: base -> current index, Unset when absent
  roundVars,  \* g.RoundVars: sequence of rounds of <<base, index>>
  frames,     \* one frame per conditional being lowered (parseTermCon)
  out,        \* rules of the run block (g.rawRules, flattened)
  forks,      \* g.forks
  inits,      \* identifiers declared by declareVar (g.inits)
  phase,      \* "lower" while parsing, "done" once generateRules ran
  joined      \* conditionals joined so far (history, for ForksRetained)

vars == <<ssa, roundVars, frames, out, forks, inits, phase, joined>>

Unset == -1
Branches == {"true", "false"}
Other(br) == IF br = "true" THEN "false" ELSE "true"
Id == Bases \X (0..MaxSSA)

(* A Go map read of SSA[base] yields 0 for an absent base. *)
Read(b) == IF ssa[b] = Unset THEN 0 ELSE ssa[b]

(* variables.AdvanceSSA: an absent base starts at 0, otherwise +1. *)
Advance(b) == IF ssa[b] = Unset THEN 0 ELSE ssa[b] + 1

(* addVarToRound: the first entry creates round 0 (initVarRound). *)
AddVarToRound(rv, e) ==
  IF rv = <<>> THEN << <<e>> >> ELSE [rv EXCEPT ![Len(rv)] = Append(@, e)]

Src ==
  {[op |-> "lit"] : o \in StoreOps \cap {"lit"}}
    \cup {[op |-> o, from |-> b] : o \in StoreOps \ {"lit"}, b \in Bases}

(***************************************************************************)
(* storeRule.  A literal source is rendered as is; a load of global y is  *)
(* rendered y_n where n is SSA[base] of the destination; an infix source  *)
(* was built by createInfixRule, whose convertInfixVar read GetSSA(y).    *)
(* The index added to the round is SSA[base] after the advance for a      *)
(* literal and n+1 for a temp source.                                     *)
(***************************************************************************)
StoreUses(s, n) ==
  CASE s.op = "lit"  -> << >>
    [] s.op = "load" -> << <<s.from, n>> >>
    [] s.op = "expr" -> << <<s.from, Read(s.from)>> >>

(* Fault variant: the index before the advance is logged for a literal. *)
StoreRoundIndexBefore(s, n, id) == IF s.op = "lit" THEN n ELSE n + 1

StoreRoundIndex(s, n, id) == IF s.op = "lit" THEN id ELSE n + 1

(* A rule is appended to the list of the branch being lowered, or to the  *)
(* run block.  The frame remembers the last index each base received in   *)
(* each branch.                                                            *)
PushRules(fr, rs, alloc) ==
  [fr EXCEPT !.rules[fr.branch] = @ \o rs,
             !.last[fr.branch] = [b \in Bases |->
                                    IF \E a \in alloc : a[1] = b
                                    THEN (CHOOSE a \in alloc : a[1] = b)[2]
                                    ELSE @[b]]]

EmitRules(rs, alloc) ==
  IF frames = <<>>
  THEN /\ out' = out \o rs
       /\ frames' = frames
  ELSE /\ frames' = [frames EXCEPT ![Len(frames)] = PushRules(@, rs, alloc)]
       /\ out' = out

(***************************************************************************)
(* allStateChangesInRule: the left side, then the identifiers of the      *)
(* right side; for an Ite, every rule of T, then every rule of F.         *)
(***************************************************************************)
RuleIds(r) == <<r.def>> \o r.uses

(* A Choices rule of a statechart step (stateRules): its Ands in order. *)
ChoiceRules(r) == FlattenSeq(r.ands)

StateChanges(r) ==
  CASE r.kind = "ite"
         -> FlattenSeq([i \in DOMAIN r.T |-> RuleIds(r.T[i])])
              \o FlattenSeq([i \in DOMAIN r.F |-> RuleIds(r.F[i])])
    [] r.kind = "choices"
         -> FlattenSeq([i \in DOMAIN ChoiceRules(r) |-> RuleIds(ChoiceRules(r)[i])])
    [] OTHER -> RuleIds(r)

(***************************************************************************)
(* buildForkChoice: a base seen earlier in the same call whose last choice *)
(* is of this branch accumulates the index, otherwise a new choice is     *)
(* appended.  seenVar is local to one call.                                *)
(***************************************************************************)
BuildForkChoice(fork, rules, br) ==
  LET changes == FlattenSeq([i \in DOMAIN rules |-> StateChanges(rules[i])])
      NewChoice(n) == [branch |-> br, values |-> <<n>>]
      Step(acc, s) ==
        LET f == acc[1]  seen == acc[2]  b == s[1]  n == s[2] IN
        IF b \in DOMAIN f
        THEN IF b \in seen /\ Last(f[b]).branch = br
             THEN << [f EXCEPT ![b][Len(f[b])].values = Append(@, n)], seen >>
             ELSE << [f EXCEPT ![b] = Append(@, NewChoice(n))], seen \cup {b} >>
        ELSE << f @@ (b :> <<NewChoice(n)>>), seen \cup {b} >>
  IN IF changes = <<>> THEN fork ELSE FoldLeft(Step, <<fork, {}>>, changes)[1]

(* Choice.GetEnd: the terminal value of the choice. *)
GetEnd(c) == c.values[Len(c.values)]

CapRule(k, phi, from) ==
  [kind |-> "cap", def |-> <<k, phi>>, uses |-> << <<k, from>> >>]

(***************************************************************************)
(* capCondSyncRules: a base of the fork with a single choice, made in the *)
(* other branch, is equated with its start state in branch br.            *)
(***************************************************************************)
(* Fault variant: the branch of the single choice is not compared. *)
NeedsSyncAnyBranch(fork, k, br) == Len(fork[k]) = 1

NeedsSync(fork, k, br) == Len(fork[k]) = 1 /\ fork[k][1].branch = Other(br)

(***************************************************************************)
(* capCond: for each base of the fork in map order, one capRule per       *)
(* choice of branch br, equating the phi with the choice's end.           *)
(***************************************************************************)
CapCond(fork, phi, br, ord) ==
  FlattenSeq([i \in DOMAIN ord |->
    LET k  == ord[i]
        cs == SelectSeq(fork[k], LAMBDA c : c.branch = br)
    IN [j \in DOMAIN cs |-> CapRule(k, phi[k], GetEnd(cs[j]))]])

(* newFork: always called in a phi state, so the last fork is replaced.  *)
NewFork(fs, fork) == IF fs = <<>> THEN <<fork>> ELSE Append(Front(fs), fork)

StartState(fr, k) == IF fr.start[k] = Unset THEN 0 ELSE fr.start[k]

-----------------------------------------------------------------------------
(* newConstants / constantRule: each Float global gets index 0 in round 0 *)
(* and is declared by writeInitRule.                                      *)
Init ==
  /\ ssa = [b \in Bases |-> IF b \in FloatGlobals THEN 0 ELSE Unset]
  /\ \E order \in SetToSeqs(FloatGlobals) :
       roundVars = IF order = <<>> THEN <<>>
                   ELSE << [i \in DOMAIN order |-> <<order[i], 0>>] >>
  /\ frames = <<>>
  /\ out = <<>>
  /\ forks = <<>>
  /\ inits = FloatGlobals \X {0}
  /\ phase = "lower"
  /\ joined = 0

(* Fault variant: SSA of the destination is advanced twice. *)
StoreAdvanceTwice(x, s) ==
  /\ phase = "lower"
  /\ Advance(x) <= MaxSSA
  /\ LET n  == Read(x)
         id == Advance(x)
     IN /\ ssa' = [ssa EXCEPT ![x] = id + 1]
        /\ roundVars' = AddVarToRound(roundVars, <<x, StoreRoundIndex(s, n, id)>>)
        /\ EmitRules(<< [kind |-> "store", def |-> <<x, id>>,
                         uses |-> StoreUses(s, n)] >>, {<<x, id>>})
  /\ UNCHANGED <<forks, inits, phase, joined>>

(* store of a value into base x (parseInstruct, storeRule). *)
Store(x, s) ==
  /\ phase = "lower"
  /\ Advance(x) <= MaxSSA
  /\ LET n  == Read(x)
         id == Advance(x)
     IN /\ ssa' = [ssa EXCEPT ![x] = id]
        /\ roundVars' = AddVarToRound(roundVars, <<x, StoreRoundIndex(s, n, id)>>)
        /\ EmitRules(<< [kind |-> "store", def |-> <<x, id>>,
                         uses |-> StoreUses(s, n)] >>, {<<x, id>>})
  /\ UNCHANGED <<forks, inits, phase, joined>>

(* store into @__rounds in the run block: flush and open a new round. *)
NewRound ==
  /\ phase = "lower"
  /\ frames = <<>>
  /\ Len(roundVars) <= MaxRounds
  /\ roundVars' = Append(roundVars, <<>>)
  /\ UNCHANGED <<ssa, frames, out, forks, inits, phase, joined>>

(* parseTermCon up to parseTerms: the condition reads base c, InitPhis   *)
(* pushes the phi map, the true successor is lowered first.              *)
OpenCond(c) ==
  /\ phase = "lower"
  /\ Len(frames) < MaxDepth
  /\ frames' = Append(frames,
                 [start  |-> ssa,
                  cond   |-> <<c, Read(c)>>,
                  branch |-> "true",
                  rules  |-> [br \in Branches |-> <<>>],
                  last   |-> [br \in Branches |-> [b \in Bases |-> Unset]]])
  /\ UNCHANGED <<ssa, roundVars, out, forks, inits, phase, joined>>

(* parseTerms: the false successor, with the local call stack cleared. *)
ElseBranch ==
  /\ phase = "lower"
  /\ frames # <<>>
  /\ Last(frames).branch = "true"
  /\ frames' = [frames EXCEPT ![Len(frames)].branch = "false"]
  /\ UNCHANGED <<ssa, roundVars, out, forks, inits, phase, joined>>

(* parseTermCon after parseTerms, both branches empty: nothing is         *)
(* emitted, PopPhis.                                                      *)
CloseEmptyCond ==
  /\ phase = "lower"
  /\ frames # <<>>
  /\ Last(frames).branch = "false"
  /\ Last(frames).rules["true"] = <<>> /\ Last(frames).rules["false"] = <<>>
  /\ frames' = Front(frames)
  /\ UNCHANGED <<ssa, roundVars, out, forks, inits, phase, joined>>

(***************************************************************************)
(* parseTermCon after parseTerms, some branch not empty: newFork (inside  *)
(* a phi state, so it replaces the last fork), buildForkChoice for both   *)
(* branches, capCond("true") allocating and declaring one phi per base of *)
(* the fork in map order, capCond("false"), capCondSyncRules, the Ite,    *)
(* PopPhis and AppendState.  The rules t, f and the Ite go to the parent. *)
(***************************************************************************)
JoinCond ==
  /\ phase = "lower"
  /\ frames # <<>>
  /\ Last(frames).branch = "false"
  /\ Last(frames).rules["true"] # <<>> \/ Last(frames).rules["false"] # <<>>
  /\ LET fr   == Last(frames)
         fork == BuildForkChoice(BuildForkChoice(<<>>, fr.rules["true"], "true"),
                                 fr.rules["false"], "false")
         K    == DOMAIN fork
         phi  == [k \in K |-> Advance(k)]
         Syncs(br, ord) ==
           FlattenSeq([i \in DOMAIN ord |->
             LET k == ord[i] IN
             IF NeedsSync(fork, k, br)
             THEN << CapRule(k, phi[k], StartState(fr, k)) >> ELSE << >>])
     IN /\ \A k \in K : phi[k] <= MaxSSA
        /\ \E ord \in SetToSeqs(K) :
             LET ite == [kind  |-> "ite", cond |-> fr.cond,
                         T     |-> CapCond(fork, phi, "true", ord) \o Syncs("true", ord),
                         F     |-> CapCond(fork, phi, "false", ord) \o Syncs("false", ord),
                         phis  |-> phi,
                         truth |-> [br \in Branches |-> [k \in K |->
                                      IF fr.last[br][k] = Unset
                                      THEN StartState(fr, k)
                                      ELSE fr.last[br][k]]]]
                 rs  == fr.rules["true"] \o fr.rules["false"] \o <<ite>>
                 alloc == {<<k, phi[k]>> : k \in K}
             IN /\ ssa' = [b \in Bases |-> IF b \in K THEN phi[b] ELSE ssa[b]]
                /\ roundVars' = FoldLeft(AddVarToRound, roundVars,
                                         [i \in DOMAIN ord |-> <<ord[i], phi[ord[i]]>>])
                /\ IF Len(frames) = 1
                   THEN /\ out' = out \o rs
                        /\ frames' = <<>>
                   ELSE /\ frames' = [Front(frames) EXCEPT ![Len(frames) - 1] =
                                        PushRules(@, rs, alloc)]
                        /\ out' = out
        /\ forks' = NewFork(forks, fork)
        /\ inits' = inits \cup {<<k, phi[k]>> : k \in K}
  /\ joined' = joined + 1
  /\ UNCHANGED phase

(* Fault variant: stores are written by writeRule, without declaration. *)
GenerateRulesNoStoreDecl ==
  /\ phase = "lower"
  /\ frames = <<>>
  /\ phase' = "done"
  /\ UNCHANGED <<ssa, roundVars, frames, out, forks, inits, joined>>

(* generateRules: writeRule of every rule of the run block; a store is   *)
(* written by writeInitRule, which declares its left side.               *)
GenerateRules ==
  /\ phase = "lower"
  /\ frames = <<>>
  /\ phase' = "done"
  /\ inits' = inits \cup {out[i].def : i \in {j \in DOMAIN out : out[j].kind = "store"}}
  /\ UNCHANGED <<ssa, roundVars, frames, out, forks, joined>>

Next ==
  \/ \E x \in Bases, s \in Src : Store(x, s)
  \/ NewRound
  \/ \E c \in Bases : OpenCond(c)
  \/ ElseBranch
  \/ CloseEmptyCond
  \/ JoinCond
  \/ GenerateRules

Spec == Init /\ [][Next]_vars

-----------------------------------------------------------------------------
Rule ==
  [kind : {"store", "cap"}, def : Id, uses : Seq(Id)]

TypeOK ==
  /\ ssa \in [Bases -> {Unset} \cup (0..MaxSSA)]
  /\ roundVars \in Seq(Seq(Id))
  /\ Len(frames) <= MaxDepth
  /\ \A i \in DOMAIN frames :
       /\ frames[i].branch \in Branches
       /\ frames[i].cond \in Id
       /\ frames[i].start \in [Bases -> {Unset} \cup (0..MaxSSA)]
  /\ \A i \in DOMAIN out : out[i].kind \in {"store", "ite", "choices"}
  /\ inits \subseteq Id
  /\ phase \in {"lower", "done"}

(* Every rule in the run block and in the branches still open. *)
AllRules ==
  out \o FlattenSeq([i \in DOMAIN frames |->
                      frames[i].rules["true"] \o frames[i].rules["false"]])

Ites == {AllRules[i] : i \in {j \in DOMAIN AllRules : AllRules[j].kind = "ite"}}

Side(r, br) == IF br = "true" THEN r.T ELSE r.F

(* Indices of base b in the round log, in the order they were added. *)
RoundIndices(b) ==
  LET es == SelectSeq(FlattenSeq(roundVars), LAMBDA e : e[1] = b)
  IN [i \in DOMAIN es |-> es[i][2]]

(***************************************************************************)
(* Spec 8: the state indices in the round log are exactly the SSA indices *)
(* allocated for the base, each once and in allocation order.  The round  *)
(* log is filled by addVarToRound at every store, at every phi of a join  *)
(* and by constantRule; termCombos and varRounds read it back.            *)
(***************************************************************************)
RoundLogExact ==
  \A b \in Bases :
    RoundIndices(b) = IF ssa[b] = Unset THEN << >>
                      ELSE [i \in 1..(ssa[b] + 1) |-> i - 1]

(***************************************************************************)
(* Spec 8: after capCond and capCondSyncRules, both sides of every Ite     *)
(* assign the phi of every base of the fork exactly once, and the phi is  *)
(* a fresh index above the value it is equated with.                      *)
(***************************************************************************)
IteSynced ==
  \A r \in Ites, br \in Branches :
    LET side  == Side(r, br)
        bases == [i \in DOMAIN side |-> side[i].def[1]]
    IN /\ Len(bases) = Cardinality(DOMAIN r.phis)
       /\ Range(bases) = DOMAIN r.phis
       /\ \A i \in DOMAIN side :
            /\ side[i].def = <<bases[i], r.phis[bases[i]]>>
            /\ side[i].uses[1][2] < r.phis[bases[i]]

(***************************************************************************)
(* The phi of a base equals, on each side of the Ite, the value the base  *)
(* had when that branch finished: its last index written in the branch,   *)
(* or its index before the conditional when the branch left it alone.     *)
(***************************************************************************)
IteJoinCorrect ==
  \A r \in Ites, br \in Branches :
    \A i \in DOMAIN Side(r, br) :
      LET c == Side(r, br)[i] IN c.uses[1][2] = r.truth[br][c.def[1]]

UsedIds(r) ==
  IF r.kind = "ite"
  THEN {r.cond} \cup UNION {{r.T[i].def} \cup Range(r.T[i].uses) : i \in DOMAIN r.T}
                \cup UNION {{r.F[i].def} \cup Range(r.F[i].uses) : i \in DOMAIN r.F}
  ELSE IF r.kind = "choices"
  THEN UNION {{c.def} \cup Range(c.uses) : c \in Range(ChoiceRules(r))}
  ELSE Range(r.uses)

(***************************************************************************)
(* Spec 8: once the SMT text is generated, every identifier an assertion  *)
(* uses has a declare-fun (the declarations are written before all rules).*)
(***************************************************************************)
DeclaredBeforeUse ==
  phase = "done" => \A i \in DOMAIN out : UsedIds(out[i]) \subseteq inits

(***************************************************************************)
(* Spec 3: one Fork per conditional; forks are kept after the join since  *)
(* GetForks hands them to the model checker's LoadMeta.                   *)
(***************************************************************************)
ForksRetained == Len(forks) = joined

=============================================================================
