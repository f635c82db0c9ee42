# TLA+ models of the Fault compiler back end

Fault compiles a model written in the Fault language to LLVM IR. The code in
`src/` takes that IR to SMT-LIB and runs a solver on it:

| Part | Source | State it keeps |
|---|---|---|
| C1 SSA lowering | `smt/generator.go` parseRunBlock … storeRule, parseTermCon, parseTerms, capCond, capCondSyncRules, parseBuiltIn, parseChoice, stateRules | `variables.SSA` (base → index), the phi stack, `rawRules`, `inPhiState` |
| C2 Round log | `smt/generator.go` newRound, addVarToRound, varRounds, lookup* | `RoundVars`: rounds of `[base, index]` |
| C3 Forks | `smt/generator.go` newFork, buildForkChoice, newChoice | `forks`: per conditional, base → Choices (branch, values) |
| C4 Parallel runs | `smt/generator.go` parallelPermutations, runParallel, parallel groups, capParallel | `parallelGrouping`, `parallelRunStart` |
| C5 Assertion compiler | `smt/asserts.go`, `applyTemporalLogic` | pure: reads the round log |
| C6 Emitter | `smt/generator.go` writeRule, writeInitRule, declareVar, generateRules, SMT | `inits`, `rules` (text) |
| C7 Solver driver | `execute/execute.go` | solver command, results map |
| legacy | `smt/smt.go` | an older copy of the generator, not used by generator.go |
| parser | `parser/fault_parser.go` | ANTLR-generated |

How they interact. C1 walks the IR of the run block. Every store allocates a
fresh SSA index (AdvanceSSA), appends `[base, index]` to the current round
of C2, and emits a rule. A store to `@__rounds` closes the round.

A conditional branch (`parseTermCon`) pushes a phi snapshot and lowers the
true successor, then the false one. It then records in C3 which identifiers
each branch wrote (buildForkChoice over allStateChangesInRule). capCond
allocates one phi per base of the fork: it declares the phi, logs it in C2,
and equates the phi with each choice's end value. capCondSyncRules equates
the phi with the start value on the side that left the base alone. The two
branches and the Ite go to the enclosing scope.

C6 writes the declarations and rules. C5 turns the assertions into SMT
over the identifiers in the round log. C7 runs the solver and reads the
model back, using the forks from C3.

The code is single-threaded, so the hard behaviours are about order and
sequence rather than concurrency:
- Go map iteration order in capCond and capCondSyncRules;
- the order in which identifiers are recorded in a Choice;
- nesting of conditionals and the phi state;
- indices that are read once and used later (the load index);
- off-by-one at the first index of a base;
- the output-trimming loop of C7 and the counting filters of C5 at their
  edges.

## Modules

`Lowering.tla` models C1, C2, C3 and, of C6, the declarations.

The IR program is not fixed: each behaviour lowers one program, and each step
chooses the program's next instruction:

| Action | Code |
|---|---|
| `Store(x, s)` | storeRule: literal, load or infix (`expr`) source |
| `NewRound` | store to `@__rounds` |
| `OpenCond(c)` | parseTermCon up to parseTerms: pushes a frame holding the SSA snapshot (InitPhis) |
| `ElseBranch` | parseTerms moves to the false successor |
| `CloseEmptyCond` | isBranchClosed |
| `JoinCond` | the rest of parseTermCon: newFork, buildForkChoice ×2, capCond ×2, capCondSyncRules, the Ite, PopPhis/AppendState |
| `GenerateRules` | generateRules/writeInitRule |

The frame stack is the phi stack, and its depth is the `inPhiState` level.
`JoinCond` picks the Go map order `ord` nondeterministically. The model uses
the same order for both sides of the Ite. Rule order within a side is not
observed by any property.

Variables:
- `ssa` is `variables.SSA`, with `Unset` for a missing key.
- `roundVars` is `RoundVars`.
- `out` holds the run block's rules, without their text.
- `forks` is `g.forks`.
- `inits` is the set of declared identifiers.
- `joined` is a history variable: the number of conditionals joined.

Stores render their sources as identifiers:
- a literal renders as nothing;
- a load renders as `<<y, SSA[dst]>>`, as at line 1293;
- an infix source renders as `<<y, SSA[y]>>`, read by convertInfixVar.

Behaviour of packages that are not in the repository (`variables`, `forks`),
marked `spec_modelled` in PROJECT.json:
- AdvanceSSA starts an absent base at 0; otherwise it adds 1.
- GetStartState is the SSA snapshot taken when the conditional was entered.
- `Choice.GetEnd` is the last value recorded.

`MC_Lowering.tla` gives the constants two bases, `x` and `y`, as model
values, with symmetry over them.

## Runs

Passing runs:

| Run | Bounds | Properties |
|---|---|---|
| `lowering_asserts` (`MC_LoweredAsserts.cfg`) | literal and infix stores, MaxSSA 2, one round boundary, depth 1, symmetric; then every assertion of `Operands` (see StatePairing) | RoundLogExact, IteSynced, DeclaredBeforeUse, ClausesFaithful |
| `lowering_nested` (`MC_Lowering_nested.cfg`) | literal stores, MaxSSA 3, depth 2 | TypeOK and the same three |

What the properties say:
- **RoundLogExact**: the indices of each base in the round log are exactly
  0..SSA, in order. C5 resolves state references through this log.
- **IteSynced**: each side of every Ite assigns every phi of its fork exactly
  once, from a smaller index.
- **DeclaredBeforeUse**: in the generated SMT, every identifier used is
  declared.

Between them the two passing Lowering runs fire every action and every disjunct of
`Next`. The bounds are enough for:
- two stores to one base in a branch (the Choice accumulation case);
- a base written in only one branch (the sync case);
- a conditional inside a branch whose Ite and phis move to the outer branch.

No fairness is assumed. Lowering is a terminating sequential walk, and all
properties are safety properties. Deadlock is not checked, because lowering
stops when the program ends.

Violation runs. Each checks one property that the spec or the code's own
intent states:

| Run | Property | What TLC shows |
|---|---|---|
| `lowering_join_value` | IteJoinCorrect | `x = x + 1` in a branch records Choice values `[1, 0]`, so the phi is equated with `x_0`, the value before the assignment |
| `lowering_load_index` | DeclaredBeforeUse | `x = 1; x = load y` uses `y_1`, never declared |

Two more divergences of Lowering are listed as hazards and have no run
(the project holds at most twelve runs):
- **Unregistered base** (RoundLogExact, generator.go:1310). A non-Float
  global stored from an expression is logged as index 1 but defined as 0.
  To reproduce it, set `FloatGlobals <- {x}` and allow `expr` stores.
- **Forks overwritten** (ForksRetained, generator.go:166). newFork runs
  inside inPhiState, so a second conditional replaces the first one's fork.
  To reproduce it, run two sequential conditionals with ForksRetained as
  the invariant.

### StateCharts (C1, C3)

`StateCharts.tla` extends Lowering with the statechart built-ins and
their chains. A component function
`@Comp__state` may call `advance(this.t)` or `stay()`. It may also combine
such calls with `&&` and `||`, whose result the IR stores as a chain.

| Action | Code |
|---|---|
| `AdvanceCall(t)` | parseInstruct 531-543: a built-in call with no chain becomes parseBuiltIn |
| `StateChoiceAnd(e)` | stateRules with no Ors: andStateRule, a Choices rule with op `and` |
| `StateChoiceOr(e)` | stateRules with Ors: andStateRule, orStateRule, then syncStateRules (newFork, buildForkChoice, capCond per branch in a Go map order `ord`, then capCondSyncRules) |

Helpers:
- `ParseChoice` is parseChoice over an expression tree of `Call`, `And`
  and `Or`.
- `ParseBuiltIn` logs `t_{n+1}` and `Comp_{m+1}` and emits `t = true` and
  `Comp = false`. stay() has no argument, so it yields no rule.
- `SyncBases` is capCondSyncRules' test `len(c) == 1`.

Assumptions:
- The run block has stored every state first. MC_StateCharts therefore
  registers all bases (`FloatGlobals <- MCBases`).
- Chains are two calls, a three-way `||`, or `(b && stay()) || a`.

Properties:
- **ChoicesSynced**: in every branch of a `||` chain, every phi has
  exactly one cap rule, and it equates the phi with that branch's end value.
- **ChainMeaning**: the set of target states advanced by the branches is
  the disjunctive normal form of the chain.
- **RoundLogExact** and **DeclaredBeforeUse**, as in Lowering.

Runs:
- `statecharts` (pass, MaxSSA 3) checks the four properties over every Go
  map order of two-branch chains.
- `statecharts_stay` (violation) lowers `advance(a) || advance(b) ||
  stay()`. capCondSyncRules syncs only bases that changed in exactly one
  branch. The component state changed in two of the three branches, so the
  stay() branch leaves its phi free, although stay() should keep the
  current state.

A nested chain `a && (b || stay())` violates ChainMeaning. parseChoice
appends an infix child's Ands and Ors whatever the parent operator, so the
chain lowers as `b || stay() || a`. To reproduce it, set
`Chains <- {And(Call(a), Or(Call(b), Call(stay)))}`. It is listed as a
hazard and has no run of its own.

### TemporalAsserts (C5)

`TemporalAsserts.tla` models parseAssert for assertions whose two sides
have different bases. It covers expandAssertStateGraph with
impliesOnOffPairs and packageStateGraph, then applyTemporalLogic and
eventuallyAlways.

The model abstracts both the assertion and the solver:
- An assertion is a record: assume or assert, temporal modifier, filter, N,
  and n (the number of enumerated states, that is, the Cartesian product of
  the two sides' states).
- A compiled term is a tree of `and`/`or` nodes over per-state clauses. The
  clause of state i is the comparison of the i-th pair; its off form is the
  negated comparison.
- `Eval` stands for the solver: it gives the term's truth for a valuation of
  the clauses.

`Compile`, one parseAssert call, is the only action.

The properties compare the term with the meaning of the modifier over every
valuation:
- **AssumeMeaning**: an assume holds exactly when the property does.
- **AssertMeaning**: an assert, whose operator the front end has already
  negated, is satisfiable exactly when the property is violated.

For an assert, `eventually` is compiled as `(and …)` of the negated
clauses. Spec §4.5 step 5 writes `(or …)`, but under the negation the code
is the correct one, and AssertMeaning holds.

`util.Combinations` is not in the repository, so its order is a fixed
enumeration of the N-subsets. No property depends on that order.

### StatePairing and LoweredAsserts (C2, C5)

`StatePairing.tla` is a module of operators, with no state. It translates
how asserts.go turns the two sides of a comparison into clauses:
- the round log lookups of generator.go: `Log` (addVarToRoundLookup),
  `LookupVarRounds`, `LookupVarSpecificState` and `VarRounds`;
- `ParseInvariantNode` for a variable, `x[k]`, an integer literal and
  `x + literal`;
- `MergeByRound` with each case of mergeByRound, in the code's order:
  both constant, same base (`SameBase`), one side constant (`Balance`),
  both terminal (`TermCombos`), and the per-round cross product
  (`CrossByRound`);
- `FlattenStates` and `CompileComparison` (mergeInvariantInfix, then
  joinStates).

A rendered term (`x_3`, `5`) is a record, and a clause `(op a b)` is the
pair it was built from. The operator and the text are left out.

`LoweredAsserts.tla` composes Lowering with the assertion compiler, as
newCallgraph does: after `GenerateRules`, each assertion is compiled over
the round log the lowering built. parseAssert only reads the log, so
`CompileAssert` is an operator, not an action. The run's next-state
relation is Lowering's `Next`, and the property applies `CompileAssert` to
every operand pair in every state where `phase = "done"`. Two assumptions:
- the number of run rounds (`g.Rounds`, through LoadMeta) is the number of
  stores to `@__rounds`;
- an AssertVar is a full name, so captureState makes it terminal.

`MC_LoweredAsserts` enumerates these operand pairs (`Operands`): a variable or `x + 1` on
the left, and a variable, `x + 1` or a literal on the right.

**ClausesFaithful** says the compilation does not panic. Every clause
compares a state of the left side with a state of the right, in that
order. Every state either side stands for is compared in some clause.

### SolverDriver (C7)

`SolverDriver.tla` models Solve and Filter of `execute/execute.go`.

The solver's output, after TrimSpace, is a sequence of line kinds: a status
word, an empty line, or `paren` for a line starting with `(`.

The actions:
- `CleanStep` is one iteration of cleanExtraOutputs. It panics on empty
  text. With no newline, `strings.Index` gives -1 and `results[0:]` leaves
  the text unchanged.
- `Parse` stands for the ANTLR walk. It returns any typed trace (or nil) per
  base.
- `Filter` applies stateAssessment to each uncertain base that has a
  non-nil trace.

Solve and Filter run in one goroutine, one statement after the other. That
justifies `WF_vars(Next)`: a step that stays enabled is taken.

The run checks only that Solve returns (SolveTerminates). Two properties
were dropped:
- A Filter invariant (FilterKeepsTraces), because over Float and Int traces
  it only restated Filter's guard.
- A refinement to an abstract "Solve returns the reweighted model" spec,
  because it added nothing beyond SolveTerminates.

The one case where reweighting can go wrong is Bool traces.
stateAssessment returns nil for them (execute.go:182). Setting TraceTypes
to `{"bool"}` shows FilterKeepsTraces violated. That case is a hazard with
no run.

### ParallelRuns (C4)

`ParallelRuns.tla` models the call case of parseInstruct. Actions:
- `Call` runs the three tests in the code's order: isSameParallelGroup,
  then singleParallelStep, then flush-and-push. It then calls
  updateParallelGroup.
- `NextGroup` starts the next statement of the run block.
- `NewRound` is the flush at a store to `@__rounds`.
- `EndRun` is the flush at the end of parseBlock.

Each flush is executeCallstack. It hands the batch to generateFromCallstack,
which runs the batch in the orders of `ParallelPermutations`, a RECURSIVE
transcription of the swap recursion of parallelPermutations.

The front end writes the metadata of a call (its group tag and its round
tag), and it is not in the repository. The order of the two tags is
therefore the constant `TagOrders`.

## Runs (C4, C5, C7)

| Run | Bounds | Properties | Result |
|---|---|---|---|
| `asserts_meaning` | n ≤ 4 states, all temporal modifiers, nft N ≤ 3 | AssumeMeaning, AssertMeaning | pass |
| `asserts_index` | `x[1] > 5` after a round boundary | ClausesFaithful | violated: compiles to no clause |
| `solver_driver` | 3 bases, 2 uncertain, Float/Int traces, four z3 output shapes | SolveTerminates | pass |
| `solver_bare_status` | output `unsat` alone | SolveTerminates | violated: cleanExtraOutputs loops forever |
| `parallel_batches` | 3 callees (symmetric), 4 calls, 2 groups, 2 rounds, round tag first | BatchesShareGroup, AllInterleavings | pass |
| `parallel_group_tag` | group tag first | BatchesShareGroup | violated: `Name[0:5] != "round-"` always holds, so the round becomes the grouping |

Why these bounds are enough:
- Four states and N ≤ 3 cover one, two and more states on and off, every
  suffix for eventually-always, and N = n.
- In ParallelRuns, 4 calls, 2 groups and 2 rounds are enough for:
  - a batch of 3, which has 6 orders;
  - a group change;
  - a group whose first callee is the previous group's last;
  - a round boundary inside a run.

Every property of a passing run has a mutant in PROJECT.json that TLC
catches.

The project is limited to twelve runs, so these divergences are listed as
hazards in PROJECT.json and have no run of their own:
- **Filter bound.** nmt/nft with N larger than the number of states panics
  at `ir[0]` of an empty list (generator.go:1783). This is the same panic
  as the nmt divergence below, reached through a larger N.
- **Literal on the left.** `0 < x` compiles to `(< x_0 0)`: balance puts
  the variable side first (asserts.go:262). Shown by adding
  `<<Lit, Var(x)>>` to `Operands` (ClausesFaithful).
- **Same base over rounds.** `x` against `x + 1` over several rounds
  panics at `slast[len(slast)-1]` or drops states (asserts.go:223, 250).
- **nmt excludes zero.** For nmt, the code requires at least one state on;
  the glossary's "no more than N" includes none.
- **Empty output.** An empty solver output panics at `results[0:1]`.
- **Bool traces.** stateAssessment returns nil for a Bool trace, and the
  spec says the trace is left unweighted.
- **Groups split.** singleParallelStep runs before the group compare, so
  in `a | b; b | c` b runs alone and c separately.
- **Permutation order.** The permutations come in swap order, not in the
  lexicographic order spec 4.4 states.

Each can be shown by changing the bounds of an existing run:
- nmt: `Filters` with `"nmt"` (AssumeMeaning).
- Empty output: `Outputs` with `<< >>` (SolveTerminates).
- Bool traces: `TraceTypes` with `"bool"` and FilterKeepsTraces as the
  invariant.

## Plan

1. Lowering: the callstack of function calls (executeCallstack), and
   statechart chains inside conditionals.
2. ParallelRuns: runParallel and capParallel. These need the SSA numbering
   of variables.SaveState/LoadState, which is not in the repository.
3. An abstract spec of lowering, the value of each base after a program,
   refined by Lowering where the findings allow.
4. Larger instances of the current runs, and LoweredAsserts with several
   rounds once the same-base divergence is settled.

## Not modelled

- The SMT-LIB and solver-output text, beyond which identifiers are declared
  and used, and the line kinds of the output.
- Check, which classifies output through `util.FromEnd` (not in the
  repository).
- LoadMeta, which formats metadata for display.
- When/then assertions (parseInvariant), prefix expressions
  (mergeInvariantPrefix), and infix operands other than `x + literal`.
- Temporal logic over same-base or round-paired clauses: TemporalAsserts
  takes the clauses as n abstract states.
- The legacy `smt.go`.
- The generated parser: 13583 lines of ANTLR output. It alone keeps line
  coverage of the source low.
