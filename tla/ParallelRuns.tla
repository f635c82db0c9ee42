------------------------------ MODULE ParallelRuns ------------------------------
(***************************************************************************)
(* Batching of calls into parallel runs in smt/generator.go: the call     *)
(* case of parseInstruct (isSameParallelGroup, singleParallelStep,        *)
(* updateParallelGroup), the flushes of the local call stack               *)
(* (executeCallstack at a store to @__rounds, at a change of group and at *)
(* the end of a block) and generateFromCallstack, which runs a batch of   *)
(* more than one callee in every order given by parallelPermutations.     *)
(*                                                                         *)
(* Every call carries two metadata tags, its parallel group and its round;*)
(* the front end that writes them is not in the repository, so the order *)
(* of the two tags is a constant.                                          *)
(***************************************************************************)
EXTENDS Integers, Sequences, SequencesExt, FiniteSets, Functions

CONSTANTS
  Callees,    \* functions called from the run block (model values)
  TagOrders,  \* "round_first": <<round, group>>; "group_first": <<group, round>>
  MaxCalls,   \* calls in the run block
  MaxGroups,  \* parallel groups (statements) of the run block
  MaxRounds   \* rounds unrolled

ASSUME TagOrders \subseteq {"round_first", "group_first"}

VARIABLES
  stack,     \* g.localCallstack, with the group of each call
  grouping,  \* g.parallelGrouping: a metadata name, NoTag for ""
  group,     \* the group of the statement being lowered
  round,     \* the current round
  calls,     \* calls lowered so far
  batches,   \* call stacks handed to generateFromCallstack, with the orders run
  done       \* the run block has been lowered

vars == <<stack, grouping, group, round, calls, batches, done>>

NoTag == [kind |-> "none", val |-> 0]
GroupTag(g) == [kind |-> "group", val |-> g]
RoundTag(r) == [kind |-> "round", val |-> r]

Swap(a, i, j) == [a EXCEPT ![i] = a[j], ![j] = a[i]]

(***************************************************************************)
(* parallelPermutations: rc(a, k) swaps a[k] with each a[i], i >= k,      *)
(* recurses on k+1 and swaps back, so every iteration starts from a.      *)
(***************************************************************************)
(* Fault variant: the loop starts at k + 1, skipping the identity swap. *)
RECURSIVE RcSkipSelf(_, _)
RcSkipSelf(a, k) ==
  IF k > Len(a) THEN << a >>
  ELSE FlattenSeq([j \in 1..(Len(a) - k) |-> RcSkipSelf(Swap(a, k, k + j), k + 1)])

RECURSIVE Rc(_, _)
Rc(a, k) ==
  IF k > Len(a) THEN << a >>
  ELSE FlattenSeq([j \in 1..(Len(a) - k + 1) |-> Rc(Swap(a, k, k + j - 1), k + 1)])

ParallelPermutationsSkipSelf(p) == RcSkipSelf(p, 1)

ParallelPermutations(p) == Rc(p, 1)

(* generateFromCallstack: one callee runs once, more run in every order. *)
GenerateFromCallstack(cs) ==
  IF Len(cs) > 1 THEN ParallelPermutations(cs) ELSE << cs >>

(* executeCallstack: the stack is handed over and cleared. *)
ExecuteCallstack(cs) ==
  IF cs = << >> THEN << >>
  ELSE << [calls |-> cs, orders |-> GenerateFromCallstack([i \in DOMAIN cs |-> i])] >>

(* Fault variant: a call with metadata always joins the current group. *)
IsSameParallelGroupAny(meta) == \E i \in DOMAIN meta : TRUE

(* isSameParallelGroup: a tag equals the grouping, or there is none yet. *)
IsSameParallelGroup(meta) ==
  \E i \in DOMAIN meta : meta[i] = grouping \/ grouping = NoTag

SingleParallelStep(f) == stack # << >> /\ Last(stack).callee = f

(***************************************************************************)
(* updateParallelGroup: `v.Name[0:5] != "round-"` compares five           *)
(* characters with six and always holds, so the last tag becomes the      *)
(* grouping, a round tag included.                                         *)
(***************************************************************************)
UpdateParallelGroup(meta) == IF meta = << >> THEN grouping ELSE meta[Len(meta)]

(* A call instruction to a function of the model (parseInstruct). *)
Call(f, g, order) ==
  /\ ~done
  /\ calls < MaxCalls
  /\ LET meta == IF order = "round_first" THEN << RoundTag(round), GroupTag(g) >>
                 ELSE << GroupTag(g), RoundTag(round) >>
         c    == [callee |-> f, group |-> g, round |-> round]
     IN /\ IF IsSameParallelGroup(meta)
           THEN /\ stack' = Append(stack, c)
                /\ UNCHANGED batches
           ELSE IF SingleParallelStep(f)
           THEN /\ batches' = batches \o ExecuteCallstack(stack) \o ExecuteCallstack(<< c >>)
                /\ stack' = << >>
           ELSE /\ batches' = batches \o ExecuteCallstack(stack)
                /\ stack' = << c >>
        /\ grouping' = UpdateParallelGroup(meta)
  /\ group' = g
  /\ calls' = calls + 1
  /\ UNCHANGED <<round, done>>

(* The next statement of the run block is a new parallel group. *)
NextGroup ==
  /\ ~done
  /\ group < MaxGroups
  /\ group' = group + 1
  /\ UNCHANGED <<stack, grouping, round, calls, batches, done>>

(* A store to @__rounds: the call stack is flushed, a new round opens. *)
NewRound ==
  /\ ~done
  /\ round < MaxRounds
  /\ batches' = batches \o ExecuteCallstack(stack)
  /\ stack' = << >>
  /\ round' = round + 1
  /\ UNCHANGED <<grouping, group, calls, done>>

(* End of the block of @__run: parseBlock clears the call stack. *)
EndRun ==
  /\ ~done
  /\ batches' = batches \o ExecuteCallstack(stack)
  /\ stack' = << >>
  /\ done' = TRUE
  /\ UNCHANGED <<grouping, group, round, calls>>

Init ==
  /\ stack = << >>
  /\ grouping = NoTag
  /\ group = 1
  /\ round = 1
  /\ calls = 0
  /\ batches = << >>
  /\ done = FALSE

Next ==
  \/ \E f \in Callees, order \in TagOrders : Call(f, group, order)
  \/ NextGroup
  \/ NewRound
  \/ EndRun

Spec == Init /\ [][Next]_vars

-----------------------------------------------------------------------------
Batches == Range(batches)

(***************************************************************************)
(* Spec 4.4: callees are batched and permuted together only when they     *)
(* share the parallel-group tag; a change of group flushes the stack.     *)
(***************************************************************************)
BatchesShareGroup ==
  \A b \in Batches : \A i, j \in DOMAIN b.calls : b.calls[i].group = b.calls[j].group

(***************************************************************************)
(* Spec 4.4: a batch of N callees runs in all N! orders, each once: the   *)
(* orders of the positions 1..N are exactly the bijections of 1..N.       *)
(***************************************************************************)
AllInterleavings ==
  \A b \in Batches :
    Len(b.calls) > 1 =>
      /\ Range(b.orders) = Bijection(DOMAIN b.calls, DOMAIN b.calls)
      /\ Len(b.orders) = Cardinality(Range(b.orders))

=============================================================================
