----------------------------- MODULE FwdCode910 -----------------------------
(***************************************************************************)
(* The forward kernel of a core on the 910 (v3), mha_fwd_kvcache.cpp, as   *)
(* instructions of its cube engine and one of its vector engines: the      *)
(* stacks of the core's tasks, one iteration each, their output two        *)
(* iterations later (PRE_LAUNCH), in workspace slots taken in turn         *)
(* (STACK_SLOTS).  FwdPipeline has both vector engines and all tasks, this *)
(* module the pipes inside each step.                                      *)
(***************************************************************************)
EXTENDS CubeCode910, VecCode910

PRE_LAUNCH == 2
STACK_SLOTS == 3

(* The global memory of the i-th stack: workspace by slot, output by task. *)
Globals(i, t) ==
  [scores |-> Shared("S", i % STACK_SLOTS), p |-> Shared("P", i % STACK_SLOTS),
   product |-> Shared("OTmp", i % STACK_SLOTS), update |-> Shared("OUpdate", 0),
   out |-> Shared("O", t.state), lse |-> Shared("Lse", t.state),
   partial |-> Shared("OFD", t.state), partialLse |-> Shared("LseFD", t.state)]

SlipEveryStack(last) == Set("MTE1_MTE2", 3)
LastStack(last) == When(last, Set("MTE1_MTE2", 3))
BlockMmadQK(x, out) == IF x.slices > 1 THEN HeadDimSplitQK(x, out) ELSE QK(x, out)
BlockMmadPV(x, in, out) ==
  IF x.slices > 1 \/ x.compact THEN HeadDimSplitPV(x, in, out) ELSE PV(x, in, out)
OnlineSoftmax(t, in, out) ==
  CASE t.mask = "causal" -> CausalSoftmax(t, in, out)
    [] t.mask = "swa" -> SwaSoftmax(t, in, out)
    [] OTHER -> Softmax(t, in, out)

(* runMainLoop: the scores of a stack and their softmax ...                *)
Issue(x, t, g) ==
  On("AIC", When(t.first, LoadQGM) \o BlockMmadQK(x, g.scores) \o LastStack(t.last)
            \o CrossCoreSet("FIX", Shared("qkReady", 0)))
  \o On("AIV", OnlineSoftmax(t, g.scores, g.p) \o CrossCoreSet("MTE3", Shared("softmaxReady", 0)))
(* ... and its product with V.                                             *)
Delayed(x, t, g) ==
  On("AIC", BlockMmadPV(x, g.p, g.product) \o CrossCoreSet("FIX", Shared("pvReady", 0)))
  \o On("AIV", RescaleO(t, g))

Shape(x, t) == [x EXCEPT !.copyback = t.copyback]
Iteration(x, stacks, i) ==
  When(i <= Len(stacks),
       On("AIV", When(stacks[i].zeroed, InitOutputs(stacks[i].lse, Globals(i, stacks[i]))))
       \o Issue(Shape(x, stacks[i]), stacks[i], Globals(i, stacks[i])))
  \o When(i > PRE_LAUNCH,
       LET j == i - PRE_LAUNCH IN Delayed(Shape(x, stacks[j]), stacks[j], Globals(j, stacks[j])))

(* SyncAll: every engine waits for the others. *)
SyncAll ==
  On("AIC", CrossCoreSet("S", Shared("syncAIC", 0))) \o On("AIV", CrossCoreSet("S", Shared("syncAIV", 0)))
  \o On("AIC", CrossCoreWait(Shared("syncAIV", 0))) \o On("AIV", CrossCoreWait(Shared("syncAIC", 0)))

FAInferKernel(x, stacks, combine) ==
  On("AIC", CubePrologue) \o On("AIV", VectorPrologue)
  \o Repeat(LAMBDA i: Iteration(x, stacks, i), Len(stacks) + PRE_LAUNCH)
  \o On("AIC", CubeEpilogue) \o On("AIV", VectorEpilogue)
  \o When(combine.splits > 0,
          SyncAll \o On("AIV", CombineScale(combine, Globals(1, stacks[1]))))

=============================================================================
