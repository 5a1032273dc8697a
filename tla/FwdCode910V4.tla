---------------------------- MODULE FwdCode910V4 -----------------------------
(***************************************************************************)
(* The forward kernel of a core on the 910, v4: qk_matmul.hpp,             *)
(* pv_matmul.hpp and mha_fwd_kvcache.cpp.  The products are those of v3    *)
(* without the copy of new keys, but that beyond a head dimension of 256   *)
(* each of the two keeps ping-pong flags of its own.  Every task drains    *)
(* its own stacks before the next one starts.                              *)
(*                                                                         *)
(* A task: masks says of each of its stacks which mask bites in it, none   *)
(* when there is no key for it; window, that the masks are a window's;     *)
(* lastNoMask, the number of the last stack without a mask, 0 when there   *)
(* is none; the rest is as for its stacks.                                 *)
(***************************************************************************)
EXTENDS PipeCode

-----------------------------------------------------------------------------
(***************************************************************************)
(* The vector engine's part of the forward kernel on the 910, v4:          *)
(* online_softmax.hpp, rescale_o.hpp and init_outputs.hpp.  What is new    *)
(* against v2: the maximum of a row is raised only beyond a threshold; a   *)
(* block whose rows all kept their maximum is not rescaled, which the      *)
(* scalar unit decides on a minimum the vector unit wrote; and a learnable *)
(* sink, whose rows the scalar unit writes, joins the softmax of a task at *)
(* its last stack.  The softmax of a task waits for the log-sum-exp of the *)
(* last task with the same state slot.                                     *)
(*                                                                         *)
(* A stack t: rows and oRows are its loops of rows in the softmax and in   *)
(* the rescale, first, last, slot, state its place in the task and the     *)
(* task's, mask the mask that bites ("none", "causal", "pre", "next",      *)
(* "both"); startsWithMask, afterMask, lastNoMask as in FwdCode910V2.  Of  *)
(* its task: softcap, threshold, split, lse, sink, invalid (rows that see  *)
(* no key), wide (a head dimension beyond 256), scattered (heads of the    *)
(* log-sum-exp go out row by row), and skip: no row raised its maximum.    *)
(***************************************************************************)

Ls == Ref("ls", 0, "s")        \* the slot that is loaded
LsWas == Other(Ls)             \* the one loaded before, that is computed
Lp(n) == Fixed("lp", n)
LpWas == Other(Ref("lp", 0, "s"))
MaskUb == Fixed("mask", 0)
Mask16 == Lp(1)                \* the mask, widened once ...
Mask32 == {Lp(0), Lp(1)}       \* ... and twice
Lo == Fixed("lo", 0)           \* a product, the soft cap's constant, the sink's rows
SoftcapUb == Lo
Lm == Fixed("lm", 0)
Hm == Fixed("hm", 0)
Ll == Fixed("ll", 0)
GlobalMax(state) == Fixed("gm", state)
GlobalSum(state) == Fixed("gl", state)
Dm(slot) == Fixed("dm", slot)
Tv(n) == Fixed("tv", n)
Scratch == {Tv(0), Tv(1)}

(* A vector operation in place. *)
VI(buffer) == V({buffer}, {buffer})

-----------------------------------------------------------------------------
(* online_softmax.hpp *)

Rowmax(in, out) == V({in}, {Tv(0)}) \o V({Tv(0)}, {Tv(1)}) \o V({Tv(1)}, {out})
Rowsum(in, out) == Rowmax(in, out)

CopySGmToUb(in) == Op("MTE2", {in}, {Ls})
ScaleS == VI(LsWas)
ApplySoftcap ==
  VI(LsWas) \o VI(LsWas) \o VI(LsWas) \o Unfenced({LsWas}, {LsWas}) \o V({}, {SoftcapUb})
  \o V({SoftcapUb, LsWas}, {LsWas}) \o VI(LsWas)
Scores(t) == ScaleS \o When(t.softcap, ApplySoftcap)

CopyMaskGmToUb == Op("MTE2", {}, {MaskUb})
UpCastMask == V({MaskUb}, {Mask16}) \o V({Mask16}, Mask32)
OperateNextMaskUb == UpCastMask
OperatePreMaskUb == UpCastMask \o V(Mask32, Mask32) \o V(Mask32, Mask32)
ApplyMask == V(Mask32, Mask32) \o V(Mask32 \cup {LsWas}, {LsWas})

CalcLocalRowMax == Rowmax(LsWas, Lm)
RaiseMax(t, gm) ==
  IF t.threshold THEN V({Lm}, {Hm}) \o V({Hm, gm}, {Hm}) ELSE V({Lm, gm}, {Hm})
UpdateGlobalRowMax(t) ==
  LET gm == GlobalMax(t.state)
  IN  IF t.first THEN Unfenced({Lm}, {Hm}) \o V({Lm}, {gm})
      ELSE RaiseMax(t, gm) \o V({gm, Hm}, {Dm(t.slot)}) \o VI(Dm(t.slot)) \o V({Hm}, {gm})
CalcExp == V({Hm}, Scratch) \o V({LsWas} \cup Scratch, {LsWas}) \o VI(LsWas)
CalcLocalRowSum == Rowsum(LsWas, Ll)
UpdateGlobalRowSum(t) ==
  LET gl == GlobalSum(t.state)
  IN  IF t.first THEN V({Ll}, {gl}) ELSE V({Dm(t.slot), gl}, {gl}) \o V({gl, Ll}, {gl})
DownCastP == Unfenced({LsWas}, {LpWas})
CopyPUbToGm(out) == Op("MTE3", {LpWas}, {out})

SetWas(e) == SetRef(e, Other(Ref(e, 0, "s")))
WaitWas(e) == WaitRef(e, Other(Ref(e, 0, "s")))

(* The log-sum-exp of the task that had this state slot before has left.   *)
TaskStateEvent(state) == <<4, 6, 7>>[state + 1]
AcquireState(t, firstRows) ==
  When(t.first /\ firstRows /\ (t.lse \/ t.split), Wait("MTE3_V", TaskStateEvent(t.state)))
(* The raw mask may be loaded again: after a mask, and before the next one *)
(* at the last stack without; and the buffers of P, by what took them.     *)
ReleaseMask(t, lastRows) ==
  IF t.mask # "none" THEN Set("V_MTE2", 4)
  ELSE When(t.lastNoMask /\ lastRows, When(~t.afterMask, Wait("V_MTE2", 4)) \o Set("V_MTE2", 4))
ReleaseP(t) ==
  IF t.mask # "none" THEN Set("MTE3_V", 0) \o Set("MTE3_V", 1) \o Set("MTE3_V", 2)
  ELSE SetWas("MTE3_V")

SoftmaxSubCoreCompute(t, g, n) ==
  AcquireState(t, n = 1) \o ReleaseMask(t, n = t.rows)
  \o CalcLocalRowMax \o UpdateGlobalRowMax(t) \o CalcExp
  \o When(t.mask = "none", WaitWas("MTE3_V")) \o DownCastP \o SetWas("V_MTE3")
  \o CalcLocalRowSum \o SetWas("V_MTE2")
  \o WaitWas("V_MTE3") \o CopyPUbToGm(g.p) \o ReleaseP(t) \o UpdateGlobalRowSum(t)

QkReady == CrossCoreWait(Shared("qkReady", 0))
Acquire == WaitTurn("V_MTE2", 0, "s")
(* The rows of the next loop are loaded before those of this one are       *)
(* computed.                                                               *)
RowLoops(rows, load, compute) ==
  load[1] \o Flip("s")
  \o Repeat(LAMBDA n: load[n + 1] \o compute[n] \o Flip("s"), rows - 1) \o compute[rows]

(* operator() without a mask *)
LoadS(t, g, n) ==
  Acquire \o When(t.startsWithMask /\ n = 1, Wait("V_MTE2", 4)) \o When(n = 1, QkReady)
  \o CopySGmToUb(g.scores) \o SetTurn("MTE2_V", 0, "s")
Unmasked(t, g) ==
  RowLoops(t.rows, [n \in 1 .. t.rows |-> LoadS(t, g, n)],
           [n \in 1 .. t.rows |-> WaitWas("MTE2_V") \o Scores(t) \o SoftmaxSubCoreCompute(t, g, n)])

(* The other two: the mask of the first rows is loaded before their        *)
(* scores, that of the next ones once P has left.                          *)
LoadMask == Wait("V_MTE2", 4) \o CopyMaskGmToUb \o Set("MTE2_V", 2)
LoadMaskedS(g, n) ==
  When(n = 1, LoadMask \o QkReady) \o Acquire \o CopySGmToUb(g.scores) \o SetTurn("MTE2_V", 0, "s")
AcquireMask == Wait("MTE2_V", 2) \o Wait("MTE3_V", 2) \o Wait("MTE3_V", 0) \o Wait("MTE3_V", 1)
Widen(mask) == IF mask \in {"pre", "both"} THEN OperatePreMaskUb ELSE OperateNextMaskUb
(* The second edge's mask comes through the same buffer. *)
OtherEdge ==
  Both("V_MTE2", 6) \o CopyMaskGmToUb \o Both("MTE2_V", 6) \o OperateNextMaskUb \o ApplyMask
ComputeMasked(t, g, n) ==
  AcquireMask \o Widen(t.mask) \o WaitWas("MTE2_V") \o Scores(t) \o ApplyMask
  \o When(t.mask = "both", OtherEdge)
  \o SoftmaxSubCoreCompute(t, g, n) \o When(n < t.rows, LoadMask)
Masked(t, g) ==
  RowLoops(t.rows, [n \in 1 .. t.rows |-> LoadMaskedS(g, n)],
           [n \in 1 .. t.rows |-> ComputeMasked(t, g, n)])

(* An idle engine takes the flag all the same. *)
OnlineSoftmax(t, g) ==
  IF t.rows = 0 THEN QkReady ELSE IF t.mask = "none" THEN Unmasked(t, g) ELSE Masked(t, g)

-----------------------------------------------------------------------------
(* rescale_o.hpp *)

Go == Fixed("go", 0)
Staging == Fixed("lse", 0)
Broadcast == Fixed("lse", 1)

(* The smallest correction, and the scalar unit's look at it. *)
SkipCheck(t) == V({Dm(t.slot)}, Scratch) \o When(~t.wide, Op("S", {Tv(0)}, {}))
Skips(t) == t.skip /\ ~t.wide
TakeProduct(in) == Wait("MTE3_MTE2", 6) \o Op("MTE2", {in}, {Go}) \o Both("MTE2_V", 0)
AddProduct(t, g) ==
  Wait("V_MTE2", 3) \o Op("MTE2", {g.product}, {Lo}) \o Set("MTE2_V", 0) \o Wait("MTE3_MTE2", 6)
  \o SkipCheck(t) \o When(~Skips(t), V({Dm(t.slot)}, Scratch))
  \o When(t.oRows > 1, Op("MTE2", {g.update}, {Go}) \o Both("MTE2_V", 1))
  \o When(~Skips(t), V({Go} \cup Scratch, {Go}))
  \o Wait("MTE2_V", 0) \o V({Go, Lo}, {Go}) \o Set("V_MTE2", 3)
KeepProduct(t, g) ==
  When(t.oRows > 1, Both("V_MTE3", 5) \o Op("MTE3", {Go}, {g.update}))

(* The sink's rows raise the maximum and join the sum. *)
ApplyLearnableSink(t) ==
  LET state == {GlobalMax(t.state), GlobalSum(t.state), Lo}
  IN  Op("S", {}, {Lo}) \o Both("S_V", 0) \o V(state, state)
      \o V({Lo}, Scratch) \o V({Go} \cup Scratch, {Go})

InvalidLineLSEProcess == V({}, {Staging})
ClearInvalidOutputRows == Fence \o Unfenced({}, {Go})
CopyOToGm(g) == Op("MTE3", {Go}, {g.out})
CopyOToGmFp32(g) == Op("MTE3", {Go}, {g.partial})
CopyLse(t, g) ==
  IF t.split THEN Op("MTE3", {Broadcast}, {g.partialLse})
  ELSE Op("MTE3", {IF t.scattered THEN Broadcast ELSE Staging}, {g.lse})

WriteLse(t, g) ==
  Fence \o V({GlobalSum(t.state)}, {Staging}) \o V({GlobalMax(t.state), Staging}, {Staging})
  \o When(t.lse /\ t.invalid /\ ~t.sink, InvalidLineLSEProcess)
  \o Unfenced({Staging}, {Broadcast}) \o When(~t.split \/ ~t.lse, Fence)
  \o Both("V_MTE3", 4) \o CopyLse(t, g) \o Set("MTE3_V", TaskStateEvent(t.state))
WriteProduct(t, g, lastRows) ==
  When(t.sink, ApplyLearnableSink(t))
  \o V({GlobalSum(t.state)}, Scratch) \o V({Go} \cup Scratch, {Go})
  \o When(~t.split, Unfenced({Go}, {Go}) \o When(t.invalid, ClearInvalidOutputRows))
  \o Both("V_MTE3", 0) \o (IF t.split THEN CopyOToGmFp32(g) ELSE CopyOToGm(g))
  \o When(lastRows /\ (t.lse \/ t.split), WriteLse(t, g))

RescaleSubCoreCompute(t, g, lastRows) ==
  (IF t.first THEN TakeProduct(g.product) ELSE AddProduct(t, g))
  \o (IF t.last THEN WriteProduct(t, g, lastRows) ELSE KeepProduct(t, g))
  \o Set("MTE3_MTE2", 6)

PvReady(first) == When(first, CrossCoreWait(Shared("pvReady", 0)))
RescaleO(t, g) ==
  IF t.oRows = 0 THEN PvReady(TRUE)
  ELSE Repeat(LAMBDA n: PvReady(n = 1) \o RescaleSubCoreCompute(t, g, n = t.oRows), t.oRows)

(* The sink is all there is to the log-sum-exp of rows without keys. *)
WriteRepeatedScalar(to) ==
  Unfenced({}, {Staging}) \o PipeAll \o Op("MTE3", {Staging}, {to}) \o PipeAll
OverwriteEmptyTaskLse(g) == WriteRepeatedScalar(g.lse)
OverwriteEmptySplitLse(g) == WriteRepeatedScalar(g.partialLse)

-----------------------------------------------------------------------------
(* init_outputs.hpp: a tile without keys, in the buffers of the softmax    *)
(* and the rescale, between two barriers.                                  *)
InitOutputs(lse, g) ==
  PipeAll \o Unfenced({}, {Ls, Other(Ls)}) \o Both("V_MTE3", 6)
  \o Op("MTE3", {Ls, Other(Ls)}, {g.out})
  \o When(lse, Unfenced({}, {Lo}) \o Both("V_MTE3", 7) \o Op("MTE3", {Lo}, {g.lse})) \o PipeAll

-----------------------------------------------------------------------------
(* mha_fwd_kvcache.cpp: what is free when the kernel starts.               *)
VectorPrologue ==
  SetAll("MTE3_V", <<0, 1, 2, 4, 6, 7>>) \o SetAll("MTE3_MTE2", <<0, 2, 3, 4, 5, 6>>)
  \o SetAll("V_MTE2", UpTo(4))
VectorEpilogue ==
  WaitAll("MTE3_V", <<0, 1, 2, 4, 6, 7>>) \o WaitAll("MTE3_MTE2", <<0, 2, 3, 4, 5, 6>>)
  \o WaitAll("V_MTE2", UpTo(4)) \o PipeAll

-----------------------------------------------------------------------------
Cube == INSTANCE CubeCode910
Merge == INSTANCE VecCode910

PRE_LAUNCH == 2
STACK_SLOTS == 3

-----------------------------------------------------------------------------
(* qk_matmul.hpp, pv_matmul.hpp *)

(* The code of an object whose ping-pong flags are its own. *)
OwnFlags(object, code) ==
  LET own(ref) ==
        IF ref[3] \in {"", "shared"} THEN ref ELSE <<ref[1], ref[2], object \o ref[3], ref[4]>>
  IN  [n \in DOMAIN code |-> [code[n] EXCEPT !.event = own(@), !.reads = {own(b) : b \in @},
                                             !.writes = {own(b) : b \in @}]]

LoadQGM == Wait("MTE1_MTE2", 3) \o Op("MTE2", {}, {Cube!L1Q}) \o Both("MTE2_MTE1", 3)
HeadDimSplitQK(x, out) == OwnFlags("qk", Cube!HeadDimSplitQK(x, out))
BlockMmadQK(x, out) == IF x.slices > 1 THEN HeadDimSplitQK(x, out) ELSE Cube!QK(x, out)
HeadDimSplitPV(x, in, out) == OwnFlags("pv", Cube!HeadDimSplitPV(x, in, out))
BlockMmadPV(x, in, out) ==
  IF x.slices > 1 THEN HeadDimSplitPV(x, in, out) ELSE Cube!PV(x, in, out)

-----------------------------------------------------------------------------
(* mha_fwd_kvcache.cpp *)

(* The global memory of a stack: workspace by its slot, output by task.    *)
Globals(slot, task) ==
  [scores |-> Shared("S", slot), p |-> Shared("P", slot), product |-> Shared("OTmp", slot),
   update |-> Shared("OUpdate", 0), out |-> Shared("O", task), lse |-> Shared("Lse", task),
   partial |-> Shared("OFD", task), partialLse |-> Shared("LseFD", task)]

(* The stacks of a task in its state slot, as they are described. *)
StacksOf(task, state) ==
  LET masks == task.masks
      windowed(i) == task.window /\ masks[i] = "none"
  IN  [i \in DOMAIN masks |->
         [rows |-> task.rows, oRows |-> task.oRows, state |-> state, slot |-> (i - 1) % STACK_SLOTS,
          first |-> i = 1, last |-> i = Len(masks), mask |-> masks[i],
          startsWithMask |-> windowed(i) /\ i > 1 /\ masks[i - 1] # "none",
          afterMask |-> windowed(i) /\ \E j \in 1 .. i - 1 : masks[j] # "none",
          lastNoMask |-> i = task.lastNoMask, softcap |-> task.softcap, threshold |-> task.threshold,
          split |-> task.split, lse |-> task.lse, sink |-> task.sink, invalid |-> task.invalid,
          wide |-> task.wide, scattered |-> task.scattered, skip |-> task.skip]]

(* runMainLoop: the scores of a stack and their softmax ...                *)
Issue(x, t, g) ==
  On("AIC", BlockMmadQK(x, g.scores) \o When(t.last, Set("MTE1_MTE2", 3))
            \o CrossCoreSet("FIX", Shared("qkReady", 0)))
  \o On("AIV", OnlineSoftmax(t, g) \o CrossCoreSet("MTE3", Shared("softmaxReady", 0)))
(* ... and its product with V.                                             *)
Delayed(x, t, g) ==
  On("AIC", BlockMmadPV(x, g.p, g.product) \o CrossCoreSet("FIX", Shared("pvReady", 0)))
  \o On("AIV", RescaleO(t, g))

(* A task without keys; the sink's share of a split one is written by its  *)
(* first part.                                                             *)
EmptyTask(task, g) ==
  On("AIV", IF task.split THEN When(task.sink, OverwriteEmptySplitLse(g))
            ELSE InitOutputs(task.lse, g) \o When(task.sink, OverwriteEmptyTaskLse(g)))
Drain(x, stacks, task) ==
  Repeat(LAMBDA i:
    When(i <= Len(stacks), Issue(x, stacks[i], Globals(stacks[i].slot, task)))
    \o When(i > PRE_LAUNCH,
         LET t == stacks[i - PRE_LAUNCH] IN Delayed(x, t, Globals(t.slot, task))),
    Len(stacks) + PRE_LAUNCH)
RunMainLoop(x, task, state, number) ==
  IF task.masks = << >> THEN EmptyTask(task, Globals(0, number))
  ELSE On("AIC", LoadQGM) \o Drain(x, StacksOf(task, state), number)

CubePrologue == SetAll("M_MTE1", UpTo(7)) \o SetAll("FIX_M", UpTo(1)) \o SetAll("MTE1_MTE2", UpTo(7))
CubeEpilogue ==
  WaitAll("M_MTE1", UpTo(7)) \o WaitAll("FIX_M", UpTo(1)) \o WaitAll("MTE1_MTE2", UpTo(7)) \o PipeAll

(* SyncAll: every engine waits for the others; then the partial results of *)
(* the split tasks are merged (combine_scale.hpp, as in v3).               *)
SyncAll ==
  On("AIC", CrossCoreSet("S", Shared("syncAIC", 0))) \o On("AIV", CrossCoreSet("S", Shared("syncAIV", 0)))
  \o On("AIC", CrossCoreWait(Shared("syncAIV", 0))) \o On("AIV", CrossCoreWait(Shared("syncAIC", 0)))
CombineScale(combine, g) == SyncAll \o On("AIV", Merge!CombineScale(combine, g))

(* Only a task with keys takes a state slot. *)
StateOf(tasks, n) ==
  Cardinality({m \in 1 .. n - 1 : tasks[m].masks # << >>}) % STACK_SLOTS
FAInferKernel(x, tasks, combine) ==
  On("AIC", CubePrologue) \o On("AIV", VectorPrologue)
  \o Repeat(LAMBDA n: RunMainLoop(x, tasks[n], StateOf(tasks, n), n), Len(tasks))
  \o On("AIC", CubeEpilogue) \o On("AIV", VectorEpilogue)
  \o When(combine.splits > 0, CombineScale(combine, Globals(0, 1)))

=============================================================================
