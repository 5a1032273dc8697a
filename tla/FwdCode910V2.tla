---------------------------- MODULE FwdCode910V2 -----------------------------
(***************************************************************************)
(* The forward kernel of a core on the 910, v2: qk_matmul.hpp,             *)
(* pv_matmul.hpp and mha_fwd_kvcache.cpp.  A tile may be fused from the    *)
(* rows of several K/V heads (x.segments), each multiplied by its own K    *)
(* and V; the vector engine takes them as one tile.  The products are made *)
(* of the same parts as v3's, and there is no slicing of the head          *)
(* dimension.                                                              *)
(***************************************************************************)
EXTENDS PipeCode

-----------------------------------------------------------------------------
(***************************************************************************)
(* The vector engine's part of the forward kernel on the 910, v2:          *)
(* online_softmax.hpp, rescale_o.hpp and init_outputs.hpp.  Unlike v3 the  *)
(* masks are loaded as they are and widened in UB, in the two buffers that *)
(* P takes in turn; so a stack under a mask and one without hand them, and *)
(* the raw mask, to each other by events 0, 1, 2 (MTE3_V) and 4 (V_MTE2).  *)
(* There are alibi biases and dropout, whose mask has a buffer of its own. *)
(*                                                                         *)
(* A stack t is what it is in VecCode910, but that mask says which mask    *)
(* bites in it: "none", "causal", or an edge of the window, "pre", "next", *)
(* or "both".  Of a stack in a window without a mask, afterMask says that  *)
(* there was one with a mask before, startsWithMask that it was the one    *)
(* before, lastNoMask that there is none without behind.  oddLse: the      *)
(* log-sum-exp of a head is no multiple of a block.                        *)
(***************************************************************************)

Ls == Ref("ls", 0, "s")        \* the slot that is loaded
LsWas == Other(Ls)             \* the one loaded before, that is computed
Lp(n) == Fixed("lp", n)
LpWas == Other(Ref("lp", 0, "s"))
MaskUb == Fixed("mask", 0)
Mask16 == Lp(1)                \* the mask, widened once ...
Mask32 == {Lp(0), Lp(1)}       \* ... and twice
DropUb == Fixed("drop", 0)
Lm == Fixed("lm", 0)           \* also the soft cap's constant
Hm == Fixed("hm", 0)
Ll == Fixed("ll", 0)
GlobalMax(state) == Fixed("gm", state)
GlobalSum(state) == Fixed("gl", state)
Dm(slot) == Fixed("dm", slot)
Tv(n) == Fixed("tv", n)
Scratch == {Tv(0), Tv(1)}
AlibiWork == Tv(0)

(* A vector operation in place. *)
VI(buffer) == V({buffer}, {buffer})

-----------------------------------------------------------------------------
(* online_softmax.hpp *)

Rowmax(in, out) == V({in}, {Tv(0)}) \o V({Tv(0)}, {Tv(1)}) \o V({Tv(1)}, {out})
Rowsum(in, out) == Rowmax(in, out)

CopySGmToUb(in) == Op("MTE2", {in}, {Ls})
ScaleS == VI(LsWas)
ApplySoftcap ==
  VI(LsWas) \o VI(LsWas) \o VI(LsWas) \o Unfenced({LsWas}, {LsWas}) \o V({}, {Lm})
  \o V({Lm, LsWas}, {LsWas}) \o VI(LsWas)
(* alibi.hpp: a row of biases, its first block written by the scalar unit. *)
ApplyAlibi ==
  Both("V_S", 0) \o Op("S", {}, {AlibiWork}) \o Both("S_V", 0)
  \o VI(AlibiWork) \o VI(AlibiWork) \o VI(AlibiWork) \o V({LsWas, AlibiWork}, {LsWas})
Scores(t) == ScaleS \o When(t.softcap, ApplySoftcap) \o When(t.alibi, ApplyAlibi)

CopyMaskGmToUb == Op("MTE2", {}, {MaskUb})
UpCastMask == V({MaskUb}, {Mask16}) \o V({Mask16}, Mask32)
OperateNextMaskUb == UpCastMask
OperatePreMaskUb == UpCastMask \o V(Mask32, Mask32) \o V(Mask32, Mask32)
ApplyMask == V(Mask32, Mask32) \o V(Mask32 \cup {LsWas}, {LsWas})

CalcLocalRowMax == Rowmax(LsWas, Lm)
UpdateGlobalRowMax(t) ==
  LET gm == GlobalMax(t.state)
  IN  IF t.first THEN Unfenced({Lm}, {Hm}) \o V({Lm}, {gm})
      ELSE V({Lm, gm}, {Hm}) \o V({gm, Hm}, {Dm(t.slot)}) \o VI(Dm(t.slot)) \o V({Hm}, {gm})
CalcExp == V({Hm}, Scratch) \o V({LsWas} \cup Scratch, {LsWas}) \o VI(LsWas)
CalcLocalRowSum == Rowsum(LsWas, Ll)
UpdateGlobalRowSum(t) ==
  LET gl == GlobalSum(t.state)
  IN  IF t.first THEN V({Ll}, {gl}) ELSE V({Dm(t.slot), gl}, {gl}) \o V({gl, Ll}, {gl})
DownCastP == Unfenced({LsWas}, {LpWas})
CopyPUbToGm(out) == Op("MTE3", {LpWas}, {out})

CopyDropMaskToUb == Wait("V_MTE2", 2) \o Op("MTE2", {}, {DropUb}) \o Set("MTE2_V", 3)
(* Of each row: the dropped probabilities turn negative. *)
ApplyDropoutNegate ==
  V({}, {Tv(0)}) \o V({DropUb, Tv(0)}, {Tv(0)}) \o V({LpWas, Tv(0)}, {Tv(1)})
  \o V({LpWas, Tv(0)}, {LpWas}) \o VI(LpWas) \o Unfenced({LpWas, Tv(1)}, {LpWas})
ApplyDropoutStd == Unfenced({LpWas, DropUb}, {LpWas})
CopyPretUbToGm(out) == Op("MTE3", {LpWas}, {out})
Dropout(t, g) ==
  Fence \o Wait("MTE2_V", 3)
  \o When(t.pret, ApplyDropoutNegate \o Both("V_MTE3", 3) \o CopyPretUbToGm(g.pret) \o Both("MTE3_V", 3))
  \o ApplyDropoutStd \o Set("V_MTE2", 2)

SetWas(e) == SetRef(e, Other(Ref(e, 0, "s")))
WaitWas(e) == WaitRef(e, Other(Ref(e, 0, "s")))

(* The raw mask may be loaded again: after a mask, and before the next one *)
(* at the last stack without.                                              *)
ReleaseMask(t, lastRows) ==
  IF t.mask # "none" THEN Set("V_MTE2", 4)
  ELSE When(t.lastNoMask /\ lastRows, When(~t.afterMask, Wait("V_MTE2", 4)) \o Set("V_MTE2", 4))
(* ... and the buffers of P, by what took them. *)
ReleaseP(t) ==
  IF t.mask # "none" THEN Set("MTE3_V", 0) \o Set("MTE3_V", 1) \o Set("MTE3_V", 2)
  ELSE SetWas("MTE3_V")

SoftmaxSubCoreCompute(t, g, lastRows) ==
  When(t.drop, CopyDropMaskToUb) \o ReleaseMask(t, lastRows)
  \o CalcLocalRowMax \o UpdateGlobalRowMax(t) \o CalcExp
  \o When(t.mask = "none", WaitWas("MTE3_V")) \o DownCastP \o When(t.drop, Dropout(t, g))
  \o SetWas("V_MTE3") \o CalcLocalRowSum \o SetWas("V_MTE2")
  \o WaitWas("V_MTE3") \o CopyPUbToGm(g.p) \o ReleaseP(t) \o UpdateGlobalRowSum(t)

QkReady == CrossCoreWait(Shared("qkReady", 0))
Acquire == WaitTurn("V_MTE2", 0, "s")
(* The rows of the next loop are loaded before those of this one are       *)
(* computed.                                                               *)
RowLoops(rows, load, compute) ==
  load[1] \o Flip("s")
  \o Repeat(LAMBDA n: load[n + 1] \o compute[n] \o Flip("s"), rows - 1) \o compute[rows]

(* operator() without a mask; an idle engine takes the flag all the same.  *)
LoadS(t, g, first) ==
  Acquire \o When(t.startsWithMask /\ first, Wait("V_MTE2", 4)) \o When(first, QkReady)
  \o CopySGmToUb(g.scores) \o SetTurn("MTE2_V", 0, "s")
Unmasked(t, g) ==
  RowLoops(t.rows, [n \in 1 .. t.rows |-> LoadS(t, g, n = 1)],
           [n \in 1 .. t.rows |-> WaitWas("MTE2_V") \o Scores(t)
                                  \o SoftmaxSubCoreCompute(t, g, n = t.rows)])

(* The other two: the mask of the first rows is loaded before their        *)
(* scores, that of the next ones once P has left.                          *)
LoadMask == Wait("V_MTE2", 4) \o CopyMaskGmToUb \o Set("MTE2_V", 2)
LoadMaskedS(g, first) ==
  When(first, LoadMask \o QkReady) \o Acquire \o CopySGmToUb(g.scores) \o SetTurn("MTE2_V", 0, "s")
AcquireMask == Wait("MTE2_V", 2) \o Wait("MTE3_V", 2) \o Wait("MTE3_V", 0) \o Wait("MTE3_V", 1)
Widen(mask) == IF mask \in {"pre", "both"} THEN OperatePreMaskUb ELSE OperateNextMaskUb
(* The second edge's mask comes through the same buffer. *)
OtherEdge ==
  Both("V_MTE2", 6) \o CopyMaskGmToUb \o Both("MTE2_V", 6) \o OperateNextMaskUb \o ApplyMask
ComputeMasked(t, g, lastRows) ==
  AcquireMask \o Widen(t.mask) \o WaitWas("MTE2_V") \o Scores(t) \o ApplyMask
  \o When(t.mask = "both", OtherEdge)
  \o SoftmaxSubCoreCompute(t, g, lastRows) \o When(~lastRows, LoadMask)
Masked(t, g) ==
  RowLoops(t.rows, [n \in 1 .. t.rows |-> LoadMaskedS(g, n = 1)],
           [n \in 1 .. t.rows |-> ComputeMasked(t, g, n = t.rows)])

OnlineSoftmax(t, g) ==
  IF t.rows = 0 THEN QkReady ELSE IF t.mask = "none" THEN Unmasked(t, g) ELSE Masked(t, g)

-----------------------------------------------------------------------------
(* rescale_o.hpp *)

Lo == Fixed("lo", 0)
Go == Fixed("go", 0)
Staging == Fixed("lse", 0)
Broadcast == Fixed("lse", 1)

TakeProduct(in) == Wait("MTE3_MTE2", 6) \o Op("MTE2", {in}, {Go}) \o Both("MTE2_V", 0)
AddProduct(t, g) ==
  Wait("V_MTE2", 3) \o Op("MTE2", {g.product}, {Lo}) \o Set("MTE2_V", 0) \o Wait("MTE3_MTE2", 6)
  \o V({Dm(t.slot)}, Scratch)
  \o When(t.oRows > 1, Op("MTE2", {g.update}, {Go}) \o Both("MTE2_V", 1))
  \o V({Go} \cup Scratch, {Go}) \o Wait("MTE2_V", 0) \o V({Go, Lo}, {Go}) \o Set("V_MTE2", 3)
KeepProduct(t, g) ==
  When(t.oRows > 1, Both("V_MTE3", 5) \o Op("MTE3", {Go}, {g.update}))

InvalidLineLSEProcess == V({}, {Staging})
ClearInvalidOutputRows == Fence \o Unfenced({}, {Go})
CopyOToGm(g) == Op("MTE3", {Go}, {g.out})
CopyOToGmFp32(g) == Op("MTE3", {Go}, {g.partial})
(* Heads that are no multiple of a block take a turn through the buffer of *)
(* the row loops in global memory.                                         *)
CopyOddLse(g) ==
  Op("MTE3", {Staging}, {g.update}) \o Both("MTE3_MTE2", 1)
  \o Op("MTE2", {g.update}, {Staging}) \o Both("MTE2_MTE3", 0) \o Op("MTE3", {Staging}, {g.lse})
CopyLse(t, g) ==
  IF t.split THEN Op("MTE3", {Broadcast}, {g.partialLse})
  ELSE IF t.oddLse THEN CopyOddLse(g) ELSE Op("MTE3", {Staging}, {g.lse})

WriteLse(t, g) ==
  Fence \o V({GlobalSum(t.state)}, {Staging}) \o V({GlobalMax(t.state), Staging}, {Staging})
  \o When(t.lse /\ t.invalid, InvalidLineLSEProcess)
  \o Unfenced({Staging}, {Broadcast}) \o When(~t.split \/ ~t.lse, Fence)
  \o Both("V_MTE3", 4) \o CopyLse(t, g)
WriteProduct(t, g, lastRows) ==
  V({GlobalSum(t.state)}, Scratch) \o V({Go} \cup Scratch, {Go}) \o When(t.drop, VI(Go))
  \o When(~t.split, Unfenced({Go}, {Go}) \o When(t.invalid, ClearInvalidOutputRows))
  \o Both("V_MTE3", 0) \o (IF t.split THEN CopyOToGmFp32(g) ELSE CopyOToGm(g))
  \o When(lastRows /\ (t.lse \/ t.split), WriteLse(t, g))

RescaleSubCoreCompute(t, g, lastRows) ==
  (IF t.first THEN TakeProduct(g.product) ELSE AddProduct(t, g))
  \o (IF t.last THEN WriteProduct(t, g, lastRows) ELSE KeepProduct(t, g))
  \o Set("MTE3_MTE2", 6)

PvReady(first) == When(first, CrossCoreWait(Shared("pvReady", 0)))
RescaleO(t, g) ==
  IF t.oRows = 0 THEN PvReady(TRUE)
  ELSE Repeat(LAMBDA n: PvReady(n = 1) \o RescaleSubCoreCompute(t, g, n = t.oRows), t.oRows)

-----------------------------------------------------------------------------
(* init_outputs.hpp: a tile without keys, in the buffers of the softmax    *)
(* and the rescale, between two barriers.                                  *)
InitOutputs(lse, g) ==
  PipeAll \o Unfenced({}, {Ls, Other(Ls)}) \o Both("V_MTE3", 6)
  \o Op("MTE3", {Ls, Other(Ls)}, {g.out})
  \o When(lse, Unfenced({}, {Lo}) \o Both("V_MTE3", 7) \o Op("MTE3", {Lo}, {g.lse})) \o PipeAll

-----------------------------------------------------------------------------
(* mha_fwd_kvcache.cpp: what is free when the kernel starts.               *)
VectorPrologue ==
  SetAll("MTE3_V", <<0, 1, 2, 4, 6, 7>>) \o SetAll("MTE3_MTE2", <<0, 2, 3, 4, 5, 6>>)
  \o SetAll("V_MTE2", UpTo(4))
VectorEpilogue ==
  WaitAll("MTE3_V", <<0, 1, 2, 4, 6, 7>>) \o WaitAll("MTE3_MTE2", <<0, 2, 3, 4, 5, 6>>)
  \o WaitAll("V_MTE2", UpTo(4)) \o PipeAll

-----------------------------------------------------------------------------
Cube == INSTANCE CubeCode910
Merge == INSTANCE VecCode910

PRE_LAUNCH == 2
STACK_SLOTS == 3

-----------------------------------------------------------------------------
(* qk_matmul.hpp *)

LoadQGM(segments) ==
  Repeat(LAMBDA s: When(s = 1, Wait("MTE1_MTE2", 3)) \o Op("MTE2", {}, {Cube!L1Q})
                   \o When(s = segments, Both("MTE2_MTE1", 3)),
         segments)
WritebackK(copyback) == When(copyback, Cube!CopyToCache(Cube!L1Copy))
BlockMmadQK(x, out) ==
  Repeat(LAMBDA n:
    Cube!LoadK(x) \o WritebackK(x.copyback)
    \o Repeat(LAMBDA m:
         Cube!Product(Repeat(LAMBDA k: Cube!QKStep(m = 1 /\ k = 1, m = x.qkM /\ k = x.qkK), x.qkK),
                      out),
         x.qkM)
    \o Flip("l1"),
    x.qkN)

(* pv_matmul.hpp *)
LoadV(x) == Wait("MTE1_MTE2", 4) \o Cube!Load(x.pages, Cube!L1V(0)) \o Both("MTE2_MTE1", 0)
WritebackV(copyback) == When(copyback, PipeAll \o Cube!CopyToCache(Cube!L1V(0)))
BlockMmadPV(x, in, out, firstSegment) ==
  LoadV(x)
  \o Repeat(LAMBDA n: Repeat(LAMBDA m: Cube!Product(
       Repeat(LAMBDA k: Cube!PVTile(x, in, firstSegment /\ n = 1 /\ m = 1 /\ k = 1), x.pvTiles), out),
       x.pvM), x.pvN)
  \o WritebackV(x.copyback) \o Set("MTE1_MTE2", 4)

-----------------------------------------------------------------------------
(* mha_fwd_kvcache.cpp *)

(* The global memory of the i-th stack: workspace by slot, output by task. *)
Globals(i, t) ==
  [scores |-> Shared("S", i % STACK_SLOTS), p |-> Shared("P", i % STACK_SLOTS),
   product |-> Shared("OTmp", i % STACK_SLOTS), update |-> Shared("OUpdate", 0),
   out |-> Shared("O", t.state), lse |-> Shared("Lse", t.state), pret |-> Shared("Pret", i),
   partial |-> Shared("OFD", t.state), partialLse |-> Shared("LseFD", t.state)]

(* runMainLoop: the scores of a stack and their softmax ...                *)
LastStack(last) == When(last, Set("MTE1_MTE2", 3))
Issue(x, t, g) ==
  On("AIC", When(t.first, LoadQGM(x.segments)) \o Repeat(LAMBDA s: BlockMmadQK(x, g.scores), x.segments)
            \o LastStack(t.last) \o CrossCoreSet("FIX", Shared("qkReady", 0)))
  \o On("AIV", OnlineSoftmax(t, g) \o CrossCoreSet("MTE3", Shared("softmaxReady", 0)))
(* ... and its product with V.                                             *)
Delayed(x, t, g) ==
  On("AIC", Repeat(LAMBDA s: BlockMmadPV(x, g.p, g.product, s = 1), x.segments)
            \o CrossCoreSet("FIX", Shared("pvReady", 0)))
  \o On("AIV", RescaleO(t, g))

(* What a stack in a window is told of the stacks of its task before it.   *)
MaskFlags(stacks, i) ==
  LET before == {j \in 1 .. i - 1 : \A k \in j + 1 .. i : ~stacks[k].first}
      windowed == stacks[i].window /\ stacks[i].mask = "none"
  IN  [stacks[i] EXCEPT
         !.startsWithMask = windowed /\ i - 1 \in before /\ stacks[i - 1].mask # "none",
         !.afterMask = windowed /\ \E j \in before : stacks[j].mask # "none"]
Shape(x, t) == [x EXCEPT !.copyback = t.copyback]
Iteration(x, stacks, i) ==
  When(i <= Len(stacks),
       On("AIV", When(stacks[i].zeroed, InitOutputs(stacks[i].lse, Globals(i, stacks[i]))))
       \o Issue(Shape(x, stacks[i]), MaskFlags(stacks, i), Globals(i, stacks[i])))
  \o When(i > PRE_LAUNCH,
       LET j == i - PRE_LAUNCH IN Delayed(Shape(x, stacks[j]), stacks[j], Globals(j, stacks[j])))

CubePrologue == SetAll("M_MTE1", UpTo(7)) \o SetAll("FIX_M", UpTo(1)) \o SetAll("MTE1_MTE2", UpTo(7))
CubeEpilogue ==
  WaitAll("M_MTE1", UpTo(7)) \o WaitAll("FIX_M", UpTo(1)) \o WaitAll("MTE1_MTE2", UpTo(7)) \o PipeAll

(* SyncAll: every engine waits for the others; then the partial results of *)
(* the split tasks are merged (combine_scale.hpp, as in v3).               *)
SyncAll ==
  On("AIC", CrossCoreSet("S", Shared("syncAIC", 0))) \o On("AIV", CrossCoreSet("S", Shared("syncAIV", 0)))
  \o On("AIC", CrossCoreWait(Shared("syncAIV", 0))) \o On("AIV", CrossCoreWait(Shared("syncAIC", 0)))
CombineScale(combine, g) == SyncAll \o On("AIV", Merge!CombineScale(combine, g))

FAInferKernel(x, stacks, combine) ==
  On("AIC", CubePrologue) \o On("AIV", VectorPrologue)
  \o Repeat(LAMBDA i: Iteration(x, stacks, i), Len(stacks) + PRE_LAUNCH)
  \o On("AIC", CubeEpilogue) \o On("AIV", VectorEpilogue)
  \o When(combine.splits > 0, CombineScale(combine, Globals(1, stacks[1])))

=============================================================================
