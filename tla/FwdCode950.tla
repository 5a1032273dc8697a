----------------------------- MODULE FwdCode950 ------------------------------
(***************************************************************************)
(* The forward kernels of a core on the 950 (v3), fwd_kernel.cpp and       *)
(* fwd_kernel_quant.cpp, as instructions of the cube engine and one of the *)
(* vector engines: a task's tiles, one iteration each, their output two    *)
(* iterations later; every task drains before the next one begins.         *)
(***************************************************************************)
EXTENDS PipeCode

-----------------------------------------------------------------------------
(***************************************************************************)
(* The matrix products of the forward kernel on the 950 (v3):              *)
(* qk_matmul.hpp, qk_matmul_DN.hpp (the transposed one) and pv_matmul.hpp. *)
(* The products do not pass through global memory: FIX stores the scores   *)
(* and the output in the vector engine's UB, and the vector engine stores  *)
(* P in the cube's L1.  A buffer the other engine is to read or to fill is *)
(* handed over with a cross-core flag, and given back with another one of  *)
(* the same number; pipes, not the scalar unit, wait for them.             *)
(*                                                                         *)
(* The slots of the buffers follow from the number of the tile (seq) and,  *)
(* in L0A and L0B, from the stages used before it.  A shape x says how     *)
(* many turns the loops take: qkN, qkM, qkK tiles of K, rows and head      *)
(* dimension, pvN, pvM, pvK of the head dimension, rows and keys; pieces   *)
(* of a tile that is not dense; dn: transposed; quant: 8 bits wide, with   *)
(* one slot for the scores in L0C and one for the output in UB.            *)
(***************************************************************************)

L1Q == Fixed("l1Q", 0)
L1K(s) == Fixed("l1K", s)
L1V(s) == Fixed("l1V", s)
L1P(s) == Shared("l1P", s)
UbS(s) == Shared("ubS", s)
UbOTmp(s) == Shared("ubOTmp", s)
L0A(s) == Fixed("l0A", s)
L0B(s) == Fixed("l0B", s)
L0C(s) == Fixed("l0C", s)

UB_S_OTMP_BUF_STAGES == 2
PL1_BUF_NUM == 3
OTmpStages(x) == IF x.quant THEN 1 ELSE UB_S_OTMP_BUF_STAGES

(* Mode 4: a number is a flag in each direction. *)
ToAIV(id) == Shared("toAIV", id)
ToAIC(id) == Shared("toAIC", id)
QkReady(seq) == seq % UB_S_OTMP_BUF_STAGES
SoftmaxReady(seq) == (seq % PL1_BUF_NUM) + UB_S_OTMP_BUF_STAGES
PvReady(x, seq) == (seq % OTmpStages(x)) + UB_S_OTMP_BUF_STAGES + PL1_BUF_NUM

(* A tile of A or B into a slot of L0, whose event is slot or slot + 2.    *)
MoveA(slot, from) == Wait("M_MTE1", slot) \o Op("MTE1", {from}, {L0A(slot)}) \o Set("MTE1_M", slot)
MoveB(slot, from, loaded) ==
  Wait("M_MTE1", slot + 2) \o loaded \o Op("MTE1", {from}, {L0B(slot)}) \o Set("MTE1_M", slot + 2)
Multiply(a, b, c, fresh) ==
  Wait("MTE1_M", a) \o Wait("MTE1_M", b + 2) \o fresh
  \o Op("M", {L0A(a), L0B(b), L0C(c)}, {L0C(c)}) \o Set("M_MTE1", a) \o Set("M_MTE1", b + 2)
(* A finished product into the other engine's UB. *)
FixPipe(c, first, flag, out) ==
  When(first, CrossCoreWaitIn("FIX", ToAIC(flag)))
  \o Both("M_FIX", c) \o Op("FIX", {L0C(c)}, {out}) \o Set("FIX_M", c)

(* The slot of a step: m and k, or n and k, count from 1; n is counted in  *)
(* as the code does, once for itself and once for the loop.                *)
StageA(prefix, m, k, kLoops) == (prefix.a + (m - 1) * kLoops + k - 1) % 2
StageB(prefix, n, k, nLoops, kLoops) ==
  (prefix.b + ((n - 1) * nLoops + n - 1) * kLoops + k - 1) % 2

(* A tile that comes in one piece, or in the pieces of a sparse range. *)
Load(pieces, to) == Repeat(LAMBDA n: Op("MTE2", {}, {to}), pieces)

-----------------------------------------------------------------------------
(* qk_matmul.hpp *)
LoadQGM == Wait("MTE1_MTE2", 0) \o Op("MTE2", {}, {L1Q}) \o Both("MTE2_MTE1", 0)

(* operator(); K arrives while the rows are moved.                         *)
QK(x, seq, prefix) ==
  LET s == seq % 2
      event == s + 1
      Step(n, m, k) ==
        LET a == StageA(prefix, m, k, x.qkK)
            b == StageB(prefix, n, k, x.qkN, x.qkK)
            start == m = 1 /\ k = 1
        IN  MoveA(a, L1Q) \o MoveB(b, L1K(s), When(start, Wait("MTE2_MTE1", event)))
            \o When(m = x.qkM /\ k = x.qkK, Set("MTE1_MTE2", event))
            \o Multiply(a, b, s, When(start, Wait("FIX_M", s)))
  IN  Repeat(LAMBDA n:
        Wait("MTE1_MTE2", event) \o Load(x.pieces, L1K(s)) \o Set("MTE2_MTE1", event)
        \o Repeat(LAMBDA m: Repeat(LAMBDA k: Step(n, m, k), x.qkK), x.qkM)
        \o FixPipe(s, n = 1, QkReady(seq), UbS(seq % UB_S_OTMP_BUF_STAGES)),
        x.qkN)
      \o CrossCoreSet("FIX", ToAIV(QkReady(seq)))

(* qk_matmul_DN.hpp: K is the left factor, Q the right one; the slots of K *)
(* are counted from the first tile of the task (rel).                      *)
QKDN(x, rel, seq, prefix) ==
  LET s == rel % 2
      event == s + 1
      c == IF x.quant THEN 0 ELSE s
      Step(n, m, k) ==
        LET a == StageA(prefix, m, k, x.qkK)
            b == StageB(prefix, n, k, x.qkN, x.qkK)
        IN  MoveB(b, L1Q, << >>) \o MoveA(a, L1K(s))
            \o When(m = x.qkM /\ k = x.qkK, Set("MTE1_MTE2", event))
            \o Multiply(a, b, c, When(m = 1 /\ k = 1, Wait("FIX_M", c)))
  IN  Repeat(LAMBDA n:
        Wait("MTE1_MTE2", event) \o Load(x.pieces, L1K(s)) \o Both("MTE2_MTE1", event)
        \o Repeat(LAMBDA m: Repeat(LAMBDA k: Step(n, m, k), x.qkK), x.qkM)
        \o FixPipe(c, n = 1, QkReady(seq), UbS(seq % UB_S_OTMP_BUF_STAGES)),
        x.qkN)
      \o CrossCoreSet("FIX", ToAIV(QkReady(seq)))

-----------------------------------------------------------------------------
(* pv_matmul.hpp: V is loaded before the flag for P, and P is given back   *)
(* when its last part has been moved.  The events of L0C are slot + 2.     *)
PV(x, seq, prefix) ==
  LET s == seq % 2
      event == s + 3
      c == s + 2
      p == seq % PL1_BUF_NUM
      ready == SoftmaxReady(seq)
      Step(n, m, k) ==
        LET a == StageA(prefix, m, k, x.pvK)
            b == StageB(prefix, n, k, x.pvN, x.pvK)
            end == n = x.pvN /\ m = x.pvM /\ k = x.pvK
        IN  MoveB(b, L1V(s), << >>) \o When(end, Set("MTE1_MTE2", event))
            \o MoveA(a, L1P(p)) \o When(end, CrossCoreSet("MTE1", ToAIV(ready)))
            \o Multiply(a, b, c, When(m = 1 /\ k = 1, Wait("FIX_M", c)))
  IN  Wait("MTE1_MTE2", event) \o Load(x.pieces, L1V(s)) \o Both("MTE2_MTE1", event)
      \o CrossCoreWaitIn("MTE1", ToAIC(ready))
      \o Repeat(LAMBDA n:
           Repeat(LAMBDA m: Repeat(LAMBDA k: Step(n, m, k), x.pvK), x.pvM)
           \o FixPipe(c, n = 1, PvReady(x, seq), UbOTmp(seq % OTmpStages(x))),
           x.pvN)
      \o CrossCoreSet("FIX", ToAIV(PvReady(x, seq)))

-----------------------------------------------------------------------------
(* fwd_kernel.cpp: what is free when the kernel starts (InitSyncFlags) and *)
(* taken back when it ends (ReleaseSyncFlags).                             *)
PFlags == UpTo(PL1_BUF_NUM - 1)
CubeInitSyncFlags ==
  SetAll("MTE1_MTE2", UpTo(4)) \o SetAll("M_MTE1", UpTo(3)) \o SetAll("FIX_M", UpTo(3))
  \o Repeat(LAMBDA n: CrossCoreSet("MTE1", ToAIV(PFlags[n] + UB_S_OTMP_BUF_STAGES)), Len(PFlags))
CubeReleaseSyncFlags(x) ==
  WaitAll("MTE1_MTE2", UpTo(4)) \o WaitAll("M_MTE1", UpTo(3)) \o WaitAll("FIX_M", UpTo(3))
  \o Repeat(LAMBDA n: CrossCoreWaitIn("FIX", ToAIC(n - 1)), UB_S_OTMP_BUF_STAGES)
  \o Repeat(LAMBDA n: CrossCoreWaitIn("FIX", ToAIC(PvReady(x, n - 1))), OTmpStages(x))
  \o PipeAll

-----------------------------------------------------------------------------
(***************************************************************************)
(* The vector engine's part of the forward kernel on the 950 (v3):         *)
(* online_softmax.hpp, online_softmax_quant.hpp (P from the scores S),     *)
(* rescale_o.hpp (O from the products), init_outputs.hpp, fd_combine.hpp.  *)
(* S and the products arrive in UB, P leaves for the cube's L1.            *)
(*                                                                         *)
(* Most of the work is done in vector functions, which load registers from *)
(* UB and store them.  Inside one a LocalMemBar puts what was stored       *)
(* before it before what is loaded after it; one function starts when the  *)
(* one before is done.                                                     *)
(*                                                                         *)
(* A tile t says where it stands: first and last of its task, its number   *)
(* seq, the engine's rows (0 if it idles), the mask of its call (mask:     *)
(* "none", "causal", "pre", "next", "both", "dn", "quant"), softcap, the   *)
(* rows to clear (zeroed), lse (wanted), grouped (the heads go out one by  *)
(* one), partial (a split task).                                           *)
(***************************************************************************)

Ls(t) == UbS(t.seq % UB_S_OTMP_BUF_STAGES)
Lp(t) == Fixed("lp", t.seq % UB_S_OTMP_BUF_STAGES)
Lm == Fixed("lm", 0)
Gm == Fixed("gm", 0)
Ll == Fixed("ll", 0)
Gl == Fixed("gl", 0)
Dm(t) == Fixed("dm", t.seq % 3)
Go == Fixed("go", 0)
MaskUb(n) == Fixed("mask", n)
MaskPre == MaskUb(0)
MaskNext == MaskUb(1)

(* A vector function, made of parts with a LocalMemBar after each. *)
LocalMemBar == Fence
SimdLoop(reads, writes) == Unfenced(reads, writes)

-----------------------------------------------------------------------------
(* online_softmax.hpp                                                      *)

(* ComputeScaleAndMax and its variants, by width and mask: the row maximum *)
(* of the scaled scores goes through memory, with the one before if this   *)
(* is not the first tile; then the exponentials and their sum.  The first  *)
(* tile's maximum and sum are the task's.                                  *)
ComputeScaleAndMax(t, masks) ==
  LET newMax == IF t.first THEN Gm ELSE Lm
      expSum == IF t.first THEN Gl ELSE Ll
  IN  SimdLoop({Ls(t)} \cup masks, {Ls(t), newMax})
      \o When(~t.first, LocalMemBar \o SimdLoop({newMax, Gm}, {newMax}))
      \o LocalMemBar \o SimdLoop({newMax, Ls(t)}, {Lp(t), expSum}) \o LocalMemBar
ComputeScaleAndMaxMask(t) == ComputeScaleAndMax(t, {MaskPre})
ComputeScaleAndMaxMaskInvert(t) == ComputeScaleAndMax(t, {MaskPre})
ComputeScaleAndMaxMaskPreNext(t) == ComputeScaleAndMax(t, {MaskPre, MaskNext})
(* The transposed tile has its rows side by side: nothing goes through     *)
(* memory, and the sum is brought up to date at once.                      *)
ComputeScaleAndMaxDn(t) ==
  SimdLoop({Ls(t)} \cup (IF t.first THEN {} ELSE {Gm, Gl}),
           {Lp(t), Gm, Gl} \cup (IF t.first THEN {} ELSE {Dm(t)})) \o LocalMemBar
(* The task's sum and maximum, and the factor for what was summed before.  *)
UpdateExpSumAndExpMax(t) ==
  SimdLoop({Gl, Gm, Ll, Lm}, {Dm(t), Gl, Gm}) \o LocalMemBar

(* The engine hands the scores' slot back and waits for P's. *)
AwaitS(t) == CrossCoreWaitIn("V", ToAIV(QkReady(t.seq)))
SlipKeepS(t) == << >>
ReleaseS(t) == CrossCoreSet("V", ToAIC(QkReady(t.seq)))
AwaitL1P(t) == CrossCoreWaitIn("MTE3", ToAIV(SoftmaxReady(t.seq)))
HandOverP(t) == CrossCoreSet("MTE3", ToAIC(SoftmaxReady(t.seq)))
CopyPUbToPL1(t) == Op("MTE3", {Lp(t)}, {L1P(t.seq % PL1_BUF_NUM)})
UbEvent(t) == t.seq % UB_S_OTMP_BUF_STAGES

Idle(t) == AwaitS(t) \o ReleaseS(t) \o AwaitL1P(t) \o HandOverP(t)
(* From the scores to P: masked says with which masks, done what else is   *)
(* free once they are computed.                                            *)
Compute(t, compute, done) ==
  Wait("MTE3_V", UbEvent(t) + 2) \o compute \o Set("V_MTE3", UbEvent(t)) \o done
  \o Wait("V_MTE3", UbEvent(t)) \o ReleaseS(t)
  \o AwaitL1P(t) \o CopyPUbToPL1(t) \o Set("MTE3_V", UbEvent(t) + 2) \o HandOverP(t)
Update(t) == When(~t.first, UpdateExpSumAndExpMax(t))

SoftmaxPlain(t) == AwaitS(t) \o Compute(t, ComputeScaleAndMax(t, {}), << >>) \o Update(t) \o Fence
SoftmaxDn(t) == AwaitS(t) \o Compute(t, ComputeScaleAndMaxDn(t), << >>)

(* A mask, in pieces: the rows of several heads. *)
LoadMask(t, event, ub) == Wait("V_MTE2", event) \o Load(t.heads, ub) \o Set("MTE2_V", event)
SoftmaxCausal(t) ==
  LoadMask(t, 4, MaskPre) \o AwaitS(t) \o PipeAll \o Wait("MTE2_V", 4)
  \o Compute(t, ComputeScaleAndMaxMask(t), Set("V_MTE2", 4)) \o Update(t) \o Fence
(* A window has an edge on either side, and the tile may be on both. *)
SoftmaxSwa(t) ==
  LET both == t.mask = "both"
      compute == CASE both -> ComputeScaleAndMaxMaskPreNext(t)
                   [] t.mask = "pre" -> ComputeScaleAndMaxMaskInvert(t)
                   [] OTHER -> ComputeScaleAndMaxMask(t)
  IN  LoadMask(t, 4, MaskPre) \o When(both, LoadMask(t, 5, MaskNext))
      \o AwaitS(t) \o PipeAll \o Wait("MTE2_V", 4) \o When(both, Wait("MTE2_V", 5))
      \o Compute(t, compute, Set("V_MTE2", 4) \o When(both, Set("V_MTE2", 5)))
      \o Update(t) \o Fence

(* online_softmax_quant.hpp: the rows side by side as above; P gathers its *)
(* columns by an index made when the kernel starts.                        *)
PGatherIndex == Fixed("pIndex", 0)
InitPGatherIndex == SimdLoop({}, {PGatherIndex}) \o LocalMemBar
ComputeOnlineSoftmaxUnmaskedImpl(t) ==
  When(t.softcap, SimdLoop({Ls(t)}, {Ls(t)}) \o LocalMemBar)
  \o SimdLoop({Ls(t), PGatherIndex} \cup (IF t.first THEN {} ELSE {Gm, Gl}), {Dm(t), Gm, Gl, Lp(t)})
  \o LocalMemBar
ComputeOnlineSoftmaxMaskedImpl(t) ==
  SimdLoop({Ls(t)}, {Ls(t)}) \o LocalMemBar
  \o SimdLoop({Ls(t), PGatherIndex} \cup (IF t.first THEN {} ELSE {Gm, Gl}), {Dm(t), Gm, Gl, Lp(t)})
  \o LocalMemBar
SoftmaxQuant(t) ==
  AwaitS(t)
  \o Compute(t, IF t.masked THEN ComputeOnlineSoftmaxMaskedImpl(t)
                ELSE ComputeOnlineSoftmaxUnmaskedImpl(t), << >>)

OnlineSoftmax(t) ==
  CASE t.mask = "quant" -> SoftmaxQuant(t)
    [] t.rows = 0 -> Idle(t)
    [] t.mask = "none" -> SoftmaxPlain(t)
    [] t.mask = "dn" -> SoftmaxDn(t)
    [] t.mask = "causal" -> SoftmaxCausal(t)
    [] OTHER -> SoftmaxSwa(t)

-----------------------------------------------------------------------------
(* rescale_o.hpp *)

Lo(x, t) == UbOTmp(t.seq % OTmpStages(x))
AwaitO(x, t) == CrossCoreWaitIn("V", ToAIV(PvReady(x, t.seq)))
ReleaseO(x, t) == CrossCoreSet("V", ToAIC(PvReady(x, t.seq)))

(* The first tile's product is taken, a later one added; the last one's    *)
(* divided.                                                                *)
RescaleFunc(x, t) == SimdLoop({Go, Lo(x, t), Dm(t)}, {Go}) \o LocalMemBar
RescaleFuncLastNotFirst(x, t) == SimdLoop({Go, Lo(x, t), Dm(t), Gl}, {Go}) \o LocalMemBar
DivFuncLastAndFirst(x, t) == SimdLoop({Lo(x, t), Gl}, {Go}) \o LocalMemBar
Accumulate(x, t) ==
  CASE t.first /\ ~t.last -> Unfenced({Lo(x, t)}, {Go}) \o Fence
    [] t.first /\ t.last -> DivFuncLastAndFirst(x, t)
    [] ~t.first /\ t.last -> RescaleFuncLastNotFirst(x, t)
    [] OTHER -> RescaleFunc(x, t)
ClearRows == Unfenced({}, {Go})
ZeroInvalidSwaRows(t) == When(t.zeroed, ClearRows)
ComputeLse == SimdLoop({Gl, Gm}, {Lm}) \o LocalMemBar

WritePartial(g) ==
  ComputeLse \o Fence \o Both("V_MTE3", 0)
  \o Op("MTE3", {Go}, {g.partial}) \o Op("MTE3", {Lm}, {g.partialLse}) \o Both("MTE3_V", 4)
WriteOutput(t, g) ==
  Unfenced({Go}, {Go}) \o Fence \o ZeroInvalidSwaRows(t) \o Fence \o Both("V_MTE3", 0)
  \o When(~t.grouped, Op("MTE3", {Go}, {g.out}))
RescaleSubCoreCompute(x, t, g) ==
  AwaitO(x, t) \o Wait("MTE3_V", 4) \o Accumulate(x, t)
  \o When(t.zeroed, Fence \o ClearRows) \o ReleaseO(x, t)
  \o When(t.last, Fence \o (IF t.partial THEN WritePartial(g) ELSE WriteOutput(t, g)))
  \o Set("MTE3_V", 4)

ScatterGroupedOutput(t, g) ==
  Wait("MTE3_V", 4) \o When(t.zeroed, ClearRows \o Both("V_MTE3", 0))
  \o Repeat(LAMBDA n: Op("MTE3", {Go}, {g.out}), t.heads) \o Set("MTE3_V", 4)
InvalidSwaLseRows(t) == When(t.zeroed, ClearRows)
WriteGroupedLse(t, g) ==
  Wait("MTE3_V", 4) \o Fence \o ComputeLse \o Fence \o Unfenced({Lm}, {Go}) \o Fence
  \o InvalidSwaLseRows(t) \o Fence \o Both("V_MTE3", 4) \o Op("MTE3", {Go}, {g.lse})
  \o Set("MTE3_V", 4)

RescaleO(x, t, g) ==
  IF t.rows = 0 THEN AwaitO(x, t) \o ReleaseO(x, t)
  ELSE RescaleSubCoreCompute(x, t, g)
       \o When(t.last /\ ~t.partial,
               When(t.grouped, ScatterGroupedOutput(t, g)) \o When(t.lse, WriteGroupedLse(t, g)))

-----------------------------------------------------------------------------
(* init_outputs.hpp: a task without keys, between two barriers.            *)
LseUb == Fixed("initLse", 0)
InitOutputs(lse, g) ==
  PipeAll \o Wait("MTE3_V", 6) \o Unfenced({}, {Go}) \o Both("V_MTE3", 6)
  \o Op("MTE3", {Go}, {g.out}) \o Set("MTE3_V", 6)
  \o When(lse, Wait("MTE3_V", 7) \o Unfenced({}, {LseUb}) \o Both("V_MTE3", 7)
               \o Op("MTE3", {LseUb}, {g.lse}) \o Set("MTE3_V", 7))
  \o PipeAll

-----------------------------------------------------------------------------
(* fd_combine.hpp: c.tiles tiles of rows, each from c.batches batches of   *)
(* c.partials partial results.                                             *)
C(name) == Fixed(name, 0)
NormalizeWeights ==
  SimdLoop({C("lse")}, {C("weights"), C("globalLse")}) \o LocalMemBar
  \o SimdLoop({C("weights")}, {C("weights")}) \o LocalMemBar
PrepareWeights(g) ==
  Unfenced({}, {C("lse")}) \o Fence \o Both("V_MTE2", 0) \o Op("MTE2", {g.partialLse}, {C("lse")})
  \o Both("MTE2_V", 0) \o NormalizeWeights \o Fence
StoreLse(c, g) ==
  IF c.dense THEN Both("V_MTE3", 1) \o Op("MTE3", {C("globalLse")}, {g.lse}) \o Set("MTE3_V", 1)
  ELSE Unfenced({C("globalLse")}, {C("lseStore")}) \o Fence \o Both("V_MTE3", 1)
       \o Op("MTE3", {C("lseStore")}, {g.lse}) \o Set("MTE3_V", 1)
LoadPartials(c, g) ==
  Both("V_MTE2", 1) \o Repeat(LAMBDA n: Op("MTE2", {g.partial}, {C("oInput")}), c.partials)
  \o Both("MTE2_V", 1)
AccumulatePartials == SimdLoop({C("oInput"), C("weights"), C("oAcc")}, {C("oAcc")}) \o LocalMemBar
StoreOutput(g) == Both("V_MTE3", 0) \o Op("MTE3", {C("oInput")}, {g.out}) \o Both("MTE3_V", 0)
CombineTile(c, g) ==
  PrepareWeights(g) \o When(c.lse, StoreLse(c, g))
  \o Unfenced({}, {C("oAcc")}) \o Fence
  \o Repeat(LAMBDA n: LoadPartials(c, g) \o AccumulatePartials \o Fence, c.batches)
  \o Unfenced({C("oAcc")}, {C("oInput")}) \o Fence \o StoreOutput(g)
  \o When(c.lse, Wait("MTE3_V", 1))
FlashDecodeCombine(c, g) == Repeat(LAMBDA n: CombineTile(c, g), c.tiles) \o PipeAll

-----------------------------------------------------------------------------
(* fwd_kernel.cpp: InitSyncFlags and ReleaseSyncFlags.                     *)
Ids == <<0, 1, 2, 3, 4, 6, 7>>
VectorInitSyncFlags(x) ==
  SetAll("V_MTE2", <<0, 1, 4, 5>>) \o SetAll("MTE3_V", Ids)
  \o Set("S_MTE3", 0) \o SetAll("MTE3_S", UpTo(1))
  \o Repeat(LAMBDA n: CrossCoreSet("V", ToAIC(n - 1)), UB_S_OTMP_BUF_STAGES)
  \o Repeat(LAMBDA n: CrossCoreSet("V", ToAIC(PvReady(x, n - 1))), OTmpStages(x))
VectorReleaseSyncFlags ==
  WaitAll("V_MTE2", <<0, 1, 4, 5>>) \o WaitAll("MTE3_V", Ids)
  \o Wait("S_MTE3", 0) \o WaitAll("MTE3_S", UpTo(1))
  \o Repeat(LAMBDA n: CrossCoreWaitIn("MTE3", ToAIV(n - 1 + UB_S_OTMP_BUF_STAGES)), PL1_BUF_NUM)
  \o PipeAll

-----------------------------------------------------------------------------
PRE_LAUNCH == 2

(* Output of the i-th task. *)
Globals(i) == [out |-> Shared("O", i), lse |-> Shared("Lse", i),
               partial |-> Shared("partialO", i), partialLse |-> Shared("partialLse", i)]

(* The stages of L0A and L0B used before a product: tiles of QK and of PV  *)
(* in the order of the main loop, PRE_LAUNCH apart.                        *)
CalcCrossqkpvPrefixSumL0ABStages(r, qk, pv, loops, isCurPhaseqk) ==
  IF isCurPhaseqk THEN IF r <= PRE_LAUNCH THEN r * qk ELSE r * qk + (r - PRE_LAUNCH) * pv
  ELSE IF r + PRE_LAUNCH < loops THEN (r + 1 + PRE_LAUNCH) * qk + r * pv ELSE loops * qk + r * pv
Prefix(x, r, base, loops, isCurPhaseqk) ==
  LET Sum(qk, pv) == base * (qk + pv) + CalcCrossqkpvPrefixSumL0ABStages(r, qk, pv, loops, isCurPhaseqk)
  IN  [a |-> Sum(x.qkM * x.qkK, x.pvM * x.pvK), b |-> Sum(x.qkN * x.qkK, x.pvN * x.pvK)]

(* A task: its tiles, and their number before it (base) if the kernel      *)
(* counts on from task to task, as it does for flash-decode.               *)
Tile(task, base, r) ==
  [task.tile EXCEPT !.seq = base + r, !.first = r = 0, !.last = r = task.loops - 1,
                    !.mask = IF r \in task.masked THEN @ ELSE task.plain]
BlockMmadQK(x, base, r, prefix) ==
  IF x.dn THEN QKDN(x, r, base + r, prefix) ELSE QK(x, base + r, prefix)

Scores(x, task, base, r) ==
  On("AIC", BlockMmadQK(x, base, r, Prefix(x, r, base, task.loops, TRUE))
            \o When(r = task.loops - 1, Set("MTE1_MTE2", 0)))
  \o On("AIV", OnlineSoftmax(Tile(task, base, r)))
Output(x, task, base, r, g) ==
  On("AIC", PV(x, base + r, Prefix(x, r, base, task.loops, FALSE)))
  \o On("AIV", RescaleO(x, Tile(task, base, r), g))

Task(x, task, base, g) ==
  IF task.loops = 0 THEN On("AIV", InitOutputs(task.tile.lse, g))
  ELSE On("AIC", LoadQGM)
       \o Repeat(LAMBDA n: When(n <= task.loops, Scores(x, task, base, n - 1))
                           \o When(n > PRE_LAUNCH, Output(x, task, base, n - 1 - PRE_LAUNCH, g)),
                 task.loops + PRE_LAUNCH)

SyncAll ==
  On("AIC", CrossCoreSet("S", Shared("syncAIC", 0))) \o On("AIV", CrossCoreSet("S", Shared("syncAIV", 0)))
  \o On("AIC", CrossCoreWait(Shared("syncAIV", 0))) \o On("AIV", CrossCoreWait(Shared("syncAIC", 0)))

(* The kernel of a list of tasks; with combine.tiles > 0 a flash-decode    *)
(* kernel.                                                                 *)
FwdKernel(x, tasks, combine) ==
  LET base[i \in 1 .. Len(tasks)] ==
        IF i = 1 \/ combine.tiles = 0 THEN 0 ELSE base[i - 1] + tasks[i - 1].loops
  IN  On("AIC", CubeInitSyncFlags) \o On("AIV", When(x.quant, InitPGatherIndex) \o VectorInitSyncFlags(x))
      \o Repeat(LAMBDA i: Task(x, tasks[i], base[i], Globals(i)), Len(tasks))
      \o On("AIC", CubeReleaseSyncFlags(x)) \o On("AIV", VectorReleaseSyncFlags)
      \o When(combine.tiles > 0,
              On("AIC", PipeAll) \o On("AIV", PipeAll) \o SyncAll
              \o On("AIV", FlashDecodeCombine(combine, Globals(1))))

=============================================================================
