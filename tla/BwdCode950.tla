----------------------------- MODULE BwdCode950 ------------------------------
(***************************************************************************)
(* The backward kernel of a core on the 950 (v3), fag_kernel.cpp, as       *)
(* instructions of its cube engine and one of its vector engines: the      *)
(* tasks of the core, whose gradients (C5, C3 and C4) and epilogues (V1,   *)
(* V2) come one turn after their products (C1, C2).                        *)
(*                                                                         *)
(* A kernel x: qk and v slices of the head dimensions, softcap, tiles of   *)
(* the passes before and after.  A task: rows (of the vector engine), and  *)
(* what the products and the epilogues want of it; RunTasks numbers the    *)
(* tasks of the groups.                                                    *)
(***************************************************************************)
EXTENDS PipeCode

-----------------------------------------------------------------------------
(***************************************************************************)
(* The matrix products of the backward kernel on the 950 (v3):             *)
(* fag_mmad_sdp.hpp (S = Q K', dP = dy V', which FIX stores in the vector  *)
(* engine's UB) and fag_mmad_dqkv.hpp (dQ, dK, dV, into global memory).    *)
(*                                                                         *)
(* The two classes share L1, L0 and the events of both, each with its own  *)
(* counter of the slots of L0A and L0B.  What is loaded is kept: K' and V' *)
(* for the tasks of a group (the tiles of one column), Q and dy of a task  *)
(* until its gradients are computed, and the sums of dK and dV stay in     *)
(* L0C, if a head dimension is at most 128.  So an event may be taken in   *)
(* one call and given back in another, by the other class.                 *)
(*                                                                         *)
(* A kernel x: qk and v slices of 128 of the head dimensions.  A task t:   *)
(* its slot p (taskId % 2), load (the first of its group), flush (the      *)
(* last).                                                                  *)
(***************************************************************************)

(* Ascend950FagL1Layout and Ascend950FagL0CLayout: the events of L1 have   *)
(* the numbers of its slots, and so have those of L0C.                     *)
L1KT == Fixed("l1KT", 0)
L1VT == Fixed("l1VT", 0)
L1Q(p) == Fixed("l1Q", p)
L1Dy(p) == Fixed("l1Dy", p)
L1K == Fixed("l1K", 0)
L1P(p) == Shared("l1P", p)
L1DS(p) == Shared("l1dS", p)
UbMm1(p) == Shared("ubMm1", p)
UbMm2(p) == Shared("ubMm2", p)
SLOT_RES_KT == 0
SLOT_RES_VT == 1
QSlot(p) == 2 + p
DySlot(p) == 4 + p
L1_EVENT_K == 6
SLOT_DQ == 0
SLOT_DQ_PING == 1
SLOT_DK == 2
SLOT_DV == 3

L0A(class) == Ref("l0A", 0, class)
L0B(class) == Ref("l0B", 0, class)
L0C(slot) == Fixed("l0C", slot)
L0CSdp == Ref("l0C", 0, "l0CListId")

CopyGmToL1(to, event) == Wait("MTE1_MTE2", event) \o Op("MTE2", {}, {to}) \o Set("MTE2_MTE1", event)
MoveA(class, from) ==
  WaitTurn("M_MTE1", 0, class) \o Op("MTE1", {from}, {L0A(class)}) \o SetTurn("MTE1_M", 0, class)
MoveB(class, loaded, from, released) ==
  WaitTurn("M_MTE1", 2, class) \o loaded \o Op("MTE1", {from}, {L0B(class)}) \o released
  \o SetTurn("MTE1_M", 2, class)
Multiply(class, fresh, c) ==
  WaitTurn("MTE1_M", 0, class) \o WaitTurn("MTE1_M", 2, class) \o fresh
  \o Op("M", {L0A(class), L0B(class), c}, {c})
  \o SetTurn("M_MTE1", 0, class) \o SetTurn("M_MTE1", 2, class) \o Flip(class)

-----------------------------------------------------------------------------
(* fag_mmad_sdp.hpp *)

GemmABt(l1A, eventA, l1B, eventB, waitB, kLoops) ==
  Wait("MTE2_MTE1", eventA) \o When(waitB, Wait("MTE2_MTE1", eventB))
  \o WaitTurn("FIX_M", 0, "l0CListId")
  \o Repeat(LAMBDA k: MoveA("sdp", l1A) \o MoveB("sdp", << >>, l1B, << >>)
                      \o Multiply("sdp", << >>, L0CSdp),
            kLoops)
FixpipeUb(out) ==
  SetTurn("M_FIX", 0, "l0CListId") \o WaitTurn("M_FIX", 0, "l0CListId")
  \o Op("FIX", {L0CSdp}, {out}) \o SetTurn("FIX_M", 0, "l0CListId")

(* V' is loaded ahead, before the first product. *)
ComputeS(x, t) ==
  CopyGmToL1(L1Q(t.p), QSlot(t.p))
  \o When(t.load, CopyGmToL1(L1KT, SLOT_RES_KT) \o CopyGmToL1(L1VT, SLOT_RES_VT))
  \o GemmABt(L1Q(t.p), QSlot(t.p), L1KT, SLOT_RES_KT, t.load, x.qk)
  \o FixpipeUb(UbMm1(t.p)) \o Flip("l0CListId")
ComputeDP(x, t) ==
  CopyGmToL1(L1Dy(t.p), DySlot(t.p))
  \o GemmABt(L1Dy(t.p), DySlot(t.p), L1VT, SLOT_RES_VT, t.load, x.v)
  \o FixpipeUb(UbMm2(t.p)) \o Flip("l0CListId")
ReleaseResidentKT == Set("MTE1_MTE2", SLOT_RES_KT)
ReleaseResidentVT == Set("MTE1_MTE2", SLOT_RES_VT)

-----------------------------------------------------------------------------
(* fag_mmad_dqkv.hpp *)

LoadResidentK(x) == When(x.qk = 1, CopyGmToL1(L1K, L1_EVENT_K))
ReleaseResidentK == Set("MTE1_MTE2", L1_EVENT_K)

(* A product into a slot of L0C, fresh or added to what is there.          *)
Gemm(l1A, l1B, eventB, waitB, releaseB, initC, slot) ==
  MoveA("dqkv", l1A)
  \o MoveB("dqkv", When(waitB, Wait("MTE2_MTE1", eventB)), l1B, When(releaseB, Set("MTE1_MTE2", eventB)))
  \o Multiply("dqkv", When(initC, Wait("FIX_M", slot)), L0C(slot))
GemmRow(l1A, l1B, eventB, waitB, releaseB, slot) == Gemm(l1A, l1B, eventB, waitB, releaseB, TRUE, slot)
GemmColA(l1A, l1B, eventB, releaseB, initC, slot) == Gemm(l1A, l1B, eventB, FALSE, releaseB, initC, slot)
FixpipeTla(slot, out) ==
  Both("M_FIX", slot) \o Op("FIX", {L0C(slot)}, {out}) \o Set("FIX_M", slot)

ComputeDvSmallHeadDim(t, dv) ==
  GemmColA(L1P(t.p), L1Dy(t.p), DySlot(t.p), TRUE, t.load, SLOT_DV)
  \o When(t.flush, FixpipeTla(SLOT_DV, dv))
ComputeDvLargeHeadDim(x, t, dv) ==
  Repeat(LAMBDA d: GemmColA(L1P(t.p), L1Dy(t.p), DySlot(t.p), d = x.v, TRUE, SLOT_DV)
                   \o FixpipeTla(SLOT_DV, dv),
         x.v)
ComputeDv(x, t, dv) ==
  IF x.v = 1 THEN ComputeDvSmallHeadDim(t, dv) ELSE ComputeDvLargeHeadDim(x, t, dv)

ComputeDqDkSmallHeadDim(t, dq, dk) ==
  GemmRow(L1DS(t.p), L1K, L1_EVENT_K, t.load, FALSE, SLOT_DQ) \o FixpipeTla(SLOT_DQ, dq)
  \o GemmColA(L1DS(t.p), L1Q(t.p), QSlot(t.p), TRUE, t.load, SLOT_DK)
  \o When(t.flush, FixpipeTla(SLOT_DK, dk) \o ReleaseResidentK)
(* The slices of K pass through the slot dy has left. *)
ComputeDqDkLargeHeadDim(x, t, dq, dk) ==
  Repeat(LAMBDA d:
    LET slotDq == IF d % 2 = 0 THEN SLOT_DQ_PING ELSE SLOT_DQ
    IN  CopyGmToL1(L1Dy(t.p), DySlot(t.p))
        \o GemmRow(L1DS(t.p), L1Dy(t.p), DySlot(t.p), TRUE, TRUE, slotDq) \o FixpipeTla(slotDq, dq)
        \o GemmColA(L1DS(t.p), L1Q(t.p), QSlot(t.p), d = x.qk, TRUE, SLOT_DK)
        \o FixpipeTla(SLOT_DK, dk),
    x.qk)
ComputeDqDk(x, t, dq, dk) ==
  IF x.qk = 1 THEN ComputeDqDkSmallHeadDim(t, dq, dk) ELSE ComputeDqDkLargeHeadDim(x, t, dq, dk)

-----------------------------------------------------------------------------
(* fag_kernel.cpp *)
SetCubeEvents == SetAll("M_MTE1", UpTo(3)) \o SetAll("MTE1_MTE2", UpTo(6)) \o SetAll("FIX_M", UpTo(3))
WaitCubeEvents ==
  WaitAll("M_MTE1", UpTo(3)) \o WaitAll("MTE1_MTE2", UpTo(6)) \o WaitAll("FIX_M", UpTo(3))

-----------------------------------------------------------------------------
(***************************************************************************)
(* The vector engine's part of the backward kernel on the 950 (v3):        *)
(* fag_epilogue_pre.hpp (zeroes what is added to),                         *)
(* fag_epilogue_softmax_grad_front.hpp (delta, the row sums of dy * out),  *)
(* fag_epilogue_scaled_mask_softmax.hpp (V1: P from S),                    *)
(* fag_epilogue_sub_mul.hpp (V2: dS from dP), fag_epilogue_post.hpp        *)
(* (scales and casts the sums).  S and dP arrive in UB, P and dS leave for *)
(* the cube's L1.  One vector function starts when the one before is done. *)
(*                                                                         *)
(* A task t: its slot p, the mask of its tile ("none", "copied", "filled", *)
(* "band", with next and pre the edges of the window on it).               *)
(***************************************************************************)

MaskUb(p) == Fixed("mask", p)
LseUb(p) == Fixed("lse", p)
PUb(p) == Fixed("p", p)
DSUb(p) == Fixed("dS", p)
DeltaUb(p) == Fixed("deltaUb", p)
DeltaGm == Shared("delta", 0)

(* The events of V1 and V2, by their numbers in InitEvents. *)
LseEvent(p) == p
DeltaEvent(p) == 2 + p
PEvent(p) == p
DSEvent(p) == 2 + p
OutEvent(p) == 2 + p

-----------------------------------------------------------------------------
(* fag_epilogue_scaled_mask_softmax.hpp *)

(* The mask of the earlier edge passes through the UB of P. *)
MergeBandMasks(t) == V({PUb(t.p)} \cup (IF t.next THEN {MaskUb(t.p)} ELSE {}), {MaskUb(t.p)})
CopyBandMask(to) == Op("MTE2", {}, {to})
Clear(t) == V({}, {MaskUb(t.p)})
ProcessBandMask(t) ==
  When(t.next, CopyBandMask(MaskUb(t.p)))
  \o Wait("MTE3_V", PEvent(t.p)) \o Both("V_MTE2", LseEvent(t.p))
  \o When(t.pre, CopyBandMask(PUb(t.p)) \o Both("MTE2_V", t.p) \o MergeBandMasks(t))
  \o When(~t.pre /\ ~t.next, Clear(t))
AttenMask(t) ==
  CASE t.mask = "none" -> << >>
    [] t.mask = "copied" -> Op("MTE2", {}, {MaskUb(t.p)})
    [] t.mask = "filled" -> Clear(t)
    [] t.mask = "band" -> ProcessBandMask(t)
(* P in 16 bits for the cube; over S what V2 needs: P, or the slope of the *)
(* softcap.                                                                *)
MulsMaskSimpleSoftmax(t) ==
  V({UbMm1(t.p), LseUb(t.p)} \cup (IF t.mask = "none" THEN {} ELSE {MaskUb(t.p)}),
    {UbMm1(t.p), PUb(t.p)})
ScaledMaskSoftmax(t) ==
  AttenMask(t) \o Op("MTE2", {}, {LseUb(t.p)}) \o Both("MTE2_V", t.p)
  \o When(t.mask # "band", Wait("MTE3_V", PEvent(t.p)))
  \o MulsMaskSimpleSoftmax(t) \o Both("V_MTE3", OutEvent(t.p))
  \o Op("MTE3", {PUb(t.p)}, {L1P(t.p)}) \o Set("MTE3_V", PEvent(t.p))

(* fag_epilogue_sub_mul.hpp *)
ComputeSubMul(x, t) ==
  V({UbMm2(t.p), DeltaUb(t.p), UbMm1(t.p)} \cup (IF x.softcap THEN {PUb(t.p)} ELSE {}), {DSUb(t.p)})
SubMul(x, t) ==
  Op("MTE2", {DeltaGm}, {DeltaUb(t.p)}) \o Both("MTE2_V", t.p)
  \o Wait("MTE3_V", DSEvent(t.p)) \o ComputeSubMul(x, t) \o Both("V_MTE3", OutEvent(t.p))
  \o Op("MTE3", {DSUb(t.p)}, {L1DS(t.p)}) \o Set("MTE3_V", DSEvent(t.p))

-----------------------------------------------------------------------------
(* A stream of tiles, two in flight: turn n, in its slot, loads, computes  *)
(* and stores.                                                             *)
Slot(n) == (n - 1) % 2
Stream(load, compute, store) ==
  SetAll("MTE3_MTE2", UpTo(1))
  \o Repeat(LAMBDA n:
       Wait("MTE3_MTE2", Slot(n)) \o load[n] \o Both("MTE2_V", Slot(n)) \o compute[n]
       \o Both("V_MTE3", Slot(n)) \o store[n] \o Set("MTE3_MTE2", Slot(n)),
       Len(load))
  \o WaitAll("MTE3_MTE2", UpTo(1))

(* fag_epilogue_pre.hpp; its zeroes lie under the first tiles of the next. *)
DoutUb(s) == Fixed("dout", s)
OutUb(s) == Fixed("out", s)
RowSumsUb(s) == Fixed("rowSums", s)
ZeroUb == {DoutUb(0), OutUb(0), RowSumsUb(0), DoutUb(1)}
ClearRegion(out) == Op("MTE3", ZeroUb, {out})
FagPre(outs) ==
  V({}, ZeroUb) \o Both("V_MTE3", 0) \o Repeat(LAMBDA n: ClearRegion(outs[n]), Len(outs))

(* fag_epilogue_softmax_grad_front.hpp *)
SoftmaxGradFrontVF(s) == V({DoutUb(s), OutUb(s)}, {RowSumsUb(s)})
FagSoftmaxGradFront(tiles) ==
  Stream([n \in 1 .. tiles |-> Op("MTE2", {}, {DoutUb(Slot(n))}) \o Op("MTE2", {}, {OutUb(Slot(n))})],
         [n \in 1 .. tiles |-> SoftmaxGradFrontVF(Slot(n))],
         [n \in 1 .. tiles |-> Op("MTE3", {RowSumsUb(Slot(n))}, {DeltaGm})])

(* fag_epilogue_post.hpp: tiles of every sum; dV, the first, is not scaled.*)
SrcUb(s) == Fixed("src", s)
DstUb(s) == Fixed("dst", s)
ApplyScale(s) == V({SrcUb(s)}, {SrcUb(s)})
CastOut(s) == V({SrcUb(s)}, {DstUb(s)})
FagPost(sums, tiles) ==
  LET turns == 1 .. Len(sums) * tiles
      Sum(n) == ((n - 1) \div tiles) + 1
  IN  Stream([n \in turns |-> Op("MTE2", {sums[Sum(n)]}, {SrcUb(Slot(n))})],
             [n \in turns |-> When(Sum(n) > 1, ApplyScale(Slot(n))) \o CastOut(Slot(n))],
             [n \in turns |-> Op("MTE3", {DstUb(Slot(n))}, {})])

-----------------------------------------------------------------------------
(* fag_kernel.cpp *)
SetVecEvents == SetAll("V_MTE2", UpTo(3)) \o SetAll("MTE3_V", UpTo(3))
WaitVecEvents == WaitAll("V_MTE2", UpTo(3)) \o WaitAll("MTE3_V", UpTo(3))

-----------------------------------------------------------------------------
Dq == Shared("dq", 0)
Dk == Shared("dk", 0)
Dv == Shared("dv", 0)

(* Flags between the engines, and P and dS that come back: the slot of L1  *)
(* is the next task's.                                                     *)
SYNC_C1_TO_V1_FLAG(t) == Shared("C1_V1", t.p)
SYNC_C2_TO_V2_FLAG(t) == Shared("C2_V2", t.p)
SYNC_V2_TO_C34_FLAG == Shared("V2_C34", 0)
SYNC_V1_TO_C5_FLAG == Shared("V1_C5", 0)
SYNC_C34_TO_V2_FLAG == Shared("C34_V2", 0)
SYNC_C5_TO_V1_FLAG == Shared("C5_V1", 0)

ProcessC1Stage(x, t) == ComputeS(x, t) \o CrossCoreSet("FIX", SYNC_C1_TO_V1_FLAG(t))
ProcessC2Stage(x, t) == ComputeDP(x, t) \o CrossCoreSet("FIX", SYNC_C2_TO_V2_FLAG(t))
ProcessC5Stage(x, t, returnL1) ==
  CrossCoreWaitIn("MTE1", SYNC_V1_TO_C5_FLAG)
  \o When(t.load, LoadResidentK(x)) \o ComputeDv(x, t, Dv)
  \o When(returnL1, CrossCoreSet("MTE1", SYNC_C5_TO_V1_FLAG))
ProcessC34Stage(x, t, returnL1) ==
  CrossCoreWaitIn("MTE1", SYNC_V2_TO_C34_FLAG)
  \o ComputeDqDk(x, t, Dq, Dk)
  \o When(returnL1, CrossCoreSet("MTE1", SYNC_C34_TO_V2_FLAG))

ProcessV1Stage(t) ==
  CrossCoreWaitIn("V", SYNC_C1_TO_V1_FLAG(t))
  \o When(t.id # 0, CrossCoreWaitIn("MTE3", SYNC_C5_TO_V1_FLAG))
  \o When(t.rows # 0, Wait("V_MTE2", LseEvent(t.p)) \o ScaledMaskSoftmax(t)
                      \o Set("V_MTE2", LseEvent(t.p)))
  \o CrossCoreSet("MTE3", SYNC_V1_TO_C5_FLAG)
ProcessV2Stage(x, t) ==
  CrossCoreWaitIn("V", SYNC_C2_TO_V2_FLAG(t))
  \o When(t.id # 0, CrossCoreWaitIn("MTE3", SYNC_C34_TO_V2_FLAG))
  \o When(t.rows # 0, Wait("V_MTE2", DeltaEvent(t.p)) \o SubMul(x, t)
                      \o Set("V_MTE2", DeltaEvent(t.p)))
  \o CrossCoreSet("MTE3", SYNC_V2_TO_C34_FLAG)

(* RunTasks. *)
ReleaseResident == ReleaseResidentKT \o ReleaseResidentVT
Products(x, t) ==
  On("AIC", When(t.load /\ t.id # 0, ReleaseResident) \o ProcessC1Stage(x, t) \o ProcessC2Stage(x, t))
Gradients(x, t, returnL1) ==
  On("AIV", ProcessV1Stage(t)) \o On("AIC", ProcessC5Stage(x, t, returnL1))
  \o On("AIV", ProcessV2Stage(x, t)) \o On("AIC", ProcessC34Stage(x, t, returnL1))
RunTasks(x, tasks) ==
  LET t(n) == [tasks[n] EXCEPT !.id = n - 1, !.p = (n - 1) % 2]
      last == Len(tasks)
  IN  On("AIC", SetCubeEvents) \o On("AIV", SetVecEvents)
      \o Repeat(LAMBDA n: Products(x, t(n)) \o When(n > 1, Gradients(x, t(n - 1), TRUE)), last)
      \o When(last > 0, Gradients(x, t(last), FALSE) \o On("AIC", ReleaseResident))
      \o On("AIC", WaitCubeEvents) \o On("AIV", WaitVecEvents)

(* SyncAll<false>, of the engines of both kinds, behind a barrier.         *)
SyncAll ==
  On("AIC", PipeAll \o CrossCoreSet("S", Shared("syncAIC", 0)))
  \o On("AIV", PipeAll \o CrossCoreSet("S", Shared("syncAIV", 0)))
  \o On("AIC", CrossCoreWait(Shared("syncAIV", 0))) \o On("AIV", CrossCoreWait(Shared("syncAIC", 0)))

FAGKernel(x, tasks) ==
  On("AIV", FagPre(<<Dq, Dk, Dv>>) \o FagSoftmaxGradFront(x.tiles)) \o SyncAll
  \o RunTasks(x, tasks) \o SyncAll \o On("AIV", FagPost(<<Dv, Dk, Dq>>, x.tiles))

=============================================================================
