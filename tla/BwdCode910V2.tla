---------------------------- MODULE BwdCode910V2 -----------------------------
(***************************************************************************)
(* The v2 backward kernel for packed sequences on the 910,                 *)
(* mha_varlen_bwd.cpp, as instructions of the cube engine of a core and of *)
(* one of its vector engines: the segments of the core, one task each,     *)
(* with workspaces taken in turn, and the epilogue of fag_epilogue_op.hpp  *)
(* (the class for the v2 kernel), in which P takes the place of the scores *)
(* and dS that of dP.                                                      *)
(*                                                                         *)
(* A kernel b: tasks, the rectangles of each task; e, what the epilogue    *)
(* was built for (mask, softcap, alibi); diagonal, the blocks of a task    *)
(* that the mask falls in; sfmg and post, the turns of those loops.        *)
(***************************************************************************)
EXTENDS PipeCode, BwdVecCode910

-----------------------------------------------------------------------------
(***************************************************************************)
(* The three matrix products of the v2 backward kernel for packed          *)
(* sequences on the 910: fag_mmad_cube1.hpp (Q K' and dO V', stored),      *)
(* fag_mmad_cube2.hpp (dQ, added), fag_mmad_cube3.hpp (dK and dV, added).  *)
(* They share the layout of the buffers and, across calls, the counters of *)
(* the slots, which Cube2 and Cube3 put back to 0 for some.                *)
(*                                                                         *)
(* A task is the number of its workspace and the rectangles of blocks of   *)
(* its segment (FagV2Segments), with kx columns, ky rows, the place of the *)
(* first block, and skip if the last block of the first row is left out.   *)
(* A counter that is put back is another counter from then on: la (of L1A) *)
(* and l0a (of L0A) from Cube2 on, l0b (of L0B) from Cube3 on.             *)
(***************************************************************************)

L1A(task) == Ref("l1A", 0, task.la)
L1B == Ref("l1B", 0, "lb")
L0A(task) == Ref("l0A", 0, task.l0a)
L0B(task) == Ref("l0B", 0, task.l0b)
L0C == Ref("l0C", 0, "c")
BothTurn(e, id, counter) == SetTurn(e, id, counter) \o WaitTurn(e, id, counter)

Skips(r, n, m) == r.skip /\ n = r.kx /\ m = 1
(* Blocks before this one in the order of columns, without the one skipped. *)
BlocksBefore(r, n, m) == r.ky * (n - 1) + m - 1 - (IF r.skip /\ n = r.kx /\ m > 1 THEN 1 ELSE 0)
BlockOf(name, task, r, n, m) == Shared(name, 2 * (r.num + BlocksBefore(r, n, m)) + task.slot)

(* With a unit flag the hardware hands a slot of L0C over: the store waits *)
(* for the last multiplication, the first one of the next tile for it.     *)
UnitOf(e, acc) == Ref(e, 8 + acc[2], acc[3])
Multiply(a, b, acc, first, last) ==
  When(first, WaitRef("FIX_M", UnitOf("FIX_M", acc))) \o Op("M", {a, b, acc}, {acc})
  \o When(last, SetRef("M_FIX", UnitOf("M_FIX", acc)))
Store(acc, out) ==
  WaitRef("M_FIX", UnitOf("M_FIX", acc)) \o Op("FIX", {acc}, {out})
  \o SetRef("FIX_M", UnitOf("FIX_M", acc))
L0CFree == SetAll("FIX_M", <<8, 9>>)
L0CDone == WaitAll("FIX_M", <<8, 9>>)

SetFlag == SetAll("MTE1_MTE2", UpTo(5)) \o SetAll("M_MTE1", <<3, 4, 5, 6>>)
WaitFlag == WaitAll("MTE1_MTE2", UpTo(5)) \o WaitAll("M_MTE1", <<3, 4, 5, 6>>)

-----------------------------------------------------------------------------
(* fag_mmad_cube1.hpp: a column of blocks, from L1.                        *)
Cube1Base(task, r, n, out) ==
  WaitTurn("M_MTE1", 5, task.l0b) \o Op("MTE1", {L1B}, {L0B(task)}) \o BothTurn("MTE1_M", 2, task.l0b)
  \o Repeat(LAMBDA m:
       LET runs == ~Skips(r, n, m)
       IN  WaitTurn("M_MTE1", 3, task.l0a) \o When(runs, Op("MTE1", {L1A(task)}, {L0A(task)}))
           \o BothTurn("MTE1_M", 0, task.l0a)
           \o When(runs, Multiply(L0A(task), L0B(task), L0C, TRUE, TRUE))
           \o SetTurn("M_MTE1", 3, task.l0a)
           \o When(runs, Store(L0C, BlockOf(out, task, r, n, m)))
           \o Flip("c") \o Flip(task.l0a),
       r.ky)
  \o SetTurn("M_MTE1", 5, task.l0b) \o Flip(task.l0b)
Cube1Rectangle(task, r, out) ==
  WaitTurn("MTE1_MTE2", 2, task.la) \o Op("MTE2", {}, {L1A(task)}) \o BothTurn("MTE2_MTE1", 2, task.la)
  \o Repeat(LAMBDA n:
       WaitTurn("MTE1_MTE2", 0, "lb") \o Op("MTE2", {}, {L1B}) \o BothTurn("MTE2_MTE1", 0, "lb")
       \o Cube1Base(task, r, n, out)
       \o SetTurn("MTE1_MTE2", 0, "lb") \o Flip("lb"),
       r.kx)
  \o SetTurn("MTE1_MTE2", 2, task.la) \o Flip(task.la)
Cube1(task, out) == Repeat(LAMBDA i: Cube1Rectangle(task, task.rects[i], out), Len(task.rects))

-----------------------------------------------------------------------------
(* fag_mmad_cube2.hpp: row m has slot m of L1A, L0A and L0C; its sum over  *)
(* the columns is kept in L0C.                                             *)
Row(name, m) == Fixed(name, m - 1)
Cube2LoadA(task, r, n, in) ==
  Repeat(LAMBDA m:
    Wait("MTE1_MTE2", 1 + m)
    \o When(~Skips(r, n, m), Op("MTE2", {BlockOf(in, task, r, n, m)}, {Row("l1A", m)}))
    \o Set("MTE2_MTE1", 1 + m),
    r.ky)
Cube2LastK(r, n, m) == n = IF m = 1 /\ r.skip THEN r.kx - 1 ELSE r.kx
Cube2Rows(task, r, n, out) ==
  Repeat(LAMBDA m:
    LET runs == ~Skips(r, n, m)
        lastK == Cube2LastK(r, n, m)
    IN  Wait("MTE2_MTE1", 1 + m) \o Wait("M_MTE1", 2 + m)
        \o When(runs, Op("MTE1", {Row("l1A", m)}, {Row("l0A", m)}))
        \o Set("MTE1_M", m - 1) \o Set("MTE1_MTE2", 1 + m) \o Wait("MTE1_M", m - 1)
        \o When(runs, Multiply(Row("l0A", m), L0B(task), Row("l0C", m), n = 1, lastK))
        \o Set("M_MTE1", 2 + m)
        \o When(runs /\ lastK, Store(Row("l0C", m), out)),
    r.ky)
(* The wait for the vector engine comes behind the first load of K.        *)
Cube2Column(task, r, n, ready, in, out) ==
  WaitTurn("MTE1_MTE2", 0, "lb") \o Op("MTE2", {}, {L1B}) \o SetTurn("MTE2_MTE1", 0, "lb")
  \o ready \o Cube2LoadA(task, r, n, in)
  \o WaitTurn("MTE2_MTE1", 0, "lb") \o WaitTurn("M_MTE1", 5, task.l0b)
  \o Op("MTE1", {L1B}, {L0B(task)}) \o SetTurn("MTE1_M", 2, task.l0b)
  \o SetTurn("MTE1_MTE2", 0, "lb") \o WaitTurn("MTE1_M", 2, task.l0b)
  \o Cube2Rows(task, r, n, out)
  \o SetTurn("M_MTE1", 5, task.l0b) \o Flip(task.l0b) \o Flip("lb")
Cube2(task, ready, in, out) ==
  Repeat(LAMBDA i:
    Repeat(LAMBDA n: Cube2Column(task, task.rects[i], n, When(i = 1 /\ n = 1, ready), in, out),
           task.rects[i].kx),
    Len(task.rects))

-----------------------------------------------------------------------------
(* fag_mmad_cube3.hpp: the sum over the rows of a column is kept in L0C.   *)
(* Blocks take the slots of L0B in turn, counted from 0 in each rectangle, *)
(* the second slot first.                                                  *)
Cube3Multiply(task, r, n, m, turn) ==
  Multiply(L0A(task), Fixed("l0B", 1 - turn), L0C, m = 1 \/ (r.skip /\ n = r.kx), m = r.ky)
  \o Set("M_MTE1", 5 + turn)
Cube3Block(task, r, n, m, in, out) ==
  LET runs == ~Skips(r, n, m)
      turn == BlocksBefore(r, n, m) % 2
  IN  When(runs, Wait("M_MTE1", 5 + turn) \o Op("MTE1", {L1B}, {Fixed("l0B", 1 - turn)})
                 \o Both("MTE1_M", 2 + turn))
      \o WaitTurn("MTE1_MTE2", 2, task.la)
      \o When(runs, Op("MTE2", {BlockOf(in, task, r, n, m)}, {L1A(task)}))
      \o BothTurn("MTE2_MTE1", 2, task.la) \o WaitTurn("M_MTE1", 3, task.l0a)
      \o When(runs, Op("MTE1", {L1A(task)}, {L0A(task)}))
      \o SetTurn("MTE1_MTE2", 2, task.la) \o BothTurn("MTE1_M", 0, task.l0a)
      \o When(runs, Cube3Multiply(task, r, n, m, turn))
      \o SetTurn("M_MTE1", 3, task.l0a)
      \o When(runs /\ m = r.ky, Store(L0C, out))
      \o Flip(task.la) \o Flip(task.l0a)
Cube3Rectangle(task, r, in, out) ==
  WaitTurn("MTE1_MTE2", 0, "lb") \o Op("MTE2", {}, {L1B}) \o BothTurn("MTE2_MTE1", 0, "lb")
  \o Repeat(LAMBDA n: Repeat(LAMBDA m: Cube3Block(task, r, n, m, in, out), r.ky) \o Flip("c"), r.kx)
  \o SetTurn("MTE1_MTE2", 0, "lb") \o Flip("lb")
Cube3(task, in, out) ==
  Repeat(LAMBDA i: Cube3Rectangle(task, task.rects[i], in, out), Len(task.rects))

-----------------------------------------------------------------------------
Mm1(task, block) == Shared("mm1", 2 * block + task.slot)
Mm2(task, block) == Shared("mm2", 2 * block + task.slot)
CUBE2VEC == Shared("CUBE2VEC", 0)
VEC2CUBE == Shared("VEC2CUBE", 0)
CUBE2POST == Shared("CUBE2POST", 0)

Blocks(r) == r.kx * r.ky - (IF r.skip THEN 1 ELSE 0)
BlockLength(rects) == LET r == rects[Len(rects)] IN r.num + Blocks(r)

(* A task and the counters at its time; Cube2 leaves those of L1A and L0A  *)
(* at the rows of its last rectangle, Cube3 that of L0B at 0.              *)
Counters == <<"0", "1", "2", "3">>
Task(b, t, pass) ==
  [rects |-> b.tasks[t], slot |-> (t - 1) % 2, first |-> t = 1, blockLen |-> BlockLength(b.tasks[t]),
   la |-> "la" \o Counters[pass], l0a |-> "l0a" \o Counters[pass], l0b |-> "l0b" \o Counters[pass]]

-----------------------------------------------------------------------------
(* fag_epilogue_op.hpp.  The row of biases and the constant of the softcap *)
(* share a place; the mask is loaded by the first task, for good.          *)
OptAlibi(scores) ==
  Both("V_S", 0) \o Op("S", {}, {SoftcapConst}) \o Both("S_V", 0)
  \o VI(SoftcapConst) \o VI(SoftcapConst) \o VI(SoftcapConst) \o V({scores, SoftcapConst}, {scores})
OptSubGrapA(e, i, len, diagonal, inOut) ==
  LET scores == IF e.alibi /\ e.softcap THEN Prob ELSE Scores
  IN  When(i > 1, Wait("MTE3_MTE2", 1)) \o CopyInSoftMax
      \o Op("MTE2", {inOut}, {Scores}) \o Both("MTE2_V", 0)
      \o Fence \o VI(Scores) \o When(e.softcap, Softcap)
      \o When(e.alibi /\ e.softcap, Unfenced({Scores}, {Prob}))
      \o When(e.alibi, OptAlibi(scores))
      \o When(e.mask /\ diagonal, CalcAttenMaskBool(scores) \o Fence)
      \o CalcSoftMax(scores)
      \o Fence \o Unfenced({Prob}, {CopyOutP})
      \o Both("V_MTE3", 0) \o Op("MTE3", {CopyOutP}, {inOut})
      \o When(i < len, Set("MTE3_MTE2", 1))
OptSubGrapB(e, i, len, inOut) ==
  When(i > 1, Wait("MTE3_MTE2", 2)) \o When(e.softcap, SaveScores)
  \o Op("MTE2", {Shared("sfmg", 0)}, {Sfmg}) \o Op("MTE2", {inOut}, {Grad}) \o Both("MTE2_V", 0)
  \o Fence \o Unfenced({Grad, Sfmg}, {Grad}) \o Fence \o V({Grad, Prob}, {Grad})
  \o When(e.softcap, SoftcapGrad) \o ClearRows \o Unfenced({Grad}, {Grad})
  \o Both("V_MTE3", 0) \o Op("MTE3", {Grad}, {inOut})
  \o When(i < len, Set("MTE3_MTE2", 2))
EpilogueFagOp(b, task) ==
  Both("MTE3_MTE2", 0) \o When(b.e.mask /\ task.first, CopyInAttenMaskBool) \o Fence
  \o Repeat(LAMBDA i:
       OptSubGrapA(b.e, i, task.blockLen, i \in b.diagonal, Mm2(task, i - 1))
       \o OptSubGrapB(b.e, i, task.blockLen, Mm1(task, i - 1)),
       task.blockLen)

-----------------------------------------------------------------------------
(* operator(), in the order of the data flow. *)
CubeScores(b, t) ==
  LET task == Task(b, t, IF t < 3 THEN 1 ELSE t - 1)
  IN  SetFlag \o Cube1(task, "mm2") \o Cube1(task, "mm1") \o WaitFlag
      \o CrossCoreSet("FIX", CUBE2VEC)
LeftBehind(rects) == rects[Len(rects)].ky % 2
CubeGradientsV2(b, t) ==
  LET before == Task(b, t, t)
      task == [Task(b, t, t + 1) EXCEPT !.l0b = before.l0b]
  IN  SetFlag \o Cube2(task, CrossCoreWait(VEC2CUBE), "mm1", Shared("dq", 0)) \o WaitFlag
      \o When(LeftBehind(task.rects) = 1, Flip(task.la) \o Flip(task.l0a))
      \o SetFlag \o Cube3(task, "mm1", Shared("dkv", 0)) \o Cube3(task, "mm2", Shared("dkv", 0))
      \o WaitFlag
VectorTask(b, t) ==
  CrossCoreWait(CUBE2VEC) \o EpilogueFagOp(b, Task(b, t, 1)) \o CrossCoreSet("MTE3", VEC2CUBE)

SyncAllV2 == PipeAll
DestroyV2 == PipeAll
FAGVarlenOpt(b) ==
  LET tasks == Len(b.tasks)
  IN  On("AIV", Pre \o DestroyV2 \o SfmgEpilogue(b.sfmg) \o DestroyV2 \o SyncAllV2)
      \o On("AIC", L0CFree \o CubeScores(b, 1))
      \o Repeat(LAMBDA t:
           On("AIC", When(t < tasks, CubeScores(b, t + 1)))
           \o On("AIV", VectorTask(b, t)) \o On("AIC", CubeGradientsV2(b, t)),
           tasks)
      \o On("AIC", CrossCoreSet("FIX", CUBE2POST) \o L0CDone)
      \o On("AIV", DestroyV2 \o CrossCoreWait(CUBE2POST) \o SyncAllV2 \o Post(b.post))

=============================================================================
