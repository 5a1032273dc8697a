----------------------------- MODULE BwdCode910 -----------------------------
(***************************************************************************)
(* The backward kernel of a core on the 910 (v3), fag_kernel.cpp, as       *)
(* instructions of its cube engine and one of its vector engines: the      *)
(* blocks of the core, each with a pair of workspaces taken in turn        *)
(* (taskId % 2).  BwdPipeline has both vector engines and all cores, this  *)
(* module the pipes inside each step.                                      *)
(*                                                                         *)
(* A kernel b: the number of blocks, dtm whether results are added in a    *)
(* fixed order, the shapes sdp, dq and dkv of the products, e of the       *)
(* epilogue, d of the reduction.                                           *)
(***************************************************************************)
EXTENDS BwdCubeCode910, BwdVecCode910

(* Global memory of a block: dS replaces dP, P (dropped) the scores.       *)
Mm1Workspace(task) == Shared("mm1", task % 2)
Mm2Workspace(task) == Shared("mm2", task % 2)
DtmWorkspace(task) == Shared("dtm", task % 2)

(* PipeBarrier<PIPE_MTE3>: the cube engine has nothing in that queue.      *)
PipeBarrierMTE3 == << >>

ComputeMM1(b, task) ==
  NewResource \o BlockMmadFagSdp(b.sdp, Mm1Workspace(task)) \o PipeBarrierMTE3
  \o NewResource \o BlockMmadFagSdp(b.sdp, Mm2Workspace(task))

(* dQ and dK from dS, dV from P.                                           *)
ComputeMMDqkv(b, task, dq, dkv) ==
  NewResource \o BlockMmadFag(0, b.dq, Mm1Workspace(task), dq) \o PipeBarrierMTE3
  \o NewResource \o BlockMmadFag(4, b.dkv, Mm1Workspace(task), dkv) \o PipeBarrierMTE3
  \o BlockMmadFag(4, b.dkv, Mm2Workspace(task), dkv)
(* In a fixed order: the results of a group's blocks are kept apart.       *)
DTMComputeMMDqkv(b, task) ==
  LET to(acc) == IF b.d.cores > 0 THEN DtmWorkspace(task) ELSE acc
  IN  ComputeMMDqkv(b, task, to(Shared("dq", 0)), to(Shared("dkv", 0)))

SYNC_C1_V1_FLAG(task) == Shared("C1_V1", task % 2)
SYNC_V1_C2_FLAG(task) == Shared("V1_C2", task % 2)
SYNC_C2_V1_FLAG(task) == Shared("C2_V1", task % 2)

(* SyncAll among the engines of a kind, of which there is one here.        *)
SyncAll == PipeAll

(* A turn of the loops of operator()<AIC> and operator()<AIV>, in the      *)
(* order of the data flow.                                                 *)
CubeBlock(b, task) == ComputeMM1(b, task) \o CrossCoreSet("FIX", SYNC_C1_V1_FLAG(task))
VectorBlock(b, task) ==
  CrossCoreWait(SYNC_C1_V1_FLAG(task)) \o SabVec(b.e, Mm2Workspace(task), Mm1Workspace(task))
  \o CrossCoreSet("MTE3", SYNC_V1_C2_FLAG(task))
CubeGradients(b, task) ==
  IF b.dtm THEN Both("MTE1_MTE2", 0) \o CrossCoreWait(SYNC_V1_C2_FLAG(task))
                \o DTMComputeMMDqkv(b, task) \o CrossCoreSet("FIX", SYNC_C2_V1_FLAG(task))
  ELSE CrossCoreWait(SYNC_V1_C2_FLAG(task))
       \o ComputeMMDqkv(b, task, Shared("dq", 0), Shared("dkv", 0))
       \o When(task = b.blocks - 1, CrossCoreSet("FIX", SYNC_C2_V1_FLAG(task)))
VectorReduce(b, task) ==
  CrossCoreWait(SYNC_C2_V1_FLAG(task)) \o SyncAll \o DtmAdd(b.d, DtmWorkspace(task)) \o SyncAll

LoopTurn(b, task) ==
  On("AIC", When(task < b.blocks, CubeBlock(b, task)))
  \o On("AIV", When(task <= b.blocks, VectorBlock(b, task - 1)))
  \o On("AIC", When(task <= b.blocks, CubeGradients(b, task - 1)))
  \o When(task = b.blocks /\ ~b.dtm, On("AIV", CrossCoreWait(SYNC_C2_V1_FLAG(task - 1))))
  \o When(task > 1 /\ b.dtm, On("AIC", SyncAll) \o On("AIV", VectorReduce(b, task - 2)))
LoopTurns(b) == IF b.dtm THEN b.blocks + 1 ELSE b.blocks

(* pipe.Destroy() between the parts of the vector engine's kernel is a     *)
(* barrier of all pipes.                                                   *)
Destroy == PipeAll
FAGKernel(b) ==
  On("AIV", Pre \o Destroy \o SfmgEpilogue(b.sfmg) \o Destroy \o SyncAll)
  \o On("AIC", CubeBlock(b, 0))
  \o Repeat(LAMBDA task: LoopTurn(b, task), LoopTurns(b))
  \o On("AIC", When(b.dtm, SyncAll))
  \o On("AIV", SyncAll \o Destroy \o Post(b.post))

=============================================================================
