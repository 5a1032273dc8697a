----------------------------- MODULE MCNpuPipes -----------------------------
(***************************************************************************)
(* The kernels for NpuPipes: each one a choice of options and of few turns *)
(* of every loop, so that first, middle and last turns occur, and between  *)
(* them the options of the code.                                           *)
(***************************************************************************)
EXTENDS NpuPipes, TLC

F == INSTANCE FwdCode910
B == INSTANCE BwdCode910
N == INSTANCE FwdCode950
G == INSTANCE BwdCode950
V2 == INSTANCE FwdCode910V2
BV2 == INSTANCE BwdCode910V2
V4 == INSTANCE FwdCode910V4

-----------------------------------------------------------------------------
(* The forward kernel on the 910. *)
FwdShape == [qkN |-> 1, qkM |-> 1, qkK |-> 2, pvN |-> 1, pvM |-> 1, pvTiles |-> 2, pvK |-> 2,
             slices |-> 1, pages |-> 1, copyback |-> FALSE, compact |-> FALSE]
Stack == [first |-> FALSE, last |-> FALSE, state |-> 0, slot |-> 0, rows |-> 2, oRows |-> 1,
          mask |-> "none", masked |-> FALSE, softcap |-> FALSE, invalid |-> FALSE, split |-> FALSE,
          lse |-> FALSE, zeroed |-> FALSE, copyback |-> FALSE]
NoCombine == [splits |-> 0]
FirstOf == [Stack EXCEPT !.first = TRUE]
LastOf == [Stack EXCEPT !.last = TRUE, !.slot = 1]

(* Two tasks on a paged cache, new keys and a diagonal in the second stack,*)
(* an empty tile before the third.                                         *)
Paged == Program(F!FAInferKernel([FwdShape EXCEPT !.pages = 2, !.qkK = 1, !.pvK = 1],
  <<FirstOf, [LastOf EXCEPT !.mask = "causal", !.masked = TRUE, !.copyback = TRUE],
    [FirstOf EXCEPT !.last = TRUE, !.state = 1, !.zeroed = TRUE, !.lse = TRUE, !.invalid = TRUE]>>,
  NoCombine))
(* A head dimension beyond 256, several tiles of rows, a window, a softcap.*)
Wide == Program(F!FAInferKernel(
  [FwdShape EXCEPT !.slices = 2, !.qkM = 2, !.pvM = 2, !.qkK = 1, !.pvK = 1],
  <<[FirstOf EXCEPT !.oRows = 2, !.rows = 1],
    [LastOf EXCEPT !.oRows = 2, !.mask = "swa", !.masked = TRUE, !.softcap = TRUE, !.rows = 1,
                   !.copyback = TRUE]>>,
  NoCombine))
(* A compact tile of a split task, and the combine step. *)
Decode == Program(F!FAInferKernel([FwdShape EXCEPT !.compact = TRUE],
  <<[FirstOf EXCEPT !.rows = 1, !.split = TRUE],
    [LastOf EXCEPT !.split = TRUE, !.rows = 1, !.lse = TRUE]>>,
  [splits |-> 2, tiles |-> 2, lse |-> TRUE]))

-----------------------------------------------------------------------------
(* The forward kernel on the 910, v2. *)
ShapeV2 == FwdShape @@ [segments |-> 1]
StackV2 == Stack @@ [window |-> FALSE, startsWithMask |-> FALSE, afterMask |-> FALSE,
                     lastNoMask |-> FALSE, alibi |-> FALSE, drop |-> FALSE, pret |-> FALSE,
                     oddLse |-> FALSE]
FirstV2 == [StackV2 EXCEPT !.first = TRUE]
LastV2 == [StackV2 EXCEPT !.last = TRUE, !.slot = 1]
InWindow(t, mask) == [t EXCEPT !.window = TRUE, !.mask = mask]

(* A diagonal over two loops of rows, new keys; then a tile of one stack.  *)
CausalV2 == Program(V2!FAInferKernel([ShapeV2 EXCEPT !.qkK = 1],
  <<[FirstV2 EXCEPT !.lastNoMask = TRUE, !.rows = 1],
    [LastV2 EXCEPT !.mask = "causal", !.copyback = TRUE],
    [FirstV2 EXCEPT !.last = TRUE, !.state = 1, !.slot = 2, !.mask = "causal", !.rows = 1,
                    !.lse = TRUE, !.oddLse = TRUE, !.invalid = TRUE, !.zeroed = TRUE]>>,
  NoCombine))
(* Both edges of a window, then its middle, then one edge.                 *)
WindowV2 == Program(V2!FAInferKernel([ShapeV2 EXCEPT !.pvTiles = 1, !.qkK = 1, !.pvK = 1],
  <<[InWindow(FirstV2, "both") EXCEPT !.rows = 1], [InWindow(StackV2, "none") EXCEPT !.slot = 1, !.rows = 1],
    [InWindow(StackV2, "none") EXCEPT !.slot = 2, !.rows = 1, !.lastNoMask = TRUE],
    [InWindow(LastV2, "next") EXCEPT !.slot = 0, !.rows = 1, !.softcap = TRUE]>>,
  NoCombine))
(* Dropout that also returns the probabilities, with biases, in a tile     *)
(* fused from two heads; the output in two loops of rows.                  *)
DropoutV2 == Program(V2!FAInferKernel([ShapeV2 EXCEPT !.segments = 2, !.qkK = 1, !.pvK = 1],
  <<[FirstV2 EXCEPT !.drop = TRUE, !.pret = TRUE, !.alibi = TRUE, !.mask = "causal",
                    !.oRows = 2],
    [LastV2 EXCEPT !.drop = TRUE, !.pret = TRUE, !.lse = TRUE, !.oRows = 2]>>,
  NoCombine))
(* A split task and the combine step. *)
DecodeV2 == Program(V2!FAInferKernel([ShapeV2 EXCEPT !.pages = 2, !.pvTiles = 1],
  <<[FirstV2 EXCEPT !.rows = 1, !.split = TRUE],
    [LastV2 EXCEPT !.split = TRUE, !.rows = 1, !.lse = TRUE]>>,
  [splits |-> 2, tiles |-> 1, lse |-> FALSE]))

-----------------------------------------------------------------------------
(* The forward kernel on the 910, v4. *)
TaskV4 == [masks |-> << >>, window |-> FALSE, lastNoMask |-> 0, rows |-> 1, oRows |-> 1,
           softcap |-> FALSE, threshold |-> TRUE, split |-> FALSE, lse |-> TRUE, sink |-> FALSE,
           invalid |-> FALSE, wide |-> FALSE, scattered |-> FALSE, skip |-> FALSE]
WideTask == [TaskV4 EXCEPT !.wide = TRUE, !.threshold = FALSE]
WindowTask == [TaskV4 EXCEPT !.window = TRUE]
SplitTask == [TaskV4 EXCEPT !.split = TRUE]

(* A head dimension of 512: the last of three stacks on the diagonal; then *)
(* a tile of one stack with a softcap, whose first rows see no key.        *)
WideV4 == Program(V4!FAInferKernel(
  [FwdShape EXCEPT !.slices = 2, !.qkK = 1, !.pvK = 1, !.qkM = 2],
  <<[WideTask EXCEPT !.masks = <<"none", "none", "causal">>, !.lastNoMask = 2, !.oRows = 2],
    [WideTask EXCEPT !.masks = <<"causal">>, !.invalid = TRUE, !.softcap = TRUE]>>, NoCombine))
(* Tasks of one stack in a window, and one without keys but with a sink.   *)
WindowV4 == Program(V4!FAInferKernel([FwdShape EXCEPT !.pages = 2, !.pvTiles = 1],
  <<[WindowTask EXCEPT !.masks = <<"both">>, !.rows = 2], [TaskV4 EXCEPT !.sink = TRUE],
    [WindowTask EXCEPT !.masks = <<"none">>, !.lastNoMask = 1],
    [WindowTask EXCEPT !.masks = <<"pre">>, !.scattered = TRUE]>>, NoCombine))
(* Split tasks with a sink, the first without keys, and the combine step.  *)
DecodeV4 == Program(V4!FAInferKernel([FwdShape EXCEPT !.qkN = 2],
  <<[SplitTask EXCEPT !.sink = TRUE],
    [SplitTask EXCEPT !.masks = <<"none">>, !.sink = TRUE],
    [SplitTask EXCEPT !.masks = <<"causal">>]>>, [splits |-> 2, tiles |-> 1, lse |-> FALSE]))

-----------------------------------------------------------------------------
(* The backward kernel on the 910. *)
Product == [policy |-> "full", m |-> 1, n |-> 2, k |-> 2, kL1 |-> 2]
Rows == [loops |-> 2, s2Loops |-> 1, mask |-> "none", softcap |-> FALSE, alibi |-> FALSE,
         drop |-> FALSE, fullKey |-> FALSE]
Bwd == [blocks |-> 2, dtm |-> FALSE, sdp |-> Product, dq |-> [Product EXCEPT !.m = 2, !.k = 1],
        dkv |-> Product, e |-> Rows, d |-> [cores |-> 2, groups |-> 1, small |-> FALSE, dq |-> TRUE],
        sfmg |-> 2, post |-> 2]

(* Head dimensions 64 and 128, and a band, alibi and dropout. *)
Full == Program(B!FAGKernel([Bwd EXCEPT !.e.mask = "band", !.e.alibi = TRUE, !.e.drop = TRUE]))
(* Head dimension 192; softcap, with one loop of rows. *)
Tiled == Program(B!FAGKernel(
  [Bwd EXCEPT !.sdp.policy = "tiledAB", !.e.softcap = TRUE, !.e.loops = 1, !.e.mask = "plain",
              !.e.alibi = TRUE]))
(* Head dimension 256, deterministic. *)
Deterministic == Program(B!FAGKernel(
  [Bwd EXCEPT !.dtm = TRUE, !.sdp.policy = "tiledA", !.sdp.m = 2, !.sdp.n = 1, !.e.fullKey = TRUE]))

(* Softcap, with two loops of rows. *)
SoftcapKernels ==
  LET code == B!FAGKernel([Bwd EXCEPT !.e.softcap = TRUE]) IN [softcap |-> Program(code)]

-----------------------------------------------------------------------------
(* The forward kernel on the 950. *)
Shape950 == [qkN |-> 1, qkM |-> 1, qkK |-> 1, pvN |-> 1, pvM |-> 1, pvK |-> 1, pieces |-> 1,
             dn |-> FALSE, quant |-> FALSE]
Tile == [seq |-> 0, first |-> FALSE, last |-> FALSE, rows |-> 1, mask |-> "none", softcap |-> FALSE,
         zeroed |-> FALSE, heads |-> 1, lse |-> FALSE, grouped |-> FALSE, partial |-> FALSE,
         masked |-> FALSE]
(* A task whose mask bites in its last tile. *)
Task(loops, tile) == [loops |-> loops, tile |-> tile, plain |-> "none", masked |-> {loops - 1}]
AllMasked(loops, tile) == [Task(loops, tile) EXCEPT !.masked = 0 .. loops - 1]
NoTiles == [tiles |-> 0]

(* Tasks with a diagonal, without keys, and without rows for this engine. *)
Causal950 == Program(N!FwdKernel(Shape950,
  <<Task(3, [Tile EXCEPT !.mask = "causal"]), Task(0, [Tile EXCEPT !.lse = TRUE]),
    Task(1, [Tile EXCEPT !.rows = 0]), Task(2, [Tile EXCEPT !.mask = "causal"])>>, NoTiles))
(* A tile on both edges of a window, whose heads go out one by one. *)
Window950 == Program(N!FwdKernel([Shape950 EXCEPT !.qkN = 2, !.pvK = 2],
  <<Task(4, [Tile EXCEPT !.mask = "both", !.zeroed = TRUE, !.grouped = TRUE, !.heads = 2,
                         !.lse = TRUE])>>, NoTiles))
(* Split tasks and the combine step. *)
Decode950 == Program(N!FwdKernel([Shape950 EXCEPT !.qkK = 2, !.pvN = 2, !.pieces = 2],
  <<Task(3, [Tile EXCEPT !.mask = "pre", !.partial = TRUE]), Task(2, [Tile EXCEPT !.partial = TRUE])>>,
  [tiles |-> 2, batches |-> 2, partials |-> 2, lse |-> TRUE, dense |-> FALSE]))
(* Transposed scores, and 8 bits. *)
Transposed950 == Program(N!FwdKernel([Shape950 EXCEPT !.dn = TRUE, !.qkM = 2],
  <<AllMasked(1, [Tile EXCEPT !.mask = "dn"]), AllMasked(4, [Tile EXCEPT !.mask = "dn"])>>, NoTiles))
Quant950 == Program(N!FwdKernel([Shape950 EXCEPT !.dn = TRUE, !.quant = TRUE],
  <<AllMasked(4, [Tile EXCEPT !.mask = "quant", !.softcap = TRUE])>>, NoTiles))

-----------------------------------------------------------------------------
(* The backward kernel on the 950. *)
Bwd950 == [qk |-> 1, v |-> 1, softcap |-> FALSE, tiles |-> 2]
Tile950 == [id |-> 0, p |-> 0, load |-> FALSE, flush |-> FALSE, rows |-> 1, mask |-> "none",
            next |-> FALSE, pre |-> FALSE]
OpenTile == [Tile950 EXCEPT !.load = TRUE]
CloseTile == [Tile950 EXCEPT !.flush = TRUE]
Masked950(tile, mask) == [tile EXCEPT !.mask = mask]
Band(tile, next, pre) == [tile EXCEPT !.mask = "band", !.next = next, !.pre = pre]

(* Two columns under a diagonal, and a tile without rows for this engine. *)
BwdCausal950 == Program(G!FAGKernel(Bwd950,
  <<Masked950(OpenTile, "copied"), Masked950(Tile950, "filled"), Masked950(CloseTile, "filled"),
    Masked950(OpenTile, "copied"), [Masked950(CloseTile, "filled") EXCEPT !.rows = 0]>>))
(* Head dimensions beyond 128: K in slices, sums flushed with every task. *)
BwdWide950 == Program(G!FAGKernel([Bwd950 EXCEPT !.qk = 2, !.v = 2],
  <<OpenTile, Tile950, CloseTile, [OpenTile EXCEPT !.flush = TRUE]>>))
(* A window's edges, with a softcap. *)
BwdBand950 == Program(G!FAGKernel([Bwd950 EXCEPT !.v = 2, !.softcap = TRUE],
  <<Band(OpenTile, TRUE, TRUE), Band(Tile950, FALSE, TRUE), Band(Tile950, FALSE, FALSE),
    Band(Tile950, TRUE, FALSE), Band(CloseTile, FALSE, TRUE)>>))

-----------------------------------------------------------------------------
(* The v2 backward kernel for packed sequences on the 910. *)
Rect(kx, ky, num) == [kx |-> kx, ky |-> ky, num |-> num, skip |-> FALSE]
Varlen == [tasks |-> << >>, e |-> [mask |-> FALSE, softcap |-> FALSE, alibi |-> FALSE],
           diagonal |-> {}, sfmg |-> 1, post |-> 1]

(* A block, then two rows on the diagonal, the first one block shorter;    *)
(* then a task of one block.                                               *)
CausalVarlen == Program(BV2!FAGVarlenOpt([Varlen EXCEPT
  !.tasks = <<<<Rect(1, 1, 0), [Rect(2, 2, 1) EXCEPT !.skip = TRUE]>>, <<Rect(1, 1, 0)>>>>,
  !.e.mask = TRUE, !.diagonal = {1, 3}]))
(* Three tasks, so that a workspace is taken again.                        *)
DenseVarlen == Program(BV2!FAGVarlenOpt([Varlen EXCEPT
  !.tasks = <<<<Rect(1, 2, 0)>>, <<Rect(1, 1, 0), Rect(1, 1, 1)>>, <<Rect(1, 1, 0)>>>>,
  !.e.alibi = TRUE]))
(* Tasks of one block, with a softcap.                                     *)
SoftcapVarlen == Program(BV2!FAGVarlenOpt([Varlen EXCEPT
  !.tasks = <<<<Rect(1, 1, 0)>>, <<Rect(1, 1, 0)>>>>, !.e.softcap = TRUE, !.e.alibi = TRUE]))

-----------------------------------------------------------------------------
AllKernels ==
  LET fwd910 == [paged |-> Paged, wide |-> Wide, decode |-> Decode]
      bwd910 == [full |-> Full, tiled |-> Tiled, deterministic |-> Deterministic]
      fwd950 == [causal950 |-> Causal950, window950 |-> Window950, decode950 |-> Decode950,
                 transposed950 |-> Transposed950, quant950 |-> Quant950]
      bwd950 == [bwdCausal950 |-> BwdCausal950, bwdWide950 |-> BwdWide950,
                 bwdBand950 |-> BwdBand950]
      fwdV2 == [causalV2 |-> CausalV2, windowV2 |-> WindowV2, dropoutV2 |-> DropoutV2,
                decodeV2 |-> DecodeV2]
      fwdV4 == [wideV4 |-> WideV4, windowV4 |-> WindowV4, decodeV4 |-> DecodeV4]
      bwdV2 == [causalVarlen |-> CausalVarlen, denseVarlen |-> DenseVarlen,
                softcapVarlen |-> SoftcapVarlen]
  IN  fwd910 @@ bwd910 @@ fwd950 @@ bwd950 @@ fwdV2 @@ bwdV2 @@ fwdV4
=============================================================================
