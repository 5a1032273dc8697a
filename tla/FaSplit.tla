------------------------------ MODULE FaSplit ------------------------------
(***************************************************************************)
(* How flash-decode cuts a launch into one contiguous range of work per    *)
(* core (src/csrc/ascend910/flash_attn_npu_3/fa_split.h).  The same code   *)
(* runs on the host and, for a precomputed schedule, on the AICPU.         *)
(*                                                                         *)
(* The work is a list of tiles <<batch b, query-head block n, query-row    *)
(* block s>>, in that order, and each tile is a list of K/V blocks k.  The *)
(* plan gives core c the blocks from info[c+1].start to info[c+1].end:     *)
(* whole tiles between, and part of the first and of the last.  The tiles  *)
(* cut over several cores are then numbered (splitInfo) and each part gets *)
(* its place in the workspace of partial results.                          *)
(*                                                                         *)
(* As in the code everything counts from 0, and an end has the last tile   *)
(* inclusive but the last block exclusive.  Cores without a range, whose   *)
(* coreInfo stays zero in the code, are simply absent from info.           *)
(*                                                                         *)
(* Operators named Slip... are mistakes this code could have; nothing uses *)
(* them, they stand in for the definition after them when a property is    *)
(* tried against the mistake.                                              *)
(***************************************************************************)
EXTENDS Integers, Sequences, FiniteSets
LOCAL INSTANCE SequencesExt
LOCAL INSTANCE FiniteSetsExt

CONSTANTS Shapes,           \* the launches to plan
          Q_TILE_CEIL,      \* rows of a tile (128 in the code)
          MAX_KV_STACK_LEN, \* keys of a block (512)
          CORE_CAP,         \* length of coreInfo and splitInfo (25)
          WORD              \* 2^32 in the code; a smaller power of two for TLC

(* A launch: query length and cached K/V length of each batch, new keys    *)
(* appended to every batch, heads, cores, and the num_splits argument.     *)
Shape == [q : Seq(Nat), kv : Seq(Nat), new : Nat, heads : Nat, headsK : Nat,
          cores : Nat, splits : Nat]

(* What the host makes sure of. *)
Plannable(x) ==
  /\ x \in Shape
  /\ Len(x.q) > 0 /\ Len(x.kv) = Len(x.q)
  /\ x.headsK > 0 /\ x.heads % x.headsK = 0 /\ x.heads > 0
  /\ x.cores > 0
SplitAssumption ==
  /\ Q_TILE_CEIL \in Nat \ {0} /\ MAX_KV_STACK_LEN \in Nat \ {0}
  /\ WORD \in Nat \ {0} /\ WORD % 2 = 0
  /\ \A x \in Shapes : Plannable(x)

VARIABLES
  shape,
  pc,          \* the loop the planner is in
  now,         \* its position: the next block to give away, or tile to visit
  core, res,   \* the core being filled, and what is left of its budget
  info,        \* coreInfo: the ranges given so far
  nodes,       \* splitInfo: the tiles cut over several cores
  first,       \* firstSplitKVTaskLseOffset of each core
  rows         \* rows of partial results so far (splitLseTotalSize / 4)
planVars == <<shape, pc, now, core, res, info, nodes, first, rows>>

FaMin(a, b) == IF a < b THEN a ELSE b
FaMax(a, b) == IF a > b THEN a ELSE b
CeilDiv(a, b) == (a + b - 1) \div b

(* uint32_t arithmetic, and its reading as int32_t. *)
U32(x) == x % WORD
I32(x) == IF U32(x) < WORD \div 2 THEN U32(x) ELSE U32(x) - WORD

batch_size == Len(shape.q)
Batches == 0 .. batch_size - 1
Group == shape.heads \div shape.headsK

GetQNBlockTile(q, g) ==
  FaMax(1, FaMin(g, IF q # 0 THEN ((Q_TILE_CEIL \div q) \div 2) * 2
                    ELSE Q_TILE_CEIL))

(* getBatchParams.  Cached and appended keys are blocked separately. *)
Params(b) ==
  LET q     == shape.q[b + 1]
      old   == shape.kv[b + 1]
      nTile == GetQNBlockTile(q, Group)
      kOld  == CeilDiv(old, MAX_KV_STACK_LEN)
      kNew  == CeilDiv(shape.new, MAX_KV_STACK_LEN)
  IN [q |-> q, kv |-> old + shape.new,
      nTile |-> nTile,
      nPerGroup |-> CeilDiv(Group, nTile),
      nNum |-> CeilDiv(Group, nTile) * shape.headsK,
      sNum |-> CeilDiv(q, Q_TILE_CEIL),
      kNum |-> kOld + kNew,
      kTail |-> IF kNew # 0 THEN shape.new - (kNew - 1) * MAX_KV_STACK_LEN
                ELSE IF kOld # 0 THEN old - (kOld - 1) * MAX_KV_STACK_LEN ELSE 0]

Pos(b, n, s, k) == [b |-> b, n |-> n, s |-> s, k |-> k]
Zero == Pos(0, 0, 0, 0)
Work(a, z) == [start |-> a, end |-> z]

(* The end of the last tile of batch b, and of the whole launch. *)
EndOf(b) == LET p == Params(b) IN Pos(b, p.nNum - 1, p.sNum - 1, p.kNum)
LastPos == EndOf(batch_size - 1)

-----------------------------------------------------------------------------
(* The tiles, their order, and the part of one that a range covers. *)

TilesOf(b) == {<<b, n, s>> : n \in 0 .. Params(b).nNum - 1,
                             s \in 0 .. Params(b).sNum - 1}
Tiles == UNION {TilesOf(b) : b \in Batches}
TileOf(x) == <<x.b, x.n, x.s>>

Before(t, u) == \/ t[1] < u[1]
                \/ t[1] = u[1] /\ t[2] < u[2]
                \/ t[1] = u[1] /\ t[2] = u[2] /\ t[3] <= u[3]

(* The step of the three nested loops over s, n and b. *)
Succ(t) ==
  LET p == Params(t[1])
  IN CASE t[3] + 1 < p.sNum -> <<t[1], t[2], t[3] + 1>>
       [] t[3] + 1 >= p.sNum /\ t[2] + 1 < p.nNum -> <<t[1], t[2] + 1, 0>>
       [] OTHER -> <<t[1] + 1, 0, 0>>

PieceStart(r, t) == IF t = TileOf(r.start) THEN r.start.k ELSE 0
PieceEnd(r, t) == IF t = TileOf(r.end) THEN r.end.k ELSE Params(t[1]).kNum

(* isSplitKV: range r has a proper part of tile t. *)
IsSplit(r, t) == LET len == PieceEnd(r, t) - PieceStart(r, t)
                 IN 0 < len /\ len < Params(t[1]).kNum

(* The heads and query rows of a tile. *)
HeadStart(t) == LET p == Params(t[1])
                IN (t[2] \div p.nPerGroup) * Group + (t[2] % p.nPerGroup) * p.nTile
HeadEnd(t) == LET p == Params(t[1])
              IN FaMin(HeadStart(t) + p.nTile, (t[2] \div p.nPerGroup + 1) * Group)
QStart(t) == t[3] * Q_TILE_CEIL
SlipQEnd(t) == QStart(t) + Q_TILE_CEIL
QEnd(t) == FaMin(QStart(t) + Q_TILE_CEIL, Params(t[1]).q)
RowsOf(t) == (HeadEnd(t) - HeadStart(t)) * (QEnd(t) - QStart(t))

-----------------------------------------------------------------------------
(* The sum of Count(b) over all batches; the tiles in the order of their   *)
(* numbers.                                                                *)

Total(Count(_)) ==
  LET sum[b \in 0 .. batch_size] == IF b = 0 THEN 0 ELSE sum[b - 1] + Count(b - 1)
  IN sum[batch_size]

TileCount(b) == Params(b).nNum * Params(b).sNum
TilesInOrder ==
  LET tiles(b, p) == [j \in 1 .. p.nNum * p.sNum |-> <<b, (j - 1) \div p.sNum, (j - 1) % p.sNum>>]
  IN FlattenSeq([i \in 1 .. batch_size |-> tiles(i - 1, Params(i - 1))])
Locate(t, k) == Pos(t[1], t[2], t[3], k)

(* fillCoreInfoForceSplit: every tile in the same number of segments, one  *)
(* segment per core.  A batch without keys has no segment.                 *)

PerSplit(b) == CeilDiv(Params(b).kNum, shape.splits)
PerTile(b) == IF Params(b).kNum = 0 THEN 0 ELSE CeilDiv(Params(b).kNum, PerSplit(b))
Segments(b) == TileCount(b) * PerTile(b)
TotalSegments == Total(Segments)

Segment(t, k) == Work(Locate(t, k), Locate(t, FaMin(k + PerSplit(t[1]), Params(t[1]).kNum)))
SegmentsOf(t) == [j \in 1 .. PerTile(t[1]) |-> Segment(t, (j - 1) * PerSplit(t[1]))]
ForceSplit ==
  LET tiles == TilesInOrder
  IN FlattenSeq([i \in DOMAIN tiles |-> SegmentsOf(tiles[i])])

(* fillCoreInfoNoSplit: whole tiles, the same number for every core. *)

NoSplit ==
  LET tiles == TilesInOrder
      per == CeilDiv(Len(tiles), shape.cores)
      last(c) == tiles[FaMin(c * per, Len(tiles))]
  IN [c \in 1 .. CeilDiv(Len(tiles), per) |->
        Work(Locate(tiles[(c - 1) * per + 1], 0), Locate(last(c), Params(last(c)[1]).kNum))]

-----------------------------------------------------------------------------
(* The greedy split: work is counted in (query row, key) pairs. *)

Pairs(b) == shape.heads * Params(b).q * Params(b).kv
PerCoreTaskNum == CeilDiv(Total(Pairs), shape.cores)

(* advanceCounters: carry a finished tile, head block or batch. *)
Carry(x) ==
  LET p == Params(x.b)
      y == IF x.k = p.kNum THEN Pos(x.b, x.n, x.s + 1, 0) ELSE x
      z == IF y.s = p.sNum THEN Pos(y.b, y.n + 1, 0, 0) ELSE y
  IN IF z.n = p.nNum THEN Pos(z.b + 1, 0, 0, 0) ELSE z

(* What is charged for the next block, and for all that is left of the     *)
(* row block, head block and batch of position x.                          *)
QOf(x) == LET p == Params(x.b)
          IN IF x.s < p.sNum - 1 THEN Q_TILE_CEIL
             ELSE (p.q - x.s * Q_TILE_CEIL) * p.nTile
BlockCost(x) == LET p == Params(x.b)
                IN QOf(x) * (IF x.k < p.kNum - 1 THEN MAX_KV_STACK_LEN ELSE p.kTail)
RowCost(x) == QOf(x) * Params(x.b).kv
SlipHeadCost(x) == LET p == Params(x.b) IN U32(p.q * p.kv)
HeadCost(x) == LET p == Params(x.b)
               IN U32((p.q * p.nTile - x.s * Q_TILE_CEIL) * p.kv)
BatchCost(x) == LET p == Params(x.b)
                IN U32((p.q * (shape.heads - p.nTile * x.n) - x.s * Q_TILE_CEIL) * p.kv)

NextBlock(x) == [x EXCEPT !.k = @ + 1]
NextRow(x) == Pos(x.b, x.n, x.s + 1, 0)
NextHead(x) == Pos(x.b, x.n + 1, 0, 0)
NextBatch(x) == Pos(x.b + 1, 0, 0, 0)

(* A range may not end before the first block of a tile: it then ends at   *)
(* the end of the tile before.                                             *)
RangeEnd(x) ==
  CASE x.k # 0 -> x
    [] x.k = 0 /\ x.s > 0 -> Pos(x.b, x.n, x.s - 1, Params(x.b).kNum)
    [] x.k = 0 /\ x.s = 0 /\ x.n > 0 ->
         Pos(x.b, x.n - 1, Params(x.b).sNum - 1, Params(x.b).kNum)
    [] OTHER -> EndOf(x.b - 1)

-----------------------------------------------------------------------------
(* Actions: one per iteration of each loop, and one per loop's exit. *)

Init ==
  /\ shape \in Shapes
  /\ pc = "dispatch" /\ now = Zero
  /\ core = 0 /\ res = 0
  /\ info = << >> /\ nodes = << >> /\ first = << >> /\ rows = 0

(* splitBN2S1GS2. *)
Dispatch ==
  LET forced  == /\ shape.splits >= 1
                 /\ 0 < TotalSegments
                 /\ TotalSegments <= FaMin(shape.cores, CORE_CAP)
      noSplit == ~forced /\ shape.splits = 1
  IN /\ pc = "dispatch"
     /\ \/ forced /\ info' = ForceSplit /\ pc' = "visit"
        \/ noSplit /\ info' = NoSplit /\ pc' = "visit"
        \/ ~forced /\ ~noSplit /\ info' = info /\ pc' = "core"
     /\ now' = IF forced \/ noSplit THEN info'[1].start ELSE Zero
     /\ UNCHANGED <<shape, core, res, nodes, first, rows>>

(* The range of this core is settled: it starts where it was opened. *)
Close(end) == info' = [info EXCEPT ![core + 1].end = end]

(* finishBatch: the launch is given away; go on to fillSplitInfo. *)
Finish == /\ Close(LastPos)
          /\ pc' = "visit" /\ core' = 0 /\ now' = info[1].start
          /\ UNCHANGED <<shape, res, nodes, first, rows>>

NextCore(next) == /\ pc' = "core" /\ core' = core + 1 /\ now' = next
                  /\ UNCHANGED <<shape, res, nodes, first, rows>>

GoOn(loop, next) == /\ pc' = loop /\ now' = next
                    /\ UNCHANGED <<shape, core, nodes, first, rows>>

OpenCore ==
  /\ pc = "core" /\ core < shape.cores
  /\ info' = Append(info, Work(now, Zero))
  /\ res' = I32(PerCoreTaskNum)
  /\ GoOn("first", now)

SlipFlush ==
  /\ pc = "core" /\ core = shape.cores
  /\ pc' = "visit" /\ core' = 0 /\ now' = info[1].start
  /\ UNCHANGED <<shape, res, info, nodes, first, rows>>

(* The flush: what is left when every core has its budget. *)
Flush ==
  /\ pc = "core" /\ core = shape.cores
  /\ info' = [info EXCEPT ![core].end = LastPos]
  /\ pc' = "visit" /\ core' = 0 /\ now' = info[1].start
  /\ UNCHANGED <<shape, res, nodes, first, rows>>

MoreBlocks == now.k < Params(now.b).kNum /\ res > 0

TakeBlock ==
  /\ pc \in {"first", "block"} /\ MoreBlocks
  /\ res' = I32(res - BlockCost(now))
  /\ info' = info /\ GoOn(pc, NextBlock(now))

(* The blocks left of a tile begun by the core before. *)
LeaveFirst ==
  /\ pc = "first" /\ ~MoreBlocks
  /\ LET next == Carry(now)
     IN \/ /\ next.b = batch_size
           /\ Finish
        \/ /\ next.b < batch_size /\ res <= 0
           /\ Close(now) /\ NextCore(next)
        \/ /\ next.b < batch_size /\ res > 0
           /\ UNCHANGED <<res, info>> /\ GoOn("batch", next)

(* The three middle loops take whole batches, head blocks and row blocks.  *)
(* (The callers' gate gives a head block one row block, so the loop over   *)
(* rows, which then charges what the loop over heads refused, takes none.) *)
More(loop) == CASE loop = "batch" -> now.b < batch_size
                [] loop = "head"  -> now.n < Params(now.b).nNum
                [] loop = "row"   -> now.s < Params(now.b).sNum
Rest(loop) == CASE loop = "batch" -> I32(BatchCost(now))
                [] loop = "head"  -> I32(HeadCost(now))
                [] loop = "row"   -> RowCost(now)
After(loop) == CASE loop = "batch" -> NextBatch(now)
                 [] loop = "head"  -> NextHead(now)
                 [] loop = "row"   -> NextRow(now)
Fits(loop) == More(loop) /\ res > 0 /\ res >= Rest(loop)

TakeWhole(loop) ==
  /\ pc = loop /\ Fits(loop)
  /\ res' = I32(res - Rest(loop))
  /\ info' = info /\ GoOn(loop, After(loop))

LeaveBatch ==
  /\ pc = "batch"
  /\ \/ now.b = batch_size /\ Finish
     \/ /\ now.b < batch_size /\ ~Fits("batch")
        /\ UNCHANGED <<res, info>> /\ GoOn("head", now)

(* A loop's counters are carried as it ends, once more at each loop. *)
Leave(loop) ==
  LET next == Carry(now)
  IN \/ next.b = batch_size /\ Finish
     \/ next.b < batch_size /\ UNCHANGED <<res, info>> /\ GoOn(loop, next)

LeaveHead ==
  /\ pc = "head"
  /\ ~Fits("head")
  /\ Leave("row")

LeaveRow ==
  /\ pc = "row"
  /\ ~Fits("row")
  /\ Leave("block")

LeaveBlock ==
  /\ pc = "block" /\ ~MoreBlocks
  /\ LET next == Carry(now)
     IN \/ next.b = batch_size /\ Finish
        \/ /\ next.b < batch_size
           /\ Close(RangeEnd(now)) /\ NextCore(next)

-----------------------------------------------------------------------------
(* fillSplitInfoForFlashDecode: visit the tiles of every range in turn. *)

SlipNumber(t) ==
  /\ nodes' = Append(nodes, [tile |-> t, headStartIdx |-> HeadStart(t), headEndIdx |-> HeadEnd(t),
                             qStartIdx |-> QStart(t), qEndIdx |-> QEnd(t),
                             splitNum |-> 1, lseTaskOffset |-> rows])
  /\ rows' = rows + RowsOf(t)

(* The parts of one tile are visited one after the other, so a new node is *)
(* opened when the tile is not the one of the last node.                   *)
Number(t) ==
  LET new == nodes = << >> \/ nodes[Len(nodes)].tile # t
      node == [tile |-> t, headStartIdx |-> HeadStart(t), headEndIdx |-> HeadEnd(t),
               qStartIdx |-> QStart(t), qEndIdx |-> QEnd(t),
               splitNum |-> 0, lseTaskOffset |-> rows]
      opened == IF new THEN Append(nodes, node) ELSE nodes
      kept == Len(opened) <= shape.cores + 1
  IN IF kept THEN /\ nodes' = [opened EXCEPT ![Len(opened)].splitNum = @ + 1]
                  /\ rows' = rows + RowsOf(t)
     ELSE UNCHANGED <<nodes, rows>>

Visit ==
  LET t == TileOf(now)
      r == info[core + 1]
      u == Succ(t)
  IN /\ pc = "visit" /\ Before(t, TileOf(r.end))
     /\ IF IsSplit(r, t)
        THEN /\ Number(t)
             /\ first' = IF Len(first) = core THEN Append(first, rows) ELSE first
        ELSE UNCHANGED <<nodes, first, rows>>
     /\ now' = Pos(u[1], u[2], u[3], 0)
     /\ UNCHANGED <<shape, pc, core, res, info>>

VisitNextCore ==
  /\ pc = "visit" /\ ~Before(TileOf(now), TileOf(info[core + 1].end))
  /\ core' = core + 1
  /\ first' = IF Len(first) = core THEN Append(first, 0) ELSE first
  /\ \/ /\ core + 1 < Len(info)
        /\ now' = info[core + 2].start /\ pc' = pc
     \/ /\ core + 1 = Len(info)
        /\ now' = now /\ pc' = "done"
  /\ UNCHANGED <<shape, res, info, nodes, rows>>

Plan == \/ Dispatch \/ OpenCore \/ Flush \/ TakeBlock \/ LeaveFirst
        \/ \E loop \in {"batch", "head", "row"} : TakeWhole(loop)
        \/ LeaveBatch \/ LeaveHead \/ LeaveRow \/ LeaveBlock
        \/ Visit \/ VisitNextCore
Stop == pc = "done" /\ UNCHANGED planVars
Next == Plan \/ Stop
Spec == Init /\ [][Next]_planVars

needCoreNum == Len(info)
totalSplitNodeNum == FaMin(Len(nodes), shape.cores)

-----------------------------------------------------------------------------
Covers(c, t) == Before(TileOf(info[c].start), t) /\ Before(t, TileOf(info[c].end))
BlocksOf(c, t) ==
  IF Covers(c, t) THEN PieceStart(info[c], t) .. PieceEnd(info[c], t) - 1 ELSE {}

(* Every K/V block of every tile goes to exactly one core: none is lost at *)
(* a core boundary (the reason of the flush) and none is attended twice.   *)
EveryBlockOnce ==
  pc = "done" =>
    \A t \in Tiles : \A k \in 0 .. Params(t[1]).kNum - 1 :
      Cardinality({c \in 1 .. Len(info) : k \in BlocksOf(c, t)}) = 1

(* No core is sent to a tile that has keys without being given one of its  *)
(* blocks: the kernel would take the tile for an empty one and clear the   *)
(* output rows that another core computes.                                 *)
NoEmptyVisit ==
  pc = "done" =>
    \A c \in 1 .. Len(info), t \in Tiles :
      Covers(c, t) /\ Params(t[1]).kNum > 0 => BlocksOf(c, t) # {}

(* The reservation made without knowing the lengths (flash_api.cpp 526):   *)
(* two partial tiles per core, or one boundary per group and core.         *)
WithinReservation ==
  rows <= Q_TILE_CEIL * FaMin(2 * shape.cores, batch_size * shape.headsK + shape.cores - 1)

(* The cut tiles fit the table of the combine step, which would drop the   *)
(* rest in silence, and each has as many parts as cores have a part of it. *)
NodesComplete ==
  pc = "done" =>
    /\ Len(nodes) <= shape.cores
    /\ \A t \in Tiles :
         LET parts == {c \in 1 .. Len(info) : Covers(c, t) /\ IsSplit(info[c], t)}
             its   == {i \in 1 .. Len(nodes) : nodes[i].tile = t}
         IN IF parts = {} THEN its = {}
            ELSE \E i \in its : its = {i} /\ nodes[i].splitNum = Cardinality(parts)

(* What a core has to do, in (query row, key) pairs. *)
LoadOf(c) ==
  LET keys(t) == FaMin(PieceEnd(info[c], t) * MAX_KV_STACK_LEN, Params(t[1]).kv)
                   - PieceStart(info[c], t) * MAX_KV_STACK_LEN
  IN MapThenSumSet(LAMBDA t : RowsOf(t) * keys(t), {t \in Tiles : Covers(c, t)})

(* The split is even: no core has more than its share and one block of     *)
(* rows.  (Without appended keys, and head blocks of one size: the budget  *)
(* charges a last, smaller head block as a whole one.)                     *)
EvenLoad ==
  /\ pc = "done" /\ shape.splits = 0 /\ shape.new = 0
  /\ \A b \in Batches : Group % Params(b).nTile = 0
  => \A c \in 1 .. Len(info) :
       LoadOf(c) < PerCoreTaskNum + Q_TILE_CEIL * MAX_KV_STACK_LEN

(* Every tile without keys is visited, so that its output is cleared.      *)
EmptyTilesInitialised ==
  pc = "done" =>
    \A t \in Tiles : Params(t[1]).kNum = 0 => \E c \in 1 .. Len(info) : Covers(c, t)

=============================================================================
