----------------------------- MODULE FusedTasks -----------------------------
(***************************************************************************)
(* How the v2 forward kernel shares a launch over the cores when its keys  *)
(* are neither paged nor appended to (fused_task.h, with operator() of     *)
(* mha_fwd_kvcache.cpp and the counts of flash_api.cpp).  Whole tiles of   *)
(* Q_ROWS query rows are of one head; the rows left over at the end of a   *)
(* sequence are few, so that a tile of them takes several heads, of one    *)
(* K/V head or of several.  Host and kernel both work the shape of a       *)
(* sequence out and have to agree, since the kernel finds the sequence of  *)
(* a task by adding up.                                                    *)
(*                                                                         *)
(* The definitions named Slip... are slips used to check the properties;   *)
(* nothing else refers to them.                                            *)
(***************************************************************************)
EXTENDS Integers, Sequences, FiniteSets, FiniteSetsExt

CONSTANTS
  Q_ROWS,        \* rows of a tile (128)
  BLOCK,         \* the rows of each group take whole blocks of the L1 buffer (16)
  Launches       \* the launches to run

VARIABLES
  launch,   \* of the launch: q, kv (per sequence), group, kvHeads, tnd, coreNum
  core,     \* of each core: taskIdx, the cursor and the shape it goes by
  ran       \* of each core: the tasks it ran, in order
vars == <<launch, core, ran>>

(* What a launch can be: unpacked sequences have one length.               *)
LaunchesAssumption ==
  \A l \in Launches :
    /\ l.q \in Seq(Nat) /\ l.q # << >> /\ l.tnd \in BOOLEAN
    /\ {l.group, l.kvHeads, l.coreNum} \subseteq Nat \ {0}
    /\ ~l.tnd => \A i, k \in DOMAIN l.q : l.q[i] = l.q[k]

CeilDiv(a, b) == (a + b - 1) \div b
AtMost(a, b) == IF a < b THEN a ELSE b

Cores == 0 .. launch.coreNum - 1
Batches == 0 .. Len(launch.q) - 1
QSeqLenOf(b) == launch.q[b + 1]
qHeads == launch.group * launch.kvHeads

-----------------------------------------------------------------------------
(* Heads of a tile of q rows: whole groups, or a part of one group that    *)
(* divides it; as many as fit, with their groups in whole blocks, into the *)
(* tile, and on the larger side of the cut between the vectors into half.  *)
SlipNCap(q, nCap) == AtMost(nCap, Q_ROWS \div q)
HeadCap(q, nCap) == AtMost(nCap, Q_ROWS \div (CeilDiv(q, BLOCK) * BLOCK))
WholeGroups(t) == t % launch.group = 0 \/ launch.group % t = 0
HalfFits(t, q) == t = 1 \/ CeilDiv(t, 2) * q <= Q_ROWS \div 2
LargestTile(q, nCap) ==
  Max({1} \cup {t \in 1 .. HeadCap(q, nCap) : WholeGroups(t) /\ HalfFits(t, q)})

(* The groups are spread evenly over the tasks they need.                  *)
SlipBalanced(tile) == CeilDiv(qHeads, CeilDiv(qHeads, tile))
Balanced(tile) ==
  LET groups == tile \div launch.group
  IN IF groups > 0 /\ launch.kvHeads > groups
     THEN AtMost(tile, CeilDiv(launch.kvHeads, CeilDiv(launch.kvHeads, groups)) * launch.group)
     ELSE tile
HeadTile(q, nCap) == Balanced(LargestTile(q, nCap))

(* MakeTaskShape: the tasks of a sequence of q rows.                       *)
tailRows(q) == q % Q_ROWS
nCap == IF Len(launch.q) >= launch.coreNum THEN qHeads ELSE launch.group
normTasks(q) == (q \div Q_ROWS) * qHeads
TailTile(q) == HeadTile(tailRows(q), nCap)
FewTails(q, fixedLayout) ==
  fixedLayout /\ launch.group = 1 /\ normTasks(q) + CeilDiv(qHeads, TailTile(q)) <= launch.coreNum + 2
tailHeadTile(q, fixedLayout) ==
  CASE tailRows(q) = 0 -> 1
    [] tailRows(q) # 0 /\ FewTails(q, fixedLayout) -> AtMost(TailTile(q), 2)
    [] OTHER -> TailTile(q)
MakeTaskShape(q, fixedLayout) ==
  LET tile == tailHeadTile(q, fixedLayout)
  IN [normQBlocks |-> q \div Q_ROWS, normTasks |-> normTasks(q), tailHeadTile |-> tile,
      totalTasks |-> normTasks(q) + (IF tailRows(q) = 0 THEN 0 ELSE CeilDiv(qHeads, tile))]

-----------------------------------------------------------------------------
(* The host.  When the rows of all sequences add up to as many times the   *)
(* longest it counts one sequence for all.                                 *)
ShapeOf(q) == MakeTaskShape(q, ~launch.tnd)
totalBefore[b \in Nat] == IF b = 0 THEN 0 ELSE totalBefore[b - 1] + ShapeOf(QSeqLenOf(b - 1)).totalTasks
rowsBefore[b \in Nat] == IF b = 0 THEN 0 ELSE rowsBefore[b - 1] + QSeqLenOf(b - 1)
uniformQ == rowsBefore[Len(launch.q)] = Len(launch.q) * Max({QSeqLenOf(b) : b \in Batches})
totalTaskNum ==
  IF launch.tnd /\ uniformQ
  THEN ShapeOf(Max({QSeqLenOf(b) : b \in Batches})).totalTasks * Len(launch.q)
  ELSE totalBefore[Len(launch.q)]
firstBatchTaskNum == ShapeOf(QSeqLenOf(0)).totalTasks

NoBatch == -1   \* cachedBatch before the first task

Init ==
  /\ launch \in Launches
  /\ core = [c \in Cores |->
               [taskIdx |-> c, curBatch |-> 0, preTotal |-> 0, curTotal |-> firstBatchTaskNum,
                cachedBatch |-> NoBatch, shape |-> ShapeOf(QSeqLenOf(0))]]
  /\ ran = [c \in Cores |-> << >>]

Walks(c) == core[c].taskIdx < totalTaskNum

(* One round of the cursor: on to the next sequence.                       *)
NextBatch(c) ==
  LET w == core[c]
      b == w.curBatch + 1
  IN /\ Walks(c) /\ w.taskIdx >= w.curTotal
     /\ core' = [core EXCEPT ![c] = [w EXCEPT !.curBatch = b, !.preTotal = w.curTotal,
                                              !.curTotal = w.curTotal + ShapeOf(QSeqLenOf(b)).totalTasks]]
     /\ UNCHANGED <<launch, ran>>

(* Packed sequences have lengths, and shapes, of their own.                *)
SlipRefresh(w) == launch.tnd /\ w.cachedBatch = NoBatch
Refresh(w) == launch.tnd /\ w.curBatch # w.cachedBatch
Cached(w) ==
  [w EXCEPT !.shape = IF Refresh(w) THEN ShapeOf(QSeqLenOf(w.curBatch)) ELSE w.shape,
            !.cachedBatch = w.curBatch]

(* The block of rows and of heads of a task, after the shape it goes by.   *)
Place(w) ==
  LET i == w.taskIdx - w.preTotal
  IN IF i < w.shape.normTasks
     THEN [qSBlockIdx |-> i \div qHeads, qNBlockIdx |-> i % qHeads, headTile |-> 1]
     ELSE [qSBlockIdx |-> w.shape.normQBlocks, qNBlockIdx |-> i - w.shape.normTasks,
           headTile |-> w.shape.tailHeadTile]

(* Its tile, with the length of its sequence looked up again, and the      *)
(* segments of the tile: one group, or part of one, each.                  *)
Tile(w) ==
  LET p == Place(w)
      q == QSeqLenOf(w.curBatch)
      qNStartIdx == p.qNBlockIdx * p.headTile
  IN [b |-> w.curBatch, qSBlockIdx |-> p.qSBlockIdx,
      qSBlockSize |-> IF p.qSBlockIdx = CeilDiv(q, Q_ROWS) - 1 THEN q - p.qSBlockIdx * Q_ROWS ELSE Q_ROWS,
      kvNIdx |-> qNStartIdx \div launch.group, qNStartIdx |-> qNStartIdx,
      qNBlockSize |-> AtMost(p.headTile, qHeads - qNStartIdx),
      drain |-> w.taskIdx + launch.coreNum >= totalTaskNum]
segN(t) == AtMost(t.qNBlockSize, launch.group)
segNum(t) == CeilDiv(t.qNBlockSize, segN(t))
segL1Stride(t) == CeilDiv(t.qSBlockSize * segN(t), BLOCK) * BLOCK

RunTask(c) ==
  /\ Walks(c) /\ core[c].taskIdx < core[c].curTotal
  /\ LET w == Cached(core[c])
     IN /\ ran' = [ran EXCEPT ![c] = Append(@, Tile(w))]
        /\ core' = [core EXCEPT ![c] = [w EXCEPT !.taskIdx = w.taskIdx + launch.coreNum]]
  /\ UNCHANGED launch

AllDone == \A c \in Cores : ~Walks(c)
Terminated == AllDone /\ UNCHANGED vars

Next == (\E c \in Cores : NextBatch(c) \/ RunTask(c)) \/ Terminated
Spec == Init /\ [][Next]_vars

-----------------------------------------------------------------------------
Ran == UNION {{<<c, i>> : i \in DOMAIN ran[c]} : c \in Cores}
Task(x) == ran[x[1]][x[2]]

(* The cursor of a core is where its sequence is, and so is the shape it   *)
(* goes by once it has run a task of that sequence.                        *)
CursorRight ==
  \A c \in Cores :
    LET w == core[c]
    IN /\ w.taskIdx \in 0 .. totalTaskNum + launch.coreNum - 1
       /\ w.curBatch \in Batches
       /\ w.preTotal = totalBefore[w.curBatch] /\ w.curTotal = totalBefore[w.curBatch + 1]
       /\ w.cachedBatch = w.curBatch => w.shape = ShapeOf(QSeqLenOf(w.curBatch))

(* Every query row of every head is in one segment of one task, and that   *)
(* segment is multiplied with the head's own K/V head.                     *)
SegmentOf(t, head) == (head - t.qNStartIdx) \div segN(t)
Holds(t, b, head, token) ==
  /\ t.b = b /\ head \in t.qNStartIdx .. t.qNStartIdx + t.qNBlockSize - 1
  /\ token - t.qSBlockIdx * Q_ROWS \in 0 .. t.qSBlockSize - 1
EveryRowOnce ==
  AllDone =>
    \A b \in Batches : \A head \in 0 .. qHeads - 1 : \A token \in 0 .. QSeqLenOf(b) - 1 :
      LET its == {x \in Ran : Holds(Task(x), b, head, token)}
      IN /\ Cardinality(its) = 1
         /\ \A x \in its : Task(x).kvNIdx + SegmentOf(Task(x), head) = head \div launch.group

(* The segments of a tile are of one size and fit the L1 buffer of Q, and  *)
(* the larger vector share half of the rows; evening the groups out did    *)
(* not take more tasks than the largest tiles.                             *)
Share(t) == IF t.qNBlockSize = 1 THEN t.qSBlockSize \div 2
            ELSE t.qSBlockSize * (t.qNBlockSize \div 2)
NoMoreTasks(q) ==
  LET largest == LargestTile(q, nCap)
  IN CeilDiv(qHeads, HeadTile(q, nCap)) = CeilDiv(qHeads, largest)
RowsFit ==
  /\ \A x \in Ran :
       LET t == Task(x)
           rows == t.qSBlockSize * t.qNBlockSize
       IN /\ segNum(t) * segN(t) = t.qNBlockSize
          /\ segNum(t) * segL1Stride(t) <= Q_ROWS
          /\ rows - Share(t) <= Q_ROWS \div 2
  /\ \A b \in Batches : tailRows(QSeqLenOf(b)) # 0 => NoMoreTasks(tailRows(QSeqLenOf(b)))

(* A core drains its pipeline with its last task and no other.             *)
DrainsLast ==
  \A c \in Cores : \A i \in DOMAIN ran[c] :
    ran[c][i].drain <=> i = Len(ran[c]) /\ ~Walks(c)
=============================================================================
