------------------------------ MODULE TaskWalk ------------------------------
(***************************************************************************)
(* How a launch without flash-decode shares its tiles over the cores       *)
(* (operator() of mha_fwd_kvcache.cpp, with the counts of flash_api.cpp).  *)
(*                                                                         *)
(* The host numbers the tiles of all sequences and passes how many there   *)
(* are, and how many the first sequence has.  Core c takes every coreNum'th *)
(* number from c on and turns it back into a tile: a cursor that only      *)
(* moves forward finds the sequence, whose lengths it keeps, and division  *)
(* finds the block of query rows and the block of heads.  The tiles of a   *)
(* core are the task list that FwdPipeline runs.                           *)
(*                                                                         *)
(* The definitions named Slip... are slips used to check the properties;   *)
(* nothing else refers to them.                                            *)
(***************************************************************************)
EXTENDS Integers, Sequences, FiniteSets

CONSTANTS
  Q_TILE_CEIL,     \* query rows of a tile (128)
  Launches         \* the launches to run

VARIABLES
  launch,   \* of the launch: q, kv (per sequence), new, group, kvHeads, causal, coreNum
  core,     \* of each core: taskIdx and the cursor
  ran       \* of each core: the tasks it ran, in order
vars == <<launch, core, ran>>

(* What a launch can be: a number of query rows and of keys for each of    *)
(* its sequences.                                                          *)
LaunchesAssumption ==
  \A l \in Launches :
    /\ l.q \in Seq(Nat) /\ l.q # << >> /\ l.kv \in Seq(Nat) /\ Len(l.kv) = Len(l.q)
    /\ l.new \in Nat /\ {l.group, l.kvHeads, l.coreNum} \subseteq Nat \ {0}

CeilDiv(a, b) == (a + b - 1) \div b
AtMost(a, b) == IF a < b THEN a ELSE b
AtLeast(a, b) == IF a < b THEN b ELSE a

Cores == 0 .. launch.coreNum - 1
Batches == 0 .. Len(launch.q) - 1
QSeqLenOf(b) == launch.q[b + 1]
KvSeqLenOf(b) == launch.kv[b + 1]

SlipOddTile(q) ==
  AtLeast(1, AtMost(launch.group, IF q # 0 THEN Q_TILE_CEIL \div q ELSE Q_TILE_CEIL))
(* Heads of a tile. *)
GetQNBlockTile(q) ==
  AtLeast(1, AtMost(launch.group, IF q # 0 THEN ((Q_TILE_CEIL \div q) \div 2) * 2
                                  ELSE Q_TILE_CEIL))
qNBlockNumPerGroup(q) == CeilDiv(launch.group, GetQNBlockTile(q))
curQNBlockNum(q) == qNBlockNumPerGroup(q) * launch.kvHeads
curQSBlockNum(q) == CeilDiv(q, Q_TILE_CEIL)
curTaskNum(q) == curQNBlockNum(q) * curQSBlockNum(q)

(* The host. *)
totalBefore[b \in Nat] == IF b = 0 THEN 0 ELSE totalBefore[b - 1] + curTaskNum(QSeqLenOf(b - 1))
totalTaskNum == totalBefore[Len(launch.q)]
firstBatchTaskNum == curTaskNum(QSeqLenOf(0))

NoBatch == -1   \* cachedBatch before the first task

Init ==
  /\ launch \in Launches
  /\ core = [c \in Cores |->
               [taskIdx |-> c, curBatch |-> 0, preTotal |-> 0, curTotal |-> firstBatchTaskNum,
                cachedBatch |-> NoBatch, qSeqlen |-> QSeqLenOf(0), kvSeqlen |-> 0,
                curQNBlockNum |-> 0]]
  /\ ran = [c \in Cores |-> << >>]

Walks(c) == core[c].taskIdx < totalTaskNum

(* One round of the cursor: on to the next sequence. *)
SlipPreTotal(w) == w.preTotal
PreTotal(w) == w.curTotal
NextBatch(c) ==
  LET w == core[c]
      b == w.curBatch + 1
      q == QSeqLenOf(b)
  IN /\ Walks(c) /\ w.taskIdx >= w.curTotal
     /\ core' = [core EXCEPT ![c] = [w EXCEPT !.curBatch = b, !.preTotal = PreTotal(w),
                                              !.qSeqlen = q,
                                              !.curTotal = w.curTotal + curTaskNum(q)]]
     /\ UNCHANGED <<launch, ran>>

(* The lengths are worked out again when the sequence has changed. *)
SlipRefresh(w) == w.cachedBatch = NoBatch
Refresh(w) == w.curBatch # w.cachedBatch
Cached(w) == IF Refresh(w)
             THEN [w EXCEPT !.kvSeqlen = KvSeqLenOf(w.curBatch) + launch.new,
                            !.curQNBlockNum = curQNBlockNum(w.qSeqlen),
                            !.cachedBatch = w.curBatch]
             ELSE w

SlipDrains(w) == w.taskIdx + 1 >= totalTaskNum
pipelineDrain(w) == w.taskIdx + launch.coreNum >= totalTaskNum

(* The tile of a task: its first head and row, how many heads and rows.    *)
Tile(w) ==
  LET i == w.taskIdx - w.preTotal
      qNTile == GetQNBlockTile(w.qSeqlen)
      perGroup == qNBlockNumPerGroup(w.qSeqlen)
      qSBlockIdx == i \div w.curQNBlockNum
      qNBlockIdx == i - qSBlockIdx * w.curQNBlockNum
      inGroup == qNBlockIdx % perGroup
      kvNIdx == qNBlockIdx \div perGroup
  IN [b |-> w.curBatch, q |-> w.qSeqlen, kv |-> w.kvSeqlen, kvHead |-> kvNIdx, qSBlockIdx |-> qSBlockIdx,
      qNStartIdx |-> kvNIdx * launch.group + inGroup * qNTile,
      qNBlockSize |-> IF inGroup = perGroup - 1 THEN launch.group - inGroup * qNTile ELSE qNTile,
      qSBlockSize |-> IF qSBlockIdx = curQSBlockNum(w.qSeqlen) - 1
                      THEN w.qSeqlen - qSBlockIdx * Q_TILE_CEIL ELSE Q_TILE_CEIL,
      drain |-> pipelineDrain(w)]

RunTask(c) ==
  /\ Walks(c) /\ core[c].taskIdx < core[c].curTotal
  /\ LET w == Cached(core[c])
     IN /\ ran' = [ran EXCEPT ![c] = Append(@, Tile(w))]
        /\ core' = [core EXCEPT ![c] = [w EXCEPT !.taskIdx = w.taskIdx + launch.coreNum]]
  /\ UNCHANGED launch

AllDone == \A c \in Cores : ~Walks(c)
Terminated == AllDone /\ UNCHANGED vars

Next == (\E c \in Cores : NextBatch(c) \/ RunTask(c)) \/ Terminated
Spec == Init /\ [][Next]_vars

-----------------------------------------------------------------------------
Ran == UNION {{<<c, i>> : i \in DOMAIN ran[c]} : c \in Cores}
Task(x) == ran[x[1]][x[2]]

(* The cursor of a core is where its sequence is: the two totals are those *)
(* before and after it, and the length it goes by is the sequence's.       *)
CursorRight ==
  \A c \in Cores :
    LET w == core[c]
    IN /\ w.taskIdx \in 0 .. totalTaskNum + launch.coreNum - 1
       /\ w.curBatch \in Batches /\ w.cachedBatch \in Batches \cup {NoBatch}
       /\ w.preTotal = totalBefore[w.curBatch] /\ w.curTotal = totalBefore[w.curBatch + 1]
       /\ w.qSeqlen = QSeqLenOf(w.curBatch)
       /\ w.kvSeqlen \in Nat /\ w.curQNBlockNum \in Nat
       /\ Len(ran[c]) <= totalTaskNum

(* Every query row of every head is in exactly one task of one core, and   *)
(* that task knows the lengths of its sequence: the cursor, the numbers of *)
(* the host and the divisions agree, also around sequences without rows.   *)
Holds(t, b, head, token) ==
  /\ t.b = b /\ head \in t.qNStartIdx .. t.qNStartIdx + t.qNBlockSize - 1
  /\ token - t.qSBlockIdx * Q_TILE_CEIL \in 0 .. t.qSBlockSize - 1
EveryRowOnce ==
  AllDone =>
    \A b \in Batches : \A head \in 0 .. launch.group * launch.kvHeads - 1 :
      \A token \in 0 .. QSeqLenOf(b) - 1 :
        LET its == {x \in Ran : Holds(Task(x), b, head, token)}
        IN /\ Cardinality(its) = 1
           /\ \A x \in its : /\ Task(x).q = QSeqLenOf(b)
                             /\ Task(x).kv = KvSeqLenOf(b) + launch.new
                             /\ Task(x).kvHead = head \div launch.group

(* A tile fits its workspace slot, and each vector engine's share of it,   *)
(* cut between heads (or rows, if it is one head), half of one.            *)
Share(t) == IF t.qNBlockSize = 1 THEN t.qSBlockSize \div 2
            ELSE t.qSBlockSize * (t.qNBlockSize \div 2)
RowsFit ==
  \A x \in Ran : LET rows == Task(x).qSBlockSize * Task(x).qNBlockSize
                 IN /\ Share(Task(x)) <= Q_TILE_CEIL \div 2
                    /\ rows - Share(Task(x)) <= Q_TILE_CEIL \div 2

(* A core drains its pipeline with its last task and no other, so that     *)
(* every stack it issued gets its second half (FwdPipeline's Drain).       *)
DrainsLast ==
  \A c \in Cores : \A i \in DOMAIN ran[c] :
    ran[c][i].drain <=> i = Len(ran[c]) /\ ~Walks(c)

(* The documented effect of passing new keys: the cache is updated, of     *)
(* every sequence.  One tile of each K/V head writes them back.            *)
copybackBlockIdx(t) == IF launch.causal THEN curQSBlockNum(t.q) - 1
                       ELSE t.b % curQSBlockNum(t.q)
CacheUpdatedByEvery ==
  AllDone /\ launch.new # 0 =>
    \A b \in Batches : \A h \in 0 .. launch.kvHeads - 1 :
      \E x \in Ran : /\ Task(x).b = b /\ Task(x).kvHead = h
                     /\ Task(x).qSBlockIdx = copybackBlockIdx(Task(x))
=============================================================================
