------------------------------ MODULE KvRange ------------------------------
(***************************************************************************)
(* Which keys each query row attends to (runMainLoop of                    *)
(* mha_fwd_kvcache.cpp, with the masks of online_softmax.hpp and the       *)
(* clearing of rescale_o.hpp).                                             *)
(*                                                                         *)
(* One sequence of a batch is cut into tiles of Q_TILE_CEIL query rows.    *)
(* For each tile the kernel works out the range of K/V blocks that some of *)
(* its rows may see, walks it (the blocks of the cache, then those of the  *)
(* new keys, which it also writes back to the cache), masks the blocks the *)
(* edge of the causal triangle or of the window runs through, and at the   *)
(* end clears the rows that see no key.  With flash-decode a tile is       *)
(* walked in parts, each with its own slice of the range.                  *)
(*                                                                         *)
(* A stack is one step: FwdPipeline models how its operations overlap.  A  *)
(* softmax weight is modelled by whether it is zero: masked scores are     *)
(* -3e38, so they weigh nothing beside a score that is not masked, and all *)
(* the same in a row that has no other.                                    *)
(*                                                                         *)
(* The definitions named Slip... are slips used to check the properties;   *)
(* nothing else refers to them.                                            *)
(***************************************************************************)
EXTENDS Integers, FiniteSets

CONSTANTS
  Q_TILE_CEIL,        \* query rows of a tile (128)
  MAX_KV_STACK_LEN,   \* keys of a block (512)
  WORD,               \* the number of values of an unsigned word (2^32)
  Sequences,          \* the sequences and masks to run
  Unset               \* no value yet: of an output row, of a cache row

VARIABLES
  seq,     \* the sequence (q, kv, new, causal, left, right, maxQ, maxK, bIdx)
           \* and whether its launch takes its ranges from a plan (decode)
  cuts,    \* flash-decode: the block indices its blocks are cut at
  pc,      \* of the task: "begin", "walk", "end"; "done" after the last one
  tile,    \* qSBlockIdx
  st,      \* stS2IdxNow
  kvSIdx,  \* the block the walk is at
  seen,    \* the keys loaded for the tile
  scored,  \* <<token, key>>: the scores of the tile that are not masked
  read,    \* rows of the cache that were read
  cache,   \* what each row of the cache holds: a key
  out      \* of each query row: the keys it was computed from
vars == <<seq, cuts, pc, tile, st, kvSIdx, seen, scored, read, cache, out>>

CeilDiv(a, b) == (a + b - 1) \div b
AtMost(a, b) == IF a < b THEN a ELSE b
AtLeast(a, b) == IF a < b THEN b ELSE a
U32(n) == n % WORD

(* The mask as the host passes it on: an open side is -1. *)
WindowOf(s) ==
  [left |-> IF s.left < 0 \/ (s.maxK > 0 /\ s.left >= s.maxK - 1) THEN -1 ELSE s.left,
   right |-> IF s.causal THEN 0
             ELSE IF s.right < 0 \/ (s.maxQ > 0 /\ s.right >= s.maxQ - 1) THEN -1 ELSE s.right]
isLocal(s) == WindowOf(s).left >= 0 \/ WindowOf(s).right > 0
Window == WindowOf(seq)
maskType == IF Window.left < 0 /\ Window.right = 0 THEN 1
            ELSE IF Window.left >= 0 \/ Window.right >= 0 THEN 2 ELSE 0

FLASH_DECODE_FLAG == seq.decode
qSeqlen == seq.q
kvSeqlen == seq.kv + seq.new
kvSeqlenOld == seq.kv
appendKVFlag == seq.new # 0
curQSBlockNum == CeilDiv(qSeqlen, Q_TILE_CEIL)
kvBlocks(n) == CeilDiv(n, MAX_KV_STACK_LEN)
curKSBlockNum == IF appendKVFlag THEN kvBlocks(kvSeqlenOld) + kvBlocks(seq.new)
                 ELSE kvBlocks(kvSeqlen)
qBlockBase == tile * Q_TILE_CEIL
qSBlockSize == IF tile = curQSBlockNum - 1 THEN qSeqlen - qBlockBase ELSE Q_TILE_CEIL
diffS == kvSeqlen - qSeqlen

(* What the kernel is made for: the lengths the host goes by, where it     *)
(* knows them, are bounds of this sequence's; there are no new keys with a *)
(* window; and a plan is only for sequences of one tile without a window.  *)
SequencesAssumption ==
  \A s \in Sequences :
    /\ s.q \in Nat \ {0} /\ {s.kv, s.new, s.bIdx, s.maxQ, s.maxK} \subseteq Nat
    /\ s.left \in Int /\ s.right \in Int /\ s.causal \in BOOLEAN /\ s.decode \in BOOLEAN
    /\ s.q <= s.maxQ \/ s.maxQ = 0
    /\ s.kv + s.new <= s.maxK \/ s.maxK = 0
    /\ s.kv + s.new < WORD
    /\ s.new # 0 \/ s.decode => ~isLocal(s)
    /\ s.decode => s.q <= Q_TILE_CEIL

(* The window: the key its left (right) edge is at in the first row of the *)
(* tile, and one past the last row's; whether a side is open.              *)
notPreMask == Window.left < 0 \/ Window.left >= kvSeqlen - 1
notNextMask == Window.right < 0 \/ Window.right >= qSeqlen - 1
windowSizeLeftStartLen == qBlockBase + diffS - Window.left
windowSizeLeftEndLen == windowSizeLeftStartLen + qSBlockSize
windowSizeRightStartLen == qBlockBase + diffS + Window.right
windowSizeRightEndLen == windowSizeRightStartLen + qSBlockSize

Clip(n) == AtMost(kvSeqlen, AtLeast(0, n))

SlipNoSkipKvS == IF maskType = 2 /\ ~notNextMask THEN Clip(windowSizeRightStartLen)
                 ELSE kvSeqlen
noSkipKvS ==
  CASE maskType = 1 -> Clip((tile + 1) * Q_TILE_CEIL + diffS)
    [] maskType = 2 /\ ~notNextMask -> Clip(windowSizeRightEndLen)
    [] OTHER -> kvSeqlen
winKvStart == IF maskType = 2 /\ ~notPreMask
              THEN Clip(windowSizeLeftStartLen) \div MAX_KV_STACK_LEN ELSE 0

(* Rows that see no key: a prefix or a suffix of the sequence. *)
invalidSuffixStartRow ==
  IF maskType = 2 /\ ~notPreMask /\ windowSizeLeftEndLen > kvSeqlen
  THEN AtMost(qSeqlen, AtLeast(0, kvSeqlen - (diffS - Window.left))) ELSE 0
invalidPrefixEndRow ==
  CASE maskType = 1 /\ qSeqlen > kvSeqlen -> qSeqlen - kvSeqlen
    [] maskType = 2 /\ ~notNextMask /\ windowSizeRightStartLen < 0 ->
         AtMost(qSeqlen, AtLeast(0, -(diffS + Window.right)))
    [] OTHER -> qSeqlen

(* The blocks of the cache come first, then those of the new keys. *)
kvSLoopNumTotalOld == IF appendKVFlag THEN kvBlocks(AtMost(noSkipKvS, kvSeqlenOld))
                      ELSE kvBlocks(noSkipKvS)
kvStartOld == IF appendKVFlag THEN kvSLoopNumTotalOld ELSE 0
kvLoopNumTotalNew == IF appendKVFlag THEN kvBlocks(seq.new) ELSE 0
winKvEnd == kvSLoopNumTotalOld + kvLoopNumTotalNew

(* The slice of the plan: from st to the next cut. *)
enS2IdxNow == LET later == {c \in cuts : c > st}
              IN IF later = {} THEN curKSBlockNum
                 ELSE CHOOSE c \in later : \A d \in later : c <= d
isSplitKV == FLASH_DECODE_FLAG /\ enS2IdxNow - st > 0 /\ enS2IdxNow - st < curKSBlockNum
kvStart == IF FLASH_DECODE_FLAG THEN AtLeast(st, winKvStart) ELSE winKvStart
SliceEnd == IF FLASH_DECODE_FLAG
            THEN AtMost(IF enS2IdxNow = curKSBlockNum THEN winKvEnd ELSE enS2IdxNow, winKvEnd)
            ELSE winKvEnd
kvEndOld == AtMost(kvSLoopNumTotalOld, SliceEnd)
kvEnd == IF SliceEnd <= kvStartOld THEN kvEndOld ELSE SliceEnd
isEmptyTask == kvStart >= kvEnd

-----------------------------------------------------------------------------
(* The block the walk is at. *)
isAppendBlock == appendKVFlag /\ kvSIdx >= kvStartOld
kvSIdxLocal == IF isAppendBlock THEN kvSIdx - kvStartOld ELSE kvSIdx
copybackBlockIdx == IF maskType = 1 THEN curQSBlockNum - 1 ELSE seq.bIdx % curQSBlockNum
doCopyback == isAppendBlock /\ tile = copybackBlockIdx

SlipOldEnd == noSkipKvS
OldEnd == AtMost(noSkipKvS, kvSeqlenOld)
GetStackSeqTile ==
  IF isAppendBlock
  THEN IF kvSIdxLocal + 1 > kvLoopNumTotalNew - 1
       THEN seq.new - kvSIdxLocal * MAX_KV_STACK_LEN ELSE MAX_KV_STACK_LEN
  ELSE IF kvSIdx + 1 > kvSLoopNumTotalOld - 1
       THEN OldEnd - kvSIdx * MAX_KV_STACK_LEN ELSE MAX_KV_STACK_LEN
stackSeqTile == AtMost(MAX_KV_STACK_LEN, U32(GetStackSeqTile))
Columns == 0 .. stackSeqTile - 1

(* Its first row in the sequence, which for the blocks of the cache is its *)
(* row in the cache, and the key that column c brings in.                  *)
kvSStartIdx == IF isAppendBlock THEN kvSeqlenOld + kvSIdxLocal * MAX_KV_STACK_LEN
               ELSE kvSIdx * MAX_KV_STACK_LEN
kvSEndIdx == kvSStartIdx + stackSeqTile
NewKey(c) == kvSeqlenOld + kvSIdxLocal * MAX_KV_STACK_LEN + c
Key(c) == IF isAppendBlock THEN NewKey(c)
          ELSE IF kvSStartIdx + c \in DOMAIN cache THEN cache[kvSStartIdx + c] ELSE Unset

(* Causal mask: columns up to the diagonal stay. *)
triUp == noSkipKvS - qSBlockSize
doTriUMask == triUp < kvSEndIdx - 1
(* Window: is the edge that starts at a and ends before b in the block? *)
Crosses(a, b) == \/ a >= kvSStartIdx /\ a < kvSEndIdx
                 \/ b > kvSStartIdx /\ b <= kvSEndIdx
                 \/ a <= kvSStartIdx /\ b >= kvSEndIdx
doTriUPreMask == ~notPreMask /\ Crosses(windowSizeLeftStartLen, windowSizeLeftEndLen)
doTriUNextMask == ~notNextMask /\ Crosses(windowSizeRightStartLen, windowSizeRightEndLen)

Keeps(token, c) ==
  CASE maskType = 1 -> doTriUMask => c < triUp - kvSStartIdx + token + 1
    [] maskType = 2 ->
         /\ doTriUNextMask => c < windowSizeRightStartLen - kvSStartIdx + token + 1
         /\ doTriUPreMask => c >= windowSizeLeftStartLen - kvSStartIdx + token
    [] OTHER -> TRUE

-----------------------------------------------------------------------------
Init ==
  /\ seq \in Sequences
  /\ cuts \in IF FLASH_DECODE_FLAG THEN SUBSET (1 .. curKSBlockNum - 1) ELSE {{}}
  /\ tile = 0 /\ st = 0 /\ kvSIdx = 0 /\ seen = {} /\ scored = {} /\ read = {}
  /\ cache = [r \in 0 .. kvSeqlen - 1 |-> IF r < kvSeqlenOld THEN r ELSE Unset]
  /\ out = [r \in 0 .. qSeqlen - 1 |-> Unset]
  /\ pc = "begin"

Tokens == 0 .. qSBlockSize - 1
Row(t) == qBlockBase + t

(* The loop jumps over blocks of the cache that the range leaves out. *)
Jump(k) == IF k < kvEnd /\ k >= kvEndOld /\ k < kvStartOld THEN kvStartOld ELSE k

(* The task is over, having loaded and scored these for the tile: on to    *)
(* the next part of the tile, or to the next tile.                         *)
PartsLeft == FLASH_DECODE_FLAG /\ enS2IdxNow < curKSBlockNum
NextTask(itsSeen, itsScored) ==
  /\ IF PartsLeft
     THEN /\ st' = enS2IdxNow /\ tile' = tile /\ pc' = "begin"
          /\ seen' = itsSeen /\ scored' = itsScored
     ELSE /\ st' = 0 /\ tile' = tile + 1 /\ seen' = {} /\ scored' = {}
          /\ pc' = IF tile + 1 < curQSBlockNum THEN "begin" ELSE "done"
  /\ UNCHANGED <<seq, cuts, kvSIdx, read, cache>>

BeginTask ==
  /\ pc = "begin" /\ ~isEmptyTask
  /\ pc' = "walk" /\ kvSIdx' = Jump(kvStart)
  /\ UNCHANGED <<seq, cuts, tile, st, seen, scored, read, cache, out>>

(* A task without blocks clears its rows.  A part without blocks would     *)
(* leave its partial rows, which the combine step reads, unset.            *)
InitOut ==
  /\ pc = "begin" /\ isEmptyTask
  /\ out' = IF isSplitKV THEN out
            ELSE [r \in DOMAIN out |-> IF \E t \in Tokens : r = Row(t) THEN {} ELSE out[r]]
  /\ NextTask(seen, IF isSplitKV THEN scored \cup Tokens \X {Unset} ELSE scored)

SlipCopyback == {}
Copyback == IF doCopyback THEN Columns ELSE {}

RunStack ==
  /\ pc = "walk"
  /\ seen' = seen \cup {Key(c) : c \in Columns}
  /\ scored' = scored \cup {<<x[1], Key(x[2])>> : x \in {y \in Tokens \X Columns : Keeps(y[1], y[2])}}
  /\ read' = IF isAppendBlock THEN read ELSE read \cup {kvSStartIdx + c : c \in Columns}
  /\ cache' = [r \in DOMAIN cache |-> IF \E c \in Copyback : r = kvSStartIdx + c
                                       THEN NewKey(r - kvSStartIdx) ELSE cache[r]]
  /\ kvSIdx' = Jump(kvSIdx + 1)
  /\ pc' = IF kvSIdx + 1 >= kvEnd THEN "end" ELSE "walk"
  /\ UNCHANGED <<seq, cuts, tile, st, out>>

(* Rows set to zero at the end of a task: flash-decode passes no bounds.   *)
Cleared(r) == /\ ~FLASH_DECODE_FLAG
              /\ IF invalidSuffixStartRow > 0 THEN r >= invalidSuffixStartRow
                 ELSE invalidPrefixEndRow # qSeqlen /\ r < invalidPrefixEndRow

(* The keys that weigh in row t of the tile.                               *)
Weighs(t) == LET its == {x[2] : x \in {y \in scored : y[1] = t}}
             IN IF its = {} THEN seen ELSE its

(* The last stack is done.  The rows of a whole tile are written, those of *)
(* a tile in parts by the combine step, once its last part is done.        *)
Finish ==
  /\ pc = "end"
  /\ out' = IF PartsLeft THEN out
            ELSE [r \in DOMAIN out |->
                    IF r - qBlockBase \notin Tokens THEN out[r]
                    ELSE IF Cleared(r) THEN {} ELSE Weighs(r - qBlockBase)]
  /\ NextTask(seen, scored)

Done == pc = "done" /\ UNCHANGED vars

Next == BeginTask \/ InitOut \/ RunStack \/ Finish \/ Done
Spec == Init /\ [][Next]_vars

-----------------------------------------------------------------------------
(* What is read, scored and stored is a key of the sequence, never what    *)
(* lies beyond its last row, and the walk stays within its blocks.         *)
TypeOK ==
  LET Keys == 0 .. kvSeqlen - 1
  IN /\ pc \in {"begin", "walk", "end", "done"}
     /\ tile \in 0 .. curQSBlockNum /\ st \in 0 .. curKSBlockNum
     /\ kvSIdx \in 0 .. curKSBlockNum
     /\ seen \subseteq Keys /\ scored \subseteq (0 .. Q_TILE_CEIL - 1) \X Keys
     /\ read \subseteq Keys
     /\ cache \in [Keys -> Keys \cup {Unset}]
     /\ DOMAIN out = 0 .. qSeqlen - 1
     /\ \A r \in DOMAIN out : out[r] = Unset \/ out[r] \subseteq Keys

(* The keys row r is to attend to: the mask is aligned to the bottom right *)
(* corner, and the window is the caller's, both ends included.             *)
Visible(r) ==
  {j \in 0 .. kvSeqlen - 1 :
     /\ seq.causal => j <= r + diffS
     /\ seq.left >= 0 => j >= r + diffS - seq.left
     /\ seq.right >= 0 => j <= r + diffS + seq.right}

(* Every row that sees a key is computed from exactly the keys it sees,    *)
(* each read from where it is at the time: no block is left out at the     *)
(* clipped edges of the range, no masked key weighs in, and no row that    *)
(* sees a key is cleared.  Without flash-decode the rows that see none end *)
(* up zero, whether their tile is skipped or only partly visible.          *)
RowsRight ==
  pc = "done" => \A r \in DOMAIN out :
    Visible(r) # {} \/ ~FLASH_DECODE_FLAG => out[r] = Visible(r)

(* "If the row of the mask is all zero, the output will be zero", as       *)
(* flash_attn_npu_3/flash_attn_npu_interface.py 1438 says of any launch.   *)
EveryEmptyRowZero ==
  pc = "done" => \A r \in DOMAIN out : Visible(r) = {} => out[r] = {}

(* After the launch the cache holds every new key in its row, and the old  *)
(* ones where they were: one tile of the sequence writes them back, and it *)
(* walks all their blocks, however little of them it sees.                 *)
CacheUpdated == pc = "done" => \A r \in DOMAIN cache : cache[r] = r

(* No task reads a row of the cache that another task of the launch writes *)
(* (the tasks run on different cores, in no order).                        *)
ReadsSettled == \A r \in read : r < kvSeqlenOld
=============================================================================
