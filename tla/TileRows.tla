------------------------------ MODULE TileRows ------------------------------
(***************************************************************************)
(* Where the rows of a finished tile go (rescale_o.hpp).                   *)
(*                                                                         *)
(* The rows of a tile are ordered head by head.  The two vector engines of *)
(* a core share them: between heads, or between query rows if the tile has *)
(* one head.  Each works through its share in loops of rowNumTile rows,    *)
(* which need not end where a head ends, and copies the rows of a loop out *)
(* as the rest of a head, whole heads, and the beginning of a head.  Rows  *)
(* that see no key are set to zero before the copy.  With its last loop it *)
(* writes the log-sum-exp of its whole share.  The rows of a tile that was *)
(* cut go to the workspace in another order: query row by query row.       *)
(*                                                                         *)
(* A row's place is counted in rows of one head.  (Slip... as in KvRange.) *)
(***************************************************************************)
EXTENDS Integers, FiniteSets

CONSTANTS
  VECTOR_SIZE,   \* query rows of a tile (128)
  Tiles          \* the tiles to write

VARIABLES
  tile,      \* qSeqlen, qSBlockIdx, n (qNBlockSize), rowNumTile, prefix, suffix (invalid rows),
             \* isSplitkv, qHeads, lseHeadStride
  rowLoopIdx,\* of each vector engine
  o, lse     \* place -> the row written there, and whether it was cleared
vars == <<tile, rowLoopIdx, o, lse>>

(* Tiles as the walk of the cores makes them: several heads only with the  *)
(* whole sequence, which then fits a tile; heads and tokens of the output  *)
(* are as far apart as there are of the others.  The rows to clear are the *)
(* first ones or the last; flash-decode, which cuts tiles, passes none.    *)
RowsAssumption ==
  /\ VECTOR_SIZE \in Nat \ {0}
  /\ \A t \in Tiles :
       /\ {t.qSeqlen, t.n, t.rowNumTile} \subseteq Nat \ {0}
       /\ {t.qSBlockIdx, t.prefix, t.suffix, t.qHeads, t.lseHeadStride} \subseteq Nat
       /\ t.isSplitkv \in BOOLEAN
       /\ t.qSBlockIdx * VECTOR_SIZE < t.qSeqlen
       /\ t.n > 1 => t.qSBlockIdx = 0 /\ t.qSeqlen <= VECTOR_SIZE
       /\ t.n <= t.qHeads /\ t.qSeqlen <= t.lseHeadStride
       /\ t.suffix = 0 \/ t.prefix = t.qSeqlen
       /\ t.isSplitkv => t.suffix = 0 /\ t.prefix = t.qSeqlen

AtMost(a, b) == IF a < b THEN a ELSE b
AtLeast(a, b) == IF a < b THEN b ELSE a
CeilDiv(a, b) == (a + b - 1) \div b

Vectors == 0 .. 1
n == tile.n
qBlockStart == tile.qSBlockIdx * VECTOR_SIZE
qSBlockSize == AtMost(VECTOR_SIZE, tile.qSeqlen - qBlockStart)
rowNum == qSBlockSize * n

(* MakeTaskPlan. *)
qNSplitSubBlock == n \div 2
qNThisSubBlock(v) == IF n = 1 THEN 0 ELSE IF v = 1 THEN n - qNSplitSubBlock ELSE qNSplitSubBlock
inRowSplitSubBlock == IF n = 1 THEN qSBlockSize \div 2 ELSE qSBlockSize * qNSplitSubBlock
totalRowNum(v) == IF v = 1 THEN rowNum - inRowSplitSubBlock ELSE inRowSplitSubBlock
inRowOffsetThisSubBlock(v) == v * inRowSplitSubBlock
qSThisSubBlock(v) == IF n = 1 THEN totalRowNum(v) ELSE qSBlockSize
rowLoop(v) == CeilDiv(totalRowNum(v), tile.rowNumTile)

(* Places: how far apart rows of a head, and heads, are; where a vector    *)
(* engine's share starts.                                                  *)
oStride == IF tile.isSplitkv THEN n ELSE tile.qHeads
oBase(v) == IF n = 1 THEN inRowOffsetThisSubBlock(v) * oStride ELSE v * qNSplitSubBlock
lseTokenStride == IF tile.isSplitkv THEN n ELSE 1
lseHeadStride == IF tile.isSplitkv THEN 1 ELSE tile.lseHeadStride
lseBase(v) == IF n = 1 THEN inRowOffsetThisSubBlock(v) * lseTokenStride
              ELSE v * qNSplitSubBlock * lseHeadStride

(* The loop a vector engine is at: the first of its rows, their number,    *)
(* and how they fall into a rest, whole heads and a beginning.             *)
rowOffsetLoop(v) == rowLoopIdx[v] * tile.rowNumTile
curRowNum(v) == IF rowLoopIdx[v] = rowLoop(v) - 1 THEN totalRowNum(v) - rowOffsetLoop(v)
                ELSE tile.rowNumTile
proTokenIdx(v) == rowOffsetLoop(v) % qSThisSubBlock(v)
proTokenNum(v) == AtMost(curRowNum(v), qSThisSubBlock(v) - proTokenIdx(v)) % qSThisSubBlock(v)
integralHeadNum(v) == (curRowNum(v) - proTokenNum(v)) \div qSThisSubBlock(v)
epiTokenNum(v) == curRowNum(v) - proTokenNum(v) - integralHeadNum(v) * qSThisSubBlock(v)

(* CopyOToGm, CopyOToGmFp32: the segments of the loop, as [src: its first  *)
(* row of the loop, rows, at: its place, counted from the loop's].         *)
SlipHeadsBefore(v) == 1
HeadsBefore(v) == IF proTokenNum(v) # 0 THEN 1 ELSE 0
Segments(v) ==
  LET pro == proTokenNum(v)
      q == qSThisSubBlock(v)
  IN {s \in {[src |-> 0, rows |-> pro, at |-> proTokenIdx(v) * oStride]}
        \cup {[src |-> pro + i * q, rows |-> q, at |-> HeadsBefore(v) + i] :
                i \in 0 .. integralHeadNum(v) - 1}
        \cup {[src |-> pro + integralHeadNum(v) * q, rows |-> epiTokenNum(v),
               at |-> HeadsBefore(v) + integralHeadNum(v)]} : s.rows # 0}
loopBase(v) == oBase(v) + rowOffsetLoop(v) \div qSThisSubBlock(v)

(* The query row that the clearing takes row i of the loop for, and        *)
(* whether it clears it.                                                   *)
HasInvalidRows == tile.suffix > 0 \/ tile.prefix # tile.qSeqlen
Invalid(token) == IF tile.suffix > 0 THEN token >= tile.suffix
                  ELSE tile.prefix # tile.qSeqlen /\ token < tile.prefix
rowStart(v) == qBlockStart + inRowOffsetThisSubBlock(v) + rowOffsetLoop(v)
subBlockStart(v) == IF rowStart(v) >= tile.qSeqlen THEN rowStart(v) % tile.qSeqlen ELSE rowStart(v)
TokenOf(v, i) ==
  IF n = 1 THEN rowStart(v) + i
  ELSE IF i < proTokenNum(v) THEN subBlockStart(v) + i
  ELSE qBlockStart + ((i - proTokenNum(v)) % qSThisSubBlock(v))
Cleared(v, i) == ~tile.isSplitkv /\ HasInvalidRows /\ Invalid(TokenOf(v, i))

(* InvalidLineLSEProcess: which rows of the share get the log-sum-exp of   *)
(* an empty row.                                                           *)
tokenStart(v) == qBlockStart + (IF n = 1 THEN inRowOffsetThisSubBlock(v) ELSE 0)
LseCleared(v, j) ==
  LET rowsPerHead == IF n = 1 THEN totalRowNum(v) ELSE qSThisSubBlock(v)
      start == tokenStart(v)
      i == j % rowsPerHead
  IN IF tile.prefix # tile.qSeqlen /\ tile.prefix > start
     THEN i < AtMost(rowsPerHead, tile.prefix - start)
     ELSE /\ tile.suffix > 0 /\ tile.suffix < start + rowsPerHead
          /\ i >= AtLeast(0, tile.suffix - start)

(* CopyLseToGm: the place of row j of the share.                           *)
LsePlace(v, j) ==
  LET headCount == IF n = 1 THEN 1 ELSE qNThisSubBlock(v)
      rowsPerHead == IF n = 1 THEN totalRowNum(v) ELSE qSThisSubBlock(v)
  IN IF ~tile.isSplitkv /\ (headCount = 1 \/ lseHeadStride = rowsPerHead) THEN lseBase(v) + j
     ELSE lseBase(v) + (j \div rowsPerHead) * lseHeadStride + (j % rowsPerHead) * lseTokenStride

-----------------------------------------------------------------------------
Init == /\ tile \in Tiles
        /\ rowLoopIdx = [v \in Vectors |-> 0]
        /\ o = << >> /\ lse = << >>

(* Row j of a share, as <<head, query row>> of the tile. *)
RowOf(v, j) == LET r == inRowOffsetThisSubBlock(v) + j IN <<r \div qSBlockSize, r % qSBlockSize>>

(* Writing w, a set of [at, row, zero], over the places p. *)
Write(p, w) == [x \in DOMAIN p \cup {y.at : y \in w} |->
                  IF \E y \in w : y.at = x
                  THEN LET y == CHOOSE y \in w : y.at = x IN [row |-> y.row, zero |-> y.zero]
                  ELSE p[x]]

RowLoop(v) ==
  /\ rowLoopIdx[v] < rowLoop(v)
  /\ o' = Write(o, UNION {{[at |-> loopBase(v) + s.at + i * oStride,
                            row |-> RowOf(v, rowOffsetLoop(v) + s.src + i),
                            zero |-> Cleared(v, s.src + i)] : i \in 0 .. s.rows - 1} : s \in Segments(v)})
  /\ lse' = IF rowLoopIdx[v] = rowLoop(v) - 1
            THEN Write(lse, {[at |-> LsePlace(v, j), row |-> RowOf(v, j), zero |-> LseCleared(v, j)] :
                               j \in 0 .. totalRowNum(v) - 1})
            ELSE lse
  /\ rowLoopIdx' = [rowLoopIdx EXCEPT ![v] = @ + 1]
  /\ UNCHANGED tile

AllDone == \A v \in Vectors : rowLoopIdx[v] = rowLoop(v)
Terminated == AllDone /\ UNCHANGED vars

Next == (\E v \in Vectors : RowLoop(v)) \/ Terminated
Spec == Init /\ [][Next]_vars

-----------------------------------------------------------------------------
Rows == (0 .. n - 1) \X (0 .. qSBlockSize - 1)

(* Every row is where the output wants it, and zero exactly if it is to be *)
(* cleared, wherever loops and heads end; for a cut tile, where the combine*)
(* step looks for it (FlashDecode's Order).  Nothing is written elsewhere. *)
RowsInPlace ==
  AllDone => o = [p \in {r[2] * oStride + r[1] : r \in Rows} |->
                    [row |-> <<p % oStride, p \div oStride>>,
                     zero |-> Invalid(qBlockStart + p \div oStride)]]

(* The same for the log-sum-exp, which is written apart from the rows and  *)
(* worked out from other numbers.                                          *)
LseInPlace ==
  AllDone =>
    /\ DOMAIN lse = {r[1] * lseHeadStride + r[2] * lseTokenStride : r \in Rows}
    /\ \A r \in Rows : lse[r[1] * lseHeadStride + r[2] * lseTokenStride] =
                         [row |-> r, zero |-> Invalid(qBlockStart + r[2])]
=============================================================================
