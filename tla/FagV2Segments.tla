--------------------------- MODULE FagV2Segments ---------------------------
(***************************************************************************)
(* How the v2 backward kernel for packed sequences (mha_varlen_bwd.cpp)    *)
(* deals the square blocks of scores to the cores: addr_mapping of         *)
(* fag_common/cube_addr.h and vector_addr.h.  Every engine of every core   *)
(* walks over all blocks of the launch and keeps a record of those of its  *)
(* own core; the walks take the same steps, so that one walk is modelled   *)
(* that records for all.  It cuts rectangles, of two block rows or of one, *)
(* into segments of up to LIMIT blocks, and deals the segments in turn.    *)
(*                                                                         *)
(* A segment of a core has its workspace, with a place for every block of  *)
(* it.  The three matrix products and the vector engine each find the      *)
(* place of a block by counting in a way of their own.                     *)
(*                                                                         *)
(* Lengths are in blocks.  The list of lengths to try holds no 4 rows.     *)
(***************************************************************************)
EXTENDS Integers, Sequences, FiniteSets, SequencesExt

CONSTANT Calls     \* the launches to run

VARIABLES
  call,      \* the launch: s1, s2 (blocks of each sequence), heads, causal, cores
  pc,        \* "walk" through addr_mapping, "run" what it recorded
  at,        \* the cursor of the walk
  lists,     \* of each core: the rectangles of its segment, from this call of addr_mapping
  running,   \* cores that are still in the loop of the kernel
  dealt      \* of each core: the segments it worked on, in order
vars == <<call, pc, at, lists, running, dealt>>

LIMIT == 16
COL_LIMIT == 4
lengths == <<2, 1>>

Cores == 0 .. call.cores - 1
batchNum == Len(call.s1)
S1BlockNum(batch) == IF batch < batchNum THEN call.s1[batch + 1] ELSE 0
S2BlockNum(batch) == IF batch < batchNum THEN call.s2[batch + 1] ELSE 0

(* init *)
Start == [batchIdx |-> 0, headNumIdx |-> 0, s1Idx |-> 0, s2Idx |-> 0, s1MaxLength |-> 0, num |-> 0,
          coreSegmentBlockNum |-> 0, roundId |-> 1]

Init ==
  /\ call \in Calls
  /\ pc = "walk"
  /\ at = Start
  /\ lists = [c \in Cores |-> << >>]
  /\ running = Cores
  /\ dealt = [c \in Cores |-> << >>]

-----------------------------------------------------------------------------
s1BlockNum == S1BlockNum(at.batchIdx)
s2BlockNum == S2BlockNum(at.batchIdx)
InSequence == at.s1Idx < s1BlockNum /\ at.s2Idx < s2BlockNum

(* The rows of the next rectangle: those of the one to its left, or as     *)
(* many as the sequence and the segment have.                              *)
Fits(lens) ==
  /\ at.num + lens <= LIMIT
  /\ at.s1Idx + lens - 1 < s1BlockNum
  /\ at.s2Idx = 0 \/ lens <= at.s1MaxLength - at.s1Idx
Rows == SelectSeq(lengths, Fits)

(* blockAdd: the columns that fit, or those to the end of the rows.        *)
(* upperRight is FALSE when the last block of the first row is masked.     *)
Free == LIMIT - at.num
Dense(ky) ==
  LET col == Free \div ky
      ends == at.s2Idx + col >= s2BlockNum
  IN [kx |-> IF ends THEN s2BlockNum - at.s2Idx ELSE col, ends |-> ends, upperRight |-> TRUE]
CausalColumns(ky) ==
  IF at.s2Idx + Free \div ky = at.s1Idx + 1 THEN (Free + 1) \div ky ELSE Free \div ky
Causal(ky) ==
  LET col == CausalColumns(ky)
      reachS2Edge == s2BlockNum < at.s1Idx + ky
      kxMax == IF reachS2Edge THEN s2BlockNum ELSE at.s1Idx + ky
      ends == col + at.s2Idx >= kxMax
      kx == IF ends THEN kxMax - at.s2Idx ELSE col
  IN [kx |-> kx, ends |-> ends,
      upperRight |-> IF ends THEN reachS2Edge \/ ky = 1 ELSE at.s1Idx + 1 >= at.s2Idx + kx]

(* record, and record_cube3 with the same rectangle *)
Rectangle(ky) ==
  LET cut == IF call.causal THEN Causal(ky) ELSE Dense(ky)
  IN [batch |-> at.batchIdx, head |-> at.headNumIdx, s1Id |-> at.s1Idx, s2Id |-> at.s2Idx,
      kx |-> cut.kx, ky |-> ky, upperRight |-> cut.upperRight, num |-> at.num,
      ends |-> cut.ends,
      cnt |-> cut.kx * ky - (IF cut.ends /\ ~cut.upperRight THEN 1 ELSE 0)]

-----------------------------------------------------------------------------
(* A segment is closed: the next one is of the next core, and the last one *)
(* of a round ends the call.                                               *)
Closed(a) == [a EXCEPT !.num = 0, !.coreSegmentBlockNum = @ + 1]
EndsRound(a) == a.coreSegmentBlockNum = a.roundId * call.cores

(* When no further block of these rows fits; with too little room left.    *)
RowsFill(a) == a.s1MaxLength - a.s1Idx + a.num >= LIMIT
TooLittleLeft(a) == a.num > LIMIT - COL_LIMIT
WalkEnds(a) ==
  /\ a.s1Idx >= S1BlockNum(a.batchIdx) /\ a.batchIdx >= batchNum - 1
  /\ a.headNumIdx >= call.heads - 1

Goes(a) == at' = a /\ pc' = "walk"
EndsCall(a, round) == at' = [a EXCEPT !.roundId = @ + round] /\ pc' = "run"
(* What follows a rectangle, and what follows the end of a sequence. *)
CloseWhenFull(a) ==
  LET closes == TooLittleLeft(a)
      b == IF closes THEN Closed(a) ELSE a
  IN IF closes /\ EndsRound(b) THEN EndsCall(b, 1) ELSE Goes(b)
AfterRectangle(a) ==
  LET closes == RowsFill(a)
      b == IF closes THEN Closed(a) ELSE a
  IN IF closes /\ EndsRound(b) THEN EndsCall(b, 1)
     ELSE IF WalkEnds(b) THEN EndsCall(b, 0)
     ELSE CloseWhenFull(b)

(* A rectangle is added to the segment. *)
AddBlocks ==
  /\ pc = "walk" /\ InSequence /\ Rows # << >>
  /\ LET ky == Head(Rows)
         r == Rectangle(ky)
         core == at.coreSegmentBlockNum % call.cores
     IN /\ lists' = [lists EXCEPT ![core] = Append(@, r)]
        /\ AfterRectangle([at EXCEPT !.num = @ + r.cnt,
                                     !.s1MaxLength = IF at.s2Idx = 0 THEN at.s1Idx + ky ELSE @,
                                     !.s1Idx = IF r.ends THEN @ + ky ELSE @,
                                     !.s2Idx = IF r.ends THEN 0 ELSE @ + r.kx])
  /\ UNCHANGED <<call, running, dealt>>

(* The next head, or after the last head the next sequence. *)
NextSequence ==
  /\ pc = "walk" /\ ~InSequence
  /\ LET a == [at EXCEPT !.s1Idx = 0, !.s2Idx = 0]
         lastHead == at.headNumIdx = call.heads - 1 \/ s1BlockNum = 0 \/ s2BlockNum = 0
     IN IF ~lastHead THEN CloseWhenFull([a EXCEPT !.headNumIdx = @ + 1])
        ELSE IF at.batchIdx < batchNum
             THEN CloseWhenFull([a EXCEPT !.headNumIdx = 0, !.batchIdx = @ + 1])
             ELSE EndsCall([a EXCEPT !.headNumIdx = 0], 1)
  /\ UNCHANGED <<call, lists, running, dealt>>

(* operator(): a core works on its segment; one without a segment leaves.  *)
RunSegments ==
  /\ pc = "run" /\ running # {}
  /\ dealt' = [c \in Cores |-> IF c \in running /\ lists[c] # << >> THEN Append(dealt[c], lists[c])
                               ELSE dealt[c]]
  /\ running' = {c \in running : lists[c] # << >>}
  /\ lists' = [c \in Cores |-> << >>]
  /\ pc' = "walk"
  /\ UNCHANGED <<call, at>>

Done == running = {} /\ UNCHANGED vars

Next == AddBlocks \/ NextSequence \/ RunSegments \/ Done
Spec == Init /\ [][Next]_vars

-----------------------------------------------------------------------------
(* Which blocks an engine works on, and at which place in the workspace.   *)
Block(r, m, n, place) ==
  [batch |-> r.batch, head |-> r.head, q |-> r.s1Id + m, k |-> r.s2Id + n, place |-> place]
Columns(r) == 0 .. r.kx - 1
RowsOf(r) == 0 .. r.ky - 1
Skipped(r, m, n) == n = r.kx - 1 /\ m = 0 /\ ~r.upperRight

(* fag_mmad_cube1.hpp counts the blocks it stores (cube1Cnt). *)
Cube1Blocks(r) ==
  LET InOrder(n, m) == r.ky * n + m
      Stored(n, m) == {p \in Columns(r) \X RowsOf(r) : InOrder(p[1], p[2]) < InOrder(n, m)
                                                      /\ ~Skipped(r, p[2], p[1])}
  IN {Block(r, p[2], p[1], r.num + Cardinality(Stored(p[1], p[2]))) :
        p \in {p \in Columns(r) \X RowsOf(r) : ~Skipped(r, p[2], p[1])}}

(* fag_mmad_cube2.hpp and fag_mmad_cube3.hpp number the blocks, less what  *)
(* they have skipped (skip_num).                                           *)
NumberedBlocks(r) ==
  LET skips(n) == IF n = r.kx - 1 /\ ~r.upperRight THEN 1 ELSE 0
  IN {Block(r, p[2], p[1], r.num + r.ky * p[1] + p[2] - skips(p[1])) :
        p \in {p \in Columns(r) \X RowsOf(r) : ~Skipped(r, p[2], p[1])}}

(* vector_addr.h record leaves out what is above the diagonal. *)
VecBlocks(r) ==
  LET visible == {p \in Columns(r) \X RowsOf(r) : ~call.causal \/ r.s1Id + p[2] >= r.s2Id + p[1]}
      Before(p) == {o \in visible : o[1] < p[1] \/ (o[1] = p[1] /\ o[2] < p[2])}
  IN {Block(r, p[2], p[1], r.num + Cardinality(Before(p))) : p \in visible}

BlocksOf(Of(_), list) == UNION {Of(list[i]) : i \in DOMAIN list}
BlockCount(list) == FoldSeq(LAMBDA r, sum: sum + r.cnt, 0, list)
Places(blocks) == {b.place : b \in blocks}

(* A segment has a place of its own for each of its blocks, in the LIMIT   *)
(* that are reserved, and all engines look for a block at the same one.    *)
WithinReservation ==
  pc = "run" => \A c \in Cores :
    LET blocks == BlocksOf(VecBlocks, lists[c])
    IN /\ BlocksOf(Cube1Blocks, lists[c]) = blocks
       /\ BlocksOf(NumberedBlocks, lists[c]) = blocks
       /\ Places(blocks) \subseteq 0 .. LIMIT - 1
       /\ Cardinality(Places(blocks)) = BlockCount(lists[c])
       /\ Cardinality(blocks) = BlockCount(lists[c])

(* The segments of a core but its last one are close to full, and no core  *)
(* has two segments more than another.                                     *)
EvenLoad ==
  /\ \A c \in Cores : \A i \in DOMAIN dealt[c] :
       i < Len(dealt[c]) => BlockCount(dealt[c][i]) > LIMIT - COL_LIMIT
  /\ \A c, d \in Cores : Len(dealt[c]) <= Len(dealt[d]) + 1

(* When all have left, each visible block of each head was worked on by    *)
(* one core, once.  (A core leaves when it finds no segment of its own, so *)
(* that no later round may hold one for it.)                               *)
VisibleBlocks ==
  UNION {{[batch |-> b, head |-> h, q |-> i, k |-> j] :
            h \in 0 .. call.heads - 1, i \in 0 .. S1BlockNum(b) - 1, j \in 0 .. S2BlockNum(b) - 1}
         : b \in 0 .. batchNum - 1}
Visible == {v \in VisibleBlocks : ~call.causal \/ v.q >= v.k}
DealtBlocks ==
  UNION {UNION {{[batch |-> b.batch, head |-> b.head, q |-> b.q, k |-> b.k] :
                   b \in BlocksOf(VecBlocks, dealt[c][i])} : i \in DOMAIN dealt[c]} : c \in Cores}
DealtCount ==
  FoldSeq(LAMBDA c, sum: sum + FoldSeq(LAMBDA list, s: s + BlockCount(list), 0, dealt[c - 1]),
          0, [c \in 1 .. call.cores |-> c])
EveryTileOnce ==
  running = {} => /\ DealtBlocks = Visible
                  /\ DealtCount = Cardinality(Visible)

=============================================================================
