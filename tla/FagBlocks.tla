------------------------------ MODULE FagBlocks ------------------------------
(***************************************************************************)
(* How the backward kernel deals the blocks of the score matrices out to    *)
(* the cores (CalcValidBlock and UpdateIndex of fag_kernel.cpp, the tokens  *)
(* of fag_tiling.cpp).  The blocks of a sequence, a head and a column of    *)
(* keys are walked down the rows, skipping those that the mask leaves       *)
(* empty, and dealt out one to a core; a full hand is a round.  Every       *)
(* engine repeats the same walk and keeps its own block, so the model walks *)
(* once, for all of them; BwdPipeline works the rounds off.                 *)
(*                                                                          *)
(* In deterministic mode (dtm) the round also says which blocks of a tile   *)
(* of dq, or of dk and dv, are added up together: the label of a group is   *)
(* the number of a core, OUTIDX marks the block that stores its product     *)
(* directly.                                                                *)
(***************************************************************************)
EXTENDS Integers, Sequences, FiniteSets, SequencesExt

CONSTANTS
  LAUNCHES,    \* [dtm, n2, g, q, k, causal, left, right, run]: lengths, window asked for, and whether BwdPipeline runs it
  CORES,       \* cubeCoreNum
  S1_INNER,    \* s1CvInner, rows of a block
  S2_INNER,    \* s2CvInner, keys of a block
  KEY_ALIGN,   \* 8, what the right edge is rounded up to
  UNBOUNDED    \* INT32_MAX, a window wider than any sequence

ASSUME BlocksAssumption ==
  /\ CORES \in Nat \ {0} /\ S1_INNER \in Nat \ {0} /\ S2_INNER \in Nat \ {0}
  /\ KEY_ALIGN \in Nat \ {0} /\ S2_INNER % KEY_ALIGN = 0
  /\ UNBOUNDED \in Nat
  /\ \A l \in LAUNCHES :
       /\ l.q \in Seq(Nat) /\ l.k \in Seq(Nat) /\ Len(l.q) = Len(l.k) /\ Len(l.q) > 0
       /\ \A i \in DOMAIN l.q : l.q[i] <= UNBOUNDED /\ l.k[i] <= UNBOUNDED
       /\ l.n2 \in Nat \ {0} /\ l.g \in Nat \ {0} /\ l.left \in Int /\ l.right \in Int
       /\ {l.dtm, l.causal, l.run} \subseteq BOOLEAN

VARIABLES
  launch,      \* the launch being planned
  walk,        \* the indices of the walk, and the core the next block goes to
  hand,        \* core -> what dbParams holds for it in the round being dealt
  outArr,      \* core -> tiles it was dealt last: [dq, kv]
  rounds       \* the rounds dealt so far

blockVars == <<launch, walk, hand, outArr, rounds>>

OUTIDX == -1
NO_BLOCK == -1
Core == 0 .. CORES - 1

CeilDiv(a, n) == (a + n - 1) \div n
(* Division of C++, which rounds toward zero. *)
Quot(a, n) == IF a >= 0 THEN a \div n ELSE -((-a) \div n)
-----------------------------------------------------------------------------
(* The launch, as the host hands it to the kernel. *)

(* Sequences at the end that have neither rows nor keys are cut off. *)
Batches(l) == Max({1} \cup {i \in DOMAIN l.q : l.q[i] > 0 \/ l.k[i] > 0})
RowsOf(l, b) == l.q[b + 1]
KeysOf(l, b) == l.k[b + 1]
S1Outer(l, b) == CeilDiv(RowsOf(l, b), S1_INNER)
S2Outer(l, b) == CeilDiv(KeysOf(l, b), S2_INNER)
MaxLen(lens) == Max({lens[i] : i \in DOMAIN lens})

(* NormalizeAttentionWindow: a bound that hides nothing is dropped. *)
Window(l) ==
  [left  |-> IF l.left < 0 \/ l.left >= MaxLen(l.k) - 1 THEN -1 ELSE l.left,
   right |-> IF l.causal THEN 0
             ELSE IF l.right < 0 \/ l.right >= MaxLen(l.q) - 1 THEN -1 ELSE l.right]
Masked(l) == Window(l).left >= 0 \/ Window(l).right >= 0

(* How far a row sees back and ahead, from the end of the sequence up.  A    *)
(* launch without mask is not shifted.                                       *)
Reach(bound) == IF bound < 0 THEN UNBOUNDED ELSE bound
Shift(l, b) == IF Masked(l) THEN RowsOf(l, b) - KeysOf(l, b) ELSE 0
S1Token(l, b) == Reach(Window(l).left) + Shift(l, b)
S2Token(l, b) == Reach(Window(l).right) - Shift(l, b)
-----------------------------------------------------------------------------
(* The walk. *)

(* Step to the next column of blocks: the heads of a group run fastest in    *)
(* deterministic mode, the columns otherwise.                                *)
UpdateIndex(w) ==
  LET gEnds == w.g >= launch.g - 1
      s2oEnds == w.s2o >= S2Outer(launch, w.b) - 1
      columnsEnd == gEnds /\ s2oEnds
      headsEnd == columnsEnd /\ w.n2 >= launch.n2 - 1
      heads == launch.n2 * launch.g
  IN [w EXCEPT !.s1o = 0,
        !.g = IF ~launch.dtm /\ ~s2oEnds THEN @ ELSE IF gEnds THEN 0 ELSE @ + 1,
        !.s2o = IF launch.dtm /\ ~gEnds THEN @ ELSE IF s2oEnds THEN 0 ELSE @ + 1,
        !.n2 = IF headsEnd THEN 0 ELSE IF columnsEnd THEN @ + 1 ELSE @,
        !.b = IF headsEnd THEN @ + 1 ELSE @,
        !.dqOutBase = IF headsEnd THEN @ + heads * S1Outer(launch, w.b) ELSE @,
        !.kvOutBase = IF headsEnd THEN @ + launch.n2 * S2Outer(launch, w.b) ELSE @]

(* The blocks of the column that the mask leaves something of. *)
TopRow(w) == w.s2o * S2_INNER - S2Token(launch, w.b)                     \* s1IdxUp
SlipPartialSkipped(w) == Max({0, Quot(TopRow(w) + S1_INNER - 1, S1_INNER)})
TopBlock(w) == Max({0, Quot(TopRow(w), S1_INNER)})                     \* s1oIdxUp
EndRow(w) == Min({RowsOf(launch, w.b), (w.s2o + 1) * S2_INNER + S1Token(launch, w.b)})
BottomBlock(w) == Quot(EndRow(w) + S1_INNER - 1, S1_INNER) - 1           \* s1oIdxDown

(* s2token: nothing of this column is seen, or there are no keys. *)
BeyondRows(w) == TopRow(w) >= RowsOf(launch, w.b) \/ KeysOf(launch, w.b) = 0
(* Nothing of this column is left below the block the walk is at. *)
BelowWindow(w) == BottomBlock(w) < TopBlock(w) \/ w.s1o > BottomBlock(w)

Restart(w, ended) == [w EXCEPT !.startCoreId = 0, !.baseIdx = IF ended THEN -1 ELSE @]

(* A round is dealt: it is kept, and dbParams, a ring of three, is used again. *)
Blank == [blockId |-> 0, blockIdArr |-> 0, b |-> 0, n2 |-> 0, g |-> 0, s1o |-> 0, s2o |-> 0,
          s1Extend |-> 0, s2Extend |-> 0, dqGroupId |-> 0, kvGroupId |-> 0]
Deal(h) ==
  LET dealt == Append(rounds, h)
  IN /\ rounds' = dealt
     /\ hand' = IF Len(dealt) < 3 THEN [c \in Core |-> Blank] ELSE dealt[Len(dealt) - 2]

(* All blocks are dealt: this core and those after it go without. *)
NoBlocksFrom(h, first) ==
  [c \in Core |->
     IF c < first THEN h[c]
     ELSE [h[c] EXCEPT !.blockId = NO_BLOCK, !.blockIdArr = IF c = first THEN NO_BLOCK ELSE @]]

EndOfBlocks ==
  /\ walk.baseIdx # -1
  /\ walk.b >= Batches(launch)
  /\ Deal(NoBlocksFrom(hand, walk.startCoreId))
  /\ walk' = Restart(walk, TRUE)
  /\ UNCHANGED <<launch, outArr>>

SkipColumn ==
  /\ walk.baseIdx # -1
  /\ walk.b < Batches(launch)
  /\ BeyondRows(walk) \/ BelowWindow(walk)
  /\ LET counted == BeyondRows(walk) => KeysOf(launch, walk.b) > 0
     IN walk' = UpdateIndex([walk EXCEPT
                  !.baseIdx = IF counted THEN @ + S1Outer(launch, walk.b) - walk.s1o ELSE @])
  /\ UNCHANGED <<launch, hand, outArr, rounds>>

(* The first block of the column the mask leaves something of. *)
AtTop(w) ==
  IF w.s1o >= TopBlock(w) THEN w
  ELSE [w EXCEPT !.s1o = TopBlock(w), !.baseIdx = @ + TopBlock(w) - w.s1o]

SlipWholeRows(w, s1o) == S1_INNER
S1Extend(w, s1o) ==
  IF s1o = S1Outer(launch, w.b) - 1 THEN RowsOf(launch, w.b) - s1o * S1_INNER ELSE S1_INNER
(* Keys behind the last one that the last row of the block sees are left out. *)
S2Extend(w, s1o) ==
  LET first == w.s2o * S2_INNER
      whole == Min({first + S2_INNER, KeysOf(launch, w.b)})
      right == CeilDiv(Max({0, s1o * S1_INNER + S1Extend(w, s1o) + S2Token(launch, w.b)}), KEY_ALIGN) * KEY_ALIGN
  IN Max({0, Min({whole, right}) - first})

DqTile(w, s1o) == w.dqOutBase + (w.n2 * launch.g + w.g) * S1Outer(launch, w.b) + s1o
KvTile(w) == w.kvOutBase + w.n2 * S2Outer(launch, w.b) + w.s2o

(* dq: the first column stores directly, and blocks of a tile that earlier   *)
(* columns of the round have dealt out join the first of them.               *)
DqGroup(w, core, s1o) ==
  LET same == {j \in 0 .. w.startCoreId - 1 : outArr[j].dq = DqTile(w, s1o)}
  IN IF w.s2o = 0 THEN OUTIDX ELSE IF same = {} THEN core ELSE Min(same)
(* dk and dv: the first block of the first head stores directly, the others  *)
(* join the group of the core before, if that has one.                       *)
SlipEveryHeadDirect(w, core) ==
  IF core = w.startCoreId /\ w.s1o = TopBlock(w) THEN OUTIDX ELSE w.startCoreId
KvGroup(w, core) ==
  LET before == w.startCoreId - 1
  IN IF core = w.startCoreId /\ w.s1o = TopBlock(w) /\ w.g = 0 THEN OUTIDX
     ELSE IF before >= 0 /\ outArr[before].kv = KvTile(w) /\ hand[before].kvGroupId # OUTIDX
          THEN hand[before].kvGroupId
          ELSE w.startCoreId

Dealt(w, core) ==
  LET s1o == w.s1o + core - w.startCoreId
      id == w.baseIdx + core - w.startCoreId
      block == [hand[core] EXCEPT !.blockId = id, !.b = w.b, !.n2 = w.n2, !.g = w.g,
                 !.s1o = s1o, !.s2o = w.s2o, !.s1Extend = S1Extend(w, s1o), !.s2Extend = S2Extend(w, s1o)]
  IN IF launch.dtm
     THEN [block EXCEPT !.blockIdArr = id, !.dqGroupId = DqGroup(w, core, s1o), !.kvGroupId = KvGroup(w, core)]
     ELSE block

DealBlocks ==
  /\ walk.baseIdx # -1
  /\ walk.b < Batches(launch)
  /\ ~BeyondRows(walk) /\ ~BelowWindow(walk)
  /\ \E w \in {AtTop(walk)} :
     LET validNum == BottomBlock(w) - w.s1o + 1
         free == CORES - w.startCoreId
         takes(core) == core >= w.startCoreId /\ core - w.startCoreId < validNum
         dealt == [c \in Core |-> IF takes(c) THEN Dealt(w, c) ELSE hand[c]]
     IN /\ outArr' = [c \in Core |-> IF takes(c) /\ launch.dtm
                                     THEN [dq |-> DqTile(w, w.s1o + c - w.startCoreId), kv |-> KvTile(w)]
                                     ELSE outArr[c]]
        /\ \/ /\ free <= validNum
              /\ Deal(dealt)
              /\ LET v == Restart([w EXCEPT !.baseIdx = @ + free], FALSE)
                 IN walk' = IF v.s1o + free < S1Outer(launch, v.b)
                            THEN [v EXCEPT !.s1o = @ + free] ELSE UpdateIndex(v)
           \/ /\ free > validNum
              /\ hand' = dealt
              /\ walk' = UpdateIndex([w EXCEPT !.baseIdx = @ + S1Outer(launch, w.b) - w.s1o,
                                               !.startCoreId = @ + validNum])
              /\ UNCHANGED rounds
  /\ UNCHANGED launch

BlocksInit ==
  /\ launch \in LAUNCHES
  /\ walk = [b |-> 0, n2 |-> 0, g |-> 0, s1o |-> 0, s2o |-> 0, baseIdx |-> 0,
             dqOutBase |-> 0, kvOutBase |-> 0, startCoreId |-> 0]
  /\ hand = [c \in Core |-> Blank]
  /\ outArr = [c \in Core |-> [dq |-> 0, kv |-> 0]]
  /\ rounds = <<>>

CalcValidBlock == EndOfBlocks \/ SkipColumn \/ DealBlocks

(* blockStartIdx is -1 after a call that found no more blocks. *)
Planned == walk.baseIdx = -1

(* A plan to be looked at; a launch that is run has the same plan as its twin *)
(* that is not.                                                              *)
Complete == Planned /\ ~launch.run

BlocksSpec == BlocksInit /\ [][CalcValidBlock]_blockVars

(* The round of task t: behind the last one every call finds no more blocks. *)
RoundAt(t) ==
  IF t < Len(rounds) THEN rounds[t + 1]
  ELSE NoBlocksFrom([c \in Core |-> Blank], 0)
HasBlock(t, core) == t \in 0 .. Len(rounds) - 1 /\ RoundAt(t)[core].blockId # NO_BLOCK
LastPlanned(t) == t >= Len(rounds) - 1

(* Places <<task, core>> that have a block, in the order of the walk. *)
Places == {x \in (0 .. Len(rounds) - 1) \X Core : HasBlock(x[1], x[2])}
BlockAt(x) == RoundAt(x[1])[x[2]]
Before(x, y) == x[1] < y[1] \/ (x[1] = y[1] /\ x[2] < y[2])

Grad == {"dq", "dk", "dv"}
TileOf(grad, block) ==
  IF grad = "dq" THEN <<block.b, block.n2, block.g, block.s1o>> ELSE <<block.b, block.n2, block.s2o>>
Tile(grad, x) == TileOf(grad, BlockAt(x))
GroupId(grad, x) == IF grad = "dq" THEN BlockAt(x).dqGroupId ELSE BlockAt(x).kvGroupId
Direct(grad, x) == GroupId(grad, x) = OUTIDX

(* What the reduction of a round goes through: the cores before the first    *)
(* one without a block, those that lead a group, and the members of a group. *)
Listed(t) == {c \in Core : \A d \in 0 .. c : RoundAt(t)[d].blockIdArr # NO_BLOCK}
Leads(grad, t, c) == c \in Listed(t) /\ (GroupId(grad, <<t, c>>) >= c \/ Direct(grad, <<t, c>>))
Members(grad, t, leader) == {c \in Listed(t) : c >= leader /\ GroupId(grad, <<t, c>>) = leader}

(* GetIndex: the block of a number, which counts rows, heads, columns and    *)
(* sequences.                                                                *)
BlocksOf(b) == launch.n2 * launch.g * S1Outer(launch, b) * S2Outer(launch, b)
BlocksBefore[b \in Nat] == IF b = 0 THEN 0 ELSE BlocksBefore[b - 1] + BlocksOf(b - 1)
GetIndex(id) ==
  LET b == CHOOSE x \in 0 .. Batches(launch) - 1 :
             BlocksBefore[x] <= id /\ id < BlocksBefore[x] + BlocksOf(x)
      rows == S1Outer(launch, b)
      column == launch.g * rows
      head == S2Outer(launch, b) * column
      rest == id - BlocksBefore[b]
  IN [b |-> b, n2 |-> rest \div head, s2o |-> (rest % head) \div column,
      g |-> ((rest % head) % column) \div rows, s1o |-> (rest % head) % rows]
-----------------------------------------------------------------------------
(* Indices stay in their ranges, and no block is empty or reaches beyond its *)
(* sequence (CalcValidBlock, whose last block of a row or column is shorter).*)
BlocksTypeOK ==
  /\ walk.startCoreId \in Core
  /\ walk.b \in 0 .. Batches(launch)
  /\ walk.b < Batches(launch) =>
       walk.n2 < launch.n2 /\ walk.g < launch.g /\ walk.s1o \in 0 .. S1Outer(launch, walk.b)
  /\ Complete => \A x \in Places :
       LET block == BlockAt(x)
       IN /\ block.s1Extend > 0 /\ block.s1o * S1_INNER + block.s1Extend <= RowsOf(launch, block.b)
          /\ block.s2Extend > 0 /\ block.s2o * S2_INNER + block.s2Extend <= KeysOf(launch, block.b)

(* What the request lets a row see, counted from the ends of the sequence.   *)
Sees(b, row, key) ==
  LET at == row + KeysOf(launch, b) - RowsOf(launch, b)
  IN /\ launch.causal => key <= at
     /\ ~launch.causal /\ launch.right >= 0 => key <= at + launch.right
     /\ launch.left >= 0 => key >= at - launch.left

(* Every (row, key) pair that the request lets see each other is in one and   *)
(* only one block: none is lost where columns are skipped, walked from the   *)
(* middle, cut at the right edge or spread over rounds, and none is added    *)
(* twice.                                                                    *)
EveryPairOnce ==
  Complete =>
    \A b \in 0 .. Batches(launch) - 1, n2 \in 0 .. launch.n2 - 1, g \in 0 .. launch.g - 1 :
      LET mine == {x \in Places : BlockAt(x).b = b /\ BlockAt(x).n2 = n2 /\ BlockAt(x).g = g}
          in(x, row, key) ==
            LET block == BlockAt(x)
            IN /\ row \div S1_INNER = block.s1o /\ row % S1_INNER < block.s1Extend
               /\ key \div S2_INNER = block.s2o /\ key % S2_INNER < block.s2Extend
      IN \A row \in 0 .. RowsOf(launch, b) - 1, key \in 0 .. KeysOf(launch, b) - 1 :
           Sees(b, row, key) => Cardinality({x \in mine : in(x, row, key)}) = 1

(* The reduction finds the tile of a group from the number of a block alone,  *)
(* by dividing, while the walk only counts: skipped blocks, and sequences    *)
(* without rows or keys, must be counted alike on both sides.                *)
NumbersFindBlocks ==
  \A x \in Places :
    LET found == GetIndex(BlockAt(x).blockIdArr)
    IN \A f \in DOMAIN found : found[f] = BlockAt(x)[f]

(* The tiling reserves no workspace for deterministic sums when one block    *)
(* covers the longest sequence and groups have one head (AdjustCvInner takes *)
(* the mode back), but the kernel is still launched in that mode.            *)
Unreserved == MaxLen(launch.q) <= S1_INNER /\ MaxLen(launch.k) <= S2_INNER /\ launch.g = 1

(* In deterministic mode a product is either stored directly, and then it is *)
(* the first of its tile, for it overwrites the others, or it belongs to a   *)
(* group that the reduction of its round goes through and whose leader has   *)
(* the same tile (dqGroupId and kvGroupId), and is found there by number.  A *)
(* launch without workspace for groups stores all of them directly.          *)
GroupsSound ==
  Complete /\ launch.dtm =>
    /\ NumbersFindBlocks
    /\ \A grad \in Grad : \A x \in Places :
         IF Direct(grad, x)
         THEN \A y \in Places : Tile(grad, y) = Tile(grad, x) => ~Before(y, x)
         ELSE LET leader == <<x[1], GroupId(grad, x)>>
              IN /\ ~Unreserved /\ leader[2] <= x[2] /\ Leads(grad, x[1], leader[2])
                 /\ Tile(grad, leader) = Tile(grad, x)

=============================================================================
