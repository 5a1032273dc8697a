---------------------------- MODULE FlashDecode ----------------------------
(***************************************************************************)
(* A flash-decode launch: the plan of FaSplit, then the kernel that runs   *)
(* it (mha_fwd_kvcache.cpp, flash-decode branch) and the combine step      *)
(* (combine_scale.hpp).                                                    *)
(*                                                                         *)
(* Each core walks the tiles of its range.  It writes the output rows of a *)
(* whole tile itself; of a part of a tile it leaves partial rows in the    *)
(* workspace, at an offset it works out as it goes and that must agree     *)
(* with the one the plan gave to the combine step.  After a barrier the    *)
(* vector cores share the cut tiles, two halves to a tile, and merge the   *)
(* partial rows.  The computation of one tile, whose pipeline FwdPipeline  *)
(* models, is one step here.  (Slip... as in FaSplit.)                     *)
(***************************************************************************)
EXTENDS FaSplit, TLC

CONSTANTS Unwritten,   \* an output row nobody wrote yet
          Garbage      \* a row merged from partial rows that do not belong together

VARIABLES
  launched,  \* GetBlockNum(): 0 before the launch
  at, off,   \* of each core: the tile it is at, and gmOffsetLseFD
  partial,   \* the workspace: which row and blocks each slot was computed from
  turn,      \* of each vector core: process, its next half tile
  out        \* which blocks each output row was computed from
kernelVars == <<launched, at, off, partial, turn, out>>
fdVars == <<shape, pc, now, core, res, info, nodes, first, rows,
            launched, at, off, partial, turn, out>>

Row(b, h, q) == [b |-> b, h |-> h, q |-> q]
Rows == UNION {{Row(b, h, q) : h \in 0 .. shape.heads - 1, q \in 0 .. Params(b).q - 1} :
               b \in Batches}
Wanted == LET blocks == [b \in Batches |-> 0 .. Params(b).kNum - 1]
          IN [r \in Rows |-> blocks[r.b]]

RowsOfTile(t) == {Row(t[1], h, q) : h \in HeadStart(t) .. HeadEnd(t) - 1,
                                    q \in QStart(t) .. QEnd(t) - 1}

(* Row i of a tile in the order of its partial results: query row by query *)
(* row, and in each head by head.                                          *)
RowAt(t, i) == LET n == HeadEnd(t) - HeadStart(t)
               IN Row(t[1], HeadStart(t) + (i % n), QStart(t) + (i \div n))

FDInit == /\ Init
          /\ launched = 0 /\ at = << >> /\ off = << >> /\ turn = << >>
          /\ partial = << >> /\ out = [r \in Rows |-> Unwritten]

Planning == Plan /\ UNCHANGED kernelVars

(* The host launches the cores the plan needs; a launch with a precomputed *)
(* plan (scheduler metadata) has them all, and the others stay idle.       *)
Launch ==
  /\ pc = "done" /\ launched = 0
  /\ launched' \in {needCoreNum, shape.cores}
  /\ at' = [c \in 1 .. needCoreNum |-> TileOf(info[c].start)]
  /\ off' = first
  /\ turn' = [v \in 0 .. 2 * launched' - 1 |-> v]
  /\ UNCHANGED <<planVars, partial, out>>

SlipSameOffset(c) == off[c]
(* One tile of core c. *)
OffsetAfter(c) == off[c] + RowsOf(at[c])

BlocksAt(c) == PieceStart(info[c], at[c]) .. PieceEnd(info[c], at[c]) - 1

WritePartial(c) ==
  /\ partial' = [i \in off[c] .. off[c] + RowsOf(at[c]) - 1 |->
                   [row |-> RowAt(at[c], i - off[c]), blocks |-> BlocksAt(c)]] @@ partial
  /\ off' = [off EXCEPT ![c] = OffsetAfter(c)]
  /\ UNCHANGED out

WriteOutput(c) ==
  /\ out' = [r \in RowsOfTile(at[c]) |-> BlocksAt(c)] @@ out
  /\ UNCHANGED <<off, partial>>

Walking(c) == Before(at[c], TileOf(info[c].end))

RunTile(c) ==
  /\ launched > 0 /\ Walking(c)
  /\ IF IsSplit(info[c], at[c]) THEN WritePartial(c) ELSE WriteOutput(c)
  /\ at' = [at EXCEPT ![c] = Succ(@)]
  /\ UNCHANGED <<planVars, launched, turn>>

(* SyncAll: no vector core combines before every core has walked. *)
Synced == launched > 0 /\ \A c \in DOMAIN at : ~Walking(c)

(* A cut tile x of splitInfo: its query rows, heads and rows, and where    *)
(* the half of vector core v % 2 starts and how many rows it has.          *)
q_len(x) == x.qEndIdx - x.qStartIdx
n_len(x) == x.headEndIdx - x.headStartIdx
sum(x) == q_len(x) * n_len(x)
sum_former(x) == IF q_len(x) = 1 THEN sum(x) \div 2 ELSE (q_len(x) \div 2) * n_len(x)
HalfStart(x, v) == IF v % 2 = 0 THEN 0 ELSE sum_former(x)
lseBlock(x, v) == IF v % 2 = 0 THEN sum_former(x) ELSE sum(x) - sum_former(x)

(* Row i of the half, as the output address is worked out. *)
OutRow(x, v, i) ==
  IF q_len(x) = 1
  THEN Row(x.tile[1], x.headStartIdx + HalfStart(x, v) + i, x.qStartIdx)
  ELSE Row(x.tile[1], x.headStartIdx + (i % n_len(x)),
           x.qStartIdx + (IF v % 2 = 0 THEN 0 ELSE q_len(x) \div 2) + (i \div n_len(x)))

(* The partial rows merged into row i of the half: one of each part. *)
Merged(x, v, i) ==
  LET slots == {x.lseTaskOffset + HalfStart(x, v) + i + j * sum(x) : j \in 0 .. x.splitNum - 1}
      sound == /\ slots \subseteq DOMAIN partial
               /\ \A s \in slots : partial[s].row = OutRow(x, v, i)
               /\ \A s, u \in slots : s # u => partial[s].blocks \cap partial[u].blocks = {}
  IN IF sound THEN UNION {partial[s].blocks : s \in slots} ELSE Garbage

SlipMoreToCombine(v) == turn[v] < totalSplitNodeNum
MoreToCombine(v) == turn[v] < 2 * totalSplitNodeNum

Combine(v) ==
  LET node == nodes[turn[v] \div 2 + 1]
      half == 0 .. lseBlock(node, v) - 1
      merged(r) == Merged(node, v, CHOOSE i \in half : OutRow(node, v, i) = r)
  IN /\ Synced /\ MoreToCombine(v)
     /\ out' = [r \in {OutRow(node, v, i) : i \in half} |-> merged(r)] @@ out
     /\ turn' = [turn EXCEPT ![v] = @ + 2 * launched]
     /\ UNCHANGED <<planVars, launched, at, off, partial>>

Ended == Synced /\ \A v \in DOMAIN turn : ~MoreToCombine(v)
Terminated == Ended /\ UNCHANGED fdVars

FDStep == \/ Planning \/ Launch
          \/ \E c \in DOMAIN at : RunTile(c)
          \/ \E v \in DOMAIN turn : Combine(v)
FDNext == FDStep \/ Terminated

-----------------------------------------------------------------------------
(* Properties. *)

(* A partial row stays as it was written until the launch ends, and lies   *)
(* in the space the plan reserves for this launch: the offsets that the    *)
(* cores work out on their own never meet.                                 *)
PartialsStay == \A i \in DOMAIN partial : i \in DOMAIN partial' /\ partial'[i] = partial[i]
PartialsInPlace ==
  launched > 0 => DOMAIN partial \subseteq 0 .. rows - 1

(* The buffers of the combine step have room for the partial sums of half  *)
(* a tile ("24 * 64 * 4" bytes: 24 parts of 64 rows).                      *)
CombineFits ==
  \A i \in 1 .. Len(nodes), v \in 0 .. 1 :
    CeilDiv(nodes[i].splitNum, 8) * 8 * (CeilDiv(lseBlock(nodes[i], v), 8) * 8) <= 24 * 64

=============================================================================
