------------------------------ MODULE MCTiles ------------------------------
(***************************************************************************)
(* What happens to a tile, in five parts that share no state: TaskWalk     *)
(* (which core runs it) and FusedTasks (the same, of v2, in the same       *)
(* variables), KvRange (which keys its rows attend to), PagedKv (where the *)
(* keys and values come from) and TileRows (where its rows go).  A         *)
(* behaviour is one of one part, so that the states add up and do not      *)
(* multiply.                                                               *)
(***************************************************************************)
EXTENDS Integers, Sequences, FiniteSets

CONSTANTS Q_TILE_CEIL, Launches                                \* TaskWalk
CONSTANTS FUSED_ROWS, BLOCK, FusedLaunches                     \* FusedTasks
CONSTANTS RANGE_TILE, RANGE_STACK_LEN, WORD, Ranges, Unset     \* KvRange
CONSTANTS MAX_KV_STACK_LEN, l1NDynamic, PRE_LAUNCH, Runs       \* PagedKv
CONSTANTS VECTOR_SIZE, Tiles                                   \* TileRows

VARIABLES part,
  launch, core, ran,
  seq, cuts, pc, rangeTile, st, kvSIdx, seen, scored, read, cache, out,
  run, todo, issued, qk, pv, blockStartOffset, loaded, stored,
  tile, rowLoopIdx, o, lse

W == INSTANCE TaskWalk
F == INSTANCE FusedTasks WITH Q_ROWS <- FUSED_ROWS, Launches <- FusedLaunches
R == INSTANCE KvRange WITH Q_TILE_CEIL <- RANGE_TILE, MAX_KV_STACK_LEN <- RANGE_STACK_LEN,
                          Sequences <- Ranges, tile <- rangeTile
P == INSTANCE PagedKv
T == INSTANCE TileRows
ASSUME TilesAssumption ==
  /\ {FUSED_ROWS, BLOCK, Q_TILE_CEIL, RANGE_TILE, RANGE_STACK_LEN, WORD} \subseteq Nat \ {0}
  /\ {MAX_KV_STACK_LEN, l1NDynamic, VECTOR_SIZE} \subseteq Nat \ {0}
  /\ PRE_LAUNCH \in Nat
  /\ Q_TILE_CEIL % 2 = 0 /\ FUSED_ROWS % 2 = 0 /\ FUSED_ROWS % BLOCK = 0
  /\ W!LaunchesAssumption /\ F!LaunchesAssumption /\ R!SequencesAssumption /\ P!RunsAssumption
  /\ T!RowsAssumption

walkVars == <<launch, core, ran>>
rangeVars == <<seq, cuts, pc, rangeTile, st, kvSIdx, seen, scored, read, cache, out>>
pageVars == <<run, todo, issued, qk, pv, blockStartOffset, loaded, stored>>
rowVars == <<tile, rowLoopIdx, o, lse>>
vars == <<part, walkVars, rangeVars, pageVars, rowVars>>

NoWalk == launch = {} /\ core = {} /\ ran = {}
NoRange ==
  /\ seq = {} /\ cuts = {} /\ pc = {} /\ rangeTile = {} /\ st = {} /\ kvSIdx = {}
  /\ seen = {} /\ scored = {} /\ read = {} /\ cache = {} /\ out = {}
NoPages ==
  /\ run = {} /\ todo = {} /\ issued = {} /\ qk = {} /\ pv = {}
  /\ blockStartOffset = {} /\ loaded = {} /\ stored = {}
NoRows == tile = {} /\ rowLoopIdx = {} /\ o = {} /\ lse = {}

Init ==
  \/ part = "walk" /\ W!Init /\ NoRange /\ NoPages /\ NoRows
  \/ part = "fused" /\ F!Init /\ NoRange /\ NoPages /\ NoRows
  \/ part = "range" /\ R!Init /\ NoWalk /\ NoPages /\ NoRows
  \/ part = "pages" /\ P!Init /\ NoWalk /\ NoRange /\ NoRows
  \/ part = "rows" /\ T!Init /\ NoWalk /\ NoRange /\ NoPages

Next ==
  \/ part = "walk" /\ W!Next /\ UNCHANGED <<part, rangeVars, pageVars, rowVars>>
  \/ part = "fused" /\ F!Next /\ UNCHANGED <<part, rangeVars, pageVars, rowVars>>
  \/ part = "range" /\ R!Next /\ UNCHANGED <<part, walkVars, pageVars, rowVars>>
  \/ part = "pages" /\ P!Next /\ UNCHANGED <<part, walkVars, rangeVars, rowVars>>
  \/ part = "rows" /\ T!Next /\ UNCHANGED <<part, walkVars, rangeVars, pageVars>>
Spec == Init /\ [][Next]_vars

(* The cursor a core keeps from task to task is where its sequence is.     *)
CursorRight ==
  /\ part = "walk" => W!CursorRight
  /\ part = "fused" => F!CursorRight
(* Every row of every head is in one task, with its sequence's lengths.    *)
EveryRowOnce ==
  /\ part = "walk" => W!EveryRowOnce
  /\ part = "fused" => F!EveryRowOnce
(* A core drains its pipeline with its last task and no other.             *)
DrainsLast ==
  /\ part = "walk" => W!DrainsLast
  /\ part = "fused" => F!DrainsLast
(* A tile fits its slot, and an engine's share half of it.                 *)
RowsFit ==
  /\ part = "walk" => W!RowsFit
  /\ part = "fused" => F!RowsFit
(* Every sequence gets its new keys (which the code does not do).          *)
CacheUpdatedByEvery == part = "walk" => W!CacheUpdatedByEvery
(* Every row attends to the keys its mask lets it see, and to no other.    *)
RowsRight == part = "range" => R!RowsRight
(* The cache ends up with the new keys behind the old ones.                *)
CacheUpdated == part = "range" => R!CacheUpdated
(* A tile reads only rows of the cache that are keys of its sequence and   *)
(* that no other tile may be writing.                                      *)
ReadsSettled == part = "range" => R!TypeOK /\ R!ReadsSettled
(* Rows that see no key are zero (which flash-decode does not ensure).     *)
EveryEmptyRowZero == part = "range" => R!EveryEmptyRowZero
(* Keys and values are read from their rows of their pages.                *)
RowsOfPages == part = "pages" => P!RowsOfPages
(* New keys and values are stored where a later launch looks for them.     *)
NewRowsInPlace == part = "pages" => P!NewRowsInPlace
(* Every row of a tile, and its log-sum-exp, goes to its place of the      *)
(* output, or is cleared.                                                  *)
RowsInPlace == part = "rows" => T!RowsInPlace /\ T!LseInPlace

-----------------------------------------------------------------------------
Launch(q, new, g, h, c) ==
  [q |-> q, kv |-> [i \in DOMAIN q |-> 7 * i], new |-> new, group |-> g, kvHeads |-> h,
   causal |-> FALSE, coreNum |-> c]

(* Tiles of 12 rows: sequences of no row, less than a tile, and several    *)
(* tiles; head blocks that do not divide the group; more and fewer cores   *)
(* than tasks.                                                             *)
SmallLaunches == {Launch(q, new, g, h, c) :
                    q \in [1 .. 3 -> {0, 1, 4, 13}] \cup {<<5>>, <<25, 2>>},
                    new \in {0}, g \in {1, 3}, h \in {1, 2}, c \in {1, 3}}

(* Every number of rows beside the tile, in groups of several numbers.     *)
EveryTile == {Launch(<<q>>, 0, g, 1, 2) : q \in 1 .. 13, g \in {1, 2, 3, 4, 6, 7, 12, 13}}
SomeLaunches == SmallLaunches \cup EveryTile

(* New keys for a batch in which some sequence has no query.               *)
SomeWithoutQueries == {Launch(q, 4, g, 1, 2) : q \in [1 .. 3 -> {0, 1, 9}] \ {<<0, 0, 0>>}, g \in {1, 3}}

-----------------------------------------------------------------------------
(* Tiles of 16 rows in blocks of 2, half of each to a vector: sequences of *)
(* every length beside the tile; groups that hold a tile and that are held *)
(* by one, of every number beside the heads of a tile; launches with more  *)
(* and fewer sequences than cores; packed ones of one length and of several.*)
Fused(q, g, h, tnd, c) ==
  [q |-> q, group |-> g, kvHeads |-> h, tnd |-> tnd, coreNum |-> c]
OneLength == {Fused(<<q>>, g, h, tnd, 1) :
                q \in 1 .. 17, g \in {1, 2, 3, 6, 9}, h \in {1, 2, 5}, tnd \in BOOLEAN}
SameLength == {Fused([i \in 1 .. n |-> q], g, h, tnd, c) :
                 q \in {1, 5, 17}, n \in {1, 2}, g \in {1, 4}, h \in {1, 3}, tnd \in BOOLEAN, c \in {2, 3}}
Lengths == {Fused(q, gh[1], gh[2], TRUE, 3) :
              q \in [1 .. 3 -> {0, 7, 18}], gh \in {<<1, 3>>, <<3, 1>>, <<2, 2>>}}
SomeFused == OneLength \cup Lengths \cup SameLength

-----------------------------------------------------------------------------
(* Tiles of 2 rows, blocks of 3 keys.                                      *)
Sequence(q, kv, new, causal, left, right, d, b, decode) ==
  [decode |-> decode, q |-> q, kv |-> kv, new |-> new, causal |-> causal, left |-> left, right |-> right,
   maxQ |-> q + d, maxK |-> kv + new + d, bIdx |-> b]

(* Every window, causal or not, with the lengths the host goes by exact or *)
(* one too large.                                                          *)
Windows == {Sequence(q, kv, 0, FALSE, l, r, 0, 0, FALSE) :
              q \in 1 .. 5, kv \in 0 .. 8, l \in -1 .. 6, r \in {-1, 0, 1, 3}}
      \cup {Sequence(q, kv, 0, FALSE, l, r, 1, 0, FALSE) :
              q \in {2, 5}, kv \in {0, 4, 7, 8}, l \in -1 .. 3, r \in {-1, 0, 2}}
      \cup {Sequence(q, kv, 0, TRUE, l, -1, d, 0, FALSE) :
              q \in 1 .. 5, kv \in 0 .. 8, l \in -1 .. 6, d \in 0 .. 1}

(* New keys come with no window; the tile that writes them back depends on *)
(* the index of the sequence.                                              *)
Appends == {Sequence(q, kv, new, c, -1, -1, 0, b, FALSE) :
              q \in 1 .. 5, kv \in {0, 1, 3, 5, 7}, new \in 1 .. 4, c \in BOOLEAN, b \in 0 .. 1}

(* Flash-decode: one tile of rows, no window. *)
DecodeSequences == {Sequence(q, kv, new, c, -1, -1, 0, 0, TRUE) :
                      q \in 1 .. 2, kv \in {0, 1, 2, 3, 4, 8, 11, 14}, new \in 0 .. 4, c \in BOOLEAN}
AllSequences == Windows \cup Appends \cup DecodeSequences

-----------------------------------------------------------------------------
(* Stacks of 6 rows in chunks of 4; pages smaller and larger than a chunk  *)
(* and a stack, dividing them or not.  Two tasks, so that QK begins the    *)
(* second while PV is in the first; each from any stack on, with any       *)
(* number of rows in the last.                                             *)
PageTask(start, len, new) == [kvStart |-> start, len |-> len, new |-> new]
Firsts == {PageTask(0, 5, 0), PageTask(1, 15, 0), PageTask(0, 9, 7), PageTask(2, 23, 0)}
Seconds == {PageTask(start, len, new) : start \in 0 .. 1, len \in {7, 8, 11, 12, 13, 16, 17, 18, 20}, new \in {0, 1, 6, 11}}
SomeRuns == {[blockSize |-> b, tasks |-> <<f, s>>] :
               b \in {1, 2, 3, 4, 5, 6, 7, 9, 12, 16}, f \in Firsts, s \in Seconds}

-----------------------------------------------------------------------------
(* Tiles of 8 query rows, 4 to an engine.                                  *)
RowsTile(q, s, heads, loop, prefix, suffix, split, gap) ==
  [qSeqlen |-> q, qSBlockIdx |-> s, n |-> heads, rowNumTile |-> loop, prefix |-> prefix,
   suffix |-> suffix, isSplitkv |-> split, qHeads |-> heads + gap, lseHeadStride |-> q + gap]

(* Tiles of several heads hold the whole sequence, and fit the slot        *)
(* (TaskWalk!RowsFit); one head can have several tiles.                    *)
Heads(q) == {1} \cup {heads \in 2 .. 8 : q * ((heads + 1) \div 2) <= 4}
Blocks(q, heads) == IF heads = 1 THEN 0 .. (q - 1) \div 8 ELSE {0}

(* Every number of heads and rows, every length of a loop, every prefix or *)
(* suffix of rows that see no key; gap: other heads and rows beside it.    *)
WholeTiles ==
  UNION {UNION {
    {RowsTile(q, s, heads, loop, prefix, 0, FALSE, 2) :
       s \in Blocks(q, heads), loop \in 1 .. 4, prefix \in 1 .. q}
    \cup {RowsTile(q, s, heads, loop, q, suffix, FALSE, 0) :
       s \in Blocks(q, heads), loop \in 1 .. 4, suffix \in 1 .. q - 1}
    : heads \in Heads(q)} : q \in 1 .. 17}
CutTiles ==
  UNION {{RowsTile(q, 0, heads, loop, q, 0, TRUE, 0) : heads \in Heads(q), loop \in 1 .. 4} : q \in 1 .. 8}
SomeTiles == WholeTiles \cup CutTiles

NoneOfThem == {}
=============================================================================
