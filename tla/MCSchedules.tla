---------------------------- MODULE MCSchedules ----------------------------
(***************************************************************************)
(* How the work of a launch is dealt to the cores, in four parts that      *)
(* share no state: FaSplit (the flash-decode plan of the 910), FlashDecode *)
(* (such a plan and the launch that runs it), DetRounds (the deterministic *)
(* backward pass of the 950) and FagV2Segments (the backward pass over     *)
(* packed sequences, v2).  A behaviour is one of one part, so that the     *)
(* states add up and do not multiply.                                      *)
(***************************************************************************)
EXTENDS Integers, Sequences, FiniteSets

CONSTANTS Shapes, Q_TILE_CEIL, MAX_KV_STACK_LEN, CORE_CAP, WORD             \* FaSplit
CONSTANTS DecodeShapes, DECODE_TILE, DECODE_STACK_LEN, DECODE_CAP,          \* FlashDecode
          Unwritten, Garbage
CONSTANTS TILE, Launches, Unset                                             \* DetRounds
CONSTANTS Calls                                                             \* FagV2Segments

VARIABLES part,
  shape, pc, now, core, res, info, nodes, first, rows,
  launched, tileAt, off, partial, turn, written,
  launch, plan, schedule, step, sets, waits, vec, published, freed, open, started, buf, hasData, dq, out,
  call, walk, at, lists, running, dealt

F == INSTANCE FaSplit
K == INSTANCE FlashDecode WITH Shapes <- DecodeShapes, Q_TILE_CEIL <- DECODE_TILE,
                               MAX_KV_STACK_LEN <- DECODE_STACK_LEN, CORE_CAP <- DECODE_CAP,
                               at <- tileAt, out <- written
D == INSTANCE DetRounds
S == INSTANCE FagV2Segments WITH pc <- walk

ASSUME SchedulesAssumption ==
  F!SplitAssumption /\ K!SplitAssumption /\ TILE \in Nat \ {0} /\ D!RoundsAssumption

splitVars == <<shape, pc, now, core, res, info, nodes, first, rows>>
decodeVars == <<launched, tileAt, off, partial, turn, written>>
roundVars == <<launch, plan, schedule, step, sets, waits, vec, published, freed, open, started, buf,
               hasData, dq, out>>
segmentVars == <<call, walk, at, lists, running, dealt>>
vars == <<part, splitVars, decodeVars, roundVars, segmentVars>>

NoSplit ==
  /\ shape = {} /\ pc = {} /\ now = {} /\ core = {} /\ res = {} /\ info = {} /\ nodes = {}
  /\ first = {} /\ rows = {}
NoDecode ==
  launched = {} /\ tileAt = {} /\ off = {} /\ partial = {} /\ turn = {} /\ written = {}
NoRounds ==
  /\ launch = {} /\ plan = {} /\ schedule = {} /\ step = {} /\ sets = {} /\ waits = {} /\ vec = {}
  /\ published = {} /\ freed = {} /\ open = {} /\ started = {} /\ buf = {} /\ hasData = {}
  /\ dq = {} /\ out = {}
NoSegments ==
  call = {} /\ walk = {} /\ at = {} /\ lists = {} /\ running = {} /\ dealt = {}

Init ==
  \/ part = "split" /\ F!Init /\ NoDecode /\ NoRounds /\ NoSegments
  \/ part = "decode" /\ K!FDInit /\ NoRounds /\ NoSegments
  \/ part = "rounds" /\ D!Init /\ NoSplit /\ NoDecode /\ NoSegments
  \/ part = "segments" /\ S!Init /\ NoSplit /\ NoDecode /\ NoRounds

Decode(A) == part = "decode" /\ A /\ UNCHANGED <<part, roundVars, segmentVars>>
Next ==
  \/ part = "split" /\ F!Next /\ UNCHANGED <<part, decodeVars, roundVars, segmentVars>>
  \/ Decode(K!FDNext)
  \/ part = "rounds" /\ D!Next /\ UNCHANGED <<part, splitVars, decodeVars, segmentVars>>
  \/ part = "segments" /\ S!Next /\ UNCHANGED <<part, splitVars, decodeVars, roundVars>>

Spec == Init /\ [][Next]_vars

(* Every K/V block of every tile is given to a core, and to one only; and  *)
(* no core visits a tile it has no block of.                               *)
EveryBlockOnce == part = "split" => F!EveryBlockOnce /\ F!NoEmptyVisit
(* The cut tiles the combine step is told of are all there are.            *)
NodesComplete == part = "split" => F!NodesComplete
(* Partial results fit the workspace reserved before the lengths were known, *)
(* where each core leaves them; a segment has a place for each of its        *)
(* blocks, the same for every engine.                                        *)
WithinReservation ==
  /\ part = "split" => F!WithinReservation
  /\ part = "decode" => K!PartialsInPlace
  /\ part = "segments" => S!WithinReservation
(* No core has much more than its share.                                   *)
EvenLoad ==
  /\ part = "split" => F!EvenLoad
  /\ part = "segments" => S!EvenLoad
(* A tile without keys is given to a core too (which the code forgets).    *)
EmptyTilesInitialised == part = "split" => F!EmptyTilesInitialised
(* A partial row stays as it was written until the launch ends: the        *)
(* offsets that the cores work out on their own never meet.                *)
PartialsKept == [][part = "decode" => K!PartialsStay]_vars
(* The buffers of the combine step have room for half a tile (which they   *)
(* have not).                                                              *)
CombineFits == part = "decode" => K!CombineFits
(* The shares of a gradient are added by rounds, whichever core is faster. *)
AddedByRounds == part = "rounds" => D!AddedByRounds
(* Every gradient is made of every visible tile of its row or column, once; *)
(* every visible block is in one segment of one core.                       *)
EveryTileOnce ==
  /\ part = "rounds" => D!EveryTileOnce
  /\ part = "segments" => S!EveryTileOnce

(* A flash-decode launch implements RowOutputs: every output row is        *)
(* written exactly once, from all its K/V blocks; by the core that has the *)
(* whole tile or by the combine step, never by both, and from no partial   *)
(* row of another tile, missing part or part merged twice; and when no     *)
(* core has anything left to do, no row is left.                           *)
R == INSTANCE RowOutputs WITH want <- IF part = "decode" THEN K!Wanted ELSE << >>,
                              out <- IF part = "decode" THEN written ELSE << >>,
                              ended <- part = "decode" /\ K!Ended
RowsSpec == R!Spec

-----------------------------------------------------------------------------
Shaped(q, kv, new, group, headsK, cores, splits) ==
  [q |-> q, kv |-> kv, new |-> new, heads |-> group * headsK, headsK |-> headsK,
   cores |-> cores, splits |-> splits]

(* Few and small launches, one batch or more, that pass the host's check   *)
(* of the rows of a tile and of the cores, whatever their keys: 40 query   *)
(* rows of up to 3 heads, or fewer rows of up to 9.                        *)
OneBatch == {Shaped(<<q>>, <<kv>>, new, g, h, c, s) :
               q \in {1, 14, 40}, kv \in {0, 1, 2816}, new \in {0, 600}, g \in {1, 3, 9},
               h \in 1 .. 2, c \in {3, 5}, s \in {0, 1, 3}}
MoreBatches == {Shaped([i \in DOMAIN kv |-> 1 + (i % 2)], kv, new, g, h, c, s) :
                  kv \in {<<a, b>> : a \in {0, 1, 1024, 1600}, b \in {0, 1, 1024, 1600}}
                         \cup {<<a, b, d>> : a \in {0, 700, 1536}, b \in {0, 1}, d \in {0, 1100}},
                  new \in {0, 1}, g \in {1, 3, 40}, h \in 1 .. 3, c \in {4, 7}, s \in {0, 1, 2}}
SmallShapes ==
  {x \in OneBatch \cup MoreBatches :
     /\ \A i \in DOMAIN x.q : x.q[i] * (x.heads \div x.headsK) <= 128
     /\ Len(x.q) * x.headsK < x.cores
     /\ \E i \in DOMAIN x.kv : x.kv[i] + x.new > 0}

(* The gate of flash_api.cpp 630-638, as it stands. *)
Gate(x) ==
  LET g == x.heads \div x.headsK
      tasks == Len(x.q) * x.headsK
      longest(n) == \E i \in DOMAIN x.kv : x.kv[i] + x.new >= n
  IN /\ \A i \in DOMAIN x.q : 0 < x.q[i] /\ x.q[i] <= 16 /\ x.q[i] * g <= 128
     /\ \/ 10 * tasks <= 8 * x.cores /\ longest(512 * x.cores) /\ longest(1024)
        \/ 10 * tasks <= 4 * x.cores /\ longest(1024)

(* Launches in the sizes of the code, with its gate. *)
RealShapes ==
  {x \in {Shaped([i \in DOMAIN kv |-> q], kv, new, g, h, IF new = 0 THEN 24 ELSE 20, s) :
            q \in {1, 14, 16}, g \in {8, 9, 40},
            kv \in {<<1024>>, <<1024, 0>>, <<12800, 12288>>, <<1, 2000, 513>>, <<24576, 0, 700, 1300>>},
            new \in {0, 200}, h \in {1, 3, 19}, s \in {0, 1, 24}} :
     Gate(x)}

AllShapes == SmallShapes \cup RealShapes

(* Flash-decode launches in tiles of 8 rows and blocks of 2 keys.  All the *)
(* cores needed or fewer than there are, tiles in halves of unequal rows.  *)
SomeDecodes ==
  {x \in {Shaped([i \in DOMAIN kv |-> q], kv, new, g, h, c, s) :
            q \in {1, 3}, kv \in {<<5>>, <<8>>, <<3, 6>>}, new \in {0, 3},
            g \in {1, 2, 3}, h \in {1, 2}, c \in {3, 5}, s \in {0, 2}} :
     /\ (x.splits = 2) = (x.cores = 5 /\ x.headsK = 2)
     /\ x.kv = <<5>> => x.new = 0
     /\ x.kv = <<8>> => x.new = 3
     /\ \A i \in DOMAIN x.q : x.q[i] * (x.heads \div x.headsK) <= 8
     /\ Len(x.q) * x.headsK < x.cores}

(* A launch in the sizes of the code: 3 query rows for 40 query heads that *)
(* share one K/V head, cut over 24 cores.                                  *)
WideHalf == {Shaped(<<3>>, <<24 * 512>>, 0, 40, 1, 24, 0)}

(* Launches with a batch that has no keys: one tile per core, as num_splits *)
(* = 1 asks, and the greedy split, whose first core has its budget used up *)
(* exactly when it reaches the empty batch.  Either loses an empty tile.   *)
EmptyBatches == {Shaped(<<1, 1>>, <<2048, 0>>, 0, 1, 2, 24, 1),
                 Shaped(<<1, 1, 1>>, <<1024, 0, 23552>>, 0, 1, 4, 24, 0)}

-----------------------------------------------------------------------------
(* Launches of the deterministic pass, in tiles of 2 rows.                 *)
Fixed(n, q, kv, h, g, mask, left, right, k) ==
  [layout |-> "BSND", q |-> [i \in 1 .. n |-> q], kv |-> [i \in 1 .. n |-> kv], heads |-> h, group |-> g,
   mask |-> mask, left |-> left, right |-> right, cores |-> k]
Ragged(q, kv, h, g, mask, k) ==
  [layout |-> "TND", q |-> q, kv |-> kv, heads |-> h, group |-> g,
   mask |-> mask, left |-> -1, right |-> -1, cores |-> k]

(* Without a mask: fewer and more rows of tiles than cores, groups.        *)
Unmasked ==
  {Fixed(n, q, kv, 1, g, "none", -1, -1, n + 1) :
     n \in 1 .. 2, q \in {1, 4, 6}, kv \in {2, 5}, g \in 1 .. 2}
  \cup {Fixed(1, 3, kv, 1, 3, "none", -1, -1, 2) : kv \in {2, 7}}
  \cup {Fixed(1, q, 5, 2, g, "none", -1, -1, 4) : q \in {1, 4}, g \in 1 .. 2}

(* Folded triangles, and other causal shapes on the schedules without one. *)
(* Left out: the triangles with more keys than queries (MoreKeys).         *)
Squares == {Fixed(2, q, q, 1, 1, "causal", -1, -1, k) : q \in 3 .. 6, k \in 2 .. 3}
Oblong ==
  {Fixed(n, q, kv, 1, g, "causal", -1, -1, 2) : n \in 1 .. 2, q \in {2, 3, 5}, kv \in {2, 7}, g \in 1 .. 2}
  \cup {Fixed(1, q, q + 1, 1, 1, "causal", -1, -1, 2) : q \in {3, 5}}
  \cup {Fixed(2, 4, 3, 1, 1, "causal", -1, -1, 2)}
MoreKeys ==
  {Fixed(2, q, q + 1, 1, 1, "causal", -1, -1, k) : q \in {3, 5}, k \in 2 .. 3}

(* Windows, some of which leave out columns of keys. *)
Bands ==
  {Fixed(1, q, kv, 1, IF kv = 4 THEN 2 ELSE 1, "band", left, right, 2) :
     q \in {3, 4}, kv \in {4, 7}, left \in {-1, 0, 2}, right \in {-1, 0, 1}}

(* Sequences of several lengths, dense, in groups and causal, with heads   *)
(* for whole turns of the cores, pairs and a last one.                     *)
RaggedDense ==
  {Ragged(q, kv, h, g, "none", h + 1) :
     q \in {<<2, 3>>, <<5, 4>>}, kv \in {<<2, 5>>, <<3, 4>>}, h \in 1 .. 2, g \in 1 .. 2}
  \cup {Ragged(q, kv, 1, g, "causal", 2) :
          q \in {<<3, 4>>, <<2, 5>>}, kv \in {<<5, 4>>, <<1, 6>>}, g \in 1 .. 2}
RaggedCausal ==
  {Ragged(q, q, h, 1, "causal", k) : q \in {<<3, 4>>, <<2, 5>>, <<4>>, <<5, 3>>}, h \in 1 .. 3, k \in 2 .. 3}

SomeLaunches ==
  Unmasked \cup Squares \cup Oblong \cup Bands \cup RaggedDense \cup RaggedCausal
NoneOfThem == {}

-----------------------------------------------------------------------------
(* Launches of the segments, in blocks: up to 18 columns, so that rows are *)
(* cut into several segments of 16; sequences without blocks; a causal     *)
(* launch has as many keys as queries.                                     *)
Call(s1, s2, h, causal, k) == [s1 |-> s1, s2 |-> s2, heads |-> h, causal |-> causal, cores |-> k]
SomeCalls ==
  {Call(<<q>>, <<kv>>, h, FALSE, k) : q \in 0 .. 4, kv \in {0, 1, 3, 7, 8, 18}, h \in 1 .. 2, k \in 1 .. 2}
  \cup {Call(<<q>>, <<q>>, h, TRUE, k) : q \in {0, 1, 4, 5, 9, 17}, h \in 1 .. 3, k \in 2 .. 3}
  \cup {Call(s, s, h, TRUE, 2) :
           s \in {<<a, b, c>> : a \in {0, 1, 6}, b \in {0, 3, 7}, c \in {0, 2, 9}}, h \in 1 .. 2}
  \cup {Call(s, <<s[2], s[1]>>, h, FALSE, 3) : s \in {<<a, b>> : a \in {0, 2, 5}, b \in {0, 1, 7}},
                                             h \in 1 .. 2}
=============================================================================
