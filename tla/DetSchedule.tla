---------------------------- MODULE DetSchedule ----------------------------
(***************************************************************************)
(* The schedule of the deterministic backward pass of the 950: which tile  *)
(* of queries and keys each core takes in each round                       *)
(* (src/csrc/ascend950/flash_attn_npu_3/fag_det_schedule.hpp), and how the *)
(* host picks one and counts its rounds (fag_det_schedule_host.hpp and     *)
(* fag_tiling.cpp).                                                        *)
(*                                                                         *)
(* A launch x has q[i] and kv[i] rows in sequence i (all the same unless   *)
(* its layout is "TND"), `heads` K/V heads of `group` query heads, a mask  *)
(* ("none", "causal" or "band", with `left` and `right` keys, -1 for no    *)
(* limit) and `cores`.  The schedules number cores, rounds, heads and      *)
(* tiles from 1; what Task returns counts from 0, as in the kernel.        *)
(*                                                                         *)
(* Of the schedules, two are left out: KIND_CAUSAL_SWIZZLE, and LEFT_UP    *)
(* for other than a square of tiles, which SelectSchedule never picks.     *)
(***************************************************************************)
EXTENDS Integers, Sequences

CONSTANT TILE   \* rows of a tile, of queries (qTile) and of keys (kvTile)

DetMin(a, b) == IF a < b THEN a ELSE b
DetMax(a, b) == IF a > b THEN a ELSE b
DetCeil(a, b) == (a + b - 1) \div b
DetGcd(a, b) == CHOOSE d \in 1 .. DetMin(a, b) :
                  /\ a % d = 0 /\ b % d = 0
                  /\ \A e \in d + 1 .. DetMin(a, b) : a % e # 0 \/ b % e # 0
(* "x % n, or n where that is zero": the place of number x in rows of n. *)
Nth(x, n) == ((x - 1) % n) + 1

-----------------------------------------------------------------------------
(* The launch, in tiles. *)
batch(x) == Len(x.q)
TndBatchOuterQ(x, i) == DetCeil(x.q[i], TILE)
TndBatchOuterK(x, i) == DetCeil(x.kv[i], TILE)
M(x) == TndBatchOuterQ(x, 1)
N(x) == TndBatchOuterK(x, 1)
Bh(x) == batch(x) * x.heads
N1(x) == x.heads * x.group
Causal(x) == x.mask = "causal"

(* Sums over the first i sequences, of Of[1], Of[2], ... *)
Prefix(Of) == LET sum[i \in 0 .. Len(Of)] == IF i = 0 THEN 0 ELSE sum[i - 1] + Of[i] IN sum
Largest(Of) == CHOOSE v \in {Of[i] : i \in DOMAIN Of} : \A i \in DOMAIN Of : Of[i] <= v

-----------------------------------------------------------------------------
(* Batches of one length.  A raw coordinate is <<head and sequence, tile   *)
(* of queries, tile of keys>>, or Hole where a core has nothing to do.     *)
Hole == <<>>
CalDenseIndex(cores, m, n, b, j, r) ==
  LET k == DetMin(cores, b * m)
      p == (DetCeil(r, m) - 1) * k + j
      y == DetCeil(p, b)
  IN IF j <= k /\ y <= n THEN <<Nth(p, b), Nth(Nth(y, m) + Nth(r, m) - 1, m), y>> ELSE Hole

CalDenseSwizzleIndex(cores, m, n, b, core, round) ==
  LET j == core - 1
      r == round - 1
      k == DetMin(cores, b * m)
      p == (r \div m) * k + j
  IN IF j <= k /\ p \div n < b
     THEN <<p \div n + 1, (((p % n) + r) % m) + 1, (p % n) + 1>> ELSE Hole

(* Two heads' triangles of n tiles fold into a rectangle of n by n + 1:    *)
(* below its diagonal is the first head's, above it the second's, turned.  *)
CalCausalSwizzleIndex(cores, n, b, j, r) ==
  LET c == CalDenseSwizzleIndex(cores, n, n + 1, b \div 2, j, r)
  IN CASE c = Hole -> Hole
       [] c # Hole /\ c[3] > c[2] -> <<2 * c[1], n + 1 - c[2], n + 2 - c[3]>>
       [] OTHER -> <<2 * c[1] - 1, c[2], c[3]>>

(* foldInfo: the buffer of a task, and the column of each buffer, <<head   *)
(* and sequence, tile of keys>>: the two columns a column of the rectangle *)
(* holds.  (None is past the last: the first head has no column n + 1.)    *)
parity(c) == IF c[1] % 2 = 1 THEN 0 ELSE 1
FoldInfo(n, c) ==
  LET odd == IF parity(c) = 0 THEN c[1] ELSE c[1] - 1
      column == IF parity(c) = 0 THEN c[3] ELSE n + 2 - c[3]
  IN [p \in 0 .. 1 |-> IF p = 0 THEN IF column <= n THEN <<odd, column>> ELSE Hole
                       ELSE IF column >= 2 THEN <<odd + 1, n + 2 - column>> ELSE Hole]

CalLeftUpCausalSwizzleIndex(cores, n, b, j, r) ==
  LET activeK == DetMin(cores, n * (b \div 2))
  IN IF j <= activeK THEN CalCausalSwizzleIndex(activeK, n, b, j, r) ELSE Hole

(* Where a group of heads shares its keys, a core takes R columns one      *)
(* after the other; some change places so that no two cores meet in a row. *)
GqaRound(k, m, n, b, g) == DetMax(DetMax(DetCeil(b * n * g, k), DetCeil(n, m)), g)
GqaCores(cores, m, n, b, g) == DetMin(DetMin(cores, b * g * m), b * n)
Moved(ID, R, heads, m, n) ==
  LET gcd == DetGcd(heads, R)
      t1 == R \div gcd
      t2 == heads \div gcd
      y == DetCeil(ID, heads)
      offset == DetCeil(Nth(y, t1 * m), t1)
      delta == DetCeil(y, t1 * m)
  IN CASE t1 * m >= n \/ y > n - Nth(n, t1 * m) -> ID
       [] ID + delta > (delta - 1) * t2 * m * R + offset * t2 * R -> ID + delta - t2 * R
       [] OTHER -> ID + delta
CalGQADenseIndex(cores, m, n, b, g, j, r) ==
  LET k == GqaCores(cores, m, n, b, g)
      R == GqaRound(k, m, n, b, g)
      heads == b * g
      first == (j - 1) * R + DetCeil(r, m)
      ID == Moved(first, R, heads, m, n)
      t1 == R \div DetGcd(heads, R)
      offset == DetCeil(Nth(DetCeil(first, heads), t1 * m), t1)
  IN IF j <= k /\ r <= R * m /\ first <= g * n * b
     THEN <<Nth(ID, g) + (DetCeil(Nth(ID, heads), g) - 1) * g,
            Nth(Nth(r, m) + offset - 1, m), DetCeil(ID, heads)>>
     ELSE Hole

-----------------------------------------------------------------------------
(* Sequences of several lengths ("TND").  A task is <<sequence, K/V head,  *)
(* head of its group, tile of queries, tile of keys>>, from 0 but for the  *)
(* sequence, or Hole.                                                      *)

(* The first sequence whose prefix, times n, is not passed yet. *)
SequenceOf(prefix, n, i, last) ==
  CHOOSE w \in 1 .. last : /\ w = last \/ i <= prefix[w] * n
                           /\ \A v \in 1 .. w - 1 : i > prefix[v] * n

CalTNDDenseSwizzleIndex(x, prefix, j, r) ==
  LET b == SequenceOf(prefix, 1, r, batch(x))
      delta == r - 1 - prefix[b - 1]
      columns == TndBatchOuterK(x, b)
      linearIdx == (delta \div TndBatchOuterQ(x, b)) * x.cores + j - 1
      n1Idx == linearIdx \div columns
      s2Idx == linearIdx % columns
  IN IF r > prefix[batch(x)] \/ linearIdx >= columns * N1(x) THEN Hole
     ELSE <<b, n1Idx \div x.group, n1Idx % x.group, (s2Idx + delta) % TndBatchOuterQ(x, b), s2Idx>>

(* The shift of some tiles by a place, so that lanes maxRound apart never  *)
(* meet in a row of m: of delta, the number of a tile in n columns of m.   *)
Shifted(delta, m, n, maxRound) ==
  LET t1 == maxRound \div DetGcd(m, maxRound)
      t2 == m \div DetGcd(m, maxRound)
      y == DetCeil(delta, m)
      adj == DetCeil(y, t1)
  IN CASE t1 >= n \/ y > n - Nth(n, t1) -> delta
       [] delta + adj > adj * t2 * maxRound -> delta + adj - t2 * maxRound
       [] OTHER -> delta + adj

CalTNDDenseGqaIndex(x, areaPrefix, maxRound, j, r) ==
  LET ID == (j - 1) * maxRound + r
      w == SequenceOf(areaPrefix, N1(x), ID, batch(x))
      m == TndBatchOuterQ(x, w)
      n == TndBatchOuterK(x, w)
      place == ID - areaPrefix[w - 1] * N1(x)
      base == m * n * x.group
      delta == Shifted(Nth(place, base), m * x.group, n, maxRound)
      row == Nth(delta, m * x.group)
  IN IF ID > areaPrefix[batch(x)] * N1(x) THEN Hole
     ELSE <<w, (place - 1) \div base, (row - 1) \div m, (row - 1) % m, DetCeil(delta, m * x.group) - 1>>

-----------------------------------------------------------------------------
(* Square causal sequences of several lengths.  The heads are dealt to the *)
(* cores in three ways, one after the other: `whole` heads to each core,   *)
(* then pairs folded into rectangles, then the upper and the lower part of *)
(* the last head, if one is left.                                          *)
whole(x) == x.heads \div x.cores
pairs(x) == (x.heads % x.cores) \div 2
single(x) == (x.heads % x.cores) % 2

(* The rectangle a part of a triangle of m tiles becomes (n = m). *)
CalVirtualIndex(part, m) ==
  CASE part = 0 -> [m |-> m + 1, n |-> m]
    [] part = 1 -> [m |-> m - ((m + 1) \div 2) + 1, n |-> m \div 2]
    [] part = 2 -> [m |-> m - (m \div 2), n |-> (m + 1) \div 2]
Rectangles(x, part) == [i \in DOMAIN x.q |-> CalVirtualIndex(part, TndBatchOuterQ(x, i))]
Areas(rectangles) == Prefix([i \in DOMAIN rectangles |-> rectangles[i].m * rectangles[i].n])

(* The rounds of a part, and the prefixes its tiles are found by. *)
PartRounds(x, rectangles, n) ==
  IF n = 0 THEN 0
  ELSE DetMax(DetCeil(Areas(rectangles)[batch(x)] * n, x.cores),
              Largest([i \in DOMAIN rectangles |-> rectangles[i].m]))
ComputeTndCausalParams(x) ==
  [p |-> [part \in 0 .. 2 |-> Areas(Rectangles(x, part))],
   wholeRounds |-> (Areas(Rectangles(x, 0))[batch(x)] \div 2) * whole(x),
   rounds |-> [part \in 0 .. 2 |->
                 PartRounds(x, Rectangles(x, part), IF part = 0 THEN pairs(x) ELSE single(x))]]

(* Tile a of a triangle, column by column; two columns make one of m + 1.  *)
CalCausalPosWholeBatch(m, a) ==
  LET even == (m \div 2) * 2
      L == 2 * m - even + 1
      y == DetCeil(a, L)
      x == Nth(a, L) + y - 1
      rm == (even * L) \div 2
  IN CASE a > rm -> [x |-> a - rm - 1 + m, y |-> m]
       [] a <= rm /\ x > m -> [x |-> 2 * m + 1 - x, y |-> even + 1 - y]
       [] OTHER -> [x |-> x, y |-> y]

WholeHead(x, tc, j, r) ==
  LET w == SequenceOf(tc.p[0], whole(x), 2 * r, batch(x))
      m == TndBatchOuterQ(x, w)
      a == r - (tc.p[0][w - 1] * whole(x)) \div 2
      roundBatch == ((m + 1) * m) \div 2
      at == CalCausalPosWholeBatch(m, Nth(a, roundBatch))
      turn == (a - 1) \div roundBatch
  IN <<w, turn * x.cores + ((at.y + j - 2) % x.cores), 0, at.x - 1, at.y - 1>>

(* CalTNDDenseCausalIndex: lane j's tile of a part, in its rectangle, and  *)
(* which rectangle, of `inner` for each sequence.                          *)
CalTNDDenseCausalIndex(x, tc, part, inner, j, r) ==
  LET R == tc.rounds[part]
      ID == (j - 1) * R + r
      w == SequenceOf(tc.p[part], inner, ID, batch(x))
      v == Rectangles(x, part)[w]
      place == ID - tc.p[part][w - 1] * inner
      delta == Shifted(Nth(place, v.m * v.n), v.m, v.n, R)
  IN [comb |-> (w - 1) * inner + (place - 1) \div (v.m * v.n) + 1, m |-> TndBatchOuterQ(x, w),
      x |-> Nth(delta, v.m), y |-> DetCeil(delta, v.m)]

(* A rectangle unfolds into the lower triangle, or the other one turned. *)
Below(c) == c.x > c.y
Unfolded(c) == IF Below(c) THEN [x |-> c.x - 1, y |-> c.y] ELSE [x |-> c.m + 1 - c.x, y |-> c.m + 1 - c.y]

PairedHead(x, tc, j, r) ==
  LET c == CalTNDDenseCausalIndex(x, tc, 0, pairs(x), j, r)
      head == whole(x) * x.cores + 2 * Nth(c.comb, pairs(x)) - (IF Below(c) THEN 1 ELSE 0)
  IN <<DetCeil(c.comb, pairs(x)), head - 1, 0, Unfolded(c).x - 1, Unfolded(c).y - 1>>
LastHead(x, tc, part, j, r) ==
  LET c == CalTNDDenseCausalIndex(x, tc, part, 1, j, r)
      at == IF part = 1 THEN Unfolded(c) ELSE [x |-> c.x + (c.m \div 2), y |-> c.y]
  IN <<c.comb, x.heads - 1, 0, at.x - 1, at.y - 1>>

(* The tile there, unless the numbers lead out of the launch. *)
Within(x, t) ==
  IF /\ t[1] <= batch(x) /\ t[2] < x.heads
     /\ t[4] \in 0 .. TndBatchOuterQ(x, t[1]) - 1 /\ t[5] \in 0 .. TndBatchOuterK(x, t[1]) - 1
  THEN t ELSE Hole
CalTNDCausalIndex(x, tc, j, r) ==
  LET r0 == r - tc.wholeRounds
      r1 == r0 - tc.rounds[0]
      r2 == r1 - tc.rounds[1]
  IN CASE r0 <= 0 -> Within(x, WholeHead(x, tc, j, r))
       [] r0 > 0 /\ r1 <= 0 -> Within(x, PairedHead(x, tc, j, r0))
       [] r1 > 0 /\ r2 <= 0 -> Within(x, LastHead(x, tc, 1, j, r1))
       [] OTHER -> Within(x, LastHead(x, tc, 2, j, r2))

-----------------------------------------------------------------------------
(* What the host chooses (GetFAGTilingParam). *)

SelectSchedule(causal, b, m, n, g, k) ==
  CASE g = 1 /\ causal /\ b % 2 = 0 /\ m = n /\ m > 1 -> "LEFT_UP_CAUSAL_SWIZZLE"
    [] g > 1 -> "GQA_DENSE"
    [] OTHER -> IF m >= k THEN "DENSE_SWIZZLE" ELSE "DENSE_INDEX"

ScheduleMaxRound(kind, b, m, n, g, k) ==
  CASE kind \in {"DENSE_SWIZZLE", "DENSE_INDEX"} -> DetCeil(n * b, DetMin(k, m * b)) * m
    [] kind = "LEFT_UP_CAUSAL_SWIZZLE" ->
         m * DetCeil((m + 1) * (b \div 2), DetMin(k, m * (b \div 2)))
    [] kind = "GQA_DENSE" -> GqaRound(GqaCores(k, m, n, b, g), m, n, b, g) * m

(* No more cores than it takes for the same number of rounds. *)
ActiveCores(kind, b, m, n, g, k) ==
  CHOOSE c \in 1 .. k :
    /\ ScheduleMaxRound(kind, b, m, n, g, c) = ScheduleMaxRound(kind, b, m, n, g, k)
    /\ \A d \in 1 .. c - 1 :
         ScheduleMaxRound(kind, b, m, n, g, d) # ScheduleMaxRound(kind, b, m, n, g, k)

(* detPrivDkv: the gradients of keys and values gather in the core's own   *)
(* buffers, bufNum of them, and not in the workspace all cores add to.     *)
FixedPlan(x) ==
  LET kind == SelectSchedule(Causal(x), Bh(x), M(x), N(x), x.group, x.cores)
      rounds == ScheduleMaxRound(kind, Bh(x), M(x), N(x), x.group, x.cores)
      folds == kind = "LEFT_UP_CAUSAL_SWIZZLE"
  IN [kind |-> kind, maxRound |-> rounds, privDkv |-> x.group = 1,
      cores |-> ActiveCores(kind, Bh(x), M(x), N(x), x.group, x.cores),
      bufNum |-> IF folds THEN 2 ELSE 1, columnRounds |-> M(x)]

(* Whether no two cores of a round can meet in a row of tiles. *)
TndDenseSafe(x) ==
  \A i \in DOMAIN x.q : TndBatchOuterQ(x, i) >= DetMin(x.cores, TndBatchOuterK(x, i))
TndDensePrefix(x) ==
  Prefix([i \in DOMAIN x.q |-> DetCeil(N1(x) * TndBatchOuterK(x, i), x.cores) * TndBatchOuterQ(x, i)])
AreaPrefix(x) == Prefix([i \in DOMAIN x.q |-> TndBatchOuterQ(x, i) * TndBatchOuterK(x, i)])
FlatRounds(x) ==
  LET s1Max == Largest([i \in DOMAIN x.q |-> TndBatchOuterQ(x, i)])
      s2Max == Largest([i \in DOMAIN x.q |-> TndBatchOuterK(x, i)])
  IN DetMax(DetMax(DetCeil(AreaPrefix(x)[batch(x)] * N1(x), x.cores), s1Max * x.group), s2Max)

TndPlan(x) ==
  LET plan(kind, prefix, rounds, private) ==
        [kind |-> kind, prefix |-> prefix, maxRound |-> rounds, privDkv |-> private,
         cores |-> x.cores, bufNum |-> 1, columnRounds |-> 1]
      tc == ComputeTndCausalParams(x)
  IN CASE Causal(x) /\ x.group = 1 /\ x.q = x.kv ->
            plan("TND_CAUSAL", tc, tc.wholeRounds + tc.rounds[0] + tc.rounds[1] + tc.rounds[2], FALSE)
       [] x.group = 1 /\ ~(Causal(x) /\ x.q = x.kv) /\ TndDenseSafe(x) ->
            plan("TND_DENSE", TndDensePrefix(x), TndDensePrefix(x)[batch(x)], TRUE)
       [] OTHER -> plan("TND_GQA_DENSE", AreaPrefix(x), FlatRounds(x), FALSE)

Plan(x) == IF x.layout = "TND" THEN TndPlan(x) ELSE FixedPlan(x)

-----------------------------------------------------------------------------
(* What the kernel makes of it (DecodeBlock).                              *)

Raw(x, plan, j, r) ==
  CASE plan.kind = "DENSE_SWIZZLE" -> CalDenseSwizzleIndex(plan.cores, M(x), N(x), Bh(x), j, r)
    [] plan.kind = "DENSE_INDEX" -> CalDenseIndex(plan.cores, M(x), N(x), Bh(x), j, r)
    [] plan.kind = "LEFT_UP_CAUSAL_SWIZZLE" -> CalLeftUpCausalSwizzleIndex(plan.cores, M(x), Bh(x), j, r)
    [] plan.kind = "GQA_DENSE" -> CalGQADenseIndex(plan.cores, M(x), N(x), Bh(x), x.group, j, r)
RawToCoordTriple(x, w) ==
  <<(w - 1) \div N1(x) + 1, ((w - 1) % N1(x)) \div x.group, (w - 1) % x.group>>

Column(t) == <<t[1], t[2], t[3], t[5]>>
Decode(x, plan, j, r) ==
  LET c == Raw(x, plan, j, r)
      at(w, s2) == RawToCoordTriple(x, w) \o <<s2 - 1>>
      fold == FoldInfo(M(x), c)
  IN IF c = Hole THEN Hole
     ELSE [tile |-> RawToCoordTriple(x, c[1]) \o <<c[2] - 1, c[3] - 1>>,
           parity |-> IF plan.bufNum = 2 THEN parity(c) ELSE 0,
           fold |-> IF plan.bufNum = 1 THEN [p \in {0} |-> at(c[1], c[3])]
                    ELSE [p \in 0 .. 1 |-> IF fold[p] = Hole THEN Hole ELSE at(fold[p][1], fold[p][2])]]
TndDecode(x, plan, j, r) ==
  LET t == CASE plan.kind = "TND_DENSE" -> CalTNDDenseSwizzleIndex(x, plan.prefix, j, r)
             [] plan.kind = "TND_GQA_DENSE" -> CalTNDDenseGqaIndex(x, plan.prefix, plan.maxRound, j, r)
             [] plan.kind = "TND_CAUSAL" -> CalTNDCausalIndex(x, plan.prefix, j, r)
  IN IF t = Hole THEN Hole ELSE [tile |-> t, parity |-> 0, fold |-> [p \in {0} |-> Column(t)]]

(* Tiles outside the window are passed over, unless the schedule is of     *)
(* triangles.                                                              *)
Outside(x, tile) ==
  LET i == tile[1]
      s1Start == tile[4] * TILE
      s2Start == tile[5] * TILE
      s1Extend == DetMin(TILE, x.q[i] - s1Start)
      s2Extend == DetMin(TILE, x.kv[i] - s2Start)
      delta == x.kv[i] - x.q[i]
      right == IF Causal(x) THEN 0 ELSE x.right
  IN \/ x.mask = "band" /\ x.left >= 0 /\ s2Start + s2Extend <= s1Start + delta - x.left
     \/ x.mask # "none" /\ right >= 0 /\ s2Start >= s1Start + s1Extend + delta + right
DecodeBlock(x, plan, core, round) ==
  LET task == IF x.layout = "TND" THEN TndDecode(x, plan, core, round) ELSE Decode(x, plan, core, round)
      triangles == plan.kind \in {"LEFT_UP_CAUSAL_SWIZZLE", "TND_CAUSAL"}
  IN IF task # Hole /\ ~triangles /\ Outside(x, task.tile) THEN Hole ELSE task
=============================================================================
