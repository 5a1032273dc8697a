--------------------------- MODULE FagBlocksProofs ---------------------------
(*****************************************************************************)
(* Proofs about FagBlocks, for any number of cores, any sizes of blocks and  *)
(* any launches: the walk keeps to the sequences, heads, columns and rows of *)
(* the launch, and no block it deals out is empty or beyond its sequence.    *)
(*                                                                           *)
(* The arithmetic of the mask comes first (which blocks of a column are left,*)
(* and that their extents are not empty: ExtentsFit); the invariant BlocksInv*)
(* then says of the walk where it is (WalkSound), of the cores dealt to in   *)
(* this round that their blocks fit, and of a kept round that its blocks fit *)
(* up to the first core without one (RoundSound): behind it dbParams holds   *)
(* what an earlier round left there.                                         *)
(*                                                                           *)
(* The second half follows the blocks through the rounds.  Every cell of a   *)
(* launch, a block of rows of a head on a column of keys, is behind the walk *)
(* or not (WalkedBy); PairsInv says that what has been dealt is whole and    *)
(* behind the walk, no two of it alike (Apart), and that no cell behind the  *)
(* walk that some pair needs is missing (NoneLost).                          *)
(*                                                                           *)
(* The last part is about deterministic mode.  The number the walk gives a   *)
(* block is counted here from the blocks of the launch before it (Number),   *)
(* so the walk deals in the order of the numbers and a number is that of one *)
(* block; GroupsInv says that of the round at hand and of the kept ones      *)
(* (Linked): a block that is not the first of its tile names a core of the   *)
(* same round, at or before its own, with a block of that tile, and all that *)
(* share the tile in the round name the same one.                            *)
(*****************************************************************************)
EXTENDS FagBlocks, FiniteSetTheorems, TLAPS

(* Numbers.                                                                  *)
LEMMA DivIs ==
  ASSUME NEW a \in Int, NEW n \in Nat \ {0}
  PROVE  a \div n \in Int /\ (a \div n) * n <= a /\ a < (a \div n) * n + n
OBVIOUS

LEMMA TimesGrows ==
  ASSUME NEW a \in Int, NEW b \in Int, NEW n \in Nat, a <= b
  PROVE  a * n \in Int /\ b * n \in Int /\ a * n <= b * n
OBVIOUS

LEMMA NextTimes ==
  ASSUME NEW a \in Int, NEW n \in Nat
  PROVE  /\ a * n \in Int /\ (a + 1) * n = a * n + n /\ (a - 1) * n = a * n - n
OBVIOUS

LEMMA DivLess ==
  ASSUME NEW a \in Int, NEW b \in Int, NEW n \in Nat \ {0}, a < b * n
  PROVE  a \div n < b
BY DivIs, TimesGrows

LEMMA MaxOfTwo ==
  ASSUME NEW a \in Int, NEW b \in Int
  PROVE  Max({a, b}) = IF a >= b THEN a ELSE b
BY DEF Max
LEMMA MinOfTwo ==
  ASSUME NEW a \in Int, NEW b \in Int
  PROVE  Min({a, b}) = IF a <= b THEN a ELSE b
BY DEF Min

LEMMA CeilIs ==
  ASSUME NEW a \in Nat, NEW n \in Nat \ {0}
  PROVE  CeilDiv(a, n) \in Nat /\ (CeilDiv(a, n) - 1) * n < a /\ a <= CeilDiv(a, n) * n
<1> DEFINE x == (a + n - 1) \div n
<1>1. x \in Int /\ x * n <= a + n - 1 /\ a + n - 1 < x * n + n
  BY DivIs
<1>2. CeilDiv(a, n) = x
  BY DEF CeilDiv
<1> HIDE DEF x
<1>3. x * n \in Int /\ (x - 1) * n = x * n - n
  BY <1>1, NextTimes
<1>4. a <= x * n /\ (x - 1) * n < a
  BY <1>1, <1>3
<1>5. x >= 0
  <2> SUFFICES ASSUME x <= -1 PROVE FALSE
    BY <1>1
  <2>1. x * n <= (-1) * n
    BY <1>1, TimesGrows
  <2>2. (-1) * n = -n
    OBVIOUS
  <2>3. QED
    BY <1>3, <1>4, <2>1, <2>2
<1>6. QED
  BY <1>1, <1>2, <1>4, <1>5

LEMMA QuotIs ==
  ASSUME NEW a \in Int, NEW n \in Nat \ {0}
  PROVE  /\ Quot(a, n) \in Int
         /\ a >= 0 => Quot(a, n) = a \div n /\ Quot(a, n) >= 0
         /\ a < 0 => Quot(a, n) <= 0
<1>1. CASE a >= 0
  <2>1. Quot(a, n) = a \div n
    BY <1>1 DEF Quot
  <2>2. a \div n \in Int /\ a < (a \div n) * n + n
    BY DivIs
  <2>3. a \div n >= 0
    BY <1>1
  <2>4. QED
    BY <1>1, <2>1, <2>2, <2>3
<1>2. CASE a < 0
  <2>1. PICK b \in Nat : b = -a
    BY <1>2
  <2>2. Quot(a, n) = -(b \div n)
    BY <1>2, <2>1 DEF Quot
  <2>3. b \div n \in Int /\ b \div n >= 0
    BY DivIs
  <2>4. QED
    BY <1>2, <2>2, <2>3
<1>3. QED
  BY <1>1, <1>2

(* Every nonempty set of natural numbers has a least element. *)
LEMMA Least ==
  ASSUME NEW T \in SUBSET Nat, T # {}
  PROVE  \E n \in T : \A m \in T : n <= m
<1> DEFINE R == StrictSubsetOrdering(Nat)
           F == {0 .. m : m \in T}
<1>1. IsWellFoundedOn(R, FiniteSubsetsOf(Nat))
  BY FS_StrictSubsetOrderingWellFounded
<1>2. F \subseteq FiniteSubsetsOf(Nat) /\ F # {}
  <2>1. ASSUME NEW m \in T
        PROVE  0 .. m \in SUBSET Nat /\ IsFiniteSet(0 .. m)
    <3>1. m \in Int /\ 0 \in Int
      OBVIOUS
    <3>2. IsFiniteSet(0 .. m)
      BY <3>1, FS_Interval
    <3>3. QED
      BY <3>2
  <2>2. QED
    BY <2>1 DEF FiniteSubsetsOf
<1>3. \E A \in F : \A B \in F : ~ (<<B, A>> \in R)
  <2> HIDE DEF R, F
  <2>1. QED
    BY <1>1, <1>2, WFMin
<1>4. PICK n \in T : \A m \in T : ~ (<<0 .. m, 0 .. n>> \in R)
  BY <1>3
<1>5. ASSUME NEW m \in T, ~ n <= m
      PROVE  FALSE
  <2>1. 0 .. m \subseteq 0 .. n /\ n \in 0 .. n /\ n \notin 0 .. m
    BY <1>5
  <2>2. <<0 .. m, 0 .. n>> \in R
    BY <2>1 DEF StrictSubsetOrdering
  <2>3. QED
    BY <1>4, <2>2
<1>6. QED
  BY <1>5

LEMMA MinOf ==
  ASSUME NEW T \in SUBSET Nat, T # {}
  PROVE  Min(T) \in T /\ \A m \in T : Min(T) <= m
<1>1. \E n \in T : \A m \in T : n <= m
  BY Least
<1>2. QED
  BY <1>1 DEF Min

LEMMA MaxOf ==
  ASSUME NEW n \in Nat, NEW T \in SUBSET (0 .. n), T # {}
  PROVE  Max(T) \in T /\ \A m \in T : Max(T) >= m
<1> DEFINE U == {n - m : m \in T}
<1>1. U \in SUBSET Nat /\ U # {}
  <2>1. \A m \in T : n - m \in Nat
    OBVIOUS
  <2>2. QED
    BY <2>1
<1>2. PICK k \in U : \A m \in U : k <= m
  BY <1>1, Least
<1>3. PICK x \in T : k = n - x
  BY <1>2
<1>4. \A m \in T : x >= m
  <2> SUFFICES ASSUME NEW m \in T PROVE x >= m
    OBVIOUS
  <2>1. n - m \in U /\ m \in Int /\ x \in Int
    OBVIOUS
  <2>2. n - x <= n - m
    BY <1>2, <1>3, <2>1
  <2>3. QED
    BY <2>1, <2>2
<1>5. QED
  BY <1>3, <1>4 DEF Max
-----------------------------------------------------------------------------
(* A launch, and the blocks of a column.                                     *)
LEMMA SequencesIs ==
  ASSUME NEW l \in LAUNCHES
  PROVE  /\ Batches(l) \in Nat /\ Batches(l) >= 1 /\ Batches(l) <= Len(l.q)
         /\ l.n2 \in Nat \ {0} /\ l.g \in Nat \ {0} /\ Len(l.q) \in Nat
         /\ \A b \in Nat : b < Batches(l) => RowsOf(l, b) \in Nat /\ KeysOf(l, b) \in Nat
<1>1. /\ l.q \in Seq(Nat) /\ l.k \in Seq(Nat) /\ Len(l.q) = Len(l.k) /\ Len(l.q) > 0
      /\ l.n2 \in Nat \ {0} /\ l.g \in Nat \ {0}
  BY BlocksAssumption
<1> DEFINE T == {1} \cup {i \in DOMAIN l.q : l.q[i] > 0 \/ l.k[i] > 0}
<1>2. Len(l.q) \in Nat /\ DOMAIN l.q = 1 .. Len(l.q) /\ T \in SUBSET (0 .. Len(l.q)) /\ T # {}
  BY <1>1
<1>3. \A i \in T : i \in 1 .. Len(l.q)
  BY <1>1, <1>2
<1>4. Max(T) \in T /\ Batches(l) = Max(T)
  BY <1>2, MaxOf DEF Batches
<1> HIDE DEF T
<1>5. Batches(l) \in 1 .. Len(l.q)
  BY <1>3, <1>4
<1>6. ASSUME NEW b \in Nat, b < Batches(l) PROVE RowsOf(l, b) \in Nat /\ KeysOf(l, b) \in Nat
  <2>1. b + 1 \in 1 .. Len(l.q)
    BY <1>2, <1>5, <1>6
  <2>2. \A i \in 1 .. Len(l.q) : l.q[i] \in Nat /\ l.k[i] \in Nat
    BY <1>1, SMTT(30)
  <2>3. QED
    BY <2>1, <2>2 DEF RowsOf, KeysOf
<1>7. QED
  BY <1>1, <1>2, <1>5, <1>6

LEMMA OuterIs ==
  ASSUME NEW l \in LAUNCHES, NEW b \in Nat, b < Batches(l)
  PROVE  /\ S1Outer(l, b) \in Nat /\ (S1Outer(l, b) - 1) * S1_INNER < RowsOf(l, b)
         /\ RowsOf(l, b) <= S1Outer(l, b) * S1_INNER
         /\ S2Outer(l, b) \in Nat /\ (S2Outer(l, b) - 1) * S2_INNER < KeysOf(l, b)
         /\ KeysOf(l, b) <= S2Outer(l, b) * S2_INNER
<1>1. RowsOf(l, b) \in Nat /\ KeysOf(l, b) \in Nat
  BY SequencesIs
<1>2. S1_INNER \in Nat \ {0} /\ S2_INNER \in Nat \ {0}
  BY BlocksAssumption
<1>3. QED
  BY <1>1, <1>2, CeilIs DEF S1Outer, S2Outer

LEMMA TokensIs ==
  ASSUME NEW l \in LAUNCHES, NEW b \in Nat, b < Batches(l)
  PROVE  S1Token(l, b) \in Int /\ S2Token(l, b) \in Int
<1>1. l.left \in Int /\ l.right \in Int /\ UNBOUNDED \in Nat
  BY BlocksAssumption
<1>2. Window(l).left \in Int /\ Window(l).right \in Int
  BY <1>1 DEF Window
<1>3. Shift(l, b) \in Int
  BY SequencesIs DEF Shift
<1>4. Reach(Window(l).left) \in Int /\ Reach(Window(l).right) \in Int
  BY <1>1, <1>2 DEF Reach
<1>5. QED
  BY <1>3, <1>4 DEF S1Token, S2Token
BlockRec ==
  [blockId : Int, blockIdArr : Int, b : Nat, n2 : Nat, g : Nat, s1o : Nat, s2o : Nat,
   s1Extend : Int, s2Extend : Int, dqGroupId : {OUTIDX} \cup Core, kvGroupId : {OUTIDX} \cup Core]
WalkRec ==
  [b : Nat, n2 : Nat, g : Nat, s1o : Nat, s2o : Nat, baseIdx : Int, dqOutBase : Int, kvOutBase : Int,
   startCoreId : Core]
(* The walk is at a column of a sequence, at a block of the column or behind. *)
AtColumn(w) ==
  w.b < Batches(launch) =>
    /\ w.n2 < launch.n2 /\ w.g < launch.g /\ w.s1o <= S1Outer(launch, w.b)
    /\ w.s2o = 0 \/ w.s2o < S2Outer(launch, w.b)
WalkSound(w) ==
  /\ w \in WalkRec /\ w.b <= Batches(launch) /\ w.baseIdx >= -1
  /\ AtColumn(w)
(* A block is not empty and not beyond its sequence. *)
Fits(block) ==
  /\ block.b < Batches(launch)
  /\ block.s1Extend > 0 /\ block.s1o * S1_INNER + block.s1Extend <= RowsOf(launch, block.b)
  /\ block.s2Extend > 0 /\ block.s2o * S2_INNER + block.s2Extend <= KeysOf(launch, block.b)
Numbered(h) == \A c \in Core : h[c].blockId >= 0 /\ h[c].blockIdArr >= 0
RoundSound(r) ==
  \A c \in Core : IF r[c].blockId = NO_BLOCK THEN \E d \in 0 .. c : r[d].blockIdArr = NO_BLOCK ELSE Fits(r[c])
BlocksInv ==
  /\ launch \in LAUNCHES
  /\ WalkSound(walk)
  /\ hand \in [Core -> BlockRec]
  /\ \A c \in Core : c < walk.startCoreId => Fits(hand[c])
  /\ rounds \in Seq([Core -> BlockRec])
  /\ \A i \in DOMAIN rounds : RoundSound(rounds[i])
  /\ ~Planned => Numbered(hand) /\ \A i \in DOMAIN rounds : Numbered(rounds[i])

(* Of a column that is not skipped: the blocks from TopBlock to BottomBlock  *)
(* are in the sequence, and none of them is empty.                           *)
LEMMA ColumnIs ==
  ASSUME launch \in LAUNCHES, NEW w, w.b \in Nat, w.b < Batches(launch), w.s2o \in Nat,
         w.s2o = 0 \/ w.s2o < S2Outer(launch, w.b), ~BeyondRows(w)
  PROVE  /\ TopBlock(w) \in Nat /\ TopRow(w) \in Int /\ TopRow(w) < TopBlock(w) * S1_INNER + S1_INNER
         /\ BottomBlock(w) \in Int /\ BottomBlock(w) < S1Outer(launch, w.b)
         /\ TopRow(w) < RowsOf(launch, w.b) /\ w.s2o * S2_INNER \in Nat /\ w.s2o * S2_INNER < KeysOf(launch, w.b)
         /\ TopRow(w) + S2Token(launch, w.b) = w.s2o * S2_INNER
<1> DEFINE rows == RowsOf(launch, w.b)
           keys == KeysOf(launch, w.b)
           first == w.s2o * S2_INNER
           token == S2Token(launch, w.b)
           outer == S1Outer(launch, w.b)
           n == S1_INNER
           top == TopRow(w)
<1>1. rows \in Nat /\ keys \in Nat /\ token \in Int /\ S1Token(launch, w.b) \in Int /\ outer \in Nat
      /\ n \in Nat \ {0} /\ S2_INNER \in Nat \ {0}
  BY SequencesIs, TokensIs, OuterIs, BlocksAssumption
<1>2. first \in Nat /\ first < keys
  <2>1. keys > 0
    BY <1>1 DEF BeyondRows
  <2>2. CASE w.s2o = 0
    BY <1>1, <2>1, <2>2
  <2>3. CASE w.s2o # 0
    <3>1. PICK m \in Int : m = S2Outer(launch, w.b) - 1 /\ w.s2o <= m
      BY <2>3, OuterIs
    <3>2. first <= m * S2_INNER /\ first \in Int
      BY <1>1, <3>1, TimesGrows
    <3>3. m * S2_INNER < keys /\ m * S2_INNER \in Int
      BY <1>1, <3>1, OuterIs, TimesGrows
    <3>4. 0 * S2_INNER <= first
      BY <1>1, TimesGrows
    <3>5. QED
      BY <1>1, <3>2, <3>3, <3>4
  <2>4. QED
    BY <2>2, <2>3
<1>3. top \in Int /\ top = first - token /\ top < rows
  BY <1>1, <1>2 DEF TopRow, BeyondRows
<1> HIDE DEF top
<1>4. TopBlock(w) = IF 0 >= Quot(top, n) THEN 0 ELSE Quot(top, n)
  <2>1. Quot(top, n) \in Int
    BY <1>1, <1>3, QuotIs
  <2>2. QED
    BY <2>1, MaxOfTwo DEF TopBlock, top
<1>5. TopBlock(w) \in Nat /\ top < TopBlock(w) * n + n
  <2>1. CASE top >= 0
    <3>1. PICK q \in Int : q = Quot(top, n) /\ q >= 0 /\ q = top \div n
      BY <1>1, <1>3, <2>1, QuotIs
    <3>2. top < q * n + n
      BY <1>1, <1>3, <3>1, DivIs
    <3>3. TopBlock(w) = q
      BY <1>4, <3>1
    <3>4. QED
      BY <3>1, <3>2, <3>3
  <2>2. CASE top < 0
    <3>1. TopBlock(w) = 0
      BY <1>1, <1>3, <1>4, <2>2, QuotIs
    <3>2. QED
      BY <1>1, <1>3, <2>2, <3>1
  <2>3. QED
    BY <1>3, <2>1, <2>2
<1>6. BottomBlock(w) \in Int /\ BottomBlock(w) < outer
  <2>1. EndRow(w) \in Int /\ EndRow(w) <= rows
    <3>1. PICK x \in Int : x = (w.s2o + 1) * S2_INNER + S1Token(launch, w.b)
      BY <1>1
    <3>2. EndRow(w) = IF rows <= x THEN rows ELSE x
      BY <1>1, <3>1, MinOfTwo DEF EndRow
    <3>3. QED
      BY <1>1, <3>1, <3>2
  <2>2. PICK x \in Int : x = (EndRow(w) + n) - 1 /\ x <= (rows + n) - 1
    BY <1>1, <2>1
  <2>3. Quot(x, n) \in Int /\ BottomBlock(w) = Quot(x, n) - 1
    BY <1>1, <2>1, <2>2, QuotIs DEF BottomBlock
  <2>4. rows <= outer * n /\ outer * n \in Int /\ (outer + 1) * n = outer * n + n
    BY <1>1, OuterIs, NextTimes
  <2>5. Quot(x, n) < outer + 1
    <3>1. CASE x >= 0
      <4>1. x < (outer + 1) * n
        BY <1>1, <2>2, <2>4
      <4>2. outer + 1 \in Int
        BY <1>1
      <4>3. x \div n < outer + 1
        BY <1>1, <4>1, <4>2, DivLess
      <4>4. QED
        BY <1>1, <3>1, <4>3, QuotIs
    <3>2. CASE x < 0
      BY <1>1, <3>2, QuotIs
    <3>3. QED
      BY <3>1, <3>2
  <2>6. QED
    BY <1>1, <2>3, <2>5
<1>7. QED
  BY <1>1, <1>2, <1>3, <1>5, <1>6 DEF top

LEMMA ExtentsFit ==
  ASSUME launch \in LAUNCHES, NEW w, w.b \in Nat, w.b < Batches(launch), w.s2o \in Nat,
         w.s2o = 0 \/ w.s2o < S2Outer(launch, w.b), ~BeyondRows(w),
         NEW s1o \in Nat, s1o >= TopBlock(w), s1o <= BottomBlock(w)
  PROVE  /\ S1Extend(w, s1o) \in Int /\ S1Extend(w, s1o) > 0
         /\ s1o * S1_INNER + S1Extend(w, s1o) <= RowsOf(launch, w.b)
         /\ S2Extend(w, s1o) \in Int /\ S2Extend(w, s1o) > 0
         /\ w.s2o * S2_INNER + S2Extend(w, s1o) <= KeysOf(launch, w.b)
<1> DEFINE rows == RowsOf(launch, w.b)
           keys == KeysOf(launch, w.b)
           first == w.s2o * S2_INNER
           token == S2Token(launch, w.b)
           n == S1_INNER
           ext == S1Extend(w, s1o)
<1>1. rows \in Nat /\ keys \in Nat /\ token \in Int /\ n \in Nat \ {0} /\ S2_INNER \in Nat \ {0}
      /\ KEY_ALIGN \in Nat \ {0}
  BY SequencesIs, TokensIs, BlocksAssumption
<1>2. /\ TopBlock(w) \in Nat /\ TopRow(w) \in Int /\ TopRow(w) < TopBlock(w) * n + n
      /\ BottomBlock(w) \in Int /\ BottomBlock(w) < S1Outer(launch, w.b)
      /\ TopRow(w) < rows /\ first \in Nat /\ first < keys /\ TopRow(w) + token = first
  BY ColumnIs
<1>3. PICK outer \in Nat : outer = S1Outer(launch, w.b) /\ (outer - 1) * n < rows
  BY OuterIs
<1>4. PICK at \in Int : at = s1o * n /\ (s1o + 1) * n = at + n
  BY <1>1, NextTimes
<1>5. /\ ext \in Int /\ ext > 0 /\ at + ext <= rows /\ TopRow(w) < at + ext
  <2>1. CASE s1o = outer - 1
    <3>1. ext = rows - at /\ at < rows
      BY <1>1, <1>3, <1>4, <2>1 DEF S1Extend
    <3>2. QED
      BY <1>1, <1>2, <1>4, <3>1
  <2>2. CASE s1o # outer - 1
    <3>1. ext = n
      BY <1>3, <2>2 DEF S1Extend
    <3>2. s1o + 1 <= outer - 1 /\ s1o + 1 \in Int /\ outer - 1 \in Int
      BY <1>2, <1>3, <2>2
    <3>3. (s1o + 1) * n <= (outer - 1) * n /\ (outer - 1) * n \in Int
      BY <1>1, <3>2, TimesGrows
    <3>4. at + n <= rows
      BY <1>1, <1>3, <1>4, <3>3
    <3>5. TopBlock(w) * n <= at /\ TopBlock(w) * n \in Int
      BY <1>1, <1>2, <1>4, TimesGrows
    <3>6. QED
      BY <1>1, <1>2, <1>4, <3>1, <3>4, <3>5
  <2>3. QED
    BY <2>1, <2>2
<1> HIDE DEF ext
<1>6. PICK seen \in Int : seen = at + ext + token /\ seen > first
  BY <1>1, <1>2, <1>4, <1>5
<1> HIDE DEF first, keys, token
<1>7. PICK x \in Nat : x = Max({0, seen}) /\ x = seen
  BY <1>2, <1>6, MaxOfTwo
<1>8. PICK right \in Int : right = CeilDiv(x, KEY_ALIGN) * KEY_ALIGN /\ x <= right
  BY <1>1, <1>7, CeilIs, NextTimes
<1>9. PICK whole \in Int : whole = Min({first + S2_INNER, keys}) /\ whole <= keys /\ whole > first
  <2>1. PICK y \in Int : y = first + S2_INNER /\ y > first
    BY <1>1, <1>2
  <2>2. Min({y, keys}) = IF y <= keys THEN y ELSE keys
    BY <1>1, <2>1, MinOfTwo
  <2>3. QED
    BY <1>1, <1>2, <2>1, <2>2
<1>10. PICK end \in Int : end = Min({whole, right}) /\ end <= keys /\ end > first
  <2>1. Min({whole, right}) = IF whole <= right THEN whole ELSE right
    BY <1>8, <1>9, MinOfTwo
  <2>2. QED
    BY <1>1, <1>2, <1>6, <1>7, <1>8, <1>9, <2>1
<1>11. S2Extend(w, s1o) = Max({0, end - first})
  BY <1>4, <1>6, <1>7, <1>8, <1>9, <1>10 DEF S2Extend, ext, first, keys, token
<1>12. S2Extend(w, s1o) = end - first
  <2>1. PICK y \in Int : y = end - first /\ y > 0
    BY <1>2, <1>10
  <2>2. Max({0, y}) = y
    BY <2>1, MaxOfTwo
  <2>3. QED
    BY <1>11, <2>1, <2>2
<1>13. QED
  BY <1>1, <1>2, <1>4, <1>5, <1>10, <1>12 DEF ext, first, keys
-----------------------------------------------------------------------------
(* The walk stays in its ranges.                                             *)
LEMMA UpdateIs ==
  ASSUME launch \in LAUNCHES, NEW w \in WalkRec, w.b < Batches(launch), AtColumn(w)
  PROVE  /\ UpdateIndex(w) \in WalkRec /\ UpdateIndex(w).b <= Batches(launch) /\ AtColumn(UpdateIndex(w))
         /\ UpdateIndex(w).baseIdx = w.baseIdx /\ UpdateIndex(w).startCoreId = w.startCoreId
<1> DEFINE u == UpdateIndex(w)
<1>1. /\ w.b \in Nat /\ w.n2 \in Nat /\ w.g \in Nat /\ w.s1o \in Nat /\ w.s2o \in Nat
      /\ w.dqOutBase \in Int /\ w.kvOutBase \in Int /\ w.baseIdx \in Int /\ w.startCoreId \in Core
  BY DEF WalkRec
<1>2. /\ launch.n2 \in Nat \ {0} /\ launch.g \in Nat \ {0} /\ Batches(launch) \in Nat
      /\ S1Outer(launch, w.b) \in Nat /\ S2Outer(launch, w.b) \in Nat
      /\ \A b \in Nat : b < Batches(launch) => S1Outer(launch, b) \in Nat
  BY <1>1, SequencesIs, OuterIs
<1>3. /\ w.n2 < launch.n2 /\ w.g < launch.g
      /\ w.s2o = 0 \/ w.s2o < S2Outer(launch, w.b)
  BY DEF AtColumn
<1>4. PICK dq \in Int, kv \in Int : dq = (launch.n2 * launch.g) * S1Outer(launch, w.b) /\ kv = launch.n2 * S2Outer(launch, w.b)
  BY <1>2
<1>5. /\ u.b \in {w.b, w.b + 1} /\ u.s1o = 0 /\ u.baseIdx = w.baseIdx /\ u.startCoreId = w.startCoreId
      /\ u.n2 \in {w.n2, w.n2 + 1, 0} /\ u.n2 < launch.n2
      /\ u.g \in {w.g, w.g + 1, 0} /\ u.g < launch.g
      /\ u.s2o \in {w.s2o, w.s2o + 1, 0} /\ (u.s2o = 0 \/ (u.b = w.b /\ u.s2o < S2Outer(launch, w.b)))
      /\ u.dqOutBase \in {w.dqOutBase, w.dqOutBase + dq} /\ u.kvOutBase \in {w.kvOutBase, w.kvOutBase + kv}
      /\ u = [b |-> u.b, n2 |-> u.n2, g |-> u.g, s1o |-> u.s1o, s2o |-> u.s2o, baseIdx |-> u.baseIdx,
              dqOutBase |-> u.dqOutBase, kvOutBase |-> u.kvOutBase, startCoreId |-> u.startCoreId]
  <2> DEFINE gEnds == w.g >= launch.g - 1
             s2oEnds == w.s2o >= S2Outer(launch, w.b) - 1
             columnsEnd == gEnds /\ s2oEnds
             headsEnd == columnsEnd /\ w.n2 >= launch.n2 - 1
             newG == IF ~launch.dtm /\ ~s2oEnds THEN w.g ELSE IF gEnds THEN 0 ELSE w.g + 1
             newS == IF launch.dtm /\ ~gEnds THEN w.s2o ELSE IF s2oEnds THEN 0 ELSE w.s2o + 1
             newN == IF headsEnd THEN 0 ELSE IF columnsEnd THEN w.n2 + 1 ELSE w.n2
             newB == IF headsEnd THEN w.b + 1 ELSE w.b
             newDq == IF headsEnd THEN w.dqOutBase + dq ELSE w.dqOutBase
             newKv == IF headsEnd THEN w.kvOutBase + kv ELSE w.kvOutBase
  <2>1. u = [b |-> newB, n2 |-> newN, g |-> newG, s1o |-> 0, s2o |-> newS, baseIdx |-> w.baseIdx,
             dqOutBase |-> newDq, kvOutBase |-> newKv, startCoreId |-> w.startCoreId]
    <3>1. u = [w EXCEPT !.s1o = 0, !.g = newG, !.s2o = newS, !.n2 = newN, !.b = newB,
                        !.dqOutBase = newDq, !.kvOutBase = newKv]
      BY <1>4, Zenon DEF UpdateIndex
    <3> HIDE DEF u, newB, newN, newG, newS, newDq, newKv
    <3>2. QED
      BY <3>1 DEF WalkRec
  <2>2. /\ newB \in {w.b, w.b + 1} /\ newN \in {w.n2, w.n2 + 1, 0} /\ newN < launch.n2
        /\ newG \in {w.g, w.g + 1, 0} /\ newG < launch.g
        /\ newS \in {w.s2o, w.s2o + 1, 0} /\ (newS = 0 \/ (newB = w.b /\ newS < S2Outer(launch, w.b)))
        /\ newDq \in {w.dqOutBase, w.dqOutBase + dq} /\ newKv \in {w.kvOutBase, w.kvOutBase + kv}
    BY <1>1, <1>2, <1>3
  <2> HIDE DEF u, newB, newN, newG, newS, newDq, newKv
  <2>3. QED
    BY <2>1, <2>2
<1> HIDE DEF u
<1>6. u \in WalkRec
  <2>1. /\ u.b \in Nat /\ u.n2 \in Nat /\ u.g \in Nat /\ u.s1o \in Nat /\ u.s2o \in Nat
        /\ u.dqOutBase \in Int /\ u.kvOutBase \in Int /\ u.baseIdx \in Int /\ u.startCoreId \in Core
    BY <1>1, <1>4, <1>5
  <2>2. QED
    BY <1>5, <2>1 DEF WalkRec
<1>7. u.b <= Batches(launch)
  BY <1>1, <1>2, <1>5
<1>8. AtColumn(u)
  <2>1. ASSUME u.b < Batches(launch) PROVE u.s1o <= S1Outer(launch, u.b)
    <3>1. u.b \in Nat
      BY <1>1, <1>5
    <3>2. QED
      BY <1>2, <1>5, <2>1, <3>1
  <2>2. QED
    BY <1>5, <2>1 DEF AtColumn
<1>9. QED
  BY <1>5, <1>6, <1>7, <1>8 DEF u

(* Only the block and its number change on the way to the top of a column. *)
LEMMA AtTopIs ==
  ASSUME launch \in LAUNCHES, NEW w, WalkSound(w), w.baseIdx # -1, w.b < Batches(launch),
         ~BeyondRows(w), ~BelowWindow(w), NEW v, v = AtTop(w)
  PROVE  /\ v \in WalkRec /\ v.b = w.b /\ v.n2 = w.n2 /\ v.g = w.g /\ v.s2o = w.s2o /\ v.startCoreId = w.startCoreId
         /\ v.baseIdx >= 0 /\ v.s1o >= TopBlock(v) /\ v.s1o <= BottomBlock(v) /\ BottomBlock(v) \in Int
         /\ BottomBlock(v) < S1Outer(launch, v.b) /\ ~BeyondRows(v) /\ AtColumn(v)
<1>1. /\ w \in WalkRec /\ w.b \in Nat /\ w.s1o \in Nat /\ w.s2o \in Nat /\ w.baseIdx \in Int /\ w.baseIdx >= 0
      /\ w.s2o = 0 \/ w.s2o < S2Outer(launch, w.b)
  BY DEF WalkSound, WalkRec, AtColumn
<1>2. TopBlock(w) \in Nat /\ BottomBlock(w) \in Int /\ BottomBlock(w) < S1Outer(launch, w.b)
  BY <1>1, ColumnIs
<1>3. /\ v \in WalkRec /\ v.b = w.b /\ v.n2 = w.n2 /\ v.g = w.g /\ v.s2o = w.s2o /\ v.startCoreId = w.startCoreId
      /\ v.s1o = (IF w.s1o >= TopBlock(w) THEN w.s1o ELSE TopBlock(w)) /\ v.baseIdx >= 0
  <2>1. CASE w.s1o >= TopBlock(w)
    BY <1>1, <2>1 DEF AtTop
  <2>2. CASE ~(w.s1o >= TopBlock(w))
    <3>1. PICK s \in Nat, base \in Int : s = TopBlock(w) /\ base = w.baseIdx + TopBlock(w) - w.s1o /\ base >= 0
      BY <1>1, <1>2, <2>2
    <3>2. v = [w EXCEPT !.s1o = s, !.baseIdx = base]
      BY <2>2, <3>1 DEF AtTop
    <3>3. QED
      BY <1>1, <2>2, <3>1, <3>2 DEF WalkRec
  <2>3. QED
    BY <2>1, <2>2
<1>4. TopBlock(v) = TopBlock(w) /\ BottomBlock(v) = BottomBlock(w) /\ (BeyondRows(v) <=> BeyondRows(w))
  BY <1>3 DEF TopBlock, BottomBlock, BeyondRows, TopRow, EndRow
<1>5. v.s1o >= TopBlock(v) /\ v.s1o <= BottomBlock(v)
  BY <1>1, <1>2, <1>3, <1>4 DEF BelowWindow
<1>6. AtColumn(v)
  <2>1. S1Outer(launch, w.b) \in Nat
    BY <1>1, OuterIs
  <2>2. v.s1o <= S1Outer(launch, v.b)
    BY <1>1, <1>2, <1>3, <1>4, <1>5, <2>1
  <2>3. QED
    BY <1>3, <2>2 DEF WalkSound, AtColumn
<1>7. QED
  BY <1>2, <1>3, <1>4, <1>5, <1>6
-----------------------------------------------------------------------------
(* A round is kept.                                                          *)
LEMMA BlankIs ==
  ASSUME TRUE
  PROVE  [c \in Core |-> Blank] \in [Core -> BlockRec] /\ Numbered([c \in Core |-> Blank])
<1>1. 0 \in Core
  BY BlocksAssumption DEF Core
<1>2. QED
  BY <1>1 DEF BlockRec, Blank, Numbered

LEMMA DealIs ==
  ASSUME NEW h \in [Core -> BlockRec], rounds \in Seq([Core -> BlockRec]), RoundSound(h),
         \A i \in DOMAIN rounds : RoundSound(rounds[i]), Deal(h)
  PROVE  /\ hand' \in [Core -> BlockRec]
         /\ rounds' \in Seq([Core -> BlockRec]) /\ \A i \in DOMAIN rounds' : RoundSound(rounds'[i])
         /\ (Numbered(h) /\ \A i \in DOMAIN rounds : Numbered(rounds[i])) =>
              Numbered(hand') /\ \A i \in DOMAIN rounds' : Numbered(rounds'[i])
<1> DEFINE dealt == Append(rounds, h)
<1>1. /\ dealt \in Seq([Core -> BlockRec]) /\ Len(rounds) \in Nat /\ Len(dealt) = Len(rounds) + 1
      /\ DOMAIN dealt = 1 .. Len(rounds) + 1 /\ DOMAIN rounds = 1 .. Len(rounds)
      /\ \A i \in 1 .. Len(rounds) : dealt[i] = rounds[i]
      /\ dealt[Len(rounds) + 1] = h
  OBVIOUS
<1>2. /\ rounds' = dealt
      /\ hand' = IF Len(dealt) < 3 THEN [c \in Core |-> Blank] ELSE dealt[Len(dealt) - 2]
  BY DEF Deal
<1> HIDE DEF dealt
<1>3. \A i \in DOMAIN dealt : dealt[i] = h \/ \E j \in DOMAIN rounds : dealt[i] = rounds[j]
  BY <1>1
<1>4. Len(dealt) >= 3 => Len(dealt) - 2 \in DOMAIN dealt
  BY <1>1
<1>5. hand' \in [Core -> BlockRec]
  BY <1>1, <1>2, <1>4, BlankIs
<1>6. \A i \in DOMAIN dealt : RoundSound(dealt[i])
  BY <1>3
<1>7. ASSUME Numbered(h), \A i \in DOMAIN rounds : Numbered(rounds[i])
      PROVE  Numbered(hand') /\ \A i \in DOMAIN dealt : Numbered(dealt[i])
  <2>1. \A i \in DOMAIN dealt : Numbered(dealt[i])
    BY <1>3, <1>7
  <2>2. PICK used : used = hand'
    OBVIOUS
  <2>3. CASE Len(dealt) < 3
    BY <1>2, <2>1, <2>2, <2>3, BlankIs
  <2>4. CASE ~(Len(dealt) < 3)
    <3>1. Len(dealt) - 2 \in DOMAIN dealt
      BY <1>1, <1>4, <2>4
    <3>2. used = dealt[Len(dealt) - 2]
      BY <1>2, <2>2, <2>4
    <3>3. Numbered(used)
      BY <2>1, <3>1, <3>2
    <3>4. QED
      BY <2>1, <2>2, <3>3
  <2>5. QED
    BY <2>3, <2>4
<1>8. QED
  BY <1>1, <1>2, <1>5, <1>6, <1>7
-----------------------------------------------------------------------------
(* The block a core is dealt.                                                *)
LEMMA GroupsAre ==
  ASSUME hand \in [Core -> BlockRec], NEW w \in WalkRec, NEW core \in Core, NEW s1o
  PROVE  DqGroup(w, core, s1o) \in {OUTIDX} \cup Core /\ KvGroup(w, core) \in {OUTIDX} \cup Core
<1>1. w.startCoreId \in Core /\ \A c \in Core : c \in Nat
  BY DEF WalkRec, Core
<1>2. DqGroup(w, core, s1o) \in {OUTIDX} \cup Core
  <2> DEFINE same == {j \in 0 .. w.startCoreId - 1 : outArr[j].dq = DqTile(w, s1o)}
  <2>1. same \in SUBSET Nat /\ same \subseteq Core
    BY <1>1, BlocksAssumption DEF Core
  <2>2. same # {} => Min(same) \in Core
    <3>1. ASSUME same # {} PROVE Min(same) \in same
      <4> HIDE DEF same
      <4>1. QED
        BY <2>1, <3>1, MinOf
    <3>2. QED
      BY <2>1, <3>1
  <2>3. DqGroup(w, core, s1o) = IF w.s2o = 0 THEN OUTIDX ELSE IF same = {} THEN core ELSE Min(same)
    BY DEF DqGroup
  <2> HIDE DEF same
  <2>4. QED
    BY <2>2, <2>3
<1>3. KvGroup(w, core) \in {OUTIDX} \cup Core
  <2>1. w.startCoreId - 1 >= 0 => w.startCoreId - 1 \in Core
    BY <1>1, BlocksAssumption DEF Core
  <2>2. \A c \in Core : hand[c].kvGroupId \in {OUTIDX} \cup Core
    BY DEF BlockRec
  <2>3. QED
    BY <1>1, <2>1, <2>2 DEF KvGroup
<1>4. QED
  BY <1>2, <1>3

DealtAt(block, w, s1o) ==
  /\ block.b = w.b /\ block.n2 = w.n2 /\ block.g = w.g /\ block.s2o = w.s2o /\ block.s1o = s1o
  /\ block.s1Extend = S1Extend(w, s1o) /\ block.s2Extend = S2Extend(w, s1o)

(* The labels, in deterministic mode. *)
Labelled(block, w, core, s1o) ==
  /\ block.blockIdArr = w.baseIdx + (core - w.startCoreId)
  /\ block.dqGroupId = DqGroup(w, core, s1o) /\ block.kvGroupId = KvGroup(w, core)

LEMMA DealtIs ==
  ASSUME launch \in LAUNCHES, hand \in [Core -> BlockRec], NEW w \in WalkRec, w.b < Batches(launch), AtColumn(w),
         ~BeyondRows(w), w.baseIdx >= 0, w.s1o >= TopBlock(w), BottomBlock(w) \in Int,
         NEW core \in Core, core >= w.startCoreId, core - w.startCoreId < BottomBlock(w) - w.s1o + 1
  PROVE  /\ Dealt(w, core) \in BlockRec /\ Fits(Dealt(w, core))
         /\ Dealt(w, core).blockId >= 0 /\ (hand[core].blockIdArr >= 0 => Dealt(w, core).blockIdArr >= 0)
         /\ \E s \in Nat : /\ s = w.s1o + (core - w.startCoreId) /\ s <= BottomBlock(w) /\ DealtAt(Dealt(w, core), w, s)
                           /\ launch.dtm => Labelled(Dealt(w, core), w, core, s)
<1>1. /\ w.b \in Nat /\ w.n2 \in Nat /\ w.g \in Nat /\ w.s1o \in Nat /\ w.s2o \in Nat /\ w.baseIdx \in Nat
      /\ w.startCoreId \in Nat /\ core \in Nat
      /\ w.s2o = 0 \/ w.s2o < S2Outer(launch, w.b)
  BY DEF WalkRec, AtColumn, Core
<1>2. PICK s \in Nat, id \in Nat : /\ s = w.s1o + core - w.startCoreId /\ id = w.baseIdx + core - w.startCoreId
                                   /\ s >= w.s1o /\ s <= BottomBlock(w) /\ s = w.s1o + (core - w.startCoreId)
                                   /\ id = w.baseIdx + (core - w.startCoreId)
  <2>1. PICK m \in Nat : m = core - w.startCoreId
    BY <1>1
  <2>2. w.s1o + core - w.startCoreId = w.s1o + m /\ w.baseIdx + core - w.startCoreId = w.baseIdx + m
    BY <1>1, <2>1
  <2>3. w.s1o + m \in Nat /\ w.baseIdx + m \in Nat /\ w.s1o + m >= w.s1o /\ w.s1o + m <= BottomBlock(w)
    BY <1>1, <2>1
  <2>4. QED
    BY <2>2, <2>3
<1>3. TopBlock(w) \in Nat
  BY <1>1, ColumnIs
<1>4. s >= TopBlock(w)
  BY <1>1, <1>2, <1>3
<1>5. PICK e1 \in Int, e2 \in Int : /\ e1 = S1Extend(w, s) /\ e1 > 0 /\ s * S1_INNER + e1 <= RowsOf(launch, w.b)
                                    /\ e2 = S2Extend(w, s) /\ e2 > 0 /\ w.s2o * S2_INNER + e2 <= KeysOf(launch, w.b)
  BY <1>1, <1>2, <1>4, ExtentsFit
<1>6. PICK dq \in {OUTIDX} \cup Core, kv \in {OUTIDX} \cup Core : dq = DqGroup(w, core, s) /\ kv = KvGroup(w, core)
  BY GroupsAre
<1>7. PICK h \in BlockRec : h = hand[core]
  OBVIOUS
<1>8. PICK d : d = Dealt(w, core)
  OBVIOUS
<1> DEFINE block == [h EXCEPT !.blockId = id, !.b = w.b, !.n2 = w.n2, !.g = w.g,
                       !.s1o = s, !.s2o = w.s2o, !.s1Extend = e1, !.s2Extend = e2]
           det == [block EXCEPT !.blockIdArr = id, !.dqGroupId = dq, !.kvGroupId = kv]
<1>9. d = IF launch.dtm THEN det ELSE block
  BY <1>2, <1>5, <1>6, <1>7, <1>8 DEF Dealt
<1>10. /\ block \in BlockRec /\ block.b = w.b /\ block.s1o = s /\ block.s2o = w.s2o /\ block.s1Extend = e1
       /\ block.n2 = w.n2 /\ block.g = w.g
       /\ block.s2Extend = e2 /\ block.blockId = id /\ block.blockIdArr = h.blockIdArr
  <2>1. PICK x \in Nat, y \in Nat, z \in Nat, t \in Nat : x = w.b /\ y = w.n2 /\ z = w.g /\ t = w.s2o
    BY <1>1
  <2>2. PICK k : k = [h EXCEPT !.blockId = id, !.b = x, !.n2 = y, !.g = z,
                        !.s1o = s, !.s2o = t, !.s1Extend = e1, !.s2Extend = e2]
    OBVIOUS
  <2>3. k = block
    BY <2>1, <2>2
  <2> HIDE DEF block
  <2>4. /\ k.b = x /\ k.n2 = y /\ k.g = z /\ k.s1o = s /\ k.s2o = t /\ k.s1Extend = e1 /\ k.s2Extend = e2
        /\ k.blockId = id /\ k.dqGroupId = h.dqGroupId /\ k.kvGroupId = h.kvGroupId /\ k.blockIdArr = h.blockIdArr
    BY <2>2 DEF BlockRec
  <2>5. k = [blockId |-> k.blockId, blockIdArr |-> k.blockIdArr, b |-> k.b, n2 |-> k.n2,
             g |-> k.g, s1o |-> k.s1o, s2o |-> k.s2o, s1Extend |-> k.s1Extend,
             s2Extend |-> k.s2Extend, dqGroupId |-> k.dqGroupId, kvGroupId |-> k.kvGroupId]
    BY <2>2 DEF BlockRec
  <2>6. h.blockIdArr \in Int /\ h.dqGroupId \in {OUTIDX} \cup Core /\ h.kvGroupId \in {OUTIDX} \cup Core
    BY DEF BlockRec
  <2>7. k \in BlockRec
    BY <2>4, <2>5, <2>6 DEF BlockRec
  <2>8. QED
    BY <2>1, <2>3, <2>4, <2>7
<1> HIDE DEF block
<1>11. /\ det \in BlockRec /\ det.b = w.b /\ det.n2 = w.n2 /\ det.g = w.g /\ det.s1o = s /\ det.s2o = w.s2o /\ det.s1Extend = e1
       /\ det.s2Extend = e2 /\ det.blockId = id /\ det.blockIdArr = id /\ det.dqGroupId = dq /\ det.kvGroupId = kv
  BY <1>10 DEF BlockRec
<1> HIDE DEF det
<1>12. /\ d \in BlockRec /\ d.b = w.b /\ d.n2 = w.n2 /\ d.g = w.g /\ d.s1o = s /\ d.s2o = w.s2o /\ d.s1Extend = e1
       /\ d.s2Extend = e2 /\ d.blockId >= 0 /\ (h.blockIdArr >= 0 => d.blockIdArr >= 0)
  BY <1>9, <1>10, <1>11
<1>13. Fits(d)
  BY <1>5, <1>12 DEF Fits
<1>14. DealtAt(d, w, s)
  BY <1>5, <1>12 DEF DealtAt
<1>15. launch.dtm => Labelled(d, w, core, s)
  BY <1>2, <1>6, <1>9, <1>11 DEF Labelled
<1>16. QED
  BY <1>2, <1>7, <1>8, <1>12, <1>13, <1>14, <1>15
-----------------------------------------------------------------------------
(* The steps of the walk.                                                    *)
LEMMA BlocksInvInit == BlocksInit => BlocksInv
<1> SUFFICES ASSUME BlocksInit PROVE BlocksInv
  OBVIOUS
<1>1. 0 \in Core /\ launch \in LAUNCHES /\ Batches(launch) \in Nat /\ Batches(launch) >= 1
  BY BlocksAssumption, SequencesIs DEF BlocksInit, Core
<1>2. WalkSound(walk)
  <2>1. /\ walk \in WalkRec /\ walk.b = 0 /\ walk.n2 = 0 /\ walk.g = 0 /\ walk.s1o = 0 /\ walk.s2o = 0 /\ walk.baseIdx = 0
    BY <1>1 DEF BlocksInit, WalkRec
  <2>2. S1Outer(launch, 0) \in Nat /\ launch.n2 \in Nat \ {0} /\ launch.g \in Nat \ {0}
    BY <1>1, OuterIs, SequencesIs
  <2>3. QED
    BY <1>1, <2>1, <2>2 DEF WalkSound, AtColumn
<1>3. hand \in [Core -> BlockRec] /\ Numbered(hand)
  BY BlankIs DEF BlocksInit
<1>4. rounds = <<>> /\ walk.startCoreId = 0
  BY DEF BlocksInit
<1>5. \A c \in Core : ~(c < 0)
  BY DEF Core
<1>6. QED
  BY <1>1, <1>2, <1>3, <1>4, <1>5 DEF BlocksInv

LEMMA NoBlocksIs ==
  ASSUME hand \in [Core -> BlockRec], NEW first \in Core, NEW h, h = NoBlocksFrom(hand, first)
  PROVE  /\ h \in [Core -> BlockRec]
         /\ \A c \in Core : /\ c < first => h[c] = hand[c]
                            /\ ~(c < first) => h[c].blockId = NO_BLOCK
                            /\ c = first => h[c].blockIdArr = NO_BLOCK
<1>1. first \in Int /\ \A c \in Core : c \in Int
  BY DEF Core
<1>2. ASSUME NEW c \in Core
      PROVE  /\ h[c] \in BlockRec
             /\ c < first => h[c] = hand[c]
             /\ ~(c < first) => h[c].blockId = NO_BLOCK
             /\ c = first => h[c].blockIdArr = NO_BLOCK
  <2>1. PICK r \in BlockRec : r = hand[c]
    OBVIOUS
  <2>2. h[c] = IF c < first THEN r ELSE [r EXCEPT !.blockId = -1, !.blockIdArr = IF c = first THEN -1 ELSE @]
    BY <2>1 DEF NoBlocksFrom, NO_BLOCK
  <2>3. CASE c < first
    BY <1>1, <2>1, <2>2, <2>3
  <2>4. CASE ~(c < first)
    <3>0. PICK x \in Int, y \in Int : x = -1 /\ y = (IF c = first THEN -1 ELSE r.blockIdArr)
      BY DEF BlockRec
    <3>1. PICK k : k = h[c] /\ k = [r EXCEPT !.blockId = x, !.blockIdArr = y]
      BY <2>2, <2>4, <3>0
    <3>2. k \in BlockRec
      BY <3>1 DEF BlockRec
    <3>3. h[c].blockId = -1 /\ (c = first => h[c].blockIdArr = -1) /\ h[c] \in BlockRec
      BY <3>0, <3>1, <3>2 DEF BlockRec
    <3>4. QED
      BY <2>4, <3>3 DEF NO_BLOCK
  <2>5. QED
    BY <2>3, <2>4
<1>3. h = [c \in Core |-> h[c]]
  BY DEF NoBlocksFrom
<1>4. QED
  BY <1>2, <1>3

LEMMA EndKeeps ==
  ASSUME BlocksInv, EndOfBlocks
  PROVE  BlocksInv'
<1>0. PICK first \in Core : first = walk.startCoreId
  BY DEF BlocksInv, WalkSound, WalkRec
<1>1. PICK h : first = walk.startCoreId /\ h = NoBlocksFrom(hand, first)
  BY <1>0
<1>2. h \in [Core -> BlockRec] /\ \A c \in Core : /\ c < first => h[c] = hand[c]
                                                  /\ ~(c < first) => h[c].blockId = NO_BLOCK
                                                  /\ c = first => h[c].blockIdArr = NO_BLOCK
  BY <1>1, NoBlocksIs DEF BlocksInv
<1>3. RoundSound(h)
  <2> SUFFICES ASSUME NEW c \in Core
               PROVE  IF h[c].blockId = NO_BLOCK THEN \E d \in 0 .. c : h[d].blockIdArr = NO_BLOCK ELSE Fits(h[c])
    BY DEF RoundSound
  <2>1. first \in Nat /\ c \in Nat
    BY DEF Core
  <2>2. CASE c < first
    <3>1. Fits(h[c]) /\ hand[c].blockId >= 0 /\ hand[c].blockId \in Int
      BY <1>1, <1>2, <2>2 DEF BlocksInv, EndOfBlocks, Planned, Numbered, BlockRec
    <3>2. QED
      BY <1>2, <2>2, <3>1 DEF NO_BLOCK
  <2>3. CASE ~(c < first)
    BY <1>2, <2>1, <2>3
  <2>4. QED
    BY <2>2, <2>3
<1>4. Deal(h) /\ walk' = [walk EXCEPT !.startCoreId = 0, !.baseIdx = -1] /\ launch' = launch
  BY <1>1 DEF EndOfBlocks, Restart
<1>5. /\ hand' \in [Core -> BlockRec]
      /\ rounds' \in Seq([Core -> BlockRec]) /\ \A i \in DOMAIN rounds' : RoundSound(rounds'[i])
  BY <1>2, <1>3, <1>4, DealIs DEF BlocksInv
<1>6. walk' \in WalkRec /\ walk'.baseIdx = -1 /\ walk'.startCoreId = 0 /\ walk'.b = walk.b /\ ~(walk.b < Batches(launch))
      /\ walk.b <= Batches(launch)
  <2>1. 0 \in Core
    BY BlocksAssumption DEF Core
  <2>2. walk \in WalkRec /\ walk.b \in Nat /\ Batches(launch) \in Nat
    BY SequencesIs DEF BlocksInv, WalkSound, WalkRec
  <2>3. QED
    BY <1>4, <2>1, <2>2, SMTT(30) DEF WalkRec, EndOfBlocks, BlocksInv, WalkSound
<1>7. WalkSound(walk)'
  BY <1>4, <1>6 DEF WalkSound, AtColumn
<1>8. \A c \in Core : ~(c < 0)
  BY DEF Core
<1>9. \A r : RoundSound(r)' <=> RoundSound(r)
  BY <1>4 DEF RoundSound, Fits
<1>10. QED
  BY <1>4, <1>5, <1>6, <1>7, <1>8, <1>9 DEF BlocksInv, Planned

LEMMA SkipKeeps ==
  ASSUME BlocksInv, SkipColumn
  PROVE  BlocksInv'
<1>1. /\ walk \in WalkRec /\ walk.b \in Nat /\ walk.b < Batches(launch) /\ walk.baseIdx \in Int /\ walk.baseIdx >= 0
      /\ walk.s1o \in Nat /\ walk.s1o <= S1Outer(launch, walk.b) /\ AtColumn(walk) /\ launch \in LAUNCHES
      /\ walk.startCoreId \in Core
  BY DEF BlocksInv, WalkSound, WalkRec, AtColumn, SkipColumn
<1>2. S1Outer(launch, walk.b) \in Nat
  BY <1>1, OuterIs
<1>3. PICK base \in Int : /\ base = IF BeyondRows(walk) => KeysOf(launch, walk.b) > 0
                                    THEN walk.baseIdx + S1Outer(launch, walk.b) - walk.s1o ELSE walk.baseIdx
                          /\ base >= 0
  BY <1>1, <1>2
<1>4. PICK w : w = [walk EXCEPT !.baseIdx = base]
  OBVIOUS
<1>5. w \in WalkRec /\ w.baseIdx = base /\ w.b = walk.b /\ w.startCoreId = walk.startCoreId
  BY <1>1, <1>4 DEF WalkRec
<1>6. w.n2 = walk.n2 /\ w.g = walk.g /\ w.s1o = walk.s1o /\ w.s2o = walk.s2o
  BY <1>1, <1>4 DEF WalkRec
<1>7. AtColumn(w)
  BY <1>1, <1>5, <1>6 DEF AtColumn
<1>8. walk' = UpdateIndex(w) /\ UNCHANGED <<launch, hand, outArr, rounds>>
  BY <1>3, <1>4 DEF SkipColumn
<1>9. PICK u : u = UpdateIndex(w)
  OBVIOUS
<1>10. u \in WalkRec /\ u.b <= Batches(launch) /\ AtColumn(u) /\ u.baseIdx = base /\ u.startCoreId = walk.startCoreId
  BY <1>1, <1>5, <1>7, <1>9, UpdateIs
<1>11. WalkSound(walk)'
  BY <1>3, <1>8, <1>9, <1>10 DEF WalkSound, AtColumn
<1>12. (\A r : RoundSound(r)' <=> RoundSound(r)) /\ \A r : Fits(r)' <=> Fits(r)
  BY <1>8 DEF RoundSound, Fits
<1>13. walk.baseIdx # -1 /\ walk'.startCoreId = walk.startCoreId
  BY <1>8, <1>9, <1>10 DEF SkipColumn
<1>14. QED
  BY <1>8, <1>11, <1>12, <1>13 DEF BlocksInv, Planned, Numbered

(* What DealBlocks deals out: the blocks of the column from w on, to the      *)
(* cores from start on.                                                      *)
Dealing(w, start, s, outer, validNum, free, dealt) ==
  /\ start = w.startCoreId /\ start \in Nat /\ start < CORES /\ s = w.s1o /\ outer = S1Outer(launch, w.b)
  /\ validNum = (BottomBlock(w) - w.s1o) + 1 /\ validNum > 0 /\ s + validNum <= outer
  /\ free = CORES - w.startCoreId /\ free > 0
  /\ Numbered(dealt) /\ \A c \in Core : c < start + validNum => Fits(dealt[c])
  /\ \A c \in Core : c < start => dealt[c] = hand[c]
  /\ \A c \in Core : c >= start /\ c < start + validNum => DealtAt(dealt[c], w, s + (c - start))
  /\ \A c \in Core : c >= start /\ c < start + validNum /\ launch.dtm => Labelled(dealt[c], w, c, s + (c - start))

DealtNext(w, validNum, free, dealt) ==
  \/ /\ free <= validNum /\ Deal(dealt)
     /\ LET v == Restart([w EXCEPT !.baseIdx = w.baseIdx + free], FALSE)
        IN walk' = IF v.s1o + free < S1Outer(launch, v.b)
                   THEN [v EXCEPT !.s1o = v.s1o + free] ELSE UpdateIndex(v)
  \/ /\ free > validNum /\ hand' = dealt
     /\ walk' = UpdateIndex([w EXCEPT !.baseIdx = w.baseIdx + (S1Outer(launch, w.b) - w.s1o),
                                      !.startCoreId = w.startCoreId + validNum])
     /\ UNCHANGED rounds

LEMMA DealtOut ==
  ASSUME BlocksInv, DealBlocks, NEW w, w = AtTop(walk)
  PROVE  \E start \in Core, s \in Nat, outer \in Nat, validNum \in Nat, free \in Nat, dealt \in [Core -> BlockRec] :
           /\ Dealing(w, start, s, outer, validNum, free, dealt)
           /\ DealtNext(w, validNum, free, dealt)
<1>1. w = AtTop(walk)
  OBVIOUS
<1>2. /\ launch \in LAUNCHES /\ WalkSound(walk) /\ walk.baseIdx # -1 /\ walk.b < Batches(launch)
      /\ ~BeyondRows(walk) /\ ~BelowWindow(walk) /\ launch' = launch
      /\ hand \in [Core -> BlockRec] /\ Numbered(hand) /\ walk.b \in Nat
  BY DEF BlocksInv, DealBlocks, Planned, WalkSound, WalkRec
<1>3. /\ w \in WalkRec /\ w.b = walk.b /\ w.startCoreId = walk.startCoreId
      /\ w.baseIdx >= 0 /\ w.s1o >= TopBlock(w) /\ w.s1o <= BottomBlock(w) /\ BottomBlock(w) \in Int
      /\ BottomBlock(w) < S1Outer(launch, w.b) /\ ~BeyondRows(w) /\ AtColumn(w)
  BY <1>1, <1>2, AtTopIs
<1>4. PICK start \in Core, s \in Nat, outer \in Nat :
        /\ start = w.startCoreId /\ start \in Nat /\ start < CORES /\ s = w.s1o /\ outer = S1Outer(launch, w.b)
  <2>1. w.startCoreId \in Core /\ w.s1o \in Nat
    BY <1>3 DEF WalkRec
  <2>2. S1Outer(launch, w.b) \in Nat
    BY <1>2, <1>3, OuterIs
  <2>3. \A c \in Core : c \in Nat /\ c < CORES
    BY BlocksAssumption DEF Core
  <2>4. QED
    BY <2>1, <2>2, <2>3
<1>5. PICK validNum \in Nat : validNum = (BottomBlock(w) - w.s1o) + 1 /\ validNum > 0 /\ s + validNum <= outer
  BY <1>3, <1>4
<1>6. PICK free \in Nat : free = CORES - w.startCoreId /\ free > 0
  BY <1>4, BlocksAssumption
<1>7. PICK dealt : dealt = [c \in Core |-> IF c >= start /\ c - start < validNum THEN Dealt(w, c) ELSE hand[c]]
  OBVIOUS
<1>8. DealtNext(w, validNum, free, dealt)
  BY <1>1, <1>4, <1>5, <1>6, <1>7 DEF DealBlocks, DealtNext
<1>9. /\ dealt \in [Core -> BlockRec] /\ Numbered(dealt)
      /\ \A c \in Core : c < start + validNum => Fits(dealt[c])
      /\ \A c \in Core : c < start => dealt[c] = hand[c]
      /\ \A c \in Core : c >= start /\ c < start + validNum => DealtAt(dealt[c], w, s + (c - start))
      /\ \A c \in Core : c >= start /\ c < start + validNum /\ launch.dtm => Labelled(dealt[c], w, c, s + (c - start))
  <2>1. ASSUME NEW c \in Core
        PROVE  /\ dealt[c] \in BlockRec /\ dealt[c].blockId >= 0 /\ dealt[c].blockIdArr >= 0
               /\ c < start + validNum => Fits(dealt[c])
               /\ c < start => dealt[c] = hand[c]
               /\ c >= start /\ c < start + validNum => DealtAt(dealt[c], w, s + (c - start))
               /\ c >= start /\ c < start + validNum /\ launch.dtm => Labelled(dealt[c], w, c, s + (c - start))
    <3>1. c \in Nat /\ hand[c].blockId >= 0 /\ hand[c].blockIdArr >= 0 /\ hand[c] \in BlockRec
      BY <1>2 DEF Core, Numbered
    <3>2. CASE c >= start /\ c - start < validNum
      <4>1. dealt[c] = Dealt(w, c)
        BY <1>7, <3>2
      <4>2. c >= w.startCoreId /\ c - w.startCoreId < BottomBlock(w) - w.s1o + 1
        BY <1>3, <1>4, <1>5, <3>1, <3>2
      <4>3. /\ Dealt(w, c) \in BlockRec /\ Fits(Dealt(w, c))
            /\ Dealt(w, c).blockId >= 0 /\ (hand[c].blockIdArr >= 0 => Dealt(w, c).blockIdArr >= 0)
            /\ \E at \in Nat : /\ at = w.s1o + (c - w.startCoreId) /\ DealtAt(Dealt(w, c), w, at)
                               /\ launch.dtm => Labelled(Dealt(w, c), w, c, at)
        BY <1>2, <1>3, <4>2, DealtIs
      <4>4. DealtAt(dealt[c], w, s + (c - start)) /\ (launch.dtm => Labelled(dealt[c], w, c, s + (c - start)))
        <5>1. PICK at \in Nat : /\ at = w.s1o + (c - w.startCoreId) /\ DealtAt(Dealt(w, c), w, at)
                                /\ launch.dtm => Labelled(Dealt(w, c), w, c, at)
          BY <4>3
        <5>2. at = s + (c - start)
          BY <1>4, <5>1
        <5>3. QED
          BY <4>1, <5>1, <5>2
      <4>5. ~(c < start)
        BY <1>4, <3>1, <3>2
      <4>6. QED
        BY <3>1, <4>1, <4>3, <4>4, <4>5
    <3>3. CASE ~(c >= start /\ c - start < validNum)
      <4>1. dealt[c] = hand[c]
        BY <1>7, <3>3
      <4>2. c < start + validNum => c < start /\ ~(c >= start)
        BY <1>4, <1>5, <3>1, <3>3
      <4>3. c < start => Fits(hand[c])
        BY <1>3, <1>4 DEF BlocksInv
      <4>4. QED
        BY <3>1, <4>1, <4>2, <4>3
    <3>4. QED
      BY <3>2, <3>3
  <2>2. dealt = [c \in Core |-> dealt[c]]
    BY <1>7
  <2>3. QED
    BY <2>1, <2>2 DEF Numbered
<1>10. Dealing(w, start, s, outer, validNum, free, dealt)
  BY <1>4, <1>5, <1>6, <1>9 DEF Dealing
<1>11. QED
  BY <1>8, <1>9, <1>10

LEMMA DealKeeps ==
  ASSUME BlocksInv, DealBlocks
  PROVE  BlocksInv'
<1>1. PICK w : w = AtTop(walk)
  OBVIOUS
<1>2. /\ launch \in LAUNCHES /\ WalkSound(walk) /\ walk.baseIdx # -1 /\ walk.b < Batches(launch)
      /\ ~BeyondRows(walk) /\ ~BelowWindow(walk) /\ launch' = launch
      /\ hand \in [Core -> BlockRec] /\ Numbered(hand) /\ walk.b \in Nat
  BY DEF BlocksInv, DealBlocks, Planned, WalkSound, WalkRec
<1>3. /\ w \in WalkRec /\ w.b = walk.b /\ w.startCoreId = walk.startCoreId
      /\ w.baseIdx >= 0 /\ w.s1o >= TopBlock(w) /\ w.s1o <= BottomBlock(w) /\ BottomBlock(w) \in Int
      /\ BottomBlock(w) < S1Outer(launch, w.b) /\ ~BeyondRows(w) /\ AtColumn(w)
  BY <1>1, <1>2, AtTopIs
<1>4. PICK start \in Core, s \in Nat, outer \in Nat, validNum \in Nat, free \in Nat, dealt \in [Core -> BlockRec] :
      /\ Dealing(w, start, s, outer, validNum, free, dealt)
      /\ DealtNext(w, validNum, free, dealt)
  BY <1>1, DealtOut
<1>5. /\ start = w.startCoreId /\ start \in Nat /\ start < CORES /\ s = w.s1o /\ outer = S1Outer(launch, w.b)
      /\ validNum = (BottomBlock(w) - w.s1o) + 1 /\ validNum > 0 /\ s + validNum <= outer
      /\ free = CORES - w.startCoreId /\ free > 0
      /\ Numbered(dealt) /\ \A c \in Core : c < start + validNum => Fits(dealt[c])
  BY <1>4 DEF Dealing
<1>6. (\A r : RoundSound(r)' <=> RoundSound(r)) /\ \A r : Fits(r)' <=> Fits(r)
  BY <1>2 DEF RoundSound, Fits
<1>7. CASE /\ free <= validNum /\ Deal(dealt)
            /\ LET v == Restart([w EXCEPT !.baseIdx = w.baseIdx + free], FALSE)
               IN walk' = IF v.s1o + free < S1Outer(launch, v.b)
                          THEN [v EXCEPT !.s1o = v.s1o + free] ELSE UpdateIndex(v)
  <2>1. RoundSound(dealt)
    <3>1. \A c \in Core : c < start + validNum
      BY <1>5, <1>7, BlocksAssumption, SMTT(30) DEF Core
    <3>2. \A c \in Core : Fits(dealt[c]) /\ dealt[c].blockId # NO_BLOCK
      BY <1>5, <3>1 DEF Numbered, NO_BLOCK
    <3>3. QED
      BY <3>2 DEF RoundSound
  <2>2. /\ hand' \in [Core -> BlockRec]
        /\ rounds' \in Seq([Core -> BlockRec]) /\ \A i \in DOMAIN rounds' : RoundSound(rounds'[i])
        /\ Numbered(hand') /\ \A i \in DOMAIN rounds' : Numbered(rounds'[i])
    BY <1>2, <1>5, <1>7, <2>1, DealIs DEF BlocksInv, Planned
  <2>3. PICK v : v = Restart([w EXCEPT !.baseIdx = w.baseIdx + free], FALSE)
    OBVIOUS
  <2>4. /\ v \in WalkRec /\ v.startCoreId = 0 /\ v.baseIdx >= 0 /\ v.b = w.b /\ v.s1o = w.s1o
        /\ v.n2 = w.n2 /\ v.g = w.g /\ v.s2o = w.s2o
    <3>1. PICK base \in Int : base = w.baseIdx + free /\ base >= 0
      BY <1>3, <1>5 DEF WalkRec
    <3>2. PICK u : u = [w EXCEPT !.baseIdx = base] /\ v = [u EXCEPT !.startCoreId = 0, !.baseIdx = u.baseIdx]
      BY <2>3, <3>1 DEF Restart
    <3>3. u \in WalkRec /\ u.baseIdx = base /\ u.b = w.b /\ u.s1o = w.s1o /\ u.n2 = w.n2 /\ u.g = w.g /\ u.s2o = w.s2o
      BY <1>3, <3>1, <3>2 DEF WalkRec
    <3>4. 0 \in Core
      BY BlocksAssumption DEF Core
    <3>5. QED
      BY <3>1, <3>2, <3>3, <3>4 DEF WalkRec
  <2>5. AtColumn(v)
    BY <1>3, <2>4 DEF AtColumn
  <2>6. walk' = IF v.s1o + free < S1Outer(launch, v.b) THEN [v EXCEPT !.s1o = v.s1o + free] ELSE UpdateIndex(v)
    BY <1>7, <2>3
  <2>7. PICK u : u = walk'
    OBVIOUS
  <2>8. WalkSound(u) /\ u.baseIdx >= 0 /\ u.startCoreId = 0
    <3>1. CASE v.s1o + free < S1Outer(launch, v.b)
      <4>1. PICK x \in Nat : x = v.s1o + free /\ x <= S1Outer(launch, v.b)
        BY <1>5, <2>4, <3>1
      <4>2. u = [v EXCEPT !.s1o = x]
        BY <2>6, <2>7, <3>1, <4>1
      <4>3. u \in WalkRec /\ u.s1o = x /\ u.b = v.b /\ u.n2 = v.n2 /\ u.g = v.g /\ u.s2o = v.s2o
            /\ u.baseIdx = v.baseIdx /\ u.startCoreId = 0
        BY <2>4, <4>2 DEF WalkRec
      <4>4. AtColumn(u)
        BY <2>4, <2>5, <4>1, <4>3 DEF AtColumn
      <4>5. QED
        BY <1>2, <1>3, <2>4, <4>3, <4>4 DEF WalkSound, WalkRec
    <3>2. CASE ~(v.s1o + free < S1Outer(launch, v.b))
      <4>1. u = UpdateIndex(v)
        BY <2>6, <2>7, <3>2
      <4>2. u \in WalkRec /\ u.b <= Batches(launch) /\ AtColumn(u) /\ u.baseIdx = v.baseIdx /\ u.startCoreId = 0
        BY <1>2, <1>3, <2>4, <2>5, <4>1, UpdateIs
      <4>3. QED
        BY <2>4, <4>2 DEF WalkSound, WalkRec
    <3>3. QED
      BY <3>1, <3>2
  <2>9. WalkSound(walk)' /\ walk'.startCoreId = 0
    BY <1>2, <2>7, <2>8 DEF WalkSound, AtColumn
  <2>10. \A c \in Core : ~(c < 0)
    BY DEF Core
  <2>11. QED
    BY <1>2, <1>6, <2>2, <2>9, <2>10 DEF BlocksInv, Numbered
<1>8. CASE /\ free > validNum /\ hand' = dealt
            /\ walk' = UpdateIndex([w EXCEPT !.baseIdx = w.baseIdx + (S1Outer(launch, w.b) - w.s1o),
                                             !.startCoreId = w.startCoreId + validNum])
            /\ UNCHANGED rounds
  <2>1. PICK v : v = [w EXCEPT !.baseIdx = w.baseIdx + (S1Outer(launch, w.b) - w.s1o), !.startCoreId = w.startCoreId + validNum]
    OBVIOUS
  <2>2. /\ v \in WalkRec /\ v.startCoreId = start + validNum /\ v.baseIdx >= 0 /\ v.b = w.b
        /\ v.n2 = w.n2 /\ v.g = w.g /\ v.s2o = w.s2o /\ v.s1o = w.s1o
    <3>1. PICK base \in Int, x \in Core : /\ base = w.baseIdx + (S1Outer(launch, w.b) - w.s1o) /\ base >= 0
                                          /\ x = w.startCoreId + validNum
      <4>1. w.baseIdx \in Int /\ w.baseIdx >= 0
        BY <1>3 DEF WalkRec
      <4>2. w.baseIdx + (outer - s) \in Int /\ w.baseIdx + (outer - s) >= 0
        BY <1>5, <4>1
      <4>3. start + validNum \in Nat /\ start + validNum < CORES
        <5>1. free > validNum
          BY <1>8
        <5>2. CORES \in Nat
          BY BlocksAssumption
        <5>3. QED
          BY <1>5, <5>1, <5>2, SMTT(30)
      <4>4. start + validNum \in Core
        BY <4>3, BlocksAssumption DEF Core
      <4>5. QED
        BY <1>5, <4>2, <4>4
    <3>2. v = [w EXCEPT !.baseIdx = base, !.startCoreId = x]
      BY <2>1, <3>1
    <3>3. QED
      BY <1>3, <1>5, <3>1, <3>2 DEF WalkRec
  <2>3. AtColumn(v)
    BY <1>3, <2>2 DEF AtColumn
  <2>4. PICK u : u = UpdateIndex(v)
    OBVIOUS
  <2>5. u \in WalkRec /\ u.b <= Batches(launch) /\ AtColumn(u) /\ u.baseIdx = v.baseIdx /\ u.startCoreId = start + validNum
    BY <1>2, <1>3, <2>2, <2>3, <2>4, UpdateIs
  <2>6. walk' = u /\ rounds' = rounds /\ hand' = dealt
    BY <1>8, <2>1, <2>4
  <2>7. WalkSound(walk)'
    <3>1. WalkSound(u)
      BY <1>2, <1>3, <2>2, <2>5 DEF WalkSound, WalkRec
    <3>2. QED
      BY <1>2, <2>6, <3>1 DEF WalkSound, AtColumn
  <2>8. QED
    BY <1>2, <1>5, <1>6, <2>5, <2>6, <2>7 DEF BlocksInv, Planned, Numbered
<1>9. QED
  BY <1>4, <1>7, <1>8 DEF DealtNext
-----------------------------------------------------------------------------
LEMMA BlocksInvStep == BlocksInv /\ [CalcValidBlock]_blockVars => BlocksInv'
<1> SUFFICES ASSUME BlocksInv, [CalcValidBlock]_blockVars PROVE BlocksInv'
  OBVIOUS
<1>1. CASE UNCHANGED blockVars
  <2>1. /\ launch' = launch /\ walk' = walk /\ hand' = hand /\ rounds' = rounds
    BY <1>1 DEF blockVars
  <2>2. (\A r : RoundSound(r)' <=> RoundSound(r)) /\ \A r : Fits(r)' <=> Fits(r)
    BY <2>1 DEF RoundSound, Fits
  <2>3. QED
    BY <2>1, <2>2 DEF BlocksInv, Planned, Numbered, WalkSound, AtColumn
<1>2. QED
  BY <1>1, EndKeeps, SkipKeeps, DealKeeps DEF CalcValidBlock

LEMMA BlocksInvImplies == BlocksInv => BlocksTypeOK
<1> SUFFICES ASSUME BlocksInv PROVE BlocksTypeOK
  OBVIOUS
<1>1. /\ launch \in LAUNCHES /\ walk.startCoreId \in Core /\ walk.b \in Nat /\ walk.b <= Batches(launch) /\ Batches(launch) \in Nat
      /\ walk.s1o \in Nat /\ AtColumn(walk)
  BY SequencesIs DEF BlocksInv, WalkSound, WalkRec
<1>2. walk.b < Batches(launch) =>
        walk.n2 < launch.n2 /\ walk.g < launch.g /\ walk.s1o \in 0 .. S1Outer(launch, walk.b)
  BY <1>1, OuterIs DEF AtColumn
<1>3. ASSUME NEW x \in Places PROVE Fits(BlockAt(x))
  <2>1. PICK t \in 0 .. Len(rounds) - 1, c \in Core : x = <<t, c>> /\ HasBlock(t, c)
    BY <1>3 DEF Places
  <2>2. t + 1 \in DOMAIN rounds /\ t < Len(rounds)
    BY <2>1 DEF BlocksInv
  <2>3. BlockAt(x) = rounds[t + 1][c] /\ rounds[t + 1][c].blockId # NO_BLOCK
    BY <2>1, <2>2 DEF BlockAt, RoundAt, HasBlock
  <2>4. QED
    BY <2>2, <2>3 DEF BlocksInv, RoundSound
<1>4. QED
  BY <1>1, <1>2, <1>3 DEF BlocksTypeOK, Fits

THEOREM BlocksFit == BlocksSpec => []BlocksTypeOK
<1>1. BlocksInit => BlocksInv
  BY BlocksInvInit
<1>2. BlocksInv /\ [CalcValidBlock]_blockVars => BlocksInv'
  BY BlocksInvStep
<1>3. BlocksInv => BlocksTypeOK
  BY BlocksInvImplies
<1>4. QED
  BY <1>1, <1>2, <1>3, PTL DEF BlocksSpec
-----------------------------------------------------------------------------
(* Every visible pair is in one block.                                       *)

(* A block by its place in the score matrices: also what dbParams holds for  *)
(* a core is taken for one.                                                  *)
CellRec == [b : Nat, n2 : Nat, g : Nat, s1o : Nat, s2o : Nat]
InLaunch(z) ==
  /\ z.b \in Nat /\ z.n2 \in Nat /\ z.g \in Nat /\ z.s1o \in Nat /\ z.s2o \in Nat
  /\ z.b < Batches(launch) /\ z.n2 < launch.n2 /\ z.g < launch.g
  /\ z.s1o < S1Outer(launch, z.b) /\ z.s2o < S2Outer(launch, z.b)
SameColumn(w, z) == z.b = w.b /\ z.n2 = w.n2 /\ z.g = w.g /\ z.s2o = w.s2o
SameCell(y, z) == SameColumn(y, z) /\ y.s1o = z.s1o
(* The walk has come by. *)
WalkedBy(w, z) ==
  \/ z.b < w.b
  \/ z.b = w.b /\ z.n2 < w.n2
  \/ /\ z.b = w.b /\ z.n2 = w.n2
     /\ IF launch.dtm THEN z.s2o < w.s2o \/ (z.s2o = w.s2o /\ z.g < w.g)
                      ELSE z.g < w.g \/ (z.g = w.g /\ z.s2o < w.s2o)
  \/ SameColumn(w, z) /\ z.s1o < w.s1o
(* The mask leaves something of it. *)
Needed(z) == ~BeyondRows(z) /\ TopBlock(z) <= z.s1o /\ z.s1o <= BottomBlock(z)
Whole(z) == InLaunch(z) /\ z.s1Extend = S1Extend(z, z.s1o) /\ z.s2Extend = S2Extend(z, z.s1o)

(* Places of the rounds kept, and of the one being dealt. *)
HeldPlaces(rs, start) ==
  {x \in Nat \X Core : \/ x[1] < Len(rs) /\ rs[x[1] + 1][x[2]].blockId # NO_BLOCK
                       \/ x[1] = Len(rs) /\ x[2] < start}
HeldBlock(rs, h, x) == IF x[1] < Len(rs) THEN rs[x[1] + 1][x[2]] ELSE h[x[2]]

WholeBlocks(rs, h, w, start) ==
  \A x \in HeldPlaces(rs, start) : LET block == HeldBlock(rs, h, x) IN WalkedBy(w, block) /\ Whole(block)
Apart(rs, h, start) ==
  \A x, y \in HeldPlaces(rs, start) : SameCell(HeldBlock(rs, h, x), HeldBlock(rs, h, y)) => x = y
NoneLost(rs, h, w, start) ==
  \A z \in CellRec : InLaunch(z) /\ WalkedBy(w, z) /\ Needed(z) =>
    \E x \in HeldPlaces(rs, start) : SameCell(HeldBlock(rs, h, x), z)
PairsSound(rs, h, w, start) == WholeBlocks(rs, h, w, start) /\ Apart(rs, h, start) /\ NoneLost(rs, h, w, start)
PairsInv ==
  /\ BlocksInv /\ PairsSound(rounds, hand, walk, walk.startCoreId)
  /\ Planned => walk.startCoreId = 0 /\ walk.b >= Batches(launch)

(* A step of the walk from w to v that deals out the blocks at places New:   *)
(* these blocks are new, and all that the mask leaves something of between   *)
(* w and v.                                                                  *)
Grows(rs, h, w, start, ss, k, v, next, New) ==
  /\ HeldPlaces(ss, next) = HeldPlaces(rs, start) \cup New
  /\ \A x \in HeldPlaces(rs, start) : HeldBlock(ss, k, x) = HeldBlock(rs, h, x)
  /\ \A x \in New : LET block == HeldBlock(ss, k, x) IN Whole(block) /\ WalkedBy(v, block) /\ ~WalkedBy(w, block)
  /\ \A x, y \in New : SameCell(HeldBlock(ss, k, x), HeldBlock(ss, k, y)) => x = y
  /\ \A z : InLaunch(z) /\ WalkedBy(w, z) => WalkedBy(v, z)
  /\ \A z \in CellRec : InLaunch(z) /\ WalkedBy(v, z) /\ Needed(z) =>
       WalkedBy(w, z) \/ \E x \in New : SameCell(HeldBlock(ss, k, x), z)
(* Round r, with blocks for the cores before start, is kept.                 *)
Kept(rs, r, ss, start) ==
  /\ rs \in Seq([Core -> BlockRec]) /\ r \in [Core -> BlockRec] /\ ss = Append(rs, r)
  /\ start \in Nat /\ start <= CORES
  /\ \A c \in Core : r[c].blockId # NO_BLOCK <=> c < start
(* Where a pair that is seen lies, in numbers of the mask. *)
LEMMA SeenBounds ==
  ASSUME launch \in LAUNCHES, NEW b \in Nat, b < Batches(launch),
         NEW row \in Nat, row < RowsOf(launch, b), NEW key \in Nat, key < KeysOf(launch, b),
         Sees(b, row, key)
  PROVE  key <= row + S2Token(launch, b) /\ row <= key + S1Token(launch, b)
<1> DEFINE rows == RowsOf(launch, b)
           keys == KeysOf(launch, b)
<1>1. /\ launch.left \in Int /\ launch.right \in Int /\ UNBOUNDED \in Nat
      /\ launch.causal \in BOOLEAN
  BY BlocksAssumption
<1>2. rows \in Nat /\ keys \in Nat
  BY SequencesIs
<1>3. rows <= UNBOUNDED /\ keys <= UNBOUNDED
  <2>1. b + 1 \in DOMAIN launch.q
    <3>1. b + 1 \in 1 .. Len(launch.q)
      BY SequencesIs
    <3>2. launch.q \in Seq(Nat)
      BY BlocksAssumption
    <3>3. QED
      BY <3>1, <3>2
  <2>2. launch.q[b + 1] <= UNBOUNDED /\ launch.k[b + 1] <= UNBOUNDED
    BY <2>1, BlocksAssumption
  <2>3. QED
    BY <2>2 DEF RowsOf, KeysOf
<1>4. PICK left \in Int, right \in Int : left = Window(launch).left /\ right = Window(launch).right
  BY <1>1 DEF Window
<1>5. left >= 0 => key >= row + keys - rows - left
  <2>1. left >= 0 => launch.left = left
    BY <1>1, <1>4 DEF Window
  <2>2. QED
    BY <1>1, <1>2, <2>1 DEF Sees
<1>6. right >= 0 => key <= row + keys - rows + right
  <2>1. right >= 0 => (launch.causal /\ right = 0) \/ (~launch.causal /\ launch.right = right)
    BY <1>1, <1>4 DEF Window
  <2>2. CASE right >= 0 /\ launch.causal /\ right = 0
    BY <1>1, <1>2, <2>2 DEF Sees
  <2>3. CASE right >= 0 /\ ~launch.causal /\ launch.right = right
    BY <1>1, <1>2, <2>3 DEF Sees
  <2>4. QED
    BY <2>1, <2>2, <2>3
<1> HIDE DEF rows, keys
<1>7. PICK shift \in Int : shift = Shift(launch, b) /\ shift = IF left >= 0 \/ right >= 0 THEN rows - keys ELSE 0
  BY <1>2, <1>4 DEF Shift, Masked, rows, keys
<1>8. /\ S1Token(launch, b) = (IF left < 0 THEN UNBOUNDED ELSE left) + shift
      /\ S2Token(launch, b) = (IF right < 0 THEN UNBOUNDED ELSE right) - shift
  BY <1>4, <1>7 DEF S1Token, S2Token, Reach
<1>9. row < rows /\ key < keys
  BY DEF rows, keys
<1>10. key <= row + S2Token(launch, b)
  <2>1. PICK token \in Int : token = S2Token(launch, b)
    BY TokensIs
  <2>2. CASE right < 0
    BY <1>1, <1>2, <1>3, <1>7, <1>8, <1>9, <2>1, <2>2
  <2>3. CASE right >= 0
    <3>1. token = right - (rows - keys)
      BY <1>7, <1>8, <2>1, <2>3
    <3>2. key <= (row + (keys - rows)) + right
      BY <1>2, <1>6, <2>3
    <3>3. QED
      BY <1>2, <2>1, <3>1, <3>2
  <2>4. QED
    BY <2>2, <2>3
<1>11. row <= key + S1Token(launch, b)
  <2>1. PICK token \in Int : token = S1Token(launch, b)
    BY TokensIs
  <2>2. CASE left < 0
    BY <1>1, <1>2, <1>3, <1>7, <1>8, <1>9, <2>1, <2>2
  <2>3. CASE left >= 0
    <3>1. token = left + (rows - keys)
      BY <1>7, <1>8, <2>1, <2>3
    <3>2. key >= (row + (keys - rows)) - left
      BY <1>2, <1>5, <2>3
    <3>3. QED
      BY <1>2, <2>1, <3>1, <3>2
  <2>4. QED
    BY <2>2, <2>3
<1>12. QED
  BY <1>10, <1>11

LEMMA ModIs ==
  ASSUME NEW a \in Nat, NEW n \in Nat \ {0}
  PROVE  a \div n \in Nat /\ (a \div n) * n \in Nat /\ a % n = a - (a \div n) * n /\ a % n \in Nat /\ a % n < n
<1>1. a \div n \in Int /\ (a \div n) * n <= a /\ a < (a \div n) * n + n
  BY DivIs
<1>2. a % n \in 0 .. n - 1 /\ a = n * (a \div n) + (a % n) /\ a \div n \in Nat
  OBVIOUS
<1>3. QED
  BY <1>1, <1>2

LEMMA TimesLess ==
  ASSUME NEW a \in Int, NEW b \in Int, NEW n \in Nat \ {0}, a * n < b * n
  PROVE  a < b
<1> SUFFICES ASSUME b <= a PROVE FALSE
  OBVIOUS
<1>1. b * n <= a * n /\ a * n \in Int /\ b * n \in Int
  BY TimesGrows
<1>2. QED
  BY <1>1

(* The block of a pair that is seen is one the mask leaves something of, and *)
(* both reach into what is left of it.                                       *)
LEMMA SeenCell ==
  ASSUME launch \in LAUNCHES, NEW z \in CellRec, z.b < Batches(launch),
         NEW row \in Nat, row < RowsOf(launch, z.b), NEW key \in Nat, key < KeysOf(launch, z.b),
         Sees(z.b, row, key), z.s1o = row \div S1_INNER, z.s2o = key \div S2_INNER
  PROVE  /\ z.s1o < S1Outer(launch, z.b) /\ z.s2o < S2Outer(launch, z.b) /\ Needed(z)
         /\ row % S1_INNER < S1Extend(z, z.s1o) /\ key % S2_INNER < S2Extend(z, z.s1o)
<1> DEFINE rows == RowsOf(launch, z.b)
           keys == KeysOf(launch, z.b)
           n == S1_INNER
           m == S2_INNER
<1>1. /\ rows \in Nat /\ keys \in Nat /\ n \in Nat \ {0} /\ m \in Nat \ {0} /\ KEY_ALIGN \in Nat \ {0} /\ z.b \in Nat
  BY SequencesIs, BlocksAssumption DEF CellRec
<1>2. PICK t1 \in Int, t2 \in Int : t1 = S1Token(launch, z.b) /\ t2 = S2Token(launch, z.b)
  BY <1>1, TokensIs
<1>3. key <= row + t2 /\ row <= key + t1
  BY <1>1, <1>2, SeenBounds
<1>4. PICK r \in Nat, at \in Nat, s \in Nat :
        r = row % n /\ s = z.s1o /\ at = s * n /\ row = at + r /\ r < n /\ (s + 1) * n = at + n
  <2>1. /\ row \div n \in Nat /\ (row \div n) * n \in Nat /\ row % n = row - (row \div n) * n
        /\ row % n \in Nat /\ row % n < n
    BY <1>1, ModIs
  <2>2. (z.s1o + 1) * n = z.s1o * n + n
    BY <1>1, <2>1, NextTimes
  <2>3. QED
    BY <1>1, <2>1, <2>2
<1>5. PICK p \in Nat, first \in Nat, c \in Nat :
        p = key % m /\ c = z.s2o /\ first = c * m /\ key = first + p /\ p < m /\ (c + 1) * m = first + m
  <2>1. /\ key \div m \in Nat /\ (key \div m) * m \in Nat /\ key % m = key - (key \div m) * m
        /\ key % m \in Nat /\ key % m < m
    BY <1>1, ModIs
  <2>2. (z.s2o + 1) * m = z.s2o * m + m
    BY <1>1, <2>1, NextTimes
  <2>3. QED
    BY <1>1, <2>1, <2>2
<1>6. PICK outer \in Nat : outer = S1Outer(launch, z.b) /\ rows <= outer * n /\ outer * n \in Nat /\ s < outer
  <2>1. PICK outer \in Nat : outer = S1Outer(launch, z.b) /\ rows <= outer * n
    BY <1>1, OuterIs
  <2>2. outer * n \in Nat
    BY <1>1, <2>1
  <2>3. s * n < outer * n
    BY <1>1, <1>4, <2>1, <2>2
  <2>4. s < outer
    BY <1>1, <2>3, TimesLess
  <2>5. QED
    BY <2>1, <2>2, <2>4
<1>7. c < S2Outer(launch, z.b)
  <2>1. PICK outer2 \in Nat : outer2 = S2Outer(launch, z.b) /\ keys <= outer2 * m
    BY <1>1, OuterIs
  <2>2. outer2 * m \in Nat
    BY <1>1, <2>1
  <2>3. c * m < outer2 * m
    BY <1>1, <1>5, <2>1, <2>2
  <2>4. QED
    BY <1>1, <2>1, <2>3, TimesLess
<1>8. TopRow(z) = first - t2 /\ TopRow(z) \in Int /\ TopRow(z) <= row
  BY <1>1, <1>2, <1>3, <1>5 DEF TopRow
<1>9. ~BeyondRows(z)
  BY <1>1, <1>8 DEF BeyondRows
<1>10. TopBlock(z) <= s
  <2>1. PICK top \in Int : top = TopRow(z) /\ top <= row
    BY <1>8
  <2>2. PICK q \in Int : q = Quot(top, n) /\ (top >= 0 => q = top \div n) /\ (top < 0 => q <= 0)
    BY <1>1, QuotIs
  <2>3. TopBlock(z) = IF 0 >= q THEN 0 ELSE q
    BY <2>1, <2>2, MaxOfTwo DEF TopBlock
  <2>4. CASE top >= 0
    <3>1. q * n \in Int /\ q * n <= top
      <4>1. (top \div n) * n <= top
        BY <1>1, DivIs
      <4>2. q = top \div n
        BY <2>2, <2>4
      <4>3. q * n \in Int
        BY <1>1, NextTimes
      <4>4. QED
        BY <4>1, <4>2, <4>3, Zenon
    <3>2. q * n < (s + 1) * n
      BY <1>1, <1>4, <2>1, <3>1
    <3>3. q < s + 1
      BY <1>1, <2>2, <3>2, TimesLess
    <3>4. QED
      BY <2>2, <2>3, <3>3
  <2>5. CASE top < 0
    BY <2>2, <2>3, <2>5
  <2>6. QED
    BY <2>1, <2>4, <2>5
<1>11. s <= BottomBlock(z)
  <2>1. PICK x \in Int : x = first + m + t1 /\ x = (z.s2o + 1) * S2_INNER + S1Token(launch, z.b) /\ x > row
    BY <1>1, <1>2, <1>3, <1>5
  <2>2. EndRow(z) = IF rows <= x THEN rows ELSE x
    BY <1>1, <2>1, MinOfTwo DEF EndRow
  <2>3. PICK y \in Nat : EndRow(z) \in Int /\ y = (EndRow(z) + n) - 1 /\ y >= at + n
    BY <1>1, <1>4, <2>1, <2>2
  <2>4. PICK q \in Int : q = Quot(y, n) /\ q = y \div n /\ BottomBlock(z) = q - 1
    <3>1. Quot(y, n) \in Int /\ Quot(y, n) = y \div n
      BY <1>1, <2>3, QuotIs
    <3>2. QED
      BY <1>1, <2>3, <3>1 DEF BottomBlock
  <2>5. q * n \in Int /\ y < (q + 1) * n /\ q + 1 \in Int /\ s + 1 \in Int
    <3>1. y < q * n + n
      <4>1. y < (y \div n) * n + n
        BY <1>1, DivIs
      <4>2. QED
        BY <2>4, <4>1, Zenon
    <3>2. q * n \in Int /\ (q + 1) * n = q * n + n
      BY <1>1, <2>4, NextTimes
    <3>3. QED
      BY <2>4, <3>1, <3>2
  <2>6. (s + 1) * n < (q + 1) * n
    BY <1>4, <2>3, <2>5, NextTimes, <1>1, <2>4
  <2>7. s + 1 < q + 1
    BY <1>1, <2>5, <2>6, TimesLess
  <2>8. QED
    BY <2>4, <2>7
<1>12. Needed(z)
  BY <1>4, <1>9, <1>10, <1>11 DEF Needed
<1>13. PICK e \in Int : e = S1Extend(z, z.s1o) /\ r < e
  <2>1. CASE s = outer - 1
    BY <1>1, <1>4, <1>6, <2>1 DEF S1Extend
  <2>2. CASE s # outer - 1
    BY <1>1, <1>4, <1>6, <2>2 DEF S1Extend
  <2>3. QED
    BY <2>1, <2>2
<1>14. p < S2Extend(z, z.s1o)
  <2>1. PICK seen \in Nat : seen = Max({0, at + e + t2}) /\ seen > key
    <3>1. PICK y \in Int : y = at + e + t2 /\ y > key
      BY <1>3, <1>4, <1>13
    <3>2. QED
      BY <3>1, MaxOfTwo
  <2>2. PICK right \in Int : right = CeilDiv(seen, KEY_ALIGN) * KEY_ALIGN /\ seen <= right
    BY <1>1, <2>1, CeilIs, NextTimes
  <2>3. PICK whole \in Int : whole = Min({first + m, keys}) /\ whole > key
    <3>1. PICK y \in Int : y = first + m /\ y > key
      BY <1>1, <1>5
    <3>2. Min({y, keys}) = IF y <= keys THEN y ELSE keys
      BY <1>1, <3>1, MinOfTwo
    <3>3. QED
      BY <1>1, <3>1, <3>2
  <2>4. PICK end \in Int : end = Min({whole, right}) /\ end > key
    <3>1. Min({whole, right}) = IF whole <= right THEN whole ELSE right
      BY <2>2, <2>3, MinOfTwo
    <3>2. QED
      BY <2>1, <2>2, <2>3, <3>1
  <2>5. S2Extend(z, z.s1o) = Max({0, end - first})
    BY <1>2, <1>4, <1>5, <1>13, <2>1, <2>2, <2>3, <2>4 DEF S2Extend
  <2>6. PICK y \in Int : y = end - first /\ y > p
    BY <1>5, <2>4
  <2>7. Max({0, y}) = y
    BY <2>6, MaxOfTwo
  <2>8. QED
    BY <2>5, <2>6, <2>7
<1>15. QED
  BY <1>4, <1>5, <1>6, <1>7, <1>12, <1>13, <1>14
-----------------------------------------------------------------------------
(* What the walk comes by.                                                   *)
GroupEnds(w) == w.g >= launch.g - 1
ColumnsEnd(w) == w.s2o >= S2Outer(launch, w.b) - 1
HeadsEnd(w) == (GroupEnds(w) /\ ColumnsEnd(w)) /\ w.n2 >= launch.n2 - 1
LEMMA UpdateFields ==
  ASSUME NEW w \in WalkRec, NEW u, u = UpdateIndex(w)
  PROVE  /\ u.s1o = 0
         /\ u.g = IF ~launch.dtm /\ ~ColumnsEnd(w) THEN w.g ELSE IF GroupEnds(w) THEN 0 ELSE w.g + 1
         /\ u.s2o = IF launch.dtm /\ ~GroupEnds(w) THEN w.s2o ELSE IF ColumnsEnd(w) THEN 0 ELSE w.s2o + 1
         /\ u.n2 = IF HeadsEnd(w) THEN 0 ELSE IF GroupEnds(w) /\ ColumnsEnd(w) THEN w.n2 + 1 ELSE w.n2
         /\ u.b = IF HeadsEnd(w) THEN w.b + 1 ELSE w.b
<1> DEFINE heads == launch.n2 * launch.g
           newG == IF ~launch.dtm /\ ~ColumnsEnd(w) THEN w.g ELSE IF GroupEnds(w) THEN 0 ELSE w.g + 1
           newS == IF launch.dtm /\ ~GroupEnds(w) THEN w.s2o ELSE IF ColumnsEnd(w) THEN 0 ELSE w.s2o + 1
           newN == IF HeadsEnd(w) THEN 0 ELSE IF GroupEnds(w) /\ ColumnsEnd(w) THEN w.n2 + 1 ELSE w.n2
           newB == IF HeadsEnd(w) THEN w.b + 1 ELSE w.b
           dq == IF HeadsEnd(w) THEN w.dqOutBase + heads * S1Outer(launch, w.b) ELSE w.dqOutBase
           kv == IF HeadsEnd(w) THEN w.kvOutBase + launch.n2 * S2Outer(launch, w.b) ELSE w.kvOutBase
<1>1. u = [w EXCEPT !.s1o = 0, !.g = newG, !.s2o = newS, !.n2 = newN, !.b = newB,
                    !.dqOutBase = dq, !.kvOutBase = kv]
  BY Zenon DEF UpdateIndex, GroupEnds, ColumnsEnd, HeadsEnd
<1> HIDE DEF newG, newS, newN, newB, dq, kv
<1>2. u.s1o = 0 /\ u.g = newG /\ u.s2o = newS /\ u.n2 = newN /\ u.b = newB
  BY <1>1 DEF WalkRec
<1>3. QED
  BY <1>2 DEF newG, newS, newN, newB

(* One step of the walk comes by the rest of the column. *)
LEMMA PassedUpdate ==
  ASSUME launch \in LAUNCHES, NEW w \in WalkRec, w.b < Batches(launch), AtColumn(w),
         NEW z, InLaunch(z), NEW u, u = UpdateIndex(w)
  PROVE  WalkedBy(u, z) <=> WalkedBy(w, z) \/ SameColumn(w, z)
<1>1. PICK wb \in Nat, wn \in Nat, wg \in Nat, ws \in Nat :
        wb = w.b /\ wn = w.n2 /\ wg = w.g /\ ws = w.s2o
  BY DEF WalkRec
<1>2. PICK zb \in Nat, zn \in Nat, zg \in Nat, zs \in Nat, z1 \in Nat :
        zb = z.b /\ zn = z.n2 /\ zg = z.g /\ zs = z.s2o /\ z1 = z.s1o
  BY DEF InLaunch
<1>3. PICK n \in Nat, g \in Nat, outer \in Nat : n = launch.n2 /\ g = launch.g /\ outer = S2Outer(launch, w.b) /\ n > 0 /\ g > 0
  <2>1. S2Outer(launch, w.b) \in Nat
    BY <1>1, OuterIs
  <2>2. launch.n2 \in Nat \ {0} /\ launch.g \in Nat \ {0}
    BY SequencesIs
  <2>3. QED
    BY <2>1, <2>2
<1>4. zn < n /\ zg < g /\ (zb = wb => zs < outer) /\ wn < n /\ wg < g /\ (ws = 0 \/ ws < outer)
  BY <1>1, <1>2, <1>3 DEF InLaunch, AtColumn
<1> DEFINE gEnds == wg >= g - 1
           s2oEnds == ws >= outer - 1
           headsEnd == gEnds /\ s2oEnds /\ wn >= n - 1
<1>5. /\ u.s1o = 0
      /\ u.g = IF ~launch.dtm /\ ~s2oEnds THEN wg ELSE IF gEnds THEN 0 ELSE wg + 1
      /\ u.s2o = IF launch.dtm /\ ~gEnds THEN ws ELSE IF s2oEnds THEN 0 ELSE ws + 1
      /\ u.n2 = IF headsEnd THEN 0 ELSE IF gEnds /\ s2oEnds THEN wn + 1 ELSE wn
      /\ u.b = IF headsEnd THEN wb + 1 ELSE wb
  <2>1. (gEnds <=> GroupEnds(w)) /\ (s2oEnds <=> ColumnsEnd(w)) /\ (headsEnd <=> HeadsEnd(w))
    BY <1>1, <1>3 DEF GroupEnds, ColumnsEnd, HeadsEnd
  <2> HIDE DEF gEnds, s2oEnds, headsEnd
  <2>2. QED
    BY <1>1, <2>1, UpdateFields
<1>6. PICK ub \in Nat, un \in Nat, ug \in Nat, us \in Nat : ub = u.b /\ un = u.n2 /\ ug = u.g /\ us = u.s2o
  BY <1>1, <1>5
<1>7. /\ ug = IF ~launch.dtm /\ ~s2oEnds THEN wg ELSE IF gEnds THEN 0 ELSE wg + 1
      /\ us = IF launch.dtm /\ ~gEnds THEN ws ELSE IF s2oEnds THEN 0 ELSE ws + 1
      /\ un = IF headsEnd THEN 0 ELSE IF gEnds /\ s2oEnds THEN wn + 1 ELSE wn
      /\ ub = IF headsEnd THEN wb + 1 ELSE wb
  BY <1>5, <1>6
<1> DEFINE later(xb, xn, xg, xs) ==
             \/ zb < xb
             \/ zb = xb /\ zn < xn
             \/ /\ zb = xb /\ zn = xn
                /\ IF launch.dtm THEN zs < xs \/ (zs = xs /\ zg < xg) ELSE zg < xg \/ (zg = xg /\ zs < xs)
<1>8. later(ub, un, ug, us) <=> later(wb, wn, wg, ws) \/ (zb = wb /\ zn = wn /\ zg = wg /\ zs = ws)
  <2>1. CASE launch.dtm
    BY <1>4, <1>7, <2>1
  <2>2. CASE ~launch.dtm
    BY <1>4, <1>7, <2>2
  <2>3. QED
    BY <2>1, <2>2
<1>9. WalkedBy(u, z) <=> later(ub, un, ug, us)
  <2>1. ~(z.s1o < u.s1o)
    BY <1>2, <1>5
  <2>2. QED
    BY <1>2, <1>6, <2>1 DEF WalkedBy
<1>10. WalkedBy(w, z) <=> later(wb, wn, wg, ws) \/ (SameColumn(w, z) /\ z.s1o < w.s1o)
  BY <1>1, <1>2 DEF WalkedBy
<1>11. SameColumn(w, z) <=> (zb = wb /\ zn = wn /\ zg = wg /\ zs = ws)
  BY <1>1, <1>2 DEF SameColumn
<1> HIDE DEF later
<1>12. QED
  BY <1>8, <1>9, <1>10, <1>11

(* A block, a walk and their column agree on what lies in the column. *)
LEMMA ColumnShared ==
  ASSUME NEW w, NEW z, SameColumn(w, z)
  PROVE  /\ TopBlock(z) = TopBlock(w) /\ BottomBlock(z) = BottomBlock(w) /\ (BeyondRows(z) <=> BeyondRows(w))
         /\ \A s1o : S1Extend(z, s1o) = S1Extend(w, s1o) /\ S2Extend(z, s1o) = S2Extend(w, s1o)
<1>1. z.b = w.b /\ z.s2o = w.s2o
  BY DEF SameColumn
<1>2. TopRow(z) = TopRow(w) /\ EndRow(z) = EndRow(w)
  BY <1>1 DEF TopRow, EndRow
<1>3. \A s1o : S1Extend(z, s1o) = S1Extend(w, s1o)
  BY <1>1 DEF S1Extend
<1>4. QED
  BY <1>1, <1>2, <1>3 DEF TopBlock, BottomBlock, BeyondRows, S2Extend

LEMMA SamePassed ==
  ASSUME NEW w, NEW y, NEW z, SameCell(y, z)
  PROVE  WalkedBy(w, y) <=> WalkedBy(w, z)
<1>1. y.b = z.b /\ y.n2 = z.n2 /\ y.g = z.g /\ y.s2o = z.s2o /\ y.s1o = z.s1o
  BY DEF SameCell, SameColumn
<1>2. QED
  BY <1>1 DEF WalkedBy, SameColumn

LEMMA PairsGrow ==
  ASSUME NEW rs, NEW h, NEW w, NEW start, PairsSound(rs, h, w, start),
         NEW ss, NEW k, NEW v, NEW next, NEW New, Grows(rs, h, w, start, ss, k, v, next, New)
  PROVE  PairsSound(ss, k, v, next)
<1> DEFINE was == HeldPlaces(rs, start)
           now == HeldPlaces(ss, next)
           block(x) == HeldBlock(ss, k, x)
<1>1. now = was \cup New
  BY DEF Grows
<1>2. \A x \in was : WalkedBy(w, block(x)) /\ Whole(block(x))
  BY DEF PairsSound, WholeBlocks, Grows
<1>3. \A x, y \in was : SameCell(block(x), block(y)) => x = y
  BY DEF PairsSound, Apart, Grows
<1>4. \A z \in CellRec : InLaunch(z) /\ WalkedBy(w, z) /\ Needed(z) => \E x \in was : SameCell(block(x), z)
  BY DEF PairsSound, NoneLost, Grows
<1>5. \A x \in New : Whole(block(x)) /\ WalkedBy(v, block(x)) /\ ~WalkedBy(w, block(x))
  BY DEF Grows
<1>6. \A x, y \in New : SameCell(block(x), block(y)) => x = y
  BY DEF Grows
<1>7. \A z \in CellRec : InLaunch(z) /\ WalkedBy(v, z) /\ Needed(z) => WalkedBy(w, z) \/ \E x \in New : SameCell(block(x), z)
  BY DEF Grows
<1>8. WholeBlocks(ss, k, v, next)
  <2>1. ASSUME NEW x \in now PROVE WalkedBy(v, block(x)) /\ Whole(block(x))
    <3>1. CASE x \in was
      <4>1. InLaunch(block(x))
        BY <1>2, <3>1 DEF Whole
      <4>2. QED
        BY <1>2, <3>1, <4>1 DEF Grows
    <3>2. CASE x \in New
      BY <1>5, <3>2
    <3>3. QED
      BY <1>1, <2>1, <3>1, <3>2
  <2>2. QED
    BY <2>1 DEF WholeBlocks
<1> HIDE DEF was, now, block
<1>9. ASSUME NEW x \in now, NEW y \in now, SameCell(block(x), block(y))
      PROVE  x = y
  <2>1. WalkedBy(w, block(x)) <=> WalkedBy(w, block(y))
    BY <1>9, SamePassed
  <2>2. (x \in was /\ y \in was) \/ (x \in New /\ y \in New)
    BY <1>1, <1>2, <1>5, <2>1
  <2>3. QED
    BY <1>3, <1>6, <1>9, <2>2
<1>10. Apart(ss, k, next)
  BY <1>9 DEF Apart, now, block
<1>11. ASSUME NEW z \in CellRec, InLaunch(z), WalkedBy(v, z), Needed(z)
       PROVE  \E x \in now : SameCell(block(x), z)
  <2>1. CASE WalkedBy(w, z)
    BY <1>1, <1>4, <1>11, <2>1
  <2>2. CASE \E x \in New : SameCell(block(x), z)
    BY <1>1, <2>2
  <2>3. QED
    BY <1>7, <1>11, <2>1, <2>2
<1>12. NoneLost(ss, k, v, next)
  BY <1>11 DEF NoneLost, now, block
<1>13. QED
  BY <1>8, <1>10, <1>12 DEF PairsSound

(* A round that is kept holds its blocks where the round being dealt did. *)
LEMMA KeptHolds ==
  ASSUME NEW rs, NEW r, NEW ss, NEW start, Kept(rs, r, ss, start)
  PROVE  /\ HeldPlaces(ss, 0) = HeldPlaces(rs, start)
         /\ \A k : \A x \in HeldPlaces(rs, start) : HeldBlock(ss, k, x) = HeldBlock(rs, r, x)
<1>1. /\ Len(rs) \in Nat /\ Len(ss) = Len(rs) + 1 /\ ss[Len(rs) + 1] = r
      /\ \A i \in 1 .. Len(rs) : ss[i] = rs[i]
  BY DEF Kept
<1>2. \A c \in Core : c \in Nat /\ (r[c].blockId # NO_BLOCK <=> c < start)
  BY DEF Core, Kept
<1>3. ASSUME NEW x \in Nat \X Core
      PROVE  x \in HeldPlaces(ss, 0) <=> x \in HeldPlaces(rs, start)
  <2>1. PICK t \in Nat, c \in Core : t = x[1] /\ c = x[2]
    OBVIOUS
  <2>2. x \in HeldPlaces(ss, 0) <=> t < Len(rs) + 1 /\ ss[t + 1][c].blockId # NO_BLOCK
    BY <1>1, <1>2, <2>1 DEF HeldPlaces
  <2>3. x \in HeldPlaces(rs, start) <=>
          \/ t < Len(rs) /\ rs[t + 1][c].blockId # NO_BLOCK
          \/ t = Len(rs) /\ c < start
    BY <2>1 DEF HeldPlaces
  <2>4. CASE t < Len(rs)
    <3>1. t + 1 \in 1 .. Len(rs)
      BY <1>1, <2>4
    <3>2. ss[t + 1] = rs[t + 1]
      BY <1>1, <3>1
    <3>3. QED
      BY <1>1, <2>2, <2>3, <2>4, <3>2
  <2>5. CASE t = Len(rs)
    <3>1. ss[t + 1] = r
      BY <1>1, <2>5
    <3>2. r[c].blockId # NO_BLOCK <=> c < start
      BY <1>2
    <3>3. QED
      BY <1>1, <2>2, <2>3, <2>5, <3>1, <3>2
  <2>6. CASE t > Len(rs)
    BY <1>1, <2>2, <2>3, <2>6
  <2>7. QED
    BY <1>1, <2>4, <2>5, <2>6
<1>4. HeldPlaces(ss, 0) \subseteq Nat \X Core /\ HeldPlaces(rs, start) \subseteq Nat \X Core
  BY DEF HeldPlaces
<1>5. ASSUME NEW k, NEW x \in HeldPlaces(rs, start)
      PROVE  HeldBlock(ss, k, x) = HeldBlock(rs, r, x)
  <2>1. PICK t \in Nat, c \in Core : t = x[1] /\ c = x[2] /\ t <= Len(rs)
    BY <1>1, <1>5 DEF HeldPlaces
  <2>2. CASE t < Len(rs)
    <3>1. t + 1 \in 1 .. Len(rs)
      BY <1>1, <2>2
    <3>2. ss[t + 1] = rs[t + 1]
      BY <1>1, <3>1
    <3>3. QED
      BY <1>1, <2>1, <2>2, <3>2 DEF HeldBlock
  <2>3. CASE t = Len(rs)
    BY <1>1, <2>1, <2>3 DEF HeldBlock
  <2>4. QED
    BY <1>1, <2>1, <2>2, <2>3
<1>6. QED
  BY <1>3, <1>4, <1>5

LEMMA KeptKeeps ==
  ASSUME NEW rs, NEW h, NEW r, NEW k, NEW w, NEW v, NEW ss, NEW start,
         Kept(rs, r, ss, start), PairsSound(rs, h, w, start),
         \A c \in Core : c < start => r[c] = h[c],
         \A z : InLaunch(z) => (WalkedBy(v, z) <=> WalkedBy(w, z))
  PROVE  PairsSound(ss, k, v, 0)
<1>1. /\ HeldPlaces(ss, 0) = HeldPlaces(rs, start)
      /\ \A x \in HeldPlaces(rs, start) : HeldBlock(ss, k, x) = HeldBlock(rs, r, x)
  BY KeptHolds
<1>2. ASSUME NEW x \in HeldPlaces(rs, start)
      PROVE  HeldBlock(rs, r, x) = HeldBlock(rs, h, x)
  <2>1. PICK t \in Nat, c \in Core : t = x[1] /\ c = x[2] /\ (t < Len(rs) \/ (t = Len(rs) /\ c < start))
    BY <1>2 DEF HeldPlaces
  <2>2. CASE t < Len(rs)
    BY <2>1, <2>2 DEF HeldBlock
  <2>3. CASE ~(t < Len(rs))
    BY <2>1, <2>3 DEF HeldBlock
  <2>4. QED
    BY <2>2, <2>3
<1>3. Grows(rs, h, w, start, ss, k, v, 0, {})
  BY <1>1, <1>2 DEF Grows
<1>4. QED
  BY <1>3, PairsGrow

(* How far a walk has come, in a column it is in. *)
LEMMA PassedHere ==
  ASSUME NEW w, NEW v, SameColumn(w, v), NEW z, InLaunch(z)
  PROVE  /\ SameColumn(w, z) => (WalkedBy(v, z) <=> z.s1o < v.s1o)
         /\ ~SameColumn(w, z) => (WalkedBy(v, z) <=> WalkedBy(w, z))
<1>1. v.b = w.b /\ v.n2 = w.n2 /\ v.g = w.g /\ v.s2o = w.s2o
  BY DEF SameColumn
<1>2. z.b \in Nat /\ z.n2 \in Nat /\ z.g \in Nat /\ z.s2o \in Nat
  BY DEF InLaunch
<1>3. ASSUME SameColumn(w, z) PROVE WalkedBy(v, z) <=> z.s1o < v.s1o
  <2>1. z.b = v.b /\ z.n2 = v.n2 /\ z.g = v.g /\ z.s2o = v.s2o
    BY <1>1, <1>3 DEF SameColumn
  <2>2. ~(z.b < v.b) /\ ~(z.n2 < v.n2) /\ ~(z.g < v.g) /\ ~(z.s2o < v.s2o)
    BY <1>2, <2>1
  <2>3. QED
    BY <2>1, <2>2 DEF WalkedBy, SameColumn
<1>4. ASSUME ~SameColumn(w, z) PROVE WalkedBy(v, z) <=> WalkedBy(w, z)
  BY <1>1, <1>4 DEF WalkedBy, SameColumn
<1>5. QED
  BY <1>3, <1>4

ShiftsTo(s, start, m, j, c) ==
  c = start + (j - s) /\ c >= start /\ c < start + m /\ s + (c - start) = j

LEMMA Shifted ==
  ASSUME NEW s \in Nat, NEW start \in Nat, NEW m \in Nat, NEW j \in s .. s + m - 1
  PROVE  \E c \in Nat : ShiftsTo(s, start, m, j, c)
<1>1. PICK d \in Nat : d = j - s /\ d < m /\ s + d = j
  OBVIOUS
<1>2. PICK c \in Nat : c = start + d
  OBVIOUS
<1>3. c - start = d /\ c >= start /\ c < start + m
  BY <1>1, <1>2
<1>4. QED
  BY <1>1, <1>2, <1>3 DEF ShiftsTo

(* Hand k has m blocks more than h, of the column of w.                       *)
DealtFrom(h, k, w, start, s, m) ==
  /\ \A c \in Core : c < start => k[c] = h[c]
  /\ \A c \in Core : c >= start /\ c < start + m => DealtAt(k[c], w, s + (c - start))
(* The walk goes on from the column of w with its blocks before to done.      *)
Reaches(w, to, v) ==
  \A z : InLaunch(z) =>
    /\ ~SameColumn(w, z) => (WalkedBy(v, z) <=> WalkedBy(w, z))
    /\ SameColumn(w, z) /\ z.s1o < to => WalkedBy(v, z)
    /\ SameColumn(w, z) /\ WalkedBy(v, z) /\ Needed(z) => z.s1o < to

(* The blocks of a column that are dealt out to the cores from start on. *)
LEMMA DealGrows ==
  ASSUME NEW rs, Len(rs) \in Nat, NEW h, NEW w, NEW start \in Nat, PairsSound(rs, h, w, start),
         NEW s \in Nat, s = w.s1o, NEW m \in Nat, start + m <= CORES, InLaunch(w) \/ m = 0,
         s + m <= S1Outer(launch, w.b), S1Outer(launch, w.b) \in Nat,
         NEW k, DealtFrom(h, k, w, start, s, m), NEW v, NEW to, to = s + m, Reaches(w, to, v)
  PROVE  PairsSound(rs, k, v, start + m)
<1>1. CORES \in Nat /\ \A c : c \in Core <=> c \in Nat /\ c < CORES
  BY BlocksAssumption DEF Core
<1>2. /\ \A c \in Core : c < start => k[c] = h[c]
      /\ \A c \in Core : c >= start /\ c < start + m => DealtAt(k[c], w, s + (c - start))
  BY DEF DealtFrom
<1>3. /\ \A z : InLaunch(z) /\ ~SameColumn(w, z) => (WalkedBy(v, z) <=> WalkedBy(w, z))
      /\ \A z : InLaunch(z) /\ SameColumn(w, z) /\ z.s1o < s + m => WalkedBy(v, z)
      /\ \A z : InLaunch(z) /\ SameColumn(w, z) /\ WalkedBy(v, z) /\ Needed(z) => z.s1o < s + m
  BY DEF Reaches
<1>4. \A z : InLaunch(z) /\ SameColumn(w, z) => (WalkedBy(w, z) <=> z.s1o < s)
  <2>1. SameColumn(w, w)
    BY DEF SameColumn
  <2>2. QED
    BY <2>1, PassedHere
<1>5. PICK New : New = {x \in Nat \X Core : x[1] = Len(rs) /\ x[2] >= start /\ x[2] < start + m}
  OBVIOUS
<1>6. ASSUME NEW x \in New
      PROVE  \E c \in Core : /\ x = <<Len(rs), c>> /\ c >= start /\ c < start + m
                             /\ HeldBlock(rs, k, x) = k[c] /\ DealtAt(k[c], w, s + (c - start))
  <2>1. PICK t \in Nat, c \in Core : x = <<t, c>>
    BY <1>5
  <2>2. t = Len(rs) /\ c >= start /\ c < start + m
    BY <1>5, <2>1
  <2>3. HeldBlock(rs, k, x) = k[c]
    BY <2>1, <2>2 DEF HeldBlock
  <2>4. QED
    BY <1>2, <2>1, <2>2, <2>3
<1>7. HeldPlaces(rs, start + m) = HeldPlaces(rs, start) \cup New
  <2>1. ASSUME NEW x \in Nat \X Core
        PROVE  x \in HeldPlaces(rs, start + m) <=> x \in HeldPlaces(rs, start) \/ x \in New
    <3>1. PICK t \in Nat, c \in Core : t = x[1] /\ c = x[2] /\ c \in Nat
      BY <1>1
    <3>2. x \in New <=> t = Len(rs) /\ c >= start /\ c < start + m
      BY <1>5, <3>1
    <3>3. QED
      BY <3>1, <3>2 DEF HeldPlaces
  <2>2. QED
    BY <1>5, <2>1 DEF HeldPlaces
<1>8. \A x \in HeldPlaces(rs, start) : HeldBlock(rs, k, x) = HeldBlock(rs, h, x)
  <2>1. ASSUME NEW x \in HeldPlaces(rs, start) PROVE HeldBlock(rs, k, x) = HeldBlock(rs, h, x)
    <3>1. PICK t \in Nat, c \in Core : t = x[1] /\ c = x[2] /\ (t < Len(rs) \/ (t = Len(rs) /\ c < start))
      BY <2>1 DEF HeldPlaces
    <3>2. QED
      BY <1>2, <3>1 DEF HeldBlock
  <2>2. QED
    BY <2>1
<1>9. ASSUME NEW x \in New
      PROVE  LET block == HeldBlock(rs, k, x) IN Whole(block) /\ WalkedBy(v, block) /\ ~WalkedBy(w, block)
  <2>1. PICK c \in Core : /\ c >= start /\ c < start + m
                          /\ HeldBlock(rs, k, x) = k[c] /\ DealtAt(k[c], w, s + (c - start))
    BY <1>6
  <2>2. PICK j \in Nat : j = s + (c - start) /\ j < s + m /\ j >= s
    <3>1. c \in Nat
      BY <1>1
    <3>2. QED
      BY <2>1, <3>1, SMTT(30)
  <2>0. PICK block : block = k[c]
    OBVIOUS
  <2>3. /\ SameColumn(w, block) /\ block.s1o = j
        /\ block.s1Extend = S1Extend(w, j) /\ block.s2Extend = S2Extend(w, j)
    BY <2>1, <2>2, <2>0 DEF DealtAt, SameColumn
  <2>4. InLaunch(block)
    <3>1. InLaunch(w)
      BY <2>2
    <3>2. j < S1Outer(launch, w.b)
      BY <2>2
    <3>3. QED
      BY <2>3, <3>1, <3>2, <2>2 DEF InLaunch, SameColumn
  <2>5. Whole(block)
    BY <2>3, <2>4, ColumnShared DEF Whole
  <2>6. WalkedBy(v, block) /\ ~WalkedBy(w, block)
    BY <1>4, <1>3, <2>2, <2>3, <2>4
  <2>7. QED
    BY <2>1, <2>5, <2>6, <2>0
<1>10. ASSUME NEW x \in New, NEW y \in New, SameCell(HeldBlock(rs, k, x), HeldBlock(rs, k, y))
      PROVE  x = y
  <2>1. PICK c \in Core : x = <<Len(rs), c>> /\ HeldBlock(rs, k, x) = k[c] /\ DealtAt(k[c], w, s + (c - start))
    BY <1>6
  <2>2. PICK d \in Core : y = <<Len(rs), d>> /\ HeldBlock(rs, k, y) = k[d] /\ DealtAt(k[d], w, s + (d - start))
    BY <1>6
  <2>3. s + (c - start) = s + (d - start)
    BY <1>10, <2>1, <2>2 DEF SameCell, DealtAt
  <2>4. c = d
    <3>1. c \in Nat /\ d \in Nat
      BY <1>1
    <3>2. QED
      BY <2>3, <3>1, SMTT(30)
  <2>5. QED
    BY <2>1, <2>2, <2>4
<1>11. ASSUME NEW z, InLaunch(z), WalkedBy(w, z) PROVE WalkedBy(v, z)
  <2>1. CASE SameColumn(w, z)
    <3>1. z.s1o \in Nat /\ z.s1o < s
      BY <1>4, <1>11, <2>1 DEF InLaunch
    <3>2. z.s1o < s + m
      BY <3>1
    <3>3. QED
      BY <1>3, <1>11, <2>1, <3>2
  <2>2. CASE ~SameColumn(w, z)
    BY <1>3, <1>11, <2>2
  <2>3. QED
    BY <2>1, <2>2
<1>12. ASSUME NEW z \in CellRec, InLaunch(z), WalkedBy(v, z), Needed(z), ~WalkedBy(w, z)
      PROVE  \E x \in New : SameCell(HeldBlock(rs, k, x), z)
  <2>1. SameColumn(w, z)
    BY <1>3, <1>12
  <2>2. z.s1o \in Nat /\ z.s1o < s + m /\ z.s1o >= s
    <3>1. z.s1o \in Nat
      BY <1>12 DEF InLaunch
    <3>2. z.s1o < s + m
      BY <1>3, <1>12, <2>1
    <3>3. ~(z.s1o < s)
      BY <1>4, <1>12, <2>1
    <3>4. QED
      BY <3>1, <3>2, <3>3
  <2>3. PICK j \in Nat : j = z.s1o /\ j < s + m /\ j >= s
    BY <2>2
  <2>4. PICK c \in Nat : c = start + (j - s) /\ c >= start /\ c < start + m /\ s + (c - start) = j
    <3>1. j \in s .. s + m - 1
      BY <2>3, SMTT(30)
    <3>2. \E c \in Nat : ShiftsTo(s, start, m, j, c)
      BY <3>1, Shifted, Zenon
    <3>3. QED
      BY <3>2 DEF ShiftsTo
  <2>5. c \in Core
    <3>1. c < CORES
      BY <1>1, <2>4
    <3>2. QED
      BY <1>1, <3>1
  <2>6. PICK x : x = <<Len(rs), c>>
    OBVIOUS
  <2>7. x \in New /\ HeldBlock(rs, k, x) = k[c]
    BY <1>5, <2>4, <2>5, <2>6 DEF HeldBlock
  <2>8. DealtAt(k[c], w, z.s1o)
    BY <1>2, <2>3, <2>4, <2>5
  <2>9. SameCell(k[c], z)
    BY <2>1, <2>8 DEF DealtAt, SameCell, SameColumn
  <2>10. QED
    BY <2>7, <2>9
<1>13. PICK next \in Nat : next = start + m
  OBVIOUS
<1>14. Grows(rs, h, w, start, rs, k, v, next, New)
  <2>1. HeldPlaces(rs, next) = HeldPlaces(rs, start) \cup New
    BY <1>7, <1>13
  <2>2. \A x \in New : LET block == HeldBlock(rs, k, x) IN Whole(block) /\ WalkedBy(v, block) /\ ~WalkedBy(w, block)
    BY <1>9
  <2>3. \A x, y \in New : SameCell(HeldBlock(rs, k, x), HeldBlock(rs, k, y)) => x = y
    BY <1>10
  <2>4. \A z \in CellRec : InLaunch(z) /\ WalkedBy(v, z) /\ Needed(z) =>
          WalkedBy(w, z) \/ \E x \in New : SameCell(HeldBlock(rs, k, x), z)
    BY <1>12
  <2>5. QED
    BY <1>8, <1>11, <2>1, <2>2, <2>3, <2>4, Zenon DEF Grows
<1>15. PairsSound(rs, k, v, next)
  BY <1>14, PairsGrow
<1>16. QED
  BY <1>13, <1>15
-----------------------------------------------------------------------------
(* The steps of the walk keep the pairs.                                     *)
LEMMA PairsNext ==
  ASSUME launch' = launch, NEW rs, NEW h, NEW w, NEW start,
         rounds' = rs, hand' = h, walk' = w, w.startCoreId = start, PairsSound(rs, h, w, start)
  PROVE  PairsSound(rounds, hand, walk, walk.startCoreId)'
<1>1. \A z : /\ InLaunch(z)' <=> InLaunch(z)
             /\ Needed(z)' <=> Needed(z)
  BY DEF InLaunch, Needed, BeyondRows, TopBlock, BottomBlock, TopRow, EndRow
<1>2. \A z : Whole(z)' <=> Whole(z)
  BY <1>1 DEF Whole, S1Extend, S2Extend
<1>3. \A x, z : WalkedBy(x, z)' <=> WalkedBy(x, z)
  BY DEF WalkedBy
<1>4. QED
  BY <1>1, <1>2, <1>3 DEF PairsSound, WholeBlocks, Apart, NoneLost

LEMMA PairsInvInit == BlocksInit => PairsInv
<1> SUFFICES ASSUME BlocksInit PROVE PairsInv
  OBVIOUS
<1>1. /\ rounds = <<>> /\ walk.startCoreId = 0 /\ walk.baseIdx = 0
      /\ walk.b = 0 /\ walk.n2 = 0 /\ walk.g = 0 /\ walk.s1o = 0 /\ walk.s2o = 0
  BY DEF BlocksInit
<1>2. HeldPlaces(rounds, walk.startCoreId) = {}
  <2>1. \A c \in Core : c \in Nat
    BY DEF Core
  <2>2. \A x \in Nat \X Core : ~(x[1] < 0) /\ ~(x[2] < 0)
    BY <2>1
  <2>3. QED
    BY <1>1, <2>2 DEF HeldPlaces
<1>3. \A z \in CellRec : ~WalkedBy(walk, z)
  <2>1. \A z \in CellRec : z.b \in Nat /\ z.n2 \in Nat /\ z.g \in Nat /\ z.s2o \in Nat /\ z.s1o \in Nat
    BY DEF CellRec
  <2>2. QED
    BY <1>1, <2>1 DEF WalkedBy
<1>4. PairsSound(rounds, hand, walk, walk.startCoreId)
  BY <1>2, <1>3 DEF PairsSound, WholeBlocks, Apart, NoneLost
<1>5. ~Planned
  BY <1>1 DEF Planned
<1>6. QED
  BY <1>4, <1>5, BlocksInvInit DEF PairsInv

LEMMA EndPairs ==
  ASSUME PairsInv, EndOfBlocks
  PROVE  PairsInv'
<1>1. PICK first \in Core : first = walk.startCoreId /\ first \in Nat /\ first <= CORES
  <2>1. walk.startCoreId \in Core
    BY DEF PairsInv, BlocksInv, WalkSound, WalkRec
  <2>2. QED
    BY <2>1, BlocksAssumption DEF Core
<1>2. PICK r : r = NoBlocksFrom(hand, first)
  OBVIOUS
<1>3. /\ r \in [Core -> BlockRec]
      /\ \A c \in Core : /\ c < first => r[c] = hand[c]
                         /\ ~(c < first) => r[c].blockId = NO_BLOCK
  BY <1>2, NoBlocksIs DEF PairsInv, BlocksInv
<1>4. PICK rs, ss, k, v : rs = rounds /\ ss = rounds' /\ k = hand' /\ v = walk'
  OBVIOUS
<1>5. /\ ss = Append(rs, r) /\ v = [walk EXCEPT !.startCoreId = 0, !.baseIdx = -1] /\ launch' = launch
      /\ walk.b >= Batches(launch)
  BY <1>1, <1>2, <1>4 DEF EndOfBlocks, Deal, Restart
<1>6. /\ v.startCoreId = 0 /\ v.b = walk.b /\ v.n2 = walk.n2 /\ v.g = walk.g /\ v.s1o = walk.s1o /\ v.s2o = walk.s2o
  BY <1>5 DEF PairsInv, BlocksInv, WalkSound, WalkRec
<1>7. Kept(rs, r, ss, first)
  <2>1. ASSUME NEW c \in Core PROVE r[c].blockId # NO_BLOCK <=> c < first
    <3>1. hand[c].blockId >= 0 /\ hand[c].blockId \in Int
      BY DEF PairsInv, BlocksInv, EndOfBlocks, Planned, Numbered, BlockRec
    <3>2. QED
      BY <1>3, <3>1 DEF NO_BLOCK
  <2>2. rs \in Seq([Core -> BlockRec])
    BY <1>4 DEF PairsInv, BlocksInv
  <2>3. QED
    BY <1>1, <1>3, <1>5, <2>1, <2>2 DEF Kept
<1>8. \A z : WalkedBy(v, z) <=> WalkedBy(walk, z)
  BY <1>6 DEF WalkedBy, SameColumn
<1>9. PairsSound(rs, hand, walk, first)
  BY <1>1, <1>4 DEF PairsInv
<1>10. PairsSound(ss, k, v, 0)
  <2>1. \A c \in Core : c < first => r[c] = hand[c]
    BY <1>3
  <2>2. \A z : InLaunch(z) => (WalkedBy(v, z) <=> WalkedBy(walk, z))
    BY <1>8
  <2>3. PICK h, w : h = hand /\ w = walk
    OBVIOUS
  <2>4. PairsSound(rs, h, w, first)
    BY <1>9, <2>3
  <2>5. \A c \in Core : c < first => r[c] = h[c]
    BY <2>1, <2>3
  <2>6. \A z : InLaunch(z) => (WalkedBy(v, z) <=> WalkedBy(w, z))
    BY <2>2, <2>3
  <2>7. QED
    BY <1>7, <2>4, <2>5, <2>6, KeptKeeps
<1>11. PairsSound(rounds, hand, walk, walk.startCoreId)'
  BY <1>4, <1>5, <1>6, <1>10, PairsNext
<1>12. walk'.startCoreId = 0 /\ walk'.b >= Batches(launch')
  BY <1>4, <1>5, <1>6
<1>13. BlocksInv'
  BY EndKeeps DEF PairsInv
<1>14. QED
  BY <1>11, <1>12, <1>13 DEF PairsInv

LEMMA SkipPairs ==
  ASSUME PairsInv, SkipColumn
  PROVE  PairsInv'
<1>1. /\ walk \in WalkRec /\ walk.b \in Nat /\ walk.b < Batches(launch) /\ walk.baseIdx \in Int
      /\ walk.s1o \in Nat /\ walk.s2o \in Nat /\ AtColumn(walk) /\ launch \in LAUNCHES
      /\ BeyondRows(walk) \/ BelowWindow(walk)
  BY DEF PairsInv, BlocksInv, WalkSound, WalkRec, AtColumn, SkipColumn
<1>2. PICK base \in Int : base = IF BeyondRows(walk) => KeysOf(launch, walk.b) > 0
                                 THEN walk.baseIdx + S1Outer(launch, walk.b) - walk.s1o ELSE walk.baseIdx
  BY <1>1, OuterIs
<1>3. PICK w : w = [walk EXCEPT !.baseIdx = base]
  OBVIOUS
<1>4. /\ w \in WalkRec /\ w.b = walk.b /\ w.n2 = walk.n2 /\ w.g = walk.g /\ w.s1o = walk.s1o /\ w.s2o = walk.s2o
      /\ w.startCoreId = walk.startCoreId
  BY <1>1, <1>3 DEF WalkRec
<1>5. AtColumn(w)
  BY <1>1, <1>4 DEF AtColumn
<1>6. walk' = UpdateIndex(w) /\ UNCHANGED <<launch, hand, outArr, rounds>>
  BY <1>2, <1>3 DEF SkipColumn
<1>7. PICK v : v = walk' /\ v = UpdateIndex(w) /\ v.startCoreId = walk.startCoreId
  BY <1>1, <1>4, <1>5, <1>6, UpdateIs
<1>8. ASSUME NEW z, InLaunch(z)
      PROVE  WalkedBy(v, z) <=> WalkedBy(walk, z) \/ SameColumn(walk, z)
  <2>1. WalkedBy(v, z) <=> WalkedBy(w, z) \/ SameColumn(w, z)
    BY <1>1, <1>4, <1>5, <1>7, <1>8, PassedUpdate
  <2>2. (WalkedBy(w, z) <=> WalkedBy(walk, z)) /\ (SameColumn(w, z) <=> SameColumn(walk, z))
    BY <1>4 DEF WalkedBy, SameColumn
  <2>3. QED
    BY <2>1, <2>2
<1>9. ASSUME NEW z, InLaunch(z), SameColumn(walk, z), Needed(z)
      PROVE  WalkedBy(walk, z)
  <2>1. /\ TopBlock(z) = TopBlock(walk) /\ BottomBlock(z) = BottomBlock(walk) /\ (BeyondRows(z) <=> BeyondRows(walk))
    BY <1>9, ColumnShared
  <2>2. ~BeyondRows(walk) /\ BelowWindow(walk)
    BY <1>1, <1>9, <2>1 DEF Needed
  <2>3. PICK top \in Int, bottom \in Int : top = TopBlock(walk) /\ bottom = BottomBlock(walk)
    BY <1>1, <2>2, ColumnIs DEF AtColumn
  <2>4. z.s1o \in Nat /\ top <= z.s1o /\ z.s1o <= bottom
    BY <1>9, <2>1, <2>3 DEF Needed, InLaunch
  <2>5. bottom < top \/ walk.s1o > bottom
    BY <2>2, <2>3 DEF BelowWindow
  <2>6. z.s1o < walk.s1o
    BY <1>1, <2>3, <2>4, <2>5
  <2>7. QED
    BY <1>9, <2>6 DEF WalkedBy
<1>10. PICK rs, h, start : rs = rounds /\ h = hand /\ start = walk.startCoreId
  OBVIOUS
<1>11. PairsSound(rs, h, walk, start)
  BY <1>10 DEF PairsInv
<1>12. Grows(rs, h, walk, start, rs, h, v, start, {})
  <2>1. \A z : InLaunch(z) /\ WalkedBy(walk, z) => WalkedBy(v, z)
    BY <1>8
  <2>2. \A z \in CellRec : InLaunch(z) /\ WalkedBy(v, z) /\ Needed(z) => WalkedBy(walk, z)
    BY <1>8, <1>9
  <2>3. QED
    BY <2>1, <2>2 DEF Grows
<1>13. PairsSound(rs, h, v, start)
  <2>1. PICK u : u = walk
    OBVIOUS
  <2>2. PairsSound(rs, h, u, start) /\ Grows(rs, h, u, start, rs, h, v, start, {})
    BY <1>11, <1>12, <2>1
  <2>3. QED
    BY <2>2, PairsGrow
<1>14. PairsSound(rounds, hand, walk, walk.startCoreId)'
  BY <1>6, <1>7, <1>10, <1>13, PairsNext
<1>15. BlocksInv'
  BY SkipKeeps DEF PairsInv
<1>16. ~Planned'
  <2>1. walk'.baseIdx >= 0
    <3>1. walk'.baseIdx = base
      BY <1>1, <1>3, <1>4, <1>5, <1>6, UpdateIs DEF WalkRec
    <3>2. walk.baseIdx >= 0 /\ walk.s1o <= S1Outer(launch, walk.b) /\ S1Outer(launch, walk.b) \in Nat
      BY <1>1, OuterIs DEF PairsInv, BlocksInv, WalkSound, SkipColumn, AtColumn
    <3>3. QED
      BY <1>1, <1>2, <3>1, <3>2
  <2>2. QED
    BY <2>1 DEF Planned
<1>17. QED
  BY <1>14, <1>15, <1>16 DEF PairsInv

(* The walk goes on in the column. *)
LEMMA ReachesOn ==
  ASSUME NEW w, NEW v, SameColumn(w, v), NEW to, v.s1o = to
  PROVE  Reaches(w, to, v)
<1>1. ASSUME NEW z, InLaunch(z)
      PROVE  /\ ~SameColumn(w, z) => (WalkedBy(v, z) <=> WalkedBy(w, z))
             /\ SameColumn(w, z) => (WalkedBy(v, z) <=> z.s1o < to)
  BY <1>1, PassedHere
<1>2. QED
  BY <1>1 DEF Reaches

(* The walk is done with the column. *)
LEMMA ReachesEnd ==
  ASSUME launch \in LAUNCHES, NEW w, NEW u \in WalkRec, u.b < Batches(launch), AtColumn(u), SameColumn(w, u),
         NEW v, v = UpdateIndex(u), NEW to \in Nat, BottomBlock(w) \in Int, to = BottomBlock(w) + 1
  PROVE  Reaches(w, to, v)
<1>1. ASSUME NEW z, InLaunch(z)
      PROVE  /\ ~SameColumn(w, z) => (WalkedBy(v, z) <=> WalkedBy(w, z))
             /\ SameColumn(w, z) => WalkedBy(v, z)
             /\ SameColumn(w, z) /\ Needed(z) => z.s1o < to
  <2>1. WalkedBy(v, z) <=> WalkedBy(u, z) \/ SameColumn(u, z)
    BY <1>1, PassedUpdate
  <2>2. SameColumn(u, z) <=> SameColumn(w, z)
    BY DEF SameColumn
  <2>3. ~SameColumn(w, z) => (WalkedBy(u, z) <=> WalkedBy(w, z))
    BY <1>1, PassedHere
  <2>4. ASSUME SameColumn(w, z), Needed(z) PROVE z.s1o < to
    <3>1. z.s1o <= BottomBlock(w)
      BY <2>4, ColumnShared DEF Needed
    <3>2. z.s1o \in Nat
      BY <1>1 DEF InLaunch
    <3>3. QED
      BY <3>1, <3>2
  <2>5. QED
    BY <2>1, <2>2, <2>3, <2>4
<1>2. QED
  BY <1>1 DEF Reaches

(* The walk is at a block of the launch when it deals. *)
LEMMA InLaunchAt ==
  ASSUME launch \in LAUNCHES, NEW w \in WalkRec, w.b < Batches(launch), AtColumn(w), ~BeyondRows(w),
         w.s1o < S1Outer(launch, w.b)
  PROVE  InLaunch(w)
<1>1. /\ w.b \in Nat /\ w.n2 \in Nat /\ w.g \in Nat /\ w.s1o \in Nat /\ w.s2o \in Nat
  BY DEF WalkRec
<1>2. w.s2o < S2Outer(launch, w.b)
  <2>1. w.s2o * S2_INNER < KeysOf(launch, w.b) /\ w.s2o * S2_INNER \in Nat
    BY <1>1, ColumnIs DEF AtColumn
  <2>2. PICK n \in Nat : n = S2Outer(launch, w.b) /\ KeysOf(launch, w.b) <= n * S2_INNER /\ KeysOf(launch, w.b) \in Nat
    BY <1>1, OuterIs, SequencesIs
  <2>3. S2_INNER \in Nat \ {0} /\ n * S2_INNER \in Nat
    BY <2>2, BlocksAssumption
  <2>4. w.s2o * S2_INNER < n * S2_INNER
    BY <2>1, <2>2, <2>3
  <2>5. QED
    BY <1>1, <2>2, <2>3, <2>4, TimesLess
<1>3. QED
  BY <1>1, <1>2 DEF InLaunch, AtColumn

LEMMA DealPairs ==
  ASSUME PairsInv, DealBlocks
  PROVE  PairsInv'
<1>1. PICK w : w = AtTop(walk)
  OBVIOUS
<1>2. /\ BlocksInv /\ launch \in LAUNCHES /\ WalkSound(walk) /\ walk.baseIdx # -1 /\ walk.b < Batches(launch)
      /\ ~BeyondRows(walk) /\ ~BelowWindow(walk) /\ launch' = launch /\ walk.b \in Nat /\ walk.s1o \in Nat /\ walk.s2o \in Nat
  BY DEF PairsInv, BlocksInv, DealBlocks, WalkSound, WalkRec
<1>3. /\ w \in WalkRec /\ w.b = walk.b /\ w.n2 = walk.n2 /\ w.g = walk.g /\ w.s2o = walk.s2o
      /\ w.startCoreId = walk.startCoreId
      /\ w.baseIdx >= 0 /\ w.s1o >= TopBlock(w) /\ w.s1o <= BottomBlock(w) /\ BottomBlock(w) \in Int
      /\ BottomBlock(w) < S1Outer(launch, w.b) /\ ~BeyondRows(w) /\ AtColumn(w)
  BY <1>1, <1>2, AtTopIs
<1>4. PICK start \in Core, s \in Nat, outer \in Nat, validNum \in Nat, free \in Nat, dealt \in [Core -> BlockRec] :
      /\ Dealing(w, start, s, outer, validNum, free, dealt)
      /\ DealtNext(w, validNum, free, dealt)
  BY <1>1, <1>2, DealtOut
<1>5. /\ start = w.startCoreId /\ start \in Nat /\ start < CORES /\ s = w.s1o /\ outer = S1Outer(launch, w.b)
      /\ validNum = (BottomBlock(w) - w.s1o) + 1 /\ validNum > 0 /\ s + validNum <= outer
      /\ free = CORES - w.startCoreId /\ free > 0 /\ CORES \in Nat
      /\ Numbered(dealt)
      /\ \A c \in Core : c < start => dealt[c] = hand[c]
      /\ \A c \in Core : c >= start /\ c < start + validNum => DealtAt(dealt[c], w, s + (c - start))
  BY <1>4, BlocksAssumption DEF Dealing
<1>6. PICK rs, h, v, k : rs = rounds /\ h = hand /\ v = walk' /\ k = hand'
  OBVIOUS
<1>7. rs \in Seq([Core -> BlockRec]) /\ Len(rs) \in Nat
  BY <1>2, <1>6 DEF BlocksInv
<1>8. PairsSound(rs, h, w, start)
  <2>1. PICK u : u = walk
    OBVIOUS
  <2>2. PairsSound(rs, h, u, start)
    BY <1>3, <1>5, <1>6, <2>1 DEF PairsInv
  <2>3. SameColumn(u, w) /\ SameColumn(u, u)
    BY <1>3, <2>1 DEF SameColumn
  <2>4. PICK top \in Int, at \in Nat : top = TopBlock(walk) /\ at = walk.s1o
    BY <1>2, ColumnIs DEF WalkSound, AtColumn
  <2>5. s = at \/ (s = top /\ at < top)
    <3>1. CASE at >= top
      BY <1>1, <1>5, <2>4, <3>1 DEF AtTop
    <3>2. CASE ~(at >= top)
      <4>1. w = [walk EXCEPT !.s1o = top, !.baseIdx = walk.baseIdx + top - at]
        BY <1>1, <2>4, <3>2 DEF AtTop
      <4>2. w.s1o = top
        BY <1>2, <4>1 DEF WalkSound, WalkRec
      <4>3. QED
        BY <1>5, <2>4, <3>2, <4>2
    <3>3. QED
      BY <3>1, <3>2
  <2>6. ASSUME NEW z, InLaunch(z), WalkedBy(u, z) PROVE WalkedBy(w, z)
    <3>1. CASE SameColumn(u, z)
      <4>1. z.s1o < at /\ z.s1o \in Nat
        BY <2>1, <2>3, <2>4, <2>6, <3>1, PassedHere DEF InLaunch
      <4>2. z.s1o < s
        BY <2>4, <2>5, <4>1
      <4>3. QED
        BY <1>5, <2>3, <2>6, <3>1, <4>2, PassedHere
    <3>2. CASE ~SameColumn(u, z)
      BY <2>3, <2>6, <3>2, PassedHere
    <3>3. QED
      BY <3>1, <3>2
  <2>7. ASSUME NEW z, InLaunch(z), WalkedBy(w, z), Needed(z) PROVE WalkedBy(u, z)
    <3>1. CASE SameColumn(u, z)
      <4>1. z.s1o < s /\ z.s1o \in Nat
        BY <1>5, <2>3, <2>7, <3>1, PassedHere DEF InLaunch
      <4>2. top <= z.s1o
        BY <2>1, <2>4, <2>7, <3>1, ColumnShared DEF Needed
      <4>3. z.s1o < u.s1o
        BY <2>1, <2>4, <2>5, <4>1, <4>2
      <4>4. QED
        BY <2>3, <2>7, <3>1, <4>3, PassedHere
    <3>2. CASE ~SameColumn(u, z)
      BY <2>3, <2>7, <3>2, PassedHere
    <3>3. QED
      BY <3>1, <3>2
  <2>8. Grows(rs, h, u, start, rs, h, w, start, {})
    BY <2>6, <2>7 DEF Grows
  <2>9. QED
    BY <2>2, <2>8, PairsGrow
<1>9. InLaunch(w)
  BY <1>2, <1>3, <1>5, InLaunchAt
<1>10. ASSUME NEW m \in Nat, m <= validNum, start + m <= CORES, NEW to, to = s + m, Reaches(w, to, v)
       PROVE  PairsSound(rs, dealt, v, start + m)
  <2>1. DealtFrom(h, dealt, w, start, s, m)
    <3>1. \A c \in Core : c \in Nat
      BY DEF Core
    <3>2. \A c \in Core : c < start + m => c < start + validNum
      BY <1>5, <1>10, <3>1
    <3>3. QED
      BY <1>5, <1>6, <3>2 DEF DealtFrom
  <2>2. s + m <= outer /\ S1Outer(launch, w.b) \in Nat
    BY <1>5, <1>10
  <2>3. QED
    BY <1>5, <1>7, <1>8, <1>9, <1>10, <2>1, <2>2, DealGrows
<1>11. BlocksInv'
  BY <1>2, DealKeeps
<1>12. CASE /\ free <= validNum /\ Deal(dealt)
            /\ LET u == Restart([w EXCEPT !.baseIdx = w.baseIdx + free], FALSE)
               IN walk' = IF u.s1o + free < S1Outer(launch, u.b)
                          THEN [u EXCEPT !.s1o = u.s1o + free] ELSE UpdateIndex(u)
  <2>1. PICK u : u = Restart([w EXCEPT !.baseIdx = w.baseIdx + free], FALSE)
    OBVIOUS
  <2>2. /\ u \in WalkRec /\ u.startCoreId = 0 /\ u.baseIdx >= 0 /\ u.b = w.b /\ u.s1o = w.s1o
        /\ u.n2 = w.n2 /\ u.g = w.g /\ u.s2o = w.s2o
    <3>1. PICK base \in Int : base = w.baseIdx + free /\ base >= 0
      BY <1>3, <1>5 DEF WalkRec
    <3>2. PICK x : x = [w EXCEPT !.baseIdx = base] /\ u = [x EXCEPT !.startCoreId = 0, !.baseIdx = x.baseIdx]
      BY <2>1, <3>1 DEF Restart
    <3>3. x \in WalkRec /\ x.baseIdx = base /\ x.b = w.b /\ x.s1o = w.s1o /\ x.n2 = w.n2 /\ x.g = w.g /\ x.s2o = w.s2o
      BY <1>3, <3>1, <3>2 DEF WalkRec
    <3>4. 0 \in Core
      BY BlocksAssumption DEF Core
    <3>5. QED
      BY <3>1, <3>2, <3>3, <3>4 DEF WalkRec
  <2>3. v = IF s + free < outer THEN [u EXCEPT !.s1o = s + free] ELSE UpdateIndex(u)
    BY <1>5, <1>6, <1>12, <2>1, <2>2
  <2>4. AtColumn(u) /\ SameColumn(w, u)
    BY <1>3, <2>2 DEF AtColumn, SameColumn
  <2>5. PICK to \in Nat : to = s + free
    OBVIOUS
  <2>6. Reaches(w, to, v) /\ v.startCoreId = 0 /\ v.baseIdx >= 0
    <3>1. CASE to < outer
      <4>1. v = [u EXCEPT !.s1o = to]
        BY <2>3, <2>5, <3>1
      <4>2. /\ v.s1o = to /\ v.b = u.b /\ v.n2 = u.n2 /\ v.g = u.g /\ v.s2o = u.s2o
            /\ v.startCoreId = 0 /\ v.baseIdx >= 0
        BY <2>2, <4>1 DEF WalkRec
      <4>3. SameColumn(w, v)
        BY <2>4, <4>2 DEF SameColumn
      <4>4. QED
        BY <4>2, <4>3, ReachesOn
    <3>2. CASE ~(to < outer)
      <4>1. v = UpdateIndex(u)
        BY <2>3, <2>5, <3>2
      <4>2. to = BottomBlock(w) + 1
        BY <1>3, <1>5, <1>12, <2>5, <3>2
      <4>3. Reaches(w, to, v)
        BY <1>2, <1>3, <2>2, <2>4, <4>1, <4>2, ReachesEnd
      <4>4. v.startCoreId = 0 /\ v.baseIdx >= 0
        BY <1>2, <1>3, <2>2, <2>4, <4>1, UpdateIs
      <4>5. QED
        BY <4>3, <4>4
    <3>3. QED
      BY <3>1, <3>2
  <2>7. PairsSound(rs, dealt, v, CORES)
    <3>1. start + free = CORES /\ free <= validNum /\ start + free <= CORES
      BY <1>5, <1>12
    <3>2. PairsSound(rs, dealt, v, start + free)
      BY <1>10, <2>5, <2>6, <3>1
    <3>3. QED
      BY <3>1, <3>2, Zenon
  <2>8. PICK ss : ss = rounds' /\ ss = Append(rs, dealt)
    BY <1>6, <1>12 DEF Deal
  <2>9. Kept(rs, dealt, ss, CORES)
    <3>1. \A c \in Core : dealt[c].blockId # NO_BLOCK /\ c < CORES
      BY <1>5, BlocksAssumption DEF Numbered, NO_BLOCK, Core
    <3>2. QED
      BY <1>5, <1>7, <2>8, <3>1 DEF Kept
  <2>10. PairsSound(ss, k, v, 0)
    BY <2>7, <2>9, KeptKeeps
  <2>11. PairsSound(rounds, hand, walk, walk.startCoreId)'
    BY <1>2, <1>6, <2>6, <2>8, <2>10, PairsNext
  <2>12. ~Planned'
    BY <1>6, <2>6 DEF Planned
  <2>13. QED
    BY <1>11, <2>11, <2>12 DEF PairsInv
<1>13. CASE /\ free > validNum /\ hand' = dealt
            /\ walk' = UpdateIndex([w EXCEPT !.baseIdx = w.baseIdx + (S1Outer(launch, w.b) - w.s1o),
                                             !.startCoreId = w.startCoreId + validNum])
            /\ UNCHANGED rounds
  <2>1. PICK u : u = [w EXCEPT !.baseIdx = w.baseIdx + (S1Outer(launch, w.b) - w.s1o), !.startCoreId = w.startCoreId + validNum]
    OBVIOUS
  <2>2. /\ u \in WalkRec /\ u.startCoreId = start + validNum /\ u.baseIdx >= 0 /\ u.b = w.b
        /\ u.n2 = w.n2 /\ u.g = w.g /\ u.s2o = w.s2o /\ u.s1o = w.s1o
    <3>1. PICK base \in Int, x \in Core : /\ base = w.baseIdx + (S1Outer(launch, w.b) - w.s1o) /\ base >= 0
                                          /\ x = w.startCoreId + validNum
      <4>1. w.baseIdx \in Int /\ w.baseIdx >= 0
        BY <1>3 DEF WalkRec
      <4>2. w.baseIdx + (outer - s) \in Int /\ w.baseIdx + (outer - s) >= 0
        BY <1>5, <4>1
      <4>3. start + validNum \in Nat /\ start + validNum < CORES
        BY <1>5, <1>13, SMTT(30)
      <4>4. start + validNum \in Core
        BY <4>3, BlocksAssumption DEF Core
      <4>5. QED
        BY <1>5, <4>2, <4>4
    <3>2. u = [w EXCEPT !.baseIdx = base, !.startCoreId = x]
      BY <2>1, <3>1
    <3>3. QED
      BY <1>3, <1>5, <3>1, <3>2 DEF WalkRec
  <2>3. AtColumn(u) /\ SameColumn(w, u)
    BY <1>3, <2>2 DEF AtColumn, SameColumn
  <2>4. v = UpdateIndex(u)
    BY <1>6, <1>13, <2>1
  <2>5. v.startCoreId = start + validNum /\ v.baseIdx >= 0
    BY <1>2, <1>3, <2>2, <2>3, <2>4, UpdateIs
  <2>6. PICK to \in Nat : to = s + validNum /\ to = BottomBlock(w) + 1
    BY <1>3, <1>5
  <2>7. Reaches(w, to, v)
    BY <1>2, <1>3, <2>2, <2>3, <2>4, <2>6, ReachesEnd
  <2>8. PairsSound(rs, dealt, v, start + validNum)
    <3>1. start + validNum <= CORES /\ validNum <= validNum
      BY <1>5, <1>13
    <3>2. QED
      BY <1>10, <2>6, <2>7, <3>1
  <2>9. PICK next : next = start + validNum
    OBVIOUS
  <2>10. PairsSound(rounds, hand, walk, walk.startCoreId)'
    <3>1. rounds' = rs /\ hand' = dealt /\ walk' = v /\ v.startCoreId = next /\ PairsSound(rs, dealt, v, next)
      BY <1>6, <1>13, <2>5, <2>8, <2>9
    <3>2. QED
      BY <1>2, <3>1, PairsNext
  <2>11. ~Planned'
    BY <1>6, <2>5 DEF Planned
  <2>12. QED
    BY <1>11, <2>10, <2>11 DEF PairsInv
<1>14. QED
  BY <1>4, <1>12, <1>13 DEF DealtNext

LEMMA PairsInvStep == PairsInv /\ [CalcValidBlock]_blockVars => PairsInv'
<1> SUFFICES ASSUME PairsInv, [CalcValidBlock]_blockVars PROVE PairsInv'
  OBVIOUS
<1>1. CASE UNCHANGED blockVars
  <2>1. launch' = launch /\ walk' = walk /\ hand' = hand /\ rounds' = rounds
    BY <1>1 DEF blockVars
  <2>2. PICK rs, h, w, start : rs = rounds /\ h = hand /\ w = walk /\ start = walk.startCoreId
    OBVIOUS
  <2>3. PairsSound(rs, h, w, start)
    BY <2>2 DEF PairsInv
  <2>4. rounds' = rs /\ hand' = h /\ walk' = w /\ w.startCoreId = start
    BY <2>1, <2>2
  <2>5. PairsSound(rounds, hand, walk, walk.startCoreId)'
    BY <2>1, <2>3, <2>4, PairsNext
  <2>6. BlocksInv'
    BY BlocksInvStep DEF PairsInv
  <2>7. QED
    BY <2>1, <2>5, <2>6 DEF PairsInv, Planned
<1>2. QED
  BY <1>1, EndPairs, SkipPairs, DealPairs DEF CalcValidBlock

(* The places of a plan are those held. *)
LEMMA PlacesAre ==
  ASSUME BlocksInv
  PROVE  Places = HeldPlaces(rounds, 0) /\ \A x \in Places : BlockAt(x) = HeldBlock(rounds, hand, x)
<1> DEFINE block(x) == HeldBlock(rounds, hand, x)
           held == HeldPlaces(rounds, 0)
<1>1. Len(rounds) \in Nat
  BY DEF BlocksInv
<1>2. ASSUME NEW t \in Nat, NEW c \in Core, t < Len(rounds)
      PROVE  t \in 0 .. Len(rounds) - 1 /\ RoundAt(t) = rounds[t + 1]
  BY <1>1, <1>2 DEF RoundAt
<1>3. \A c \in Core : ~(c < 0)
  BY DEF Core
<1>4. ASSUME NEW x \in Nat \X Core
      PROVE  /\ x \in Places <=> x \in held
             /\ x \in held => BlockAt(x) = block(x)
  <2>1. PICK t \in Nat, c \in Core : t = x[1] /\ c = x[2]
    OBVIOUS
  <2>2. x \in held <=> t < Len(rounds) /\ rounds[t + 1][c].blockId # NO_BLOCK
    BY <1>3, <2>1 DEF HeldPlaces
  <2>3. x \in Places <=> t \in 0 .. Len(rounds) - 1 /\ RoundAt(t)[c].blockId # NO_BLOCK
    BY <2>1 DEF Places, HasBlock
  <2>4. CASE t < Len(rounds)
    <3>1. t \in 0 .. Len(rounds) - 1 /\ RoundAt(t) = rounds[t + 1]
      BY <1>2, <2>4
    <3>2. BlockAt(x) = block(x)
      BY <2>1, <2>4, <3>1 DEF BlockAt, HeldBlock
    <3>3. QED
      BY <2>2, <2>3, <2>4, <3>1, <3>2
  <2>5. CASE ~(t < Len(rounds))
    <3>1. t \notin 0 .. Len(rounds) - 1
      BY <1>1, <2>5
    <3>2. QED
      BY <2>2, <2>3, <2>5, <3>1
  <2>6. QED
    BY <2>4, <2>5
<1>5. Places \subseteq Nat \X Core /\ held \subseteq Nat \X Core
  BY <1>1 DEF Places, HeldPlaces
<1>6. QED
  BY <1>4, <1>5

LEMMA PairsInvImplies == PairsInv => EveryPairOnce
<1> SUFFICES ASSUME PairsInv, Complete,
                    NEW b \in 0 .. Batches(launch) - 1, NEW n2 \in 0 .. launch.n2 - 1, NEW g \in 0 .. launch.g - 1,
                    NEW row \in 0 .. RowsOf(launch, b) - 1, NEW key \in 0 .. KeysOf(launch, b) - 1,
                    Sees(b, row, key)
             PROVE  LET mine == {x \in Places : BlockAt(x).b = b /\ BlockAt(x).n2 = n2 /\ BlockAt(x).g = g}
                        in(x, r, j) ==
                          LET block == BlockAt(x)
                          IN /\ r \div S1_INNER = block.s1o /\ r % S1_INNER < block.s1Extend
                             /\ j \div S2_INNER = block.s2o /\ j % S2_INNER < block.s2Extend
                    IN Cardinality({x \in mine : in(x, row, key)}) = 1
  BY DEF EveryPairOnce
<1> DEFINE block(x) == HeldBlock(rounds, hand, x)
           held == HeldPlaces(rounds, 0)
<1>1. /\ BlocksInv /\ launch \in LAUNCHES /\ walk.startCoreId = 0 /\ walk.b >= Batches(launch)
      /\ walk.b \in Nat /\ Batches(launch) \in Nat /\ launch.n2 \in Nat \ {0} /\ launch.g \in Nat \ {0}
  BY SequencesIs DEF PairsInv, BlocksInv, WalkSound, WalkRec, Complete
<1>2. b \in Nat /\ b < Batches(launch) /\ n2 \in Nat /\ n2 < launch.n2 /\ g \in Nat /\ g < launch.g
  BY <1>1
<1>3. row \in Nat /\ row < RowsOf(launch, b) /\ key \in Nat /\ key < KeysOf(launch, b)
  BY <1>1, <1>2, SequencesIs
<1>4. Places = held /\ \A x \in held : BlockAt(x) = block(x)
  BY <1>1, PlacesAre
<1> HIDE DEF held, block
<1>5. PICK z \in CellRec : /\ z.b = b /\ z.n2 = n2 /\ z.g = g
                           /\ z.s1o = row \div S1_INNER /\ z.s2o = key \div S2_INNER
  <2>1. row \div S1_INNER \in Nat /\ key \div S2_INNER \in Nat
    BY <1>3, ModIs, BlocksAssumption
  <2>2. PICK r \in Nat, c \in Nat : r = row \div S1_INNER /\ c = key \div S2_INNER
    BY <2>1
  <2>3. [b |-> b, n2 |-> n2, g |-> g, s1o |-> r, s2o |-> c] \in CellRec
    BY <1>2 DEF CellRec
  <2>4. QED
    BY <2>2, <2>3
<1>6. /\ z.s1o < S1Outer(launch, z.b) /\ z.s2o < S2Outer(launch, z.b) /\ Needed(z)
      /\ row % S1_INNER < S1Extend(z, z.s1o) /\ key % S2_INNER < S2Extend(z, z.s1o)
  BY <1>1, <1>2, <1>3, <1>5, SeenCell
<1>7. InLaunch(z) /\ WalkedBy(walk, z)
  <2>1. z.b \in Nat /\ z.n2 \in Nat /\ z.g \in Nat /\ z.s1o \in Nat /\ z.s2o \in Nat
    BY DEF CellRec
  <2>2. z.b < walk.b
    BY <1>1, <1>2, <1>5
  <2>3. QED
    BY <1>2, <1>5, <1>6, <2>1, <2>2 DEF InLaunch, WalkedBy
<1>8. PairsSound(rounds, hand, walk, 0)
  BY <1>1 DEF PairsInv
<1>9. PICK x0 \in held : SameCell(block(x0), z)
  BY <1>6, <1>7, <1>8 DEF PairsSound, NoneLost, held, block
<1>10. ASSUME NEW x \in held, SameCell(block(x), z) PROVE x = x0
  <2>1. SameCell(block(x), block(x0))
    BY <1>9, <1>10 DEF SameCell, SameColumn
  <2>2. QED
    BY <1>8, <2>1 DEF PairsSound, Apart, held, block
<1> DEFINE inside == {x \in held : /\ block(x).b = b /\ block(x).n2 = n2 /\ block(x).g = g
                                   /\ row \div S1_INNER = block(x).s1o /\ row % S1_INNER < block(x).s1Extend
                                   /\ key \div S2_INNER = block(x).s2o /\ key % S2_INNER < block(x).s2Extend}
<1>11. inside = {x0}
  <2>1. ASSUME NEW x \in inside PROVE x = x0
    <3>1. SameCell(block(x), z)
      BY <1>5, <2>1 DEF SameCell, SameColumn
    <3>2. QED
      BY <1>10, <2>1, <3>1
  <2>2. x0 \in inside
    <3>1. Whole(block(x0))
      BY <1>8 DEF PairsSound, WholeBlocks, held, block
    <3>2. /\ block(x0).b = b /\ block(x0).n2 = n2 /\ block(x0).g = g
          /\ block(x0).s1o = row \div S1_INNER /\ block(x0).s2o = key \div S2_INNER /\ block(x0).s1o = z.s1o
      BY <1>5, <1>9 DEF SameCell, SameColumn
    <3>3. SameColumn(block(x0), z)
      BY <1>9 DEF SameCell
    <3>4. S1Extend(z, z.s1o) = S1Extend(block(x0), z.s1o) /\ S2Extend(z, z.s1o) = S2Extend(block(x0), z.s1o)
      BY <3>3, ColumnShared
    <3>5. block(x0).s1Extend = S1Extend(z, z.s1o) /\ block(x0).s2Extend = S2Extend(z, z.s1o)
      BY <3>1, <3>2, <3>4 DEF Whole
    <3>6. QED
      BY <1>6, <3>2, <3>5
  <2>3. QED
    BY <2>1, <2>2
<1>12. Cardinality(inside) = 1
  BY <1>11, FS_Singleton
<1> DEFINE mine == {x \in Places : BlockAt(x).b = b /\ BlockAt(x).n2 = n2 /\ BlockAt(x).g = g}
<1>13. {x \in mine : /\ row \div S1_INNER = BlockAt(x).s1o /\ row % S1_INNER < BlockAt(x).s1Extend
                     /\ key \div S2_INNER = BlockAt(x).s2o /\ key % S2_INNER < BlockAt(x).s2Extend} = inside
  BY <1>4
<1> HIDE DEF inside
<1>14. QED
  BY <1>12, <1>13

(* Every pair of a row and a key that see each other is in exactly one of    *)
(* the blocks dealt out, for any lengths, window, sizes of blocks and number *)
(* of cores (CalcValidBlock and UpdateIndex, which skip, cut and spread      *)
(* columns over rounds without losing a block or dealing it out twice).      *)
THEOREM PairsInOneBlock == BlocksSpec => []EveryPairOnce
<1>1. BlocksInit => PairsInv
  BY PairsInvInit
<1>2. PairsInv /\ [CalcValidBlock]_blockVars => PairsInv'
  BY PairsInvStep
<1>3. PairsInv => EveryPairOnce
  BY PairsInvImplies
<1>4. QED
  BY <1>1, <1>2, <1>3, PTL DEF BlocksSpec

-----------------------------------------------------------------------------
(* Deterministic mode: the numbers of the blocks, and their groups.          *)

(* Induction, for the elements of a set. *)
LEMMA Induction ==
  ASSUME NEW A \in SUBSET Nat, 0 \in A, \A n \in A : n + 1 \in A
  PROVE  A = Nat
<1>1. ASSUME Nat \ A # {}
      PROVE  FALSE
  <2>1. PICK n \in Nat \ A : \A m \in Nat \ A : n <= m
    BY <1>1, Least
  <2>2. n # 0 /\ n - 1 \in Nat /\ n - 1 \in A
    BY <2>1
  <2>3. QED
    BY <2>1, <2>2
<1>2. QED
  BY <1>1

(* Sums: the numbers below the last of them, cut into stretches.           *)
Sums(t, n) ==
  /\ n \in Nat /\ t[0] = 0 /\ \A b \in 0 .. n : t[b] \in Nat
  /\ \A b \in 0 .. n - 1 : t[b] <= t[b + 1]
Within(t, b, x) == x \in Nat /\ t[b] <= x /\ x < t[b + 1]

LEMMA SumsGrow ==
  ASSUME NEW t, NEW n, Sums(t, n), NEW a \in 0 .. n, NEW b \in a .. n
  PROVE  t[a] <= t[b]
<1> DEFINE A == {i \in Nat : a + i <= n => t[a] <= t[a + i]}
<1>1. 0 \in A
  <2>1. a + 0 = a /\ t[a] \in Nat
    BY DEF Sums
  <2>2. QED
    BY <2>1
<1>2. ASSUME NEW i \in A
      PROVE  i + 1 \in A
  <2>1. CASE a + (i + 1) <= n
    <3>1. PICK c \in Nat : c = a + i
      OBVIOUS
    <3>2. c \in 0 .. n - 1 /\ c + 1 = a + (i + 1) /\ n \in Nat
      BY <2>1, <3>1 DEF Sums
    <3>3. t[c] <= t[c + 1] /\ t[c] \in Nat /\ t[c + 1] \in Nat /\ t[a] \in Nat
      <4>1. c \in 0 .. n /\ c + 1 \in 0 .. n
        BY <3>2
      <4>2. QED
        BY <3>2, <4>1 DEF Sums
    <3>4. t[a] <= t[c]
      BY <1>2, <3>1, <3>2
    <3>5. QED
      BY <3>2, <3>3, <3>4
  <2>2. QED
    BY <2>1
<1>3. A = Nat
  <2>1. A \in SUBSET Nat
    OBVIOUS
  <2> HIDE DEF A
  <2>2. QED
    BY <1>1, <1>2, <2>1, Induction
<1>4. PICK i \in Nat : b = a + i
  <2>1. PICK i \in Int : i = b - a
    OBVIOUS
  <2>2. i \in Nat /\ b = a + i
    BY <2>1
  <2>3. QED
    BY <2>2
<1>5. a + i <= n
  BY <1>4 DEF Sums
<1>6. QED
  BY <1>3, <1>4, <1>5

(* A number is in one stretch. *)
LEMMA OneStretch ==
  ASSUME NEW t, NEW n, Sums(t, n), NEW a \in 0 .. n - 1, NEW b \in 0 .. n - 1, NEW x,
         Within(t, a, x), Within(t, b, x)
  PROVE  a = b
<1>1. n \in Nat /\ a + 1 \in 0 .. n /\ b + 1 \in 0 .. n /\ a \in 0 .. n /\ b \in 0 .. n
  BY DEF Sums
<1>2. t[a] \in Nat /\ t[b] \in Nat /\ t[a + 1] \in Nat /\ t[b + 1] \in Nat
  BY <1>1 DEF Sums
<1>3. ASSUME a < b PROVE FALSE
  <2>1. b \in a + 1 .. n
    BY <1>1, <1>3
  <2>2. t[a + 1] <= t[b]
    BY <1>1, <2>1, SumsGrow
  <2>3. QED
    BY <1>2, <2>2 DEF Within
<1>4. ASSUME b < a PROVE FALSE
  <2>1. a \in b + 1 .. n
    BY <1>1, <1>4
  <2>2. t[b + 1] <= t[a]
    BY <1>1, <2>1, SumsGrow
  <2>3. QED
    BY <1>2, <2>2 DEF Within
<1>5. QED
  BY <1>1, <1>3, <1>4

(* The sums of w exist. *)
LEMMA SumsExist ==
  ASSUME NEW w
  PROVE  \E t : t = [b \in Nat |-> IF b = 0 THEN 0 ELSE t[b - 1] + w[b - 1]]
<1> DEFINE Upto(h, k) == h = [n \in 0 .. k |-> IF n = 0 THEN 0 ELSE h[n - 1] + w[n - 1]]
           Reached == {k \in Nat : \E h : Upto(h, k)}
<1>1. 0 \in Reached
  <2>1. Upto([n \in 0 .. 0 |-> 0], 0)
    OBVIOUS
  <2>2. QED
    BY <2>1
<1>2. ASSUME NEW k \in Reached
      PROVE  k + 1 \in Reached
  <2>1. PICK h : Upto(h, k)
    OBVIOUS
  <2> DEFINE g == [n \in 0 .. k + 1 |-> IF n = 0 THEN 0 ELSE h[n - 1] + w[n - 1]]
  <2>2. ASSUME NEW n \in 0 .. k
        PROVE  g[n] = h[n]
    BY <2>1
  <2>3. g = [n \in 0 .. k + 1 |-> IF n = 0 THEN 0 ELSE g[n - 1] + w[n - 1]]
    <3>1. ASSUME NEW n \in 0 .. k + 1, n # 0
          PROVE  n - 1 \in 0 .. k
      BY <3>1
    <3>2. ASSUME NEW n \in 0 .. k + 1, n # 0
          PROVE  h[n - 1] = g[n - 1]
      <4>1. n - 1 \in 0 .. k
        BY <3>1, <3>2
      <4> HIDE DEF g
      <4>2. QED
        BY <2>2, <4>1
    <3>3. \A n \in 0 .. k + 1 : g[n] = IF n = 0 THEN 0 ELSE h[n - 1] + w[n - 1]
      OBVIOUS
    <3>4. g = [n \in 0 .. k + 1 |-> g[n]]
      OBVIOUS
    <3> HIDE DEF g
    <3>5. \A n \in 0 .. k + 1 : g[n] = IF n = 0 THEN 0 ELSE g[n - 1] + w[n - 1]
      BY <3>2, <3>3
    <3>6. QED
      BY <3>4, <3>5
  <2>4. k + 1 \in Nat
    OBVIOUS
  <2> HIDE DEF g
  <2>5. QED
    BY <2>3, <2>4
<1>3. Reached = Nat
  <2> HIDE DEF Reached
  <2>1. Reached \in SUBSET Nat
    BY DEF Reached
  <2>2. QED
    BY <1>1, <1>2, <2>1, Induction
<1>4. ASSUME NEW i \in Nat, NEW h, NEW g, NEW k \in Nat, Upto(h, i), Upto(g, k), i <= k
      PROVE  h[i] = g[i]
  <2> DEFINE U == {n \in Nat : n <= i => h[n] = g[n]}
  <2>1. 0 \in U
    BY <1>4
  <2>2. ASSUME NEW n \in U
        PROVE  n + 1 \in U
    BY <1>4
  <2>3. U = Nat
    <3> HIDE DEF U
    <3>1. U \in SUBSET Nat
      BY DEF U
    <3>2. QED
      BY <2>1, <2>2, <3>1, Induction
  <2>4. QED
    BY <2>3
<1> DEFINE H(n) == CHOOSE h : Upto(h, n)
           s == [n \in Nat |-> H(n)[n]]
<1>5. ASSUME NEW n \in Nat
      PROVE  Upto(H(n), n)
  BY <1>3
<1>6. ASSUME NEW n \in Nat
      PROVE  s[n] = IF n = 0 THEN 0 ELSE s[n - 1] + w[n - 1]
  <2>1. CASE n = 0
    <3>1. Upto(H(n), n)
      BY <1>5
    <3> HIDE DEF H
    <3>2. QED
      BY <2>1, <3>1
  <2>2. CASE n # 0
    <3>1. n - 1 \in Nat
      BY <2>2
    <3>5. Upto(H(n), n) /\ Upto(H(n - 1), n - 1)
      BY <1>5, <3>1
    <3> HIDE DEF H
    <3>2. H(n)[n] = H(n)[n - 1] + w[n - 1]
      BY <2>2, <3>5
    <3>3. H(n - 1)[n - 1] = H(n)[n - 1]
      <4> HIDE DEF Upto
      <4>1. QED
        BY <1>4, <3>1, <3>5
    <3>4. QED
      BY <2>2, <3>1, <3>2, <3>3
  <2>3. QED
    BY <2>1, <2>2
<1>7. s = [n \in Nat |-> IF n = 0 THEN 0 ELSE s[n - 1] + w[n - 1]]
  <2> HIDE DEF H
  <2> QED BY <1>6
<1>8. QED
  BY <1>7

(* Sums of natural numbers are Sums. *)
LEMMA SumsOf ==
  ASSUME NEW t, NEW w, NEW n \in Nat,
         t[0] = 0, \A b \in 0 .. n - 1 : w[b] \in Nat /\ t[b + 1] = t[b] + w[b]
  PROVE  Sums(t, n)
<1> DEFINE A == {b \in Nat : b <= n => t[b] \in Nat}
<1>1. 0 \in A
  OBVIOUS
<1>2. ASSUME NEW b \in A
      PROVE  b + 1 \in A
  <2>1. CASE b + 1 <= n
    <3>1. b \in 0 .. n - 1 /\ t[b] \in Nat
      BY <1>2, <2>1
    <3>2. w[b] \in Nat /\ t[b + 1] = t[b] + w[b]
      BY <3>1
    <3>3. t[b + 1] \in Nat
      BY <3>1, <3>2
    <3>4. QED
      BY <3>3
  <2>2. QED
    BY <2>1
<1>3. A = Nat
  <2>1. A \in SUBSET Nat
    OBVIOUS
  <2> HIDE DEF A
  <2>2. QED
    BY <1>1, <1>2, <2>1, Induction
<1>4. \A b \in 0 .. n : t[b] \in Nat
  BY <1>3
<1>5. ASSUME NEW b \in 0 .. n - 1
      PROVE  t[b] <= t[b + 1]
  <2>1. t[b] \in Nat /\ w[b] \in Nat /\ t[b + 1] = t[b] + w[b]
    BY <1>4
  <2>2. QED
    BY <2>1
<1>6. QED
  BY <1>4, <1>5 DEF Sums

(* What a number divides into.                                               *)
LEMMA Decode ==
  ASSUME NEW q \in Nat, NEW n \in Nat \ {0}, NEW r \in Nat, r < n, NEW a, a = q * n + r
  PROVE  a \in Nat /\ a \div n = q /\ a % n = r
<1>1. q * n \in Nat
  OBVIOUS
<1>2. a \in Nat
  BY <1>1
<1>3. PICK d \in Nat : d = a \div n
  BY <1>2, ModIs
<1>4. d * n \in Nat /\ a % n = a - d * n /\ a % n \in Nat /\ a % n < n
  BY <1>2, <1>3, ModIs
<1>5. d * n < (q + 1) * n /\ q * n < (d + 1) * n
  BY <1>1, <1>2, <1>4, NextTimes
<1>6. d < q + 1 /\ q < d + 1
  BY <1>5, TimesLess
<1>7. d = q
  BY <1>6
<1>8. QED
  BY <1>1, <1>2, <1>3, <1>4, <1>7

(* The numbers of a sequence of N heads, of S columns each, of G heads of a  *)
(* group each, of R blocks each.                                             *)
LEMMA RestIs ==
  ASSUME NEW N \in Nat, NEW S \in Nat, NEW G \in Nat, NEW R \in Nat,
         NEW n \in Nat, n < N, NEW s \in Nat, s < S, NEW g \in Nat, g < G, NEW r \in Nat, r < R,
         NEW rest, rest = ((n * S + s) * G + g) * R + r
  PROVE  \E C \in Nat \ {0}, H \in Nat \ {0}, x \in Nat, y \in Nat :
           /\ C = G * R /\ H = S * C /\ y = g * R + r /\ y < C /\ x = s * C + y /\ x < H
           /\ rest = n * H + x /\ rest \in Nat /\ rest < ((N * G) * R) * S
<1>1. PICK C \in Nat : C = G * R
  OBVIOUS
<1>2. PICK H \in Nat : H = S * C
  OBVIOUS
<1>3. PICK y \in Nat : y = g * R + r
  OBVIOUS
<1>4. y < C
  <2>1. (g + 1) * R <= G * R /\ (g + 1) * R = g * R + R /\ g * R \in Nat
    BY TimesGrows, NextTimes
  <2>2. QED
    BY <1>1, <1>3, <2>1
<1>5. PICK x \in Nat : x = s * C + y
  OBVIOUS
<1>6. x < H
  <2>1. (s + 1) * C <= S * C /\ (s + 1) * C = s * C + C /\ s * C \in Nat
    BY TimesGrows, NextTimes
  <2>2. QED
    BY <1>2, <1>4, <1>5, <2>1
<1>7. rest = n * H + x
  <2>1. rest = ((n * S + s) * G + g) * R + r
    OBVIOUS
  <2>2. ((n * S + s) * G + g) * R = (n * S + s) * (G * R) + g * R
    OBVIOUS
  <2>3. (n * S + s) * C = n * (S * C) + s * C
    OBVIOUS
  <2>4. QED
    BY <1>1, <1>2, <1>3, <1>5, <2>1, <2>2, <2>3
<1>8. n * H \in Nat /\ rest < N * H
  <2>1. (n + 1) * H <= N * H /\ (n + 1) * H = n * H + H /\ n * H \in Nat
    BY TimesGrows, NextTimes
  <2>2. N * H \in Nat
    OBVIOUS
  <2>3. QED
    BY <1>6, <1>7, <2>1, <2>2
<1>9. N * H = ((N * G) * R) * S
  <2>1. N * (S * (G * R)) = ((N * G) * R) * S
    OBVIOUS
  <2>2. QED
    BY <1>1, <1>2, <2>1
<1>10. QED
  BY <1>1, <1>2, <1>3, <1>4, <1>5, <1>6, <1>7, <1>8, <1>9
-----------------------------------------------------------------------------
(* The numbers of the blocks, in deterministic mode.                         *)
Line(z) == (z.n2 * S2Outer(launch, z.b) + z.s2o) * launch.g + z.g
Number(z) == BlocksBefore[z.b] + (Line(z) * S1Outer(launch, z.b) + z.s1o)

LEMMA BeforeIs ==
  \A b \in Nat : BlocksBefore[b] = IF b = 0 THEN 0 ELSE BlocksBefore[b - 1] + BlocksOf(b - 1)
<1> DEFINE w == [b \in Nat |-> BlocksOf(b)]
<1>1. PICK t : t = [b \in Nat |-> IF b = 0 THEN 0 ELSE t[b - 1] + w[b - 1]]
  BY SumsExist
<1>2. t = [b \in Nat |-> IF b = 0 THEN 0 ELSE t[b - 1] + BlocksOf(b - 1)]
  <2>1. ASSUME NEW b \in Nat, b # 0 PROVE w[b - 1] = BlocksOf(b - 1)
    BY <2>1
  <2> HIDE DEF w
  <2>2. QED
    BY <1>1, <2>1
<1>3. BlocksBefore = [b \in Nat |-> IF b = 0 THEN 0 ELSE BlocksBefore[b - 1] + BlocksOf(b - 1)]
  BY <1>2 DEF BlocksBefore
<1>4. QED
  BY <1>3

LEMMA BeforeSums ==
  ASSUME launch \in LAUNCHES
  PROVE  /\ Sums(BlocksBefore, Batches(launch))
         /\ \A b \in Nat : b < Batches(launch) =>
              BlocksOf(b) \in Nat /\ BlocksBefore[b] \in Nat /\ BlocksBefore[b + 1] = BlocksBefore[b] + BlocksOf(b)
<1>1. PICK n \in Nat : n = Batches(launch)
  BY SequencesIs
<1>2. ASSUME NEW b \in Nat, b < n PROVE BlocksOf(b) \in Nat
  <2>1. launch.n2 \in Nat /\ launch.g \in Nat /\ S1Outer(launch, b) \in Nat /\ S2Outer(launch, b) \in Nat
    BY <1>1, <1>2, SequencesIs, OuterIs
  <2>2. QED
    BY <2>1 DEF BlocksOf
<1> DEFINE w == [b \in 0 .. n - 1 |-> BlocksOf(b)]
<1>3. ASSUME NEW b \in 0 .. n - 1
      PROVE  /\ w[b] \in Nat /\ BlocksBefore[b + 1] = BlocksBefore[b] + w[b] /\ w[b] = BlocksOf(b)
  <2>1. w[b] = BlocksOf(b) /\ b \in Nat /\ b < n
    OBVIOUS
  <2>2. b + 1 \in Nat /\ b + 1 # 0 /\ (b + 1) - 1 = b
    BY <2>1
  <2>3. BlocksBefore[b + 1] = BlocksBefore[b] + BlocksOf(b)
    BY <2>2, BeforeIs
  <2>4. QED
    BY <1>2, <2>1, <2>3
<1>4. BlocksBefore[0] = 0
  BY BeforeIs
<1> HIDE DEF w
<1>5. Sums(BlocksBefore, n)
  BY <1>3, <1>4, SumsOf
<1>6. ASSUME NEW b \in Nat, b < n
      PROVE  BlocksOf(b) \in Nat /\ BlocksBefore[b] \in Nat /\ BlocksBefore[b + 1] = BlocksBefore[b] + BlocksOf(b)
  <2>1. b \in 0 .. n - 1 /\ b \in 0 .. n
    BY <1>6
  <2>2. QED
    BY <1>2, <1>3, <1>5, <1>6, <2>1 DEF Sums
<1>7. QED
  BY <1>1, <1>5, <1>6

(* A block of a launch, its number and the parts of it.                      *)
Parts(z, base, C, H, x, y) ==
  /\ C = launch.g * S1Outer(launch, z.b) /\ H = S2Outer(launch, z.b) * C
  /\ y = z.g * S1Outer(launch, z.b) + z.s1o /\ y < C /\ x = z.s2o * C + y /\ x < H
  /\ base = BlocksBefore[z.b] /\ Number(z) = base + (z.n2 * H + x)
  /\ Number(z) \in Nat /\ Within(BlocksBefore, z.b, Number(z))
LEMMA NumberIs ==
  ASSUME launch \in LAUNCHES, NEW z, InLaunch(z)
  PROVE  \E base \in Nat, C \in Nat \ {0}, H \in Nat \ {0}, x \in Nat, y \in Nat : Parts(z, base, C, H, x, y)
<1>1. PICK n \in Nat, s \in Nat, g \in Nat, r \in Nat : n = z.n2 /\ s = z.s2o /\ g = z.g /\ r = z.s1o
  BY DEF InLaunch
<1>2. PICK N \in Nat, S \in Nat, G \in Nat, R \in Nat :
        /\ N = launch.n2 /\ S = S2Outer(launch, z.b) /\ G = launch.g /\ R = S1Outer(launch, z.b)
  BY SequencesIs, OuterIs DEF InLaunch
<1>3. n < N /\ s < S /\ g < G /\ r < R
  BY <1>1, <1>2 DEF InLaunch
<1>4. PICK rest : rest = ((n * S + s) * G + g) * R + r
  OBVIOUS
<1>5. PICK C \in Nat \ {0}, H \in Nat \ {0}, x \in Nat, y \in Nat :
           /\ C = G * R /\ H = S * C /\ y = g * R + r /\ y < C /\ x = s * C + y /\ x < H
           /\ rest = n * H + x /\ rest \in Nat /\ rest < ((N * G) * R) * S
  BY <1>3, <1>4, RestIs
<1>6. PICK base \in Nat : base = BlocksBefore[z.b] /\ BlocksBefore[z.b + 1] = base + BlocksOf(z.b)
  BY BeforeSums DEF InLaunch
<1>7. Number(z) = base + rest
  BY <1>1, <1>2, <1>4, <1>6 DEF Number, Line
<1>8. BlocksOf(z.b) = ((N * G) * R) * S /\ BlocksOf(z.b) \in Nat
  BY <1>2, BeforeSums DEF BlocksOf, InLaunch
<1>9. Number(z) \in Nat /\ Within(BlocksBefore, z.b, Number(z))
  BY <1>5, <1>6, <1>7, <1>8 DEF Within
<1>10. Parts(z, base, C, H, x, y)
  BY <1>1, <1>2, <1>5, <1>6, <1>7, <1>9 DEF Parts
<1>11. QED
  BY <1>10

LEMMA IndexFinds ==
  ASSUME launch \in LAUNCHES, NEW z, InLaunch(z)
  PROVE  LET found == GetIndex(Number(z)) IN \A f \in DOMAIN found : found[f] = z[f]
<1>1. PICK base \in Nat, C \in Nat \ {0}, H \in Nat \ {0}, x \in Nat, y \in Nat : Parts(z, base, C, H, x, y)
  BY NumberIs
<1>2. PICK id \in Nat : id = Number(z) /\ Within(BlocksBefore, z.b, id)
  BY <1>1 DEF Parts
<1>3. PICK n \in Nat : n = Batches(launch)
  BY SequencesIs
<1>4. z.b \in 0 .. n - 1 /\ z.b \in Nat
  BY <1>3 DEF InLaunch
<1>5. \A b \in 0 .. n - 1 : (BlocksBefore[b] <= id /\ id < BlocksBefore[b] + BlocksOf(b)) <=> Within(BlocksBefore, b, id)
  <2> SUFFICES ASSUME NEW b \in 0 .. n - 1
               PROVE  BlocksBefore[b + 1] = BlocksBefore[b] + BlocksOf(b)
    BY <1>2 DEF Within
  <2>1. b \in Nat /\ b < n
    BY <1>3
  <2>2. QED
    BY <1>3, <2>1, BeforeSums
<1>6. \A b \in 0 .. n - 1 : Within(BlocksBefore, b, id) => b = z.b
  BY <1>2, <1>3, <1>4, BeforeSums, OneStretch
<1>7. z.b = CHOOSE b \in 0 .. n - 1 : BlocksBefore[b] <= id /\ id < BlocksBefore[b] + BlocksOf(b)
  BY <1>2, <1>4, <1>5, <1>6
<1>8. PICK R \in Nat, S \in Nat : R = S1Outer(launch, z.b) /\ S = S2Outer(launch, z.b)
  BY OuterIs DEF InLaunch
<1>9. GetIndex(id) =
       LET rest == id - base
       IN [b |-> z.b, n2 |-> rest \div H, s2o |-> (rest % H) \div C,
           g |-> ((rest % H) % C) \div R, s1o |-> (rest % H) % R]
  BY <1>1, <1>3, <1>7, <1>8 DEF GetIndex, Parts
<1>10. PICK rest : rest = id - base
  OBVIOUS
<1>11. PICK zn \in Nat, zs \in Nat, zg \in Nat, z1 \in Nat : zn = z.n2 /\ zs = z.s2o /\ zg = z.g /\ z1 = z.s1o
  BY DEF InLaunch
<1>12. rest = zn * H + x /\ x < H /\ x = zs * C + y /\ y < C /\ y = zg * R + z1 /\ z1 < R /\ R \in Nat \ {0}
  <2>1. zn * H \in Nat
    OBVIOUS
  <2>2. z1 < R
    BY <1>8, <1>11 DEF InLaunch
  <2>3. QED
    BY <1>1, <1>2, <1>8, <1>10, <1>11, <2>1, <2>2 DEF Parts
<1>13. rest \div H = zn /\ rest % H = x
  <2>1. zn \in Nat /\ H \in Nat \ {0} /\ x \in Nat /\ x < H /\ rest = zn * H + x
    BY <1>12
  <2>2. QED
    BY <2>1, Decode
<1>14. x \div C = zs /\ x % C = y
  <2>1. zs \in Nat /\ C \in Nat \ {0} /\ y \in Nat /\ y < C /\ x = zs * C + y
    BY <1>12
  <2>2. QED
    BY <2>1, Decode
<1>15. y \div R = zg /\ y % R = z1
  <2>1. zg \in Nat /\ R \in Nat \ {0} /\ z1 \in Nat /\ z1 < R /\ y = zg * R + z1
    BY <1>12
  <2>2. QED
    BY <2>1, Decode
<1>16. x % R = z1
  <2>1. PICK G \in Nat : G = launch.g
    BY SequencesIs
  <2>2. PICK q \in Nat : q = zs * G + zg
    OBVIOUS
  <2>3. C = G * R
    BY <1>1, <1>8, <2>1 DEF Parts
  <2>4. zs * C = (zs * G) * R /\ q * R = (zs * G) * R + zg * R
    BY <2>2, <2>3
  <2>5. zs * C \in Nat /\ zg * R \in Nat
    OBVIOUS
  <2>6. q \in Nat /\ R \in Nat \ {0} /\ z1 \in Nat /\ z1 < R /\ x = q * R + z1
    BY <1>12, <2>4, <2>5
  <2>7. QED
    BY <2>6, Decode
<1>17. GetIndex(id) = [b |-> z.b, n2 |-> zn, s2o |-> zs, g |-> zg, s1o |-> z1]
  BY <1>9, <1>10, <1>13, <1>14, <1>15, <1>16
<1>18. QED
  BY <1>2, <1>11, <1>17
-----------------------------------------------------------------------------
(* The order of the numbers.                                                 *)
Local(z) == Line(z) * S1Outer(launch, z.b) + z.s1o
KvLine(z) == z.n2 * S2Outer(launch, z.b) + z.s2o
DqLine(z) == (z.n2 * launch.g + z.g) * S1Outer(launch, z.b) + z.s1o
DqSame(y, z) == y.b = z.b /\ y.n2 = z.n2 /\ y.g = z.g /\ y.s1o = z.s1o
KvSame(y, z) == y.b = z.b /\ y.n2 = z.n2 /\ y.s2o = z.s2o

LEMMA LocalIs ==
  ASSUME launch \in LAUNCHES, NEW z, InLaunch(z)
  PROVE  \E C \in Nat \ {0}, l \in Nat, y \in Nat :
           /\ C = launch.g * S1Outer(launch, z.b) /\ l = KvLine(z) /\ y = z.g * S1Outer(launch, z.b) + z.s1o
           /\ y < C /\ Local(z) = l * C + y
<1>1. PICK n \in Nat, s \in Nat, g \in Nat, r \in Nat : n = z.n2 /\ s = z.s2o /\ g = z.g /\ r = z.s1o
  BY DEF InLaunch
<1>2. PICK S \in Nat, G \in Nat, R \in Nat : S = S2Outer(launch, z.b) /\ G = launch.g /\ R = S1Outer(launch, z.b)
  BY SequencesIs, OuterIs DEF InLaunch
<1>3. g < G /\ r < R
  BY <1>1, <1>2 DEF InLaunch
<1>4. PICK C \in Nat, l \in Nat, y \in Nat : C = G * R /\ l = n * S + s /\ y = g * R + r
  OBVIOUS
<1>5. y < C
  <2>1. (g + 1) * R <= G * R /\ (g + 1) * R = g * R + R /\ g * R \in Nat
    BY <1>3, TimesGrows, NextTimes
  <2>2. QED
    BY <1>3, <1>4, <2>1
<1>6. Local(z) = l * C + y
  <2>1. Local(z) = (l * G + g) * R + r
    BY <1>1, <1>2, <1>4 DEF Local, Line
  <2>2. (l * G + g) * R = l * (G * R) + g * R
    OBVIOUS
  <2>3. l * (G * R) \in Nat /\ g * R \in Nat
    OBVIOUS
  <2>4. QED
    BY <1>4, <2>1, <2>2, <2>3
<1>7. l = KvLine(z)
  BY <1>1, <1>2, <1>4 DEF KvLine
<1>8. QED
  BY <1>1, <1>2, <1>4, <1>5, <1>6, <1>7

LEMMA NumberOrders ==
  ASSUME launch \in LAUNCHES, NEW y, InLaunch(y), NEW z, InLaunch(z), Number(y) < Number(z)
  PROVE  y.b < z.b \/ (y.b = z.b /\ Local(y) < Local(z))
<1>1. /\ Number(y) \in Nat /\ Within(BlocksBefore, y.b, Number(y))
      /\ Number(z) \in Nat /\ Within(BlocksBefore, z.b, Number(z))
  BY NumberIs DEF Parts
<1>2. PICK n \in Nat : n = Batches(launch) /\ Sums(BlocksBefore, n)
  BY SequencesIs, BeforeSums
<1>3. y.b \in 0 .. n /\ z.b \in 0 .. n /\ y.b + 1 \in 0 .. n /\ z.b + 1 \in 0 .. n
  BY <1>2 DEF InLaunch
<1>4. /\ BlocksBefore[y.b] \in Nat /\ BlocksBefore[z.b] \in Nat /\ BlocksBefore[z.b + 1] \in Nat
  BY <1>2, <1>3 DEF Sums
<1>5. ASSUME z.b < y.b PROVE FALSE
  <2>1. y.b \in z.b + 1 .. n
    BY <1>3, <1>5
  <2>2. BlocksBefore[z.b + 1] <= BlocksBefore[y.b]
    BY <1>2, <1>3, <2>1, SumsGrow
  <2>3. QED
    BY <1>1, <1>4, <2>2 DEF Within
<1>6. ASSUME y.b = z.b PROVE Local(y) < Local(z)
  <2>1. PICK base \in Nat : base = BlocksBefore[z.b]
    BY <1>4
  <2>2. PICK a \in Nat, c \in Nat : a = Local(y) /\ c = Local(z)
    <3>1. Local(y) \in Nat
      BY LocalIs
    <3>2. Local(z) \in Nat
      BY LocalIs
    <3>3. QED
      BY <3>1, <3>2
  <2>3. Number(y) = base + a /\ Number(z) = base + c
    BY <1>6, <2>1, <2>2 DEF Number, Local
  <2>4. QED
    BY <2>2, <2>3
<1>7. QED
  BY <1>3, <1>5, <1>6

LEMMA KvOrders ==
  ASSUME launch \in LAUNCHES, NEW y, InLaunch(y), NEW z, InLaunch(z), y.b = z.b, Local(y) < Local(z)
  PROVE  KvLine(y) <= KvLine(z)
<1>1. PICK C \in Nat \ {0}, l \in Nat, i \in Nat :
        C = launch.g * S1Outer(launch, z.b) /\ l = KvLine(z) /\ i < C /\ Local(z) = l * C + i
  BY LocalIs
<1>2. PICK m \in Nat, j \in Nat : m = KvLine(y) /\ Local(y) = m * C + j
  <2>1. PICK D \in Nat \ {0}, m \in Nat, j \in Nat :
          D = launch.g * S1Outer(launch, y.b) /\ m = KvLine(y) /\ Local(y) = m * D + j
    BY LocalIs
  <2>2. D = C
    BY <1>1, <2>1
  <2>3. QED
    BY <2>1, <2>2
<1>3. m * C < (l + 1) * C
  <2>1. (l + 1) * C = l * C + C /\ l * C \in Nat /\ m * C \in Nat
    BY NextTimes
  <2>2. QED
    BY <1>1, <1>2, <2>1
<1>4. m < l + 1
  BY <1>3, TimesLess
<1>5. QED
  BY <1>1, <1>2, <1>4

LEMMA KvAlike ==
  ASSUME launch \in LAUNCHES, NEW y, InLaunch(y), NEW z, InLaunch(z), y.b = z.b, KvLine(y) = KvLine(z)
  PROVE  KvSame(y, z)
<1>1. PICK S \in Nat \ {0} : S = S2Outer(launch, z.b)
  BY OuterIs DEF InLaunch
<1>2. PICK a \in Nat, p \in Nat, c \in Nat, q \in Nat : a = y.n2 /\ p = y.s2o /\ c = z.n2 /\ q = z.s2o
  BY DEF InLaunch
<1>3. p < S /\ q < S
  BY <1>1, <1>2 DEF InLaunch
<1>4. PICK l : l = a * S + p
  OBVIOUS
<1>5. l = c * S + q
  BY <1>1, <1>2, <1>4 DEF KvLine
<1>6. l \div S = a /\ l % S = p
  BY <1>3, <1>4, Decode
<1>7. l \div S = c /\ l % S = q
  BY <1>3, <1>5, Decode
<1>8. QED
  BY <1>2, <1>6, <1>7 DEF KvSame

LEMMA DqAlike ==
  ASSUME launch \in LAUNCHES, NEW y, InLaunch(y), NEW z, InLaunch(z), y.b = z.b, DqLine(y) = DqLine(z)
  PROVE  DqSame(y, z)
<1>1. PICK R \in Nat \ {0}, G \in Nat \ {0} : R = S1Outer(launch, z.b) /\ G = launch.g
  BY OuterIs, SequencesIs DEF InLaunch
<1>2. PICK a \in Nat, p \in Nat, i \in Nat, c \in Nat, q \in Nat, j \in Nat :
        a = y.n2 /\ p = y.g /\ i = y.s1o /\ c = z.n2 /\ q = z.g /\ j = z.s1o
  BY DEF InLaunch
<1>3. p < G /\ q < G /\ i < R /\ j < R
  BY <1>1, <1>2 DEF InLaunch
<1>4. PICK h \in Nat, k \in Nat : h = a * G + p /\ k = c * G + q
  OBVIOUS
<1>5. PICK l : l = h * R + i
  OBVIOUS
<1>6. l = k * R + j
  BY <1>1, <1>2, <1>4, <1>5 DEF DqLine
<1>7. l \div R = h /\ l % R = i
  BY <1>3, <1>5, Decode
<1>8. l \div R = k /\ l % R = j
  BY <1>3, <1>6, Decode
<1>9. h = k /\ i = j
  BY <1>7, <1>8
<1>10. h \div G = a /\ h % G = p
  BY <1>3, <1>4, Decode
<1>11. h \div G = c /\ h % G = q
  BY <1>3, <1>4, <1>9, Decode
<1>12. QED
  BY <1>2, <1>9, <1>10, <1>11 DEF DqSame

(* A block of the first column is the first of its tile of dq. *)
LEMMA DqFirst ==
  ASSUME launch \in LAUNCHES, NEW y, InLaunch(y), NEW z, InLaunch(z), DqSame(y, z), z.s2o = 0
  PROVE  ~(Number(y) < Number(z))
<1> SUFFICES ASSUME Number(y) < Number(z) PROVE FALSE
  OBVIOUS
<1>1. y.b = z.b /\ Local(y) < Local(z)
  BY NumberOrders DEF DqSame, InLaunch
<1>2. PICK S \in Nat, R \in Nat, G \in Nat : S = S2Outer(launch, z.b) /\ R = S1Outer(launch, z.b) /\ G = launch.g
  BY OuterIs, SequencesIs DEF InLaunch
<1>3. PICK n \in Nat, g \in Nat, i \in Nat, s \in Nat : n = z.n2 /\ g = z.g /\ i = z.s1o /\ s = y.s2o
  BY DEF InLaunch
<1>4. PICK l \in Nat, m \in Nat : l = n * S /\ m = n * S + s
  OBVIOUS
<1>5. PICK lg \in Nat, mg \in Nat : lg = l * G /\ mg = m * G
  OBVIOUS
<1>6. lg <= mg
  BY <1>4, <1>5, TimesGrows
<1>7. Local(z) = (lg + g) * R + i /\ Local(y) = (mg + g) * R + i
  BY <1>1, <1>2, <1>3, <1>4, <1>5 DEF Local, Line, DqSame
<1>8. (lg + g) * R <= (mg + g) * R /\ (lg + g) * R \in Int /\ (mg + g) * R \in Int
  BY <1>6, TimesGrows
<1>9. QED
  BY <1>1, <1>7, <1>8

(* The top block of a column of the first head of a group is the first of    *)
(* its tile of dk and dv.                                                    *)
LEMMA KvFirst ==
  ASSUME launch \in LAUNCHES, NEW y, InLaunch(y), NEW z, InLaunch(z), KvSame(y, z),
         TopBlock(y) <= y.s1o, z.g = 0, z.s1o = TopBlock(z)
  PROVE  ~(Number(y) < Number(z))
<1> SUFFICES ASSUME Number(y) < Number(z) PROVE FALSE
  OBVIOUS
<1>1. y.b = z.b /\ Local(y) < Local(z)
  BY NumberOrders DEF KvSame, InLaunch
<1>2. PICK R \in Nat : R = S1Outer(launch, z.b)
  BY OuterIs DEF InLaunch
<1>3. PICK C \in Nat \ {0}, l \in Nat, i \in Nat : /\ C = launch.g * R /\ l = KvLine(z) /\ i = z.g * R + z.s1o
                                                   /\ Local(z) = l * C + i
  BY <1>2, LocalIs
<1>4. PICK m \in Nat, j \in Nat : m = KvLine(y) /\ j = y.g * R + y.s1o /\ Local(y) = m * C + j
  <2>1. PICK D \in Nat \ {0}, m \in Nat, j \in Nat :
          /\ D = launch.g * S1Outer(launch, y.b) /\ m = KvLine(y) /\ j = y.g * S1Outer(launch, y.b) + y.s1o
          /\ Local(y) = m * D + j
    BY LocalIs
  <2>2. D = C /\ S1Outer(launch, y.b) = R
    BY <1>1, <1>2, <1>3, <2>1
  <2>3. QED
    BY <2>1, <2>2
<1>5. m = l
  BY <1>3, <1>4 DEF KvLine, KvSame
<1>6. PICK g \in Nat, p \in Nat, q \in Nat : g = y.g /\ p = y.s1o /\ q = z.s1o
  BY DEF InLaunch
<1>7. q <= p
  <2>1. TopRow(y) = TopRow(z)
    BY DEF KvSame, TopRow
  <2>2. TopBlock(y) = TopBlock(z)
    BY <2>1 DEF TopBlock
  <2>3. QED
    BY <1>6, <2>2
<1>8. i = q /\ j = g * R + p /\ g * R \in Nat /\ l * C \in Nat
  BY <1>3, <1>4, <1>6
<1>9. QED
  BY <1>1, <1>3, <1>4, <1>5, <1>7, <1>8
-----------------------------------------------------------------------------
(* The number the walk has counted to.                                       *)
WalkNo(w) ==
  IF w.b < Batches(launch) /\ KeysOf(launch, w.b) > 0 THEN Number(w) ELSE BlocksBefore[w.b]

LEMMA WalkUpdate ==
  ASSUME launch \in LAUNCHES, launch.dtm, NEW w \in WalkRec, w.b < Batches(launch), AtColumn(w), NEW u, u = UpdateIndex(w)
  PROVE  WalkNo(u) = IF KeysOf(launch, w.b) > 0
                     THEN BlocksBefore[w.b] + (Line(w) + 1) * S1Outer(launch, w.b)
                     ELSE BlocksBefore[w.b]
<1>1. PICK n \in Nat, s \in Nat, g \in Nat, b \in Nat : n = w.n2 /\ s = w.s2o /\ g = w.g /\ b = w.b
  BY DEF WalkRec
<1>2. PICK N \in Nat, S \in Nat, G \in Nat, R \in Nat, keys \in Nat :
        /\ N = launch.n2 /\ S = S2Outer(launch, b) /\ G = launch.g /\ R = S1Outer(launch, b) /\ keys = KeysOf(launch, b)
  BY <1>1, SequencesIs, OuterIs
<1>3. n < N /\ g < G /\ (s = 0 \/ s < S)
  BY <1>1, <1>2 DEF AtColumn
<1>4. keys > 0 <=> S > 0
  <2>1. (S - 1) * S2_INNER < keys /\ keys <= S * S2_INNER /\ S2_INNER \in Nat
    BY <1>1, <1>2, OuterIs, BlocksAssumption
  <2>2. ASSUME S = 0 PROVE keys = 0
    BY <2>1, <2>2
  <2>3. ASSUME S > 0 PROVE keys > 0
    <3>1. 0 * S2_INNER <= (S - 1) * S2_INNER /\ (S - 1) * S2_INNER \in Int
      BY <2>1, <2>3, TimesGrows
    <3>2. QED
      BY <2>1, <3>1
  <2>4. QED
    BY <2>2, <2>3
<1>5. /\ u.s1o = 0
      /\ u.g = IF g >= G - 1 THEN 0 ELSE g + 1
      /\ u.s2o = IF ~(g >= G - 1) THEN s ELSE IF s >= S - 1 THEN 0 ELSE s + 1
      /\ u.n2 = IF (g >= G - 1 /\ s >= S - 1) /\ n >= N - 1 THEN 0 ELSE IF g >= G - 1 /\ s >= S - 1 THEN n + 1 ELSE n
      /\ u.b = IF (g >= G - 1 /\ s >= S - 1) /\ n >= N - 1 THEN b + 1 ELSE b
  BY <1>1, <1>2, UpdateFields DEF GroupEnds, ColumnsEnd, HeadsEnd
<1>6. PICK base \in Nat : /\ base = BlocksBefore[b] /\ BlocksBefore[b + 1] = base + BlocksOf(b)
                          /\ BlocksOf(b) = ((N * G) * R) * S
  BY <1>1, <1>2, BeforeSums DEF BlocksOf
<1>7. PICK l \in Nat : l = (n * S + s) * G + g /\ l = Line(w)
  <2>1. (n * S + s) * G + g \in Nat
    OBVIOUS
  <2>2. Line(w) = (n * S + s) * G + g
    BY <1>1, <1>2 DEF Line
  <2>3. QED
    BY <2>1, <2>2
<1>8. CASE (g >= G - 1 /\ s >= S - 1) /\ n >= N - 1
  <2>1. u.b = b + 1 /\ u.n2 = 0 /\ u.g = 0 /\ u.s2o = 0 /\ u.s1o = 0
    BY <1>5, <1>8
  <2>2. WalkNo(u) = BlocksBefore[b + 1]
    <3>1. CASE b + 1 < Batches(launch)
      <4>1. PICK S2 \in Nat, R2 \in Nat, base2 \in Nat :
              S2 = S2Outer(launch, b + 1) /\ R2 = S1Outer(launch, b + 1) /\ base2 = BlocksBefore[b + 1]
        BY <3>1, OuterIs, BeforeSums
      <4>2. Line(u) = 0
        BY <1>2, <2>1, <4>1 DEF Line
      <4>3. Number(u) = base2
        BY <2>1, <4>1, <4>2 DEF Number
      <4>4. QED
        BY <2>1, <4>1, <4>3 DEF WalkNo
    <3>2. CASE ~(b + 1 < Batches(launch))
      BY <2>1, <3>2 DEF WalkNo
    <3>3. QED
      BY <3>1, <3>2
  <2>3. CASE S = 0
    <3>1. BlocksOf(b) = 0
      BY <1>6, <2>3
    <3>2. QED
      BY <1>1, <1>2, <1>4, <1>6, <2>2, <2>3, <3>1
  <2>4. CASE S > 0
    <3>1. n + 1 = N /\ s + 1 = S /\ g + 1 = G
      BY <1>3, <1>8, <2>4
    <3>2. l + 1 = (N * S) * G
      <4>1. l + 1 = (n * S + s) * G + G
        BY <1>7, <3>1
      <4>2. (n * S + s + 1) * G = (n * S + s) * G + G
        BY NextTimes
      <4>3. n * S + s + 1 = (n + 1) * S
        <5>1. n * S + s + 1 = n * S + S
          BY <3>1
        <5>2. QED
          BY <5>1, NextTimes
      <4>4. QED
        BY <3>1, <4>1, <4>2, <4>3
    <3>3. (l + 1) * R = ((N * G) * R) * S
      <4>1. ((N * S) * G) * R = ((N * G) * R) * S
        OBVIOUS
      <4>2. QED
        BY <3>2, <4>1
    <3>4. QED
      BY <1>1, <1>2, <1>4, <1>6, <1>7, <2>2, <2>4, <3>3
  <2>5. QED
    BY <2>3, <2>4
<1>9. CASE ~((g >= G - 1 /\ s >= S - 1) /\ n >= N - 1)
  <2>1. u.b = b
    BY <1>5, <1>9
  <2>2. CASE S = 0
    BY <1>1, <1>2, <1>4, <2>1, <2>2 DEF WalkNo
  <2>3. CASE S > 0
    <3>1. Line(u) = l + 1
      <4>1. CASE ~(g >= G - 1)
        <5>1. u.n2 = n /\ u.s2o = s /\ u.g = g + 1
          BY <1>5, <4>1
        <5>2. QED
          BY <1>2, <1>7, <2>1, <5>1 DEF Line
      <4>2. CASE g >= G - 1 /\ ~(s >= S - 1)
        <5>1. u.n2 = n /\ u.s2o = s + 1 /\ u.g = 0 /\ g + 1 = G
          BY <1>3, <1>5, <4>2
        <5>2. Line(u) = (n * S + (s + 1)) * G
          BY <1>2, <2>1, <5>1 DEF Line
        <5>3. (n * S + s + 1) * G = (n * S + s) * G + G
          BY NextTimes
        <5>4. QED
          BY <1>7, <5>1, <5>2, <5>3
      <4>3. CASE g >= G - 1 /\ s >= S - 1
        <5>1. u.n2 = n + 1 /\ u.s2o = 0 /\ u.g = 0 /\ g + 1 = G /\ s + 1 = S
          BY <1>3, <1>5, <1>9, <2>3, <4>3
        <5>2. Line(u) = ((n + 1) * S) * G
          BY <1>2, <2>1, <5>1 DEF Line
        <5>3. (n * S + s + 1) * G = (n * S + s) * G + G
          BY NextTimes
        <5>4. n * S + s + 1 = (n + 1) * S
          <6>1. n * S + s + 1 = n * S + S
            BY <5>1
          <6>2. QED
            BY <6>1, NextTimes
        <5>5. QED
          BY <1>7, <5>1, <5>2, <5>3, <5>4
      <4>4. QED
        BY <4>1, <4>2, <4>3
    <3>2. Number(u) = base + (l + 1) * R
      <4>1. u.s1o = 0 /\ (l + 1) * R \in Nat
        BY <1>5
      <4>2. QED
        BY <1>2, <1>6, <2>1, <3>1, <4>1 DEF Number
    <3>3. WalkNo(u) = Number(u)
      BY <1>1, <1>2, <1>4, <2>1, <2>3 DEF WalkNo
    <3>4. QED
      BY <1>1, <1>2, <1>4, <1>6, <1>7, <2>3, <3>2, <3>3
  <2>4. QED
    BY <2>2, <2>3
<1>10. QED
  BY <1>8, <1>9
-----------------------------------------------------------------------------
(* The groups of a round.  A block that is not the first of its tile joins a *)
(* core before it or itself, which has the same tile, and nothing of that    *)
(* tile joins another; of dq it is the first of them.                        *)
DqLinked(r, c) ==
  IF r[c].s2o = 0 THEN r[c].dqGroupId = OUTIDX
  ELSE /\ r[c].dqGroupId \in Core /\ r[c].dqGroupId <= c /\ DqSame(r[r[c].dqGroupId], r[c])
       /\ \A d \in Core : d <= c /\ DqSame(r[d], r[c]) =>
            r[c].dqGroupId <= d /\ (r[d].dqGroupId = OUTIDX \/ r[d].dqGroupId = r[c].dqGroupId)
KvLinked(r, c) ==
  IF r[c].g = 0 /\ r[c].s1o = TopBlock(r[c]) THEN r[c].kvGroupId = OUTIDX
  ELSE /\ r[c].kvGroupId \in Core /\ r[c].kvGroupId <= c /\ KvSame(r[r[c].kvGroupId], r[c])
       /\ \A d \in Core : d <= c /\ KvSame(r[d], r[c]) =>
            r[d].kvGroupId = OUTIDX \/ r[d].kvGroupId = r[c].kvGroupId
Linked(r, c) == DqLinked(r, c) /\ KvLinked(r, c)
(* The tiles of the cores before n, as numbers from those of the sequence on. *)
OutsAt(h, w, n, outs) ==
  \A c \in Core : c < n =>
    /\ outs[c].dq \in Int /\ outs[c].kv \in Int
    /\ IF h[c].b = w.b THEN outs[c].dq = w.dqOutBase + DqLine(h[c]) /\ outs[c].kv = w.kvOutBase + KvLine(h[c])
                       ELSE outs[c].dq < w.dqOutBase /\ outs[c].kv < w.kvOutBase
(* The round being dealt, when the walk deals blocks of the column of w.     *)
Ready(w, start) ==
  /\ w \in WalkRec /\ InLaunch(w) /\ TopBlock(w) \in Nat /\ TopBlock(w) <= w.s1o
  /\ start \in Nat /\ w.startCoreId = start
  /\ \A c \in Core : c < start =>
       InLaunch(hand[c]) /\ TopBlock(hand[c]) <= hand[c].s1o /\ Number(hand[c]) < Number(w) /\ Linked(hand, c)
  /\ \A c, d \in Core : c < d /\ d < start => Number(hand[c]) < Number(hand[d])
  /\ OutsAt(hand, w, start, outArr)
(* Cores start to core of k have been dealt the blocks from w on. *)
DealtTo(k, w, start, core) ==
  /\ \A c \in Core : c < start => k[c] = hand[c]
  /\ \A c \in Core : c >= start /\ c <= core =>
       DealtAt(k[c], w, w.s1o + (c - start)) /\ Labelled(k[c], w, c, w.s1o + (c - start))

LEMMA LinkedLike ==
  ASSUME NEW r, NEW h, NEW c \in Core, \A d \in Core : d <= c => r[d] = h[d], Linked(h, c)
  PROVE  Linked(r, c)
<1>1. c \in Nat /\ r[c] = h[c]
  BY DEF Core
<1>2. DqLinked(r, c)
  <2>1. CASE h[c].s2o = 0
    BY <1>1, <2>1 DEF Linked, DqLinked
  <2>2. CASE h[c].s2o # 0
    <3>1. PICK g \in Core : g = h[c].dqGroupId /\ g <= c /\ DqSame(h[g], h[c])
      BY <2>2 DEF Linked, DqLinked
    <3>2. \A d \in Core : d <= c /\ DqSame(h[d], h[c]) => g <= d /\ (h[d].dqGroupId = OUTIDX \/ h[d].dqGroupId = g)
      BY <2>2, <3>1 DEF Linked, DqLinked
    <3>3. QED
      BY <1>1, <2>2, <3>1, <3>2 DEF DqLinked
  <2>3. QED
    BY <2>1, <2>2
<1>3. KvLinked(r, c)
  <2>1. CASE h[c].g = 0 /\ h[c].s1o = TopBlock(h[c])
    BY <1>1, <2>1 DEF Linked, KvLinked
  <2>2. CASE ~(h[c].g = 0 /\ h[c].s1o = TopBlock(h[c]))
    <3>1. PICK g \in Core : g = h[c].kvGroupId /\ g <= c /\ KvSame(h[g], h[c])
      BY <2>2 DEF Linked, KvLinked
    <3>2. \A d \in Core : d <= c /\ KvSame(h[d], h[c]) => h[d].kvGroupId = OUTIDX \/ h[d].kvGroupId = g
      BY <2>2, <3>1 DEF Linked, KvLinked
    <3>3. QED
      BY <1>1, <2>2, <3>1, <3>2 DEF KvLinked
  <2>3. QED
    BY <2>1, <2>2
<1>4. QED
  BY <1>2, <1>3 DEF Linked

(* The tile that outArr holds for a core is that of its block. *)
LEMMA OutsTell ==
  ASSUME launch \in LAUNCHES, NEW w, NEW start, Ready(w, start), NEW c \in Core, c < start,
         NEW z, InLaunch(z), z.b = w.b
  PROVE  /\ outArr[c].dq = w.dqOutBase + DqLine(z) <=> DqSame(hand[c], z)
         /\ outArr[c].kv = w.kvOutBase + KvLine(z) <=> KvSame(hand[c], z)
<1>1. InLaunch(hand[c]) /\ w.dqOutBase \in Int /\ w.kvOutBase \in Int
  BY DEF Ready, WalkRec
<1>2. PICK dq \in Int, kv \in Int, bq \in Int, bk \in Int :
        dq = outArr[c].dq /\ kv = outArr[c].kv /\ bq = w.dqOutBase /\ bk = w.kvOutBase
  BY <1>1 DEF Ready, OutsAt
<1>3. ASSUME NEW y, InLaunch(y) PROVE DqLine(y) \in Nat /\ KvLine(y) \in Nat
  <2>1. PICK R \in Nat, S \in Nat, G \in Nat : R = S1Outer(launch, y.b) /\ S = S2Outer(launch, y.b) /\ G = launch.g
    BY <1>3, OuterIs, SequencesIs DEF InLaunch
  <2>2. PICK n \in Nat, g \in Nat, i \in Nat, s \in Nat : n = y.n2 /\ g = y.g /\ i = y.s1o /\ s = y.s2o
    BY <1>3 DEF InLaunch
  <2>3. (n * G + g) * R + i \in Nat /\ n * S + s \in Nat
    OBVIOUS
  <2>4. QED
    BY <2>1, <2>2, <2>3 DEF DqLine, KvLine
<1>4. PICK a \in Nat, p \in Nat, d \in Nat, q \in Nat :
        a = DqLine(z) /\ p = KvLine(z) /\ d = DqLine(hand[c]) /\ q = KvLine(hand[c])
  BY <1>1, <1>3
<1>5. CASE hand[c].b = w.b
  <2>1. dq = bq + d /\ kv = bk + q
    BY <1>2, <1>4, <1>5 DEF Ready, OutsAt
  <2>2. (dq = bq + a <=> d = a) /\ (kv = bk + p <=> q = p)
    BY <2>1
  <2>3. d = a <=> DqSame(hand[c], z)
    <3>1. ASSUME DqSame(hand[c], z) PROVE d = a
      BY <1>4, <3>1 DEF DqSame, DqLine
    <3>2. ASSUME d = a PROVE DqSame(hand[c], z)
      BY <1>1, <1>4, <1>5, <3>2, DqAlike
    <3>3. QED
      BY <3>1, <3>2
  <2>4. q = p <=> KvSame(hand[c], z)
    <3>1. ASSUME KvSame(hand[c], z) PROVE q = p
      BY <1>4, <3>1 DEF KvSame, KvLine
    <3>2. ASSUME q = p PROVE KvSame(hand[c], z)
      BY <1>1, <1>4, <1>5, <3>2, KvAlike
    <3>3. QED
      BY <3>1, <3>2
  <2>5. QED
    BY <1>2, <1>4, <2>2, <2>3, <2>4
<1>6. CASE hand[c].b # w.b
  <2>1. dq < bq /\ kv < bk
    BY <1>2, <1>6 DEF Ready, OutsAt
  <2>2. dq # bq + a /\ kv # bk + p
    BY <2>1
  <2>3. ~DqSame(hand[c], z) /\ ~KvSame(hand[c], z)
    BY <1>6 DEF DqSame, KvSame
  <2>4. QED
    BY <1>2, <1>4, <2>2, <2>3
<1>7. QED
  BY <1>5, <1>6

(* The block that core is dealt. *)
LEMMA NewBlock ==
  ASSUME launch \in LAUNCHES, NEW w, NEW start, Ready(w, start), NEW core \in Core, core >= start,
         w.s1o + (core - start) < S1Outer(launch, w.b), NEW k, DealtTo(k, w, start, core),
         w.baseIdx = Number(w)
  PROVE  /\ InLaunch(k[core]) /\ SameColumn(w, k[core]) /\ k[core].s1o = w.s1o + (core - start)
         /\ Number(k[core]) = Number(w) + (core - start) /\ k[core].blockIdArr = Number(k[core])
         /\ TopBlock(k[core]) = TopBlock(w) /\ TopBlock(k[core]) <= k[core].s1o
<1>1. core \in Nat /\ start \in Nat /\ w.s1o \in Nat /\ TopBlock(w) \in Nat /\ TopBlock(w) <= w.s1o /\ w.startCoreId = start
  BY DEF Core, Ready, WalkRec
<1>2. DealtAt(k[core], w, w.s1o + (core - start)) /\ Labelled(k[core], w, core, w.s1o + (core - start))
  BY <1>1 DEF DealtTo
<1>3. PICK z : z = k[core]
  OBVIOUS
<1>4. PICK i \in Nat, e \in Nat : e = core - start /\ i = w.s1o + e /\ i < S1Outer(launch, w.b)
  BY <1>1
<1>5. z.b = w.b /\ z.n2 = w.n2 /\ z.g = w.g /\ z.s2o = w.s2o /\ z.s1o = i
  BY <1>2, <1>3, <1>4 DEF DealtAt
<1>6. InLaunch(z) /\ SameColumn(w, z)
  BY <1>4, <1>5 DEF InLaunch, SameColumn, Ready
<1>7. Number(z) = Number(w) + e
  <2>1. PICK base \in Nat, l \in Nat : base = BlocksBefore[w.b] /\ l = Line(w) * S1Outer(launch, w.b)
    <3>1. BlocksBefore[w.b] \in Nat
      BY BeforeSums DEF Ready, InLaunch
    <3>2. Line(w) \in Nat /\ S1Outer(launch, w.b) \in Nat
      <4>1. PICK R \in Nat, S \in Nat, G \in Nat : R = S1Outer(launch, w.b) /\ S = S2Outer(launch, w.b) /\ G = launch.g
        BY OuterIs, SequencesIs DEF Ready, InLaunch
      <4>2. PICK n \in Nat, g \in Nat, s \in Nat : n = w.n2 /\ g = w.g /\ s = w.s2o
        BY DEF Ready, InLaunch
      <4>3. (n * S + s) * G + g \in Nat
        OBVIOUS
      <4>4. QED
        BY <4>1, <4>2, <4>3 DEF Line
    <3>3. QED
      BY <3>1, <3>2
  <2>2. Line(z) = Line(w)
    BY <1>5 DEF Line
  <2>3. Number(z) = base + (l + i) /\ Number(w) = base + (l + w.s1o)
    BY <1>5, <2>1, <2>2 DEF Number
  <2>4. QED
    BY <1>1, <1>4, <2>1, <2>3
<1>8. z.blockIdArr = Number(z)
  BY <1>1, <1>2, <1>3, <1>4, <1>7 DEF Labelled
<1>9. TopBlock(z) = TopBlock(w) /\ TopBlock(w) <= i
  BY <1>1, <1>4, <1>6, ColumnShared
<1>10. QED
  BY <1>3, <1>4, <1>5, <1>6, <1>7, <1>8, <1>9

(* It joins the first block of its tile of dq in the round. *)
LEMMA DqJoins ==
  ASSUME launch \in LAUNCHES, NEW w, NEW start, Ready(w, start), NEW core \in Core, core >= start,
         w.s1o + (core - start) < S1Outer(launch, w.b), NEW k, DealtTo(k, w, start, core),
         w.baseIdx = Number(w)
  PROVE  DqLinked(k, core)
<1>1. /\ start \in Nat /\ core \in Nat /\ w.s1o \in Nat /\ w.startCoreId = start /\ OUTIDX = -1
      /\ \A c : c \in Core <=> c \in Nat /\ c < CORES
      /\ CORES \in Nat
  BY BlocksAssumption DEF Core, Ready, WalkRec, OUTIDX
<1>2. PICK i : i = w.s1o + (core - start)
  OBVIOUS
<1>3. PICK z : z = k[core]
  OBVIOUS
<1>4. InLaunch(z) /\ SameColumn(w, z) /\ z.s1o = i
  BY <1>2, <1>3, NewBlock
<1>5. z.dqGroupId = DqGroup(w, core, i)
  BY <1>1, <1>2, <1>3 DEF DealtTo, Labelled
<1>6. PICK same : same = {j \in 0 .. w.startCoreId - 1 : outArr[j].dq = DqTile(w, i)}
  OBVIOUS
<1>7. z.dqGroupId = IF w.s2o = 0 THEN OUTIDX ELSE IF same = {} THEN core ELSE Min(same)
  BY <1>5, <1>6 DEF DqGroup
<1>8. ASSUME NEW j \in Core, j < start PROVE j \in same <=> DqSame(hand[j], z)
  <2>1. DqTile(w, i) = w.dqOutBase + DqLine(z)
    <3>1. PICK l \in Nat, base \in Int : l = (w.n2 * launch.g + w.g) * S1Outer(launch, w.b) /\ base = w.dqOutBase
      <4>1. PICK R \in Nat, G \in Nat : R = S1Outer(launch, w.b) /\ G = launch.g
        BY OuterIs, SequencesIs DEF Ready, InLaunch
      <4>2. PICK n \in Nat, g \in Nat : n = w.n2 /\ g = w.g
        BY DEF Ready, InLaunch
      <4>3. (n * G + g) * R \in Nat
        OBVIOUS
      <4>4. w.dqOutBase \in Int
        BY DEF Ready, WalkRec
      <4>5. QED
        BY <4>1, <4>2, <4>3, <4>4
    <3>2. i \in Int
      BY <1>1, <1>2
    <3>3. DqTile(w, i) = base + l + i /\ DqLine(z) = l + i
      BY <1>4, <3>1 DEF DqTile, DqLine, SameColumn
    <3>4. QED
      BY <3>1, <3>2, <3>3
  <2>2. j \in 0 .. w.startCoreId - 1
    BY <1>1, <1>8
  <2>3. outArr[j].dq = w.dqOutBase + DqLine(z) <=> DqSame(hand[j], z)
    BY <1>4, <1>8, OutsTell DEF SameColumn
  <2>4. QED
    BY <1>6, <2>1, <2>2, <2>3
<1>9. same \in SUBSET Nat /\ \A j \in same : j \in Core /\ j < start
  BY <1>1, <1>6
<1>10. ASSUME NEW d \in Core, d <= core, DqSame(k[d], z)
       PROVE  d = core \/ (d < start /\ k[d] = hand[d] /\ d \in same)
  <2>1. CASE d < start
    BY <1>8, <1>10, <2>1 DEF DealtTo
  <2>2. CASE ~(d < start)
    <3>1. k[d].s1o = w.s1o + (d - start)
      BY <1>1, <1>10, <2>2 DEF DealtTo, DealtAt
    <3>2. w.s1o + (d - start) = w.s1o + (core - start)
      BY <1>2, <1>4, <1>10, <3>1 DEF DqSame
    <3>3. d \in Nat
      BY <1>1
    <3>4. QED
      BY <1>1, <3>2, <3>3, SMTT(30)
  <2>3. QED
    BY <2>1, <2>2
<1>11. z.s2o = w.s2o
  BY <1>4 DEF SameColumn
<1>12. CASE w.s2o = 0
  BY <1>3, <1>7, <1>11, <1>12 DEF DqLinked
<1>13. CASE w.s2o # 0 /\ same = {}
  <2>1. z.dqGroupId = core
    BY <1>7, <1>13
  <2>2. \A d \in Core : d <= core /\ DqSame(k[d], z) => d = core
    BY <1>10, <1>13
  <2>3. DqSame(z, z)
    BY DEF DqSame
  <2>4. QED
    BY <1>1, <1>3, <1>11, <1>13, <2>1, <2>2, <2>3 DEF DqLinked
<1>14. CASE w.s2o # 0 /\ same # {}
  <2>1. PICK first \in same : first = Min(same) /\ \A j \in same : first <= j
    BY <1>9, <1>14, MinOf
  <2>2. first \in Core /\ first \in Nat /\ first < start /\ first <= core /\ k[first] = hand[first]
    BY <1>1, <1>9, <2>1 DEF DealtTo
  <2>3. z.dqGroupId = first /\ DqSame(k[first], z)
    BY <1>7, <1>8, <1>14, <2>1, <2>2
  <2>4. ASSUME NEW d \in same PROVE hand[d].dqGroupId = OUTIDX \/ hand[d].dqGroupId = first
    <3>1. d \in Core /\ d < start /\ d \in Nat /\ DqSame(hand[d], z) /\ first <= d
      BY <1>1, <1>8, <1>9, <2>1
    <3>2. DqLinked(hand, d)
      BY <3>1 DEF Ready, Linked
    <3>3. CASE hand[d].s2o = 0
      BY <3>2, <3>3 DEF DqLinked
    <3>4. CASE hand[d].s2o # 0
      <4>1. PICK g \in Core : g = hand[d].dqGroupId /\ g <= d /\ DqSame(hand[g], hand[d])
        BY <3>2, <3>4 DEF DqLinked
      <4>2. DqSame(hand[g], z) /\ g < start /\ g \in Nat
        BY <1>1, <3>1, <4>1 DEF DqSame
      <4>3. g \in same
        BY <1>8, <4>2
      <4>4. first <= g
        BY <2>1, <4>3
      <4>5. DqSame(hand[first], hand[d])
        BY <2>2, <2>3, <3>1 DEF DqSame
      <4>6. g <= first
        BY <2>2, <3>1, <3>2, <3>4, <4>1, <4>5 DEF DqLinked
      <4>7. QED
        BY <2>2, <4>1, <4>2, <4>4, <4>6
    <3>5. QED
      BY <3>3, <3>4
  <2>5. ASSUME NEW d \in Core, d <= core, DqSame(k[d], z)
        PROVE  first <= d /\ (k[d].dqGroupId = OUTIDX \/ k[d].dqGroupId = first)
    <3>1. CASE d = core
      BY <1>3, <2>2, <2>3, <3>1
    <3>2. CASE d # core
      <4>1. k[d] = hand[d] /\ d \in same
        BY <1>10, <2>5, <3>2
      <4>2. QED
        BY <2>1, <2>4, <4>1
    <3>3. QED
      BY <3>1, <3>2
  <2>6. QED
    BY <1>3, <1>11, <1>14, <2>2, <2>3, <2>5 DEF DqLinked
<1>15. QED
  BY <1>12, <1>13, <1>14
(* It joins the group of the core before, if that has one and the same tile  *)
(* of dk and dv; if it has none, it is itself the first of the tile.         *)
LEMMA KvJoins ==
  ASSUME launch \in LAUNCHES, NEW w, NEW start, Ready(w, start), NEW core \in Core, core >= start,
         w.s1o + (core - start) < S1Outer(launch, w.b), NEW k, DealtTo(k, w, start, core),
         w.baseIdx = Number(w)
  PROVE  KvLinked(k, core)
<1>1. /\ start \in Nat /\ core \in Nat /\ w.s1o \in Nat /\ w.startCoreId = start /\ OUTIDX = -1
      /\ \A c : c \in Core <=> c \in Nat /\ c < CORES
      /\ CORES \in Nat /\ start \in Core
  BY BlocksAssumption DEF Core, Ready, WalkRec, OUTIDX
<1>2. PICK z : z = k[core]
  OBVIOUS
<1>3. InLaunch(z) /\ SameColumn(w, z) /\ z.s1o = w.s1o + (core - start) /\ TopBlock(z) = TopBlock(w)
  BY <1>2, NewBlock
<1>4. PICK top \in Nat, at \in Nat : top = TopBlock(w) /\ at = w.s1o /\ top <= at
  BY DEF Ready, WalkRec
<1> DEFINE opens(c) == c = start /\ at = top /\ w.g = 0
           before == start - 1
           joins == before >= 0 /\ outArr[before].kv = KvTile(w) /\ hand[before].kvGroupId # OUTIDX
<1>5. ASSUME NEW c \in Core, c >= start, c <= core
      PROVE  k[c].kvGroupId = IF opens(c) THEN OUTIDX ELSE IF joins THEN hand[before].kvGroupId ELSE start
  <2>1. k[c].kvGroupId = KvGroup(w, c)
    BY <1>5 DEF DealtTo, Labelled
  <2>2. QED
    BY <1>1, <1>4, <2>1 DEF KvGroup
<1>6. (z.g = 0 /\ z.s1o = TopBlock(z)) <=> opens(core)
  <2>1. z.g = w.g
    BY <1>3 DEF SameColumn
  <2>2. at + (core - start) = top <=> core = start /\ at = top
    BY <1>1, <1>4
  <2>3. QED
    BY <1>3, <1>4, <2>1, <2>2
<1>7. InLaunch(w) /\ KvSame(z, w) /\ KvTile(w) = w.kvOutBase + KvLine(w)
  <2>1. InLaunch(w) /\ w.kvOutBase \in Int
    BY DEF Ready, WalkRec
  <2>2. PICK l \in Nat, s \in Nat, base \in Int : l = w.n2 * S2Outer(launch, w.b) /\ s = w.s2o /\ base = w.kvOutBase
    <3>1. PICK n \in Nat, S \in Nat : n = w.n2 /\ S = S2Outer(launch, w.b)
      BY <2>1, OuterIs DEF InLaunch
    <3>2. n * S \in Nat
      OBVIOUS
    <3>3. QED
      BY <2>1, <3>1, <3>2 DEF InLaunch
  <2>3. QED
    BY <1>3, <2>1, <2>2 DEF KvSame, SameColumn, KvTile, KvLine
<1>8. ASSUME before >= 0
      PROVE  /\ before \in Core /\ before < start
             /\ outArr[before].kv = KvTile(w) <=> KvSame(hand[before], w)
  <2>1. before \in Core /\ before < start
    BY <1>1, <1>8
  <2>2. QED
    BY <1>7, <2>1, OutsTell
<1>9. ASSUME NEW d \in Core, d <= core, KvSame(k[d], z)
      PROVE  (d >= start /\ d <= core) \/ (d < start /\ before >= 0 /\ d <= before /\ k[d] = hand[d] /\ KvSame(hand[d], w))
  <2>1. CASE d < start
    <3>1. k[d] = hand[d] /\ d <= before /\ before >= 0
      BY <1>1, <2>1 DEF DealtTo
    <3>2. KvSame(hand[d], w)
      BY <1>7, <1>9, <3>1 DEF KvSame
    <3>3. QED
      BY <2>1, <3>1, <3>2
  <2>2. CASE ~(d < start)
    BY <1>1, <1>9, <2>2
  <2>3. QED
    BY <2>1, <2>2
<1>10. CASE opens(core)
  BY <1>1, <1>2, <1>5, <1>6, <1>10 DEF KvLinked
<1>11. CASE ~opens(core) /\ joins
  <2>1. before \in Core /\ before < start /\ KvSame(hand[before], w) /\ hand[before].kvGroupId # OUTIDX
    BY <1>8, <1>11
  <2>2. KvLinked(hand, before)
    BY <2>1 DEF Ready, Linked
  <2>3. PICK g \in Core : g = hand[before].kvGroupId /\ g <= before /\ KvSame(hand[g], hand[before])
    BY <2>1, <2>2 DEF KvLinked
  <2>4. \A d \in Core : d <= before /\ KvSame(hand[d], hand[before]) => hand[d].kvGroupId = OUTIDX \/ hand[d].kvGroupId = g
    BY <2>1, <2>2, <2>3 DEF KvLinked
  <2>5. z.kvGroupId = g
    BY <1>1, <1>2, <1>5, <1>11, <2>3
  <2>6. g <= core /\ g < start
    BY <1>1, <2>3
  <2>7. KvSame(k[g], z)
    BY <1>7, <2>1, <2>3, <2>6 DEF KvSame, DealtTo
  <2>8. ASSUME NEW d \in Core, d <= core, KvSame(k[d], z)
        PROVE  k[d].kvGroupId = OUTIDX \/ k[d].kvGroupId = g
    <3>1. CASE d >= start /\ d <= core
      BY <1>5, <1>11, <2>3, <3>1
    <3>2. CASE d <= before /\ k[d] = hand[d] /\ KvSame(hand[d], w)
      <4>1. KvSame(hand[d], hand[before])
        BY <2>1, <3>2 DEF KvSame
      <4>2. QED
        BY <2>4, <3>2, <4>1
    <3>3. QED
      BY <1>9, <2>8, <3>1, <3>2
  <2>9. QED
    BY <1>2, <1>6, <1>11, <2>5, <2>6, <2>7, <2>8 DEF KvLinked
<1>12. CASE ~opens(core) /\ ~joins
  <2>1. z.kvGroupId = start
    BY <1>1, <1>2, <1>5, <1>12
  <2>2. KvSame(k[start], z)
    <3>1. DealtAt(k[start], w, w.s1o + (start - start))
      BY <1>1 DEF DealtTo
    <3>2. QED
      BY <1>7, <3>1 DEF KvSame, DealtAt
  <2>3. ASSUME NEW d \in Core, d <= before, before >= 0, KvSame(hand[d], w)
        PROVE  hand[d].kvGroupId = OUTIDX
    <3>1. before \in Core /\ before < start /\ d \in Nat /\ d < start
      BY <1>1, <1>8, <2>3
    <3>2. /\ InLaunch(hand[d]) /\ TopBlock(hand[d]) <= hand[d].s1o /\ Number(hand[d]) < Number(w)
          /\ InLaunch(hand[before]) /\ Number(hand[before]) < Number(w) /\ KvLinked(hand, before)
      BY <3>1 DEF Ready, Linked
    <3>3. KvSame(hand[before], w) => hand[before].kvGroupId = OUTIDX
      BY <1>8, <1>12, <2>3
    <3>4. CASE d = before
      BY <2>3, <3>3, <3>4
    <3>5. CASE d # before
      <4>1. d < before
        BY <1>1, <2>3, <3>1, <3>5
      <4>2. Number(hand[d]) < Number(hand[before])
        BY <3>1, <4>1 DEF Ready
      <4>3. KvSame(hand[before], w)
        <5>1. hand[d].b = w.b /\ hand[before].b \in Nat /\ w.b \in Nat
          BY <1>7, <2>3, <3>2 DEF KvSame, InLaunch
        <5>2. hand[d].b < hand[before].b \/ (hand[d].b = hand[before].b /\ Local(hand[d]) < Local(hand[before]))
          BY <3>2, <4>2, NumberOrders
        <5>3. hand[before].b < w.b \/ (hand[before].b = w.b /\ Local(hand[before]) < Local(w))
          BY <1>7, <3>2, NumberOrders
        <5>4. /\ hand[before].b = w.b /\ hand[d].b = hand[before].b
              /\ Local(hand[d]) < Local(hand[before]) /\ Local(hand[before]) < Local(w)
          BY <5>1, <5>2, <5>3
        <5>5. KvLine(hand[d]) <= KvLine(hand[before])
          BY <3>2, <5>4, KvOrders
        <5>6. KvLine(hand[before]) <= KvLine(w)
          BY <1>7, <3>2, <5>4, KvOrders
        <5>7. KvLine(hand[d]) = KvLine(w)
          BY <2>3 DEF KvLine, KvSame
        <5>8. KvLine(hand[before]) \in Nat /\ KvLine(w) \in Nat
          <6>1. KvLine(hand[before]) \in Nat
            BY <3>2, LocalIs
          <6>2. KvLine(w) \in Nat
            BY <1>7, LocalIs
          <6>3. QED
            BY <6>1, <6>2
        <5>9. KvLine(hand[before]) = KvLine(w)
          BY <5>5, <5>6, <5>7, <5>8
        <5>10. QED
          BY <1>7, <3>2, <5>4, <5>9, KvAlike
      <4>4. hand[before].g = 0 /\ hand[before].s1o = TopBlock(hand[before])
        <5>1. hand[before].kvGroupId = OUTIDX /\ OUTIDX \notin Core
          BY <1>1, <3>3, <4>3
        <5>2. QED
          BY <3>2, <5>1 DEF KvLinked
      <4>5. KvSame(hand[d], hand[before])
        BY <2>3, <4>3 DEF KvSame
      <4>6. ~(Number(hand[d]) < Number(hand[before]))
        BY <3>2, <4>4, <4>5, KvFirst
      <4>7. QED
        BY <4>2, <4>6
    <3>6. QED
      BY <3>4, <3>5
  <2>4. ASSUME NEW d \in Core, d <= core, KvSame(k[d], z)
        PROVE  k[d].kvGroupId = OUTIDX \/ k[d].kvGroupId = start
    <3>1. CASE d >= start /\ d <= core
      BY <1>5, <1>12, <3>1
    <3>2. CASE before >= 0 /\ d <= before /\ k[d] = hand[d] /\ KvSame(hand[d], w)
      BY <2>3, <3>2
    <3>3. QED
      BY <1>9, <2>4, <3>1, <3>2
  <2>5. QED
    BY <1>1, <1>2, <1>6, <1>12, <2>1, <2>2, <2>4 DEF KvLinked
<1>13. QED
  BY <1>10, <1>11, <1>12
-----------------------------------------------------------------------------
(* The invariant of deterministic mode.                                      *)
Counted(rs, h, start, upto) ==
  \A x \in HeldPlaces(rs, start) :
    LET z == HeldBlock(rs, h, x) IN z.blockIdArr = Number(z) /\ TopBlock(z) <= z.s1o /\ Number(z) < upto
InOrder(rs, h, start) ==
  \A x, y \in HeldPlaces(rs, start) : Before(x, y) => Number(HeldBlock(rs, h, x)) < Number(HeldBlock(rs, h, y))
LinkedRounds(rs) ==
  \A i \in DOMAIN rs : \A c \in Core : rs[i][c].blockId # NO_BLOCK =>
    Linked(rs[i], c) /\ \A d \in Core : d < c => rs[i][d].blockId # NO_BLOCK
LinkedHand(h, start) == \A c \in Core : c < start => Linked(h, c)
GroupsAt(rs, h, start, upto) ==
  Counted(rs, h, start, upto) /\ InOrder(rs, h, start) /\ LinkedRounds(rs) /\ LinkedHand(h, start)
GroupsInv ==
  /\ PairsInv
  /\ launch.dtm =>
       /\ GroupsAt(rounds, hand, walk.startCoreId, WalkNo(walk))
       /\ OutsAt(hand, walk, walk.startCoreId, outArr)
       /\ ~Planned => walk.baseIdx = WalkNo(walk)

LEMMA WalkNoIs ==
  ASSUME launch \in LAUNCHES, NEW w, InLaunch(w)
  PROVE  WalkNo(w) = Number(w) /\ Number(w) \in Nat
<1>1. Number(w) \in Nat
  BY NumberIs DEF Parts
<1>2. KeysOf(launch, w.b) > 0
  <2>1. PICK S \in Nat \ {0}, keys \in Nat : S = S2Outer(launch, w.b) /\ keys = KeysOf(launch, w.b) /\ (S - 1) * S2_INNER < keys
    BY OuterIs, SequencesIs DEF InLaunch
  <2>2. S2_INNER \in Nat /\ S - 1 \in Nat
    BY <2>1, BlocksAssumption
  <2>3. (S - 1) * S2_INNER \in Nat
    BY <2>2
  <2>4. QED
    BY <2>1, <2>3
<1>3. QED
  BY <1>1, <1>2 DEF WalkNo, InLaunch

(* The hand, from the places held. *)
LEMMA HandHeld ==
  ASSUME NEW rs, Len(rs) \in Nat, NEW h, NEW start, NEW c \in Core, c < start
  PROVE  <<Len(rs), c>> \in HeldPlaces(rs, start) /\ HeldBlock(rs, h, <<Len(rs), c>>) = h[c]
<1>1. <<Len(rs), c>> \in Nat \X Core /\ ~(Len(rs) < Len(rs))
  BY DEF Core
<1>2. QED
  BY <1>1 DEF HeldPlaces, HeldBlock

(* A round is kept. *)
LEMMA KeptGroups ==
  ASSUME NEW rs, NEW h, NEW r, NEW k, NEW ss, NEW start, NEW upto,
         Kept(rs, r, ss, start), GroupsAt(rs, h, start, upto), \A c \in Core : c < start => r[c] = h[c]
  PROVE  GroupsAt(ss, k, 0, upto)
<1>1. /\ HeldPlaces(ss, 0) = HeldPlaces(rs, start)
      /\ \A x \in HeldPlaces(rs, start) : HeldBlock(ss, k, x) = HeldBlock(rs, r, x)
  BY KeptHolds
<1>2. ASSUME NEW x \in HeldPlaces(rs, start)
      PROVE  HeldBlock(rs, r, x) = HeldBlock(rs, h, x)
  <2>1. PICK t \in Nat, c \in Core : t = x[1] /\ c = x[2] /\ (t < Len(rs) \/ (t = Len(rs) /\ c < start))
    BY <1>2 DEF HeldPlaces
  <2>2. CASE t < Len(rs)
    BY <2>1, <2>2 DEF HeldBlock
  <2>3. CASE ~(t < Len(rs))
    BY <2>1, <2>3 DEF HeldBlock
  <2>4. QED
    BY <2>2, <2>3
<1>3. \A x \in HeldPlaces(rs, start) : HeldBlock(ss, k, x) = HeldBlock(rs, h, x)
  BY <1>1, <1>2
<1>4. Counted(ss, k, 0, upto)
  BY <1>1, <1>3 DEF GroupsAt, Counted
<1>5. InOrder(ss, k, 0)
  BY <1>1, <1>3 DEF GroupsAt, InOrder
<1>6. LinkedRounds(ss)
  <2>1. /\ Len(rs) \in Nat /\ DOMAIN rs = 1 .. Len(rs) /\ DOMAIN ss = 1 .. Len(rs) + 1 /\ ss[Len(rs) + 1] = r
        /\ \A i \in 1 .. Len(rs) : ss[i] = rs[i]
    BY DEF Kept
  <2>2. ASSUME NEW c \in Core, r[c].blockId # NO_BLOCK
        PROVE  Linked(r, c) /\ \A d \in Core : d < c => r[d].blockId # NO_BLOCK
    <3>1. c < start /\ start \in Nat /\ \A d \in Core : d \in Nat
      BY <2>2 DEF Kept, Core
    <3>2. \A d \in Core : d <= c => r[d] = h[d] /\ r[d].blockId # NO_BLOCK
      BY <3>1 DEF Kept
    <3>3. Linked(h, c)
      BY <3>1 DEF GroupsAt, LinkedHand
    <3>4. Linked(r, c)
      BY <3>2, <3>3, LinkedLike
    <3>5. QED
      BY <3>1, <3>2, <3>4
  <2>3. ASSUME NEW i \in DOMAIN ss, NEW c \in Core, ss[i][c].blockId # NO_BLOCK
        PROVE  Linked(ss[i], c) /\ \A d \in Core : d < c => ss[i][d].blockId # NO_BLOCK
    <3>1. CASE i \in 1 .. Len(rs)
      <4>1. ss[i] = rs[i] /\ i \in DOMAIN rs
        BY <2>1, <3>1
      <4>2. QED
        BY <2>3, <4>1 DEF GroupsAt, LinkedRounds
    <3>2. CASE i = Len(rs) + 1
      BY <2>1, <2>2, <2>3, <3>2
    <3>3. QED
      BY <2>1, <3>1, <3>2
  <2>4. QED
    BY <2>3 DEF LinkedRounds
<1>7. LinkedHand(k, 0)
  <2>1. \A c \in Core : ~(c < 0)
    BY DEF Core
  <2>2. QED
    BY <2>1 DEF LinkedHand
<1>8. QED
  BY <1>4, <1>5, <1>6, <1>7 DEF GroupsAt

(* The blocks dealt out have the numbers from that of the walk on. *)
LEMMA DealGroups ==
  ASSUME launch \in LAUNCHES, NEW rs, Len(rs) \in Nat, NEW w, NEW start, NEW m \in Nat, Ready(w, start),
         start + m <= CORES, w.s1o + m <= S1Outer(launch, w.b), w.baseIdx = Number(w),
         \A x \in HeldPlaces(rs, start) : InLaunch(HeldBlock(rs, hand, x)),
         GroupsAt(rs, hand, start, Number(w)),
         NEW k, \A c \in Core : c < start + m => DealtTo(k, w, start, c)
  PROVE  GroupsAt(rs, k, start + m, Number(w) + m)
<1>1. /\ start \in Nat /\ w.s1o \in Nat /\ S1Outer(launch, w.b) \in Nat /\ \A c \in Core : c \in Nat
      /\ Number(w) \in Nat
  <2>1. Number(w) \in Nat /\ S1Outer(launch, w.b) \in Nat
    BY WalkNoIs, OuterIs DEF Ready, InLaunch
  <2>2. QED
    BY <2>1 DEF Ready, WalkRec, Core
<1>2. PICK was, now : was = HeldPlaces(rs, start) /\ now = HeldPlaces(rs, start + m)
  OBVIOUS
<1> DEFINE old(x) == HeldBlock(rs, hand, x)
           new(x) == HeldBlock(rs, k, x)
<1>3. ASSUME NEW x \in now
      PROVE  \/ x \in was /\ new(x) = old(x) /\ (x[1] < Len(rs) \/ (x[1] = Len(rs) /\ x[2] < start))
             \/ \E c \in Core : x = <<Len(rs), c>> /\ c >= start /\ c < start + m /\ new(x) = k[c]
  <2>1. PICK t \in Nat, c \in Core : x = <<t, c>>
    BY <1>2, <1>3 DEF HeldPlaces
  <2>2. (t < Len(rs) /\ rs[t + 1][c].blockId # NO_BLOCK) \/ (t = Len(rs) /\ c < start + m)
    BY <1>2, <1>3, <2>1 DEF HeldPlaces
  <2>3. CASE t < Len(rs)
    <3>1. x \in was
      BY <1>2, <2>1, <2>2, <2>3 DEF HeldPlaces
    <3>2. QED
      BY <2>1, <2>3, <3>1 DEF HeldBlock
  <2>4. CASE t = Len(rs) /\ c < start
    <3>1. x \in was
      BY <1>2, <2>1, <2>4 DEF HeldPlaces
    <3>2. k[c] = hand[c]
      BY <1>1, <2>4 DEF DealtTo
    <3>3. QED
      BY <2>1, <2>4, <3>1, <3>2 DEF HeldBlock
  <2>5. CASE t = Len(rs) /\ ~(c < start)
    <3>1. new(x) = k[c]
      BY <2>1, <2>5 DEF HeldBlock
    <3>2. c >= start /\ c < start + m
      BY <1>1, <2>2, <2>5
    <3>3. QED
      BY <2>1, <2>5, <3>1, <3>2
  <2>6. QED
    BY <2>2, <2>3, <2>4, <2>5
<1>4. ASSUME NEW c \in Core, c >= start, c < start + m
      PROVE  /\ InLaunch(k[c]) /\ Number(k[c]) = Number(w) + (c - start)
             /\ k[c].blockIdArr = Number(k[c]) /\ TopBlock(k[c]) <= k[c].s1o
             /\ Linked(k, c)
  <2>1. w.s1o + (c - start) < S1Outer(launch, w.b)
    BY <1>1, <1>4
  <2>2. DealtTo(k, w, start, c)
    BY <1>4
  <2>3. /\ InLaunch(k[c]) /\ Number(k[c]) = Number(w) + (c - start)
        /\ k[c].blockIdArr = Number(k[c]) /\ TopBlock(k[c]) <= k[c].s1o
    BY <1>4, <2>1, <2>2, NewBlock
  <2>4. DqLinked(k, c) /\ KvLinked(k, c)
    BY <1>4, <2>1, <2>2, DqJoins, KvJoins
  <2>5. QED
    BY <2>3, <2>4 DEF Linked
<1>5. ASSUME NEW x \in was
      PROVE  /\ old(x).blockIdArr = Number(old(x)) /\ TopBlock(old(x)) <= old(x).s1o /\ Number(old(x)) < Number(w)
             /\ Number(old(x)) \in Nat
  <2>1. Number(old(x)) \in Nat
    BY <1>2, NumberIs DEF Parts
  <2>2. QED
    BY <1>2, <2>1 DEF GroupsAt, Counted
<1> HIDE DEF old, new
<1>6. ASSUME NEW x \in now
      PROVE  new(x).blockIdArr = Number(new(x)) /\ TopBlock(new(x)) <= new(x).s1o /\ Number(new(x)) < Number(w) + m
  <2>1. CASE x \in was /\ new(x) = old(x)
    BY <1>1, <1>5, <2>1
  <2>2. CASE \E c \in Core : x = <<Len(rs), c>> /\ c >= start /\ c < start + m /\ new(x) = k[c]
    <3>1. PICK c \in Core : c >= start /\ c < start + m /\ new(x) = k[c]
      BY <2>2
    <3>2. QED
      BY <1>1, <1>4, <3>1
  <2>3. QED
    BY <1>3, <2>1, <2>2
<1>7. ASSUME NEW x \in now, NEW y \in now, Before(x, y)
      PROVE  Number(new(x)) < Number(new(y))
  <2>1. CASE /\ x \in was /\ new(x) = old(x)
             /\ y \in was /\ new(y) = old(y)
    BY <1>2, <1>7, <2>1 DEF GroupsAt, InOrder, old
  <2>2. CASE /\ x \in was /\ new(x) = old(x)
             /\ \E c \in Core : y = <<Len(rs), c>> /\ c >= start /\ c < start + m /\ new(y) = k[c]
    <3>1. PICK c \in Core : c >= start /\ c < start + m /\ new(y) = k[c]
      BY <2>2
    <3>2. Number(new(y)) = Number(w) + (c - start) /\ c \in Nat
      BY <1>1, <1>4, <3>1
    <3>3. Number(new(x)) < Number(w) /\ Number(new(x)) \in Nat
      BY <1>5, <2>2
    <3>4. QED
      BY <1>1, <3>1, <3>2, <3>3
  <2>3. CASE /\ \E c \in Core : x = <<Len(rs), c>> /\ c >= start /\ c < start + m /\ new(x) = k[c]
             /\ y \in was /\ (y[1] < Len(rs) \/ (y[1] = Len(rs) /\ y[2] < start))
    <3>1. PICK c \in Core : x = <<Len(rs), c>> /\ c >= start
      BY <2>3
    <3>2. PICK t \in Nat, d \in Core : t = y[1] /\ d = y[2]
      BY <1>2, <2>3 DEF HeldPlaces
    <3>3. c \in Nat /\ d \in Nat
      BY <1>1
    <3>4. Len(rs) < t \/ (Len(rs) = t /\ c < d)
      BY <1>7, <3>1, <3>2 DEF Before
    <3>5. QED
      BY <1>1, <2>3, <3>1, <3>2, <3>3, <3>4
  <2>4. CASE /\ \E c \in Core : x = <<Len(rs), c>> /\ c >= start /\ c < start + m /\ new(x) = k[c]
             /\ \E c \in Core : y = <<Len(rs), c>> /\ c >= start /\ c < start + m /\ new(y) = k[c]
    <3>1. PICK c \in Core : x = <<Len(rs), c>> /\ c >= start /\ c < start + m /\ new(x) = k[c]
      BY <2>4
    <3>2. PICK d \in Core : y = <<Len(rs), d>> /\ d >= start /\ d < start + m /\ new(y) = k[d]
      BY <2>4
    <3>3. c < d /\ c \in Nat /\ d \in Nat
      BY <1>1, <1>7, <3>1, <3>2 DEF Before
    <3>4. Number(new(x)) = Number(w) + (c - start) /\ Number(new(y)) = Number(w) + (d - start)
      BY <1>4, <3>1, <3>2
    <3>5. QED
      BY <1>1, <3>1, <3>2, <3>3, <3>4
  <2>5. QED
    BY <1>3, <2>1, <2>2, <2>3, <2>4
<1>8. Counted(rs, k, start + m, Number(w) + m)
  BY <1>2, <1>6 DEF Counted, new
<1>9. InOrder(rs, k, start + m)
  BY <1>2, <1>7 DEF InOrder, new
<1>10. LinkedHand(k, start + m)
  <2>1. ASSUME NEW c \in Core, c < start + m PROVE Linked(k, c)
    <3>1. CASE c >= start
      BY <1>4, <2>1, <3>1
    <3>2. CASE ~(c >= start)
      <4>1. \A d \in Core : d <= c => k[d] = hand[d]
        BY <1>1, <2>1, <3>2 DEF DealtTo
      <4>2. Linked(hand, c)
        BY <1>1, <3>2 DEF GroupsAt, LinkedHand
      <4>3. QED
        BY <4>1, <4>2, LinkedLike
    <3>3. QED
      BY <3>1, <3>2
  <2>2. QED
    BY <2>1 DEF LinkedHand
<1>11. LinkedRounds(rs)
  BY DEF GroupsAt
<1>12. QED
  BY <1>8, <1>9, <1>10, <1>11 DEF GroupsAt

LEMMA GroupsGrow ==
  ASSUME NEW rs, NEW h, NEW start, NEW a \in Nat, NEW b \in Nat, a <= b, GroupsAt(rs, h, start, a),
         launch \in LAUNCHES, \A x \in HeldPlaces(rs, start) : InLaunch(HeldBlock(rs, h, x))
  PROVE  GroupsAt(rs, h, start, b)
<1>1. ASSUME NEW x \in HeldPlaces(rs, start)
      PROVE  Number(HeldBlock(rs, h, x)) < b
  <2>1. Number(HeldBlock(rs, h, x)) \in Nat /\ Number(HeldBlock(rs, h, x)) < a
    BY NumberIs DEF Parts, GroupsAt, Counted
  <2>2. QED
    BY <2>1
<1>2. QED
  BY <1>1 DEF GroupsAt, Counted

(* The tiles, when the walk goes on to another column. *)
LEMMA OutsMove ==
  ASSUME launch \in LAUNCHES, NEW h, NEW w \in WalkRec, w.b < Batches(launch), NEW n, NEW outs, OutsAt(h, w, n, outs),
         \A c \in Core : c < n => InLaunch(h[c]) /\ h[c].b <= w.b,
         NEW u, u = UpdateIndex(w)
  PROVE  OutsAt(h, u, n, outs)
<1>1. PICK bq \in Int, bk \in Int, b \in Nat : bq = w.dqOutBase /\ bk = w.kvOutBase /\ b = w.b
  BY DEF WalkRec
<1>2. PICK N \in Nat, G \in Nat, R \in Nat, S \in Nat :
        N = launch.n2 /\ G = launch.g /\ R = S1Outer(launch, b) /\ S = S2Outer(launch, b)
  BY <1>1, SequencesIs, OuterIs
<1>3. PICK dq \in Nat, kv \in Nat : dq = (N * G) * R /\ kv = N * S
  OBVIOUS
<1>4. \/ u.b = b /\ u.dqOutBase = bq /\ u.kvOutBase = bk
      \/ u.b = b + 1 /\ u.dqOutBase = bq + dq /\ u.kvOutBase = bk + kv
  <2> DEFINE gEnds == w.g >= launch.g - 1
             s2oEnds == w.s2o >= S2Outer(launch, w.b) - 1
             columnsEnd == gEnds /\ s2oEnds
             headsEnd == columnsEnd /\ w.n2 >= launch.n2 - 1
             newG == IF ~launch.dtm /\ ~s2oEnds THEN w.g ELSE IF gEnds THEN 0 ELSE w.g + 1
             newS == IF launch.dtm /\ ~gEnds THEN w.s2o ELSE IF s2oEnds THEN 0 ELSE w.s2o + 1
             newN == IF headsEnd THEN 0 ELSE IF columnsEnd THEN w.n2 + 1 ELSE w.n2
             newB == IF headsEnd THEN w.b + 1 ELSE w.b
             newDq == IF headsEnd THEN w.dqOutBase + dq ELSE w.dqOutBase
             newKv == IF headsEnd THEN w.kvOutBase + kv ELSE w.kvOutBase
  <2>0. dq = (launch.n2 * launch.g) * S1Outer(launch, w.b) /\ kv = launch.n2 * S2Outer(launch, w.b)
    BY <1>1, <1>2, <1>3
  <2>1. u = [w EXCEPT !.s1o = 0, !.g = newG, !.s2o = newS, !.n2 = newN, !.b = newB,
                      !.dqOutBase = newDq, !.kvOutBase = newKv]
    BY <2>0, Zenon DEF UpdateIndex
  <2> HIDE DEF newB, newN, newG, newS, newDq, newKv
  <2>2. u.b = newB /\ u.dqOutBase = newDq /\ u.kvOutBase = newKv
    BY <2>1 DEF WalkRec
  <2>3. QED
    BY <1>1, <2>2 DEF newB, newDq, newKv
<1>5. ASSUME NEW c \in Core, c < n
      PROVE  /\ outs[c].dq \in Int /\ outs[c].kv \in Int
             /\ IF h[c].b = u.b THEN outs[c].dq = u.dqOutBase + DqLine(h[c]) /\ outs[c].kv = u.kvOutBase + KvLine(h[c])
                                ELSE outs[c].dq < u.dqOutBase /\ outs[c].kv < u.kvOutBase
  <2>1. PICK x \in Int, y \in Int : x = outs[c].dq /\ y = outs[c].kv
    BY <1>5 DEF OutsAt
  <2>2. /\ InLaunch(h[c]) /\ h[c].b <= b /\ h[c].b \in Nat
        /\ IF h[c].b = b THEN x = bq + DqLine(h[c]) /\ y = bk + KvLine(h[c]) ELSE x < bq /\ y < bk
    BY <1>1, <1>5, <2>1 DEF OutsAt, InLaunch
  <2>3. CASE u.b = b /\ u.dqOutBase = bq /\ u.kvOutBase = bk
    BY <2>1, <2>2, <2>3
  <2>4. CASE u.b = b + 1 /\ u.dqOutBase = bq + dq /\ u.kvOutBase = bk + kv
    <3>1. h[c].b # u.b
      BY <2>2, <2>4
    <3>2. CASE h[c].b # b
      BY <1>3, <2>1, <2>2, <2>4, <3>1, <3>2
    <3>3. CASE h[c].b = b
      <4>1. PICK a \in Nat, g \in Nat, i \in Nat, s \in Nat : a = h[c].n2 /\ g = h[c].g /\ i = h[c].s1o /\ s = h[c].s2o
        BY <2>2 DEF InLaunch
      <4>2. a < N /\ g < G /\ i < R /\ s < S
        BY <1>2, <2>2, <3>3, <4>1 DEF InLaunch
      <4>3. DqLine(h[c]) = (a * G + g) * R + i /\ KvLine(h[c]) = a * S + s
        BY <1>2, <3>3, <4>1 DEF DqLine, KvLine
      <4>4. (a * G + g) * R + i < dq
        <5>1. PICK p \in Nat, q \in Nat : p = a * G + g /\ q = N * G
          OBVIOUS
        <5>2. p + 1 <= q
          <6>1. (a + 1) * G <= N * G /\ (a + 1) * G = a * G + G /\ a * G \in Nat
            BY <4>2, TimesGrows, NextTimes
          <6>2. QED
            BY <4>2, <5>1, <6>1
        <5>3. (p + 1) * R <= q * R /\ (p + 1) * R = p * R + R /\ p * R \in Nat
          BY <5>2, TimesGrows, NextTimes
        <5>4. QED
          BY <1>3, <4>2, <5>1, <5>3
      <4>5. a * S + s < kv
        <5>1. (a + 1) * S <= N * S /\ (a + 1) * S = a * S + S /\ a * S \in Nat
          BY <4>2, TimesGrows, NextTimes
        <5>2. QED
          BY <1>3, <4>2, <5>1
      <4>6. PICK p \in Nat, q \in Nat : p = DqLine(h[c]) /\ q = KvLine(h[c]) /\ p < dq /\ q < kv
        <5>1. (a * G + g) * R + i \in Nat /\ a * S + s \in Nat
          OBVIOUS
        <5>2. QED
          BY <4>3, <4>4, <4>5, <5>1
      <4>7. x < bq + dq /\ y < bk + kv
        BY <2>2, <3>3, <4>6
      <4>8. QED
        BY <2>1, <2>4, <3>1, <4>7
    <3>4. QED
      BY <3>2, <3>3
  <2>5. QED
    BY <1>4, <2>3, <2>4
<1>6. QED
  BY <1>5 DEF OutsAt
-----------------------------------------------------------------------------
(* The steps of the walk, in deterministic mode.                             *)
LEMMA NumberMoves ==
  ASSUME launch \in LAUNCHES, NEW y, InLaunch(y), NEW z, SameColumn(y, z), z.s1o \in Nat
  PROVE  Number(z) = Number(y) + (z.s1o - y.s1o)
<1>1. z.b = y.b /\ z.n2 = y.n2 /\ z.g = y.g /\ z.s2o = y.s2o /\ y.s1o \in Nat
  BY DEF SameColumn, InLaunch
<1>2. PICK base \in Nat, l \in Nat : base = BlocksBefore[y.b] /\ l = Line(y) * S1Outer(launch, y.b)
  <2>1. BlocksBefore[y.b] \in Nat
    BY BeforeSums DEF InLaunch
  <2>2. PICK R \in Nat, S \in Nat, G \in Nat : R = S1Outer(launch, y.b) /\ S = S2Outer(launch, y.b) /\ G = launch.g
    BY OuterIs, SequencesIs DEF InLaunch
  <2>3. PICK n \in Nat, g \in Nat, s \in Nat : n = y.n2 /\ g = y.g /\ s = y.s2o
    BY DEF InLaunch
  <2>4. ((n * S + s) * G + g) * R \in Nat
    OBVIOUS
  <2>5. QED
    BY <2>1, <2>2, <2>3, <2>4 DEF Line
<1>3. Line(z) = Line(y)
  BY <1>1 DEF Line
<1>4. Number(z) = base + (l + z.s1o) /\ Number(y) = base + (l + y.s1o)
  BY <1>1, <1>2, <1>3 DEF Number
<1>5. QED
  BY <1>1, <1>2, <1>4

(* Going on to the next column counts the blocks that are left of this one. *)
LEMMA WalkMoves ==
  ASSUME launch \in LAUNCHES, launch.dtm, NEW w \in WalkRec, w.b < Batches(launch), AtColumn(w), NEW u, u = UpdateIndex(w)
  PROVE  /\ WalkNo(w) \in Nat
         /\ WalkNo(u) = IF KeysOf(launch, w.b) > 0 THEN WalkNo(w) + (S1Outer(launch, w.b) - w.s1o) ELSE WalkNo(w)
<1>1. PICK base \in Nat, R \in Nat, s1 \in Nat : base = BlocksBefore[w.b] /\ R = S1Outer(launch, w.b) /\ s1 = w.s1o
  BY BeforeSums, OuterIs DEF WalkRec
<1>2. PICK l \in Nat : l = Line(w)
  <2>1. PICK n \in Nat, s \in Nat, g \in Nat, S \in Nat, G \in Nat :
          n = w.n2 /\ s = w.s2o /\ g = w.g /\ S = S2Outer(launch, w.b) /\ G = launch.g
    BY SequencesIs, OuterIs DEF WalkRec
  <2>2. (n * S + s) * G + g \in Nat
    OBVIOUS
  <2>3. QED
    BY <2>1, <2>2 DEF Line
<1>3. PICK lr \in Nat : lr = l * R /\ (l + 1) * R = lr + R
  <2>1. l * R \in Nat
    OBVIOUS
  <2>2. QED
    BY <2>1, NextTimes
<1>4. Number(w) = base + (lr + s1)
  BY <1>1, <1>2, <1>3 DEF Number
<1>5. WalkNo(u) = IF KeysOf(launch, w.b) > 0 THEN base + (lr + R) ELSE base
  BY <1>1, <1>2, <1>3, WalkUpdate
<1>6. WalkNo(w) = IF KeysOf(launch, w.b) > 0 THEN base + (lr + s1) ELSE base
  BY <1>1, <1>4 DEF WalkNo
<1>7. CASE KeysOf(launch, w.b) > 0
  BY <1>1, <1>3, <1>5, <1>6, <1>7
<1>8. CASE ~(KeysOf(launch, w.b) > 0)
  BY <1>1, <1>5, <1>6, <1>8
<1>9. QED
  BY <1>7, <1>8

(* The walk goes to the top of a column. *)
LEMMA AtTopMoves ==
  ASSUME launch \in LAUNCHES, NEW w, WalkSound(w), w.baseIdx # -1, w.b < Batches(launch),
         ~BeyondRows(w), ~BelowWindow(w), NEW v, v = AtTop(w)
  PROVE  /\ v.dqOutBase = w.dqOutBase /\ v.kvOutBase = w.kvOutBase
         /\ v.baseIdx = w.baseIdx + (v.s1o - w.s1o) /\ v.s1o >= w.s1o
         /\ w.s1o < S1Outer(launch, w.b) /\ v.s1o \in Nat /\ w.s1o \in Nat /\ TopBlock(v) \in Nat
<1>1. /\ w \in WalkRec /\ w.b \in Nat /\ w.s1o \in Nat /\ w.s2o \in Nat /\ w.baseIdx \in Int
      /\ w.s2o = 0 \/ w.s2o < S2Outer(launch, w.b)
  BY DEF WalkSound, WalkRec, AtColumn
<1>2. PICK top \in Nat, bottom \in Int, outer \in Nat :
        top = TopBlock(w) /\ bottom = BottomBlock(w) /\ outer = S1Outer(launch, w.b) /\ bottom < outer
  BY <1>1, ColumnIs, OuterIs
<1>3. w.s1o <= bottom
  BY <1>1, <1>2 DEF BelowWindow
<1>4. CASE w.s1o >= top
  <2>1. v = w
    BY <1>2, <1>4 DEF AtTop
  <2>2. QED
    BY <1>1, <1>2, <1>3, <2>1
<1>5. CASE ~(w.s1o >= top)
  <2>1. PICK base \in Int : base = w.baseIdx + top - w.s1o
    BY <1>1
  <2>2. v = [w EXCEPT !.s1o = top, !.baseIdx = base]
    BY <1>2, <1>5, <2>1 DEF AtTop
  <2>3. /\ v.s1o = top /\ v.baseIdx = base /\ v.dqOutBase = w.dqOutBase /\ v.kvOutBase = w.kvOutBase
        /\ v.b = w.b /\ v.s2o = w.s2o
    BY <1>1, <2>2 DEF WalkRec
  <2>4. TopBlock(v) = top
    BY <1>2, <2>3 DEF TopBlock, TopRow
  <2>5. QED
    BY <1>1, <1>2, <1>3, <1>5, <2>1, <2>3, <2>4
<1>6. QED
  BY <1>4, <1>5

(* Tiles as numbers. *)
LEMMA TilesAre ==
  ASSUME launch \in LAUNCHES, NEW w, w.dqOutBase \in Int, w.kvOutBase \in Int, NEW z, InLaunch(z), SameColumn(w, z)
  PROVE  /\ DqTile(w, z.s1o) = w.dqOutBase + DqLine(z) /\ DqTile(w, z.s1o) \in Int
         /\ KvTile(w) = w.kvOutBase + KvLine(z) /\ KvTile(w) \in Int
<1>1. PICK R \in Nat, S \in Nat, G \in Nat : R = S1Outer(launch, z.b) /\ S = S2Outer(launch, z.b) /\ G = launch.g
  BY OuterIs, SequencesIs DEF InLaunch
<1>2. PICK n \in Nat, g \in Nat, s \in Nat, i \in Nat : n = z.n2 /\ g = z.g /\ s = z.s2o /\ i = z.s1o
  BY DEF InLaunch
<1>3. PICK l \in Nat, m \in Nat : l = (n * G + g) * R /\ m = n * S
  <2>1. (n * G + g) * R \in Nat /\ n * S \in Nat
    OBVIOUS
  <2>2. QED
    BY <2>1
<1>4. w.b = z.b /\ w.n2 = n /\ w.g = g /\ w.s2o = s
  BY <1>2 DEF SameColumn
<1>5. PICK bq \in Int, bk \in Int : bq = w.dqOutBase /\ bk = w.kvOutBase
  OBVIOUS
<1>6. /\ DqTile(w, z.s1o) = (bq + l) + i /\ DqLine(z) = l + i
      /\ KvTile(w) = (bk + m) + s /\ KvLine(z) = m + s
  BY <1>1, <1>2, <1>3, <1>4, <1>5 DEF DqTile, DqLine, KvTile, KvLine
<1>7. QED
  BY <1>5, <1>6

(* What outArr holds, when blocks are dealt out. *)
LEMMA OutsDealt ==
  ASSUME launch \in LAUNCHES, NEW w, NEW start, Ready(w, start), NEW m \in Nat,
         w.s1o + m <= S1Outer(launch, w.b), w.baseIdx = Number(w),
         NEW k, \A c \in Core : c < start + m => DealtTo(k, w, start, c),
         NEW outs, \A c \in Core : c < start => outs[c] = outArr[c],
         \A c \in Core : c >= start /\ c < start + m =>
           outs[c] = [dq |-> DqTile(w, w.s1o + (c - start)), kv |-> KvTile(w)]
  PROVE  OutsAt(k, w, start + m, outs)
<1>1. start \in Nat /\ w.s1o \in Nat /\ S1Outer(launch, w.b) \in Nat /\ w.dqOutBase \in Int /\ w.kvOutBase \in Int
  BY OuterIs DEF Ready, WalkRec, InLaunch
<1>2. ASSUME NEW c \in Core, c < start + m
      PROVE  /\ outs[c].dq \in Int /\ outs[c].kv \in Int
             /\ IF k[c].b = w.b THEN outs[c].dq = w.dqOutBase + DqLine(k[c]) /\ outs[c].kv = w.kvOutBase + KvLine(k[c])
                                ELSE outs[c].dq < w.dqOutBase /\ outs[c].kv < w.kvOutBase
  <2>1. c \in Nat
    BY DEF Core
  <2>2. CASE c < start
    <3>1. k[c] = hand[c] /\ outs[c] = outArr[c]
      BY <1>2, <2>2 DEF DealtTo
    <3>2. QED
      BY <2>2, <3>1 DEF Ready, OutsAt
  <2>3. CASE ~(c < start)
    <3>1. c >= start /\ w.s1o + (c - start) < S1Outer(launch, w.b)
      BY <1>1, <1>2, <2>1, <2>3
    <3>2. DealtTo(k, w, start, c)
      BY <1>2
    <3>3. InLaunch(k[c]) /\ SameColumn(w, k[c]) /\ k[c].s1o = w.s1o + (c - start)
      BY <3>1, <3>2, NewBlock
    <3>4. /\ DqTile(w, k[c].s1o) = w.dqOutBase + DqLine(k[c]) /\ DqTile(w, k[c].s1o) \in Int
          /\ KvTile(w) = w.kvOutBase + KvLine(k[c]) /\ KvTile(w) \in Int
      BY <1>1, <3>3, TilesAre
    <3>5. outs[c].dq = DqTile(w, k[c].s1o) /\ outs[c].kv = KvTile(w)
      <4>1. PICK x, y : x = DqTile(w, w.s1o + (c - start)) /\ y = KvTile(w)
        OBVIOUS
      <4>2. outs[c] = [dq |-> x, kv |-> y]
        BY <1>2, <3>1, <4>1
      <4>3. QED
        BY <3>3, <4>1, <4>2
    <3>6. k[c].b = w.b
      BY <3>3 DEF SameColumn
    <3>7. QED
      BY <3>4, <3>5, <3>6
  <2>4. QED
    BY <2>2, <2>3
<1>3. QED
  BY <1>2 DEF OutsAt

LEMMA GroupsNext ==
  ASSUME launch' = launch, NEW rs, NEW h, NEW w, NEW start, NEW outs,
         rounds' = rs, hand' = h, walk' = w, w.startCoreId = start, outArr' = outs,
         GroupsAt(rs, h, start, WalkNo(w)), OutsAt(h, w, start, outs)
  PROVE  /\ GroupsAt(rounds, hand, walk.startCoreId, WalkNo(walk))'
         /\ OutsAt(hand, walk, walk.startCoreId, outArr)'
         /\ WalkNo(walk)' = WalkNo(w)
<1>1. \A b : BlocksOf(b)' = BlocksOf(b) /\ S1Outer(launch, b)' = S1Outer(launch, b) /\ S2Outer(launch, b)' = S2Outer(launch, b)
  BY DEF BlocksOf, S1Outer, S2Outer, RowsOf, KeysOf
<1>2. BlocksBefore' = BlocksBefore
  BY <1>1 DEF BlocksBefore
<1>3. \A z : Number(z)' = Number(z) /\ TopBlock(z)' = TopBlock(z)
  BY <1>1, <1>2 DEF Number, Line, TopBlock, TopRow
<1>4. WalkNo(w)' = WalkNo(w)
  BY <1>2, <1>3 DEF WalkNo
<1>5. \A r, c : Linked(r, c)' <=> Linked(r, c)
  BY <1>3 DEF Linked, DqLinked, KvLinked
<1>6. GroupsAt(rounds, hand, walk.startCoreId, WalkNo(walk))'
  BY <1>3, <1>4, <1>5 DEF GroupsAt, Counted, InOrder, LinkedRounds, LinkedHand
<1>7. \A z : DqLine(z)' = DqLine(z) /\ KvLine(z)' = KvLine(z)
  BY <1>1 DEF DqLine, KvLine
<1>8. QED
  BY <1>4, <1>6, <1>7 DEF OutsAt

LEMMA GroupsInit == BlocksInit => GroupsInv
<1> SUFFICES ASSUME BlocksInit PROVE GroupsInv
  OBVIOUS
<1>1. PairsInv
  BY PairsInvInit
<1>2. /\ rounds = <<>> /\ walk.startCoreId = 0 /\ walk.baseIdx = 0
      /\ walk.b = 0 /\ walk.n2 = 0 /\ walk.g = 0 /\ walk.s1o = 0 /\ walk.s2o = 0
      /\ launch \in LAUNCHES
  BY DEF BlocksInit
<1>3. \A c \in Core : c \in Nat /\ ~(c < 0)
  BY DEF Core
<1>4. HeldPlaces(rounds, 0) = {}
  BY <1>2, <1>3 DEF HeldPlaces
<1>5. GroupsAt(rounds, hand, 0, WalkNo(walk))
  BY <1>2, <1>3, <1>4 DEF GroupsAt, Counted, InOrder, LinkedRounds, LinkedHand
<1>6. OutsAt(hand, walk, 0, outArr)
  BY <1>3 DEF OutsAt
<1>7. WalkNo(walk) = 0
  <2>1. BlocksBefore[0] = 0
    BY BeforeIs
  <2>2. Batches(launch) >= 1 /\ Batches(launch) \in Nat
    BY <1>2, SequencesIs
  <2>3. PICK R \in Nat, S \in Nat, G \in Nat : R = S1Outer(launch, 0) /\ S = S2Outer(launch, 0) /\ G = launch.g
    BY <1>2, <2>2, OuterIs, SequencesIs
  <2>4. Line(walk) = 0
    BY <1>2, <2>3 DEF Line
  <2>5. Number(walk) = 0
    BY <1>2, <2>1, <2>3, <2>4 DEF Number
  <2>6. QED
    BY <1>2, <2>1, <2>5 DEF WalkNo
<1>8. QED
  BY <1>1, <1>2, <1>5, <1>6, <1>7 DEF GroupsInv

LEMMA EndGroups ==
  ASSUME GroupsInv, EndOfBlocks
  PROVE  GroupsInv'
<1>1. PairsInv /\ PairsInv'
  BY EndPairs DEF GroupsInv
<1>2. PICK first \in Core : first = walk.startCoreId /\ first \in Nat /\ first <= CORES
  <2>1. walk.startCoreId \in Core
    BY <1>1 DEF PairsInv, BlocksInv, WalkSound, WalkRec
  <2>2. QED
    BY <2>1, BlocksAssumption DEF Core
<1>3. PICK r : r = NoBlocksFrom(hand, first)
  OBVIOUS
<1>4. /\ r \in [Core -> BlockRec]
      /\ \A c \in Core : /\ c < first => r[c] = hand[c]
                         /\ ~(c < first) => r[c].blockId = NO_BLOCK
  BY <1>1, <1>3, NoBlocksIs DEF PairsInv, BlocksInv
<1>5. PICK rs, ss, k, v, outs, h : rs = rounds /\ ss = rounds' /\ k = hand' /\ v = walk' /\ outs = outArr' /\ h = hand
  OBVIOUS
<1>6. /\ ss = Append(rs, r) /\ v = [walk EXCEPT !.startCoreId = 0, !.baseIdx = -1] /\ launch' = launch
      /\ walk.b >= Batches(launch)
  BY <1>2, <1>3, <1>5 DEF EndOfBlocks, Deal, Restart
<1>7. /\ v.startCoreId = 0 /\ v.b = walk.b /\ v.n2 = walk.n2 /\ v.g = walk.g /\ v.s1o = walk.s1o /\ v.s2o = walk.s2o
      /\ v.baseIdx = -1
  BY <1>1, <1>6 DEF PairsInv, BlocksInv, WalkSound, WalkRec
<1>8. Kept(rs, r, ss, first)
  <2>1. ASSUME NEW c \in Core PROVE r[c].blockId # NO_BLOCK <=> c < first
    <3>1. hand[c].blockId >= 0 /\ hand[c].blockId \in Int
      BY <1>1 DEF PairsInv, BlocksInv, EndOfBlocks, Planned, Numbered, BlockRec
    <3>2. QED
      BY <1>4, <3>1 DEF NO_BLOCK
  <2>2. rs \in Seq([Core -> BlockRec])
    BY <1>1, <1>5 DEF PairsInv, BlocksInv
  <2>3. QED
    BY <1>2, <1>4, <1>6, <2>1, <2>2 DEF Kept
<1>9. CASE launch.dtm
  <2>1. WalkNo(v) = WalkNo(walk)
    BY <1>7 DEF WalkNo, Number, Line
  <2>2. GroupsAt(rs, h, first, WalkNo(v))
    BY <1>2, <1>5, <1>9, <2>1 DEF GroupsInv
  <2>3. \A c \in Core : c < first => r[c] = h[c]
    BY <1>4, <1>5
  <2>4. PICK upto : upto = WalkNo(v)
    OBVIOUS
  <2>5. GroupsAt(ss, k, 0, upto)
    BY <1>8, <2>2, <2>3, <2>4, KeptGroups
  <2>6. OutsAt(k, v, 0, outs)
    <3>1. \A c \in Core : ~(c < 0)
      BY DEF Core
    <3>2. QED
      BY <3>1 DEF OutsAt
  <2>7. /\ GroupsAt(rounds, hand, walk.startCoreId, WalkNo(walk))'
        /\ OutsAt(hand, walk, walk.startCoreId, outArr)'
    BY <1>5, <1>6, <1>7, <2>4, <2>5, <2>6, GroupsNext
  <2>8. Planned'
    BY <1>5, <1>7 DEF Planned
  <2>9. QED
    BY <1>1, <2>7, <2>8 DEF GroupsInv
<1>10. CASE ~launch.dtm
  BY <1>1, <1>6, <1>10 DEF GroupsInv
<1>11. QED
  BY <1>9, <1>10

LEMMA HeldIn ==
  ASSUME PairsInv, NEW x \in HeldPlaces(rounds, walk.startCoreId)
  PROVE  InLaunch(HeldBlock(rounds, hand, x)) /\ HeldBlock(rounds, hand, x).b <= walk.b
<1>1. PICK z : z = HeldBlock(rounds, hand, x)
  OBVIOUS
<1>2. InLaunch(z) /\ WalkedBy(walk, z)
  BY <1>1 DEF PairsInv, PairsSound, WholeBlocks, Whole
<1>3. z.b \in Nat /\ walk.b \in Nat
  BY <1>2 DEF InLaunch, PairsInv, BlocksInv, WalkSound, WalkRec
<1>4. z.b < walk.b \/ z.b = walk.b
  BY <1>2 DEF WalkedBy, SameColumn
<1>5. QED
  BY <1>1, <1>2, <1>3, <1>4

LEMMA SkipGroups ==
  ASSUME GroupsInv, SkipColumn
  PROVE  GroupsInv'
<1>1. PairsInv /\ PairsInv'
  BY SkipPairs DEF GroupsInv
<1>2. /\ walk \in WalkRec /\ walk.b \in Nat /\ walk.b < Batches(launch) /\ walk.baseIdx \in Int /\ walk.baseIdx # -1
      /\ walk.s1o \in Nat /\ walk.s1o <= S1Outer(launch, walk.b) /\ AtColumn(walk) /\ launch \in LAUNCHES
      /\ BeyondRows(walk) \/ BelowWindow(walk)
  BY <1>1 DEF PairsInv, BlocksInv, WalkSound, WalkRec, AtColumn, SkipColumn
<1>3. PICK keys \in Nat, outer \in Nat : keys = KeysOf(launch, walk.b) /\ outer = S1Outer(launch, walk.b)
  BY <1>2, SequencesIs, OuterIs
<1>4. (BeyondRows(walk) => keys > 0) <=> keys > 0
  BY <1>3 DEF BeyondRows
<1>5. PICK base \in Int : base = IF keys > 0 THEN walk.baseIdx + outer - walk.s1o ELSE walk.baseIdx
  BY <1>2
<1>6. PICK w : w = [walk EXCEPT !.baseIdx = base]
  OBVIOUS
<1>7. /\ w \in WalkRec /\ w.b = walk.b /\ w.n2 = walk.n2 /\ w.g = walk.g /\ w.s1o = walk.s1o /\ w.s2o = walk.s2o
      /\ w.startCoreId = walk.startCoreId /\ w.baseIdx = base
      /\ w.dqOutBase = walk.dqOutBase /\ w.kvOutBase = walk.kvOutBase
  BY <1>2, <1>6 DEF WalkRec
<1>8. AtColumn(w)
  BY <1>2, <1>7 DEF AtColumn
<1>9. walk' = UpdateIndex(w) /\ UNCHANGED <<launch, hand, outArr, rounds>>
  BY <1>3, <1>4, <1>5, <1>6 DEF SkipColumn
<1>10. PICK v : v = walk' /\ v = UpdateIndex(w) /\ v.startCoreId = walk.startCoreId /\ v.baseIdx = base
  BY <1>2, <1>7, <1>8, <1>9, UpdateIs
<1>11. CASE launch.dtm
  <2>1. WalkNo(w) = WalkNo(walk) /\ walk.baseIdx = WalkNo(walk)
    BY <1>2, <1>7, <1>11 DEF WalkNo, Number, Line, GroupsInv, Planned
  <2>2. WalkNo(w) \in Nat /\ WalkNo(v) = IF keys > 0 THEN WalkNo(w) + (outer - w.s1o) ELSE WalkNo(w)
    BY <1>2, <1>3, <1>7, <1>8, <1>10, <1>11, WalkMoves
  <2>3. PICK was \in Nat, now \in Nat : was = WalkNo(walk) /\ now = WalkNo(v) /\ was <= now /\ now = base
    BY <1>2, <1>3, <1>5, <1>7, <2>1, <2>2
  <2>4. PICK rs, h, start, outs : rs = rounds /\ h = hand /\ start = walk.startCoreId /\ outs = outArr
    OBVIOUS
  <2>5. GroupsAt(rs, h, start, was) /\ OutsAt(h, walk, start, outs)
    BY <1>11, <2>3, <2>4 DEF GroupsInv
  <2>6. \A x \in HeldPlaces(rs, start) : InLaunch(HeldBlock(rs, h, x)) /\ HeldBlock(rs, h, x).b <= w.b
    BY <1>1, <1>7, <2>4, HeldIn
  <2>7. GroupsAt(rs, h, start, now)
    BY <1>2, <2>3, <2>5, <2>6, GroupsGrow
  <2>8. OutsAt(h, w, start, outs)
    BY <1>7, <2>5 DEF OutsAt
  <2>9. \A c \in Core : c < start => InLaunch(h[c]) /\ h[c].b <= w.b
    <3>1. Len(rs) \in Nat
      BY <1>1, <2>4 DEF PairsInv, BlocksInv
    <3>2. ASSUME NEW c \in Core, c < start PROVE InLaunch(h[c]) /\ h[c].b <= w.b
      <4>1. <<Len(rs), c>> \in HeldPlaces(rs, start) /\ HeldBlock(rs, h, <<Len(rs), c>>) = h[c]
        BY <3>1, <3>2, HandHeld
      <4>2. QED
        BY <2>6, <4>1
    <3>3. QED
      BY <3>2
  <2>10. OutsAt(h, v, start, outs)
    BY <1>2, <1>7, <1>10, <2>8, <2>9, OutsMove
  <2>11. /\ GroupsAt(rounds, hand, walk.startCoreId, WalkNo(walk))'
         /\ OutsAt(hand, walk, walk.startCoreId, outArr)'
         /\ WalkNo(walk)' = WalkNo(v)
    <3>1. rounds' = rs /\ hand' = h /\ walk' = v /\ v.startCoreId = start /\ outArr' = outs /\ launch' = launch
      BY <1>9, <1>10, <2>4
    <3>2. QED
      BY <2>3, <2>7, <2>10, <3>1, GroupsNext
  <2>12. walk'.baseIdx = WalkNo(walk)'
    BY <1>10, <2>3, <2>11
  <2>13. QED
    BY <1>1, <2>11, <2>12 DEF GroupsInv
<1>12. CASE ~launch.dtm
  BY <1>1, <1>9, <1>12 DEF GroupsInv
<1>13. QED
  BY <1>11, <1>12

(* What holds when the walk deals out the blocks from w on. *)
LEMMA DealReady ==
  ASSUME GroupsInv, launch.dtm, DealBlocks, NEW w, w = AtTop(walk), NEW start, start = walk.startCoreId
  PROVE  /\ Ready(w, start) /\ w.baseIdx = Number(w) /\ Number(w) \in Nat /\ AtColumn(w)
         /\ \A x \in HeldPlaces(rounds, start) : InLaunch(HeldBlock(rounds, hand, x)) /\ HeldBlock(rounds, hand, x).b <= w.b
         /\ GroupsAt(rounds, hand, start, Number(w))
<1>1. /\ PairsInv /\ launch \in LAUNCHES /\ WalkSound(walk) /\ walk.baseIdx # -1 /\ walk.b < Batches(launch)
      /\ ~BeyondRows(walk) /\ ~BelowWindow(walk) /\ AtColumn(walk) /\ walk \in WalkRec /\ Len(rounds) \in Nat
      /\ start \in Nat /\ walk.baseIdx \in Int
  BY DEF GroupsInv, PairsInv, BlocksInv, DealBlocks, WalkSound, WalkRec, Core
<1>2. /\ w \in WalkRec /\ w.b = walk.b /\ w.n2 = walk.n2 /\ w.g = walk.g /\ w.s2o = walk.s2o
      /\ w.startCoreId = walk.startCoreId
      /\ w.baseIdx >= 0 /\ w.s1o >= TopBlock(w) /\ w.s1o <= BottomBlock(w) /\ BottomBlock(w) \in Int
      /\ BottomBlock(w) < S1Outer(launch, w.b) /\ ~BeyondRows(w) /\ AtColumn(w)
  BY <1>1, AtTopIs
<1>3. /\ w.dqOutBase = walk.dqOutBase /\ w.kvOutBase = walk.kvOutBase
      /\ w.baseIdx = walk.baseIdx + (w.s1o - walk.s1o) /\ w.s1o >= walk.s1o
      /\ walk.s1o < S1Outer(launch, walk.b) /\ w.s1o \in Nat /\ walk.s1o \in Nat /\ TopBlock(w) \in Nat
  BY <1>1, AtTopMoves
<1>4. InLaunch(walk)
  BY <1>1, <1>3, InLaunchAt
<1>5. InLaunch(w)
  <2>1. S1Outer(launch, w.b) \in Nat
    BY <1>1, <1>2, OuterIs DEF WalkRec
  <2>2. w.s1o < S1Outer(launch, w.b)
    BY <1>2, <1>3, <2>1
  <2>3. QED
    BY <1>1, <1>2, <2>2, InLaunchAt
<1>6. walk.baseIdx = Number(walk) /\ Number(walk) \in Nat
  BY <1>1, <1>4, WalkNoIs DEF GroupsInv, Planned
<1>7. Number(w) = Number(walk) + (w.s1o - walk.s1o)
  BY <1>1, <1>2, <1>3, <1>4, NumberMoves DEF SameColumn
<1>8. w.baseIdx = Number(w) /\ Number(w) \in Nat /\ Number(walk) <= Number(w)
  BY <1>3, <1>6, <1>7
<1>9. \A x \in HeldPlaces(rounds, start) : InLaunch(HeldBlock(rounds, hand, x)) /\ HeldBlock(rounds, hand, x).b <= w.b
  BY <1>1, <1>2, HeldIn
<1>10. GroupsAt(rounds, hand, start, Number(w))
  <2>1. GroupsAt(rounds, hand, start, Number(walk))
    BY <1>1, <1>4, WalkNoIs DEF GroupsInv
  <2>2. PICK a \in Nat, b \in Nat : a = Number(walk) /\ b = Number(w) /\ a <= b
    BY <1>6, <1>8
  <2>3. QED
    BY <1>1, <1>9, <2>1, <2>2, GroupsGrow
<1>11. OutsAt(hand, w, start, outArr)
  <2>1. OutsAt(hand, walk, start, outArr)
    BY DEF GroupsInv
  <2>2. QED
    BY <1>2, <1>3, <2>1 DEF OutsAt
<1>12. ASSUME NEW c \in Core, c < start
       PROVE  /\ InLaunch(hand[c]) /\ TopBlock(hand[c]) <= hand[c].s1o /\ Number(hand[c]) < Number(w) /\ Linked(hand, c)
              /\ <<Len(rounds), c>> \in HeldPlaces(rounds, start) /\ HeldBlock(rounds, hand, <<Len(rounds), c>>) = hand[c]
  <2>1. <<Len(rounds), c>> \in HeldPlaces(rounds, start) /\ HeldBlock(rounds, hand, <<Len(rounds), c>>) = hand[c]
    BY <1>1, <1>12, HandHeld
  <2>2. QED
    BY <1>9, <1>10, <1>12, <2>1 DEF GroupsAt, Counted, LinkedHand
<1>13. ASSUME NEW c \in Core, NEW d \in Core, c < d, d < start
       PROVE  Number(hand[c]) < Number(hand[d])
  <2>1. c < start
    BY <1>1, <1>13 DEF Core
  <2>2. PICK x \in HeldPlaces(rounds, start), y \in HeldPlaces(rounds, start) :
          /\ x = <<Len(rounds), c>> /\ HeldBlock(rounds, hand, x) = hand[c]
          /\ y = <<Len(rounds), d>> /\ HeldBlock(rounds, hand, y) = hand[d]
    BY <1>12, <1>13, <2>1
  <2>3. Before(x, y)
    BY <1>13, <2>2 DEF Before
  <2>4. QED
    BY <1>10, <2>2, <2>3 DEF GroupsAt, InOrder
<1>14. Ready(w, start)
  BY <1>1, <1>2, <1>3, <1>5, <1>11, <1>12, <1>13 DEF Ready
<1>15. QED
  BY <1>2, <1>8, <1>9, <1>10, <1>14

(* The walk goes on behind the blocks it has dealt out. *)
LEMMA AfterDeal ==
  ASSUME launch \in LAUNCHES, launch.dtm, NEW w \in WalkRec, InLaunch(w), AtColumn(w),
         NEW u \in WalkRec, SameColumn(w, u), u.s1o = w.s1o, NEW v, v = UpdateIndex(u)
  PROVE  WalkNo(v) = Number(w) + (S1Outer(launch, w.b) - w.s1o)
<1>1. u.b = w.b /\ u.n2 = w.n2 /\ u.g = w.g /\ u.s2o = w.s2o /\ w.b < Batches(launch)
  BY DEF SameColumn, InLaunch
<1>2. AtColumn(u) /\ WalkNo(u) = WalkNo(w)
  BY <1>1 DEF AtColumn, WalkNo, Number, Line
<1>3. KeysOf(launch, w.b) > 0
  <2>1. PICK S \in Nat \ {0}, keys \in Nat : S = S2Outer(launch, w.b) /\ keys = KeysOf(launch, w.b) /\ (S - 1) * S2_INNER < keys
    BY OuterIs, SequencesIs DEF InLaunch
  <2>2. S2_INNER \in Nat /\ S - 1 \in Nat
    BY <2>1, BlocksAssumption
  <2>3. (S - 1) * S2_INNER \in Nat
    BY <2>2
  <2>4. QED
    BY <2>1, <2>3
<1>4. WalkNo(v) = WalkNo(u) + (S1Outer(launch, u.b) - u.s1o)
  BY <1>1, <1>2, <1>3, WalkMoves
<1>5. QED
  BY <1>1, <1>2, <1>4, WalkNoIs

LEMMA DealKeepsGroups ==
  ASSUME GroupsInv, DealBlocks
  PROVE  GroupsInv'
<1>1. PairsInv /\ PairsInv' /\ launch' = launch
  BY DealPairs DEF GroupsInv, DealBlocks
<1>2. CASE ~launch.dtm
  BY <1>1, <1>2 DEF GroupsInv
<1>3. CASE launch.dtm
  <2>1. PICK w : w = AtTop(walk)
    OBVIOUS
  <2>2. /\ launch \in LAUNCHES /\ WalkSound(walk) /\ walk.baseIdx # -1 /\ walk.b < Batches(launch)
        /\ ~BeyondRows(walk) /\ ~BelowWindow(walk) /\ BlocksInv
    BY <1>1 DEF PairsInv, BlocksInv, DealBlocks
  <2>3. /\ w \in WalkRec /\ w.startCoreId = walk.startCoreId /\ w.b < Batches(launch) /\ BottomBlock(w) \in Int
    BY <2>1, <2>2, AtTopIs
  <2>4. PICK start \in Core, s \in Nat, outer \in Nat, validNum \in Nat, free \in Nat, dealt \in [Core -> BlockRec] :
        /\ Dealing(w, start, s, outer, validNum, free, dealt)
        /\ DealtNext(w, validNum, free, dealt)
    BY <2>1, <2>2, DealtOut
  <2>5. /\ start = w.startCoreId /\ start \in Nat /\ start < CORES /\ s = w.s1o /\ outer = S1Outer(launch, w.b)
        /\ validNum = (BottomBlock(w) - w.s1o) + 1 /\ validNum > 0 /\ s + validNum <= outer
        /\ free = CORES - w.startCoreId /\ free > 0 /\ CORES \in Nat
        /\ Numbered(dealt)
        /\ \A c \in Core : c < start => dealt[c] = hand[c]
        /\ \A c \in Core : c >= start /\ c < start + validNum =>
             DealtAt(dealt[c], w, s + (c - start)) /\ Labelled(dealt[c], w, c, s + (c - start))
    BY <1>3, <2>4, BlocksAssumption DEF Dealing
  <2>6. /\ Ready(w, start) /\ w.baseIdx = Number(w) /\ AtColumn(w)
        /\ \A x \in HeldPlaces(rounds, start) : InLaunch(HeldBlock(rounds, hand, x)) /\ HeldBlock(rounds, hand, x).b <= w.b
        /\ GroupsAt(rounds, hand, start, Number(w))
    BY <1>3, <2>1, <2>3, <2>5, DealReady
  <2>7. PICK no \in Nat : no = Number(w)
    BY <1>3, <2>1, <2>3, <2>5, DealReady
  <2>8. InLaunch(w)
    BY <2>6 DEF Ready
  <2>9. PICK rs, v, k, outs : rs = rounds /\ v = walk' /\ k = hand' /\ outs = outArr'
    OBVIOUS
  <2>10. rs \in Seq([Core -> BlockRec]) /\ Len(rs) \in Nat
    BY <2>2, <2>9 DEF BlocksInv
  <2>11. ASSUME NEW m \in Nat, m <= validNum, start + m <= CORES
         PROVE  /\ GroupsAt(rs, dealt, start + m, no + m)
                /\ \A c \in Core : c < start + m => DealtTo(dealt, w, start, c)
    <3>1. \A c \in Core : c \in Nat
      BY DEF Core
    <3>2. \A c \in Core : c < start + m => c < start + validNum
      BY <2>5, <2>11, <3>1
    <3>3. ASSUME NEW c \in Core, c < start + m PROVE DealtTo(dealt, w, start, c)
      <4>1. \A d \in Core : d >= start /\ d <= c => d < start + validNum
        BY <2>5, <3>1, <3>2, <3>3
      <4>2. QED
        BY <2>5, <4>1 DEF DealtTo
    <3>4. w.s1o + m <= S1Outer(launch, w.b)
      BY <2>5, <2>11
    <3>5. GroupsAt(rs, dealt, start + m, Number(w) + m)
      BY <2>2, <2>5, <2>6, <2>9, <2>10, <2>11, <3>3, <3>4, DealGroups
    <3>6. QED
      BY <2>7, <3>3, <3>5
  <2>12. CASE /\ free <= validNum /\ Deal(dealt)
              /\ LET u == Restart([w EXCEPT !.baseIdx = w.baseIdx + free], FALSE)
                 IN walk' = IF u.s1o + free < S1Outer(launch, u.b)
                            THEN [u EXCEPT !.s1o = u.s1o + free] ELSE UpdateIndex(u)
    <3>1. PICK u : u = Restart([w EXCEPT !.baseIdx = w.baseIdx + free], FALSE)
      OBVIOUS
    <3>2. /\ u \in WalkRec /\ u.startCoreId = 0 /\ u.baseIdx = no + free /\ u.b = w.b /\ u.s1o = w.s1o
          /\ u.n2 = w.n2 /\ u.g = w.g /\ u.s2o = w.s2o
      <4>1. PICK base \in Int : base = w.baseIdx + free /\ base = no + free
        BY <2>6, <2>7
      <4>2. PICK x : x = [w EXCEPT !.baseIdx = base] /\ u = [x EXCEPT !.startCoreId = 0, !.baseIdx = x.baseIdx]
        BY <3>1, <4>1 DEF Restart
      <4>3. x \in WalkRec /\ x.baseIdx = base /\ x.b = w.b /\ x.s1o = w.s1o /\ x.n2 = w.n2 /\ x.g = w.g /\ x.s2o = w.s2o
        BY <2>3, <4>1, <4>2 DEF WalkRec
      <4>4. 0 \in Core
        BY BlocksAssumption DEF Core
      <4>5. QED
        BY <4>1, <4>2, <4>3, <4>4 DEF WalkRec
    <3>3. v = IF s + free < outer THEN [u EXCEPT !.s1o = s + free] ELSE UpdateIndex(u)
      BY <2>5, <2>9, <2>12, <3>1, <3>2
    <3>4. SameColumn(w, u) /\ AtColumn(u)
      BY <2>6, <3>2 DEF SameColumn, AtColumn
    <3>5. v.startCoreId = 0 /\ v.baseIdx = no + free /\ WalkNo(v) = no + free
      <4>1. CASE s + free < outer
        <5>1. PICK to \in Nat : to = s + free
          OBVIOUS
        <5>2. v = [u EXCEPT !.s1o = to]
          BY <3>3, <4>1, <5>1
        <5>3. /\ v.s1o = to /\ v.b = w.b /\ v.n2 = w.n2 /\ v.g = w.g /\ v.s2o = w.s2o
              /\ v.startCoreId = 0 /\ v.baseIdx = no + free
          BY <3>2, <5>2 DEF WalkRec
        <5>4. InLaunch(v) /\ SameColumn(w, v)
          BY <2>5, <2>8, <4>1, <5>1, <5>3 DEF InLaunch, SameColumn
        <5>5. Number(v) = Number(w) + (to - s)
          BY <2>2, <2>5, <2>8, <5>1, <5>3, <5>4, NumberMoves
        <5>6. WalkNo(v) = Number(v)
          BY <2>2, <5>4, WalkNoIs
        <5>7. QED
          BY <2>7, <5>1, <5>3, <5>5, <5>6
      <4>2. CASE ~(s + free < outer)
        <5>1. v = UpdateIndex(u)
          BY <3>3, <4>2
        <5>2. WalkNo(v) = Number(w) + (outer - s)
          BY <1>3, <2>2, <2>3, <2>5, <2>6, <2>8, <3>2, <3>4, <5>1, AfterDeal
        <5>3. free = outer - s
          BY <2>5, <2>12, <4>2
        <5>4. v.startCoreId = 0 /\ v.baseIdx = no + free
          BY <2>2, <2>3, <3>2, <3>4, <5>1, UpdateIs
        <5>5. QED
          BY <2>7, <5>2, <5>3, <5>4
      <4>3. QED
        BY <4>1, <4>2
    <3>6. PICK upto \in Nat : upto = no + free
      OBVIOUS
    <3>7. GroupsAt(rs, dealt, CORES, upto)
      <4>1. start + free = CORES /\ free <= validNum /\ start + free <= CORES
        BY <2>5, <2>12
      <4>2. GroupsAt(rs, dealt, start + free, no + free)
        BY <2>11, <4>1
      <4>3. QED
        BY <3>6, <4>1, <4>2, Zenon
    <3>8. PICK ss : ss = rounds' /\ ss = Append(rs, dealt)
      BY <2>9, <2>12 DEF Deal
    <3>9. Kept(rs, dealt, ss, CORES)
      <4>1. \A c \in Core : dealt[c].blockId # NO_BLOCK /\ c < CORES
        BY <2>5, BlocksAssumption DEF Numbered, NO_BLOCK, Core
      <4>2. QED
        BY <2>5, <2>10, <3>8, <4>1 DEF Kept
    <3>10. GroupsAt(ss, k, 0, upto)
      BY <3>7, <3>9, KeptGroups
    <3>11. OutsAt(k, v, 0, outs)
      <4>1. \A c \in Core : ~(c < 0)
        BY DEF Core
      <4>2. QED
        BY <4>1 DEF OutsAt
    <3>12. /\ GroupsAt(rounds, hand, walk.startCoreId, WalkNo(walk))'
           /\ OutsAt(hand, walk, walk.startCoreId, outArr)'
           /\ WalkNo(walk)' = WalkNo(v)
      <4>1. GroupsAt(ss, k, 0, WalkNo(v))
        BY <3>5, <3>6, <3>10
      <4>2. rounds' = ss /\ hand' = k /\ walk' = v /\ v.startCoreId = 0 /\ outArr' = outs
        BY <2>9, <3>5, <3>8
      <4>3. QED
        BY <1>1, <3>11, <4>1, <4>2, GroupsNext
    <3>13. QED
      BY <1>1, <2>9, <3>5, <3>12 DEF GroupsInv
  <2>13. CASE /\ free > validNum /\ hand' = dealt
              /\ walk' = UpdateIndex([w EXCEPT !.baseIdx = w.baseIdx + (S1Outer(launch, w.b) - w.s1o),
                                               !.startCoreId = w.startCoreId + validNum])
              /\ UNCHANGED rounds
    <3>1. PICK u : u = [w EXCEPT !.baseIdx = w.baseIdx + (S1Outer(launch, w.b) - w.s1o), !.startCoreId = w.startCoreId + validNum]
      OBVIOUS
    <3>2. PICK base \in Nat : base = no + (outer - s)
      BY <2>5
    <3>3. PICK next \in Core : next = start + validNum /\ next <= CORES
      <4>1. start + validNum \in Nat /\ start + validNum < CORES
        BY <2>5, <2>13, SMTT(30)
      <4>2. start + validNum \in Core
        BY <4>1, BlocksAssumption DEF Core
      <4>3. QED
        BY <2>5, <4>1, <4>2
    <3>4. /\ u \in WalkRec /\ u.startCoreId = next /\ u.baseIdx = base /\ u.b = w.b
          /\ u.n2 = w.n2 /\ u.g = w.g /\ u.s2o = w.s2o /\ u.s1o = w.s1o
          /\ u.dqOutBase = w.dqOutBase /\ u.kvOutBase = w.kvOutBase
      <4>1. u = [w EXCEPT !.baseIdx = base, !.startCoreId = next]
        BY <2>5, <2>6, <2>7, <3>1, <3>2, <3>3
      <4>2. PICK x \in Int : x = base
        BY <3>2
      <4>3. u = [w EXCEPT !.baseIdx = x, !.startCoreId = next]
        BY <4>1, <4>2
      <4>4. u \in WalkRec /\ u.startCoreId = next /\ u.baseIdx = x
        BY <2>3, <4>3 DEF WalkRec
      <4>5. /\ u.b = w.b /\ u.n2 = w.n2 /\ u.g = w.g /\ u.s2o = w.s2o /\ u.s1o = w.s1o
            /\ u.dqOutBase = w.dqOutBase /\ u.kvOutBase = w.kvOutBase
        BY <2>3, <4>3 DEF WalkRec
      <4>6. QED
        BY <4>2, <4>4, <4>5
    <3>5. SameColumn(w, u) /\ AtColumn(u)
      BY <2>6, <3>4 DEF SameColumn, AtColumn
    <3>6. v = UpdateIndex(u)
      BY <2>9, <2>13, <3>1
    <3>7. v.startCoreId = next /\ v.baseIdx = base
      BY <2>2, <2>3, <3>4, <3>5, <3>6, UpdateIs
    <3>8. WalkNo(v) = base
      <4>1. WalkNo(v) = Number(w) + (S1Outer(launch, w.b) - w.s1o)
        BY <1>3, <2>2, <2>3, <2>6, <2>8, <3>4, <3>5, <3>6, AfterDeal
      <4>2. QED
        BY <2>5, <2>7, <3>2, <4>1
    <3>9. /\ GroupsAt(rs, dealt, next, no + validNum)
          /\ \A c \in Core : c < next => DealtTo(dealt, w, start, c)
      <4>1. validNum <= validNum /\ start + validNum <= CORES
        BY <2>5, <3>3
      <4>2. QED
        BY <2>11, <3>3, <4>1
    <3>10. ASSUME NEW c \in Core, c < next
           PROVE  InLaunch(dealt[c]) /\ dealt[c].b <= w.b
      <4>1. c \in Nat /\ w.b \in Nat
        BY <2>3 DEF Core, WalkRec
      <4>2. CASE c < start
        <5>1. <<Len(rs), c>> \in HeldPlaces(rs, start) /\ HeldBlock(rs, hand, <<Len(rs), c>>) = hand[c]
          BY <2>10, <4>2, HandHeld
        <5>2. QED
          BY <2>5, <2>6, <2>9, <4>2, <5>1
      <4>3. CASE ~(c < start)
        <5>1. c >= start /\ w.s1o + (c - start) < S1Outer(launch, w.b)
          BY <2>5, <3>3, <3>10, <4>1, <4>3
        <5>2. InLaunch(dealt[c]) /\ SameColumn(w, dealt[c])
          BY <2>2, <2>6, <3>9, <3>10, <5>1, NewBlock
        <5>3. QED
          BY <4>1, <5>2 DEF SameColumn
      <4>4. QED
        BY <4>2, <4>3
    <3>11. ASSUME NEW x \in HeldPlaces(rs, next) PROVE InLaunch(HeldBlock(rs, dealt, x))
      <4>1. PICK t \in Nat, c \in Core : t = x[1] /\ c = x[2]
        BY <3>11 DEF HeldPlaces
      <4>2. CASE t < Len(rs)
        <5>1. x \in HeldPlaces(rs, start) /\ HeldBlock(rs, dealt, x) = HeldBlock(rs, hand, x)
          BY <3>11, <4>1, <4>2 DEF HeldPlaces, HeldBlock
        <5>2. QED
          BY <2>6, <2>9, <5>1
      <4>3. CASE ~(t < Len(rs))
        <5>1. c < next /\ HeldBlock(rs, dealt, x) = dealt[c]
          BY <3>11, <4>1, <4>3 DEF HeldPlaces, HeldBlock
        <5>2. QED
          BY <3>10, <5>1
      <4>4. QED
        BY <4>2, <4>3
    <3>12. GroupsAt(rs, dealt, next, base)
      <4>1. PICK a \in Nat : a = no + validNum /\ a <= base
        BY <2>5, <3>2
      <4>2. QED
        BY <2>2, <3>9, <3>11, <4>1, GroupsGrow
    <3>13. OutsAt(dealt, w, next, outs)
      <4>1. ASSUME NEW c \in Core
            PROVE  /\ c < start => outs[c] = outArr[c]
                   /\ c >= start /\ c < next => outs[c] = [dq |-> DqTile(w, w.s1o + (c - start)), kv |-> KvTile(w)]
        <5>1. c \in Nat
          BY DEF Core
        <5>2. outs[c] = IF c >= w.startCoreId /\ c - w.startCoreId < BottomBlock(w) - w.s1o + 1 /\ launch.dtm
                        THEN [dq |-> DqTile(w, w.s1o + c - w.startCoreId), kv |-> KvTile(w)] ELSE outArr[c]
          BY <2>1, <2>9 DEF DealBlocks
        <5>3. c - start < validNum <=> c - w.startCoreId < BottomBlock(w) - w.s1o + 1
          BY <2>3, <2>5
        <5>4. c < next <=> c - start < validNum
          BY <2>5, <3>3, <5>1
        <5>5. w.s1o + c - w.startCoreId = w.s1o + (c - start)
          BY <2>5, <5>1
        <5>6. c < start => ~(c >= start)
          BY <2>5, <5>1
        <5>7. QED
          BY <1>3, <2>5, <5>2, <5>3, <5>4, <5>5, <5>6
      <4>2. w.s1o + validNum <= S1Outer(launch, w.b)
        BY <2>5
      <4>3. OutsAt(dealt, w, start + validNum, outs)
        BY <2>2, <2>6, <3>3, <3>9, <4>1, <4>2, OutsDealt
      <4>4. QED
        BY <3>3, <4>3
    <3>14. OutsAt(dealt, u, next, outs)
      BY <3>4, <3>13 DEF OutsAt
    <3>15. OutsAt(dealt, v, next, outs)
      <4>1. u.b < Batches(launch) /\ \A c \in Core : c < next => InLaunch(dealt[c]) /\ dealt[c].b <= u.b
        BY <2>3, <3>4, <3>10
      <4>2. QED
        BY <2>2, <3>4, <3>6, <3>14, <4>1, OutsMove
    <3>16. /\ GroupsAt(rounds, hand, walk.startCoreId, WalkNo(walk))'
           /\ OutsAt(hand, walk, walk.startCoreId, outArr)'
           /\ WalkNo(walk)' = WalkNo(v)
      <4>1. GroupsAt(rs, dealt, next, WalkNo(v))
        BY <3>8, <3>12
      <4>2. rounds' = rs /\ hand' = dealt /\ walk' = v /\ v.startCoreId = next /\ outArr' = outs
        BY <2>9, <2>13, <3>7
      <4>3. QED
        BY <1>1, <3>15, <4>1, <4>2, GroupsNext
    <3>17. QED
      BY <1>1, <2>9, <3>7, <3>8, <3>16 DEF GroupsInv
  <2>14. QED
    BY <2>4, <2>12, <2>13 DEF DealtNext
<1>4. QED
  BY <1>2, <1>3

LEMMA GroupsInvStep == GroupsInv /\ [CalcValidBlock]_blockVars => GroupsInv'
<1> SUFFICES ASSUME GroupsInv, [CalcValidBlock]_blockVars PROVE GroupsInv'
  OBVIOUS
<1>1. CASE UNCHANGED blockVars
  <2>1. launch' = launch /\ walk' = walk /\ hand' = hand /\ rounds' = rounds /\ outArr' = outArr
    BY <1>1 DEF blockVars
  <2>2. PairsInv'
    BY PairsInvStep DEF GroupsInv
  <2>3. PICK rs, h, w, start, outs : rs = rounds /\ h = hand /\ w = walk /\ start = walk.startCoreId /\ outs = outArr
    OBVIOUS
  <2>4. CASE launch.dtm
    <3>1. GroupsAt(rs, h, start, WalkNo(w)) /\ OutsAt(h, w, start, outs)
      BY <2>3, <2>4 DEF GroupsInv
    <3>2. rounds' = rs /\ hand' = h /\ walk' = w /\ w.startCoreId = start /\ outArr' = outs
      BY <2>1, <2>3
    <3>3. /\ GroupsAt(rounds, hand, walk.startCoreId, WalkNo(walk))'
          /\ OutsAt(hand, walk, walk.startCoreId, outArr)'
          /\ WalkNo(walk)' = WalkNo(w)
      BY <2>1, <3>1, <3>2, GroupsNext
    <3>4. QED
      BY <2>1, <2>2, <2>3, <2>4, <3>3 DEF GroupsInv, Planned
  <2>5. CASE ~launch.dtm
    BY <2>1, <2>2, <2>5 DEF GroupsInv
  <2>6. QED
    BY <2>4, <2>5
<1>2. QED
  BY <1>1, EndGroups, SkipGroups, DealKeepsGroups DEF CalcValidBlock
-----------------------------------------------------------------------------
(* What the invariant says of a plan.                                        *)
LEMMA LongestIs ==
  ASSUME launch \in LAUNCHES, NEW b \in Nat, b < Batches(launch)
  PROVE  /\ MaxLen(launch.q) \in Nat /\ RowsOf(launch, b) <= MaxLen(launch.q)
         /\ MaxLen(launch.k) \in Nat /\ KeysOf(launch, b) <= MaxLen(launch.k)
<1>1. /\ launch.q \in Seq(Nat) /\ launch.k \in Seq(Nat) /\ Len(launch.q) = Len(launch.k) /\ UNBOUNDED \in Nat
      /\ \A i \in DOMAIN launch.q : launch.q[i] <= UNBOUNDED /\ launch.k[i] <= UNBOUNDED
  BY BlocksAssumption
<1>2. PICK q \in Seq(Nat), k \in Seq(Nat) : q = launch.q /\ k = launch.k
  BY <1>1
<1>3. b + 1 \in DOMAIN q /\ DOMAIN q = DOMAIN k
  BY <1>1, <1>2, SequencesIs
<1>4. ASSUME NEW s \in Seq(Nat), b + 1 \in DOMAIN s, \A i \in DOMAIN s : s[i] <= UNBOUNDED
      PROVE  MaxLen(s) \in Nat /\ s[b + 1] <= MaxLen(s)
  <2>1. PICK T : T = {s[i] : i \in DOMAIN s}
    OBVIOUS
  <2>2. T \in SUBSET (0 .. UNBOUNDED) /\ s[b + 1] \in T
    <3>1. \A i \in DOMAIN s : s[i] \in Nat
      OBVIOUS
    <3>2. QED
      BY <1>1, <1>4, <2>1, <3>1
  <2>3. Max(T) \in T /\ \A m \in T : Max(T) >= m
    BY <1>1, <2>2, MaxOf
  <2>4. MaxLen(s) = Max(T)
    BY <2>1 DEF MaxLen
  <2>5. PICK m, e, n : m = Max(T) /\ e = s[b + 1] /\ n = UNBOUNDED
    OBVIOUS
  <2>6. m \in T /\ e \in T /\ T \in SUBSET (0 .. n)
    BY <2>2, <2>3, <2>5, Zenon
  <2>7. m >= e
    BY <2>3, <2>5, <2>6, Zenon
  <2>8. n \in Nat /\ m \in 0 .. n /\ e \in 0 .. n
    BY <1>1, <2>5, <2>6
  <2>9. m \in Nat /\ e <= m
    BY <2>7, <2>8
  <2>10. QED
    BY <2>4, <2>5, <2>9
<1>5. MaxLen(q) \in Nat /\ q[b + 1] <= MaxLen(q)
  BY <1>1, <1>2, <1>3, <1>4
<1>6. MaxLen(k) \in Nat /\ k[b + 1] <= MaxLen(k)
  BY <1>1, <1>2, <1>3, <1>4
<1>7. QED
  BY <1>2, <1>5, <1>6 DEF RowsOf, KeysOf

(* A block behind the first row or column of blocks is of a launch with room *)
(* for groups.                                                               *)
LEMMA HasRoom ==
  ASSUME launch \in LAUNCHES, NEW z, InLaunch(z), z.s2o > 0 \/ z.g > 0 \/ z.s1o > 0
  PROVE  ~Unreserved
<1>1. z.b \in Nat /\ z.b < Batches(launch) /\ z.s1o \in Nat /\ z.s2o \in Nat /\ z.g \in Nat /\ z.g < launch.g
  BY DEF InLaunch
<1>2. PICK R \in Nat, S \in Nat, rows \in Nat, keys \in Nat :
        /\ R = S1Outer(launch, z.b) /\ S = S2Outer(launch, z.b) /\ rows = RowsOf(launch, z.b) /\ keys = KeysOf(launch, z.b)
        /\ (R - 1) * S1_INNER < rows /\ (S - 1) * S2_INNER < keys /\ z.s1o < R /\ z.s2o < S
  BY <1>1, OuterIs, SequencesIs DEF InLaunch
<1>3. S1_INNER \in Nat \ {0} /\ S2_INNER \in Nat \ {0} /\ launch.g \in Nat
  BY BlocksAssumption, SequencesIs
<1>4. /\ MaxLen(launch.q) \in Nat /\ rows <= MaxLen(launch.q)
      /\ MaxLen(launch.k) \in Nat /\ keys <= MaxLen(launch.k)
  BY <1>1, <1>2, LongestIs
<1>5. CASE z.s2o > 0
  <2>1. 1 * S2_INNER <= (S - 1) * S2_INNER /\ (S - 1) * S2_INNER \in Int
    <3>1. 1 <= S - 1
      BY <1>1, <1>2, <1>5
    <3>2. QED
      BY <1>3, <3>1, TimesGrows
  <2>2. S2_INNER < MaxLen(launch.k)
    BY <1>2, <1>3, <1>4, <2>1
  <2>3. QED
    BY <1>3, <1>4, <2>2 DEF Unreserved
<1>6. CASE z.s1o > 0
  <2>1. 1 * S1_INNER <= (R - 1) * S1_INNER /\ (R - 1) * S1_INNER \in Int
    <3>1. 1 <= R - 1
      BY <1>1, <1>2, <1>6
    <3>2. QED
      BY <1>3, <3>1, TimesGrows
  <2>2. S1_INNER < MaxLen(launch.q)
    BY <1>2, <1>3, <1>4, <2>1
  <2>3. QED
    BY <1>3, <1>4, <2>2 DEF Unreserved
<1>7. CASE z.g > 0
  BY <1>1, <1>3, <1>7 DEF Unreserved
<1>8. QED
  BY <1>5, <1>6, <1>7

LEMMA TopIs ==
  ASSUME launch \in LAUNCHES, NEW z, InLaunch(z)
  PROVE  TopBlock(z) \in Int /\ TopBlock(z) >= 0
<1>1. z.s2o \in Nat /\ S2_INNER \in Nat /\ S1_INNER \in Nat \ {0} /\ S2Token(launch, z.b) \in Int
  BY BlocksAssumption, TokensIs DEF InLaunch
<1>2. PICK x \in Int : x = z.s2o * S2_INNER
  BY <1>1
<1>3. TopRow(z) \in Int
  BY <1>1, <1>2 DEF TopRow
<1>4. Quot(TopRow(z), S1_INNER) \in Int
  BY <1>1, <1>3, QuotIs
<1>5. QED
  BY <1>4, MaxOfTwo DEF TopBlock

(* A leader has the same tile and is found by the reduction of its round.    *)
LEMMA GroupLed ==
  ASSUME GroupsInv, launch.dtm, Planned, NEW x \in Places, NEW g \in Core, g <= x[2]
  PROVE  <<x[1], g>> \in Places /\ g \in Listed(x[1]) /\ g \in Nat
<1>1. BlocksInv /\ walk.startCoreId = 0 /\ launch \in LAUNCHES /\ Len(rounds) \in Nat
  BY DEF GroupsInv, PairsInv, BlocksInv
<1>2. PICK t \in 0 .. Len(rounds) - 1, c \in Core : x = <<t, c>> /\ RoundAt(t)[c].blockId # NO_BLOCK
  BY DEF Places, HasBlock
<1>3. t + 1 \in DOMAIN rounds /\ RoundAt(t) = rounds[t + 1] /\ c \in Nat /\ g \in Nat /\ g <= c
  <2>1. rounds \in Seq([Core -> BlockRec])
    BY <1>1 DEF BlocksInv
  <2>2. QED
    BY <1>1, <1>2, <2>1 DEF RoundAt, Core
<1>4. LinkedRounds(rounds)
  BY DEF GroupsInv, GroupsAt
<1>5. \A d \in Core : d < c => RoundAt(t)[d].blockId # NO_BLOCK
  BY <1>2, <1>3, <1>4 DEF LinkedRounds
<1>6. ASSUME NEW d \in 0 .. g
      PROVE  d \in Core /\ <<t, d>> \in Places
  <2>1. d \in Core /\ d <= c
    BY <1>3, BlocksAssumption DEF Core
  <2>2. RoundAt(t)[d].blockId # NO_BLOCK
    BY <1>2, <1>3, <1>5, <2>1
  <2>3. QED
    BY <1>2, <2>1, <2>2 DEF Places, HasBlock
<1>7. ASSUME NEW d \in 0 .. g
      PROVE  RoundAt(t)[d].blockIdArr # NO_BLOCK
  <2>1. PICK y : y = <<t, d>>
    OBVIOUS
  <2>2. y \in HeldPlaces(rounds, 0) /\ BlockAt(y) = HeldBlock(rounds, hand, y)
    BY <1>1, <1>6, <2>1, PlacesAre
  <2>3. BlockAt(y).blockIdArr = Number(BlockAt(y))
    BY <1>1, <2>2 DEF GroupsInv, GroupsAt, Counted
  <2>4. InLaunch(BlockAt(y))
    BY <1>1, <2>2, HeldIn DEF GroupsInv
  <2>5. Number(BlockAt(y)) \in Nat
    BY <1>1, <2>4, NumberIs DEF Parts
  <2>6. BlockAt(y) = RoundAt(t)[d]
    BY <2>1 DEF BlockAt
  <2>7. QED
    BY <2>3, <2>5, <2>6 DEF NO_BLOCK
<1>8. g \in Listed(t)
  BY <1>7 DEF Listed
<1>9. g \in 0 .. g
  BY <1>3
<1>10. QED
  BY <1>2, <1>3, <1>6, <1>8, <1>9

LEMMA GroupsInvImplies == GroupsInv => GroupsSound
<1> SUFFICES ASSUME GroupsInv, Complete, launch.dtm
             PROVE  /\ NumbersFindBlocks
                    /\ \A grad \in Grad : \A x \in Places :
                         IF Direct(grad, x)
                         THEN \A y \in Places : Tile(grad, y) = Tile(grad, x) => ~Before(y, x)
                         ELSE LET leader == <<x[1], GroupId(grad, x)>>
                              IN /\ ~Unreserved /\ leader[2] <= x[2] /\ Leads(grad, x[1], leader[2])
                                 /\ Tile(grad, leader) = Tile(grad, x)
  BY DEF GroupsSound
<1>1. Planned /\ PairsInv /\ BlocksInv /\ walk.startCoreId = 0 /\ launch \in LAUNCHES /\ Len(rounds) \in Nat
  BY DEF GroupsInv, PairsInv, BlocksInv, Complete
<1>2. ASSUME NEW x \in Places
      PROVE  /\ InLaunch(BlockAt(x)) /\ BlockAt(x).blockIdArr = Number(BlockAt(x)) /\ TopBlock(BlockAt(x)) <= BlockAt(x).s1o
             /\ x \in HeldPlaces(rounds, 0) /\ BlockAt(x) = HeldBlock(rounds, hand, x)
  <2>1. x \in HeldPlaces(rounds, 0) /\ BlockAt(x) = HeldBlock(rounds, hand, x)
    BY <1>1, PlacesAre
  <2>2. QED
    BY <1>1, <2>1, HeldIn DEF GroupsInv, GroupsAt, Counted
<1>3. NumbersFindBlocks
  <2>1. ASSUME NEW x \in Places
        PROVE  LET found == GetIndex(BlockAt(x).blockIdArr) IN \A f \in DOMAIN found : found[f] = BlockAt(x)[f]
    BY <1>1, <1>2, IndexFinds
  <2>2. QED
    BY <2>1 DEF NumbersFindBlocks
<1>4. ASSUME NEW x \in Places, NEW y \in Places, Before(y, x)
      PROVE  Number(BlockAt(y)) < Number(BlockAt(x))
  BY <1>1, <1>2, <1>4 DEF GroupsInv, GroupsAt, InOrder
<1>5. ASSUME NEW x \in Places
      PROVE  \E t \in 0 .. Len(rounds) - 1, c \in Core :
               x = <<t, c>> /\ c \in Nat /\ Linked(RoundAt(t), c) /\ \A d \in Core : BlockAt(<<t, d>>) = RoundAt(t)[d]
  <2>1. PICK t \in 0 .. Len(rounds) - 1, c \in Core : x = <<t, c>> /\ RoundAt(t)[c].blockId # NO_BLOCK
    BY <1>5 DEF Places, HasBlock
  <2>2. t + 1 \in DOMAIN rounds /\ RoundAt(t) = rounds[t + 1]
    <3>1. rounds \in Seq([Core -> BlockRec])
      BY <1>1 DEF BlocksInv
    <3>2. QED
      BY <1>1, <3>1 DEF RoundAt
  <2>3. Linked(RoundAt(t), c)
    BY <2>1, <2>2 DEF GroupsInv, GroupsAt, LinkedRounds
  <2>4. c \in Nat /\ \A d \in Core : BlockAt(<<t, d>>) = RoundAt(t)[d]
    BY DEF BlockAt, Core
  <2>5. QED
    BY <2>1, <2>3, <2>4
<1>6. OUTIDX \notin Core
  BY DEF OUTIDX, Core
<1>7. ASSUME NEW grad \in {"dk", "dv"}, NEW y, NEW x
      PROVE  /\ Tile(grad, y) = Tile(grad, x) <=> KvSame(BlockAt(y), BlockAt(x))
             /\ GroupId(grad, x) = BlockAt(x).kvGroupId
  BY <1>7 DEF Tile, TileOf, KvSame, GroupId
<1>8. ASSUME NEW y, NEW x
      PROVE  /\ Tile("dq", y) = Tile("dq", x) <=> DqSame(BlockAt(y), BlockAt(x))
             /\ GroupId("dq", x) = BlockAt(x).dqGroupId
  BY DEF Tile, TileOf, DqSame, GroupId
<1>9. ASSUME NEW grad \in Grad, NEW x \in Places
      PROVE  IF Direct(grad, x)
             THEN \A y \in Places : Tile(grad, y) = Tile(grad, x) => ~Before(y, x)
             ELSE LET leader == <<x[1], GroupId(grad, x)>>
                  IN /\ ~Unreserved /\ leader[2] <= x[2] /\ Leads(grad, x[1], leader[2])
                     /\ Tile(grad, leader) = Tile(grad, x)
  <2>1. PICK t \in 0 .. Len(rounds) - 1, c \in Core :
          x = <<t, c>> /\ c \in Nat /\ Linked(RoundAt(t), c) /\ \A d \in Core : BlockAt(<<t, d>>) = RoundAt(t)[d]
    BY <1>5
  <2>2. PICK z : z = BlockAt(x) /\ z = RoundAt(t)[c]
    BY <2>1
  <2>3. InLaunch(z) /\ TopBlock(z) <= z.s1o /\ z.s2o \in Nat /\ z.g \in Nat /\ z.s1o \in Nat
    BY <1>2, <2>2 DEF InLaunch
  <2>4. ASSUME NEW g \in Core, g = GroupId(grad, x), g <= c,
               \A l : l = <<t, g>> => Direct(grad, l) \/ GroupId(grad, l) = g
        PROVE  /\ <<x[1], GroupId(grad, x)>>[2] <= x[2] /\ Leads(grad, x[1], <<x[1], GroupId(grad, x)>>[2])
    <3>1. g \in Listed(t) /\ g \in Nat
      BY <1>1, <2>1, <2>4, GroupLed
    <3>2. Leads(grad, t, g)
      BY <2>4, <3>1 DEF Leads
    <3>3. QED
      BY <2>1, <2>4, <3>2
  <2>5. CASE grad = "dq"
    <3>1. DqLinked(RoundAt(t), c) /\ GroupId(grad, x) = z.dqGroupId
      BY <1>8, <2>1, <2>2, <2>5 DEF Linked
    <3>2. CASE z.s2o = 0
      <4>1. Direct(grad, x)
        BY <2>2, <3>1, <3>2 DEF DqLinked, Direct
      <4>2. ASSUME NEW y \in Places, Tile(grad, y) = Tile(grad, x), Before(y, x) PROVE FALSE
        <5>1. DqSame(BlockAt(y), z) /\ InLaunch(BlockAt(y)) /\ Number(BlockAt(y)) < Number(z)
          BY <1>2, <1>4, <1>8, <2>2, <2>5, <4>2
        <5>2. QED
          BY <1>1, <2>3, <3>2, <5>1, DqFirst
      <4>3. QED
        BY <4>1, <4>2
    <3>3. CASE z.s2o # 0
      <4>1. PICK g \in Core : g = z.dqGroupId /\ g <= c /\ DqSame(RoundAt(t)[g], z)
        BY <2>2, <3>1, <3>3 DEF DqLinked
      <4>2. RoundAt(t)[g].dqGroupId = OUTIDX \/ RoundAt(t)[g].dqGroupId = g
        BY <2>2, <3>1, <3>3, <4>1 DEF DqLinked
      <4>3. \A l : l = <<t, g>> => Direct(grad, l) \/ GroupId(grad, l) = g
        BY <1>8, <2>1, <2>5, <4>2 DEF Direct
      <4>4. ~Direct(grad, x)
        BY <1>6, <3>1, <4>1 DEF Direct
      <4>5. Tile(grad, <<t, g>>) = Tile(grad, x)
        BY <1>8, <2>1, <2>2, <2>5, <4>1
      <4>6. ~Unreserved
        BY <1>1, <2>3, <3>3, HasRoom
      <4>7. <<x[1], GroupId(grad, x)>> = <<t, g>>
        BY <2>1, <3>1, <4>1
      <4>8. <<x[1], GroupId(grad, x)>>[2] <= x[2] /\ Leads(grad, x[1], <<x[1], GroupId(grad, x)>>[2])
        BY <2>4, <3>1, <4>1, <4>3
      <4>9. QED
        BY <4>4, <4>5, <4>6, <4>7, <4>8
    <3>4. QED
      BY <3>2, <3>3
  <2>6. CASE grad \in {"dk", "dv"}
    <3>1. KvLinked(RoundAt(t), c) /\ GroupId(grad, x) = z.kvGroupId
      BY <1>7, <2>1, <2>2, <2>6 DEF Linked
    <3>2. CASE z.g = 0 /\ z.s1o = TopBlock(z)
      <4>1. Direct(grad, x)
        BY <2>2, <3>1, <3>2 DEF KvLinked, Direct
      <4>2. ASSUME NEW y \in Places, Tile(grad, y) = Tile(grad, x), Before(y, x) PROVE FALSE
        <5>1. KvSame(BlockAt(y), z) /\ InLaunch(BlockAt(y)) /\ TopBlock(BlockAt(y)) <= BlockAt(y).s1o
              /\ Number(BlockAt(y)) < Number(z)
          BY <1>2, <1>4, <1>7, <2>2, <2>6, <4>2
        <5>2. QED
          BY <1>1, <2>3, <3>2, <5>1, KvFirst
      <4>3. QED
        BY <4>1, <4>2
    <3>3. CASE ~(z.g = 0 /\ z.s1o = TopBlock(z))
      <4>1. PICK g \in Core : g = z.kvGroupId /\ g <= c /\ KvSame(RoundAt(t)[g], z)
        BY <2>2, <3>1, <3>3 DEF KvLinked
      <4>2. RoundAt(t)[g].kvGroupId = OUTIDX \/ RoundAt(t)[g].kvGroupId = g
        BY <2>2, <3>1, <3>3, <4>1 DEF KvLinked
      <4>3. \A l : l = <<t, g>> => Direct(grad, l) \/ GroupId(grad, l) = g
        BY <1>7, <2>1, <2>6, <4>2 DEF Direct
      <4>4. ~Direct(grad, x)
        BY <1>6, <3>1, <4>1 DEF Direct
      <4>5. Tile(grad, <<t, g>>) = Tile(grad, x)
        <5>1. PICK l : l = <<t, g>>
          OBVIOUS
        <5>2. KvSame(BlockAt(l), BlockAt(x))
          BY <2>1, <2>2, <4>1, <5>1
        <5>3. Tile(grad, l) = Tile(grad, x)
          BY <1>7, <2>6, <5>2
        <5>4. QED
          BY <5>1, <5>3
      <4>6. ~Unreserved
        <5>1. TopBlock(z) \in Int /\ TopBlock(z) >= 0
          BY <1>1, <2>3, TopIs
        <5>2. z.g > 0 \/ z.s1o > 0
          BY <2>3, <3>3, <5>1
        <5>3. QED
          BY <1>1, <2>3, <5>2, HasRoom
      <4>7. <<x[1], GroupId(grad, x)>> = <<t, g>>
        BY <2>1, <3>1, <4>1
      <4>8. <<x[1], GroupId(grad, x)>>[2] <= x[2] /\ Leads(grad, x[1], <<x[1], GroupId(grad, x)>>[2])
        BY <2>4, <3>1, <4>1, <4>3
      <4>9. QED
        BY <4>4, <4>5, <4>6, <4>7, <4>8
    <3>4. QED
      BY <3>2, <3>3
  <2>7. QED
    BY <2>5, <2>6 DEF Grad
<1>10. QED
  BY <1>3, <1>9

(* In deterministic mode a product that is stored directly is the first of   *)
(* its tile, and any other belongs to a group of its round that the          *)
(* reduction goes through, whose leader has the same tile and is found by    *)
(* its number alone: for any lengths, heads, window and number of cores      *)
(* (CalcValidBlock, dqGroupId, kvGroupId and GetIndex).                      *)
THEOREM GroupsAreSound == BlocksSpec => []GroupsSound
<1>1. BlocksInit => GroupsInv
  BY GroupsInit
<1>2. GroupsInv /\ [CalcValidBlock]_blockVars => GroupsInv'
  BY GroupsInvStep
<1>3. GroupsInv => GroupsSound
  BY GroupsInvImplies
<1>4. QED
  BY <1>1, <1>2, <1>3, PTL DEF BlocksSpec
=============================================================================
