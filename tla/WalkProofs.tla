----------------------------- MODULE WalkProofs -----------------------------
(***************************************************************************)
(* How a launch is shared over the cores, proved for every launch, of v3   *)
(* (TaskWalk) and of v2 (FusedTasks), in the composition where the run     *)
(* checks it: whatever the lengths, the groups and the cores, every row of *)
(* every head is in one task of one core, with its own lengths.            *)
(***************************************************************************)
EXTENDS MCTiles, FiniteSetTheorems, TLAPS

-----------------------------------------------------------------------------
(* Numbers.                                                                *)

LEMMA DivIs ==
  ASSUME NEW a \in Int, NEW n \in Nat \ {0}
  PROVE  /\ a \div n \in Int /\ a % n \in 0 .. n - 1
         /\ (a \div n) * n \in Int /\ a = (a \div n) * n + (a % n)
OBVIOUS

LEMMA TimesGrows ==
  ASSUME NEW a \in Int, NEW b \in Int, NEW n \in Nat, a <= b
  PROVE  a * n \in Int /\ b * n \in Int /\ a * n <= b * n
OBVIOUS

LEMMA NextTimes ==
  ASSUME NEW a \in Int, NEW n \in Nat
  PROVE  a * n \in Int /\ (a + 1) * n = a * n + n
OBVIOUS

LEMMA TimesSum ==
  ASSUME NEW a \in Int, NEW b \in Int, NEW n \in Nat
  PROVE  a * n \in Int /\ b * n \in Int /\ (a + b) * n = a * n + b * n
OBVIOUS

LEMMA TimesLess ==
  ASSUME NEW a \in Int, NEW b \in Int, NEW n \in Nat, a * n < b * n
  PROVE  a < b
BY TimesGrows

(* The quotient and the remainder are what they have to be.                *)
LEMMA DivUnique ==
  ASSUME NEW a \in Int, NEW n \in Nat \ {0}, NEW q \in Int, NEW r \in 0 .. n - 1, a = q * n + r
  PROVE  a \div n = q /\ a % n = r
<1> DEFINE d == a \div n
<1>1. d \in Int /\ a % n \in 0 .. n - 1 /\ d * n \in Int /\ a = d * n + (a % n)
  BY DivIs
<1> HIDE DEF d
<1>2. d * n < (q + 1) * n /\ q * n < (d + 1) * n
  BY <1>1, NextTimes
<1>3. d < q + 1 /\ q < d + 1
  BY <1>1, <1>2, TimesLess
<1>4. d = q
  BY <1>1, <1>3
<1>5. QED
  BY <1>1, <1>4 DEF d

LEMMA DivPick ==
  ASSUME NEW a \in Int, NEW n \in Nat \ {0}
  PROVE  \E d \in Int, m \in 0 .. n - 1, u \in Int :
           a \div n = d /\ a % n = m /\ u = d * n /\ a = u + m
<1>1. a \div n \in Int /\ a % n \in 0 .. n - 1 /\ (a \div n) * n \in Int
      /\ a = (a \div n) * n + (a % n)
  BY DivIs
<1>2. QED
  BY <1>1

LEMMA QuotientNat ==
  ASSUME NEW a \in Nat, NEW n \in Nat \ {0}
  PROVE  a \div n \in Nat
<1>1. PICK d \in Int, m \in 0 .. n - 1, u \in Int : a \div n = d /\ a % n = m /\ u = d * n /\ a = u + m
  BY DivPick
<1>2. PICK v \in Int : v = (d + 1) * n /\ v = u + n
  BY <1>1, NextTimes
<1>3. d + 1 <= 0 => v <= 0
  <2>1. d + 1 \in Int /\ 0 \in Int /\ 0 * n = 0
    OBVIOUS
  <2>2. QED
    BY <1>2, <2>1, TimesGrows
<1>4. QED
  BY <1>1, <1>2, <1>3

(* A quotient rounded up: the numbers below it. *)
LEMMA CeilIs ==
  ASSUME NEW a \in Nat, NEW n \in Nat \ {0}
  PROVE  /\ P!CeilDiv(a, n) \in Int
         /\ \A i \in Int : i < P!CeilDiv(a, n) <=> i * n < a
<1>1. PICK x \in Int : x = a + n - 1
  OBVIOUS
<1>2. PICK d \in Int, m \in 0 .. n - 1, u \in Int : x \div n = d /\ x % n = m /\ u = d * n /\ x = u + m
  BY DivPick
<1>3. P!CeilDiv(a, n) = d
  BY <1>1, <1>2 DEF P!CeilDiv
<1>4. ASSUME NEW i \in Int, i < d
      PROVE  i * n < a
  <2>1. PICK v \in Int : v = i * n /\ (i + 1) * n = v + n
    BY NextTimes
  <2>2. v + n <= u
    BY <1>2, <1>4, <2>1, TimesGrows
  <2>3. x = u + m
    BY <1>2
  <2>4. v < a
    BY <1>1, <2>2, <2>3
  <2>5. QED
    BY <2>1, <2>4
<1>5. ASSUME NEW i \in Int, i * n < a
      PROVE  i < d
  <2>1. PICK w \in Int : w = i * n /\ w < a
    BY <1>5
  <2>2. d <= i => u <= w
    BY <1>2, <2>1, TimesGrows
  <2>3. x = u + m
    BY <1>2
  <2>4. QED
    BY <1>1, <2>1, <2>2, <2>3
<1>6. QED
  BY <1>3, <1>4, <1>5

(* Every nonempty set of natural numbers has a least element. *)
LEMMA Least ==
  ASSUME NEW A \in SUBSET Nat, A # {}
  PROVE  \E n \in A : \A m \in A : n <= m
<1> DEFINE Below == StrictSubsetOrdering(Nat)
           Upto == {0 .. m : m \in A}
<1>1. IsWellFoundedOn(Below, FiniteSubsetsOf(Nat))
  BY FS_StrictSubsetOrderingWellFounded
<1>2. Upto \subseteq FiniteSubsetsOf(Nat) /\ Upto # {}
  <2>1. ASSUME NEW m \in A
        PROVE  0 .. m \in SUBSET Nat /\ IsFiniteSet(0 .. m)
    <3>1. m \in Int /\ 0 \in Int
      OBVIOUS
    <3>2. IsFiniteSet(0 .. m)
      BY <3>1, FS_Interval
    <3>3. QED
      BY <3>2
  <2>2. QED
    BY <2>1 DEF FiniteSubsetsOf
<1>3. \E D \in Upto : \A C \in Upto : ~ (<<C, D>> \in Below)
  <2> HIDE DEF Below, Upto
  <2>1. QED
    BY <1>1, <1>2, WFMin
<1>4. PICK n \in A : \A m \in A : ~ (<<0 .. m, 0 .. n>> \in Below)
  BY <1>3
<1>5. ASSUME NEW m \in A, ~ n <= m
      PROVE  FALSE
  <2>1. 0 .. m \subseteq 0 .. n /\ n \in 0 .. n /\ n \notin 0 .. m
    BY <1>5
  <2>2. <<0 .. m, 0 .. n>> \in Below
    BY <2>1 DEF StrictSubsetOrdering
  <2>3. QED
    BY <1>4, <2>2
<1>6. QED
  BY <1>5

(* Induction, for the elements of a set. *)
LEMMA Induction ==
  ASSUME NEW A \in SUBSET Nat, 0 \in A, \A n \in A : n + 1 \in A
  PROVE  A = Nat
<1>1. ASSUME Nat \ A # {}
      PROVE  FALSE
  <2>1. PICK n \in Nat \ A : \A m \in Nat \ A : n <= m
    BY <1>1, Least
  <2>2. n # 0 /\ n - 1 \in Nat /\ n - 1 \in A
    BY <2>1
  <2>3. QED
    BY <2>1, <2>2
<1>2. QED
  BY <1>1

LEMMA IsASeqOf ==
  ASSUME NEW S, NEW m \in Nat, NEW list \in [1 .. m -> S]
  PROVE  list \in Seq(S) /\ Len(list) = m
OBVIOUS

LEMMA EmptySeqIs ==
  ASSUME NEW S, NEW list \in Seq(S)
  PROVE  list = << >> <=> Len(list) = 0
OBVIOUS

-----------------------------------------------------------------------------
(* Blocks, digits and sums.                                                *)

(* Blocks of d numbers cover n; the last has what is left.                 *)
BlockSize(n, d, k) == IF k = P!CeilDiv(n, d) - 1 THEN n - k * d ELSE d
IsBlock(n, d, k) == n \in Nat /\ d \in Nat \ {0} /\ k \in 0 .. P!CeilDiv(n, d) - 1

LEMMA BlockIs ==
  ASSUME NEW n, NEW d, NEW k, IsBlock(n, d, k)
  PROVE  /\ BlockSize(n, d, k) \in 1 .. d /\ k * d \in Nat /\ k * d + BlockSize(n, d, k) <= n
         /\ k # P!CeilDiv(n, d) - 1 => BlockSize(n, d, k) = d
<1>1. n \in Nat /\ d \in Nat \ {0} /\ k \in 0 .. P!CeilDiv(n, d) - 1
  BY DEF IsBlock
<1>2. PICK c \in Int : c = P!CeilDiv(n, d) /\ \A i \in Int : i < c <=> i * d < n
  BY <1>1, CeilIs
<1>3. k \in Nat /\ k < c
  BY <1>1, <1>2
<1>4. PICK v \in Int : v = k * d /\ (k + 1) * d = v + d
  BY <1>1, <1>3, NextTimes
<1>5. v < n /\ 0 <= v
  <2>1. 0 * d <= k * d
    BY <1>1, <1>3, TimesGrows
  <2>2. v < n
    BY <1>2, <1>3, <1>4
  <2>3. QED
    BY <1>1, <1>4, <2>1, <2>2
<1>6. k + 1 < c <=> v + d < n
  BY <1>2, <1>3, <1>4
<1>7. CASE k = c - 1
  <2>1. BlockSize(n, d, k) = n - v
    BY <1>2, <1>4, <1>7 DEF BlockSize
  <2>2. ~ v + d < n
    BY <1>3, <1>6, <1>7
  <2>3. PICK size \in Int : size = n - v
    BY <1>1, <1>4
  <2>4. size \in 1 .. d /\ v + size <= n
    BY <1>1, <1>4, <1>5, <2>2, <2>3
  <2>5. QED
    BY <1>2, <1>4, <1>5, <1>7, <2>1, <2>3, <2>4
<1>8. CASE k # c - 1
  <2>1. BlockSize(n, d, k) = d
    BY <1>2, <1>8 DEF BlockSize
  <2>2. k + 1 < c
    BY <1>2, <1>3, <1>8
  <2>3. QED
    BY <1>1, <1>2, <1>4, <1>5, <1>6, <2>1, <2>2
<1>9. QED
  BY <1>7, <1>8

(* Number y is in the block of its quotient and in no other.               *)
LEMMA BlockOf ==
  ASSUME NEW n, NEW d, NEW k, IsBlock(n, d, k), NEW y \in 0 .. n - 1
  PROVE  y - k * d \in 0 .. BlockSize(n, d, k) - 1 <=> k = y \div d
<1>1. PICK N \in Nat, D \in Nat \ {0}, K \in Nat : N = n /\ D = d /\ K = k
  BY DEF IsBlock
<1>2. PICK q \in Int, m \in 0 .. D - 1, u \in Int : y \div D = q /\ y % D = m /\ u = q * D /\ y = u + m
  BY <1>1, DivPick
<1>3. PICK size \in 1 .. D, v \in Nat : size = BlockSize(n, d, k) /\ v = K * D /\ v + size <= N
  BY <1>1, BlockIs
<1>4. ASSUME y - v \in 0 .. size - 1
      PROVE  K = q
  <2>1. PICK r \in 0 .. D - 1 : r = y - v
    BY <1>3, <1>4
  <2>2. y = K * D + r
    BY <1>1, <1>3, <2>1
  <2>3. y \in Int /\ K \in Int
    BY <1>1
  <2>4. y \div D = K
    BY <1>1, <2>1, <2>2, <2>3, DivUnique
  <2>5. QED
    BY <1>2, <2>4
<1>5. ASSUME K = q
      PROVE  y - v \in 0 .. size - 1
  <2>1. y - v = m /\ m \in 0 .. D - 1 /\ y < N
    BY <1>1, <1>2, <1>3, <1>5
  <2>2. CASE k = P!CeilDiv(n, d) - 1
    <3>1. size = N - v
      BY <1>1, <1>3, <2>2 DEF BlockSize
    <3>2. QED
      BY <1>3, <2>1, <3>1
  <2>3. CASE k # P!CeilDiv(n, d) - 1
    <3>1. size = D
      BY <1>1, <1>3, <2>3 DEF BlockSize
    <3>2. QED
      BY <2>1, <3>1
  <2>4. QED
    BY <2>2, <2>3
<1>6. QED
  BY <1>1, <1>2, <1>3, <1>4, <1>5

LEMMA QuotientIsBlock ==
  ASSUME NEW n \in Nat, NEW d \in Nat \ {0}, NEW y \in 0 .. n - 1
  PROVE  IsBlock(n, d, y \div d)
<1>1. PICK q \in Int, m \in 0 .. d - 1, u \in Int : y \div d = q /\ y % d = m /\ u = q * d /\ y = u + m
  BY DivPick
<1>2. PICK c \in Int : c = P!CeilDiv(n, d) /\ \A i \in Int : i < c <=> i * d < n
  BY CeilIs
<1>3. q < c
  BY <1>1, <1>2
<1>4. 0 <= q
  <2>1. ASSUME q + 1 <= 0 PROVE FALSE
    <3>1. (q + 1) * d <= 0 * d /\ (q + 1) * d = u + d /\ 0 * d = 0
      BY <1>1, <2>1, TimesGrows, NextTimes
    <3>2. QED
      BY <1>1, <3>1
  <2>2. QED
    BY <1>1, <2>1
<1>5. QED
  BY <1>1, <1>2, <1>3, <1>4 DEF IsBlock

(* The parts count as FiniteSets does. *)
LEMMA CardinalitySame ==
  ASSUME NEW S
  PROVE  W!Cardinality(S) = Cardinality(S) /\ F!Cardinality(S) = Cardinality(S)
BY DEF W!Cardinality, F!Cardinality, Cardinality


(* A number in digits: s of per times h, then k of per, then i.            *)
HasDigits(j, per, h, s, k, i) ==
  /\ per \in Nat \ {0} /\ h \in Nat \ {0} /\ s \in Nat /\ k \in 0 .. h - 1 /\ i \in 0 .. per - 1
  /\ j = s * (per * h) + (k * per + i)

(* The numbers less than n of d, and the two digits of one that is.        *)
LEMMA TwoDigits ==
  ASSUME NEW d \in Nat \ {0}, NEW n \in Nat \ {0}, NEW k \in 0 .. n - 1, NEW i \in 0 .. d - 1
  PROVE  d * n \in Nat \ {0} /\ k * d \in Nat /\ k * d + i \in 0 .. d * n - 1
<1>1. PICK v \in Int : v = k * d /\ (k + 1) * d = v + d
  BY NextTimes
<1>2. (k + 1) * d <= n * d /\ 0 * d <= k * d
  BY TimesGrows
<1>3. d * n = n * d /\ n * d \in Int
  OBVIOUS
<1>4. PICK w \in Int : w = d * n
  BY <1>3
<1>5. 0 <= v /\ v + d <= w
  BY <1>1, <1>2, <1>3, <1>4
<1>6. QED
  BY <1>1, <1>4, <1>5

LEMMA DigitsAre ==
  ASSUME NEW j, NEW per, NEW h, NEW s, NEW k, NEW i, HasDigits(j, per, h, s, k, i)
  PROVE  /\ j \in Nat /\ j \div (per * h) = s
         /\ (j - s * (per * h)) \div per = k /\ (j - s * (per * h)) % per = i
<1>1. /\ per \in Nat \ {0} /\ h \in Nat \ {0} /\ s \in Nat /\ k \in 0 .. h - 1 /\ i \in 0 .. per - 1
      /\ j = s * (per * h) + (k * per + i)
  BY DEF HasDigits
<1>2. PICK m \in Nat \ {0}, r \in Nat : m = per * h /\ r = k * per + i /\ r \in 0 .. m - 1
  BY <1>1, TwoDigits
<1>3. PICK u \in Nat : u = s * m
  BY <1>1, <1>2
<1>4. j = u + r /\ j \in Nat
  BY <1>1, <1>2, <1>3
<1>5. j \div m = s
  <2>1. j \in Int /\ s \in Int /\ j = s * m + r
    BY <1>1, <1>3, <1>4
  <2>2. QED
    BY <1>2, <2>1, DivUnique
<1>6. r \div per = k /\ r % per = i
  <2>1. r \in Int /\ k \in Int /\ r = k * per + i
    BY <1>1, <1>2
  <2>2. QED
    BY <1>1, <2>1, DivUnique
<1>7. j - s * (per * h) = r
  BY <1>2, <1>3, <1>4
<1>8. QED
  BY <1>2, <1>4, <1>5, <1>6, <1>7

LEMMA DigitsExist ==
  ASSUME NEW j \in Nat, NEW per \in Nat \ {0}, NEW h \in Nat \ {0}
  PROVE  \E s \in Nat, k \in 0 .. h - 1, i \in 0 .. per - 1 : HasDigits(j, per, h, s, k, i)
<1>1. PICK m \in Nat \ {0} : m = per * h
  BY TwoDigits
<1>2. PICK s \in Int, r \in 0 .. m - 1, u \in Int :
        j \div m = s /\ j % m = r /\ u = s * m /\ j = u + r
  BY <1>1, DivPick
<1>3. PICK k \in Int, i \in 0 .. per - 1, v \in Int :
        r \div per = k /\ r % per = i /\ v = k * per /\ r = v + i
  <2>1. r \in Int
    BY <1>2
  <2>2. QED
    BY <2>1, DivPick
<1>4. 0 <= s
  <2>1. ASSUME s + 1 <= 0 PROVE FALSE
    <3>1. (s + 1) * m <= 0 * m /\ (s + 1) * m = u + m /\ 0 * m = 0
      BY <1>2, <2>1, TimesGrows, NextTimes
    <3>2. QED
      BY <1>2, <3>1
  <2>2. QED
    BY <1>2, <2>1
<1>5. 0 <= k
  <2>1. ASSUME k + 1 <= 0 PROVE FALSE
    <3>1. (k + 1) * per <= 0 * per /\ (k + 1) * per = v + per /\ 0 * per = 0
      BY <1>3, <2>1, TimesGrows, NextTimes
    <3>2. QED
      BY <1>2, <1>3, <3>1
  <2>2. QED
    BY <1>3, <2>1
<1>6. k < h
  <2>1. k * per < h * per
    BY <1>1, <1>2, <1>3
  <2>2. QED
    BY <1>3, <2>1, TimesLess
<1>7. k \in 0 .. h - 1 /\ s \in Nat /\ j = u + (v + i)
  BY <1>2, <1>3, <1>4, <1>5, <1>6
<1>8. j = s * (per * h) + (k * per + i)
  BY <1>1, <1>2, <1>3, <1>7
<1>9. HasDigits(j, per, h, s, k, i)
  BY <1>3, <1>7, <1>8 DEF HasDigits
<1>10. QED
  BY <1>3, <1>7, <1>9

(* It is less than n of per times h if its first digit is less than n.     *)
LEMMA DigitsBelow ==
  ASSUME NEW j, NEW per, NEW h, NEW s, NEW k, NEW i, HasDigits(j, per, h, s, k, i), NEW n \in Nat
  PROVE  j < (per * h) * n <=> s < n
<1>1. /\ per \in Nat \ {0} /\ h \in Nat \ {0} /\ s \in Nat /\ k \in 0 .. h - 1 /\ i \in 0 .. per - 1
      /\ j = s * (per * h) + (k * per + i)
  BY DEF HasDigits
<1>2. PICK m \in Nat \ {0}, r \in Nat : m = per * h /\ r = k * per + i /\ r \in 0 .. m - 1
  BY <1>1, TwoDigits
<1>3. PICK u \in Int : u = s * m /\ (s + 1) * m = u + m
  BY <1>1, <1>2, NextTimes
<1>4. PICK w \in Int : w = m * n /\ w = n * m
  BY <1>2
<1>5. j = u + r
  BY <1>1, <1>2, <1>3
<1>6. s < n => u + m <= w
  BY <1>1, <1>2, <1>3, <1>4, TimesGrows
<1>7. n <= s => w <= u
  BY <1>1, <1>2, <1>3, <1>4, TimesGrows
<1>8. CASE s < n
  <2>1. j < w
    BY <1>2, <1>3, <1>4, <1>5, <1>6, <1>8
  <2>2. QED
    BY <1>2, <1>4, <1>8, <2>1
<1>9. CASE n <= s
  <2>1. ~ j < w
    BY <1>2, <1>3, <1>4, <1>5, <1>7, <1>9
  <2>2. QED
    BY <1>1, <1>2, <1>4, <1>9, <2>1
<1>10. QED
  BY <1>1, <1>8, <1>9

(* Sums: the numbers below the last of them, cut into stretches.           *)
Sums(t, n) ==
  /\ n \in Nat /\ t[0] = 0 /\ \A b \in 0 .. n : t[b] \in Nat
  /\ \A b \in 0 .. n - 1 : t[b] <= t[b + 1]
Within(t, b, x) == x \in Nat /\ t[b] <= x /\ x < t[b + 1]

LEMMA SumsGrow ==
  ASSUME NEW t, NEW n, Sums(t, n), NEW a \in 0 .. n, NEW b \in a .. n
  PROVE  t[a] <= t[b]
<1> DEFINE A == {i \in Nat : a + i <= n => t[a] <= t[a + i]}
<1>1. 0 \in A
  <2>1. a + 0 = a /\ t[a] \in Nat
    BY DEF Sums
  <2>2. QED
    BY <2>1
<1>2. ASSUME NEW i \in A
      PROVE  i + 1 \in A
  <2>1. CASE a + (i + 1) <= n
    <3>1. PICK c \in Nat : c = a + i
      OBVIOUS
    <3>2. c \in 0 .. n - 1 /\ c + 1 = a + (i + 1) /\ n \in Nat
      BY <2>1, <3>1 DEF Sums
    <3>3. t[c] <= t[c + 1] /\ t[c] \in Nat /\ t[c + 1] \in Nat /\ t[a] \in Nat
      <4>1. c \in 0 .. n /\ c + 1 \in 0 .. n
        BY <3>2
      <4>2. QED
        BY <3>2, <4>1 DEF Sums
    <3>4. t[a] <= t[c]
      BY <1>2, <3>1, <3>2
    <3>5. QED
      BY <3>2, <3>3, <3>4
  <2>2. QED
    BY <2>1
<1>3. A = Nat
  <2>1. A \in SUBSET Nat
    OBVIOUS
  <2> HIDE DEF A
  <2>2. QED
    BY <1>1, <1>2, <2>1, Induction
<1>4. PICK i \in Nat : b = a + i
  <2>1. PICK i \in Int : i = b - a
    OBVIOUS
  <2>2. i \in Nat /\ b = a + i
    BY <2>1
  <2>3. QED
    BY <2>2
<1>5. a + i <= n
  BY <1>4 DEF Sums
<1>6. QED
  BY <1>3, <1>4, <1>5

(* A number is in one stretch. *)
LEMMA OneStretch ==
  ASSUME NEW t, NEW n, Sums(t, n), NEW a \in 0 .. n - 1, NEW b \in 0 .. n - 1, NEW x,
         Within(t, a, x), Within(t, b, x)
  PROVE  a = b
<1>1. n \in Nat /\ a + 1 \in 0 .. n /\ b + 1 \in 0 .. n /\ a \in 0 .. n /\ b \in 0 .. n
  BY DEF Sums
<1>2. t[a] \in Nat /\ t[b] \in Nat /\ t[a + 1] \in Nat /\ t[b + 1] \in Nat
  BY <1>1 DEF Sums
<1>3. ASSUME a < b PROVE FALSE
  <2>1. b \in a + 1 .. n
    BY <1>1, <1>3
  <2>2. t[a + 1] <= t[b]
    BY <1>1, <2>1, SumsGrow
  <2>3. QED
    BY <1>2, <2>2 DEF Within
<1>4. ASSUME b < a PROVE FALSE
  <2>1. a \in b + 1 .. n
    BY <1>1, <1>4
  <2>2. t[b + 1] <= t[a]
    BY <1>1, <2>1, SumsGrow
  <2>3. QED
    BY <1>2, <2>2 DEF Within
<1>5. QED
  BY <1>1, <1>3, <1>4

(* The sums of w exist. *)
LEMMA SumsExist ==
  ASSUME NEW w
  PROVE  \E t : t = [b \in Nat |-> IF b = 0 THEN 0 ELSE t[b - 1] + w[b - 1]]
<1> DEFINE Upto(h, k) == h = [n \in 0 .. k |-> IF n = 0 THEN 0 ELSE h[n - 1] + w[n - 1]]
           Reached == {k \in Nat : \E h : Upto(h, k)}
<1>1. 0 \in Reached
  <2>1. Upto([n \in 0 .. 0 |-> 0], 0)
    OBVIOUS
  <2>2. QED
    BY <2>1
<1>2. ASSUME NEW k \in Reached
      PROVE  k + 1 \in Reached
  <2>1. PICK h : Upto(h, k)
    OBVIOUS
  <2> DEFINE g == [n \in 0 .. k + 1 |-> IF n = 0 THEN 0 ELSE h[n - 1] + w[n - 1]]
  <2>2. ASSUME NEW n \in 0 .. k
        PROVE  g[n] = h[n]
    BY <2>1
  <2>3. g = [n \in 0 .. k + 1 |-> IF n = 0 THEN 0 ELSE g[n - 1] + w[n - 1]]
    <3>1. ASSUME NEW n \in 0 .. k + 1, n # 0
          PROVE  n - 1 \in 0 .. k
      BY <3>1
    <3>2. ASSUME NEW n \in 0 .. k + 1, n # 0
          PROVE  h[n - 1] = g[n - 1]
      <4>1. n - 1 \in 0 .. k
        BY <3>1, <3>2
      <4> HIDE DEF g
      <4>2. QED
        BY <2>2, <4>1
    <3>3. \A n \in 0 .. k + 1 : g[n] = IF n = 0 THEN 0 ELSE h[n - 1] + w[n - 1]
      OBVIOUS
    <3>4. g = [n \in 0 .. k + 1 |-> g[n]]
      OBVIOUS
    <3> HIDE DEF g
    <3>5. \A n \in 0 .. k + 1 : g[n] = IF n = 0 THEN 0 ELSE g[n - 1] + w[n - 1]
      BY <3>2, <3>3
    <3>6. QED
      BY <3>4, <3>5
  <2>4. k + 1 \in Nat
    OBVIOUS
  <2> HIDE DEF g
  <2>5. QED
    BY <2>3, <2>4
<1>3. Reached = Nat
  <2> HIDE DEF Reached
  <2>1. Reached \in SUBSET Nat
    BY DEF Reached
  <2>2. QED
    BY <1>1, <1>2, <2>1, Induction
<1>4. ASSUME NEW i \in Nat, NEW h, NEW g, NEW k \in Nat, Upto(h, i), Upto(g, k), i <= k
      PROVE  h[i] = g[i]
  <2> DEFINE U == {n \in Nat : n <= i => h[n] = g[n]}
  <2>1. 0 \in U
    BY <1>4
  <2>2. ASSUME NEW n \in U
        PROVE  n + 1 \in U
    BY <1>4
  <2>3. U = Nat
    <3> HIDE DEF U
    <3>1. U \in SUBSET Nat
      BY DEF U
    <3>2. QED
      BY <2>1, <2>2, <3>1, Induction
  <2>4. QED
    BY <2>3
<1> DEFINE H(n) == CHOOSE h : Upto(h, n)
           s == [n \in Nat |-> H(n)[n]]
<1>5. ASSUME NEW n \in Nat
      PROVE  Upto(H(n), n)
  BY <1>3
<1>6. ASSUME NEW n \in Nat
      PROVE  s[n] = IF n = 0 THEN 0 ELSE s[n - 1] + w[n - 1]
  <2>1. CASE n = 0
    <3>1. Upto(H(n), n)
      BY <1>5
    <3> HIDE DEF H
    <3>2. QED
      BY <2>1, <3>1
  <2>2. CASE n # 0
    <3>1. n - 1 \in Nat
      BY <2>2
    <3>5. Upto(H(n), n) /\ Upto(H(n - 1), n - 1)
      BY <1>5, <3>1
    <3> HIDE DEF H
    <3>2. H(n)[n] = H(n)[n - 1] + w[n - 1]
      BY <2>2, <3>5
    <3>3. H(n - 1)[n - 1] = H(n)[n - 1]
      <4> HIDE DEF Upto
      <4>1. QED
        BY <1>4, <3>1, <3>5
    <3>4. QED
      BY <2>2, <3>1, <3>2, <3>3
  <2>3. QED
    BY <2>1, <2>2
<1>7. s = [n \in Nat |-> IF n = 0 THEN 0 ELSE s[n - 1] + w[n - 1]]
  <2> HIDE DEF H
  <2> QED BY <1>6
<1>8. QED
  BY <1>7

(* Sums of natural numbers are Sums. *)
LEMMA SumsOf ==
  ASSUME NEW t, NEW w, NEW n \in Nat,
         t[0] = 0, \A b \in 0 .. n - 1 : w[b] \in Nat /\ t[b + 1] = t[b] + w[b]
  PROVE  Sums(t, n)
<1> DEFINE A == {b \in Nat : b <= n => t[b] \in Nat}
<1>1. 0 \in A
  OBVIOUS
<1>2. ASSUME NEW b \in A
      PROVE  b + 1 \in A
  <2>1. CASE b + 1 <= n
    <3>1. b \in 0 .. n - 1 /\ t[b] \in Nat
      BY <1>2, <2>1
    <3>2. w[b] \in Nat /\ t[b + 1] = t[b] + w[b]
      BY <3>1
    <3>3. t[b + 1] \in Nat
      BY <3>1, <3>2
    <3>4. QED
      BY <3>3
  <2>2. QED
    BY <2>1
<1>3. A = Nat
  <2>1. A \in SUBSET Nat
    OBVIOUS
  <2> HIDE DEF A
  <2>2. QED
    BY <1>1, <1>2, <2>1, Induction
<1>4. \A b \in 0 .. n : t[b] \in Nat
  BY <1>3
<1>5. ASSUME NEW b \in 0 .. n - 1
      PROVE  t[b] <= t[b + 1]
  <2>1. t[b] \in Nat /\ w[b] \in Nat /\ t[b + 1] = t[b] + w[b]
    BY <1>4
  <2>2. QED
    BY <2>1
<1>6. QED
  BY <1>4, <1>5 DEF Sums

-----------------------------------------------------------------------------
(* Tasks: the launch, and the tiles of its sequences.                      *)

LEMMA WLaunch ==
  ASSUME launch \in Launches
  PROVE  /\ launch.group \in Nat \ {0} /\ launch.kvHeads \in Nat \ {0} /\ launch.coreNum \in Nat \ {0}
         /\ launch.new \in Nat /\ Q_TILE_CEIL \in Nat \ {0}
         /\ Len(launch.q) \in Nat \ {0} /\ W!Batches = 0 .. Len(launch.q) - 1
         /\ \A b \in W!Batches : W!QSeqLenOf(b) \in Nat /\ W!KvSeqLenOf(b) \in Nat
<1>1. /\ launch.q \in Seq(Nat) /\ launch.q # << >> /\ launch.kv \in Seq(Nat)
      /\ Len(launch.kv) = Len(launch.q) /\ launch.new \in Nat
      /\ {launch.group, launch.kvHeads, launch.coreNum} \subseteq Nat \ {0}
  BY TilesAssumption DEF W!LaunchesAssumption
<1>2. Len(launch.q) \in Nat /\ Len(launch.q) # 0
  BY <1>1, EmptySeqIs
<1>3. ASSUME NEW b \in 0 .. Len(launch.q) - 1
      PROVE  W!QSeqLenOf(b) \in Nat /\ W!KvSeqLenOf(b) \in Nat
  <2>1. b + 1 \in 1 .. Len(launch.q)
    BY <1>2
  <2>2. launch.q[b + 1] \in Nat
    BY <1>1, <2>1, SMTT(30)
  <2>3. b + 1 \in 1 .. Len(launch.kv)
    BY <1>1, <2>1
  <2>4. launch.kv[b + 1] \in Nat
    BY <1>1, <2>3, SMTT(30)
  <2>5. QED
    BY <2>2, <2>4 DEF W!QSeqLenOf, W!KvSeqLenOf
<1>4. QED
  BY <1>1, <1>2, <1>3, TilesAssumption DEF W!Batches

(* The heads of a tile are some of a group. *)
LEMMA WTileIs ==
  ASSUME launch \in Launches, NEW q \in Nat
  PROVE  W!GetQNBlockTile(q) \in 1 .. launch.group
<1>1. launch.group \in Nat \ {0} /\ Q_TILE_CEIL \in Nat \ {0}
  BY WLaunch
<1>2. PICK e \in Int : e = IF q # 0 THEN ((Q_TILE_CEIL \div q) \div 2) * 2 ELSE Q_TILE_CEIL
  <2>1. CASE q = 0
    BY <1>1, <2>1
  <2>2. CASE q # 0
    <3>1. Q_TILE_CEIL \in Int /\ q \in Nat \ {0} /\ 2 \in Nat \ {0}
      BY <1>1, <2>2
    <3>2. PICK d \in Int : d = Q_TILE_CEIL \div q
      BY <3>1, DivPick
    <3>3. PICK g \in Int : g = d \div 2
      BY <3>1, DivPick
    <3>4. g * 2 \in Int
      OBVIOUS
    <3>5. QED
      BY <2>2, <3>2, <3>3, <3>4
  <2>3. QED
    BY <2>1, <2>2
<1>3. W!GetQNBlockTile(q) = W!AtLeast(1, W!AtMost(launch.group, e))
  BY <1>2 DEF W!GetQNBlockTile
<1>4. QED
  BY <1>1, <1>3 DEF W!AtLeast, W!AtMost

LEMMA WCounts ==
  ASSUME launch \in Launches, NEW q \in Nat
  PROVE  /\ W!qNBlockNumPerGroup(q) \in Nat \ {0}
         /\ W!qNBlockNumPerGroup(q) = P!CeilDiv(launch.group, W!GetQNBlockTile(q))
         /\ W!curQNBlockNum(q) = W!qNBlockNumPerGroup(q) * launch.kvHeads
         /\ W!curQNBlockNum(q) \in Nat \ {0}
         /\ W!curQSBlockNum(q) \in Nat /\ W!curQSBlockNum(q) = P!CeilDiv(q, Q_TILE_CEIL)
         /\ W!curTaskNum(q) \in Nat
         /\ W!curTaskNum(q) = (W!qNBlockNumPerGroup(q) * launch.kvHeads) * W!curQSBlockNum(q)
<1>1. /\ launch.group \in Nat \ {0} /\ launch.kvHeads \in Nat \ {0} /\ Q_TILE_CEIL \in Nat \ {0}
  BY WLaunch
<1>2. PICK g \in Nat \ {0}, e \in Nat \ {0} : g = launch.group /\ e = W!GetQNBlockTile(q)
  BY <1>1, WTileIs
<1>3. PICK per \in Nat \ {0} : per = P!CeilDiv(g, e)
  <2>1. PICK c \in Int : c = P!CeilDiv(g, e) /\ \A i \in Int : i < c <=> i * e < g
    BY <1>2, CeilIs
  <2>2. 0 \in Int /\ 0 * e < g
    BY <1>2
  <2>3. 0 < c
    BY <2>1, <2>2
  <2>4. QED
    BY <2>1, <2>3
<1>4. PICK n \in Nat : n = P!CeilDiv(q, Q_TILE_CEIL)
  <2>1. PICK c \in Int : c = P!CeilDiv(q, Q_TILE_CEIL) /\ \A i \in Int : i < c <=> i * Q_TILE_CEIL < q
    BY <1>1, CeilIs
  <2>2. -1 \in Int /\ (-1) * Q_TILE_CEIL < q
    BY <1>1
  <2>3. -1 < c
    BY <2>1, <2>2
  <2>4. QED
    BY <2>1, <2>3
<1>5. W!qNBlockNumPerGroup(q) = per /\ W!curQSBlockNum(q) = n
  BY <1>2, <1>3, <1>4 DEF W!qNBlockNumPerGroup, W!curQSBlockNum, W!CeilDiv, P!CeilDiv
<1>6. PICK m \in Nat \ {0} : m = per * launch.kvHeads
  BY <1>1, TwoDigits
<1>7. W!curQNBlockNum(q) = m
  BY <1>5, <1>6 DEF W!curQNBlockNum
<1>8. m * n \in Nat /\ W!curTaskNum(q) = m * n
  BY <1>5, <1>7 DEF W!curTaskNum
<1>9. QED
  BY <1>2, <1>3, <1>4, <1>5, <1>6, <1>7, <1>8

(* How many tasks the sequences before one have.                           *)
LEMMA WTotalIs ==
  \A b \in Nat : W!totalBefore[b] = IF b = 0 THEN 0
                                    ELSE W!totalBefore[b - 1] + W!curTaskNum(W!QSeqLenOf(b - 1))
<1> DEFINE Count(b) == W!curTaskNum(W!QSeqLenOf(b))
           w == [b \in Nat |-> Count(b)]
<1>1. PICK t : t = [b \in Nat |-> IF b = 0 THEN 0 ELSE t[b - 1] + w[b - 1]]
  BY SumsExist
<1>2. t = [b \in Nat |-> IF b = 0 THEN 0 ELSE t[b - 1] + Count(b - 1)]
  <2>1. ASSUME NEW b \in Nat, b # 0 PROVE w[b - 1] = Count(b - 1)
    BY <2>1
  <2> HIDE DEF w, Count
  <2>2. QED
    BY <1>1, <2>1
<1>3. W!totalBefore = [b \in Nat |-> IF b = 0 THEN 0 ELSE W!totalBefore[b - 1] + Count(b - 1)]
  BY <1>2 DEF W!totalBefore
<1> HIDE DEF Count
<1>4. \A b \in Nat : W!totalBefore[b] = IF b = 0 THEN 0 ELSE W!totalBefore[b - 1] + Count(b - 1)
  BY <1>3
<1>5. QED
  BY <1>4 DEF Count

LEMMA WSums ==
  ASSUME launch \in Launches
  PROVE  /\ Sums(W!totalBefore, Len(launch.q))
         /\ \A b \in W!Batches : W!totalBefore[b + 1] = W!totalBefore[b] + W!curTaskNum(W!QSeqLenOf(b))
<1> DEFINE n == Len(launch.q)
           w == [b \in 0 .. n - 1 |-> W!curTaskNum(W!QSeqLenOf(b))]
<1>1. n \in Nat /\ W!Batches = 0 .. n - 1
  BY WLaunch
<1>2. ASSUME NEW b \in 0 .. n - 1
      PROVE  w[b] \in Nat /\ W!totalBefore[b + 1] = W!totalBefore[b] + w[b]
             /\ w[b] = W!curTaskNum(W!QSeqLenOf(b))
  <2>1. w[b] = W!curTaskNum(W!QSeqLenOf(b)) /\ W!QSeqLenOf(b) \in Nat
    BY <1>1, WLaunch
  <2>2. b + 1 \in Nat /\ b + 1 # 0 /\ (b + 1) - 1 = b
    BY <1>1
  <2>3. W!totalBefore[b + 1] = W!totalBefore[b] + W!curTaskNum(W!QSeqLenOf(b))
    BY <2>2, WTotalIs
  <2>4. QED
    BY <2>1, <2>3, WCounts
<1>3. W!totalBefore[0] = 0
  BY WTotalIs
<1> HIDE DEF w, n
<1>4. Sums(W!totalBefore, n)
  BY <1>1, <1>2, <1>3, SumsOf
<1>5. QED
  BY <1>1, <1>2, <1>4 DEF n

LEMMA WTotalSame ==
  ASSUME launch' = launch
  PROVE  W!totalBefore' = W!totalBefore
BY DEF W!totalBefore, W!curTaskNum, W!curQNBlockNum, W!curQSBlockNum, W!qNBlockNumPerGroup, W!GetQNBlockTile, W!QSeqLenOf

(* The tile that number x is, of sequence b.                               *)
WTile(b, x) ==
  W!Tile([taskIdx |-> x, curBatch |-> b, preTotal |-> W!totalBefore[b], qSeqlen |-> W!QSeqLenOf(b),
          kvSeqlen |-> W!KvSeqLenOf(b) + launch.new, curQNBlockNum |-> W!curQNBlockNum(W!QSeqLenOf(b))])
WShape(b, x, s, k, i) ==
  LET q == W!QSeqLenOf(b)
      e == W!GetQNBlockTile(q)
      t == WTile(b, x)
  IN /\ HasDigits(x - W!totalBefore[b], W!qNBlockNumPerGroup(q), launch.kvHeads, s, k, i)
     /\ IsBlock(q, Q_TILE_CEIL, s) /\ IsBlock(launch.group, e, i)
     /\ t.b = b /\ t.q = q /\ t.kv = W!KvSeqLenOf(b) + launch.new /\ t.kvHead = k
     /\ t.qSBlockIdx = s /\ t.qSBlockSize = BlockSize(q, Q_TILE_CEIL, s)
     /\ t.qNStartIdx = k * launch.group + i * e /\ t.qNBlockSize = BlockSize(launch.group, e, i)
     /\ t.drain = (x + launch.coreNum >= W!totalTaskNum)

LEMMA WShapeOf ==
  ASSUME launch \in Launches, NEW b \in W!Batches, NEW x, Within(W!totalBefore, b, x)
  PROVE  \E s, k, i : WShape(b, x, s, k, i)
<1>1. PICK g \in Nat \ {0}, h \in Nat \ {0}, q \in Nat :
        g = launch.group /\ h = launch.kvHeads /\ q = W!QSeqLenOf(b)
  BY WLaunch
<1>2. PICK e \in 1 .. g : e = W!GetQNBlockTile(q)
  BY <1>1, WTileIs
<1>3. PICK per \in Nat \ {0}, n \in Nat :
        /\ per = W!qNBlockNumPerGroup(q) /\ n = W!curQSBlockNum(q)
        /\ per = P!CeilDiv(g, e) /\ n = P!CeilDiv(q, Q_TILE_CEIL)
        /\ W!curTaskNum(q) = (per * h) * n /\ W!curQNBlockNum(q) = per * h
  BY <1>1, <1>2, WCounts
<1>4. PICK t \in Nat, c \in Nat : /\ t = W!totalBefore[b] /\ W!totalBefore[b + 1] = t + c
                                  /\ c = (per * h) * n
  <2>1. W!totalBefore[b] \in Nat
    <3>1. b \in 0 .. Len(launch.q)
      BY WLaunch
    <3>2. QED
      BY <3>1, WSums DEF Sums
  <2>2. W!curTaskNum(q) \in Nat
    BY <1>1, WCounts
  <2>3. QED
    BY <1>1, <1>3, <2>1, <2>2, WSums
<1>5. PICK j \in Nat : j = x - t /\ j < (per * h) * n /\ x \in Nat
  <2>1. x \in Nat /\ t <= x /\ x < t + c
    BY <1>4 DEF Within
  <2>2. x - t \in Nat /\ x - t < c
    BY <1>4, <2>1
  <2>3. QED
    BY <1>4, <2>1, <2>2
<1>6. PICK s \in Nat, k \in 0 .. h - 1, i \in 0 .. per - 1 : HasDigits(j, per, h, s, k, i)
  BY DigitsExist
<1>7. s < n
  BY <1>5, <1>6, DigitsBelow
<1>8. j \div (per * h) = s /\ (j - s * (per * h)) \div per = k /\ (j - s * (per * h)) % per = i
  BY <1>6, DigitsAre
<1>9. IsBlock(q, Q_TILE_CEIL, s) /\ IsBlock(g, e, i)
  <2>1. s \in 0 .. n - 1
    BY <1>3, <1>6, <1>7
  <2>2. Q_TILE_CEIL \in Nat \ {0}
    BY WLaunch
  <2>3. g \in Nat /\ e \in Nat \ {0}
    BY <1>1, <1>2
  <2>4. QED
    BY <1>1, <1>3, <1>6, <2>1, <2>2, <2>3 DEF IsBlock
<1>10. /\ WTile(b, x).b = b /\ WTile(b, x).q = q /\ WTile(b, x).kv = W!KvSeqLenOf(b) + launch.new
       /\ WTile(b, x).kvHead = k /\ WTile(b, x).qSBlockIdx = s
       /\ WTile(b, x).qNStartIdx = k * g + i * e
       /\ WTile(b, x).drain = (x + launch.coreNum >= W!totalTaskNum)
  BY <1>1, <1>2, <1>3, <1>4, <1>5, <1>8 DEF WTile, W!Tile, W!pipelineDrain
<1>11. /\ WTile(b, x).qSBlockSize = BlockSize(q, Q_TILE_CEIL, s)
       /\ WTile(b, x).qNBlockSize = BlockSize(g, e, i)
  BY <1>1, <1>2, <1>3, <1>4, <1>5, <1>8 DEF WTile, W!Tile, BlockSize
<1>12. WShape(b, x, s, k, i)
  BY <1>1, <1>2, <1>3, <1>4, <1>5, <1>6, <1>9, <1>10, <1>11 DEF WShape
<1>13. QED
  BY <1>12

(* The digits of the task that a row of a head is in.                      *)
InTask(q, head, token, s, k, i) ==
  /\ s = token \div Q_TILE_CEIL /\ k = head \div launch.group
  /\ i = (head % launch.group) \div W!GetQNBlockTile(q)

LEMMA WHolds ==
  ASSUME launch \in Launches, NEW b \in W!Batches, NEW x, NEW s, NEW k, NEW i, WShape(b, x, s, k, i),
         NEW head \in 0 .. launch.group * launch.kvHeads - 1, NEW token \in 0 .. W!QSeqLenOf(b) - 1
  PROVE  W!Holds(WTile(b, x), b, head, token) <=> InTask(W!QSeqLenOf(b), head, token, s, k, i)
<1>1. PICK g \in Nat \ {0}, h \in Nat \ {0}, q \in Nat, T0 \in Nat \ {0} :
        g = launch.group /\ h = launch.kvHeads /\ q = W!QSeqLenOf(b) /\ T0 = Q_TILE_CEIL
  BY WLaunch
<1>2. PICK e \in 1 .. g : e = W!GetQNBlockTile(q)
  BY <1>1, WTileIs
<1>3. /\ IsBlock(q, T0, s) /\ IsBlock(g, e, i) /\ k \in Nat
  BY <1>1, <1>2 DEF WShape, HasDigits
<1>4. token - s * T0 \in 0 .. BlockSize(q, T0, s) - 1 <=> s = token \div T0
  BY <1>1, <1>3, BlockOf
<1>5. PICK kh \in Int, hd \in 0 .. g - 1, u \in Int :
        head \div g = kh /\ head % g = hd /\ u = kh * g /\ head = u + hd
  <2>1. head \in Int
    OBVIOUS
  <2>2. QED
    BY <2>1, DivPick
<1>6. PICK size \in 1 .. e, v \in Nat : size = BlockSize(g, e, i) /\ v = i * e /\ v + size <= g
  BY <1>3, BlockIs
<1>7. hd - v \in 0 .. size - 1 <=> i = hd \div e
  BY <1>3, <1>6, BlockOf
<1>8. PICK w \in Nat : w = k * g
  BY <1>1, <1>3
<1>9. head \in w + v .. w + v + size - 1 <=> k = kh /\ i = hd \div e
  <2>1. ASSUME head \in w + v .. w + v + size - 1
        PROVE  k = kh /\ w = u
    <3>1. PICK r \in 0 .. g - 1 : r = head - w
      BY <1>6, <1>8, <2>1
    <3>2. head = k * g + r /\ head \in Int /\ k \in Int
      BY <1>3, <1>8, <3>1
    <3>3. head \div g = k
      BY <3>1, <3>2, DivUnique
    <3>4. QED
      BY <1>5, <1>8, <3>3
  <2>2. ASSUME w = u
        PROVE  head \in w + v .. w + v + size - 1 <=> hd - v \in 0 .. size - 1
    BY <1>5, <1>6, <1>8, <2>2
  <2>3. k = kh => w = u
    BY <1>5, <1>8
  <2>4. QED
    BY <1>7, <2>1, <2>2, <2>3
<1>10. W!Holds(WTile(b, x), b, head, token) <=>
         /\ head \in w + v .. w + v + size - 1
         /\ token - s * T0 \in 0 .. BlockSize(q, T0, s) - 1
  <2>1. /\ WTile(b, x).b = b /\ WTile(b, x).qSBlockIdx = s
        /\ WTile(b, x).qSBlockSize = BlockSize(q, T0, s)
        /\ WTile(b, x).qNStartIdx = w + v /\ WTile(b, x).qNBlockSize = size
    BY <1>1, <1>2, <1>6, <1>8 DEF WShape
  <2>2. QED
    BY <1>1, <2>1 DEF W!Holds
<1>11. QED
  BY <1>1, <1>2, <1>4, <1>5, <1>9, <1>10 DEF InTask

(* There is such a task.                                                   *)
LEMMA WTaskExists ==
  ASSUME launch \in Launches, NEW b \in W!Batches,
         NEW head \in 0 .. launch.group * launch.kvHeads - 1, NEW token \in 0 .. W!QSeqLenOf(b) - 1
  PROVE  \E x, s, k, i : /\ Within(W!totalBefore, b, x) /\ InTask(W!QSeqLenOf(b), head, token, s, k, i)
                         /\ HasDigits(x - W!totalBefore[b], W!qNBlockNumPerGroup(W!QSeqLenOf(b)),
                                      launch.kvHeads, s, k, i)
<1>1. PICK g \in Nat \ {0}, h \in Nat \ {0}, q \in Nat, T0 \in Nat \ {0} :
        g = launch.group /\ h = launch.kvHeads /\ q = W!QSeqLenOf(b) /\ T0 = Q_TILE_CEIL
  BY WLaunch
<1>2. PICK e \in 1 .. g : e = W!GetQNBlockTile(q)
  BY <1>1, WTileIs
<1>3. PICK per \in Nat \ {0}, n \in Nat :
        /\ per = W!qNBlockNumPerGroup(q) /\ n = W!curQSBlockNum(q)
        /\ per = P!CeilDiv(g, e) /\ n = P!CeilDiv(q, Q_TILE_CEIL)
        /\ W!curTaskNum(q) = (per * h) * n
  <2>1. /\ W!qNBlockNumPerGroup(q) \in Nat \ {0} /\ W!curQSBlockNum(q) \in Nat
        /\ W!qNBlockNumPerGroup(q) = P!CeilDiv(g, e) /\ W!curQSBlockNum(q) = P!CeilDiv(q, Q_TILE_CEIL)
        /\ W!curTaskNum(q) = (W!qNBlockNumPerGroup(q) * h) * W!curQSBlockNum(q)
    BY <1>1, <1>2, WCounts
  <2>2. QED
    BY <2>1
<1>4. PICK s : s = token \div T0 /\ s \in 0 .. n - 1
  <2>1. IsBlock(q, T0, token \div T0)
    BY <1>1, QuotientIsBlock
  <2>2. QED
    BY <1>1, <1>3, <2>1 DEF IsBlock
<1>5. PICK k \in Int, hd \in 0 .. g - 1, u \in Int :
        head \div g = k /\ head % g = hd /\ u = k * g /\ head = u + hd
  <2>1. head \in Int
    OBVIOUS
  <2>2. QED
    BY <2>1, DivPick
<1>6. k \in 0 .. h - 1
  <2>1. PICK m \in Nat : m = g * h /\ m = h * g
    BY <1>1
  <2>2. head \in 0 .. m - 1
    BY <1>1, <2>1
  <2>3. IsBlock(m, g, head \div g)
    BY <2>1, <2>2, QuotientIsBlock
  <2>4. k \in Nat
    BY <1>5, <2>3 DEF IsBlock
  <2>5. k * g < h * g
    BY <1>5, <2>1, <2>2
  <2>6. QED
    BY <2>4, <2>5, TimesLess
<1>7. PICK i : i = hd \div e /\ i \in 0 .. per - 1
  <2>1. g \in Nat /\ e \in Nat \ {0}
    BY <1>1, <1>2
  <2>2. IsBlock(g, e, hd \div e)
    BY <1>5, <2>1, QuotientIsBlock
  <2>3. QED
    BY <1>3, <2>2 DEF IsBlock
<1>8. PICK j : j = s * (per * h) + (k * per + i)
  OBVIOUS
<1>9. HasDigits(j, per, h, s, k, i)
  BY <1>4, <1>6, <1>7, <1>8 DEF HasDigits
<1>10. j \in Nat /\ j < (per * h) * n
  <2>1. j \in Nat
    BY <1>9, DigitsAre
  <2>2. s < n
    BY <1>4
  <2>3. j < (per * h) * n
    BY <1>9, <2>2, DigitsBelow
  <2>4. QED
    BY <2>1, <2>3
<1>11. PICK t \in Nat : t = W!totalBefore[b] /\ W!totalBefore[b + 1] = t + (per * h) * n
  <2>1. b \in 0 .. Len(launch.q)
    BY WLaunch
  <2>2. W!totalBefore[b] \in Nat
    BY <2>1, WSums DEF Sums
  <2>3. QED
    BY <1>1, <1>3, <2>2, WSums
<1>12. PICK x \in Nat : x = t + j /\ x - t = j
  BY <1>10
<1>13. Within(W!totalBefore, b, x)
  BY <1>3, <1>10, <1>11, <1>12 DEF Within
<1>14. InTask(q, head, token, s, k, i)
  BY <1>1, <1>2, <1>4, <1>5, <1>7 DEF InTask
<1>15. QED
  BY <1>1, <1>3, <1>9, <1>11, <1>12, <1>13, <1>14

(* A number is twice its half, or one more. *)
LEMMA HalfIs ==
  ASSUME NEW n \in Nat
  PROVE  \E a \in Nat, r \in 0 .. 1 : n = a + a + r /\ n \div 2 = a /\ n % 2 = r
<1>1. PICK a \in Int, r \in 0 .. 2 - 1, u \in Int : n \div 2 = a /\ n % 2 = r /\ u = a * 2 /\ n = u + r
  <2>1. n \in Int /\ 2 \in Nat \ {0}
    OBVIOUS
  <2>2. QED
    BY <2>1, DivPick
<1>2. n = a + a + r /\ r \in 0 .. 1
  BY <1>1
<1>3. a \in Nat
  BY <1>2
<1>4. QED
  BY <1>1, <1>2, <1>3

(* The shares of s rows of n heads, for tiles that fit.                    *)
ShareOf(s, n) == IF n = 1 THEN s \div 2 ELSE s * (n \div 2)
LEMMA HalvesFit ==
  ASSUME NEW s \in Nat, NEW n \in Nat \ {0}, NEW half \in Nat, NEW f \in Nat, NEW q \in Nat,
         s <= half + half, n # 1 => n <= f + f /\ s <= q /\ f * q <= half
  PROVE  ShareOf(s, n) <= half /\ s * n - ShareOf(s, n) <= half
<1>1. CASE n = 1
  <2>1. PICK a \in Nat, r \in 0 .. 1 : s = a + a + r /\ s \div 2 = a
    BY HalfIs
  <2>2. ShareOf(s, n) = a
    BY <1>1, <2>1 DEF ShareOf
  <2>3. a <= half /\ a + r <= half
    BY <2>1
  <2>4. s * n = s /\ s - a = a + r
    BY <1>1, <2>1
  <2>5. QED
    BY <2>2, <2>3, <2>4
<1>2. CASE n # 1
  <2>1. PICK a \in Nat, r \in 0 .. 1 : n = a + a + r /\ n \div 2 = a
    BY HalfIs
  <2>2. PICK c \in Nat : c = a + r
    OBVIOUS
  <2>3. c <= f
    BY <1>2, <2>1, <2>2
  <2>4. PICK x \in Int, y \in Int, z \in Int : x = c * s /\ y = c * q /\ z = f * q
    OBVIOUS
  <2>5. x <= y /\ y <= z /\ z <= half
    <3>1. c * s <= c * q
      <4>1. s * c <= q * c
        BY <1>2, TimesGrows
      <4>2. QED
        BY <4>1
    <3>2. c * q <= f * q
      BY <2>3, TimesGrows
    <3>3. QED
      BY <1>2, <2>4, <3>1, <3>2
  <2>6. PICK w \in Nat, v \in Nat : w = s * a /\ v = s * r
    BY <2>1
  <2>7. x = w + v /\ s * n = w + w + v
    <3>1. c * s = a * s + r * s /\ n * s = (a + a) * s + r * s /\ (a + a) * s = a * s + a * s
      BY <2>1, <2>2, TimesSum
    <3>2. a * s = w /\ r * s = v /\ n * s = s * n
      BY <2>1, <2>6
    <3>3. QED
      BY <2>4, <3>1, <3>2
  <2>8. ShareOf(s, n) = w
    BY <1>2, <2>1, <2>6 DEF ShareOf
  <2>9. w <= half /\ w + v <= half
    BY <2>5, <2>6, <2>7
  <2>10. QED
    BY <2>6, <2>7, <2>8, <2>9
<1>3. QED
  BY <1>1, <1>2

LEMMA WFits ==
  ASSUME launch \in Launches, NEW b \in W!Batches, NEW x, Within(W!totalBefore, b, x),
         NEW t, t = WTile(b, x)
  PROVE  W!Share(t) <= Q_TILE_CEIL \div 2
         /\ t.qSBlockSize * t.qNBlockSize - W!Share(t) <= Q_TILE_CEIL \div 2
<1>1. PICK g \in Nat \ {0}, q \in Nat, T0 \in Nat \ {0} :
        g = launch.group /\ q = W!QSeqLenOf(b) /\ T0 = Q_TILE_CEIL
  BY WLaunch
<1>2. PICK e \in 1 .. g : e = W!GetQNBlockTile(q)
  BY <1>1, WTileIs
<1>3. PICK s, k, i : WShape(b, x, s, k, i)
  BY WShapeOf
<1>4. PICK rows \in 1 .. T0, heads \in 1 .. e : rows = t.qSBlockSize /\ heads = t.qNBlockSize /\ rows <= q
  <2>1. /\ IsBlock(q, T0, s) /\ IsBlock(g, e, i)
        /\ t.qSBlockSize = BlockSize(q, T0, s) /\ t.qNBlockSize = BlockSize(g, e, i)
    BY <1>1, <1>2, <1>3 DEF WShape
  <2>2. PICK rows \in 1 .. T0, v \in Nat : rows = BlockSize(q, T0, s) /\ v + rows <= q
    BY <2>1, BlockIs
  <2>3. BlockSize(g, e, i) \in 1 .. e
    BY <2>1, BlockIs
  <2>4. rows <= q
    BY <2>2
  <2>5. QED
    BY <2>1, <2>2, <2>3, <2>4
<1>5. PICK half \in Nat : T0 \div 2 = half /\ T0 = half + half
  <2>1. PICK a \in Nat, r \in 0 .. 1 : T0 = a + a + r /\ T0 \div 2 = a /\ T0 % 2 = r
    BY HalfIs
  <2>2. r = 0
    BY <1>1, <2>1, TilesAssumption
  <2>3. QED
    BY <2>1, <2>2
<1>6. PICK f \in Nat : heads # 1 => heads <= f + f /\ f * q <= half
  <2>1. CASE heads = 1
    <3>1. 0 \in Nat
      OBVIOUS
    <3>2. QED
      BY <2>1, <3>1
  <2>2. CASE heads # 1
    <3>1. q # 0 /\ q \in Nat \ {0} /\ T0 \in Int /\ T0 \in Nat
      BY <1>4
    <3>2. PICK d \in Int, m \in 0 .. q - 1, u \in Int : T0 \div q = d /\ T0 % q = m /\ u = d * q /\ T0 = u + m
      BY <3>1, DivPick
    <3>3. d \in Nat
      <4>1. ASSUME d + 1 <= 0 PROVE FALSE
        <5>1. (d + 1) * q <= 0 * q /\ (d + 1) * q = u + q /\ 0 * q = 0
          BY <3>1, <3>2, <4>1, TimesGrows, NextTimes
        <5>2. QED
          BY <3>1, <3>2, <5>1
      <4>2. QED
        BY <3>2, <4>1
    <3>4. PICK f \in Nat, r \in 0 .. 1 : d = f + f + r /\ d \div 2 = f
      BY <3>3, HalfIs
    <3>5. PICK z \in Int : z = f * 2 /\ z = f + f
      BY <3>4
    <3>6. e = W!AtLeast(1, W!AtMost(g, z))
      BY <1>1, <1>2, <3>1, <3>2, <3>4, <3>5 DEF W!GetQNBlockTile
    <3>7. heads <= z
      <4>1. heads \in Int /\ heads > 1 /\ heads <= e
        BY <1>4, <2>2
      <4>2. e <= z
        BY <1>2, <3>6, <4>1 DEF W!AtLeast, W!AtMost
      <4>3. QED
        BY <1>2, <4>1, <4>2
    <3>8. PICK y \in Int : y = f * q /\ (f + f) * q = y + y
      BY <3>4, TimesSum
    <3>9. (f + f) * q <= d * q
      BY <3>1, <3>4, TimesGrows
    <3>10. y <= half
      BY <1>5, <3>2, <3>8, <3>9
    <3>11. QED
      BY <3>5, <3>7, <3>8, <3>10
  <2>3. QED
    BY <2>1, <2>2
<1>7. W!Share(t) = ShareOf(rows, heads)
  BY <1>4 DEF W!Share, ShareOf
<1>8. rows \in Nat /\ heads \in Nat \ {0} /\ rows <= half + half
  BY <1>4, <1>5
<1>9. heads # 1 => heads <= f + f /\ rows <= q /\ f * q <= half
  BY <1>4, <1>6
<1>10. ShareOf(rows, heads) <= half /\ rows * heads - ShareOf(rows, heads) <= half
  BY <1>8, <1>9, HalvesFit
<1>11. QED
  BY <1>1, <1>4, <1>5, <1>7, <1>10

-----------------------------------------------------------------------------
(* Tasks: the walk of a core.                                              *)

(* The i-th task of core c has this number.                                *)
Number(c, i) == c + (i - 1) * launch.coreNum

LEMMA NextNumber ==
  ASSUME NEW N \in Nat, N = launch.coreNum, NEW c \in Int, NEW i \in Int
  PROVE  \E y \in Int, z \in Int : y = Number(c, i) /\ z = Number(c, i + 1) /\ z = y + N /\ z = c + i * N
<1>1. PICK a \in Int, v \in Int, u \in Int : a = i - 1 /\ v = a * N /\ u = i * N /\ u = v + N
  <2>1. PICK a \in Int : a = i - 1 /\ a + 1 = i
    OBVIOUS
  <2>2. (a + 1) * N = a * N + N /\ a * N \in Int
    BY NextTimes
  <2>3. PICK v \in Int : v = a * N
    BY <2>2
  <2>4. i * N = v + N
    BY <2>1, <2>2, <2>3
  <2>5. QED
    BY <2>1, <2>3, <2>4
<1>2. Number(c, i) = c + v
  BY <1>1 DEF Number
<1>3. Number(c, i + 1) = c + u
  <2>1. (i + 1) - 1 = i
    OBVIOUS
  <2>2. QED
    BY <1>1, <2>1 DEF Number
<1>4. PICK y \in Int, z \in Int : y = c + v /\ z = c + u /\ z = y + N
  BY <1>1
<1>5. QED
  BY <1>1, <1>2, <1>3, <1>4

WTasks == {WTile(b, x) : b \in W!Batches, x \in Nat}
WCursor == [taskIdx : Nat, curBatch : Nat, preTotal : Nat, curTotal : Nat, cachedBatch : Int,
            qSeqlen : Nat, kvSeqlen : Nat, curQNBlockNum : Nat]

(* What core c has run are the tiles of its numbers; its cursor is at the  *)
(* sequence of the next, or before it.                                     *)
WRanRight(c, list) ==
  \A i \in 1 .. Len(list) : \E b \in W!Batches : /\ Within(W!totalBefore, b, Number(c, i))
                                                 /\ list[i] = WTile(b, Number(c, i))
WCached(w) ==
  /\ w.cachedBatch \in W!NoBatch .. w.curBatch
  /\ w.cachedBatch = w.curBatch => /\ w.kvSeqlen = W!KvSeqLenOf(w.curBatch) + launch.new
                                   /\ w.curQNBlockNum = W!curQNBlockNum(w.qSeqlen)
WPlace(w) ==
  /\ w.curBatch \in W!Batches /\ w.qSeqlen = W!QSeqLenOf(w.curBatch)
  /\ w.preTotal = W!totalBefore[w.curBatch] /\ w.curTotal = W!totalBefore[w.curBatch + 1]
  /\ w.preTotal <= w.taskIdx
WAt(c, w, list) ==
  /\ w \in WCursor /\ list \in Seq(WTasks)
  /\ w.taskIdx = c + Len(list) * launch.coreNum /\ w.taskIdx < W!totalTaskNum + launch.coreNum
  /\ WPlace(w) /\ WCached(w) /\ WRanRight(c, list)
WInv ==
  /\ launch \in Launches
  /\ core = [c \in W!Cores |-> core[c]] /\ ran = [c \in W!Cores |-> ran[c]]
  /\ \A c \in W!Cores : WAt(c, core[c], ran[c])

LEMMA WSame ==
  ASSUME launch' = launch
  PROVE  /\ W!Cores' = W!Cores /\ WTasks' = WTasks
         /\ \A c, w, list : WAt(c, w, list)' = WAt(c, w, list)
<1>1. W!totalBefore' = W!totalBefore
  BY WTotalSame
<1>2. /\ W!Cores' = W!Cores /\ W!Batches' = W!Batches /\ W!totalTaskNum' = W!totalTaskNum
      /\ \A b : W!QSeqLenOf(b)' = W!QSeqLenOf(b) /\ W!KvSeqLenOf(b)' = W!KvSeqLenOf(b)
  BY <1>1 DEF W!Cores, W!Batches, W!totalTaskNum, W!QSeqLenOf, W!KvSeqLenOf
<1>3. \A q : /\ W!GetQNBlockTile(q)' = W!GetQNBlockTile(q)
             /\ W!qNBlockNumPerGroup(q)' = W!qNBlockNumPerGroup(q)
             /\ W!curQNBlockNum(q)' = W!curQNBlockNum(q)
  BY DEF W!GetQNBlockTile, W!qNBlockNumPerGroup, W!curQNBlockNum
<1>4. \A w : W!Tile(w)' = W!Tile(w)
  BY <1>2, <1>3 DEF W!Tile, W!pipelineDrain, W!curQSBlockNum
<1>5. \A b, x : WTile(b, x)' = WTile(b, x)
  BY <1>1, <1>2, <1>3, <1>4 DEF WTile
<1>6. WTasks' = WTasks
  BY <1>2, <1>5 DEF WTasks
<1>7. \A c, list : WRanRight(c, list)' = WRanRight(c, list)
  BY <1>1, <1>2, <1>5 DEF WRanRight, Number
<1>8. \A w : WPlace(w)' = WPlace(w) /\ WCached(w)' = WCached(w)
  BY <1>1, <1>2, <1>3 DEF WPlace, WCached
<1>9. \A c, w, list : WAt(c, w, list)' = WAt(c, w, list)
  BY <1>2, <1>6, <1>7, <1>8 DEF WAt, WCursor
<1>10. QED
  BY <1>2, <1>6, <1>9

LEMMA WInvInit ==
  ASSUME W!Init
  PROVE  WInv
<1>1. launch \in Launches
  BY DEF W!Init
<1>2. ASSUME NEW c \in W!Cores
      PROVE  WAt(c, core[c], ran[c])
  <2>1. /\ core[c] = [taskIdx |-> c, curBatch |-> 0, preTotal |-> 0, curTotal |-> W!firstBatchTaskNum,
                      cachedBatch |-> W!NoBatch, qSeqlen |-> W!QSeqLenOf(0), kvSeqlen |-> 0,
                      curQNBlockNum |-> 0]
        /\ ran[c] = << >>
    BY <1>2 DEF W!Init
  <2>2. c \in Nat /\ c < launch.coreNum /\ launch.coreNum \in Nat \ {0}
    BY <1>1, <1>2, WLaunch DEF W!Cores
  <2>3. 0 \in W!Batches /\ W!QSeqLenOf(0) \in Nat
    BY <1>1, WLaunch
  <2>4. /\ W!totalBefore[0] = 0 /\ W!totalBefore[0 + 1] = W!firstBatchTaskNum /\ W!firstBatchTaskNum \in Nat
    <3>1. W!totalBefore[0] = 0 /\ W!totalBefore[0 + 1] = W!totalBefore[0] + W!firstBatchTaskNum
      BY <1>1, <2>3, WSums DEF Sums, W!firstBatchTaskNum
    <3>2. W!firstBatchTaskNum \in Nat
      BY <1>1, <2>3, WCounts DEF W!firstBatchTaskNum
    <3>3. QED
      BY <3>1, <3>2
  <2>5. W!totalTaskNum \in Nat
    <3>1. Len(launch.q) \in 0 .. Len(launch.q)
      BY <1>1, WLaunch
    <3>2. QED
      BY <1>1, <3>1, WSums DEF Sums, W!totalTaskNum
  <2>6. core[c] \in WCursor
    BY <2>1, <2>2, <2>3, <2>4 DEF WCursor, W!NoBatch
  <2>7. ran[c] \in Seq(WTasks) /\ Len(ran[c]) = 0
    BY <2>1
  <2>8. core[c].taskIdx = c + Len(ran[c]) * launch.coreNum
    BY <2>1, <2>2, <2>7
  <2>9. core[c].taskIdx < W!totalTaskNum + launch.coreNum
    BY <2>1, <2>2, <2>5
  <2>10. WPlace(core[c])
    BY <2>1, <2>2, <2>3, <2>4 DEF WPlace
  <2>11. WCached(core[c])
    BY <2>1 DEF WCached, W!NoBatch
  <2>12. WRanRight(c, ran[c])
    BY <2>7 DEF WRanRight
  <2>13. QED
    BY <2>6, <2>7, <2>8, <2>9, <2>10, <2>11, <2>12 DEF WAt
<1>3. core = [c \in W!Cores |-> core[c]] /\ ran = [c \in W!Cores |-> ran[c]]
  BY DEF W!Init
<1>4. QED
  BY <1>1, <1>2, <1>3 DEF WInv

(* The invariant after a step of core c, from its new values.              *)
LEMMA WCoreNext ==
  ASSUME WInv, launch' = launch, NEW c \in W!Cores, NEW w2, NEW list2, WAt(c, w2, list2),
         core' = [core EXCEPT ![c] = w2], ran' = [ran EXCEPT ![c] = list2]
  PROVE  WInv'
<1>1. /\ core' = [d \in W!Cores |-> core'[d]] /\ ran' = [d \in W!Cores |-> ran'[d]]
      /\ \A d \in W!Cores : WAt(d, core'[d], ran'[d])
  BY DEF WInv
<1>2. W!Cores' = W!Cores /\ \A d, w, list : WAt(d, w, list)' = WAt(d, w, list)
  BY WSame
<1>3. launch' \in Launches
  BY DEF WInv
<1>4. QED
  BY <1>1, <1>2, <1>3 DEF WInv

(* What the updates of a cursor leave.                                     *)
WMoved(w, b, p, q, total) ==
  [w EXCEPT !.curBatch = b, !.preTotal = p, !.qSeqlen = q, !.curTotal = total]
WRefreshed(w, kv, blocks, b) ==
  [w EXCEPT !.kvSeqlen = kv, !.curQNBlockNum = blocks, !.cachedBatch = b]

LEMMA WMoves ==
  ASSUME NEW w \in WCursor, NEW b, NEW p, NEW q, NEW total,
         b \in Nat /\ p \in Nat /\ q \in Nat /\ total \in Nat,
         NEW w2, w2 = WMoved(w, b, p, q, total)
  PROVE  /\ w2.taskIdx = w.taskIdx /\ w2.curBatch = b /\ w2.preTotal = p /\ w2.curTotal = total
         /\ w2.cachedBatch = w.cachedBatch /\ w2.qSeqlen = q /\ w2.kvSeqlen = w.kvSeqlen
         /\ w2.curQNBlockNum = w.curQNBlockNum /\ w2 \in WCursor
BY DEF WCursor, WMoved

LEMMA WRefreshes ==
  ASSUME NEW w \in WCursor, NEW kv, NEW blocks, NEW b,
         kv \in Nat /\ blocks \in Nat /\ b \in Int,
         NEW w2, w2 = WRefreshed(w, kv, blocks, b)
  PROVE  /\ w2.taskIdx = w.taskIdx /\ w2.curBatch = w.curBatch /\ w2.preTotal = w.preTotal
         /\ w2.curTotal = w.curTotal /\ w2.cachedBatch = b /\ w2.qSeqlen = w.qSeqlen
         /\ w2.kvSeqlen = kv /\ w2.curQNBlockNum = blocks /\ w2 \in WCursor
BY DEF WCursor, WRefreshed

LEMMA WNextBatchKeeps ==
  ASSUME WInv, NEW c \in W!Cores, W!NextBatch(c)
  PROVE  WInv'
<1> DEFINE n == Len(launch.q)
<1>1. PICK w, list : w = core[c] /\ list = ran[c] /\ WAt(c, w, list) /\ w \in WCursor
  BY DEF WInv, WAt
<1>2. PICK b, q, w2 :
        /\ b = w.curBatch + 1 /\ q = W!QSeqLenOf(b)
        /\ w2 = WMoved(w, b, w.curTotal, q, w.curTotal + W!curTaskNum(q))
        /\ core' = [core EXCEPT ![c] = w2]
  BY <1>1 DEF W!NextBatch, W!PreTotal, WMoved
<1>3. launch \in Launches /\ n \in Nat /\ W!Batches = 0 .. n - 1 /\ w.curBatch \in W!Batches
  BY <1>1, WLaunch DEF WInv, WAt, WPlace
<1>4. Sums(W!totalBefore, n)
  BY <1>3, WSums
<1>5. /\ w.taskIdx < W!totalBefore[n] /\ W!totalBefore[b] <= w.taskIdx /\ w.curTotal = W!totalBefore[b]
  BY <1>1, <1>2 DEF W!NextBatch, W!Walks, W!totalTaskNum, WAt, WPlace
<1>6. b \in W!Batches
  <2>1. b # n
    <3>1. w.taskIdx \in Nat /\ W!totalBefore[n] \in Nat
      <4>1. w.taskIdx \in Nat
        BY <1>1 DEF WCursor
      <4>2. W!totalBefore[n] \in Nat
        BY <1>3, <1>4 DEF Sums
      <4>3. QED
        BY <4>1, <4>2
    <3>2. QED
      BY <1>5, <3>1
  <2>2. QED
    BY <1>2, <1>3, <2>1
<1>7. q \in Nat /\ W!curTaskNum(q) \in Nat /\ W!totalBefore[b + 1] = W!totalBefore[b] + W!curTaskNum(q)
      /\ W!totalBefore[b] \in Nat
  <2>1. q \in Nat
    BY <1>2, <1>3, <1>6, WLaunch
  <2>2. b \in 0 .. n
    BY <1>3, <1>6
  <2>3. QED
    BY <1>2, <1>3, <1>4, <1>6, <2>1, <2>2, WCounts, WSums DEF Sums
<1>8. /\ w2.taskIdx = w.taskIdx /\ w2.curBatch = b /\ w2.preTotal = W!totalBefore[b]
      /\ w2.curTotal = W!totalBefore[b + 1] /\ w2.cachedBatch = w.cachedBatch /\ w2.qSeqlen = q
      /\ w2.kvSeqlen = w.kvSeqlen /\ w2.curQNBlockNum = w.curQNBlockNum /\ w2 \in WCursor
  <2>1. b \in Nat /\ q \in Nat /\ w.curTotal \in Nat
        /\ w.curTotal + W!curTaskNum(q) \in Nat /\ w.curTotal + W!curTaskNum(q) = W!totalBefore[b + 1]
    BY <1>3, <1>5, <1>6, <1>7
  <2>2. PICK p, total : p = w.curTotal /\ total = w.curTotal + W!curTaskNum(q)
    OBVIOUS
  <2>3. w2 = WMoved(w, b, p, q, total) /\ w \in WCursor
    BY <1>1, <1>2, <2>2
  <2>4. b \in Nat /\ p \in Nat /\ q \in Nat /\ total \in Nat
    BY <2>1, <2>2
  <2>5. /\ w2.taskIdx = w.taskIdx /\ w2.curBatch = b /\ w2.preTotal = p /\ w2.curTotal = total
        /\ w2.cachedBatch = w.cachedBatch /\ w2.qSeqlen = q /\ w2.kvSeqlen = w.kvSeqlen
        /\ w2.curQNBlockNum = w.curQNBlockNum /\ w2 \in WCursor
    BY <2>3, <2>4, WMoves
  <2>6. QED
    BY <1>5, <2>1, <2>2, <2>5
<1>9. WPlace(w2)
  BY <1>2, <1>5, <1>6, <1>8 DEF WPlace
<1>10. WAt(c, w2, list)
  <2>1. WCached(w) /\ WPlace(w)
    BY <1>1 DEF WAt
  <2>2. WCached(w2)
    <3>1. w2.cachedBatch \in W!NoBatch .. w2.curBatch /\ w2.cachedBatch # w2.curBatch
      BY <1>2, <1>3, <1>8, <2>1 DEF WCached, W!NoBatch
    <3>2. QED
      BY <3>1 DEF WCached
  <2>3. QED
    BY <1>1, <1>8, <1>9, <2>2 DEF WAt
<1>11. launch' = launch /\ ran' = [ran EXCEPT ![c] = list]
  BY <1>1 DEF W!NextBatch, WInv
<1>12. QED
  BY <1>2, <1>10, <1>11, WCoreNext

(* One more for a list of tasks. *)
LEMMA AppendIs ==
  ASSUME NEW S, NEW list \in Seq(S), NEW e \in S
  PROVE  /\ Append(list, e) \in Seq(S) /\ Len(Append(list, e)) = Len(list) + 1 /\ Len(list) \in Nat
         /\ Append(list, e)[Len(list) + 1] = e
         /\ \A i \in 1 .. Len(list) : Append(list, e)[i] = list[i]
OBVIOUS

LEMMA WRunTaskKeeps ==
  ASSUME WInv, NEW c \in W!Cores, W!RunTask(c)
  PROVE  WInv'
<1> DEFINE n == Len(launch.q)
<1>1. PICK w, list : w = core[c] /\ list = ran[c] /\ WAt(c, w, list) /\ w \in WCursor
                     /\ list \in Seq(WTasks)
  BY DEF WInv, WAt
<1>2. PICK w1, w2, t, list2 :
        /\ w1 = W!Cached(w) /\ w2 = [w1 EXCEPT !.taskIdx = w1.taskIdx + launch.coreNum]
        /\ t = W!Tile(w1) /\ list2 = Append(list, t)
        /\ core' = [core EXCEPT ![c] = w2] /\ ran' = [ran EXCEPT ![c] = list2]
        /\ launch' = launch
  BY <1>1 DEF W!RunTask
<1>3. PICK N \in Nat \ {0} : N = launch.coreNum
  BY WLaunch DEF WInv
<1>4. launch \in Launches /\ n \in Nat /\ W!Batches = 0 .. n - 1
  BY WLaunch DEF WInv
<1>5. WPlace(w) /\ WCached(w) /\ WRanRight(c, list)
      /\ w.taskIdx = c + Len(list) * N /\ w.taskIdx < W!totalTaskNum + N
  BY <1>1, <1>3 DEF WAt
<1>6. PICK b \in W!Batches, x \in Nat, q \in Nat :
        /\ b = w.curBatch /\ x = w.taskIdx /\ q = W!QSeqLenOf(b) /\ q = w.qSeqlen
        /\ b \in Nat /\ W!curQNBlockNum(q) \in Nat
  <2>1. w.curBatch \in W!Batches /\ w.taskIdx \in Nat /\ w.qSeqlen = W!QSeqLenOf(w.curBatch)
    BY <1>1, <1>5 DEF WPlace, WCursor
  <2>2. W!QSeqLenOf(w.curBatch) \in Nat /\ w.curBatch \in Nat
    BY <1>4, <2>1, WLaunch
  <2>3. W!curQNBlockNum(W!QSeqLenOf(w.curBatch)) \in Nat
    BY <1>4, <2>2, WCounts
  <2>4. QED
    BY <2>1, <2>2, <2>3
<1>7. Within(W!totalBefore, b, x) /\ x < W!totalTaskNum
  BY <1>1, <1>5, <1>6 DEF W!RunTask, W!Walks, WPlace, Within
<1>8. /\ w1.taskIdx = x /\ w1.curBatch = b /\ w1.preTotal = W!totalBefore[b]
      /\ w1.curTotal = W!totalBefore[b + 1] /\ w1.qSeqlen = q /\ w1.cachedBatch = b
      /\ w1.kvSeqlen = W!KvSeqLenOf(b) + launch.new /\ w1.curQNBlockNum = W!curQNBlockNum(q)
      /\ w1 \in WCursor
  <2>1. /\ w.preTotal = W!totalBefore[b] /\ w.curTotal = W!totalBefore[b + 1]
        /\ W!KvSeqLenOf(b) + launch.new \in Nat
    <3>1. W!KvSeqLenOf(b) \in Nat /\ launch.new \in Nat
      BY <1>4, <1>6, WLaunch
    <3>2. QED
      BY <1>5, <1>6, <3>1 DEF WPlace
  <2>2. CASE w.curBatch # w.cachedBatch
    <3>1. w1 = WRefreshed(w, W!KvSeqLenOf(b) + launch.new, W!curQNBlockNum(q), b)
      BY <1>2, <1>6, <2>2 DEF W!Cached, W!Refresh, WRefreshed
    <3>2. QED
      BY <1>1, <1>6, <2>1, <3>1, WRefreshes
  <2>3. CASE w.curBatch = w.cachedBatch
    <3>1. w1 = w
      BY <1>2, <2>3 DEF W!Cached, W!Refresh
    <3>2. QED
      BY <1>1, <1>5, <1>6, <2>1, <2>3, <3>1 DEF WCached
  <2>4. QED
    BY <2>2, <2>3
<1>9. t = WTile(b, x)
  BY <1>2, <1>6, <1>8 DEF WTile, W!Tile, W!pipelineDrain
<1>10. /\ w2.taskIdx = x + N /\ w2.curBatch = b /\ w2.preTotal = W!totalBefore[b]
       /\ w2.curTotal = W!totalBefore[b + 1] /\ w2.qSeqlen = q /\ w2.cachedBatch = b
       /\ w2.kvSeqlen = W!KvSeqLenOf(b) + launch.new /\ w2.curQNBlockNum = W!curQNBlockNum(q)
       /\ w2 \in WCursor
  <2>1. x + N \in Nat
    OBVIOUS
  <2>2. QED
    BY <1>2, <1>3, <1>8, <2>1 DEF WCursor
<1>11. WPlace(w2) /\ WCached(w2)
  <2>1. W!totalBefore[b] <= x + N
    <3>1. W!totalBefore[b] \in Nat
      BY <1>8 DEF WCursor
    <3>2. QED
      BY <1>7, <3>1 DEF Within
  <2>2. b \in W!NoBatch .. b
    BY <1>6 DEF W!NoBatch
  <2>3. QED
    BY <1>6, <1>10, <2>1, <2>2 DEF WPlace, WCached
<1>12. PICK l \in Nat : /\ l = Len(list) /\ Len(list2) = l + 1 /\ list2 \in Seq(WTasks)
                        /\ list2[l + 1] = t /\ \A i \in 1 .. l : list2[i] = list[i]
  <2>1. t \in WTasks
    BY <1>9 DEF WTasks
  <2>2. /\ Len(list2) = Len(list) + 1 /\ list2 \in Seq(WTasks) /\ Len(list) \in Nat
        /\ list2[Len(list) + 1] = t /\ \A i \in 1 .. Len(list) : list2[i] = list[i]
    BY <1>1, <1>2, <2>1, AppendIs
  <2>3. QED
    BY <2>2
<1>13. c \in Int /\ x = c + l * N /\ (l + 1) * N = l * N + N /\ l * N \in Int
  <2>1. c \in Int
    BY <1>3 DEF W!Cores
  <2>2. x = c + l * N
    BY <1>5, <1>6, <1>12
  <2>3. l \in Int /\ N \in Nat
    BY <1>3, <1>12
  <2>4. l * N \in Int /\ (l + 1) * N = l * N + N
    BY <2>3, NextTimes
  <2>5. QED
    BY <2>1, <2>2, <2>4
<1>14. w2.taskIdx = c + (l + 1) * N /\ w2.taskIdx < W!totalTaskNum + N
  <2>1. W!totalTaskNum \in Nat
    <3>1. Len(launch.q) \in 0 .. Len(launch.q)
      BY <1>4, WLaunch
    <3>2. QED
      BY <1>4, <3>1, WSums DEF Sums, W!totalTaskNum
  <2>2. QED
    BY <1>7, <1>10, <1>13, <2>1
<1>15. WRanRight(c, list2)
  <2>1. ASSUME NEW i \in 1 .. Len(list2)
        PROVE  \E d \in W!Batches : /\ Within(W!totalBefore, d, Number(c, i))
                                    /\ list2[i] = WTile(d, Number(c, i))
    <3>1. CASE i \in 1 .. l
      BY <1>5, <1>12, <3>1 DEF WRanRight
    <3>2. CASE i = l + 1
      <4>1. Number(c, i) = x
        BY <1>3, <1>13, <3>2 DEF Number
      <4>2. QED
        BY <1>7, <1>9, <1>12, <3>2, <4>1
    <3>3. QED
      BY <1>12, <3>1, <3>2
  <2>2. QED
    BY <2>1 DEF WRanRight
<1>16. WAt(c, w2, list2)
  BY <1>3, <1>10, <1>11, <1>12, <1>14, <1>15 DEF WAt
<1>17. QED
  BY <1>2, <1>16, WCoreNext

-----------------------------------------------------------------------------
(* Tasks: what the walk amounts to.                                        *)

(* A number belongs to one core, and to one of its tasks.                  *)
LEMMA NumbersApart ==
  ASSUME NEW N \in Nat \ {0}, N = launch.coreNum, NEW c \in 0 .. N - 1, NEW d \in 0 .. N - 1,
         NEW i \in Nat, NEW j \in Nat, Number(c, i) = Number(d, j)
  PROVE  c = d /\ i = j
<1>1. PICK a \in Int, b \in Int, x \in Int : a = i - 1 /\ b = j - 1 /\ x = c + a * N /\ x = d + b * N
  <2>1. PICK a \in Int, b \in Int : a = i - 1 /\ b = j - 1
    OBVIOUS
  <2>2. PICK x \in Int : x = c + a * N
    BY <2>1
  <2>3. Number(c, i) = x /\ Number(d, j) = d + b * N
    BY <2>1, <2>2 DEF Number
  <2>4. QED
    BY <2>1, <2>2, <2>3
<1>2. x = a * N + c /\ x = b * N + d
  BY <1>1
<1>3. x \div N = a /\ x % N = c
  BY <1>1, <1>2, DivUnique, SMTT(30)
<1>4. x \div N = b /\ x % N = d
  BY <1>1, <1>2, DivUnique, SMTT(30)
<1>5. QED
  BY <1>1, <1>3, <1>4

(* Every number has a core and a place in its list. *)
LEMMA NumberOf ==
  ASSUME NEW N \in Nat \ {0}, N = launch.coreNum, NEW x \in Nat
  PROVE  \E c \in 0 .. N - 1, d \in Nat : x = c + d * N /\ Number(c, d + 1) = x
<1>1. PICK d \in Int, c \in 0 .. N - 1, u \in Int : x \div N = d /\ x % N = c /\ u = d * N /\ x = u + c
  <2>1. x \in Int
    OBVIOUS
  <2>2. QED
    BY <2>1, DivPick
<1>2. d \in Nat
  BY <1>1, QuotientNat
<1>3. (d + 1) - 1 = d /\ x = c + d * N
  BY <1>1
<1>4. Number(c, d + 1) = x
  BY <1>3 DEF Number
<1>5. QED
  BY <1>1, <1>2, <1>3, <1>4

LEMMA WTotal ==
  ASSUME launch \in Launches
  PROVE  /\ W!totalTaskNum \in Nat
         /\ \A b \in W!Batches : \A x : Within(W!totalBefore, b, x) => x \in Nat /\ x < W!totalTaskNum
<1>1. PICK n \in Nat : n = Len(launch.q) /\ W!Batches = 0 .. n - 1 /\ W!totalTaskNum = W!totalBefore[n]
  BY WLaunch DEF W!totalTaskNum
<1>2. Sums(W!totalBefore, n)
  BY <1>1, WSums
<1>3. W!totalBefore[n] \in Nat
  BY <1>2 DEF Sums
<1>4. ASSUME NEW b \in W!Batches, NEW x, Within(W!totalBefore, b, x)
      PROVE  x \in Nat /\ x < W!totalTaskNum
  <2>1. b + 1 \in 0 .. n /\ n \in b + 1 .. n
    BY <1>1
  <2>2. W!totalBefore[b + 1] <= W!totalBefore[n] /\ W!totalBefore[b + 1] \in Nat
    BY <1>2, <2>1, SumsGrow DEF Sums
  <2>3. QED
    BY <1>1, <1>3, <1>4, <2>2 DEF Within
<1>5. QED
  BY <1>1, <1>3, <1>4

(* The tasks of a core, and its cursor. *)
LEMMA WCore ==
  ASSUME WInv, NEW c \in W!Cores
  PROVE  \E N \in Nat \ {0}, l \in Nat, x \in Nat, total \in Nat :
           /\ N = launch.coreNum /\ c \in 0 .. N - 1
           /\ l = Len(ran[c]) /\ DOMAIN ran[c] = 1 .. l
           /\ total = W!totalTaskNum
           /\ x = core[c].taskIdx /\ x = c + l * N /\ x < total + N
           /\ \A i \in 1 .. l : \E b \in W!Batches :
                /\ Within(W!totalBefore, b, Number(c, i)) /\ ran[c][i] = WTile(b, Number(c, i))
                /\ Number(c, i) < total
<1>1. launch \in Launches /\ WAt(c, core[c], ran[c])
  BY DEF WInv
<1>2. PICK N \in Nat \ {0} : N = launch.coreNum /\ c \in 0 .. N - 1
  BY <1>1, WLaunch DEF W!Cores
<1>3. PICK l \in Nat : l = Len(ran[c]) /\ DOMAIN ran[c] = 1 .. l
  BY <1>1 DEF WAt
<1>4. PICK x \in Nat : x = core[c].taskIdx /\ x = c + l * N /\ x < W!totalTaskNum + N
  BY <1>1, <1>2, <1>3 DEF WAt, WCursor
<1>5. ASSUME NEW i \in 1 .. l
      PROVE  \E b \in W!Batches :
                /\ Within(W!totalBefore, b, Number(c, i)) /\ ran[c][i] = WTile(b, Number(c, i))
                /\ Number(c, i) < W!totalTaskNum
  <2>1. PICK b \in W!Batches : /\ Within(W!totalBefore, b, Number(c, i))
                               /\ ran[c][i] = WTile(b, Number(c, i))
    BY <1>1, <1>3 DEF WAt, WRanRight
  <2>2. QED
    BY <1>1, <2>1, WTotal
<1>6. QED
  BY <1>1, <1>2, <1>3, <1>4, <1>5, WTotal

LEMMA WDrainIs ==
  ASSUME NEW b, NEW x
  PROVE  WTile(b, x).drain = (x + launch.coreNum >= W!totalTaskNum)
BY DEF WTile, W!Tile, W!pipelineDrain

LEMMA WDrainsLast ==
  ASSUME WInv
  PROVE  W!DrainsLast
<1>1. SUFFICES ASSUME NEW c \in W!Cores, NEW i \in DOMAIN ran[c]
               PROVE  ran[c][i].drain <=> i = Len(ran[c]) /\ ~W!Walks(c)
  BY DEF W!DrainsLast
<1>2. PICK N \in Nat \ {0}, l \in Nat, x \in Nat, total \in Nat :
           /\ N = launch.coreNum /\ c \in 0 .. N - 1
           /\ l = Len(ran[c]) /\ DOMAIN ran[c] = 1 .. l
           /\ total = W!totalTaskNum
           /\ x = core[c].taskIdx /\ x = c + l * N /\ x < total + N
           /\ \A j \in 1 .. l : \E b \in W!Batches :
                /\ Within(W!totalBefore, b, Number(c, j)) /\ ran[c][j] = WTile(b, Number(c, j))
                /\ Number(c, j) < total
  BY WCore
<1>3. i \in 1 .. l
  BY <1>1, <1>2
<1>4. PICK y \in Int, z \in Int : y = Number(c, i) /\ z = Number(c, i + 1) /\ z = y + N /\ z = c + i * N
  <2>1. c \in Int /\ i \in Int /\ N \in Nat
    BY <1>2, <1>3
  <2>2. N = launch.coreNum
    BY <1>2
  <2>3. QED
    BY <2>1, <2>2, NextNumber, ZenonT(30)
<1>5. z = y + N
  BY <1>4
<1>6. ran[c][i].drain <=> y + N >= total
  <2>1. PICK b : ran[c][i] = WTile(b, y)
    BY <1>2, <1>3, <1>4
  <2>2. ran[c][i].drain = (y + launch.coreNum >= W!totalTaskNum)
    BY <2>1, WDrainIs
  <2>3. QED
    BY <1>2, <2>2
<1>7. CASE i = l
  <2>1. z = x
    BY <1>2, <1>4, <1>7
  <2>2. ~W!Walks(c) <=> x >= total
    <3>1. W!Walks(c) <=> x < total
      BY <1>2 DEF W!Walks
    <3>2. x \in Int /\ total \in Int
      OBVIOUS
    <3>3. QED
      BY <3>1, <3>2
  <2>3. QED
    BY <1>2, <1>5, <1>6, <1>7, <2>1, <2>2
<1>8. CASE i # l
  <2>1. i + 1 \in 1 .. l
    BY <1>3, <1>8
  <2>2. z < total
    BY <1>2, <1>4, <2>1
  <2>3. ~(y + N >= total)
    BY <1>5, <2>2
  <2>4. ~(i = Len(ran[c]))
    BY <1>2, <1>8
  <2>5. QED
    BY <1>6, <2>3, <2>4
<1>9. QED
  BY <1>7, <1>8

LEMMA WCursorRight ==
  ASSUME WInv
  PROVE  W!CursorRight
<1>1. SUFFICES ASSUME NEW c \in W!Cores, NEW w, w = core[c]
               PROVE  /\ w.taskIdx \in 0 .. W!totalTaskNum + launch.coreNum - 1
                      /\ w.curBatch \in W!Batches /\ w.cachedBatch \in W!Batches \cup {W!NoBatch}
                      /\ w.preTotal = W!totalBefore[w.curBatch]
                      /\ w.curTotal = W!totalBefore[w.curBatch + 1]
                      /\ w.qSeqlen = W!QSeqLenOf(w.curBatch)
                      /\ w.kvSeqlen \in Nat /\ w.curQNBlockNum \in Nat
                      /\ Len(ran[c]) <= W!totalTaskNum
  BY DEF W!CursorRight
<1>2. PICK N \in Nat \ {0}, l \in Nat, x \in Nat, total \in Nat :
           /\ N = launch.coreNum /\ c \in 0 .. N - 1
           /\ l = Len(ran[c])
           /\ total = W!totalTaskNum
           /\ x = w.taskIdx /\ x < total + N
           /\ \A j \in 1 .. l : Number(c, j) < total
  BY <1>1, WCore
<1>3. w \in WCursor /\ WPlace(w) /\ WCached(w)
  BY <1>1 DEF WInv, WAt
<1>4. l <= total
  <2>1. CASE l = 0
    BY <2>1
  <2>2. CASE l # 0
    <3>1. PICK a \in Nat : a = l - 1 /\ Number(c, l) = c + a * N
      BY <1>2, <2>2 DEF Number
    <3>2. c + a * N < total
      BY <1>2, <2>2, <3>1
    <3>3. a <= a * N
      <4>1. PICK m \in Nat : N = m + 1
        <5>1. PICK m \in Int : m = N - 1
          OBVIOUS
        <5>2. m \in Nat /\ N = m + 1
          BY <5>1
        <5>3. QED
          BY <5>2
      <4>2. 1 * a <= N * a
        BY <4>1, TimesGrows
      <4>3. QED
        BY <4>2
    <3>4. PICK p \in Nat : p = a * N
      BY <3>1
    <3>5. QED
      BY <1>2, <3>1, <3>2, <3>3, <3>4
  <2>3. QED
    BY <2>1, <2>2
<1>5. w.taskIdx \in 0 .. W!totalTaskNum + launch.coreNum - 1
  BY <1>2
<1>6. w.cachedBatch \in W!Batches \cup {W!NoBatch}
  <2>1. PICK n \in Nat : W!Batches = 0 .. n - 1
    BY WLaunch DEF WInv
  <2>2. w.curBatch \in 0 .. n - 1 /\ w.cachedBatch \in -1 .. w.curBatch
    BY <1>3, <2>1 DEF WPlace, WCached, W!NoBatch
  <2>3. QED
    BY <2>1, <2>2 DEF W!NoBatch
<1>7. QED
  BY <1>2, <1>3, <1>4, <1>5, <1>6 DEF WPlace, WCursor

(* Nothing of it changes with the other parts. *)
LEMMA WInvSame ==
  ASSUME WInv, UNCHANGED walkVars
  PROVE  WInv'
<1>1. launch' = launch /\ core' = core /\ ran' = ran
  BY DEF walkVars
<1>2. W!Cores' = W!Cores /\ \A d, w, list : WAt(d, w, list)' = WAt(d, w, list)
  BY <1>1, WSame
<1>3. QED
  BY <1>1, <1>2 DEF WInv

(* The tasks that were run.                                                *)
LEMMA WRan ==
  ASSUME WInv, NEW y \in W!Ran
  PROVE  \E c \in W!Cores, i \in Nat, b \in W!Batches, x \in Nat :
           /\ y = <<c, i>> /\ x = Number(c, i) /\ Within(W!totalBefore, b, x)
           /\ W!Task(y) = WTile(b, x)
<1>1. PICK c \in W!Cores : \E i \in DOMAIN ran[c] : y = <<c, i>>
  BY DEF W!Ran
<1>2. PICK i \in DOMAIN ran[c] : y = <<c, i>>
  BY <1>1
<1>3. PICK l \in Nat : /\ DOMAIN ran[c] = 1 .. l
                       /\ \A j \in 1 .. l : \E b \in W!Batches :
                            /\ Within(W!totalBefore, b, Number(c, j)) /\ ran[c][j] = WTile(b, Number(c, j))
  BY WCore
<1>4. i \in 1 .. l /\ i \in Nat
  BY <1>3
<1>5. PICK b \in W!Batches : /\ Within(W!totalBefore, b, Number(c, i)) /\ ran[c][i] = WTile(b, Number(c, i))
  BY <1>3, <1>4
<1>6. W!Task(y) = ran[c][i]
  BY <1>2 DEF W!Task
<1>7. Number(c, i) \in Nat
  BY <1>5 DEF Within
<1>8. QED
  BY <1>2, <1>4, <1>5, <1>6, <1>7

(* In the end every number was. *)
LEMMA WAllRan ==
  ASSUME WInv, W!AllDone, NEW b \in W!Batches, NEW x, Within(W!totalBefore, b, x)
  PROVE  \E y \in W!Ran : W!Task(y) = WTile(b, x)
<1>1. launch \in Launches
  BY DEF WInv
<1>2. PICK N \in Nat \ {0} : N = launch.coreNum /\ W!Cores = 0 .. N - 1
  BY <1>1, WLaunch DEF W!Cores
<1>3. PICK z \in Nat, total \in Nat : z = x /\ total = W!totalTaskNum /\ z < total
  BY <1>1, WTotal
<1>4. PICK c \in 0 .. N - 1, d \in Nat : z = c + d * N /\ Number(c, d + 1) = z
  BY <1>2, NumberOf
<1>5. PICK l \in Nat, v \in Nat : DOMAIN ran[c] = 1 .. l /\ v = core[c].taskIdx /\ v = c + l * N
  <2>1. c \in W!Cores
    BY <1>2
  <2>2. /\ ran[c] \in Seq(WTasks) /\ core[c] \in WCursor
        /\ core[c].taskIdx = c + Len(ran[c]) * launch.coreNum
    BY <2>1 DEF WInv, WAt
  <2>3. PICK l \in Nat : l = Len(ran[c]) /\ DOMAIN ran[c] = 1 .. l
    BY <2>2
  <2>4. QED
    BY <1>2, <2>2, <2>3 DEF WCursor
<1>6. total <= v
  <2>1. ~ v < total
    BY <1>2, <1>3, <1>5 DEF W!AllDone, W!Walks
  <2>2. QED
    BY <1>3, <1>5, <2>1
<1>7. d * N < l * N
  <2>1. PICK u \in Nat, w \in Nat : u = d * N /\ w = l * N
    OBVIOUS
  <2>2. u < w
    BY <1>3, <1>4, <1>5, <1>6, <2>1
  <2>3. QED
    BY <2>1, <2>2
<1>8. d + 1 \in 1 .. l
  <2>1. d < l
    BY <1>7, TimesLess
  <2>2. QED
    BY <2>1
<1>9. PICK e \in W!Batches : /\ Within(W!totalBefore, e, z) /\ ran[c][d + 1] = WTile(e, z)
  <2>1. WRanRight(c, ran[c]) /\ d + 1 \in 1 .. Len(ran[c])
    <3>1. c \in W!Cores
      BY <1>2
    <3>2. WRanRight(c, ran[c]) /\ ran[c] \in Seq(WTasks)
      BY <3>1 DEF WInv, WAt
    <3>3. DOMAIN ran[c] = 1 .. Len(ran[c])
      BY <3>2
    <3>4. QED
      BY <1>5, <1>8, <3>2, <3>3
  <2>2. QED
    BY <1>4, <2>1 DEF WRanRight
<1>10. e = b
  <2>1. PICK n \in Nat : n = Len(launch.q) /\ W!Batches = 0 .. n - 1
    BY <1>1, WLaunch
  <2>2. Sums(W!totalBefore, n)
    BY <1>1, <2>1, WSums
  <2>3. QED
    BY <1>3, <1>9, <2>1, <2>2, OneStretch
<1>11. <<c, d + 1>> \in W!Ran
  BY <1>2, <1>5, <1>8 DEF W!Ran
<1>12. W!Task(<<c, d + 1>>) = WTile(b, x)
  BY <1>3, <1>9, <1>10 DEF W!Task
<1>13. QED
  BY <1>11, <1>12

(* A task that holds a row has the digits of the row. *)
LEMMA WHolder ==
  ASSUME launch \in Launches, NEW d \in W!Batches, NEW x, Within(W!totalBefore, d, x), NEW b \in W!Batches,
         NEW head \in 0 .. launch.group * launch.kvHeads - 1, NEW token \in 0 .. W!QSeqLenOf(b) - 1,
         W!Holds(WTile(d, x), b, head, token)
  PROVE  d = b /\ \E s, k, i : WShape(b, x, s, k, i) /\ InTask(W!QSeqLenOf(b), head, token, s, k, i)
<1>1. PICK s, k, i : WShape(d, x, s, k, i)
  BY WShapeOf
<1>2. d = b
  BY <1>1 DEF WShape, W!Holds
<1>3. WShape(b, x, s, k, i)
  BY <1>1, <1>2
<1>4. W!Holds(WTile(b, x), b, head, token)
  BY <1>2
<1>5. InTask(W!QSeqLenOf(b), head, token, s, k, i)
  BY <1>3, <1>4, WHolds
<1>6. QED
  BY <1>2, <1>3, <1>5

(* Two numbers with the same digits are one. *)
LEMMA SameDigits ==
  ASSUME NEW t \in Nat, NEW x \in Nat, NEW y \in Nat, NEW per, NEW h, NEW s, NEW k, NEW i,
         HasDigits(x - t, per, h, s, k, i), HasDigits(y - t, per, h, s, k, i)
  PROVE  x = y
<1>1. x - t = y - t
  BY DEF HasDigits
<1>2. QED
  BY <1>1

(* A row is in one task, of its sequence and K/V head.                     *)
WIts(b, head, token) == {x \in W!Ran : W!Holds(W!Task(x), b, head, token)}
WRowOnce(b, head, token) ==
  /\ W!Cardinality(WIts(b, head, token)) = 1
  /\ \A y \in WIts(b, head, token) : /\ W!Task(y).q = W!QSeqLenOf(b)
                                     /\ W!Task(y).kv = W!KvSeqLenOf(b) + launch.new
                                     /\ W!Task(y).kvHead = head \div launch.group

LEMMA WRowIsOnce ==
  ASSUME WInv, W!AllDone, NEW b \in W!Batches, NEW head \in 0 .. launch.group * launch.kvHeads - 1,
         NEW token \in 0 .. W!QSeqLenOf(b) - 1
  PROVE  WRowOnce(b, head, token)
<1>2. launch \in Launches
  BY DEF WInv
<1>3. PICK N \in Nat \ {0} : N = launch.coreNum /\ W!Cores = 0 .. N - 1
  BY <1>2, WLaunch DEF W!Cores
<1>4. PICK total \in Nat : total = W!totalBefore[b]
  <2>1. b \in 0 .. Len(launch.q)
    BY <1>2, WLaunch
  <2>2. QED
    BY <1>2, <2>1, WSums DEF Sums
<1>5. PICK q, per, h : q = W!QSeqLenOf(b) /\ per = W!qNBlockNumPerGroup(q) /\ h = launch.kvHeads
  OBVIOUS
<1>6. PICK x0, s0, k0, i0 : /\ Within(W!totalBefore, b, x0) /\ InTask(q, head, token, s0, k0, i0)
                            /\ HasDigits(x0 - total, per, h, s0, k0, i0) /\ x0 \in Nat
  <2>1. PICK x0, s0, k0, i0 :
          /\ Within(W!totalBefore, b, x0) /\ InTask(W!QSeqLenOf(b), head, token, s0, k0, i0)
          /\ HasDigits(x0 - W!totalBefore[b], W!qNBlockNumPerGroup(W!QSeqLenOf(b)), launch.kvHeads, s0, k0, i0)
    BY <1>2, WTaskExists
  <2>2. x0 \in Nat
    BY <2>1 DEF Within
  <2>3. QED
    BY <1>4, <1>5, <2>1, <2>2
<1>7. PICK y0 \in W!Ran : W!Task(y0) = WTile(b, x0)
  BY <1>6, WAllRan
<1>8. W!Holds(W!Task(y0), b, head, token)
  <2>1. PICK s, k, i : WShape(b, x0, s, k, i)
    BY <1>2, <1>6, WShapeOf
  <2>2. HasDigits(x0 - total, per, h, s, k, i)
    BY <1>4, <1>5, <2>1 DEF WShape
  <2>3. s = s0 /\ k = k0 /\ i = i0
    BY <1>6, <2>2, DigitsAre
  <2>4. InTask(W!QSeqLenOf(b), head, token, s, k, i)
    BY <1>5, <1>6, <2>3
  <2>5. W!Holds(WTile(b, x0), b, head, token)
    BY <1>2, <2>1, <2>4, WHolds
  <2>6. QED
    BY <1>7, <2>5
<1>9. ASSUME NEW y \in WIts(b, head, token)
      PROVE  \E c \in W!Cores, j \in Nat : /\ y = <<c, j>> /\ Number(c, j) = x0
                                           /\ W!Task(y) = WTile(b, x0)
  <2>1. PICK c \in W!Cores, j \in Nat, d \in W!Batches, x \in Nat :
           /\ y = <<c, j>> /\ x = Number(c, j) /\ Within(W!totalBefore, d, x)
           /\ W!Task(y) = WTile(d, x)
    <3>1. y \in W!Ran
      BY DEF WIts
    <3>2. QED
      BY <3>1, WRan
  <2>2. W!Holds(WTile(d, x), b, head, token)
    BY <2>1 DEF WIts
  <2>3. d = b /\ \E s, k, i : WShape(b, x, s, k, i) /\ InTask(W!QSeqLenOf(b), head, token, s, k, i)
    BY <1>2, <2>1, <2>2, WHolder
  <2>4. PICK s, k, i : WShape(b, x, s, k, i) /\ InTask(q, head, token, s, k, i)
    BY <1>5, <2>3
  <2>5. s = s0 /\ k = k0 /\ i = i0
    BY <1>6, <2>4 DEF InTask
  <2>6. HasDigits(x - total, per, h, s0, k0, i0)
    BY <1>4, <1>5, <2>4, <2>5 DEF WShape
  <2>7. x = x0
    BY <1>6, <2>6, SameDigits
  <2>8. QED
    BY <2>1, <2>3, <2>7
<1>10. y0 \in WIts(b, head, token)
  BY <1>7, <1>8 DEF WIts
<1>11. WIts(b, head, token) = {y0}
  <2>1. ASSUME NEW y \in WIts(b, head, token)
        PROVE  y = y0
    <3>1. PICK c \in W!Cores, j \in Nat : y = <<c, j>> /\ Number(c, j) = x0
      BY <1>9
    <3>2. PICK d \in W!Cores, i \in Nat : y0 = <<d, i>> /\ Number(d, i) = x0
      BY <1>9, <1>10
    <3>3. c = d /\ j = i
      BY <1>3, <3>1, <3>2, NumbersApart
    <3>4. QED
      BY <3>1, <3>2, <3>3
  <2>2. QED
    BY <1>10, <2>1
<1>12. ASSUME NEW y \in WIts(b, head, token)
       PROVE  /\ W!Task(y).q = W!QSeqLenOf(b) /\ W!Task(y).kv = W!KvSeqLenOf(b) + launch.new
              /\ W!Task(y).kvHead = head \div launch.group
  <2>1. W!Task(y) = WTile(b, x0)
    BY <1>9
  <2>2. PICK s, k, i : WShape(b, x0, s, k, i)
    BY <1>2, <1>6, WShapeOf
  <2>3. HasDigits(x0 - total, per, h, s, k, i)
    BY <1>4, <1>5, <2>2 DEF WShape
  <2>4. k = k0 /\ k0 = head \div launch.group
    BY <1>6, <2>3, DigitsAre DEF InTask
  <2>5. QED
    BY <2>1, <2>2, <2>4 DEF WShape
<1>13. Cardinality(WIts(b, head, token)) = 1
  BY <1>11, FS_Singleton
<1>14. QED
  BY <1>12, <1>13, CardinalitySame DEF WRowOnce

LEMMA WEveryRowOnce ==
  ASSUME WInv
  PROVE  W!EveryRowOnce
<1>1. W!AllDone => \A b \in W!Batches : \A head \in 0 .. launch.group * launch.kvHeads - 1 :
                     \A token \in 0 .. W!QSeqLenOf(b) - 1 : WRowOnce(b, head, token)
  BY WRowIsOnce
<1>2. QED
  BY <1>1 DEF W!EveryRowOnce, WRowOnce, WIts

LEMMA WRowsFit ==
  ASSUME WInv
  PROVE  W!RowsFit
<1>1. SUFFICES ASSUME NEW y \in W!Ran, NEW t, t = W!Task(y)
               PROVE  /\ W!Share(t) <= Q_TILE_CEIL \div 2
                      /\ t.qSBlockSize * t.qNBlockSize - W!Share(t) <= Q_TILE_CEIL \div 2
  BY DEF W!RowsFit
<1>2. PICK b \in W!Batches, x \in Nat : Within(W!totalBefore, b, x) /\ t = WTile(b, x)
  BY <1>1, WRan
<1>3. launch \in Launches
  BY DEF WInv
<1>4. QED
  BY <1>2, <1>3, WFits

LEMMA WInvStep ==
  ASSUME WInv, W!Next
  PROVE  WInv'
<1>1. CASE \E c \in W!Cores : W!NextBatch(c)
  BY <1>1, WNextBatchKeeps
<1>2. CASE \E c \in W!Cores : W!RunTask(c)
  BY <1>2, WRunTaskKeeps
<1>3. CASE W!Terminated
  <2>1. UNCHANGED walkVars
    BY <1>3 DEF W!Terminated, W!vars, walkVars
  <2>2. QED
    BY <2>1, WInvSame
<1>4. QED
  BY <1>1, <1>2, <1>3 DEF W!Next

-----------------------------------------------------------------------------
(* Fused tasks: the launch, and the shapes of its sequences.               *)

LEMMA FLaunch ==
  ASSUME launch \in FusedLaunches
  PROVE  /\ launch.group \in Nat \ {0} /\ launch.kvHeads \in Nat \ {0} /\ launch.coreNum \in Nat \ {0}
         /\ FUSED_ROWS \in Nat \ {0} /\ BLOCK \in Nat \ {0} /\ launch.tnd \in BOOLEAN
         /\ F!qHeads \in Nat \ {0} /\ F!qHeads = launch.kvHeads * launch.group
         /\ Len(launch.q) \in Nat \ {0} /\ F!Batches = 0 .. Len(launch.q) - 1
         /\ \A b \in F!Batches : F!QSeqLenOf(b) \in Nat
         /\ ~launch.tnd => \A a, b \in F!Batches : F!QSeqLenOf(a) = F!QSeqLenOf(b)
<1>1. /\ launch.q \in Seq(Nat) /\ launch.q # << >> /\ launch.tnd \in BOOLEAN
      /\ {launch.group, launch.kvHeads, launch.coreNum} \subseteq Nat \ {0}
      /\ ~launch.tnd => \A i, k \in DOMAIN launch.q : launch.q[i] = launch.q[k]
  BY TilesAssumption DEF F!LaunchesAssumption
<1>2. Len(launch.q) \in Nat /\ Len(launch.q) # 0 /\ DOMAIN launch.q = 1 .. Len(launch.q)
  BY <1>1, EmptySeqIs
<1>3. ASSUME NEW b \in 0 .. Len(launch.q) - 1
      PROVE  F!QSeqLenOf(b) \in Nat /\ b + 1 \in DOMAIN launch.q
  <2>1. b + 1 \in 1 .. Len(launch.q)
    BY <1>2
  <2>2. launch.q[b + 1] \in Nat
    BY <1>1, <2>1
  <2>3. QED
    BY <1>2, <2>1, <2>2 DEF F!QSeqLenOf
<1>4. ASSUME ~launch.tnd, NEW a \in 0 .. Len(launch.q) - 1, NEW b \in 0 .. Len(launch.q) - 1
      PROVE  F!QSeqLenOf(a) = F!QSeqLenOf(b)
  BY <1>1, <1>3, <1>4 DEF F!QSeqLenOf
<1>5. F!qHeads \in Nat \ {0} /\ F!qHeads = launch.kvHeads * launch.group
  <2>1. PICK g \in Nat \ {0}, h \in Nat \ {0} : g = launch.group /\ h = launch.kvHeads
    BY <1>1
  <2>2. g * h \in Nat \ {0} /\ g * h = h * g
    BY TwoDigits
  <2>3. QED
    BY <2>1, <2>2 DEF F!qHeads
<1>6. QED
  BY <1>1, <1>2, <1>3, <1>4, <1>5, TilesAssumption DEF F!Batches

LEMMA TimesTimes ==
  ASSUME NEW a \in Int, NEW b \in Int, NEW c \in Int
  PROVE  a * (b * c) = (a * b) * c
OBVIOUS

LEMMA FCeilDiv ==
  ASSUME NEW a, NEW n
  PROVE  F!CeilDiv(a, n) = P!CeilDiv(a, n)
BY DEF F!CeilDiv, P!CeilDiv

LEMMA CeilNat ==
  ASSUME NEW a \in Nat, NEW n \in Nat \ {0}
  PROVE  P!CeilDiv(a, n) \in Nat /\ (a # 0 => P!CeilDiv(a, n) # 0)
<1>1. PICK c \in Int : c = P!CeilDiv(a, n) /\ \A i \in Int : i < c <=> i * n < a
  BY CeilIs
<1>2. -1 \in Int /\ (-1) * n < a /\ 0 \in Int /\ 0 * n = 0
  OBVIOUS
<1>3. -1 < c /\ (0 < c <=> 0 < a)
  BY <1>1, <1>2
<1>4. QED
  BY <1>1, <1>3

(* The quotient rounded up is the least number of n's that a fits in.      *)
LEMMA CeilCovers ==
  ASSUME NEW a \in Nat, NEW n \in Nat \ {0}, NEW c \in Nat
  PROVE  a <= c * n <=> P!CeilDiv(a, n) <= c
<1>1. PICK d \in Int : d = P!CeilDiv(a, n) /\ \A i \in Int : i < d <=> i * n < a
  BY CeilIs
<1>2. PICK v \in Int : v = c * n /\ (c < d <=> v < a)
  <2>1. c \in Int /\ c * n \in Int
    OBVIOUS
  <2>2. QED
    BY <1>1, <2>1
<1>3. QED
  BY <1>1, <1>2

(* The greatest of finitely many numbers. *)
LEMMA MaxOf ==
  ASSUME NEW n \in Nat, NEW S \in SUBSET (0 .. n), S # {}
  PROVE  F!Max(S) \in S /\ \A m \in S : F!Max(S) >= m
<1> DEFINE U == {n - m : m \in S}
<1>1. U \in SUBSET Nat /\ U # {}
  <2>1. \A m \in S : n - m \in Nat
    OBVIOUS
  <2>2. QED
    BY <2>1
<1>2. PICK k \in U : \A m \in U : k <= m
  BY <1>1, Least
<1>3. PICK x \in S : k = n - x
  BY <1>2
<1>4. ASSUME NEW m \in S
      PROVE  x >= m
  <2>1. n - m \in U /\ m \in Int /\ x \in Int
    OBVIOUS
  <2>2. n - x <= n - m
    BY <1>2, <1>3, <2>1
  <2>3. QED
    BY <2>1, <2>2
<1>5. \E y \in S : \A m \in S : y >= m
  BY <1>4
<1>6. QED
  BY <1>5 DEF F!Max

(* A number of heads that a tile of q rows can be of.                      *)
FTileFits(t, q, cap) ==
  t \in Nat \ {0} /\ t <= F!HeadCap(q, cap) /\ F!WholeGroups(t) /\ F!HalfFits(t, q)

LEMMA FHeadCap ==
  ASSUME launch \in FusedLaunches, NEW q \in 1 .. FUSED_ROWS - 1, NEW cap \in Nat \ {0}
  PROVE  /\ F!HeadCap(q, cap) \in 1 .. cap
         /\ P!CeilDiv(q, BLOCK) \in Nat \ {0}
         /\ F!HeadCap(q, cap) * (P!CeilDiv(q, BLOCK) * BLOCK) <= FUSED_ROWS
<1>1. PICK R0 \in Nat \ {0}, B \in Nat \ {0} : R0 = FUSED_ROWS /\ B = BLOCK
  BY FLaunch
<1>2. PICK c \in Nat \ {0} : c = P!CeilDiv(q, B)
  BY <1>1, CeilNat
<1>3. PICK k \in Nat \ {0} : k = c * B
  BY <1>1, TwoDigits
<1>4. k <= R0
  <2>1. PICK d \in Int, m \in 0 .. B - 1, u \in Int : R0 \div B = d /\ R0 % B = m /\ u = d * B /\ R0 = u + m
    <3>1. R0 \in Int
      OBVIOUS
    <3>2. QED
      BY <3>1, DivPick
  <2>2. m = 0 /\ d \in Nat
    BY <1>1, <2>1, QuotientNat, TilesAssumption
  <2>3. q <= d * B
    BY <1>1, <2>1, <2>2
  <2>4. c <= d
    BY <1>1, <1>2, <2>2, <2>3, CeilCovers
  <2>5. c * B <= d * B
    BY <2>2, <2>4, TimesGrows
  <2>6. QED
    BY <1>3, <2>1, <2>2, <2>5
<1>5. PICK e \in Int, m \in 0 .. k - 1, u \in Int : R0 \div k = e /\ R0 % k = m /\ u = e * k /\ R0 = u + m
  <2>1. R0 \in Int
    OBVIOUS
  <2>2. QED
    BY <2>1, DivPick
<1>6. e \in Nat /\ e # 0
  <2>1. e \in Nat
    BY <1>5, QuotientNat
  <2>2. e = 0 => u = 0
    BY <1>5
  <2>3. QED
    BY <1>4, <1>5, <2>1, <2>2
<1>7. F!HeadCap(q, cap) = F!AtMost(cap, e)
  BY <1>1, <1>2, <1>3, <1>5, FCeilDiv DEF F!HeadCap
<1>8. PICK f \in 1 .. cap : f = F!HeadCap(q, cap) /\ f <= e
  BY <1>6, <1>7 DEF F!AtMost
<1>9. f * k <= e * k
  BY <1>6, <1>8, TimesGrows
<1>10. f * k <= R0
  <2>1. PICK v \in Int : v = f * k
    OBVIOUS
  <2>2. QED
    BY <1>5, <1>9, <2>1
<1>11. QED
  BY <1>1, <1>2, <1>3, <1>8, <1>10

LEMMA FOneFits ==
  ASSUME launch \in FusedLaunches, NEW q \in 1 .. FUSED_ROWS - 1, NEW cap \in Nat \ {0}
  PROVE  FTileFits(1, q, cap)
<1>1. launch.group \in Nat \ {0}
  BY FLaunch
<1>2. launch.group % 1 = 0
  <2>1. PICK g \in Nat \ {0} : g = launch.group
    BY <1>1
  <2>2. g \in Int /\ 1 \in Nat \ {0} /\ 0 \in 0 .. 1 - 1 /\ g = g * 1 + 0
    OBVIOUS
  <2>3. g % 1 = 0
    BY <2>2, DivUnique
  <2>4. QED
    BY <2>1, <2>3
<1>3. 1 <= F!HeadCap(q, cap)
  BY FHeadCap
<1>4. QED
  BY <1>2, <1>3 DEF FTileFits, F!WholeGroups, F!HalfFits

LEMMA FLargest ==
  ASSUME launch \in FusedLaunches, NEW q \in 1 .. FUSED_ROWS - 1, NEW cap \in Nat \ {0}
  PROVE  FTileFits(F!LargestTile(q, cap), q, cap)
<1> DEFINE S == {1} \cup {t \in 1 .. F!HeadCap(q, cap) : F!WholeGroups(t) /\ F!HalfFits(t, q)}
<1>1. PICK m \in Nat : m = F!HeadCap(q, cap) /\ 1 <= m
  BY FHeadCap
<1>2. S \in SUBSET (0 .. m) /\ S # {}
  BY <1>1
<1>3. F!Max(S) \in S
  <2> HIDE DEF S
  <2>1. QED
    BY <1>2, MaxOf
<1>4. \A t \in S : FTileFits(t, q, cap)
  BY <1>1, FOneFits DEF FTileFits
<1>5. F!LargestTile(q, cap) = F!Max(S)
  BY DEF F!LargestTile
<1>6. QED
  <2> HIDE DEF S
  <2>1. QED
    BY <1>3, <1>4, <1>5

(* Fewer heads fit as well. *)
LEMMA FFewerFit ==
  ASSUME launch \in FusedLaunches, NEW q \in 1 .. FUSED_ROWS - 1, NEW cap \in Nat \ {0},
         NEW t, FTileFits(t, q, cap), NEW u \in Nat \ {0}, u <= t, F!WholeGroups(u)
  PROVE  FTileFits(u, q, cap)
<1>1. PICK m \in Nat : m = F!HeadCap(q, cap)
  BY FHeadCap
<1>2. t \in Nat \ {0} /\ t <= m /\ (t = 1 \/ F!CeilDiv(t, 2) * q <= FUSED_ROWS \div 2)
  BY <1>1 DEF FTileFits, F!HalfFits
<1>3. ASSUME u # 1
      PROVE  F!CeilDiv(u, 2) * q <= FUSED_ROWS \div 2
  <2>1. t # 1
    BY <1>2, <1>3
  <2>2. PICK a \in Nat, b \in Nat : a = P!CeilDiv(u, 2) /\ b = P!CeilDiv(t, 2) /\ a <= b
    <3>1. 2 \in Nat \ {0} /\ t \in Nat /\ u \in Nat
      BY <1>2
    <3>2. PICK a \in Nat, b \in Nat : a = P!CeilDiv(u, 2) /\ b = P!CeilDiv(t, 2)
      BY <3>1, CeilNat
    <3>3. t <= b * 2
      BY <3>1, <3>2, CeilCovers
    <3>4. u <= b * 2
      BY <1>2, <3>2, <3>3
    <3>5. a <= b
      BY <3>1, <3>2, <3>4, CeilCovers
    <3>6. QED
      BY <3>2, <3>5
  <2>3. a * q <= b * q
    BY <2>2, TimesGrows
  <2>4. PICK v \in Int, w \in Int : v = a * q /\ w = b * q
    BY <2>2
  <2>5. PICK half \in Nat : half = FUSED_ROWS \div 2
    <3>1. FUSED_ROWS \in Nat /\ 2 \in Nat \ {0}
      BY FLaunch
    <3>2. QED
      BY <3>1, QuotientNat
  <2>6. w <= half
    BY <1>2, <2>1, <2>2, <2>4, <2>5, FCeilDiv
  <2>7. QED
    BY <2>2, <2>3, <2>4, <2>5, <2>6, FCeilDiv
<1>4. u <= m
  BY <1>1, <1>2
<1>5. QED
  BY <1>1, <1>3, <1>4 DEF FTileFits, F!HalfFits

(* Whole groups, or a part that divides one. *)
LEMMA FGroups ==
  ASSUME launch \in FusedLaunches, NEW t \in Nat \ {0}, F!WholeGroups(t)
  PROVE  \E m \in Nat \ {0} : t = m * launch.group \/ launch.group = m * t
<1>1. PICK g \in Nat \ {0} : g = launch.group
  BY FLaunch
<1>2. CASE t % g = 0
  <2>1. PICK d \in Int, m \in 0 .. g - 1, u \in Int : t \div g = d /\ t % g = m /\ u = d * g /\ t = u + m
    <3>1. t \in Int
      OBVIOUS
    <3>2. QED
      BY <3>1, DivPick
  <2>2. d \in Nat /\ t = d * g
    BY <1>2, <2>1, QuotientNat
  <2>3. d # 0
    BY <2>2
  <2>4. QED
    BY <1>1, <2>2, <2>3
<1>3. CASE g % t = 0
  <2>1. PICK d \in Int, m \in 0 .. t - 1, u \in Int : g \div t = d /\ g % t = m /\ u = d * t /\ g = u + m
    <3>1. g \in Int
      OBVIOUS
    <3>2. QED
      BY <3>1, DivPick
  <2>2. d \in Nat /\ g = d * t
    BY <1>3, <2>1, QuotientNat
  <2>3. d # 0
    BY <2>2
  <2>4. QED
    BY <1>1, <2>2, <2>3
<1>4. QED
  BY <1>1, <1>2, <1>3 DEF F!WholeGroups

LEMMA FMultipleWhole ==
  ASSUME launch \in FusedLaunches, NEW m \in Nat \ {0}
  PROVE  m * launch.group \in Nat \ {0} /\ F!WholeGroups(m * launch.group)
         /\ (m * launch.group) \div launch.group = m
<1>1. PICK g \in Nat \ {0} : g = launch.group
  BY FLaunch
<1>2. PICK t \in Nat \ {0} : t = m * g
  BY <1>1, TwoDigits
<1>3. t \in Int /\ m \in Int /\ 0 \in 0 .. g - 1 /\ t = m * g + 0
  BY <1>2
<1>4. t \div g = m /\ t % g = 0
  BY <1>3, DivUnique
<1>5. QED
  BY <1>1, <1>2, <1>4 DEF F!WholeGroups

(* What evening the groups of t heads out leaves.                          *)
FEvened(t, groups, k, c) ==
  /\ groups \in Nat \ {0} /\ k \in Nat \ {0} /\ c \in Nat \ {0}
  /\ t = groups * launch.group /\ c <= groups
  /\ k = P!CeilDiv(launch.kvHeads, groups) /\ k = P!CeilDiv(launch.kvHeads, c)
  /\ F!Balanced(t) = c * launch.group

LEMMA FEvenly ==
  ASSUME launch \in FusedLaunches, NEW t \in Nat \ {0}, F!WholeGroups(t)
  PROVE  F!Balanced(t) = t \/ \E groups, k, c : FEvened(t, groups, k, c)
<1>1. PICK g \in Nat \ {0}, h \in Nat \ {0} : g = launch.group /\ h = launch.kvHeads
  BY FLaunch
<1>2. PICK groups \in Nat : groups = t \div g
  BY <1>1, QuotientNat
<1>3. CASE ~ (groups > 0 /\ h > groups)
  BY <1>1, <1>2, <1>3 DEF F!Balanced
<1>4. CASE groups > 0 /\ h > groups
  <2>1. t = groups * g
    <3>1. PICK m \in Nat \ {0} : t = m * g \/ g = m * t
      BY <1>1, FGroups
    <3>2. CASE t = m * g
      <4>1. t \in Int /\ m \in Int /\ 0 \in 0 .. g - 1 /\ t = m * g + 0
        BY <3>2
      <4>2. groups = m
        BY <1>2, <4>1, DivUnique
      <4>3. QED
        BY <3>2, <4>2
    <3>3. CASE g = m * t
      <4>1. PICK r \in 0 .. g - 1, u \in Int, v \in Int : u = groups * g /\ v = 1 * g /\ v = g /\ t = u + r
        <5>1. PICK d \in Int, r \in 0 .. g - 1, u \in Int : t \div g = d /\ t % g = r /\ u = d * g /\ t = u + r
          <6>1. t \in Int
            OBVIOUS
          <6>2. QED
            BY <6>1, DivPick
        <5>2. QED
          BY <1>2, <5>1
      <4>2. v <= u
        BY <1>4, <4>1, TimesGrows
      <4>3. t <= g
        <5>1. PICK w \in Int : w = 1 * t /\ w = t
          OBVIOUS
        <5>2. 1 * t <= m * t
          BY TimesGrows
        <5>3. QED
          BY <3>3, <5>1, <5>2
      <4>4. QED
        BY <4>1, <4>2, <4>3
    <3>4. QED
      BY <3>1, <3>2, <3>3
  <2>2. PICK k \in Nat \ {0} : k = P!CeilDiv(h, groups)
    BY <1>1, <1>4, CeilNat
  <2>3. PICK c \in Nat \ {0} : c = P!CeilDiv(h, k)
    BY <1>1, <2>2, CeilNat
  <2>4. h <= groups * k
    <3>1. groups \in Nat \ {0}
      BY <1>4
    <3>2. h <= k * groups
      BY <2>2, <3>1, CeilCovers
    <3>3. k * groups = groups * k
      OBVIOUS
    <3>4. QED
      BY <3>2, <3>3
  <2>5. c <= groups
    BY <2>3, <2>4, CeilCovers
  <2>6. k = P!CeilDiv(h, c)
    <3>1. PICK d \in Nat : d = P!CeilDiv(h, c)
      BY CeilNat
    <3>2. h <= c * k
      BY <2>3, CeilCovers
    <3>3. c * k = k * c
      OBVIOUS
    <3>4. h <= k * c
      BY <3>2, <3>3
    <3>5. d <= k
      BY <3>1, <3>4, CeilCovers
    <3>6. h <= d * c
      BY <3>1, CeilCovers
    <3>7. d * c <= d * groups
      <4>1. c * d <= groups * d
        BY <2>5, TimesGrows
      <4>2. c * d = d * c /\ groups * d = d * groups
        BY <3>1
      <4>3. QED
        BY <4>1, <4>2
    <3>8. PICK v \in Int, w \in Int : v = d * c /\ w = d * groups
      BY <3>1
    <3>9. h <= d * groups
      BY <3>6, <3>7, <3>8
    <3>10. groups \in Nat \ {0}
      BY <1>4
    <3>11. k <= d
      BY <2>2, <3>1, <3>9, <3>10, CeilCovers
    <3>12. QED
      BY <3>1, <3>5, <3>11
  <2>7. F!Balanced(t) = c * g
    <3>1. c * g <= groups * g
      BY <2>5, TimesGrows
    <3>2. PICK v \in Int : v = c * g
      OBVIOUS
    <3>3. F!Balanced(t) = F!AtMost(t, v)
      BY <1>1, <1>2, <1>4, <2>2, <2>3, <3>2, FCeilDiv DEF F!Balanced
    <3>4. v <= t
      BY <2>1, <3>1, <3>2
    <3>5. QED
      BY <3>2, <3>3, <3>4 DEF F!AtMost
  <2>8. FEvened(t, groups, k, c)
    BY <1>1, <1>4, <2>1, <2>2, <2>3, <2>5, <2>6, <2>7 DEF FEvened
  <2>9. QED
    BY <2>8
<1>5. QED
  BY <1>3, <1>4

LEMMA FHeadTile ==
  ASSUME launch \in FusedLaunches, NEW q \in 1 .. FUSED_ROWS - 1, NEW cap \in Nat \ {0}
  PROVE  FTileFits(F!HeadTile(q, cap), q, cap)
<1>1. PICK t : t = F!LargestTile(q, cap) /\ FTileFits(t, q, cap)
  BY FLargest
<1>2. t \in Nat \ {0} /\ F!WholeGroups(t) /\ F!HeadTile(q, cap) = F!Balanced(t)
  BY <1>1 DEF FTileFits, F!HeadTile
<1>3. CASE F!Balanced(t) = t
  BY <1>1, <1>2, <1>3
<1>4. CASE \E groups, k, c : FEvened(t, groups, k, c)
  <2>1. PICK groups, k, c : FEvened(t, groups, k, c)
    BY <1>4
  <2>2. PICK g \in Nat \ {0} : g = launch.group
    BY FLaunch
  <2>3. /\ groups \in Nat \ {0} /\ c \in Nat \ {0} /\ c <= groups /\ t = groups * g
        /\ F!Balanced(t) = c * g
    BY <2>1, <2>2 DEF FEvened
  <2>4. c * g \in Nat \ {0} /\ F!WholeGroups(c * g)
    BY <2>2, <2>3, FMultipleWhole
  <2>5. c * g <= t
    BY <2>3, TimesGrows
  <2>6. FTileFits(c * g, q, cap)
    BY <1>1, <2>4, <2>5, FFewerFit
  <2>7. QED
    BY <1>2, <2>3, <2>6
<1>5. QED
  BY <1>2, <1>3, <1>4, FEvenly

(* Evening out did not take more tasks. *)
LEMMA CeilOfProducts ==
  ASSUME NEW a \in Nat \ {0}, NEW n \in Nat \ {0}, NEW g \in Nat \ {0}
  PROVE  P!CeilDiv(a * g, n * g) = P!CeilDiv(a, n)
<1>1. PICK x \in Nat \ {0}, y \in Nat \ {0} : x = a * g /\ y = n * g
  <2>1. a * g \in Nat \ {0} /\ n * g \in Nat \ {0}
    BY TwoDigits
  <2>2. QED
    BY <2>1
<1>2. PICK c \in Nat, d \in Nat : c = P!CeilDiv(a, n) /\ d = P!CeilDiv(x, y)
  BY <1>1, CeilNat
<1>3. ASSUME NEW i \in Nat
      PROVE  a <= i * n <=> x <= i * y
  <2>1. PICK v \in Nat : v = i * n
    OBVIOUS
  <2>2. i * y = v * g
    BY <1>1, <2>1
  <2>3. a <= v => a * g <= v * g
    BY TimesGrows
  <2>4. v < a => v * g < a * g
    <3>1. ASSUME v < a PROVE v * g < a * g
      <4>1. v + 1 <= a
        BY <3>1
      <4>2. (v + 1) * g <= a * g /\ (v + 1) * g = v * g + g
        BY <4>1, TimesGrows, NextTimes
      <4>3. PICK w \in Int : w = v * g
        OBVIOUS
      <4>4. w + g <= x
        BY <1>1, <4>2, <4>3
      <4>5. QED
        BY <1>1, <4>3, <4>4
    <3>2. QED
      BY <3>1
  <2>5. PICK w \in Int : w = v * g
    OBVIOUS
  <2>6. a <= v <=> x <= w
    BY <1>1, <2>3, <2>4, <2>5
  <2>7. QED
    BY <2>1, <2>2, <2>5, <2>6
<1>4. \A i \in Nat : c <= i <=> d <= i
  <2>1. \A i \in Nat : a <= i * n <=> c <= i
    BY <1>2, CeilCovers
  <2>2. \A i \in Nat : x <= i * y <=> d <= i
    BY <1>1, <1>2, CeilCovers
  <2>3. QED
    BY <1>3, <2>1, <2>2
<1>5. c = d
  BY <1>2, <1>4
<1>6. QED
  BY <1>1, <1>2, <1>5

LEMMA FNoMoreTasks ==
  ASSUME launch \in FusedLaunches, NEW q \in 1 .. FUSED_ROWS - 1, F!nCap \in Nat \ {0}
  PROVE  F!NoMoreTasks(q)
<1>1. PICK t : t = F!LargestTile(q, F!nCap) /\ FTileFits(t, q, F!nCap)
  BY FLargest
<1>2. t \in Nat \ {0} /\ F!WholeGroups(t) /\ F!HeadTile(q, F!nCap) = F!Balanced(t)
  BY <1>1 DEF FTileFits, F!HeadTile
<1>3. CASE F!Balanced(t) = t
  BY <1>1, <1>2, <1>3 DEF F!NoMoreTasks
<1>4. CASE \E groups, k, c : FEvened(t, groups, k, c)
  <2>1. PICK groups, k, c : FEvened(t, groups, k, c)
    BY <1>4
  <2>2. PICK g \in Nat \ {0}, h \in Nat \ {0} : g = launch.group /\ h = launch.kvHeads /\ F!qHeads = h * g
    BY FLaunch
  <2>3. /\ groups \in Nat \ {0} /\ c \in Nat \ {0} /\ t = groups * g /\ F!Balanced(t) = c * g
        /\ k = P!CeilDiv(h, groups) /\ k = P!CeilDiv(h, c)
    BY <2>1, <2>2 DEF FEvened
  <2>4. P!CeilDiv(h * g, groups * g) = k /\ P!CeilDiv(h * g, c * g) = k
    BY <2>2, <2>3, CeilOfProducts, ZenonT(30)
  <2>5. QED
    BY <1>1, <1>2, <2>2, <2>3, <2>4, FCeilDiv DEF F!NoMoreTasks
<1>5. QED
  BY <1>2, <1>3, <1>4, FEvenly

LEMMA FCap ==
  ASSUME launch \in FusedLaunches
  PROVE  F!nCap \in Nat \ {0}
BY FLaunch DEF F!nCap

(* The shape of a sequence of q rows: d whole tiles of each head, and tau  *)
(* heads in a tile of the r rows that are left.                            *)
FShapeHas(q, d, r, tau) ==
  /\ d \in Nat /\ r \in 0 .. FUSED_ROWS - 1 /\ tau \in Nat \ {0} /\ q = d * FUSED_ROWS + r
  /\ d = q \div FUSED_ROWS /\ r = F!tailRows(q)
  /\ F!ShapeOf(q).normQBlocks = d /\ F!ShapeOf(q).normTasks = d * F!qHeads
  /\ F!ShapeOf(q).tailHeadTile = tau /\ F!ShapeOf(q).totalTasks \in Nat
  /\ F!ShapeOf(q).totalTasks = d * F!qHeads + (IF r = 0 THEN 0 ELSE P!CeilDiv(F!qHeads, tau))
  /\ r # 0 => FTileFits(tau, r, F!nCap)

LEMMA FShapeExists ==
  ASSUME launch \in FusedLaunches, NEW q \in Nat
  PROVE  \E d, r, tau : FShapeHas(q, d, r, tau)
<1>1. PICK R0 \in Nat \ {0}, H \in Nat \ {0} : R0 = FUSED_ROWS /\ H = F!qHeads
  BY FLaunch
<1>2. PICK d \in Int, r \in 0 .. R0 - 1, u \in Int : q \div R0 = d /\ q % R0 = r /\ u = d * R0 /\ q = u + r
  <2>1. q \in Int
    OBVIOUS
  <2>2. QED
    BY <2>1, DivPick
<1>3. d \in Nat /\ r \in Nat
  BY <1>2, QuotientNat
<1>4. F!tailRows(q) = r /\ q = d * R0 + r
  BY <1>1, <1>2 DEF F!tailRows
<1>5. PICK tau \in Nat \ {0} : /\ tau = F!tailHeadTile(q, ~launch.tnd)
                               /\ r # 0 => FTileFits(tau, r, F!nCap)
  <2>1. CASE r = 0
    <3>1. F!tailHeadTile(q, ~launch.tnd) = 1
      BY <1>4, <2>1 DEF F!tailHeadTile
    <3>2. QED
      BY <2>1, <3>1
  <2>2. CASE r # 0
    <3>1. r \in 1 .. FUSED_ROWS - 1 /\ F!nCap \in Nat \ {0}
      BY <1>1, <1>2, <2>2, FCap
    <3>2. PICK t \in Nat \ {0} : t = F!HeadTile(r, F!nCap) /\ FTileFits(t, r, F!nCap)
      <4>1. FTileFits(F!HeadTile(r, F!nCap), r, F!nCap)
        BY <3>1, FHeadTile
      <4>2. QED
        BY <4>1 DEF FTileFits
    <3>3. F!TailTile(q) = t
      BY <1>4, <3>2 DEF F!TailTile
    <3>4. CASE ~F!FewTails(q, ~launch.tnd)
      <4>1. F!tailHeadTile(q, ~launch.tnd) = t
        BY <1>4, <2>2, <3>3, <3>4 DEF F!tailHeadTile
      <4>2. QED
        BY <3>2, <4>1
    <3>5. CASE F!FewTails(q, ~launch.tnd)
      <4>1. F!tailHeadTile(q, ~launch.tnd) = F!AtMost(t, 2)
        BY <1>4, <2>2, <3>3, <3>5 DEF F!tailHeadTile
      <4>2. PICK v \in Nat \ {0} : v = F!AtMost(t, 2) /\ v <= t
        BY DEF F!AtMost
      <4>3. launch.group = 1
        BY <3>5 DEF F!FewTails
      <4>4. v * launch.group = v
        BY <4>3
      <4>5. F!WholeGroups(v)
        BY <4>4, FMultipleWhole
      <4>6. FTileFits(v, r, F!nCap)
        BY <3>1, <3>2, <4>2, <4>5, FFewerFit
      <4>7. QED
        BY <4>1, <4>2, <4>6
    <3>6. QED
      BY <3>4, <3>5
  <2>3. QED
    BY <2>1, <2>2
<1>6. PICK k \in Nat : k = d * H
  BY <1>3
<1>7. PICK c \in Nat : c = IF r = 0 THEN 0 ELSE P!CeilDiv(H, tau)
  <2>1. P!CeilDiv(H, tau) \in Nat
    BY CeilNat
  <2>2. QED
    BY <2>1
<1>8. F!normTasks(q) = k
  BY <1>1, <1>2, <1>6 DEF F!normTasks
<1>9. /\ F!ShapeOf(q).normQBlocks = d /\ F!ShapeOf(q).normTasks = k
      /\ F!ShapeOf(q).tailHeadTile = tau /\ F!ShapeOf(q).totalTasks = k + c
  BY <1>1, <1>2, <1>4, <1>5, <1>7, <1>8, FCeilDiv DEF F!ShapeOf, F!MakeTaskShape
<1>10. k + c \in Nat
  OBVIOUS
<1>11. FShapeHas(q, d, r, tau)
  BY <1>1, <1>2, <1>3, <1>4, <1>5, <1>6, <1>7, <1>9, <1>10 DEF FShapeHas
<1>12. QED
  BY <1>11

FShapes == [normQBlocks : Nat, normTasks : Nat, tailHeadTile : Nat, totalTasks : Nat]
LEMMA FShapeType ==
  ASSUME launch \in FusedLaunches, NEW q \in Nat
  PROVE  F!ShapeOf(q) \in FShapes /\ F!ShapeOf(q).totalTasks \in Nat
<1>1. PICK d, r, tau : FShapeHas(q, d, r, tau)
  BY FShapeExists
<1>2. F!qHeads \in Nat /\ d \in Nat
  BY <1>1, FLaunch DEF FShapeHas
<1>3. d * F!qHeads \in Nat
  BY <1>2
<1>4. /\ F!ShapeOf(q).normQBlocks \in Nat /\ F!ShapeOf(q).normTasks \in Nat
      /\ F!ShapeOf(q).tailHeadTile \in Nat /\ F!ShapeOf(q).totalTasks \in Nat
  BY <1>1, <1>3 DEF FShapeHas
<1>5. F!ShapeOf(q) = [normQBlocks |-> F!ShapeOf(q).normQBlocks, normTasks |-> F!ShapeOf(q).normTasks,
                      tailHeadTile |-> F!ShapeOf(q).tailHeadTile, totalTasks |-> F!ShapeOf(q).totalTasks]
  BY DEF F!ShapeOf, F!MakeTaskShape
<1>6. QED
  BY <1>4, <1>5 DEF FShapes

(* How many tasks the sequences before one have, and how many rows.        *)
LEMMA FTotalIs ==
  \A b \in Nat : F!totalBefore[b] = IF b = 0 THEN 0
                                    ELSE F!totalBefore[b - 1] + F!ShapeOf(F!QSeqLenOf(b - 1)).totalTasks
<1> DEFINE Count(b) == F!ShapeOf(F!QSeqLenOf(b)).totalTasks
           w == [b \in Nat |-> Count(b)]
<1>1. PICK t : t = [b \in Nat |-> IF b = 0 THEN 0 ELSE t[b - 1] + w[b - 1]]
  BY SumsExist
<1>2. t = [b \in Nat |-> IF b = 0 THEN 0 ELSE t[b - 1] + Count(b - 1)]
  <2>1. ASSUME NEW b \in Nat, b # 0 PROVE w[b - 1] = Count(b - 1)
    BY <2>1
  <2> HIDE DEF w, Count
  <2>2. QED
    BY <1>1, <2>1
<1>3. F!totalBefore = [b \in Nat |-> IF b = 0 THEN 0 ELSE F!totalBefore[b - 1] + Count(b - 1)]
  BY <1>2 DEF F!totalBefore
<1> HIDE DEF Count
<1>4. \A b \in Nat : F!totalBefore[b] = IF b = 0 THEN 0 ELSE F!totalBefore[b - 1] + Count(b - 1)
  BY <1>3
<1>5. QED
  BY <1>4 DEF Count

LEMMA FRowsIs ==
  \A b \in Nat : F!rowsBefore[b] = IF b = 0 THEN 0 ELSE F!rowsBefore[b - 1] + F!QSeqLenOf(b - 1)
<1> DEFINE Count(b) == F!QSeqLenOf(b)
           w == [b \in Nat |-> Count(b)]
<1>1. PICK t : t = [b \in Nat |-> IF b = 0 THEN 0 ELSE t[b - 1] + w[b - 1]]
  BY SumsExist
<1>2. t = [b \in Nat |-> IF b = 0 THEN 0 ELSE t[b - 1] + Count(b - 1)]
  <2>1. ASSUME NEW b \in Nat, b # 0 PROVE w[b - 1] = Count(b - 1)
    BY <2>1
  <2> HIDE DEF w, Count
  <2>2. QED
    BY <1>1, <2>1
<1>3. F!rowsBefore = [b \in Nat |-> IF b = 0 THEN 0 ELSE F!rowsBefore[b - 1] + Count(b - 1)]
  BY <1>2 DEF F!rowsBefore
<1> HIDE DEF Count
<1>4. \A b \in Nat : F!rowsBefore[b] = IF b = 0 THEN 0 ELSE F!rowsBefore[b - 1] + Count(b - 1)
  BY <1>3
<1>5. QED
  BY <1>4 DEF Count

LEMMA FSums ==
  ASSUME launch \in FusedLaunches
  PROVE  /\ Sums(F!totalBefore, Len(launch.q)) /\ F!rowsBefore[0] = 0
         /\ \A b \in F!Batches :
              /\ F!totalBefore[b + 1] = F!totalBefore[b] + F!ShapeOf(F!QSeqLenOf(b)).totalTasks
              /\ F!rowsBefore[b + 1] = F!rowsBefore[b] + F!QSeqLenOf(b)
<1> DEFINE n == Len(launch.q)
           w == [b \in 0 .. n - 1 |-> F!ShapeOf(F!QSeqLenOf(b)).totalTasks]
<1>1. n \in Nat /\ F!Batches = 0 .. n - 1
  BY FLaunch
<1>2. ASSUME NEW b \in 0 .. n - 1
      PROVE  /\ w[b] \in Nat /\ F!totalBefore[b + 1] = F!totalBefore[b] + w[b]
             /\ w[b] = F!ShapeOf(F!QSeqLenOf(b)).totalTasks
             /\ F!rowsBefore[b + 1] = F!rowsBefore[b] + F!QSeqLenOf(b)
  <2>1. w[b] = F!ShapeOf(F!QSeqLenOf(b)).totalTasks /\ F!QSeqLenOf(b) \in Nat
    BY <1>1, FLaunch
  <2>2. b + 1 \in Nat /\ b + 1 # 0 /\ (b + 1) - 1 = b
    BY <1>1
  <2>3. F!totalBefore[b + 1] = F!totalBefore[b] + F!ShapeOf(F!QSeqLenOf(b)).totalTasks
    BY <2>2, FTotalIs
  <2>4. F!rowsBefore[b + 1] = F!rowsBefore[b] + F!QSeqLenOf(b)
    BY <2>2, FRowsIs
  <2>5. QED
    BY <2>1, <2>3, <2>4, FShapeType
<1>3. F!totalBefore[0] = 0 /\ F!rowsBefore[0] = 0
  BY FTotalIs, FRowsIs
<1> HIDE DEF w, n
<1>4. Sums(F!totalBefore, n)
  BY <1>1, <1>2, <1>3, SumsOf
<1>5. QED
  BY <1>1, <1>2, <1>3, <1>4 DEF n

(* Sums of n numbers of which none is larger than m are n times m only if  *)
(* each is m.                                                              *)
LargestSum(n, m, t, w) ==
  /\ n \in Nat /\ m \in Nat /\ t[0] = 0 /\ t[n] = n * m
  /\ \A b \in 0 .. n - 1 : w[b] \in 0 .. m /\ t[b + 1] = t[b] + w[b]
LEMMA AllLargest ==
  ASSUME NEW n \in Nat, NEW m \in Nat, NEW t, NEW w, LargestSum(n, m, t, w)
  PROVE  \A b \in 0 .. n - 1 : w[b] = m
<1>0. \A b \in 0 .. n - 1 : w[b] \in 0 .. m /\ t[b + 1] = t[b] + w[b]
  BY DEF LargestSum
<1> DEFINE A == {b \in Nat : b <= n => t[b] \in Int}
<1>1. A = Nat
  <2>1. 0 \in A
    BY DEF LargestSum
  <2>2. ASSUME NEW b \in A
        PROVE  b + 1 \in A
    <3>1. CASE b + 1 <= n
      <4>1. b \in 0 .. n - 1 /\ t[b] \in Int
        BY <2>2, <3>1
      <4>2. w[b] \in 0 .. m /\ t[b + 1] = t[b] + w[b]
        BY <1>0, <4>1
      <4>3. QED
        BY <4>1, <4>2
    <3>2. QED
      BY <3>1
  <2>3. A \in SUBSET Nat
    OBVIOUS
  <2> HIDE DEF A
  <2>4. QED
    BY <2>1, <2>2, <2>3, Induction
<1>2. \A b \in 0 .. n : t[b] \in Int
  BY <1>1
<1> DEFINE u == [b \in 0 .. n |-> b * m - t[b]]
           v == [b \in 0 .. n - 1 |-> m - w[b]]
<1>3. ASSUME NEW b \in 0 .. n - 1
      PROVE  v[b] \in Nat /\ u[b + 1] = u[b] + v[b] /\ v[b] = m - w[b]
  <2>1. v[b] = m - w[b] /\ w[b] \in 0 .. m
    BY <1>0
  <2>2. b \in 0 .. n /\ b + 1 \in 0 .. n
    OBVIOUS
  <2>3. u[b] = b * m - t[b] /\ u[b + 1] = (b + 1) * m - t[b + 1] /\ t[b] \in Int
    BY <1>2, <2>2
  <2>4. PICK p \in Int : p = b * m /\ (b + 1) * m = p + m
    BY NextTimes
  <2>5. t[b + 1] = t[b] + w[b]
    BY <1>0
  <2> HIDE DEF u, v
  <2>6. QED
    BY <2>1, <2>3, <2>4, <2>5
<1>4. u[0] = 0 /\ u[n] = 0
  <2>1. 0 \in 0 .. n /\ n \in 0 .. n
    OBVIOUS
  <2>2. u[0] = 0 * m - t[0] /\ u[n] = n * m - t[n]
    BY <2>1
  <2>3. n * m \in Int /\ 0 * m = 0
    OBVIOUS
  <2>4. t[0] = 0 /\ t[n] = n * m
    BY DEF LargestSum
  <2> HIDE DEF u
  <2>5. QED
    BY <2>2, <2>3, <2>4
<1> HIDE DEF u, v
<1>5. Sums(u, n)
  BY <1>3, <1>4, SumsOf
<1>6. ASSUME NEW b \in 0 .. n - 1
      PROVE  w[b] = m
  <2>1. b + 1 \in 0 .. n /\ n \in b + 1 .. n /\ b \in 0 .. n
    OBVIOUS
  <2>2. u[b + 1] <= u[n] /\ u[b] \in Nat /\ u[b + 1] \in Nat
    BY <1>5, <2>1, SumsGrow DEF Sums
  <2>3. w[b] \in 0 .. m /\ v[b] = m - w[b] /\ v[b] \in Nat /\ u[b + 1] = u[b] + v[b]
    BY <1>0, <1>3
  <2>4. u[b + 1] = 0
    BY <1>4, <2>2
  <2>5. v[b] = 0
    BY <2>2, <2>3, <2>4
  <2>6. QED
    BY <2>3, <2>5
<1>7. QED
  BY <1>6

(* The host counts right, also when it counts one sequence for all.        *)
LEMMA FTotalTasks ==
  ASSUME launch \in FusedLaunches
  PROVE  F!totalTaskNum = F!totalBefore[Len(launch.q)]
<1> DEFINE n == Len(launch.q)
           Lens == {F!QSeqLenOf(b) : b \in F!Batches}
<1>1. n \in Nat \ {0} /\ F!Batches = 0 .. n - 1 /\ \A b \in F!Batches : F!QSeqLenOf(b) \in Nat
  BY FLaunch
<1>2. CASE ~ (launch.tnd /\ F!uniformQ)
  BY <1>2 DEF F!totalTaskNum
<1>3. CASE launch.tnd /\ F!uniformQ
  <2>1. PICK t \in Nat : \A b \in F!Batches : F!QSeqLenOf(b) <= t
    <3>1. \A b \in 0 .. n - 1 : F!rowsBefore[b + 1] = F!rowsBefore[b] + F!QSeqLenOf(b)
      BY <1>1, FSums
    <3>2. \A b \in 0 .. n - 1 : F!QSeqLenOf(b) \in Nat
      BY <1>1
    <3>3. F!rowsBefore[0] = 0
      BY FSums
    <3> DEFINE w == [b \in 0 .. n - 1 |-> F!QSeqLenOf(b)]
    <3>4. \A b \in 0 .. n - 1 : w[b] = F!QSeqLenOf(b)
      OBVIOUS
    <3> HIDE DEF w, n
    <3>5. Sums(F!rowsBefore, n)
      <4>1. \A b \in 0 .. n - 1 : w[b] \in Nat /\ F!rowsBefore[b + 1] = F!rowsBefore[b] + w[b]
        BY <3>1, <3>2, <3>4
      <4>2. n \in Nat
        BY <1>1
      <4>3. QED
        BY <3>3, <4>1, <4>2, SumsOf
    <3>6. ASSUME NEW b \in F!Batches
          PROVE  F!QSeqLenOf(b) <= F!rowsBefore[n]
      <4>1. b + 1 \in 0 .. n /\ n \in b + 1 .. n /\ b \in 0 .. n
        BY <1>1
      <4>2. F!rowsBefore[b + 1] <= F!rowsBefore[n] /\ F!rowsBefore[b] \in Nat
        BY <3>5, <4>1, SumsGrow DEF Sums
      <4>3. F!rowsBefore[b + 1] = F!rowsBefore[b] + F!QSeqLenOf(b) /\ F!QSeqLenOf(b) \in Nat
            /\ F!rowsBefore[n] \in Nat
        <5>1. n \in 0 .. n
          BY <1>1
        <5>2. QED
          BY <1>1, <3>1, <3>5, <5>1 DEF Sums
      <4>4. QED
        BY <4>2, <4>3
    <3>7. F!rowsBefore[n] \in Nat
      <4>1. n \in 0 .. n
        BY <1>1
      <4>2. QED
        BY <3>5, <4>1 DEF Sums
    <3>8. QED
      BY <3>6, <3>7
  <2>2. Lens \in SUBSET (0 .. t) /\ Lens # {}
    <3>1. 0 \in F!Batches
      BY <1>1
    <3>2. \A b \in F!Batches : F!QSeqLenOf(b) \in 0 .. t
      BY <1>1, <2>1
    <3>3. QED
      BY <3>1, <3>2
  <2>3. F!Max(Lens) \in Lens /\ \A x \in Lens : F!Max(Lens) >= x
    <3> HIDE DEF Lens
    <3>1. QED
      BY <2>1, <2>2, MaxOf
  <2>4. PICK m \in Nat : m = F!Max(Lens)
    <3> HIDE DEF Lens
    <3>1. F!Max(Lens) \in 0 .. t
      BY <2>2, <2>3
    <3>2. QED
      BY <2>1, <3>1
  <2>5. \A b \in 0 .. n - 1 : F!QSeqLenOf(b) \in 0 .. m
    BY <1>1, <2>3, <2>4
  <2>6. F!rowsBefore[n] = n * m
    BY <1>3, <2>4 DEF F!uniformQ
  <2> DEFINE w == [b \in 0 .. n - 1 |-> F!QSeqLenOf(b)]
             v == [b \in 0 .. n - 1 |-> F!ShapeOf(m).totalTasks]
  <2>7. \A b \in 0 .. n - 1 : w[b] = F!QSeqLenOf(b)
    OBVIOUS
  <2>8. \A b \in 0 .. n - 1 : v[b] = F!ShapeOf(m).totalTasks
    OBVIOUS
  <2> HIDE DEF w, v, n, Lens
  <2>9. \A b \in 0 .. n - 1 : F!QSeqLenOf(b) = m
    <3>1. \A b \in 0 .. n - 1 : w[b] \in 0 .. m /\ F!rowsBefore[b + 1] = F!rowsBefore[b] + w[b]
      BY <1>1, <2>5, <2>7, FSums
    <3>2. F!rowsBefore[0] = 0 /\ n \in Nat
      BY <1>1, FSums
    <3>3. LargestSum(n, m, F!rowsBefore, w)
      BY <2>4, <2>6, <3>1, <3>2 DEF LargestSum
    <3>4. \A b \in 0 .. n - 1 : w[b] = m
      BY <2>4, <3>2, <3>3, AllLargest
    <3>5. QED
      BY <2>7, <3>4
  <2>10. PICK c \in Nat : c = F!ShapeOf(m).totalTasks
    BY FShapeType
  <2>11. F!totalBefore[n] = n * c
    <3> DEFINE A == {b \in Nat : b <= n => F!totalBefore[b] = b * c}
    <3>1. 0 \in A
      <4>1. F!totalBefore[0] = 0 /\ 0 * c = 0
        BY FTotalIs
      <4>2. QED
        BY <4>1
    <3>2. ASSUME NEW b \in A
          PROVE  b + 1 \in A
      <4>1. CASE b + 1 <= n
        <5>1. b \in 0 .. n - 1 /\ F!totalBefore[b] = b * c /\ b \in Int
          BY <1>1, <3>2, <4>1
        <5>2. F!totalBefore[b + 1] = F!totalBefore[b] + c
          BY <1>1, <2>9, <2>10, <5>1, FSums
        <5>3. (b + 1) * c = b * c + c
          BY <5>1, NextTimes
        <5>4. QED
          BY <5>1, <5>2, <5>3
      <4>2. QED
        BY <4>1
    <3>3. A = Nat
      <4>1. A \in SUBSET Nat
        OBVIOUS
      <4> HIDE DEF A
      <4>2. QED
        BY <3>1, <3>2, <4>1, Induction
    <3>4. n \in A
      BY <1>1, <3>3
    <3>5. QED
      BY <3>4
  <2>12. F!totalTaskNum = c * n
    BY <1>3, <2>4, <2>10 DEF F!totalTaskNum, Lens, n
  <2>13. c * n = n * c
    BY <1>1, <2>10
  <2>14. QED
    BY <2>11, <2>12, <2>13 DEF n
<1>4. QED
  BY <1>2, <1>3

LEMMA FSameTotals ==
  ASSUME launch' = launch
  PROVE  /\ F!totalBefore' = F!totalBefore /\ F!rowsBefore' = F!rowsBefore
         /\ \A q : F!ShapeOf(q)' = F!ShapeOf(q)
<1>1. F!rowsBefore' = F!rowsBefore
  BY DEF F!rowsBefore, F!QSeqLenOf
<1>2. /\ F!qHeads' = F!qHeads /\ F!nCap' = F!nCap
      /\ \A q : F!normTasks(q)' = F!normTasks(q)
  BY DEF F!qHeads, F!nCap, F!normTasks
<1>3. \A t : F!WholeGroups(t)' = F!WholeGroups(t) /\ F!Balanced(t)' = F!Balanced(t)
  BY DEF F!WholeGroups, F!Balanced
<1>4. \A q, cap : F!LargestTile(q, cap)' = F!LargestTile(q, cap)
  BY <1>3 DEF F!LargestTile
<1>5. \A q, cap : F!HeadTile(q, cap)' = F!HeadTile(q, cap)
  BY <1>3, <1>4 DEF F!HeadTile
<1>6. \A q : F!TailTile(q)' = F!TailTile(q)
  BY <1>2, <1>5 DEF F!TailTile
<1>7. \A q : F!tailHeadTile(q, ~launch.tnd)' = F!tailHeadTile(q, ~launch.tnd)
  BY <1>2, <1>6 DEF F!tailHeadTile, F!FewTails
<1>8. \A q : F!ShapeOf(q)' = F!ShapeOf(q)
  BY <1>2, <1>7 DEF F!ShapeOf, F!MakeTaskShape
<1>9. F!totalBefore' = F!totalBefore
  BY <1>8 DEF F!totalBefore, F!QSeqLenOf
<1>10. QED
  BY <1>1, <1>8, <1>9

-----------------------------------------------------------------------------
(* Fused tasks: the walk of a core.                                        *)

(* A tile goes by these fields of the cursor.                              *)
LEMMA FTileReads ==
  ASSUME NEW w, NEW v, w.taskIdx = v.taskIdx, w.curBatch = v.curBatch, w.preTotal = v.preTotal,
         w.shape = v.shape
  PROVE  F!Tile(w) = F!Tile(v)
<1>1. F!Place(w) = F!Place(v)
  BY DEF F!Place
<1>2. QED
  BY <1>1 DEF F!Tile

(* The tile that number x is, of sequence b.                               *)
FTile(b, x) ==
  F!Tile([taskIdx |-> x, curBatch |-> b, preTotal |-> F!totalBefore[b],
          shape |-> F!ShapeOf(F!QSeqLenOf(b))])
FTasks == {FTile(b, x) : b \in F!Batches, x \in Nat}
FCursor == [taskIdx : Nat, curBatch : Nat, preTotal : Nat, curTotal : Nat, cachedBatch : Int,
            shape : FShapes]

FRanRight(c, list) ==
  \A i \in 1 .. Len(list) : \E b \in F!Batches : /\ Within(F!totalBefore, b, Number(c, i))
                                                 /\ list[i] = FTile(b, Number(c, i))
(* Unpacked sequences have one length, and one shape, throughout.          *)
FCached(w) ==
  /\ w.cachedBatch \in F!NoBatch .. w.curBatch
  /\ w.cachedBatch = w.curBatch \/ ~launch.tnd => w.shape = F!ShapeOf(F!QSeqLenOf(w.curBatch))
FPlace(w) ==
  /\ w.curBatch \in F!Batches
  /\ w.preTotal = F!totalBefore[w.curBatch] /\ w.curTotal = F!totalBefore[w.curBatch + 1]
  /\ w.preTotal <= w.taskIdx
FAt(c, w, list) ==
  /\ w \in FCursor /\ list \in Seq(FTasks)
  /\ w.taskIdx = c + Len(list) * launch.coreNum /\ w.taskIdx < F!totalTaskNum + launch.coreNum
  /\ FPlace(w) /\ FCached(w) /\ FRanRight(c, list)
FInv ==
  /\ launch \in FusedLaunches
  /\ core = [c \in F!Cores |-> core[c]] /\ ran = [c \in F!Cores |-> ran[c]]
  /\ \A c \in F!Cores : FAt(c, core[c], ran[c])

LEMMA FSame ==
  ASSUME launch' = launch
  PROVE  /\ F!Cores' = F!Cores /\ FTasks' = FTasks
         /\ \A c, w, list : FAt(c, w, list)' = FAt(c, w, list)
<1>1. /\ F!totalBefore' = F!totalBefore /\ F!rowsBefore' = F!rowsBefore
      /\ \A q : F!ShapeOf(q)' = F!ShapeOf(q)
  BY FSameTotals
<1>2. /\ F!Cores' = F!Cores /\ F!Batches' = F!Batches /\ F!qHeads' = F!qHeads
      /\ \A b : F!QSeqLenOf(b)' = F!QSeqLenOf(b)
  BY DEF F!Cores, F!Batches, F!QSeqLenOf, F!qHeads
<1>3. F!uniformQ' = F!uniformQ
  BY <1>1, <1>2 DEF F!uniformQ
<1>4. F!totalTaskNum' = F!totalTaskNum
  BY <1>1, <1>2, <1>3 DEF F!totalTaskNum
<1>5. \A w : F!Tile(w)' = F!Tile(w)
  BY <1>2, <1>4 DEF F!Tile, F!Place
<1>6. \A b, x : FTile(b, x)' = FTile(b, x)
  BY <1>1, <1>2, <1>5 DEF FTile
<1>7. FTasks' = FTasks
  BY <1>2, <1>6 DEF FTasks
<1>8. \A c, list : FRanRight(c, list)' = FRanRight(c, list)
  BY <1>1, <1>2, <1>6 DEF FRanRight, Number
<1>9. \A w : FPlace(w)' = FPlace(w) /\ FCached(w)' = FCached(w)
  BY <1>1, <1>2 DEF FPlace, FCached
<1>10. \A c, w, list : FAt(c, w, list)' = FAt(c, w, list)
  BY <1>4, <1>7, <1>8, <1>9 DEF FAt, FCursor
<1>11. QED
  BY <1>2, <1>7, <1>10

LEMMA FTotal ==
  ASSUME launch \in FusedLaunches
  PROVE  /\ F!totalTaskNum \in Nat
         /\ \A b \in F!Batches : \A x : Within(F!totalBefore, b, x) => x \in Nat /\ x < F!totalTaskNum
<1>1. PICK n \in Nat : n = Len(launch.q) /\ F!Batches = 0 .. n - 1 /\ F!totalTaskNum = F!totalBefore[n]
  BY FLaunch, FTotalTasks
<1>2. Sums(F!totalBefore, n)
  BY <1>1, FSums
<1>3. F!totalBefore[n] \in Nat
  BY <1>2 DEF Sums
<1>4. ASSUME NEW b \in F!Batches, NEW x, Within(F!totalBefore, b, x)
      PROVE  x \in Nat /\ x < F!totalTaskNum
  <2>1. b + 1 \in 0 .. n /\ n \in b + 1 .. n
    BY <1>1
  <2>2. F!totalBefore[b + 1] <= F!totalBefore[n] /\ F!totalBefore[b + 1] \in Nat
    BY <1>2, <2>1, SumsGrow DEF Sums
  <2>3. QED
    BY <1>1, <1>3, <1>4, <2>2 DEF Within
<1>5. QED
  BY <1>1, <1>3, <1>4

LEMMA FInvInit ==
  ASSUME F!Init
  PROVE  FInv
<1>1. launch \in FusedLaunches
  BY DEF F!Init
<1>2. ASSUME NEW c \in F!Cores
      PROVE  FAt(c, core[c], ran[c])
  <2>1. /\ core[c] = [taskIdx |-> c, curBatch |-> 0, preTotal |-> 0, curTotal |-> F!firstBatchTaskNum,
                      cachedBatch |-> F!NoBatch, shape |-> F!ShapeOf(F!QSeqLenOf(0))]
        /\ ran[c] = << >>
    BY <1>2 DEF F!Init
  <2>2. c \in Nat /\ c < launch.coreNum /\ launch.coreNum \in Nat \ {0}
    BY <1>1, <1>2, FLaunch DEF F!Cores
  <2>3. 0 \in F!Batches /\ F!QSeqLenOf(0) \in Nat
    BY <1>1, FLaunch
  <2>4. /\ F!totalBefore[0] = 0 /\ F!totalBefore[0 + 1] = F!firstBatchTaskNum /\ F!firstBatchTaskNum \in Nat
        /\ F!ShapeOf(F!QSeqLenOf(0)) \in FShapes
    <3>1. F!totalBefore[0] = 0 /\ F!totalBefore[0 + 1] = F!totalBefore[0] + F!firstBatchTaskNum
      BY <1>1, <2>3, FSums DEF Sums, F!firstBatchTaskNum
    <3>2. F!firstBatchTaskNum \in Nat /\ F!ShapeOf(F!QSeqLenOf(0)) \in FShapes
      BY <1>1, <2>3, FShapeType DEF F!firstBatchTaskNum
    <3>3. QED
      BY <3>1, <3>2
  <2>5. F!totalTaskNum \in Nat
    BY <1>1, FTotal
  <2>6. core[c] \in FCursor
    BY <2>1, <2>2, <2>3, <2>4 DEF FCursor, F!NoBatch
  <2>7. ran[c] \in Seq(FTasks) /\ Len(ran[c]) = 0
    BY <2>1
  <2>8. core[c].taskIdx = c + Len(ran[c]) * launch.coreNum
    BY <2>1, <2>2, <2>7
  <2>9. core[c].taskIdx < F!totalTaskNum + launch.coreNum
    BY <2>1, <2>2, <2>5
  <2>10. FPlace(core[c])
    BY <2>1, <2>2, <2>3, <2>4 DEF FPlace
  <2>11. FCached(core[c])
    BY <2>1 DEF FCached, F!NoBatch
  <2>12. FRanRight(c, ran[c])
    BY <2>7 DEF FRanRight
  <2>13. QED
    BY <2>6, <2>7, <2>8, <2>9, <2>10, <2>11, <2>12 DEF FAt
<1>3. core = [c \in F!Cores |-> core[c]] /\ ran = [c \in F!Cores |-> ran[c]]
  BY DEF F!Init
<1>4. QED
  BY <1>1, <1>2, <1>3 DEF FInv

(* The invariant after a step of core c, from its new values.              *)
LEMMA FCoreNext ==
  ASSUME FInv, launch' = launch, NEW c \in F!Cores, NEW w2, NEW list2, FAt(c, w2, list2),
         core' = [core EXCEPT ![c] = w2], ran' = [ran EXCEPT ![c] = list2]
  PROVE  FInv'
<1>1. /\ core' = [d \in F!Cores |-> core'[d]] /\ ran' = [d \in F!Cores |-> ran'[d]]
      /\ \A d \in F!Cores : FAt(d, core'[d], ran'[d])
  BY DEF FInv
<1>2. F!Cores' = F!Cores /\ \A d, w, list : FAt(d, w, list)' = FAt(d, w, list)
  BY FSame
<1>3. launch' \in FusedLaunches
  BY DEF FInv
<1>4. QED
  BY <1>1, <1>2, <1>3 DEF FInv

LEMMA FInvSame ==
  ASSUME FInv, UNCHANGED walkVars
  PROVE  FInv'
<1>1. launch' = launch /\ core' = core /\ ran' = ran
  BY DEF walkVars
<1>2. F!Cores' = F!Cores /\ \A d, w, list : FAt(d, w, list)' = FAt(d, w, list)
  BY <1>1, FSame
<1>3. QED
  BY <1>1, <1>2 DEF FInv

(* What the updates of a cursor leave.                                     *)
FMoved(w, b, p, total) == [w EXCEPT !.curBatch = b, !.preTotal = p, !.curTotal = total]
FRefreshed(w, s, b) == [w EXCEPT !.shape = s, !.cachedBatch = b]

LEMMA FMoves ==
  ASSUME NEW w \in FCursor, NEW b, NEW p, NEW total, b \in Nat /\ p \in Nat /\ total \in Nat,
         NEW w2, w2 = FMoved(w, b, p, total)
  PROVE  /\ w2.taskIdx = w.taskIdx /\ w2.curBatch = b /\ w2.preTotal = p /\ w2.curTotal = total
         /\ w2.cachedBatch = w.cachedBatch /\ w2.shape = w.shape /\ w2 \in FCursor
BY DEF FCursor, FMoved

LEMMA FRefreshes ==
  ASSUME NEW w \in FCursor, NEW s, NEW b, s \in FShapes /\ b \in Int,
         NEW w2, w2 = FRefreshed(w, s, b)
  PROVE  /\ w2.taskIdx = w.taskIdx /\ w2.curBatch = w.curBatch /\ w2.preTotal = w.preTotal
         /\ w2.curTotal = w.curTotal /\ w2.cachedBatch = b /\ w2.shape = s /\ w2 \in FCursor
BY DEF FCursor, FRefreshed

LEMMA FNextBatchKeeps ==
  ASSUME FInv, NEW c \in F!Cores, F!NextBatch(c)
  PROVE  FInv'
<1> DEFINE n == Len(launch.q)
<1>1. PICK w, list : w = core[c] /\ list = ran[c] /\ FAt(c, w, list) /\ w \in FCursor
  BY DEF FInv, FAt
<1>2. PICK b, k, w2 :
        /\ b = w.curBatch + 1 /\ k = F!ShapeOf(F!QSeqLenOf(b)).totalTasks
        /\ w2 = FMoved(w, b, w.curTotal, w.curTotal + k)
        /\ core' = [core EXCEPT ![c] = w2]
  BY <1>1 DEF F!NextBatch, FMoved
<1>3. launch \in FusedLaunches /\ n \in Nat /\ F!Batches = 0 .. n - 1 /\ w.curBatch \in F!Batches
  BY <1>1, FLaunch DEF FInv, FAt, FPlace
<1>4. Sums(F!totalBefore, n) /\ F!totalTaskNum = F!totalBefore[n]
  BY <1>3, FSums, FTotalTasks
<1>5. /\ w.taskIdx < F!totalBefore[n] /\ F!totalBefore[b] <= w.taskIdx /\ w.curTotal = F!totalBefore[b]
  BY <1>1, <1>2, <1>4 DEF F!NextBatch, F!Walks, FAt, FPlace
<1>6. b \in F!Batches
  <2>1. b # n
    <3>1. w.taskIdx \in Nat /\ F!totalBefore[n] \in Nat
      BY <1>1, <1>3, <1>4 DEF FCursor, Sums
    <3>2. QED
      BY <1>5, <3>1
  <2>2. QED
    BY <1>2, <1>3, <2>1
<1>7. k \in Nat /\ F!totalBefore[b + 1] = F!totalBefore[b] + k /\ F!totalBefore[b] \in Nat
  <2>1. F!QSeqLenOf(b) \in Nat
    BY <1>3, <1>6, FLaunch
  <2>2. b \in 0 .. n
    BY <1>3, <1>6
  <2>3. QED
    BY <1>2, <1>3, <1>4, <1>6, <2>1, <2>2, FShapeType, FSums DEF Sums
<1>8. /\ w2.taskIdx = w.taskIdx /\ w2.curBatch = b /\ w2.preTotal = F!totalBefore[b]
      /\ w2.curTotal = F!totalBefore[b + 1] /\ w2.cachedBatch = w.cachedBatch
      /\ w2.shape = w.shape /\ w2 \in FCursor
  <2>1. b \in Nat /\ w.curTotal \in Nat
        /\ w.curTotal + k \in Nat /\ w.curTotal + k = F!totalBefore[b + 1]
    BY <1>3, <1>5, <1>6, <1>7
  <2>2. PICK p, total : p = w.curTotal /\ total = w.curTotal + k
    OBVIOUS
  <2>3. w2 = FMoved(w, b, p, total) /\ w \in FCursor
    BY <1>1, <1>2, <2>2
  <2>4. b \in Nat /\ p \in Nat /\ total \in Nat
    BY <2>1, <2>2
  <2>5. /\ w2.taskIdx = w.taskIdx /\ w2.curBatch = b /\ w2.preTotal = p /\ w2.curTotal = total
        /\ w2.cachedBatch = w.cachedBatch /\ w2.shape = w.shape /\ w2 \in FCursor
    BY <2>3, <2>4, FMoves
  <2>6. QED
    BY <1>5, <2>1, <2>2, <2>5
<1>9. FPlace(w2)
  BY <1>2, <1>5, <1>6, <1>8 DEF FPlace
<1>10. FAt(c, w2, list)
  <2>1. FCached(w)
    BY <1>1 DEF FAt
  <2>2. w2.cachedBatch \in F!NoBatch .. w2.curBatch /\ w2.cachedBatch # w2.curBatch
    BY <1>2, <1>3, <1>8, <2>1 DEF FCached, F!NoBatch
  <2>3. ~launch.tnd => w2.shape = F!ShapeOf(F!QSeqLenOf(b))
    <3>1. ~launch.tnd => F!QSeqLenOf(b) = F!QSeqLenOf(w.curBatch)
      BY <1>3, <1>6, FLaunch
    <3>2. QED
      BY <1>8, <2>1, <3>1 DEF FCached
  <2>4. FCached(w2)
    BY <1>8, <2>2, <2>3 DEF FCached
  <2>5. QED
    BY <1>1, <1>8, <1>9, <2>4 DEF FAt
<1>11. launch' = launch /\ ran' = [ran EXCEPT ![c] = list]
  BY <1>1 DEF F!NextBatch, FInv
<1>12. QED
  BY <1>2, <1>10, <1>11, FCoreNext

LEMMA FRunTaskKeeps ==
  ASSUME FInv, NEW c \in F!Cores, F!RunTask(c)
  PROVE  FInv'
<1> DEFINE n == Len(launch.q)
<1>1. PICK w, list : w = core[c] /\ list = ran[c] /\ FAt(c, w, list) /\ w \in FCursor
                     /\ list \in Seq(FTasks)
  BY DEF FInv, FAt
<1>2. PICK w1, w2, t, list2 :
        /\ w1 = F!Cached(w) /\ w2 = [w1 EXCEPT !.taskIdx = w1.taskIdx + launch.coreNum]
        /\ t = F!Tile(w1) /\ list2 = Append(list, t)
        /\ core' = [core EXCEPT ![c] = w2] /\ ran' = [ran EXCEPT ![c] = list2]
        /\ launch' = launch
  BY <1>1 DEF F!RunTask
<1>3. PICK N \in Nat \ {0} : N = launch.coreNum
  BY FLaunch DEF FInv
<1>4. launch \in FusedLaunches /\ n \in Nat /\ F!Batches = 0 .. n - 1
  BY FLaunch DEF FInv
<1>5. FPlace(w) /\ FCached(w) /\ FRanRight(c, list)
      /\ w.taskIdx = c + Len(list) * N /\ w.taskIdx < F!totalTaskNum + N
  BY <1>1, <1>3 DEF FAt
<1>6. PICK b \in F!Batches, x \in Nat, s \in FShapes :
        /\ b = w.curBatch /\ x = w.taskIdx /\ s = F!ShapeOf(F!QSeqLenOf(b)) /\ b \in Nat
  <2>1. w.curBatch \in F!Batches /\ w.taskIdx \in Nat
    BY <1>1, <1>5 DEF FPlace, FCursor
  <2>2. F!QSeqLenOf(w.curBatch) \in Nat /\ w.curBatch \in Nat
    BY <1>4, <2>1, FLaunch
  <2>3. F!ShapeOf(F!QSeqLenOf(w.curBatch)) \in FShapes
    BY <1>4, <2>2, FShapeType
  <2>4. QED
    BY <2>1, <2>2, <2>3
<1>7. Within(F!totalBefore, b, x) /\ x < F!totalTaskNum
  BY <1>1, <1>5, <1>6 DEF F!RunTask, F!Walks, FPlace, Within
<1>8. /\ w1.taskIdx = x /\ w1.curBatch = b /\ w1.preTotal = F!totalBefore[b]
      /\ w1.curTotal = F!totalBefore[b + 1] /\ w1.cachedBatch = b
      /\ w1.shape = s /\ w1 \in FCursor
  <2>1. w.preTotal = F!totalBefore[b] /\ w.curTotal = F!totalBefore[b + 1]
    BY <1>5, <1>6 DEF FPlace
  <2>2. (IF F!Refresh(w) THEN F!ShapeOf(F!QSeqLenOf(w.curBatch)) ELSE w.shape) = s
    BY <1>5, <1>6 DEF FCached, F!Refresh
  <2>3. w1 = FRefreshed(w, s, b)
    BY <1>2, <1>6, <2>2 DEF F!Cached, FRefreshed
  <2>4. QED
    BY <1>1, <1>6, <2>1, <2>3, FRefreshes
<1>9. t = FTile(b, x)
  <2> DEFINE v == [taskIdx |-> x, curBatch |-> b, preTotal |-> F!totalBefore[b],
                   shape |-> F!ShapeOf(F!QSeqLenOf(b))]
  <2>1. /\ w1.taskIdx = v.taskIdx /\ w1.curBatch = v.curBatch /\ w1.preTotal = v.preTotal
        /\ w1.shape = v.shape
    BY <1>6, <1>8
  <2>2. FTile(b, x) = F!Tile(v)
    BY DEF FTile
  <2> HIDE DEF v
  <2>3. F!Tile(w1) = F!Tile(v)
    BY <2>1, FTileReads
  <2>4. QED
    BY <1>2, <2>2, <2>3
<1>10. /\ w2.taskIdx = x + N /\ w2.curBatch = b /\ w2.preTotal = F!totalBefore[b]
       /\ w2.curTotal = F!totalBefore[b + 1] /\ w2.cachedBatch = b /\ w2.shape = s
       /\ w2 \in FCursor
  <2>1. x + N \in Nat
    OBVIOUS
  <2>2. QED
    BY <1>2, <1>3, <1>8, <2>1 DEF FCursor
<1>11. FPlace(w2) /\ FCached(w2)
  <2>1. F!totalBefore[b] <= x + N
    <3>1. F!totalBefore[b] \in Nat
      BY <1>8 DEF FCursor
    <3>2. QED
      BY <1>7, <3>1 DEF Within
  <2>2. b \in F!NoBatch .. b
    BY <1>6 DEF F!NoBatch
  <2>3. QED
    BY <1>6, <1>10, <2>1, <2>2 DEF FPlace, FCached
<1>12. PICK l \in Nat : /\ l = Len(list) /\ Len(list2) = l + 1 /\ list2 \in Seq(FTasks)
                        /\ list2[l + 1] = t /\ \A i \in 1 .. l : list2[i] = list[i]
  <2>1. t \in FTasks
    BY <1>9 DEF FTasks
  <2>2. /\ Len(list2) = Len(list) + 1 /\ list2 \in Seq(FTasks) /\ Len(list) \in Nat
        /\ list2[Len(list) + 1] = t /\ \A i \in 1 .. Len(list) : list2[i] = list[i]
    BY <1>1, <1>2, <2>1, AppendIs
  <2>3. QED
    BY <2>2
<1>13. c \in Int /\ x = c + l * N /\ (l + 1) * N = l * N + N /\ l * N \in Int
  <2>1. c \in Int
    BY <1>3 DEF F!Cores
  <2>2. x = c + l * N
    BY <1>5, <1>6, <1>12
  <2>3. l \in Int /\ N \in Nat
    BY <1>3, <1>12
  <2>4. l * N \in Int /\ (l + 1) * N = l * N + N
    BY <2>3, NextTimes
  <2>5. QED
    BY <2>1, <2>2, <2>4
<1>14. w2.taskIdx = c + (l + 1) * N /\ w2.taskIdx < F!totalTaskNum + N
  <2>1. F!totalTaskNum \in Nat
    BY <1>4, FTotal
  <2>2. QED
    BY <1>7, <1>10, <1>13, <2>1
<1>15. FRanRight(c, list2)
  <2>1. ASSUME NEW i \in 1 .. Len(list2)
        PROVE  \E d \in F!Batches : /\ Within(F!totalBefore, d, Number(c, i))
                                    /\ list2[i] = FTile(d, Number(c, i))
    <3>1. CASE i \in 1 .. l
      BY <1>5, <1>12, <3>1 DEF FRanRight
    <3>2. CASE i = l + 1
      <4>1. Number(c, i) = x
        BY <1>3, <1>13, <3>2 DEF Number
      <4>2. QED
        BY <1>7, <1>9, <1>12, <3>2, <4>1
    <3>3. QED
      BY <1>12, <3>1, <3>2
  <2>2. QED
    BY <2>1 DEF FRanRight
<1>16. FAt(c, w2, list2)
  BY <1>3, <1>10, <1>11, <1>12, <1>14, <1>15 DEF FAt
<1>17. QED
  BY <1>2, <1>16, FCoreNext

LEMMA FInvStep ==
  ASSUME FInv, F!Next
  PROVE  FInv'
<1>1. CASE \E c \in F!Cores : F!NextBatch(c)
  BY <1>1, FNextBatchKeeps
<1>2. CASE \E c \in F!Cores : F!RunTask(c)
  BY <1>2, FRunTaskKeeps
<1>3. CASE F!Terminated
  <2>1. UNCHANGED walkVars
    BY <1>3 DEF F!Terminated, F!vars, walkVars
  <2>2. QED
    BY <2>1, FInvSame
<1>4. QED
  BY <1>1, <1>2, <1>3 DEF F!Next

-----------------------------------------------------------------------------
(* Fused tasks: what the walk amounts to.                                  *)

(* The tasks of a core, and its cursor. *)
LEMMA FCore ==
  ASSUME FInv, NEW c \in F!Cores
  PROVE  \E N \in Nat \ {0}, l \in Nat, x \in Nat, total \in Nat :
           /\ N = launch.coreNum /\ c \in 0 .. N - 1
           /\ l = Len(ran[c]) /\ DOMAIN ran[c] = 1 .. l
           /\ total = F!totalTaskNum
           /\ x = core[c].taskIdx /\ x = c + l * N /\ x < total + N
           /\ \A i \in 1 .. l : \E b \in F!Batches :
                /\ Within(F!totalBefore, b, Number(c, i)) /\ ran[c][i] = FTile(b, Number(c, i))
                /\ Number(c, i) < total
<1>1. launch \in FusedLaunches /\ FAt(c, core[c], ran[c])
  BY DEF FInv
<1>2. PICK N \in Nat \ {0} : N = launch.coreNum /\ c \in 0 .. N - 1
  BY <1>1, FLaunch DEF F!Cores
<1>3. PICK l \in Nat : l = Len(ran[c]) /\ DOMAIN ran[c] = 1 .. l
  BY <1>1 DEF FAt
<1>4. PICK x \in Nat : x = core[c].taskIdx /\ x = c + l * N /\ x < F!totalTaskNum + N
  BY <1>1, <1>2, <1>3 DEF FAt, FCursor
<1>5. ASSUME NEW i \in 1 .. l
      PROVE  \E b \in F!Batches :
                /\ Within(F!totalBefore, b, Number(c, i)) /\ ran[c][i] = FTile(b, Number(c, i))
                /\ Number(c, i) < F!totalTaskNum
  <2>1. PICK b \in F!Batches : /\ Within(F!totalBefore, b, Number(c, i))
                               /\ ran[c][i] = FTile(b, Number(c, i))
    BY <1>1, <1>3 DEF FAt, FRanRight
  <2>2. QED
    BY <1>1, <2>1, FTotal
<1>6. QED
  BY <1>1, <1>2, <1>3, <1>4, <1>5, FTotal

LEMMA FDrainIs ==
  ASSUME NEW b, NEW x
  PROVE  FTile(b, x).drain = (x + launch.coreNum >= F!totalTaskNum)
BY DEF FTile, F!Tile

LEMMA FDrainsLast ==
  ASSUME FInv
  PROVE  F!DrainsLast
<1>1. SUFFICES ASSUME NEW c \in F!Cores, NEW i \in DOMAIN ran[c]
               PROVE  ran[c][i].drain <=> i = Len(ran[c]) /\ ~F!Walks(c)
  BY DEF F!DrainsLast
<1>2. PICK N \in Nat \ {0}, l \in Nat, x \in Nat, total \in Nat :
           /\ N = launch.coreNum /\ c \in 0 .. N - 1
           /\ l = Len(ran[c]) /\ DOMAIN ran[c] = 1 .. l
           /\ total = F!totalTaskNum
           /\ x = core[c].taskIdx /\ x = c + l * N /\ x < total + N
           /\ \A j \in 1 .. l : \E b \in F!Batches :
                /\ Within(F!totalBefore, b, Number(c, j)) /\ ran[c][j] = FTile(b, Number(c, j))
                /\ Number(c, j) < total
  BY FCore
<1>3. i \in 1 .. l
  BY <1>1, <1>2
<1>4. PICK y \in Int, z \in Int : y = Number(c, i) /\ z = Number(c, i + 1) /\ z = y + N /\ z = c + i * N
  <2>1. c \in Int /\ i \in Int /\ N \in Nat
    BY <1>2, <1>3
  <2>2. N = launch.coreNum
    BY <1>2
  <2>3. QED
    BY <2>1, <2>2, NextNumber, ZenonT(30)
<1>5. z = y + N
  BY <1>4
<1>6. ran[c][i].drain <=> y + N >= total
  <2>1. PICK b : ran[c][i] = FTile(b, y)
    BY <1>2, <1>3, <1>4
  <2>2. ran[c][i].drain = (y + launch.coreNum >= F!totalTaskNum)
    BY <2>1, FDrainIs
  <2>3. QED
    BY <1>2, <2>2
<1>7. CASE i = l
  <2>1. z = x
    BY <1>2, <1>4, <1>7
  <2>2. ~F!Walks(c) <=> x >= total
    <3>1. F!Walks(c) <=> x < total
      BY <1>2 DEF F!Walks
    <3>2. x \in Int /\ total \in Int
      OBVIOUS
    <3>3. QED
      BY <3>1, <3>2
  <2>3. QED
    BY <1>2, <1>5, <1>6, <1>7, <2>1, <2>2
<1>8. CASE i # l
  <2>1. i + 1 \in 1 .. l
    BY <1>3, <1>8
  <2>2. z < total
    BY <1>2, <1>4, <2>1
  <2>3. ~(y + N >= total)
    BY <1>5, <2>2
  <2>4. ~(i = Len(ran[c]))
    BY <1>2, <1>8
  <2>5. QED
    BY <1>6, <2>3, <2>4
<1>9. QED
  BY <1>7, <1>8

(* The tasks that were run.                                                *)
LEMMA FRan ==
  ASSUME FInv, NEW y \in F!Ran
  PROVE  \E c \in F!Cores, i \in Nat, b \in F!Batches, x \in Nat :
           /\ y = <<c, i>> /\ x = Number(c, i) /\ Within(F!totalBefore, b, x)
           /\ F!Task(y) = FTile(b, x)
<1>1. PICK c \in F!Cores : \E i \in DOMAIN ran[c] : y = <<c, i>>
  BY DEF F!Ran
<1>2. PICK i \in DOMAIN ran[c] : y = <<c, i>>
  BY <1>1
<1>3. PICK l \in Nat : /\ DOMAIN ran[c] = 1 .. l
                       /\ \A j \in 1 .. l : \E b \in F!Batches :
                            /\ Within(F!totalBefore, b, Number(c, j)) /\ ran[c][j] = FTile(b, Number(c, j))
  BY FCore
<1>4. i \in 1 .. l /\ i \in Nat
  BY <1>3
<1>5. PICK b \in F!Batches : /\ Within(F!totalBefore, b, Number(c, i)) /\ ran[c][i] = FTile(b, Number(c, i))
  BY <1>3, <1>4
<1>6. F!Task(y) = ran[c][i]
  BY <1>2 DEF F!Task
<1>7. Number(c, i) \in Nat
  BY <1>5 DEF Within
<1>8. QED
  BY <1>2, <1>4, <1>5, <1>6, <1>7

(* In the end every number was. *)
LEMMA FAllRan ==
  ASSUME FInv, F!AllDone, NEW b \in F!Batches, NEW x, Within(F!totalBefore, b, x)
  PROVE  \E y \in F!Ran : F!Task(y) = FTile(b, x)
<1>1. launch \in FusedLaunches
  BY DEF FInv
<1>2. PICK N \in Nat \ {0} : N = launch.coreNum /\ F!Cores = 0 .. N - 1
  BY <1>1, FLaunch DEF F!Cores
<1>3. PICK z \in Nat, total \in Nat : z = x /\ total = F!totalTaskNum /\ z < total
  BY <1>1, FTotal
<1>4. PICK c \in 0 .. N - 1, d \in Nat : z = c + d * N /\ Number(c, d + 1) = z
  BY <1>2, NumberOf
<1>5. PICK l \in Nat, v \in Nat : DOMAIN ran[c] = 1 .. l /\ v = core[c].taskIdx /\ v = c + l * N
  <2>1. c \in F!Cores
    BY <1>2
  <2>2. /\ ran[c] \in Seq(FTasks) /\ core[c] \in FCursor
        /\ core[c].taskIdx = c + Len(ran[c]) * launch.coreNum
    BY <2>1 DEF FInv, FAt
  <2>3. PICK l \in Nat : l = Len(ran[c]) /\ DOMAIN ran[c] = 1 .. l
    BY <2>2
  <2>4. QED
    BY <1>2, <2>2, <2>3 DEF FCursor
<1>6. total <= v
  <2>1. ~ v < total
    BY <1>2, <1>3, <1>5 DEF F!AllDone, F!Walks
  <2>2. QED
    BY <1>3, <1>5, <2>1
<1>7. d * N < l * N
  <2>1. PICK u \in Nat, w \in Nat : u = d * N /\ w = l * N
    OBVIOUS
  <2>2. u < w
    BY <1>3, <1>4, <1>5, <1>6, <2>1
  <2>3. QED
    BY <2>1, <2>2
<1>8. d + 1 \in 1 .. l
  <2>1. d < l
    BY <1>7, TimesLess
  <2>2. QED
    BY <2>1
<1>9. PICK e \in F!Batches : /\ Within(F!totalBefore, e, z) /\ ran[c][d + 1] = FTile(e, z)
  <2>1. FRanRight(c, ran[c]) /\ d + 1 \in 1 .. Len(ran[c])
    <3>1. c \in F!Cores
      BY <1>2
    <3>2. FRanRight(c, ran[c]) /\ ran[c] \in Seq(FTasks)
      BY <3>1 DEF FInv, FAt
    <3>3. DOMAIN ran[c] = 1 .. Len(ran[c])
      BY <3>2
    <3>4. QED
      BY <1>5, <1>8, <3>2, <3>3
  <2>2. QED
    BY <1>4, <2>1 DEF FRanRight
<1>10. e = b
  <2>1. PICK n \in Nat : n = Len(launch.q) /\ F!Batches = 0 .. n - 1
    BY <1>1, FLaunch
  <2>2. Sums(F!totalBefore, n)
    BY <1>1, <2>1, FSums
  <2>3. QED
    BY <1>3, <1>9, <2>1, <2>2, OneStretch
<1>11. <<c, d + 1>> \in F!Ran
  BY <1>2, <1>5, <1>8 DEF F!Ran
<1>12. F!Task(<<c, d + 1>>) = FTile(b, x)
  BY <1>3, <1>9, <1>10 DEF F!Task
<1>13. QED
  BY <1>11, <1>12

LEMMA FCursorRight ==
  ASSUME FInv
  PROVE  F!CursorRight
<1>1. SUFFICES ASSUME NEW c \in F!Cores, NEW w, w = core[c]
               PROVE  /\ w.taskIdx \in 0 .. F!totalTaskNum + launch.coreNum - 1
                      /\ w.curBatch \in F!Batches
                      /\ w.preTotal = F!totalBefore[w.curBatch]
                      /\ w.curTotal = F!totalBefore[w.curBatch + 1]
                      /\ w.cachedBatch = w.curBatch => w.shape = F!ShapeOf(F!QSeqLenOf(w.curBatch))
  BY DEF F!CursorRight
<1>2. PICK N \in Nat \ {0}, x \in Nat, total \in Nat :
           N = launch.coreNum /\ total = F!totalTaskNum /\ x = w.taskIdx /\ x < total + N
  BY <1>1, FCore
<1>3. FPlace(w) /\ FCached(w)
  BY <1>1 DEF FInv, FAt
<1>4. w.taskIdx \in 0 .. F!totalTaskNum + launch.coreNum - 1
  BY <1>2
<1>5. QED
  BY <1>3, <1>4 DEF FPlace, FCached

-----------------------------------------------------------------------------
(* Fused tasks: the rows and heads of a tile.                              *)

(* The blocks of d times R and r numbers.                                  *)
RowsAre(q, R0, d, r) == R0 \in Nat \ {0} /\ d \in Nat /\ r \in 0 .. R0 - 1 /\ q = d * R0 + r

LEMMA RowBlocks ==
  ASSUME NEW q, NEW R0, NEW d, NEW r, RowsAre(q, R0, d, r), NEW s \in Nat
  PROVE  /\ q \in Nat /\ (IsBlock(q, R0, s) <=> s < d \/ (s = d /\ r # 0))
         /\ s = d /\ r # 0 => BlockSize(q, R0, s) = r
<1>1. R0 \in Nat \ {0} /\ d \in Nat /\ r \in 0 .. R0 - 1 /\ q = d * R0 + r
  BY DEF RowsAre
<1>2. PICK u \in Nat : u = d * R0 /\ (d + 1) * R0 = u + R0
  BY <1>1, NextTimes
<1>3. q = u + r /\ q \in Nat
  BY <1>1, <1>2
<1>4. PICK c \in Int : c = P!CeilDiv(q, R0) /\ \A i \in Int : i < c <=> i * R0 < q
  BY <1>1, <1>3, CeilIs
<1>5. (d < c <=> r # 0) /\ ~ d + 1 < c
  <2>1. d \in Int /\ d + 1 \in Int
    BY <1>1
  <2>2. (d < c <=> u < q) /\ (d + 1 < c <=> u + R0 < q)
    BY <1>2, <1>4, <2>1
  <2>3. QED
    BY <1>1, <1>2, <1>3, <2>2
<1>6. s < d => s < c
  <2>1. ASSUME s < d
        PROVE  s < c
    <3>1. PICK v \in Int : v = s * R0 /\ (s + 1) * R0 = v + R0
      BY <1>1, NextTimes
    <3>2. (s + 1) * R0 <= d * R0
      BY <1>1, <2>1, TimesGrows
    <3>3. v < q
      BY <1>1, <1>2, <1>3, <3>1, <3>2
    <3>4. QED
      BY <1>4, <3>1, <3>3
  <2>2. QED
    BY <2>1
<1>7. IsBlock(q, R0, s) <=> s < c
  BY <1>1, <1>3, <1>4 DEF IsBlock
<1>8. s < c <=> s < d \/ (s = d /\ r # 0)
  BY <1>1, <1>4, <1>5, <1>6
<1>9. s = d /\ r # 0 => BlockSize(q, R0, s) = r
  <2>1. ASSUME s = d, r # 0
        PROVE  BlockSize(q, R0, s) = r
    <3>1. s = c - 1
      BY <1>1, <1>4, <1>5, <2>1
    <3>2. BlockSize(q, R0, s) = q - u
      BY <1>2, <1>4, <2>1, <3>1 DEF BlockSize
    <3>3. QED
      BY <1>1, <1>2, <1>3, <3>2
  <2>2. QED
    BY <2>1
<1>10. QED
  BY <1>3, <1>7, <1>8, <1>9

LEMMA BlockSizeIs ==
  ASSUME NEW n, NEW d, NEW k, IsBlock(n, d, k)
  PROVE  F!AtMost(d, n - k * d) = BlockSize(n, d, k)
<1>1. PICK N \in Nat, D \in Nat \ {0} : N = n /\ D = d
  BY DEF IsBlock
<1>2. PICK v \in Nat, size \in 1 .. D : v = k * d /\ size = BlockSize(n, d, k) /\ v + size <= N
  BY <1>1, BlockIs
<1>3. CASE k = P!CeilDiv(n, d) - 1
  <2>1. size = N - v
    BY <1>1, <1>2, <1>3 DEF BlockSize
  <2>2. QED
    BY <1>1, <1>2, <2>1 DEF F!AtMost
<1>4. CASE k # P!CeilDiv(n, d) - 1
  <2>1. size = D
    BY <1>1, <1>2, <1>4 DEF BlockSize
  <2>2. QED
    BY <1>1, <1>2, <2>1 DEF F!AtMost
<1>5. QED
  BY <1>3, <1>4

(* Heads of a tile of the s-th block of rows. *)
FHeads(q, s) == IF s < q \div FUSED_ROWS THEN 1 ELSE F!ShapeOf(q).tailHeadTile

FTileShape(b, x, s, e, p) ==
  LET q == F!QSeqLenOf(b)
      t == FTile(b, x)
  IN /\ s \in Nat /\ p \in Nat /\ e \in Nat \ {0}
     /\ IsBlock(q, FUSED_ROWS, s) /\ IsBlock(F!qHeads, e, p) /\ e = FHeads(q, s)
     /\ x - F!totalBefore[b] = s * F!qHeads + p
     /\ t.b = b /\ t.qSBlockIdx = s /\ t.qSBlockSize = BlockSize(q, FUSED_ROWS, s)
     /\ t.qNStartIdx = p * e /\ t.qNBlockSize = BlockSize(F!qHeads, e, p)
     /\ t.kvNIdx = (p * e) \div launch.group

LEMMA FSequence ==
  ASSUME launch \in FusedLaunches, NEW b \in F!Batches
  PROVE  \E q, total, d, r, tau :
           /\ q \in Nat /\ total \in Nat /\ q = F!QSeqLenOf(b)
           /\ FShapeHas(q, d, r, tau) /\ RowsAre(q, FUSED_ROWS, d, r)
           /\ total = F!totalBefore[b]
           /\ F!totalBefore[b + 1] = total + F!ShapeOf(q).totalTasks
<1>1. PICK q \in Nat : q = F!QSeqLenOf(b)
  BY FLaunch
<1>2. PICK d, r, tau : FShapeHas(q, d, r, tau)
  BY FShapeExists
<1>3. PICK total \in Nat : total = F!totalBefore[b]
  <2>1. b \in 0 .. Len(launch.q)
    BY FLaunch
  <2>2. QED
    BY <2>1, FSums DEF Sums
<1>4. F!totalBefore[b + 1] = total + F!ShapeOf(q).totalTasks
  BY <1>1, <1>3, FSums
<1>5. RowsAre(q, FUSED_ROWS, d, r)
  BY <1>2, FLaunch DEF FShapeHas, RowsAre
<1>6. QED
  BY <1>1, <1>2, <1>3, <1>4, <1>5

LEMMA FTileShapeOf ==
  ASSUME launch \in FusedLaunches, NEW b \in F!Batches, NEW x, Within(F!totalBefore, b, x)
  PROVE  \E s, e, p : FTileShape(b, x, s, e, p)
<1>1. PICK q, total, d, r, tau :
           /\ q \in Nat /\ total \in Nat /\ q = F!QSeqLenOf(b)
           /\ FShapeHas(q, d, r, tau) /\ RowsAre(q, FUSED_ROWS, d, r)
           /\ total = F!totalBefore[b]
           /\ F!totalBefore[b + 1] = total + F!ShapeOf(q).totalTasks
  BY FSequence
<1>2. PICK R0 \in Nat \ {0}, H \in Nat \ {0}, g \in Nat \ {0} :
        R0 = FUSED_ROWS /\ H = F!qHeads /\ g = launch.group
  BY FLaunch
<1>3. /\ d \in Nat /\ tau \in Nat \ {0} /\ d = q \div R0
      /\ F!ShapeOf(q).normQBlocks = d /\ F!ShapeOf(q).tailHeadTile = tau
  BY <1>1, <1>2 DEF FShapeHas
<1>4. PICK norm \in Nat, c \in Nat :
        /\ norm = d * H /\ c = IF r = 0 THEN 0 ELSE P!CeilDiv(H, tau)
        /\ F!ShapeOf(q).normTasks = norm /\ F!ShapeOf(q).totalTasks = norm + c
  <2>1. d * H \in Nat /\ P!CeilDiv(H, tau) \in Nat
    BY <1>3, CeilNat
  <2>2. QED
    BY <1>1, <1>2, <2>1 DEF FShapeHas
<1>5. PICK j \in Nat : j = x - total /\ j < norm + c
  <2>1. total \in Nat /\ x \in Nat /\ total <= x /\ x < total + (norm + c)
    BY <1>1, <1>4 DEF Within
  <2>2. QED
    BY <1>4, <2>1
<1> DEFINE w == [taskIdx |-> x, curBatch |-> b, preTotal |-> F!totalBefore[b],
                 shape |-> F!ShapeOf(F!QSeqLenOf(b))]
           place == F!Place(w)
<1>6. \E s \in Nat, p \in Nat, e \in Nat \ {0} :
         /\ IsBlock(q, R0, s) /\ IsBlock(H, e, p) /\ e = FHeads(q, s) /\ j = s * H + p
         /\ place = [qSBlockIdx |-> s, qNBlockIdx |-> p, headTile |-> e]
  <2>1. CASE j < norm
    <3>1. PICK s \in Int, p \in 0 .. H - 1, u \in Int : j \div H = s /\ j % H = p /\ u = s * H /\ j = u + p
      <4>1. j \in Int
        OBVIOUS
      <4>2. QED
        BY <4>1, DivPick
    <3>2. s \in Nat
      BY <3>1, QuotientNat
    <3>3. s < d
      <4>1. s * H < d * H
        BY <1>4, <2>1, <3>1
      <4>2. QED
        BY <1>3, <3>2, <4>1, TimesLess
    <3>4. IsBlock(q, R0, s)
      BY <1>1, <1>2, <3>2, <3>3, RowBlocks
    <3>5. 1 = FHeads(q, s)
      BY <1>2, <1>3, <3>3 DEF FHeads
    <3>6. IsBlock(H, 1, p)
      <4>1. P!CeilDiv(H, 1) = H
        <5>0. H \in Nat /\ 1 \in Nat \ {0}
          OBVIOUS
        <5>1. PICK a \in Int : a = P!CeilDiv(H, 1) /\ \A i \in Int : i < a <=> i * 1 < H
          BY <5>0, CeilIs
        <5>2. a * 1 = a /\ H * 1 = H /\ H \in Int
          OBVIOUS
        <5>3. (a < a <=> a < H) /\ (H < a <=> H < H)
          BY <5>1, <5>2
        <5>4. QED
          BY <5>1, <5>3
      <4>2. QED
        BY <4>1 DEF IsBlock
    <3>7. j = s * H + p
      BY <3>1
    <3>8. place = [qSBlockIdx |-> s, qNBlockIdx |-> p, headTile |-> 1]
      BY <1>1, <1>2, <1>4, <1>5, <2>1, <3>1 DEF F!Place
    <3>9. p \in Nat /\ 1 \in Nat \ {0}
      OBVIOUS
    <3> HIDE DEF place
    <3>10. QED
      BY <3>2, <3>4, <3>5, <3>6, <3>7, <3>8, <3>9
  <2>2. CASE ~ j < norm
    <3>1. PICK p \in Nat : p = j - norm /\ p < c
      BY <1>5, <2>2
    <3>2. r # 0 /\ c = P!CeilDiv(H, tau)
      BY <1>4, <3>1
    <3>3. IsBlock(q, R0, d)
      BY <1>1, <1>2, <1>3, <3>2, RowBlocks
    <3>4. tau = FHeads(q, d)
      BY <1>2, <1>3 DEF FHeads
    <3>5. IsBlock(H, tau, p)
      BY <1>3, <3>1, <3>2 DEF IsBlock
    <3>6. j = norm + p
      BY <3>1
    <3>7. place = [qSBlockIdx |-> d, qNBlockIdx |-> p, headTile |-> tau]
      BY <1>1, <1>2, <1>3, <1>4, <1>5, <2>2, <3>1 DEF F!Place
    <3>8. j = d * H + p
      BY <1>4, <3>6
    <3> HIDE DEF place
    <3>9. QED
      BY <1>3, <3>1, <3>3, <3>4, <3>5, <3>7, <3>8
  <2>3. QED
    BY <2>1, <2>2
<1>7. PICK s \in Nat, p \in Nat, e \in Nat \ {0} :
         /\ IsBlock(q, R0, s) /\ IsBlock(H, e, p) /\ e = FHeads(q, s) /\ j = s * H + p
         /\ place = [qSBlockIdx |-> s, qNBlockIdx |-> p, headTile |-> e]
  BY <1>6
<1>8. FTile(b, x) = F!Tile(w)
  BY DEF FTile
<1>9. place.qSBlockIdx = s /\ place.qNBlockIdx = p /\ place.headTile = e
  <2> HIDE DEF place
  <2>1. QED
    BY <1>7
<1>10. PICK start \in Nat : start = p * e
  OBVIOUS
<1>11. /\ F!Tile(w).b = b /\ F!Tile(w).qSBlockIdx = s /\ F!Tile(w).qNStartIdx = start
       /\ F!Tile(w).kvNIdx = start \div g
  BY <1>2, <1>9, <1>10 DEF F!Tile
<1>12. F!Tile(w).qSBlockSize = BlockSize(q, R0, s)
  BY <1>1, <1>2, <1>9, FCeilDiv DEF F!Tile, BlockSize
<1>13. F!Tile(w).qNBlockSize = BlockSize(H, e, p)
  <2>1. F!Tile(w).qNBlockSize = F!AtMost(e, H - start)
    BY <1>2, <1>9, <1>10 DEF F!Tile
  <2>2. F!AtMost(e, H - p * e) = BlockSize(H, e, p)
    BY <1>7, BlockSizeIs
  <2>3. QED
    BY <1>10, <2>1, <2>2
<1> HIDE DEF w, place
<1>14. FTileShape(b, x, s, e, p)
  BY <1>1, <1>2, <1>5, <1>7, <1>8, <1>10, <1>11, <1>12, <1>13 DEF FTileShape
<1>15. QED
  BY <1>14

(* The block of rows and of heads that a row of a head is in.              *)
FInTask(q, head, token, s, e, p) ==
  s = token \div FUSED_ROWS /\ e = FHeads(q, s) /\ p = head \div e

LEMMA FHolds ==
  ASSUME launch \in FusedLaunches, NEW b \in F!Batches, NEW x, NEW s, NEW e, NEW p, FTileShape(b, x, s, e, p),
         NEW head \in 0 .. F!qHeads - 1, NEW token \in 0 .. F!QSeqLenOf(b) - 1
  PROVE  F!Holds(FTile(b, x), b, head, token) <=> FInTask(F!QSeqLenOf(b), head, token, s, e, p)
<1>1. PICK q \in Nat, H \in Nat \ {0}, R0 \in Nat \ {0} : q = F!QSeqLenOf(b) /\ H = F!qHeads /\ R0 = FUSED_ROWS
  BY FLaunch
<1>2. /\ IsBlock(q, R0, s) /\ IsBlock(H, e, p) /\ e = FHeads(q, s)
  BY <1>1 DEF FTileShape
<1>3. token - s * R0 \in 0 .. BlockSize(q, R0, s) - 1 <=> s = token \div R0
  BY <1>1, <1>2, BlockOf
<1>4. PICK v \in Nat, size \in Nat \ {0} : v = p * e /\ size = BlockSize(H, e, p)
  <2>1. e \in Nat \ {0}
    BY DEF FTileShape
  <2>2. BlockSize(H, e, p) \in 1 .. e /\ p * e \in Nat
    BY <1>2, BlockIs
  <2>3. QED
    BY <2>1, <2>2
<1>5. head - v \in 0 .. size - 1 <=> p = head \div e
  BY <1>1, <1>2, <1>4, BlockOf
<1>6. head \in v .. v + size - 1 <=> head - v \in 0 .. size - 1
  BY <1>1, <1>4
<1>7. F!Holds(FTile(b, x), b, head, token) <=>
         head \in v .. v + size - 1 /\ token - s * R0 \in 0 .. BlockSize(q, R0, s) - 1
  <2>1. /\ FTile(b, x).b = b /\ FTile(b, x).qSBlockIdx = s
        /\ FTile(b, x).qSBlockSize = BlockSize(q, R0, s)
        /\ FTile(b, x).qNStartIdx = v /\ FTile(b, x).qNBlockSize = size
    BY <1>1, <1>4 DEF FTileShape
  <2>2. QED
    BY <1>1, <2>1 DEF F!Holds
<1>8. QED
  BY <1>1, <1>2, <1>3, <1>5, <1>6, <1>7 DEF FInTask

(* There is such a task. *)
LEMMA FTaskExists ==
  ASSUME launch \in FusedLaunches, NEW b \in F!Batches,
         NEW head \in 0 .. F!qHeads - 1, NEW token \in 0 .. F!QSeqLenOf(b) - 1
  PROVE  \E x \in Nat, s \in Nat, e, p \in Nat :
           /\ Within(F!totalBefore, b, x) /\ FInTask(F!QSeqLenOf(b), head, token, s, e, p)
           /\ x - F!totalBefore[b] = s * F!qHeads + p
<1>1. PICK q, total, d, r, tau :
           /\ q \in Nat /\ total \in Nat /\ q = F!QSeqLenOf(b)
           /\ FShapeHas(q, d, r, tau) /\ RowsAre(q, FUSED_ROWS, d, r)
           /\ total = F!totalBefore[b]
           /\ F!totalBefore[b + 1] = total + F!ShapeOf(q).totalTasks
  BY FSequence
<1>2. PICK R0 \in Nat \ {0}, H \in Nat \ {0} : R0 = FUSED_ROWS /\ H = F!qHeads
  BY FLaunch
<1>3. /\ d \in Nat /\ tau \in Nat \ {0} /\ d = q \div R0 /\ F!ShapeOf(q).tailHeadTile = tau
      /\ F!ShapeOf(q).totalTasks = d * H + (IF r = 0 THEN 0 ELSE P!CeilDiv(H, tau))
  BY <1>1, <1>2 DEF FShapeHas
<1>4. PICK s \in Nat : s = token \div R0 /\ (s < d \/ (s = d /\ r # 0))
  <2>1. IsBlock(q, R0, token \div R0) /\ token \div R0 \in Nat
    BY <1>1, <1>2, QuotientIsBlock, QuotientNat
  <2>2. QED
    BY <1>1, <1>2, <2>1, RowBlocks
<1>5. PICK e \in Nat \ {0} : e = FHeads(q, s)
  BY <1>2, <1>3 DEF FHeads
<1>6. PICK p \in Nat : p = head \div e /\ p \in 0 .. P!CeilDiv(H, e) - 1
  <2>1. head \in 0 .. H - 1 /\ head \in Nat
    BY <1>2
  <2>2. IsBlock(H, e, head \div e) /\ head \div e \in Nat
    BY <2>1, QuotientIsBlock, QuotientNat
  <2>3. QED
    BY <2>2 DEF IsBlock
<1>7. PICK j \in Nat, u \in Nat, norm \in Nat : u = s * H /\ norm = d * H /\ j = u + p
  <2>1. s * H \in Nat /\ d * H \in Nat
    BY <1>3
  <2>2. PICK u \in Nat, norm \in Nat : u = s * H /\ norm = d * H
    BY <2>1
  <2>3. u + p \in Nat
    OBVIOUS
  <2>4. QED
    BY <2>2, <2>3
<1>8. j < F!ShapeOf(q).totalTasks
  <2>1. PICK c \in Nat : c = IF r = 0 THEN 0 ELSE P!CeilDiv(H, tau)
    <3>1. P!CeilDiv(H, tau) \in Nat
      BY <1>3, CeilNat
    <3>2. QED
      BY <3>1
  <2>2. F!ShapeOf(q).totalTasks = norm + c
    BY <1>3, <1>7, <2>1
  <2>3. CASE s < d
    <3>1. e = 1
      BY <1>2, <1>3, <1>5, <2>3 DEF FHeads
    <3>2. p < H
      <4>1. PICK h \in Nat, k \in Int, m \in 0 .. 1 - 1, z \in Int :
              h = head /\ h < H /\ h \div 1 = k /\ h % 1 = m /\ z = k * 1 /\ h = z + m
        <5>1. head \in 0 .. H - 1 /\ head \in Int /\ 1 \in Nat \ {0}
          BY <1>2
        <5>2. PICK k \in Int, m \in 0 .. 1 - 1, z \in Int :
                head \div 1 = k /\ head % 1 = m /\ z = k * 1 /\ head = z + m
          BY <5>1, DivPick
        <5>3. QED
          BY <5>1, <5>2
      <4>2. p = k /\ k * 1 = k
        BY <1>6, <3>1, <4>1
      <4>3. QED
        BY <4>1, <4>2
    <3>3. (s + 1) * H <= d * H /\ (s + 1) * H = s * H + H
      BY <1>3, <2>3, TimesGrows, NextTimes
    <3>4. u + H <= norm
      BY <1>7, <3>3
    <3>5. QED
      BY <1>7, <2>1, <2>2, <3>2, <3>4
  <2>4. CASE s = d /\ r # 0
    <3>1. e = tau
      BY <1>2, <1>3, <1>5, <2>4 DEF FHeads
    <3>2. p < c
      BY <1>6, <2>1, <2>4, <3>1
    <3>3. u = norm
      BY <1>7, <2>4
    <3>4. QED
      BY <1>7, <2>2, <3>2, <3>3
  <2>5. QED
    BY <1>4, <2>3, <2>4
<1>9. PICK x \in Nat : x = total + j /\ x - total = j
  <2>1. total \in Nat
    BY <1>1
  <2>2. QED
    BY <1>8, <2>1
<1>10. Within(F!totalBefore, b, x)
  <2>1. F!ShapeOf(q).totalTasks \in Nat
    BY <1>1, FShapeType
  <2>2. QED
    BY <1>1, <1>8, <1>9, <2>1 DEF Within
<1>11. FInTask(q, head, token, s, e, p)
  BY <1>2, <1>4, <1>5, <1>6 DEF FInTask
<1>12. x - F!totalBefore[b] = s * F!qHeads + p
  BY <1>1, <1>2, <1>7, <1>9
<1>13. QED
  BY <1>1, <1>10, <1>11, <1>12

(* A task that holds a row is where the row is.                            *)
LEMMA FHolder ==
  ASSUME launch \in FusedLaunches, NEW d \in F!Batches, NEW x, Within(F!totalBefore, d, x), NEW b \in F!Batches,
         NEW head \in 0 .. F!qHeads - 1, NEW token \in 0 .. F!QSeqLenOf(b) - 1,
         F!Holds(FTile(d, x), b, head, token)
  PROVE  d = b /\ \E s, e, p : FTileShape(b, x, s, e, p) /\ FInTask(F!QSeqLenOf(b), head, token, s, e, p)
<1>1. PICK s, e, p : FTileShape(d, x, s, e, p)
  BY FTileShapeOf
<1>2. d = b
  BY <1>1 DEF FTileShape, F!Holds
<1>3. FTileShape(b, x, s, e, p)
  BY <1>1, <1>2
<1>4. F!Holds(FTile(b, x), b, head, token)
  BY <1>2
<1>5. FInTask(F!QSeqLenOf(b), head, token, s, e, p)
  BY <1>3, <1>4, FHolds
<1>6. QED
  BY <1>2, <1>3, <1>5

(* The heads of a tile are whole groups, or a part that divides one.       *)
LEMMA FHeadsWhole ==
  ASSUME launch \in FusedLaunches, NEW b \in F!Batches, NEW x, NEW s, NEW e, NEW p, FTileShape(b, x, s, e, p)
  PROVE  e \in Nat \ {0} /\ \E m \in Nat \ {0} : e = m * launch.group \/ launch.group = m * e
<1>1. PICK q, total, d, r, tau :
           /\ q \in Nat /\ total \in Nat /\ q = F!QSeqLenOf(b)
           /\ FShapeHas(q, d, r, tau) /\ RowsAre(q, FUSED_ROWS, d, r)
  BY FSequence
<1>2. PICK g \in Nat \ {0} : g = launch.group
  BY FLaunch
<1>3. s \in Nat /\ IsBlock(q, FUSED_ROWS, s) /\ e = FHeads(q, s) /\ e \in Nat \ {0}
  BY <1>1 DEF FTileShape
<1>4. s < d \/ (s = d /\ r # 0)
  BY <1>1, <1>3, RowBlocks
<1>5. CASE s < d
  <2>1. e = 1
    BY <1>1, <1>3, <1>5 DEF FHeads, FShapeHas
  <2>2. g = g * 1 /\ g \in Nat \ {0}
    OBVIOUS
  <2>3. QED
    BY <1>2, <2>1, <2>2
<1>6. CASE s = d /\ r # 0
  <2>1. d \in Nat /\ d = q \div FUSED_ROWS /\ F!ShapeOf(q).tailHeadTile = tau /\ FTileFits(tau, r, F!nCap)
    BY <1>1, <1>6 DEF FShapeHas
  <2>2. e = tau
    BY <1>3, <1>6, <2>1 DEF FHeads
  <2>3. F!WholeGroups(e)
    BY <2>1, <2>2 DEF FTileFits
  <2>4. \E m \in Nat \ {0} : e = m * launch.group \/ launch.group = m * e
    BY <1>3, <2>3, FGroups
  <2>5. QED
    BY <1>3, <2>4
<1>7. QED
  BY <1>4, <1>5, <1>6

(* The segments of a tile of size heads, e in all others: whole groups, or *)
(* a part of one.                                                          *)
FMany(e, size, segments) ==
  /\ segments \in Nat \ {0} /\ size = segments * launch.group
  /\ \E m \in Nat \ {0} : e = m * launch.group
FPart(e, segments) == segments = 1 /\ \E m \in Nat \ {0} : launch.group = m * e
FSegments(e, size, segments) ==
  /\ e \in Nat \ {0} /\ size \in Nat \ {0} /\ size <= e
  /\ FMany(e, size, segments) \/ FPart(e, segments)

LEMMA FSegmentsAre ==
  ASSUME launch \in FusedLaunches, NEW b \in F!Batches, NEW x, NEW s, NEW e, NEW p, FTileShape(b, x, s, e, p)
  PROVE  \E size, segments : FSegments(e, size, segments) /\ size = BlockSize(F!qHeads, e, p)
<1>1. PICK g \in Nat \ {0}, h \in Nat \ {0}, H \in Nat \ {0} :
        g = launch.group /\ h = launch.kvHeads /\ F!qHeads = H /\ H = h * g
  BY FLaunch
<1>2. e \in Nat \ {0} /\ p \in Nat /\ IsBlock(H, e, p)
  BY <1>1 DEF FTileShape
<1>3. PICK size \in 1 .. e, v \in Nat :
        /\ size = BlockSize(H, e, p) /\ v = p * e /\ v + size <= H
        /\ p # P!CeilDiv(H, e) - 1 => size = e
  BY <1>2, BlockIs
<1>4. PICK m \in Nat \ {0} : e = m * g \/ g = m * e
  BY <1>1, FHeadsWhole
<1>5. CASE g = m * e
  <2>1. size \in Nat \ {0} /\ size <= e
    BY <1>2, <1>3
  <2>2. FSegments(e, size, 1)
    BY <1>1, <1>2, <1>4, <1>5, <2>1 DEF FSegments, FPart
  <2>3. QED
    BY <1>1, <1>3, <2>2
<1>6. CASE e = m * g
  <2>1. PICK k \in Int : size = k * g
    <3>1. CASE p # P!CeilDiv(H, e) - 1
      <4>1. size = m * g /\ m \in Int
        BY <1>3, <1>6, <3>1
      <4>2. QED
        BY <4>1
    <3>2. CASE p = P!CeilDiv(H, e) - 1
      <4>1. size = H - p * e
        BY <1>3, <3>2 DEF BlockSize
      <4>2. PICK a \in Nat : a = p * m
        BY <1>2
      <4>3. p * e = a * g
        <5>1. p * (m * g) = (p * m) * g
          BY <1>2, TimesTimes
        <5>2. QED
          BY <1>6, <4>2, <5>1
      <4>4. PICK k \in Int : k = h - a
        BY <4>2
      <4>5. h = k + a
        BY <4>2, <4>4
      <4>6. h * g = k * g + a * g /\ k * g \in Int /\ a * g \in Int
        BY <4>2, <4>4, <4>5, TimesSum
      <4>7. size = k * g
        <5>1. PICK v1 \in Int, v2 \in Int : v1 = k * g /\ v2 = a * g
          BY <4>6
        <5>2. H = v1 + v2 /\ size = H - v2
          BY <1>1, <4>1, <4>3, <4>6, <5>1
        <5>3. QED
          BY <5>1, <5>2
      <4>8. QED
        BY <4>4, <4>7
    <3>3. QED
      BY <3>1, <3>2
  <2>2. k \in Nat \ {0}
    <3>1. 0 * g < k * g
      <4>1. 0 * g = 0
        BY <1>1
      <4>2. QED
        BY <1>2, <1>3, <2>1, <4>1
    <3>2. 0 < k
      BY <3>1, <2>1, TimesLess
    <3>3. QED
      BY <2>1, <3>2
  <2>3. size \in Nat \ {0} /\ size <= e
    BY <1>2, <1>3
  <2>4. FSegments(e, size, k)
    BY <1>1, <1>2, <1>4, <1>6, <2>1, <2>2, <2>3 DEF FSegments, FMany
  <2>5. QED
    BY <1>1, <1>3, <2>4
<1>7. QED
  BY <1>4, <1>5, <1>6

(* Segments of one size, and a K/V head for each.                          *)
LEMMA FSegNum ==
  ASSUME launch \in FusedLaunches, NEW t, NEW e, NEW size, NEW segments,
         FSegments(e, size, segments), t.qNBlockSize = size
  PROVE  /\ F!segN(t) \in Nat \ {0} /\ F!segNum(t) = segments /\ segments \in Nat \ {0}
         /\ segments * F!segN(t) = size
         /\ (FMany(e, size, segments) => F!segN(t) = launch.group)
         /\ (FPart(e, segments) => F!segN(t) = size)
<1>1. PICK g \in Nat \ {0} : g = launch.group
  BY FLaunch
<1>2. size \in Nat \ {0}
  BY DEF FSegments
<1>3. PICK n \in Nat \ {0} : n = F!segN(t) /\ n = F!AtMost(size, g)
  BY <1>1, <1>2 DEF F!segN, F!AtMost
<1>4. /\ segments \in Nat \ {0} /\ segments * n = size
      /\ (FMany(e, size, segments) => n = g) /\ (FPart(e, segments) => n = size)
  <2>1. ASSUME FMany(e, size, segments)
        PROVE  segments \in Nat \ {0} /\ segments * n = size /\ n = g
    <3>1. segments \in Nat \ {0} /\ size = segments * g
      BY <1>1, <2>1 DEF FMany
    <3>2. g <= size
      <4>1. 1 * g <= segments * g
        BY <3>1, TimesGrows
      <4>2. 1 * g = g
        BY <1>1
      <4>3. QED
        BY <3>1, <4>1, <4>2
    <3>3. n = g
      BY <1>2, <1>3, <3>2 DEF F!AtMost
    <3>4. QED
      BY <3>1, <3>3
  <2>2. ASSUME FPart(e, segments)
        PROVE  segments \in Nat \ {0} /\ segments * n = size /\ n = size
    <3>1. PICK m \in Nat \ {0} : g = m * e /\ segments = 1
      BY <1>1, <2>2 DEF FPart
    <3>2. size <= e /\ e \in Nat
      BY DEF FSegments
    <3>3. e <= g
      <4>1. 1 * e <= m * e
        BY <3>1, <3>2, TimesGrows
      <4>2. 1 * e = e
        BY <3>2
      <4>3. QED
        BY <3>1, <4>1, <4>2
    <3>4. n = size
      BY <1>1, <1>2, <1>3, <3>2, <3>3 DEF F!AtMost
    <3>5. QED
      BY <1>2, <3>1, <3>4
  <2>3. QED
    BY <2>1, <2>2 DEF FSegments
<1>5. F!segNum(t) = segments
  <2>1. F!segNum(t) = P!CeilDiv(size, n)
    BY <1>3, FCeilDiv DEF F!segNum
  <2>2. PICK c \in Nat : c = P!CeilDiv(size, n)
    BY <1>2, <1>3, CeilNat
  <2>3. size <= segments * n
    BY <1>2, <1>4
  <2>4. c <= segments
    BY <1>2, <1>3, <1>4, <2>2, <2>3, CeilCovers
  <2>5. size <= c * n
    BY <1>2, <1>3, <2>2, CeilCovers
  <2>6. segments <= c
    <3>1. ASSUME c + 1 <= segments PROVE FALSE
      <4>1. (c + 1) * n <= segments * n /\ (c + 1) * n = c * n + n /\ c * n \in Int
        BY <1>3, <1>4, <2>2, <3>1, TimesGrows, NextTimes
      <4>2. PICK v \in Int : v = c * n
        BY <4>1
      <4>3. v + n <= size /\ size <= v
        BY <1>4, <2>5, <4>1, <4>2
      <4>4. QED
        BY <1>2, <1>3, <4>2, <4>3
    <3>2. QED
      BY <1>4, <2>2, <3>1
  <2>7. QED
    BY <1>4, <2>1, <2>2, <2>4, <2>6
<1>6. QED
  BY <1>1, <1>3, <1>4, <1>5

(* The segment that a head of a tile is in is multiplied with its K/V head. *)
LEMMA FSegmentHead ==
  ASSUME launch \in FusedLaunches, NEW b \in F!Batches, NEW x, NEW s, NEW e, NEW p, FTileShape(b, x, s, e, p),
         NEW head \in 0 .. F!qHeads - 1, p = head \div e, NEW t, t = FTile(b, x)
  PROVE  t.kvNIdx + F!SegmentOf(t, head) = head \div launch.group
<1>0. head \in Nat
  BY FLaunch
<1>1. PICK g \in Nat \ {0} : g = launch.group
  BY FLaunch
<1>2. PICK size, segments : FSegments(e, size, segments) /\ size = t.qNBlockSize
  <2>1. PICK size, segments : FSegments(e, size, segments) /\ size = BlockSize(F!qHeads, e, p)
    BY FSegmentsAre
  <2>2. t.qNBlockSize = BlockSize(F!qHeads, e, p)
    BY DEF FTileShape
  <2>3. QED
    BY <2>1, <2>2
<1>3. e \in Nat \ {0} /\ p \in Nat /\ size \in Nat \ {0}
  BY <1>2 DEF FTileShape, FSegments
<1>4. PICK start \in Nat : /\ start = p * e /\ t.qNStartIdx = start /\ t.kvNIdx = start \div g
  <2>1. p * e \in Nat
    BY <1>3
  <2>2. QED
    BY <1>1, <2>1 DEF FTileShape
<1>5. PICK n \in Nat \ {0} : /\ n = F!segN(t) /\ (FMany(e, size, segments) => n = g)
                             /\ (FPart(e, segments) => n = size)
  BY <1>1, <1>2, FSegNum
<1>6. F!SegmentOf(t, head) = (head - start) \div n
  BY <1>4, <1>5 DEF F!SegmentOf
<1>7. PICK u \in Nat, hd \in 0 .. g - 1 : head \div g = u /\ head = u * g + hd
  <2>1. PICK u \in Int, hd \in 0 .. g - 1, z \in Int : head \div g = u /\ head % g = hd /\ z = u * g /\ head = z + hd
    <3>1. head \in Int
      BY <1>0
    <3>2. QED
      BY <3>1, DivPick
  <2>2. QED
    BY <1>0, <2>1, QuotientNat
<1>8. CASE FMany(e, size, segments)
  <2>1. PICK m \in Nat \ {0} : e = m * g /\ n = g
    BY <1>1, <1>5, <1>8 DEF FMany
  <2>2. PICK a \in Nat : a = p * m
    BY <1>3
  <2>3. start = a * g
    <3>1. p * (m * g) = (p * m) * g
      BY <1>3, TimesTimes
    <3>2. QED
      BY <1>4, <2>1, <2>2, <3>1
  <2>4. start \div g = a
    <3>1. start \in Int /\ a \in Int /\ 0 \in 0 .. g - 1 /\ start = a * g + 0
      BY <2>3
    <3>2. QED
      BY <3>1, DivUnique
  <2>5. PICK k \in Int, y \in Int : k = u - a /\ y = head - start
    BY <1>0
  <2>6. y = k * g + hd
    <3>1. u = k + a
      BY <2>5
    <3>2. u * g = k * g + a * g /\ k * g \in Int /\ a * g \in Int
      BY <2>5, <3>1, TimesSum
    <3>3. PICK v1 \in Int, v2 \in Int : v1 = k * g /\ v2 = a * g
      BY <3>2
    <3>4. head = v1 + v2 + hd
      BY <1>7, <3>2, <3>3
    <3>5. y = v1 + hd
      BY <2>3, <2>5, <3>3, <3>4
    <3>6. QED
      BY <3>3, <3>5
  <2>7. y \div g = k
    BY <2>6, DivUnique
  <2>8. F!SegmentOf(t, head) = k
    BY <1>6, <2>1, <2>5, <2>7
  <2>9. a + k = u
    BY <2>5
  <2>10. QED
    BY <1>1, <1>4, <1>7, <2>4, <2>8, <2>9
<1>9. CASE FPart(e, segments)
  <2>1. PICK m \in Nat \ {0} : g = m * e /\ n = size
    BY <1>1, <1>5, <1>9 DEF FPart
  <2>2. PICK r \in 0 .. e - 1 : head = start + r
    <3>1. PICK d \in Int, r \in 0 .. e - 1, z \in Int : head \div e = d /\ head % e = r /\ z = d * e /\ head = z + r
      <4>1. head \in Int /\ e \in Nat \ {0}
        BY <1>0, <1>3
      <4>2. QED
        BY <4>1, DivPick
    <3>2. z = start
      BY <1>4, <3>1
    <3>3. QED
      BY <3>1, <3>2
  <2>3. PICK a \in Int, i \in 0 .. m - 1, z \in Int : p \div m = a /\ p % m = i /\ z = a * m /\ p = z + i
    <3>1. p \in Int
      BY <1>3
    <3>2. QED
      BY <3>1, DivPick
  <2>4. PICK y \in Nat : y = i * e /\ y + r \in 0 .. g - 1
    <3>1. i * e + r \in 0 .. e * m - 1 /\ i * e \in Nat
      BY <1>3, <2>2, <2>3, TwoDigits
    <3>2. e * m = g
      BY <1>3, <2>1
    <3>3. QED
      BY <3>1, <3>2
  <2>5. start = a * g + y
    <3>1. p * e = z * e + i * e
      BY <1>3, <2>3, TimesSum
    <3>2. z * e = a * g
      <4>1. a * (m * e) = (a * m) * e
        BY <1>3, <2>3, TimesTimes
      <4>2. QED
        BY <2>1, <2>3, <4>1
    <3>3. QED
      BY <1>4, <2>4, <3>1, <3>2
  <2>6. start \div g = a
    <3>1. start \in Int /\ y \in 0 .. g - 1
      BY <2>2, <2>4
    <3>2. QED
      BY <2>3, <2>5, <3>1, DivUnique, ZenonT(30)
  <2>7. head \div g = a
    <3>1. PICK c \in 0 .. g - 1 : c = y + r
      BY <2>4
    <3>2. PICK v \in Int : v = a * g
      BY <2>3
    <3>3. head = v + c
      BY <2>2, <2>4, <2>5, <3>1, <3>2
    <3>4. head = a * g + c /\ head \in Int /\ a \in Int
      BY <1>0, <2>3, <3>2, <3>3
    <3>5. QED
      BY <1>1, <3>1, <3>4, DivUnique
  <2>8. F!SegmentOf(t, head) = 0
    <3>1. r < size
      <4>1. IsBlock(F!qHeads, e, p) /\ size = BlockSize(F!qHeads, e, p)
        BY <1>2 DEF FTileShape
      <4>2. head - p * e \in 0 .. size - 1
        BY <4>1, BlockOf
      <4>3. head - start \in 0 .. size - 1
        BY <1>4, <4>2
      <4>4. QED
        BY <1>3, <1>4, <2>2, <4>3
    <3>2. head - start = r /\ r \in Int /\ 0 \in Int /\ r \in 0 .. size - 1 /\ r = 0 * size + r
      BY <1>3, <2>2, <3>1
    <3>3. r \div size = 0
      BY <1>3, <3>2, DivUnique
    <3>4. QED
      BY <1>6, <2>1, <3>2, <3>3
  <2>9. QED
    BY <1>1, <1>4, <2>3, <2>6, <2>7, <2>8
<1>10. QED
  BY <1>2, <1>8, <1>9 DEF FSegments

(* A row is in one segment, of its K/V head.                               *)
FIts(b, head, token) == {x \in F!Ran : F!Holds(F!Task(x), b, head, token)}
FRowOnce(b, head, token) ==
  /\ F!Cardinality(FIts(b, head, token)) = 1
  /\ \A y \in FIts(b, head, token) :
       F!Task(y).kvNIdx + F!SegmentOf(F!Task(y), head) = head \div launch.group

LEMMA FRowIsOnce ==
  ASSUME FInv, F!AllDone, NEW b \in F!Batches, NEW head \in 0 .. F!qHeads - 1,
         NEW token \in 0 .. F!QSeqLenOf(b) - 1
  PROVE  FRowOnce(b, head, token)
<1>1. launch \in FusedLaunches
  BY DEF FInv
<1>2. PICK N \in Nat \ {0} : N = launch.coreNum /\ F!Cores = 0 .. N - 1
  BY <1>1, FLaunch DEF F!Cores
<1>3. PICK total \in Nat : total = F!totalBefore[b]
  <2>1. b \in 0 .. Len(launch.q)
    BY <1>1, FLaunch
  <2>2. QED
    BY <1>1, <2>1, FSums DEF Sums
<1>4. PICK x0 \in Nat, s0 \in Nat, e0, p0 \in Nat :
        /\ Within(F!totalBefore, b, x0) /\ FInTask(F!QSeqLenOf(b), head, token, s0, e0, p0)
        /\ x0 - F!totalBefore[b] = s0 * F!qHeads + p0
  BY <1>1, FTaskExists
<1>5. ASSUME NEW x \in Nat, NEW s, NEW e, NEW p, FTileShape(b, x, s, e, p),
             FInTask(F!QSeqLenOf(b), head, token, s, e, p)
      PROVE  x = x0 /\ s = s0 /\ e = e0 /\ p = p0
  <2>1. s = s0 /\ e = e0 /\ p = p0
    BY <1>4, <1>5 DEF FInTask
  <2>2. x - total = x0 - total
    BY <1>3, <1>4, <1>5, <2>1 DEF FTileShape
  <2>3. x = x0
    BY <2>2
  <2>4. QED
    BY <2>1, <2>3
<1>6. FTileShape(b, x0, s0, e0, p0)
  <2>1. PICK s, e, p : FTileShape(b, x0, s, e, p)
    BY <1>1, <1>4, FTileShapeOf
  <2>2. PICK H \in Nat \ {0}, q \in Nat : H = F!qHeads /\ q = F!QSeqLenOf(b)
    BY <1>1, FLaunch
  <2>3. s \in Nat /\ p \in Nat /\ s * H + p = s0 * H + p0 /\ p < H /\ p0 < H
    <3>1. s \in Nat /\ p \in Nat /\ IsBlock(H, e, p) /\ e \in Nat \ {0} /\ x0 - total = s * H + p
      BY <1>3, <2>1, <2>2 DEF FTileShape
    <3>2. p < H
      <4>1. PICK v \in Nat, size \in 1 .. e : v = p * e /\ v + size <= H
        <5>1. /\ BlockSize(H, e, p) \in 1 .. e /\ p * e \in Nat
              /\ p * e + BlockSize(H, e, p) <= H
          BY <3>1, BlockIs
        <5>2. QED
          BY <5>1
      <4>2. p <= p * e
        <5>1. 1 * p <= e * p
          BY <3>1, TimesGrows
        <5>2. 1 * p = p /\ e * p = p * e
          BY <3>1
        <5>3. QED
          BY <5>1, <5>2
      <4>3. QED
        BY <3>1, <4>1, <4>2
    <3>3. p0 < H
      <4>1. e0 \in Nat \ {0} /\ p0 = head \div e0
        <5>1. FHeads(q, s0) \in Nat \ {0}
          <6>1. PICK d, r, tau : FShapeHas(q, d, r, tau)
            BY <1>1, FShapeExists
          <6>2. QED
            BY <6>1 DEF FShapeHas, FHeads
        <5>2. QED
          BY <1>4, <2>2, <5>1 DEF FInTask
      <4>2. IsBlock(H, e0, p0)
        BY <2>2, <4>1, QuotientIsBlock
      <4>3. PICK v \in Nat, size \in 1 .. e0 : v = p0 * e0 /\ v + size <= H
        <5>1. /\ BlockSize(H, e0, p0) \in 1 .. e0 /\ p0 * e0 \in Nat
              /\ p0 * e0 + BlockSize(H, e0, p0) <= H
          BY <4>2, BlockIs
        <5>2. QED
          BY <5>1
      <4>4. p0 <= p0 * e0
        <5>1. 1 * p0 <= e0 * p0
          BY <4>1, TimesGrows
        <5>2. 1 * p0 = p0 /\ e0 * p0 = p0 * e0
          BY <4>1
        <5>3. QED
          BY <5>1, <5>2
      <4>5. QED
        BY <2>2, <4>1, <4>3, <4>4
    <3>4. QED
      BY <1>3, <1>4, <2>2, <3>1, <3>2, <3>3
  <2>4. s = s0 /\ p = p0
    <3>1. PICK y \in Nat : y = s * H + p /\ y = s0 * H + p0
      BY <2>3
    <3>2. y \div H = s /\ y % H = p
      BY <2>3, <3>1, DivUnique
    <3>3. y \div H = s0 /\ y % H = p0
      BY <2>3, <3>1, DivUnique
    <3>4. QED
      BY <3>2, <3>3
  <2>5. e = e0
    BY <1>4, <2>1, <2>4 DEF FTileShape, FInTask
  <2>6. QED
    BY <2>1, <2>4, <2>5
<1>7. PICK y0 \in F!Ran : F!Task(y0) = FTile(b, x0)
  BY <1>4, FAllRan
<1>8. F!Holds(F!Task(y0), b, head, token)
  <2>1. F!Holds(FTile(b, x0), b, head, token)
    BY <1>1, <1>4, <1>6, FHolds
  <2>2. QED
    BY <1>7, <2>1
<1>9. ASSUME NEW y \in FIts(b, head, token)
      PROVE  \E c \in F!Cores, j \in Nat : /\ y = <<c, j>> /\ Number(c, j) = x0
                                           /\ F!Task(y) = FTile(b, x0)
  <2>1. PICK c \in F!Cores, j \in Nat, d \in F!Batches, x \in Nat :
           /\ y = <<c, j>> /\ x = Number(c, j) /\ Within(F!totalBefore, d, x)
           /\ F!Task(y) = FTile(d, x)
    <3>1. y \in F!Ran
      BY DEF FIts
    <3>2. QED
      BY <3>1, FRan
  <2>2. F!Holds(FTile(d, x), b, head, token)
    BY <2>1 DEF FIts
  <2>3. d = b /\ \E s, e, p : FTileShape(b, x, s, e, p) /\ FInTask(F!QSeqLenOf(b), head, token, s, e, p)
    BY <1>1, <2>1, <2>2, FHolder
  <2>4. PICK s, e, p : FTileShape(b, x, s, e, p) /\ FInTask(F!QSeqLenOf(b), head, token, s, e, p)
    BY <2>3
  <2>5. x = x0
    BY <1>5, <2>4
  <2>6. QED
    BY <2>1, <2>3, <2>5
<1>10. y0 \in FIts(b, head, token)
  BY <1>7, <1>8 DEF FIts
<1>11. FIts(b, head, token) = {y0}
  <2>1. ASSUME NEW y \in FIts(b, head, token)
        PROVE  y = y0
    <3>1. PICK c \in F!Cores, j \in Nat : y = <<c, j>> /\ Number(c, j) = x0
      BY <1>9
    <3>2. PICK d \in F!Cores, i \in Nat : y0 = <<d, i>> /\ Number(d, i) = x0
      BY <1>9, <1>10
    <3>3. c = d /\ j = i
      BY <1>2, <3>1, <3>2, NumbersApart
    <3>4. QED
      BY <3>1, <3>2, <3>3
  <2>2. QED
    BY <1>10, <2>1
<1>12. ASSUME NEW y \in FIts(b, head, token)
       PROVE  F!Task(y).kvNIdx + F!SegmentOf(F!Task(y), head) = head \div launch.group
  <2>1. F!Task(y) = FTile(b, x0)
    BY <1>9
  <2>2. p0 = head \div e0
    BY <1>4 DEF FInTask
  <2>3. FTile(b, x0).kvNIdx + F!SegmentOf(FTile(b, x0), head) = head \div launch.group
    BY <1>1, <1>6, <2>2, FSegmentHead
  <2>4. QED
    BY <2>1, <2>3
<1>13. F!Cardinality(FIts(b, head, token)) = 1
  BY <1>11, FS_Singleton, CardinalitySame
<1>14. QED
  BY <1>12, <1>13 DEF FRowOnce

LEMMA FEveryRowOnce ==
  ASSUME FInv
  PROVE  F!EveryRowOnce
<1>1. F!AllDone => \A b \in F!Batches : \A head \in 0 .. F!qHeads - 1 :
                     \A token \in 0 .. F!QSeqLenOf(b) - 1 : FRowOnce(b, head, token)
  BY FRowIsOnce
<1>2. QED
  BY <1>1 DEF F!EveryRowOnce, FRowOnce, FIts

(* Segments of whole blocks of rows fit the tile.                          *)
LEMMA StridesFit ==
  ASSUME NEW r \in Nat, NEW n \in Nat \ {0}, NEW B \in Nat \ {0}, NEW segments \in Nat \ {0},
         NEW cap \in Nat, segments * n <= cap, NEW R0 \in Nat,
         cap * (P!CeilDiv(r, B) * B) <= R0
  PROVE  segments * (P!CeilDiv(r * n, B) * B) <= R0
<1>1. PICK c \in Nat : c = P!CeilDiv(r, B)
  BY CeilNat
<1>2. PICK x \in Nat : x = r * n
  OBVIOUS
<1>3. PICK d \in Nat : d = P!CeilDiv(x, B)
  BY CeilNat
<1>4. PICK k \in Nat : k = c * B
  BY <1>1
<1>5. PICK e \in Nat : e = n * c
  BY <1>1
<1>6. r <= k
  BY <1>1, <1>4, CeilCovers
<1>7. e * B = n * k
  <2>1. n * (c * B) = (n * c) * B
    BY <1>1, TimesTimes
  <2>2. QED
    BY <1>4, <1>5, <2>1
<1>8. x <= n * k
  <2>1. r * n <= k * n
    BY <1>4, <1>6, TimesGrows
  <2>2. k * n = n * k
    BY <1>4
  <2>3. QED
    BY <1>2, <2>1, <2>2
<1>9. d <= e
  <2>1. x <= e * B
    BY <1>7, <1>8
  <2>2. QED
    BY <1>2, <1>3, <1>5, <2>1, CeilCovers
<1>10. d * B <= n * k
  <2>1. d * B <= e * B
    BY <1>3, <1>5, <1>9, TimesGrows
  <2>2. QED
    BY <1>7, <2>1
<1>11. PICK y \in Nat, z \in Nat : y = d * B /\ z = n * k /\ y <= z
  BY <1>3, <1>4, <1>10
<1>12. segments * y <= segments * z
  <2>1. y * segments <= z * segments
    BY <1>11, TimesGrows
  <2>2. y * segments = segments * y /\ z * segments = segments * z
    BY <1>11
  <2>3. QED
    BY <2>1, <2>2
<1>13. segments * z = (segments * n) * k
  <2>1. segments * (n * k) = (segments * n) * k
    BY <1>4, TimesTimes
  <2>2. QED
    BY <1>11, <2>1
<1>14. PICK m \in Nat : m = segments * n /\ m <= cap
  OBVIOUS
<1>15. m * k <= cap * k
  BY <1>4, <1>14, TimesGrows
<1>16. cap * k <= R0
  BY <1>1, <1>4
<1>17. PICK u \in Nat, v \in Nat, w \in Nat : u = segments * y /\ v = m * k /\ w = cap * k
  BY <1>4, <1>11, <1>14
<1>18. u <= v /\ v <= w /\ w <= R0
  BY <1>12, <1>13, <1>14, <1>15, <1>16, <1>17
<1>19. u <= R0
  BY <1>17, <1>18
<1>20. QED
  BY <1>2, <1>3, <1>11, <1>17, <1>19

(* What the tiles of a block of rows go by: the rows, and how many heads   *)
(* of them fit.                                                            *)
LEMMA FFits ==
  ASSUME launch \in FusedLaunches, NEW b \in F!Batches, NEW x, Within(F!totalBefore, b, x),
         NEW t, t = FTile(b, x)
  PROVE  /\ F!segNum(t) * F!segN(t) = t.qNBlockSize
         /\ F!segNum(t) * F!segL1Stride(t) <= FUSED_ROWS
         /\ t.qSBlockSize * t.qNBlockSize - F!Share(t) <= FUSED_ROWS \div 2
<1>1. PICK s, e, p : FTileShape(b, x, s, e, p)
  BY FTileShapeOf
<1>2. PICK q, total, d, r, tau :
           /\ q \in Nat /\ total \in Nat /\ q = F!QSeqLenOf(b)
           /\ FShapeHas(q, d, r, tau) /\ RowsAre(q, FUSED_ROWS, d, r)
  BY FSequence
<1>3. PICK R0 \in Nat \ {0}, B \in Nat \ {0} : R0 = FUSED_ROWS /\ B = BLOCK
  BY FLaunch
<1>4. PICK size, segments : FSegments(e, size, segments) /\ size = t.qNBlockSize
  <2>1. PICK size, segments : FSegments(e, size, segments) /\ size = BlockSize(F!qHeads, e, p)
    BY <1>1, FSegmentsAre
  <2>2. t.qNBlockSize = BlockSize(F!qHeads, e, p)
    BY <1>1 DEF FTileShape
  <2>3. QED
    BY <2>1, <2>2
<1>5. PICK n \in Nat \ {0} : n = F!segN(t) /\ F!segNum(t) = segments /\ segments \in Nat \ {0}
                             /\ segments * n = size
  BY <1>4, FSegNum
<1>6. e \in Nat \ {0} /\ size \in Nat \ {0} /\ size <= e
  BY <1>4 DEF FSegments
<1>7. s \in Nat /\ IsBlock(q, R0, s) /\ t.qSBlockSize = BlockSize(q, R0, s) /\ e = FHeads(q, s)
  BY <1>1, <1>2, <1>3 DEF FTileShape
<1>8. PICK rows \in 1 .. R0 : rows = t.qSBlockSize
  BY <1>7, BlockIs
<1>9. s < d \/ (s = d /\ r # 0)
  BY <1>2, <1>3, <1>7, RowBlocks
<1>10. PICK half \in Nat : R0 \div 2 = half /\ R0 = half + half
  <2>1. PICK a \in Nat, z \in 0 .. 1 : R0 = a + a + z /\ R0 \div 2 = a /\ R0 % 2 = z
    <3>1. R0 \in Nat
      OBVIOUS
    <3>2. QED
      BY <3>1, HalfIs
  <2>2. z = 0
    BY <1>3, <2>1, TilesAssumption
  <2>3. QED
    BY <2>1, <2>2
<1>11. PICK cap \in Nat, f \in Nat :
         /\ size <= cap /\ cap * (P!CeilDiv(rows, B) * B) <= R0
         /\ (size = 1 \/ (size <= f + f /\ f * rows <= half))
  <2>1. CASE s < d
    <3>1. e = 1
      BY <1>2, <1>3, <1>7, <2>1 DEF FHeads, FShapeHas
    <3>2. size = 1
      BY <1>6, <3>1
    <3>3. PICK k \in Nat : k = P!CeilDiv(rows, B)
      <4>1. rows \in Nat
        BY <1>8
      <4>2. QED
        BY <4>1, CeilNat
    <3>4. k * B <= R0
      <4>1. PICK a \in Int, m \in 0 .. B - 1, u \in Int : R0 \div B = a /\ R0 % B = m /\ u = a * B /\ R0 = u + m
        <5>1. R0 \in Int
          OBVIOUS
        <5>2. QED
          BY <5>1, DivPick
      <4>2. m = 0 /\ a \in Nat
        BY <1>3, <4>1, QuotientNat, TilesAssumption
      <4>3. rows \in Nat /\ rows <= a * B
        BY <1>8, <4>1, <4>2
      <4>4. k <= a
        BY <1>3, <3>3, <4>2, <4>3, CeilCovers
      <4>5. k * B <= a * B
        BY <4>2, <4>4, TimesGrows
      <4>6. QED
        BY <4>1, <4>2, <4>5
    <3>5. PICK y \in Nat : y = k * B
      BY <3>3
    <3>6. 1 * y <= R0
      BY <3>4, <3>5
    <3>7. 1 \in Nat /\ 0 \in Nat
      OBVIOUS
    <3>8. size <= 1 /\ 1 * (P!CeilDiv(rows, B) * B) <= R0
      BY <3>2, <3>3, <3>5, <3>6
    <3>9. size <= 1 /\ 1 * (P!CeilDiv(rows, B) * B) <= R0
          /\ (size = 1 \/ (size <= 0 + 0 /\ 0 * rows <= half))
      BY <3>2, <3>8
    <3>10. QED
      BY <3>7, <3>9, Zenon
  <2>2. CASE s = d /\ r # 0
    <3>1. /\ d = q \div R0 /\ F!ShapeOf(q).tailHeadTile = tau /\ FTileFits(tau, r, F!nCap)
          /\ r \in 1 .. R0 - 1
      BY <1>2, <1>3, <2>2 DEF FShapeHas
    <3>2. e = tau
      BY <1>3, <1>7, <2>2, <3>1 DEF FHeads
    <3>3. rows = r
      BY <1>2, <1>3, <1>7, <1>8, <2>2, RowBlocks
    <3>4. PICK cap \in Nat : /\ cap = F!HeadCap(r, F!nCap)
                             /\ cap * (P!CeilDiv(r, B) * B) <= R0
      BY <1>3, <3>1, FHeadCap, FCap
    <3>5. e <= cap /\ F!HalfFits(e, r)
      BY <3>1, <3>2, <3>4 DEF FTileFits
    <3>6. PICK f \in Nat : f = P!CeilDiv(e, 2) /\ e <= f + f
      <4>1. e \in Nat /\ 2 \in Nat \ {0}
        BY <1>6
      <4>2. PICK f \in Nat : f = P!CeilDiv(e, 2)
        BY <4>1, CeilNat
      <4>3. e <= f * 2
        BY <4>1, <4>2, CeilCovers
      <4>4. f * 2 = f + f
        BY <4>2
      <4>5. QED
        BY <4>2, <4>3, <4>4
    <3>7. e = 1 \/ f * r <= half
      BY <1>3, <1>10, <3>5, <3>6, FCeilDiv DEF F!HalfFits
    <3>8. size <= cap /\ (size = 1 \/ size <= f + f)
      BY <1>6, <3>5, <3>6
    <3>9. size = 1 \/ f * rows <= half
      BY <1>6, <3>3, <3>7
    <3>10. QED
      BY <3>3, <3>4, <3>6, <3>8, <3>9
  <2>3. QED
    BY <1>9, <2>1, <2>2
<1>12. F!segNum(t) * F!segL1Stride(t) <= R0
  <2>1. F!segL1Stride(t) = P!CeilDiv(rows * n, B) * B
    BY <1>3, <1>5, <1>8, FCeilDiv DEF F!segL1Stride
  <2>2. rows \in Nat /\ segments * n <= cap
    BY <1>5, <1>8, <1>11
  <2>3. segments * (P!CeilDiv(rows * n, B) * B) <= R0
    BY <1>5, <1>11, <2>2, StridesFit
  <2>4. QED
    BY <1>5, <2>1, <2>3
<1>13. rows * size - F!Share(t) <= half
  <2>1. F!Share(t) = ShareOf(rows, size)
    BY <1>4, <1>8 DEF F!Share, ShareOf
  <2>2. rows \in Nat /\ rows <= half + half /\ size \in Nat \ {0}
    BY <1>6, <1>8, <1>10
  <2>3. size # 1 => size <= f + f /\ rows <= rows /\ f * rows <= half
    BY <1>11, <2>2
  <2>4. ShareOf(rows, size) <= half /\ rows * size - ShareOf(rows, size) <= half
    BY <2>2, <2>3, HalvesFit
  <2>5. QED
    BY <2>1, <2>4
<1>14. QED
  BY <1>3, <1>4, <1>5, <1>8, <1>10, <1>12, <1>13

LEMMA FRowsFit ==
  ASSUME FInv
  PROVE  F!RowsFit
<1>1. launch \in FusedLaunches
  BY DEF FInv
<1>2. ASSUME NEW y \in F!Ran, NEW t, t = F!Task(y)
      PROVE  /\ F!segNum(t) * F!segN(t) = t.qNBlockSize
             /\ F!segNum(t) * F!segL1Stride(t) <= FUSED_ROWS
             /\ t.qSBlockSize * t.qNBlockSize - F!Share(t) <= FUSED_ROWS \div 2
  <2>1. PICK b \in F!Batches, x \in Nat : Within(F!totalBefore, b, x) /\ t = FTile(b, x)
    BY <1>2, FRan
  <2>2. QED
    BY <1>1, <2>1, FFits
<1>3. ASSUME NEW b \in F!Batches, F!tailRows(F!QSeqLenOf(b)) # 0
      PROVE  F!NoMoreTasks(F!tailRows(F!QSeqLenOf(b)))
  <2>1. PICK q \in Nat : q = F!QSeqLenOf(b)
    BY <1>1, FLaunch
  <2>2. PICK d, r, tau : FShapeHas(q, d, r, tau)
    BY <1>1, FShapeExists
  <2>3. r = F!tailRows(q) /\ r \in 1 .. FUSED_ROWS - 1
    BY <1>1, <1>3, <2>1, <2>2, FLaunch, SMTT(30) DEF FShapeHas
  <2>4. F!NoMoreTasks(r)
    BY <1>1, <2>3, FNoMoreTasks, FCap
  <2>5. QED
    BY <2>1, <2>3, <2>4
<1>4. QED
  BY <1>2, <1>3 DEF F!RowsFit

-----------------------------------------------------------------------------
(* The theorems.                                                           *)

WalksInv ==
  /\ part = "walk" => WInv
  /\ part = "fused" => FInv

(* Every behaviour keeps the invariant of its part.                        *)
LEMMA WalksInvAlways == Spec => []WalksInv
<1>1. Init => WalksInv
  BY WInvInit, FInvInit DEF Init, WalksInv
<1>2. WalksInv /\ [Next]_vars => WalksInv'
  <2>1. SUFFICES ASSUME WalksInv, [Next]_vars
                 PROVE  WalksInv'
    OBVIOUS
  <2>2. CASE part' = "walk"
    <3>1. part = "walk" /\ (W!Next \/ UNCHANGED walkVars)
      BY <2>1, <2>2 DEF Next, vars
    <3>2. QED
      BY <2>1, <2>2, <3>1, WInvStep, WInvSame DEF WalksInv
  <2>3. CASE part' = "fused"
    <3>1. part = "fused" /\ (F!Next \/ UNCHANGED walkVars)
      BY <2>1, <2>3 DEF Next, vars
    <3>2. QED
      BY <2>1, <2>3, <3>1, FInvStep, FInvSame DEF WalksInv
  <2>4. QED
    BY <2>2, <2>3 DEF WalksInv
<1>3. QED
  BY <1>1, <1>2, PTL DEF Spec

(* The cursor that a core keeps from task to task, and refreshes only when *)
(* the sequence changes, is where its next task is: that of v3             *)
(* (operator() of mha_fwd_kvcache.cpp) and that of v2.                     *)
THEOREM CursorAlwaysRight == Spec => []CursorRight
<1>1. WalksInv => CursorRight
  BY WCursorRight, FCursorRight DEF WalksInv, CursorRight
<1>2. QED
  BY <1>1, WalksInvAlways, PTL

(* The cores together run every row of every head once, with the lengths   *)
(* of its sequence and its own K/V head, for every mix of lengths, groups  *)
(* and cores: the loop over tasks, the tiles that hold several heads, and  *)
(* the number of tasks that the host of v2 counts.                         *)
THEOREM EveryRowIsRunOnce == Spec => []EveryRowOnce
<1>1. WalksInv => EveryRowOnce
  BY WEveryRowOnce, FEveryRowOnce DEF WalksInv, EveryRowOnce
<1>2. QED
  BY <1>1, WalksInvAlways, PTL

(* A core drains its pipeline with its last task and with no other.        *)
THEOREM DrainsOnlyLast == Spec => []DrainsLast
<1>1. WalksInv => DrainsLast
  BY WDrainsLast, FDrainsLast DEF WalksInv, DrainsLast
<1>2. QED
  BY <1>1, WalksInvAlways, PTL

(* A tile fits its slot and each vector engine's share half of it, however *)
(* many heads it holds (GetQNBlockTile of v3, the shape of v2).            *)
THEOREM TilesFit == Spec => []RowsFit
<1>1. WalksInv => RowsFit
  BY WRowsFit, FRowsFit DEF WalksInv, RowsFit
<1>2. QED
  BY <1>1, WalksInvAlways, PTL
=============================================================================
