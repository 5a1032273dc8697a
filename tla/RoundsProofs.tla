---------------------------- MODULE RoundsProofs ----------------------------
(***************************************************************************)
(* Proofs about DetRounds, the deterministic backward pass of the 950: the *)
(* shares of a gradient are added in the order of their rounds, for every  *)
(* launch whose schedule is fit for the barrier (RoundsAssumption), any    *)
(* number of cores and rounds.                                             *)
(*                                                                         *)
(* The inductive invariant RoundsInv says what the counters of the two     *)
(* flags are, by the rounds of the cores (BarrierCounts): from them, a     *)
(* core that is let through finds every core in its round (Passed).  Then  *)
(* of every share that was added: its round is behind every core, and the  *)
(* core that added it has left the round after (SharesOf).  So a share of  *)
(* the same round would be of another core, whose tile the schedule keeps  *)
(* in another row and another column (SharesAdd).                          *)
(***************************************************************************)
EXTENDS MCSchedules, TLAPS

T == plan.maxRound

(* Rounds of flag f among the first m, and those a core has signalled.     *)
OfFlag(m, f) == (m + 1 - f) \div 2
Signalled(c) == IF step[c] <= T THEN step[c] ELSE T

RoundsTyped ==
  /\ launch \in Launches /\ plan = D!Plan(launch)
  /\ schedule = [c \in D!Cores |-> [s \in 0 .. T - 1 |-> D!DecodeBlock(launch, plan, c, s + 1)]]
  /\ step \in [D!Cores -> Nat] /\ \A c \in D!Cores : step[c] <= T + 1
BarrierCounts ==
  /\ sets \in [D!Cores -> [0 .. 1 -> Int]] /\ waits \in [D!Cores -> [0 .. 1 -> Int]]
  /\ \A c \in D!Cores, f \in 0 .. 1 : sets[c][f] = OfFlag(Signalled(c), f)
  /\ \A c \in D!Cores, f \in 0 .. 1 :
       step[c] <= T => waits[c][f] = OfFlag(IF step[c] = 0 THEN 0 ELSE step[c] - 1, f)

(* Shares, and those of some tasks, numbered by core and round: each was   *)
(* added in the round after its own by the core whose task it is, once     *)
(* every core had reached that round.                                      *)
Tasks == {t \in D!Cores \X (0 .. T - 1) : schedule[t[1]][t[2]] # D!Hole}
Shares == {D!Share(t[2], schedule[t[1]][t[2]].tile) : t \in Tasks}
SharesOf(q, tasks, reached) ==
  /\ q \in Seq(Shares) /\ D!InRounds(q)
  /\ \A i \in DOMAIN q :
       /\ \A c \in D!Cores : reached[c] >= q[i].round + 1
       /\ \E d \in D!Cores : <<d, q[i].round>> \in tasks /\ reached[d] >= q[i].round + 2
OwnShares(q, reached) ==
  /\ q \in Seq(Shares) /\ D!InRounds(q)
  /\ \A i \in DOMAIN q : q[i].round + 2 <= reached
RowTasks(row) == {t \in Tasks : D!Row(schedule[t[1]][t[2]].tile) = row}
ColumnTasks(column) == {t \in Tasks : D!KvColumn(D!Column(schedule[t[1]][t[2]].tile)) = column}

QueriesAdded == \A row \in DOMAIN dq : SharesOf(dq[row], RowTasks(row), step)
ColumnsAdded ==
  /\ DOMAIN out = D!Grads /\ \A g \in D!Grads : DOMAIN out[g] = D!ColumnsOf
  /\ \A g \in D!Grads : \A column \in D!ColumnsOf :
       IF plan.privDkv THEN out[g][column] = Unset \/ D!InRounds(out[g][column])
       ELSE SharesOf(out[g][column], ColumnTasks(column), step)
BuffersAdded ==
  /\ DOMAIN buf = D!Cores
  /\ \A c \in D!Cores : DOMAIN buf[c] = D!Grads /\ \A g \in D!Grads : DOMAIN buf[c][g] = D!Buffers
  /\ \A c \in D!Cores : \A g \in D!Grads : \A p \in D!Buffers : OwnShares(buf[c][g][p], step[c])
StoresOwn ==
  /\ hasData \in [D!Cores -> SUBSET D!Buffers]
  /\ vec \in [D!Cores -> [step : Nat, at : D!Grads \cup {"feed"}]]
  /\ \A c \in D!Cores : vec[c].at \in D!Grads => plan.privDkv
RoundsInv == RoundsTyped /\ BarrierCounts /\ QueriesAdded /\ ColumnsAdded /\ BuffersAdded /\ StoresOwn

-----------------------------------------------------------------------------
(* The barrier.                                                            *)
LEMMA FlagNext ==
  ASSUME NEW m \in Nat, NEW f \in 0 .. 1
  PROVE  /\ OfFlag(m, f) \in Int /\ OfFlag(0, f) = 0
         /\ OfFlag(m + 1, f) = OfFlag(m, f) + (IF f = m % 2 THEN 1 ELSE 0)
         /\ m % 2 \in 0 .. 1 /\ (m + 2) % 2 = m % 2
<1>1. f = 0 \/ f = 1
  OBVIOUS
<1>2. CASE f = 0
  BY <1>2 DEF OfFlag
<1>3. CASE f = 1
  BY <1>3 DEF OfFlag
<1>4. QED
  BY <1>1, <1>2, <1>3

LEMMA FlagPassed ==
  ASSUME NEW m \in Nat, NEW k \in Nat, OfFlag(k, m % 2) > OfFlag(m, m % 2)
  PROVE  m < k
<1>1. PICK f \in 0 .. 1 : f = m % 2 /\ (f = 0 \/ f = 1)
  OBVIOUS
<1>2. CASE f = 0
  BY <1>1, <1>2 DEF OfFlag
<1>3. CASE f = 1
  BY <1>1, <1>3 DEF OfFlag
<1>4. QED
  BY <1>1, <1>2, <1>3

LEMMA RoundsFacts ==
  ASSUME RoundsTyped
  PROVE  /\ T \in Nat /\ D!totalRounds = T
         /\ \A c \in D!Cores : step[c] \in Nat /\ step[c] <= T + 1 /\ Signalled(c) \in Nat /\ Signalled(c) <= step[c]
         /\ \A c \in D!Cores, s \in Int : D!Pending(c, s) = IF s \in 1 .. T THEN schedule[c][s - 1] ELSE D!Hole
         /\ \A c, d \in D!Cores, s \in 0 .. T - 1 :
              c # d /\ schedule[c][s] # D!Hole /\ schedule[d][s] # D!Hole =>
                /\ D!Row(schedule[c][s].tile) # D!Row(schedule[d][s].tile)
                /\ \/ plan.privDkv
                   \/ D!KvColumn(D!Column(schedule[c][s].tile)) # D!KvColumn(D!Column(schedule[d][s].tile))
<1>1. T \in Nat /\ D!MeetsNobody(launch) /\ plan = D!Plan(launch)
  BY SchedulesAssumption DEF D!RoundsAssumption, RoundsTyped, T
<1>2. D!totalRounds = T
  BY DEF D!totalRounds, T
<1>3. \A c \in D!Cores : step[c] \in Nat /\ step[c] <= T + 1 /\ Signalled(c) \in Nat /\ Signalled(c) <= step[c]
  BY <1>1 DEF RoundsTyped, Signalled
<1>4. ASSUME NEW c \in D!Cores, NEW s \in Int
      PROVE  D!Pending(c, s) = IF s \in 1 .. T THEN schedule[c][s - 1] ELSE D!Hole
  <2>1. s \in 1 .. T <=> s - 1 \in 0 .. T - 1
    BY <1>1
  <2>2. QED
    BY <1>2, <2>1 DEF D!Pending, D!Task
<1>5. ASSUME NEW c \in D!Cores, NEW d \in D!Cores, NEW s \in 0 .. T - 1,
             c # d, schedule[c][s] # D!Hole, schedule[d][s] # D!Hole
      PROVE  /\ D!Row(schedule[c][s].tile) # D!Row(schedule[d][s].tile)
             /\ \/ plan.privDkv
                \/ D!KvColumn(D!Column(schedule[c][s].tile)) # D!KvColumn(D!Column(schedule[d][s].tile))
  <2>1. /\ schedule[c][s] = D!DecodeBlock(launch, plan, c, s + 1)
        /\ schedule[d][s] = D!DecodeBlock(launch, plan, d, s + 1)
    BY DEF RoundsTyped
  <2>2. s + 1 \in 1 .. plan.maxRound
    BY <1>1 DEF T
  <2>3. c \in 1 .. plan.cores /\ d \in 1 .. plan.cores
    BY DEF D!Cores
  <2>4. \A a, b \in 1 .. plan.cores, r \in 1 .. plan.maxRound :
          LET t == D!DecodeBlock(launch, plan, a, r)
              u == D!DecodeBlock(launch, plan, b, r)
          IN a # b /\ t # D!Hole /\ u # D!Hole =>
               /\ D!Row(t.tile) # D!Row(u.tile)
               /\ plan.privDkv \/ D!KvColumn(D!Column(t.tile)) # D!KvColumn(D!Column(u.tile))
    BY <1>1 DEF D!MeetsNobody
  <2>5. QED
    BY <1>5, <2>1, <2>2, <2>3, <2>4
<1>6. QED
  BY <1>1, <1>2, <1>3, <1>4, <1>5

(* A core that is let through into a round finds every core there.         *)
LEMMA Passed ==
  ASSUME RoundsTyped, BarrierCounts, NEW c \in D!Cores, NEW s \in Nat, s = step[c], 1 <= s, s <= T,
         D!WaitRound(c, s)
  PROVE  \A d \in D!Cores : step[d] >= s
<1>1. PICK m \in Nat : m = s - 1 /\ m + 1 = s
  OBVIOUS
<1>2. D!Flag(s + 1) = m % 2 /\ m % 2 \in 0 .. 1
  <2>1. s + 1 = m + 2 /\ 0 \in 0 .. 1
    BY <1>1
  <2>2. (m + 2) % 2 = m % 2 /\ m % 2 \in 0 .. 1
    BY <2>1, FlagNext
  <2>3. QED
    BY <2>1, <2>2 DEF D!Flag
<1>3. waits[c][m % 2] = OfFlag(m, m % 2)
  BY <1>1, <1>2 DEF BarrierCounts
<1>4. SUFFICES ASSUME NEW d \in D!Cores PROVE step[d] >= s
  OBVIOUS
<1>5. sets[d][m % 2] > waits[c][m % 2]
  BY <1>2 DEF D!WaitRound
<1>6. sets[d][m % 2] = OfFlag(Signalled(d), m % 2)
  BY <1>2 DEF BarrierCounts
<1>7. Signalled(d) \in Nat /\ Signalled(d) <= step[d] /\ step[d] \in Nat
  BY RoundsFacts
<1>8. m < Signalled(d)
  BY <1>3, <1>5, <1>6, <1>7, FlagPassed
<1>9. QED
  BY <1>1, <1>7, <1>8

-----------------------------------------------------------------------------
(* Shares are added in the order of their rounds.                          *)
LEMMA AppendRounds ==
  ASSUME NEW all, NEW q \in Seq(all), NEW x \in all, D!InRounds(q), \A i \in DOMAIN q : q[i].round < x.round
  PROVE  /\ Append(q, x) \in Seq(all) /\ D!InRounds(Append(q, x))
         /\ \A i \in DOMAIN Append(q, x) :
              (i \in DOMAIN q /\ Append(q, x)[i] = q[i]) \/ Append(q, x)[i] = x
<1>1. /\ Append(q, x) \in Seq(all) /\ Len(q) \in Nat
      /\ DOMAIN q = 1 .. Len(q) /\ DOMAIN Append(q, x) = 1 .. Len(q) + 1
      /\ Append(q, x)[Len(q) + 1] = x /\ \A i \in 1 .. Len(q) : Append(q, x)[i] = q[i]
  OBVIOUS
<1>2. ASSUME NEW i \in 1 .. Len(q) + 1 PROVE i \in 1 .. Len(q) \/ i = Len(q) + 1
  BY <1>1
<1>3. ASSUME NEW i \in 1 .. Len(q) + 1, NEW j \in 1 .. Len(q) + 1, i < j
      PROVE  Append(q, x)[i].round < Append(q, x)[j].round
  <2>1. i \in 1 .. Len(q)
    BY <1>1, <1>3
  <2>2. CASE j = Len(q) + 1
    BY <1>1, <2>1, <2>2
  <2>3. CASE j \in 1 .. Len(q)
    BY <1>1, <1>3, <2>1, <2>3 DEF D!InRounds
  <2>4. QED
    BY <1>2, <2>2, <2>3
<1>4. D!InRounds(Append(q, x))
  BY <1>1, <1>3 DEF D!InRounds
<1>5. QED
  BY <1>1, <1>2, <1>4

LEMMA SharesGrow ==
  ASSUME RoundsTyped, NEW q, NEW tasks, SharesOf(q, tasks, step),
         NEW reached \in [D!Cores -> Nat], \A d \in D!Cores : reached[d] >= step[d]
  PROVE  SharesOf(q, tasks, reached)
<1>1. \A d \in D!Cores : step[d] \in Nat /\ reached[d] \in Nat
  BY RoundsFacts
<1>2. ASSUME NEW i \in DOMAIN q
      PROVE  /\ \A c \in D!Cores : reached[c] >= q[i].round + 1
             /\ \E d \in D!Cores : <<d, q[i].round>> \in tasks /\ reached[d] >= q[i].round + 2
  <2>1. q[i].round \in Int
    <3>1. q[i] \in Shares
      BY DEF SharesOf
    <3>2. T \in Nat
      BY RoundsFacts
    <3>3. QED
      BY <3>1, <3>2 DEF Shares, Tasks, D!Share
  <2>2. \A c \in D!Cores : step[c] >= q[i].round + 1
    BY DEF SharesOf
  <2>3. PICK d \in D!Cores : <<d, q[i].round>> \in tasks /\ step[d] >= q[i].round + 2
    BY DEF SharesOf
  <2>4. \A c \in D!Cores : reached[c] >= q[i].round + 1
    BY <1>1, <2>1, <2>2
  <2>5. reached[d] >= q[i].round + 2
    BY <1>1, <2>1, <2>3
  <2>6. QED
    BY <2>3, <2>4, <2>5
<1>3. QED
  BY <1>2 DEF SharesOf

(* A core's share comes after all there are, if no other core has a task   *)
(* of the same row or column in that round.                                *)
LEMMA SharesAdd ==
  ASSUME RoundsTyped, NEW q, NEW tasks, SharesOf(q, tasks, step),
         NEW c \in D!Cores, NEW s \in Nat, s = step[c], 1 <= s, \A d \in D!Cores : step[d] >= s,
         <<c, s - 1>> \in tasks, \A d \in D!Cores : <<d, s - 1>> \in tasks => d = c,
         NEW x \in Shares, x.round = s - 1,
         NEW reached \in [D!Cores -> Nat], \A d \in D!Cores : reached[d] >= step[d], reached[c] = s + 1
  PROVE  SharesOf(Append(q, x), tasks, reached)
<1>1. \A d \in D!Cores : step[d] \in Nat /\ reached[d] \in Nat
  BY RoundsFacts
<1>2. ASSUME NEW i \in DOMAIN q PROVE q[i].round < x.round
  <2>1. q[i].round \in Int
    <3>1. q[i] \in Shares
      BY DEF SharesOf
    <3>2. T \in Nat
      BY RoundsFacts
    <3>3. QED
      BY <3>1, <3>2 DEF Shares, Tasks, D!Share
  <2>2. step[c] >= q[i].round + 1
    BY DEF SharesOf
  <2>3. PICK d \in D!Cores : <<d, q[i].round>> \in tasks /\ step[d] >= q[i].round + 2
    BY DEF SharesOf
  <2>4. CASE q[i].round = s - 1
    <3>1. d = c
      BY <2>3, <2>4
    <3>2. QED
      BY <2>3, <2>4, <3>1
  <2>5. QED
    BY <2>1, <2>2, <2>4
<1>3. /\ Append(q, x) \in Seq(Shares) /\ D!InRounds(Append(q, x))
      /\ \A i \in DOMAIN Append(q, x) : (i \in DOMAIN q /\ Append(q, x)[i] = q[i]) \/ Append(q, x)[i] = x
  BY <1>2, AppendRounds DEF SharesOf
<1>4. SharesOf(q, tasks, reached)
  BY SharesGrow
<1>5. ASSUME NEW i \in DOMAIN Append(q, x)
      PROVE  /\ \A d \in D!Cores : reached[d] >= Append(q, x)[i].round + 1
             /\ \E d \in D!Cores : /\ <<d, Append(q, x)[i].round>> \in tasks
                                   /\ reached[d] >= Append(q, x)[i].round + 2
  <2>1. CASE i \in DOMAIN q /\ Append(q, x)[i] = q[i]
    BY <1>4, <2>1 DEF SharesOf
  <2>2. CASE Append(q, x)[i] = x
    <3>1. \A d \in D!Cores : reached[d] >= (s - 1) + 1
      BY <1>1
    <3>2. reached[c] >= (s - 1) + 2
      OBVIOUS
    <3>3. QED
      BY <2>2, <3>1, <3>2
  <2>3. QED
    BY <1>3, <2>1, <2>2
<1>6. QED
  BY <1>3, <1>5 DEF SharesOf

LEMMA OwnGrow ==
  ASSUME RoundsTyped, NEW q, NEW s \in Nat, NEW r \in Nat, OwnShares(q, s), s <= r
  PROVE  OwnShares(q, r)
<1>1. ASSUME NEW i \in DOMAIN q PROVE q[i].round + 2 <= r
  <2>1. q[i].round \in Int
    <3>1. q[i] \in Shares
      BY DEF OwnShares
    <3>2. T \in Nat
      BY RoundsFacts
    <3>3. QED
      BY <3>1, <3>2 DEF Shares, Tasks, D!Share
  <2>2. q[i].round + 2 <= s
    BY DEF OwnShares
  <2>3. QED
    BY <2>1, <2>2
<1>2. QED
  BY <1>1 DEF OwnShares

LEMMA OwnAdd ==
  ASSUME RoundsTyped, NEW q, NEW s \in Nat, OwnShares(q, s), 1 <= s, NEW x \in Shares, x.round = s - 1
  PROVE  OwnShares(Append(q, x), s + 1) /\ OwnShares(<<x>>, s + 1)
<1>1. ASSUME NEW i \in DOMAIN q PROVE q[i].round < x.round /\ q[i].round + 2 <= s + 1
  <2>1. q[i].round \in Int
    <3>1. q[i] \in Shares
      BY DEF OwnShares
    <3>2. T \in Nat
      BY RoundsFacts
    <3>3. QED
      BY <3>1, <3>2 DEF Shares, Tasks, D!Share
  <2>2. q[i].round + 2 <= s
    BY DEF OwnShares
  <2>3. QED
    BY <2>1, <2>2
<1>2. /\ Append(q, x) \in Seq(Shares) /\ D!InRounds(Append(q, x))
      /\ \A i \in DOMAIN Append(q, x) : (i \in DOMAIN q /\ Append(q, x)[i] = q[i]) \/ Append(q, x)[i] = x
  BY <1>1, AppendRounds DEF OwnShares
<1>3. x.round + 2 <= s + 1
  OBVIOUS
<1>4. OwnShares(Append(q, x), s + 1)
  BY <1>1, <1>2, <1>3 DEF OwnShares
<1>5. /\ <<x>> \in Seq(Shares) /\ DOMAIN <<x>> = {1} /\ <<x>>[1] = x
  OBVIOUS
<1>6. OwnShares(<<x>>, s + 1)
  BY <1>3, <1>5 DEF OwnShares, D!InRounds
<1>7. QED
  BY <1>4, <1>6

-----------------------------------------------------------------------------
(* A core goes on to its next round.                                       *)
Forward(c, s) ==
  /\ s = step[c] /\ s <= T /\ step' = [step EXCEPT ![c] = s + 1]
  /\ UNCHANGED <<launch, plan, schedule>>

LEMMA ForwardFacts ==
  ASSUME RoundsTyped, NEW c \in D!Cores, NEW s, Forward(c, s)
  PROVE  /\ RoundsTyped' /\ s \in Nat /\ D!Cores' = D!Cores /\ T' = T /\ T \in Nat
         /\ step' \in [D!Cores -> Nat] /\ \A d \in D!Cores : step'[d] >= step[d]
         /\ step'[c] = s + 1 /\ \A d \in D!Cores : d # c => step'[d] = step[d]
<1>1. T \in Nat /\ \A d \in D!Cores : step[d] \in Nat /\ step[d] <= T + 1
  BY RoundsFacts
<1>2. s \in Nat /\ D!Cores' = D!Cores /\ T' = T /\ step \in [D!Cores -> Nat]
  BY <1>1 DEF Forward, D!Cores, T, RoundsTyped
<1>3. /\ step' \in [D!Cores -> Nat] /\ step'[c] = s + 1
      /\ \A d \in D!Cores : d # c => step'[d] = step[d]
  BY <1>2 DEF Forward
<1>4. \A d \in D!Cores : step'[d] >= step[d] /\ step'[d] <= T + 1
  BY <1>1, <1>2, <1>3 DEF Forward
<1>5. RoundsTyped'
  <2>1. launch' \in Launches /\ plan' = D!Plan(launch')
    BY DEF Forward, RoundsTyped
  <2>2. schedule' = [d \in D!Cores |-> [r \in 0 .. T - 1 |-> D!DecodeBlock(launch', plan', d, r + 1)]]
    BY DEF Forward, RoundsTyped
  <2>3. QED
    BY <1>2, <1>3, <1>4, <2>1, <2>2 DEF RoundsTyped
<1>6. QED
  BY <1>1, <1>2, <1>3, <1>4, <1>5

LEMMA SameTasks ==
  ASSUME UNCHANGED <<launch, plan, schedule>>
  PROVE  /\ Tasks' = Tasks /\ Shares' = Shares /\ D!ColumnsOf' = D!ColumnsOf /\ D!Buffers' = D!Buffers
         /\ \A row : RowTasks(row)' = RowTasks(row)
         /\ \A column : ColumnTasks(column)' = ColumnTasks(column)
<1>1. D!Cores' = D!Cores /\ T' = T /\ D!Buffers' = D!Buffers
  BY DEF D!Cores, T, D!Buffers
<1>2. Tasks' = Tasks
  BY <1>1 DEF Tasks
<1>3. Shares' = Shares
  BY <1>2 DEF Shares
<1>4. D!ColumnsOf' = D!ColumnsOf
  BY DEF D!ColumnsOf, D!Columns
<1>5. (\A row : RowTasks(row)' = RowTasks(row)) /\ (\A column : ColumnTasks(column)' = ColumnTasks(column))
  BY <1>2 DEF RowTasks, ColumnTasks
<1>6. QED
  BY <1>1, <1>2, <1>3, <1>4, <1>5

(* What nobody touches, the others' progress keeps.                        *)
LEMMA OutputsKept ==
  ASSUME RoundsInv, NEW c \in D!Cores, NEW s, Forward(c, s)
  PROVE  /\ UNCHANGED dq => QueriesAdded'
         /\ UNCHANGED out => ColumnsAdded'
         /\ UNCHANGED buf => BuffersAdded'
<1>1. /\ D!Cores' = D!Cores /\ step' \in [D!Cores -> Nat] /\ \A d \in D!Cores : step'[d] >= step[d]
      /\ \A d \in D!Cores : step[d] \in Nat /\ step'[d] \in Nat
  BY ForwardFacts, RoundsFacts DEF RoundsInv
<1>2. /\ Shares' = Shares /\ D!ColumnsOf' = D!ColumnsOf /\ D!Buffers' = D!Buffers
      /\ \A row : RowTasks(row)' = RowTasks(row)
      /\ \A column : ColumnTasks(column)' = ColumnTasks(column)
  BY SameTasks DEF Forward
<1>3. \A q, tasks : SharesOf(q, tasks, step) => SharesOf(q, tasks, step')
  BY <1>1, SharesGrow DEF RoundsInv
<1>4. ASSUME NEW q, NEW tasks PROVE SharesOf(q, tasks, step') <=> SharesOf(q, tasks, step)'
  BY <1>1, <1>2 DEF SharesOf
<1>5. ASSUME UNCHANGED dq PROVE QueriesAdded'
  <2>1. SUFFICES ASSUME NEW row \in DOMAIN dq' PROVE SharesOf(dq[row], RowTasks(row), step)'
    BY DEF QueriesAdded
  <2>2. PICK q, tasks : q = dq[row] /\ tasks = RowTasks(row)
    OBVIOUS
  <2>3. q = dq'[row] /\ tasks = RowTasks(row)'
    BY <1>2, <1>5, <2>2
  <2>4. SharesOf(q, tasks, step')
    BY <1>3, <1>5, <2>1, <2>2 DEF RoundsInv, QueriesAdded
  <2>5. QED
    BY <1>1, <1>2, <2>3, <2>4 DEF SharesOf
<1>6. ASSUME UNCHANGED out PROVE ColumnsAdded'
  <2>1. plan' = plan /\ DOMAIN out' = D!Grads /\ \A g \in D!Grads : DOMAIN out'[g] = D!ColumnsOf'
    BY <1>2, <1>6 DEF Forward, RoundsInv, ColumnsAdded
  <2>2. SUFFICES ASSUME NEW g \in D!Grads, NEW column \in D!ColumnsOf'
                 PROVE  IF plan'.privDkv THEN out'[g][column] = Unset \/ D!InRounds(out'[g][column])
                        ELSE SharesOf(out[g][column], ColumnTasks(column), step)'
    BY <2>1 DEF ColumnsAdded
  <2>3. PICK q, tasks : q = out[g][column] /\ tasks = ColumnTasks(column)
    OBVIOUS
  <2>4. q = out'[g][column] /\ tasks = ColumnTasks(column)'
    BY <1>2, <1>6, <2>3
  <2>5. IF plan.privDkv THEN q = Unset \/ D!InRounds(q) ELSE SharesOf(q, tasks, step')
    BY <1>2, <1>3, <2>2, <2>3 DEF RoundsInv, ColumnsAdded
  <2>6. ~plan.privDkv => SharesOf(out[g][column], ColumnTasks(column), step)'
    BY <1>1, <1>2, <2>4, <2>5 DEF SharesOf
  <2>7. QED
    BY <2>1, <2>4, <2>5, <2>6
<1>7. ASSUME UNCHANGED buf PROVE BuffersAdded'
  <2>1. \A d \in D!Cores : \A q : OwnShares(q, step[d]) => OwnShares(q, step'[d])
    BY <1>1, OwnGrow DEF RoundsInv
  <2>2. QED
    BY <1>1, <1>2, <1>7, <2>1 DEF RoundsInv, BuffersAdded, OwnShares
<1>8. QED
  BY <1>5, <1>6, <1>7

-----------------------------------------------------------------------------
(* The back end of the tile of the round before.                           *)
Due(c, s) == D!Pending(c, s).tile
DueShare(c, s) == D!Share(s - 1, Due(c, s))

LEMMA TaskFacts ==
  ASSUME RoundsTyped, NEW c \in D!Cores, NEW s \in Nat, s = step[c], s <= T, D!Pending(c, s) # D!Hole
  PROVE  /\ 1 <= s /\ D!Pending(c, s) = schedule[c][s - 1]
         /\ DueShare(c, s) \in Shares /\ DueShare(c, s).round = s - 1
         /\ <<c, s - 1>> \in RowTasks(D!Row(Due(c, s)))
         /\ <<c, s - 1>> \in ColumnTasks(D!KvColumn(D!Column(Due(c, s))))
         /\ \A d \in D!Cores : <<d, s - 1>> \in RowTasks(D!Row(Due(c, s))) => d = c
         /\ ~plan.privDkv =>
              \A d \in D!Cores : <<d, s - 1>> \in ColumnTasks(D!KvColumn(D!Column(Due(c, s)))) => d = c
<1>1. T \in Nat /\ D!Pending(c, s) = IF s \in 1 .. T THEN schedule[c][s - 1] ELSE D!Hole
  BY RoundsFacts
<1>2. 1 <= s /\ s - 1 \in 0 .. T - 1 /\ D!Pending(c, s) = schedule[c][s - 1]
  BY <1>1
<1>3. <<c, s - 1>> \in Tasks /\ Due(c, s) = schedule[c][s - 1].tile
  BY <1>2 DEF Tasks, Due
<1>4. DueShare(c, s) \in Shares /\ DueShare(c, s).round = s - 1
  BY <1>3 DEF Shares, DueShare, D!Share
<1>5. /\ <<c, s - 1>> \in RowTasks(D!Row(Due(c, s)))
      /\ <<c, s - 1>> \in ColumnTasks(D!KvColumn(D!Column(Due(c, s))))
  BY <1>3 DEF RowTasks, ColumnTasks
<1>6. ASSUME NEW d \in D!Cores, d # c, schedule[d][s - 1] # D!Hole
      PROVE  /\ D!Row(schedule[d][s - 1].tile) # D!Row(Due(c, s))
             /\ plan.privDkv \/ D!KvColumn(D!Column(schedule[d][s - 1].tile)) # D!KvColumn(D!Column(Due(c, s)))
  <2>1. schedule[c][s - 1] # D!Hole
    BY <1>2
  <2>2. \A e, f \in D!Cores, r \in 0 .. T - 1 :
          e # f /\ schedule[e][r] # D!Hole /\ schedule[f][r] # D!Hole =>
            /\ D!Row(schedule[e][r].tile) # D!Row(schedule[f][r].tile)
            /\ \/ plan.privDkv
               \/ D!KvColumn(D!Column(schedule[e][r].tile)) # D!KvColumn(D!Column(schedule[f][r].tile))
    BY RoundsFacts
  <2>3. QED
    BY <1>2, <1>3, <1>6, <2>1, <2>2
<1>7. ASSUME NEW d \in D!Cores, <<d, s - 1>> \in RowTasks(D!Row(Due(c, s))) PROVE d = c
  BY <1>6, <1>7 DEF RowTasks, Tasks
<1>8. ASSUME ~plan.privDkv, NEW d \in D!Cores, <<d, s - 1>> \in ColumnTasks(D!KvColumn(D!Column(Due(c, s))))
      PROVE  d = c
  BY <1>6, <1>8 DEF ColumnTasks, Tasks
<1>9. QED
  BY <1>2, <1>4, <1>5, <1>7, <1>8

(* What a share is added to, once no core is behind.                       *)
LEMMA ShareAdded ==
  ASSUME RoundsTyped, NEW c \in D!Cores, NEW s, Forward(c, s), D!Pending(c, s) # D!Hole,
         \A d \in D!Cores : step[d] >= s, NEW q, NEW tasks, SharesOf(q, tasks, step),
         \/ tasks = RowTasks(D!Row(Due(c, s)))
         \/ ~plan.privDkv /\ tasks = ColumnTasks(D!KvColumn(D!Column(Due(c, s))))
  PROVE  SharesOf(Append(q, DueShare(c, s)), tasks, step')
<1>1. /\ s \in Nat /\ s = step[c] /\ s <= T /\ step' \in [D!Cores -> Nat]
      /\ \A d \in D!Cores : step'[d] >= step[d] /\ step'[c] = s + 1
  BY ForwardFacts DEF Forward
<1>2. /\ 1 <= s /\ DueShare(c, s) \in Shares /\ DueShare(c, s).round = s - 1
      /\ <<c, s - 1>> \in tasks /\ \A d \in D!Cores : <<d, s - 1>> \in tasks => d = c
  BY <1>1, TaskFacts
<1>3. QED
  BY <1>1, <1>2, SharesAdd

LEMMA QueriesKept ==
  ASSUME RoundsInv, NEW c \in D!Cores, NEW s, Forward(c, s), D!Pending(c, s) # D!Hole,
         \A d \in D!Cores : step[d] >= s,
         dq' = [dq EXCEPT ![D!Row(Due(c, s))] = Append(@, DueShare(c, s))]
  PROVE  QueriesAdded'
<1>1. /\ D!Cores' = D!Cores /\ step' \in [D!Cores -> Nat] /\ \A d \in D!Cores : step'[d] >= step[d]
      /\ Shares' = Shares /\ \A row : RowTasks(row)' = RowTasks(row)
  BY ForwardFacts, SameTasks DEF Forward, RoundsInv
<1>2. SUFFICES ASSUME NEW row \in DOMAIN dq' PROVE SharesOf(dq[row], RowTasks(row), step)'
  BY DEF QueriesAdded
<1>3. DOMAIN dq' = DOMAIN dq
  OBVIOUS
<1>4. SharesOf(dq[row], RowTasks(row), step)
  BY <1>2, <1>3 DEF RoundsInv, QueriesAdded
<1>5. PICK q, tasks : q = dq'[row] /\ tasks = RowTasks(row)
  OBVIOUS
<1>6. SharesOf(q, tasks, step')
  <2>1. CASE row = D!Row(Due(c, s))
    <3>1. q = Append(dq[row], DueShare(c, s))
      BY <1>2, <1>3, <1>5, <2>1
    <3>2. QED
      BY <1>4, <1>5, <2>1, <3>1, ShareAdded DEF RoundsInv
  <2>2. CASE row # D!Row(Due(c, s))
    <3>1. q = dq[row]
      BY <1>2, <1>3, <1>5, <2>2
    <3>2. QED
      BY <1>1, <1>4, <1>5, <3>1, SharesGrow DEF RoundsInv
  <2>3. QED
    BY <2>1, <2>2
<1>7. tasks = RowTasks(row)'
  BY <1>1, <1>5
<1>8. QED
  BY <1>1, <1>5, <1>6, <1>7 DEF SharesOf

LEMMA ColumnsKept ==
  ASSUME RoundsInv, NEW c \in D!Cores, NEW s, Forward(c, s), D!Pending(c, s) # D!Hole,
         \A d \in D!Cores : step[d] >= s, ~plan.privDkv,
         out' = [g \in D!Grads |-> [out[g] EXCEPT ![D!KvColumn(D!Column(Due(c, s)))] =
                                      Append(@, DueShare(c, s))]]
  PROVE  ColumnsAdded'
<1>1. /\ D!Cores' = D!Cores /\ step' \in [D!Cores -> Nat] /\ \A d \in D!Cores : step'[d] >= step[d]
      /\ Shares' = Shares /\ D!ColumnsOf' = D!ColumnsOf
      /\ \A column : ColumnTasks(column)' = ColumnTasks(column)
  BY ForwardFacts, SameTasks DEF Forward, RoundsInv
<1>2. DOMAIN out' = D!Grads /\ \A g \in D!Grads : DOMAIN out'[g] = D!ColumnsOf'
  BY <1>1 DEF RoundsInv, ColumnsAdded
<1>3. ~plan'.privDkv
  BY DEF Forward
<1>4. SUFFICES ASSUME NEW g \in D!Grads, NEW column \in D!ColumnsOf
               PROVE  SharesOf(out[g][column], ColumnTasks(column), step)'
  BY <1>1, <1>2, <1>3 DEF ColumnsAdded
<1>5. SharesOf(out[g][column], ColumnTasks(column), step) /\ column \in DOMAIN out[g]
  BY DEF RoundsInv, ColumnsAdded
<1>6. PICK q, tasks : q = out'[g][column] /\ tasks = ColumnTasks(column)
  OBVIOUS
<1>7. SharesOf(q, tasks, step')
  <2>1. CASE column = D!KvColumn(D!Column(Due(c, s)))
    <3>1. q = Append(out[g][column], DueShare(c, s))
      BY <1>5, <1>6, <2>1
    <3>2. QED
      BY <1>5, <1>6, <2>1, <3>1, ShareAdded DEF RoundsInv
  <2>2. CASE column # D!KvColumn(D!Column(Due(c, s)))
    <3>1. q = out[g][column]
      BY <1>5, <1>6, <2>2
    <3>2. QED
      BY <1>1, <1>5, <1>6, <3>1, SharesGrow DEF RoundsInv
  <2>3. QED
    BY <2>1, <2>2
<1>8. tasks = ColumnTasks(column)'
  BY <1>1, <1>6
<1>9. QED
  BY <1>1, <1>6, <1>7, <1>8 DEF SharesOf

LEMMA BuffersKept ==
  ASSUME RoundsInv, NEW c \in D!Cores, NEW s, Forward(c, s), D!Pending(c, s) # D!Hole,
         NEW new, buf' = [buf EXCEPT ![c] = new],
         DOMAIN new = D!Grads, \A g \in D!Grads : DOMAIN new[g] = D!Buffers,
         \A g \in D!Grads : \A b \in D!Buffers :
           new[g][b] \in {buf[c][g][b], Append(buf[c][g][b], DueShare(c, s)), <<DueShare(c, s)>>}
  PROVE  BuffersAdded'
<1>1. /\ D!Cores' = D!Cores /\ Shares' = Shares /\ D!Buffers' = D!Buffers
      /\ s \in Nat /\ s = step[c] /\ s <= T /\ step' \in [D!Cores -> Nat] /\ step'[c] = s + 1
      /\ \A d \in D!Cores : d # c => step'[d] = step[d]
  BY ForwardFacts, SameTasks DEF Forward, RoundsInv
<1>2. 1 <= s /\ DueShare(c, s) \in Shares /\ DueShare(c, s).round = s - 1
  BY <1>1, TaskFacts DEF RoundsInv
<1>3. /\ DOMAIN buf = D!Cores
      /\ \A d \in D!Cores : DOMAIN buf[d] = D!Grads /\ \A g \in D!Grads : DOMAIN buf[d][g] = D!Buffers
  BY DEF RoundsInv, BuffersAdded
<1>4. /\ DOMAIN buf' = D!Cores /\ buf'[c] = new
      /\ \A d \in D!Cores : d # c => buf'[d] = buf[d]
  BY <1>3
<1>6. ASSUME NEW g \in D!Grads, NEW b \in D!Buffers PROVE OwnShares(buf'[c][g][b], s + 1)
  <2>1. PICK q : q = buf[c][g][b] /\ OwnShares(q, s)
    BY <1>1 DEF RoundsInv, BuffersAdded
  <2>2. OwnShares(Append(q, DueShare(c, s)), s + 1) /\ OwnShares(<<DueShare(c, s)>>, s + 1)
    BY <1>1, <1>2, <2>1, OwnAdd DEF RoundsInv
  <2>3. OwnShares(q, s + 1)
    <3>1. s + 1 \in Nat /\ s <= s + 1
      BY <1>1
    <3>2. QED
      BY <1>1, <2>1, <3>1, OwnGrow DEF RoundsInv
  <2>4. new[g][b] \in {q, Append(q, DueShare(c, s)), <<DueShare(c, s)>>}
    BY <2>1
  <2>5. QED
    BY <1>4, <2>2, <2>3, <2>4
<1>7. ASSUME NEW d \in D!Cores, NEW g \in D!Grads, NEW b \in D!Buffers PROVE OwnShares(buf'[d][g][b], step'[d])
  <2>1. CASE d = c
    BY <1>1, <1>6, <2>1
  <2>2. CASE d # c
    BY <1>1, <1>4, <2>2 DEF RoundsInv, BuffersAdded
  <2>3. QED
    BY <2>1, <2>2
<1>8. \A d \in D!Cores : DOMAIN buf'[d] = D!Grads /\ \A g \in D!Grads : DOMAIN buf'[d][g] = D!Buffers
  BY <1>3, <1>4
<1>9. \A d \in D!Cores : \A g \in D!Grads : \A b \in D!Buffers : OwnShares(buf[d][g][b], step[d])'
  <2>1. SUFFICES ASSUME NEW d \in D!Cores, NEW g \in D!Grads, NEW b \in D!Buffers
                 PROVE  OwnShares(buf[d][g][b], step[d])'
    OBVIOUS
  <2>2. QED
    BY <1>1, <1>7 DEF OwnShares
<1>10. QED
  BY <1>1, <1>4, <1>8, <1>9 DEF BuffersAdded

LEMMA BackEndKeeps ==
  ASSUME RoundsInv, NEW c \in D!Cores, NEW s, Forward(c, s), D!Pending(c, s) # D!Hole,
         D!WaitRound(c, s), NEW colEnd, D!BackEnd(c, s, colEnd)
  PROVE  QueriesAdded' /\ ColumnsAdded' /\ BuffersAdded'
<1>1. s \in Nat /\ s = step[c] /\ s <= T
  BY ForwardFacts DEF Forward, RoundsInv
<1>2. 1 <= s
  BY <1>1, TaskFacts DEF RoundsInv
<1>3. \A d \in D!Cores : step[d] >= s
  BY <1>1, <1>2, Passed DEF RoundsInv
<1>4. dq' = [dq EXCEPT ![D!Row(Due(c, s))] = Append(@, DueShare(c, s))]
  BY DEF D!BackEnd, Due, DueShare
<1>5. QueriesAdded'
  BY <1>3, <1>4, QueriesKept
<1>6. CASE plan.privDkv
  <2>1. D!Gather(c, D!Pending(c, s), s, colEnd)
    BY <1>6 DEF D!BackEnd
  <2>2. PICK p, x, new :
          /\ p = D!Pending(c, s).parity /\ x = D!Share(s - 1, D!Pending(c, s).tile)
          /\ new = [g \in D!Grads |-> [buf[c][g] EXCEPT ![p] =
                      IF p \in open[c][g] THEN Append(@, x) ELSE <<x>>]]
    OBVIOUS
  <2>3. /\ DOMAIN buf = D!Cores /\ DOMAIN buf[c] = D!Grads
        /\ \A g \in D!Grads : DOMAIN buf[c][g] = D!Buffers
    BY DEF RoundsInv, BuffersAdded
  <2>4. buf' = [buf EXCEPT ![c] = new] /\ x = DueShare(c, s)
    BY <2>1, <2>2 DEF D!Gather, Due, DueShare
  <2>5. BuffersAdded'
    <3>1. DOMAIN new = D!Grads /\ \A g \in D!Grads : DOMAIN new[g] = D!Buffers
      BY <2>2, <2>3
    <3>2. ASSUME NEW g \in D!Grads, NEW b \in D!Buffers
          PROVE  new[g][b] \in {buf[c][g][b], Append(buf[c][g][b], DueShare(c, s)), <<DueShare(c, s)>>}
      <4>1. PICK old : old = buf[c][g] /\ DOMAIN old = D!Buffers
        BY <2>3
      <4>2. new[g] = [old EXCEPT ![p] = IF p \in open[c][g] THEN Append(@, x) ELSE <<x>>]
        BY <2>2, <4>1
      <4>3. QED
        BY <2>4, <4>1, <4>2
    <3>3. QED
      BY <2>4, <3>1, <3>2, BuffersKept
  <2>6. ColumnsAdded'
    BY <2>1, OutputsKept DEF D!Gather
  <2>7. QED
    BY <1>5, <2>5, <2>6
<1>7. CASE ~plan.privDkv
  <2>1. D!AddToAll(D!Pending(c, s), s)
    BY <1>7 DEF D!BackEnd
  <2>2. out' = [g \in D!Grads |-> [out[g] EXCEPT ![D!KvColumn(D!Column(Due(c, s)))] =
                                      Append(@, DueShare(c, s))]]
    BY <2>1 DEF D!AddToAll, Due, DueShare
  <2>3. ColumnsAdded'
    BY <1>3, <1>7, <2>2, ColumnsKept
  <2>4. BuffersAdded'
    BY <2>1, OutputsKept DEF D!AddToAll
  <2>5. QED
    BY <1>5, <2>3, <2>4
<1>8. QED
  BY <1>6, <1>7

-----------------------------------------------------------------------------
(* The signals and waits of a step.                                        *)
LEMMA RoundCounts ==
  ASSUME RoundsTyped, BarrierCounts, NEW c \in D!Cores, D!Round(c)
  PROVE  BarrierCounts' /\ Forward(c, step[c])
<1>1. PICK s : s = step[c] /\ s < T /\ Forward(c, s) /\ s \in Nat /\ T \in Nat
  <2>1. T \in Nat /\ D!totalRounds = T /\ step[c] \in Nat
    BY RoundsFacts
  <2>2. /\ step[c] < D!totalRounds /\ step' = [step EXCEPT ![c] = step[c] + 1]
        /\ UNCHANGED <<launch, plan, schedule>>
    BY DEF D!Round
  <2>3. step[c] < T /\ step[c] <= T
    BY <2>1, <2>2
  <2>4. QED
    BY <2>1, <2>2, <2>3 DEF Forward
<1>2. /\ D!Cores' = D!Cores /\ T' = T /\ step'[c] = s + 1
      /\ \A d \in D!Cores : d # c => step'[d] = step[d]
  BY <1>1, ForwardFacts
<1>3. sets' = [sets EXCEPT ![c][D!Flag(s)] = @ + 1]
  BY <1>1 DEF D!Round
<1>4. D!Flag(s) = s % 2 /\ s % 2 \in 0 .. 1
  <2>1. 0 \in 0 .. 1
    OBVIOUS
  <2>2. QED
    BY <1>1, <2>1, FlagNext DEF D!Flag
<1>5. ASSUME NEW f \in 0 .. 1
      PROVE  /\ OfFlag(s, f) \in Int /\ OfFlag(0, f) = 0
             /\ OfFlag(s + 1, f) = OfFlag(s, f) + (IF f = s % 2 THEN 1 ELSE 0)
  BY <1>1, FlagNext
<1>6. sets' \in [D!Cores -> [0 .. 1 -> Int]]
  BY <1>3, <1>4 DEF BarrierCounts
<1>7. ASSUME NEW d \in D!Cores, NEW f \in 0 .. 1 PROVE sets'[d][f] = OfFlag(Signalled(d)', f)
  <2>1. sets[d][f] = OfFlag(Signalled(d), f) /\ sets \in [D!Cores -> [0 .. 1 -> Int]]
    BY DEF BarrierCounts
  <2>2. CASE d # c
    <3>1. Signalled(d)' = Signalled(d)
      BY <1>2, <2>2 DEF Signalled
    <3>2. sets'[d] = sets[d]
      BY <1>3, <2>1, <2>2
    <3>3. QED
      BY <2>1, <3>1, <3>2
  <2>3. CASE d = c
    <3>1. Signalled(c) = s /\ Signalled(c)' = s + 1
      BY <1>1, <1>2 DEF Signalled
    <3>2. sets'[c][f] = sets[c][f] + (IF f = s % 2 THEN 1 ELSE 0)
      BY <1>3, <1>4, <2>1
    <3>3. QED
      BY <1>5, <2>1, <2>3, <3>1, <3>2
  <2>4. QED
    BY <2>2, <2>3
<1>8. waits' \in [D!Cores -> [0 .. 1 -> Int]] /\ \A d \in D!Cores : d # c => waits'[d] = waits[d]
  <2>1. CASE s > 0
    <3>1. PICK w : w = D!Flag(s + 1) /\ waits' = [waits EXCEPT ![c][w] = @ + 1]
      BY <1>1, <2>1 DEF D!Round, D!WaitRound
    <3>2. w \in 0 .. 1
      <4>1. s + 1 \in Nat /\ 0 \in 0 .. 1
        BY <1>1
      <4>2. QED
        BY <3>1, <4>1, FlagNext DEF D!Flag
    <3>3. waits \in [D!Cores -> [0 .. 1 -> Int]]
      BY DEF BarrierCounts
    <3>4. QED
      BY <3>1, <3>2, <3>3
  <2>2. CASE ~(s > 0)
    BY <1>1, <2>2 DEF D!Round, BarrierCounts
  <2>3. QED
    BY <2>1, <2>2
<1>9. ASSUME NEW f \in 0 .. 1 PROVE waits'[c][f] = OfFlag(s, f)
  <2>1. waits[c][f] = OfFlag(IF s = 0 THEN 0 ELSE s - 1, f) /\ waits \in [D!Cores -> [0 .. 1 -> Int]]
    BY <1>1 DEF BarrierCounts
  <2>2. CASE s = 0
    <3>1. waits' = waits
      BY <1>1, <2>2 DEF D!Round
    <3>2. QED
      BY <2>1, <2>2, <3>1
  <2>3. CASE s # 0
    <3>1. PICK m \in Nat : m = s - 1 /\ s = m + 1 /\ s + 1 = m + 2
      BY <1>1, <2>3
    <3>2. waits' = [waits EXCEPT ![c][D!Flag(s + 1)] = @ + 1]
      BY <1>1, <2>3 DEF D!Round, D!WaitRound
    <3>3. (m + 2) % 2 = m % 2 /\ m % 2 \in 0 .. 1
      <4>1. 0 \in 0 .. 1
        OBVIOUS
      <4>2. QED
        BY <4>1, FlagNext
    <3>4. D!Flag(s + 1) = m % 2
      BY <3>1, <3>3 DEF D!Flag
    <3>5. waits'[c][f] = waits[c][f] + (IF f = m % 2 THEN 1 ELSE 0)
      BY <2>1, <3>2, <3>3, <3>4
    <3>6. OfFlag(m + 1, f) = OfFlag(m, f) + (IF f = m % 2 THEN 1 ELSE 0)
      BY FlagNext
    <3>7. QED
      BY <2>1, <2>3, <3>1, <3>5, <3>6
  <2>4. QED
    BY <2>2, <2>3
<1>10. ASSUME NEW d \in D!Cores, NEW f \in 0 .. 1, step'[d] <= T
       PROVE  waits'[d][f] = OfFlag(IF step'[d] = 0 THEN 0 ELSE step'[d] - 1, f)
  <2>1. CASE d # c
    BY <1>2, <1>8, <1>10, <2>1 DEF BarrierCounts
  <2>2. CASE d = c
    <3>1. step'[c] # 0 /\ step'[c] - 1 = s
      BY <1>1, <1>2
    <3>2. QED
      BY <1>9, <2>2, <3>1
  <2>3. QED
    BY <2>1, <2>2
<1>11. QED
  BY <1>1, <1>2, <1>6, <1>7, <1>8, <1>10 DEF BarrierCounts

LEMMA DrainCounts ==
  ASSUME RoundsTyped, BarrierCounts, NEW c \in D!Cores, D!Drain(c)
  PROVE  BarrierCounts' /\ Forward(c, step[c])
<1>1. PICK s : s = step[c] /\ s = T /\ Forward(c, s) /\ s \in Nat /\ T \in Nat
  <2>1. T \in Nat /\ D!totalRounds = T /\ step[c] \in Nat
    BY RoundsFacts
  <2>2. /\ step[c] = D!totalRounds /\ step' = [step EXCEPT ![c] = step[c] + 1]
        /\ UNCHANGED <<launch, plan, schedule>>
    BY DEF D!Drain
  <2>3. step[c] = T /\ step[c] <= T
    BY <2>1, <2>2
  <2>4. QED
    BY <2>1, <2>2, <2>3 DEF Forward
<1>2. /\ D!Cores' = D!Cores /\ T' = T /\ step'[c] = T + 1 /\ sets' = sets
      /\ \A d \in D!Cores : d # c => step'[d] = step[d]
  BY <1>1, ForwardFacts DEF D!Drain
<1>3. ASSUME NEW d \in D!Cores PROVE Signalled(d)' = Signalled(d)
  <2>1. CASE d = c
    <3>1. Signalled(c) = T
      BY <1>1 DEF Signalled
    <3>2. ~(step'[c] <= T')
      BY <1>1, <1>2
    <3>3. Signalled(c)' = T'
      BY <3>2 DEF Signalled
    <3>4. QED
      BY <1>2, <2>1, <3>1, <3>3
  <2>2. CASE d # c
    BY <1>2, <2>2 DEF Signalled
  <2>3. QED
    BY <2>1, <2>2
<1>4. waits' \in [D!Cores -> [0 .. 1 -> Int]] /\ \A d \in D!Cores : d # c => waits'[d] = waits[d]
  <2>1. CASE D!Pending(c, s) # D!Hole
    <3>1. PICK w : w = D!Flag(s + 1) /\ waits' = [waits EXCEPT ![c][w] = @ + 1]
      BY <1>1, <2>1 DEF D!Drain, D!WaitRound
    <3>2. w \in 0 .. 1
      <4>1. s + 1 \in Nat /\ 0 \in 0 .. 1
        BY <1>1
      <4>2. QED
        BY <3>1, <4>1, FlagNext DEF D!Flag
    <3>3. waits \in [D!Cores -> [0 .. 1 -> Int]]
      BY DEF BarrierCounts
    <3>4. QED
      BY <3>1, <3>2, <3>3
  <2>2. CASE D!Pending(c, s) = D!Hole
    BY <1>1, <2>2 DEF D!Drain, BarrierCounts
  <2>3. QED
    BY <2>1, <2>2
<1>5. \A d \in D!Cores, f \in 0 .. 1 : sets'[d][f] = OfFlag(Signalled(d)', f)
  BY <1>2, <1>3 DEF BarrierCounts
<1>6. ASSUME NEW d \in D!Cores, NEW f \in 0 .. 1, step'[d] <= T
      PROVE  waits'[d][f] = OfFlag(IF step'[d] = 0 THEN 0 ELSE step'[d] - 1, f)
  <2>1. d # c
    BY <1>1, <1>2, <1>6
  <2>2. QED
    BY <1>2, <1>4, <1>6, <2>1 DEF BarrierCounts
<1>7. QED
  BY <1>1, <1>2, <1>4, <1>5, <1>6 DEF BarrierCounts

-----------------------------------------------------------------------------
(* The rounds of the matrix engine.                                        *)
LEMMA RoundKeeps ==
  ASSUME RoundsInv, NEW c \in D!Cores, D!Round(c)
  PROVE  RoundsInv'
<1>1. PICK s : s = step[c] /\ Forward(c, s) /\ s < T /\ s \in Nat /\ T \in Nat
  <2>1. T \in Nat /\ D!totalRounds = T /\ step[c] \in Nat
    BY RoundsFacts DEF RoundsInv
  <2>2. QED
    BY <2>1, RoundCounts DEF D!Round, RoundsInv
<1>2. RoundsTyped' /\ BarrierCounts' /\ D!Cores' = D!Cores /\ D!Buffers' = D!Buffers
  BY <1>1, ForwardFacts, RoundCounts, SameTasks DEF Forward, RoundsInv
<1>3. QueriesAdded' /\ ColumnsAdded' /\ BuffersAdded'
  <2>1. CASE D!Pending(c, s) # D!Hole
    <3>1. PICK colEnd : D!BackEnd(c, s, colEnd)
      BY <1>1, <2>1 DEF D!Round
    <3>2. s > 0
      <4>1. D!Pending(c, s) = IF s \in 1 .. T THEN schedule[c][s - 1] ELSE D!Hole
        BY <1>1, RoundsFacts DEF RoundsInv
      <4>2. QED
        BY <1>1, <2>1, <4>1
    <3>3. D!WaitRound(c, s)
      BY <1>1, <3>2 DEF D!Round
    <3>4. QED
      BY <1>1, <2>1, <3>1, <3>3, BackEndKeeps
  <2>2. CASE D!Pending(c, s) = D!Hole
    <3>1. UNCHANGED <<dq, out, buf>>
      BY <1>1, <2>2 DEF D!Round
    <3>2. QED
      BY <1>1, <3>1, OutputsKept
  <2>3. QED
    BY <2>1, <2>2
<1>4. StoresOwn'
  BY <1>2 DEF StoresOwn, RoundsInv, D!Round
<1>5. QED
  BY <1>2, <1>3, <1>4 DEF RoundsInv

LEMMA DrainKeeps ==
  ASSUME RoundsInv, NEW c \in D!Cores, D!Drain(c)
  PROVE  RoundsInv'
<1>1. PICK s : s = step[c] /\ Forward(c, s)
  BY DrainCounts DEF RoundsInv
<1>2. RoundsTyped' /\ BarrierCounts' /\ D!Cores' = D!Cores /\ D!Buffers' = D!Buffers
  BY <1>1, ForwardFacts, DrainCounts, SameTasks DEF Forward, RoundsInv
<1>3. QueriesAdded' /\ ColumnsAdded' /\ BuffersAdded'
  <2>1. CASE D!Pending(c, s) # D!Hole
    <3>1. D!WaitRound(c, s) /\ D!BackEnd(c, s, TRUE)
      BY <1>1, <2>1 DEF D!Drain
    <3>2. QED
      BY <1>1, <2>1, <3>1, BackEndKeeps
  <2>2. CASE D!Pending(c, s) = D!Hole
    <3>1. UNCHANGED <<dq, out, buf>>
      BY <1>1, <2>2 DEF D!Drain
    <3>2. QED
      BY <1>1, <3>1, OutputsKept
  <2>3. QED
    BY <2>1, <2>2
<1>4. StoresOwn'
  BY <1>2 DEF StoresOwn, RoundsInv, D!Drain
<1>5. QED
  BY <1>2, <1>3, <1>4 DEF RoundsInv

-----------------------------------------------------------------------------
(* The vector engine.                                                      *)
LEMMA SameRounds ==
  ASSUME RoundsInv, UNCHANGED <<launch, plan, schedule, step>>
  PROVE  /\ UNCHANGED <<sets, waits>> => RoundsTyped' /\ BarrierCounts'
         /\ UNCHANGED dq => QueriesAdded'
         /\ UNCHANGED out => ColumnsAdded'
         /\ UNCHANGED buf => BuffersAdded'
<1>1. /\ D!Cores' = D!Cores /\ T' = T /\ Shares' = Shares
      /\ D!ColumnsOf' = D!ColumnsOf /\ D!Buffers' = D!Buffers
      /\ \A row : RowTasks(row)' = RowTasks(row)
      /\ \A column : ColumnTasks(column)' = ColumnTasks(column)
  BY SameTasks DEF D!Cores, T
<1>2. ASSUME UNCHANGED <<sets, waits>> PROVE RoundsTyped' /\ BarrierCounts'
  <2>1. RoundsTyped'
    BY <1>1 DEF RoundsInv, RoundsTyped
  <2>2. \A c \in D!Cores : Signalled(c)' = Signalled(c)
    BY <1>1 DEF Signalled
  <2>3. BarrierCounts'
    BY <1>1, <1>2, <2>2 DEF RoundsInv, BarrierCounts
  <2>4. QED
    BY <2>1, <2>3
<1>3. ASSUME NEW q, NEW tasks PROVE SharesOf(q, tasks, step) <=> SharesOf(q, tasks, step)'
  BY <1>1 DEF SharesOf
<1>4. ASSUME UNCHANGED dq PROVE QueriesAdded'
  <2>1. SUFFICES ASSUME NEW row \in DOMAIN dq' PROVE SharesOf(dq[row], RowTasks(row), step)'
    BY DEF QueriesAdded
  <2>2. SharesOf(dq[row], RowTasks(row), step)
    BY <1>4, <2>1 DEF RoundsInv, QueriesAdded
  <2>3. QED
    BY <1>1, <1>4, <2>2 DEF SharesOf
<1>5. ASSUME UNCHANGED out PROVE ColumnsAdded'
  <2>1. plan' = plan /\ DOMAIN out' = D!Grads /\ \A g \in D!Grads : DOMAIN out'[g] = D!ColumnsOf'
    BY <1>1, <1>5 DEF RoundsInv, ColumnsAdded
  <2>2. SUFFICES ASSUME NEW g \in D!Grads, NEW column \in D!ColumnsOf'
                 PROVE  IF plan'.privDkv THEN out'[g][column] = Unset \/ D!InRounds(out'[g][column])
                        ELSE SharesOf(out[g][column], ColumnTasks(column), step)'
    BY <2>1 DEF ColumnsAdded
  <2>3. IF plan.privDkv THEN out[g][column] = Unset \/ D!InRounds(out[g][column])
        ELSE SharesOf(out[g][column], ColumnTasks(column), step)
    BY <1>1, <2>2 DEF RoundsInv, ColumnsAdded
  <2>4. ~plan.privDkv => SharesOf(out[g][column], ColumnTasks(column), step)'
    BY <1>1, <1>5, <2>3 DEF SharesOf
  <2>5. QED
    BY <1>5, <2>1, <2>3, <2>4
<1>6. ASSUME UNCHANGED buf PROVE BuffersAdded'
  <2>1. \A d \in D!Cores : \A g \in D!Grads : \A b \in D!Buffers : OwnShares(buf[d][g][b], step[d])'
    BY <1>1, <1>6 DEF RoundsInv, BuffersAdded, OwnShares
  <2>2. QED
    BY <1>1, <1>6, <2>1 DEF RoundsInv, BuffersAdded
<1>7. QED
  BY <1>2, <1>4, <1>5, <1>6

LEMMA ParityFits ==
  ASSUME RoundsTyped, NEW c \in D!Cores, NEW s, D!Pending(c, s) # D!Hole
  PROVE  D!Pending(c, s).parity \in D!Buffers
<1>1. T \in Nat
  BY RoundsFacts
<1>2. PICK r \in 0 .. T - 1 : D!Pending(c, s) = schedule[c][r]
  BY DEF D!Pending, D!Task, D!totalRounds, T
<1>3. PICK k : k = r + 1 /\ D!Pending(c, s) = D!DecodeBlock(launch, plan, c, k)
  BY <1>2 DEF RoundsTyped
<1>4. plan = D!Plan(launch)
  BY DEF RoundsTyped
<1>5. CASE launch.layout = "TND"
  <2>1. plan.bufNum = 1
    BY <1>4, <1>5 DEF D!Plan, D!TndPlan
  <2>2. D!Pending(c, s) = D!TndDecode(launch, plan, c, k)
    BY <1>3, <1>5 DEF D!DecodeBlock
  <2>3. D!Pending(c, s).parity = 0
    <3>1. PICK t, fold :
            D!Pending(c, s) = IF t = D!Hole THEN D!Hole ELSE [tile |-> t, parity |-> 0, fold |-> fold]
      BY <2>2 DEF D!TndDecode
    <3>2. QED
      BY <3>1
  <2>4. QED
    BY <2>1, <2>3 DEF D!Buffers
<1>6. CASE launch.layout # "TND"
  <2>1. plan.bufNum = 1 \/ plan.bufNum = 2
    BY <1>4, <1>6 DEF D!Plan, D!FixedPlan
  <2>2. D!Pending(c, s) = D!Decode(launch, plan, c, k)
    BY <1>3, <1>6 DEF D!DecodeBlock
  <2>3. D!Pending(c, s).parity \in 0 .. plan.bufNum - 1
    <3>1. PICK p \in 0 .. 1 : D!Pending(c, s).parity = IF plan.bufNum = 2 THEN p ELSE 0
      BY <2>2 DEF D!Decode, D!parity
    <3>2. QED
      BY <2>1, <3>1
  <2>4. QED
    BY <2>3 DEF D!Buffers
<1>7. QED
  BY <1>5, <1>6

LEMMA FeedKeeps ==
  ASSUME RoundsInv, NEW c \in D!Cores, D!Feed(c)
  PROVE  RoundsInv'
<1>1. UNCHANGED <<launch, plan, schedule, step, sets, waits, dq, out, buf>>
  BY DEF D!Feed
<1>2. RoundsTyped' /\ BarrierCounts' /\ QueriesAdded' /\ ColumnsAdded' /\ BuffersAdded'
  BY <1>1, SameRounds
<1>3. D!Cores' = D!Cores /\ D!Buffers' = D!Buffers
  BY <1>1 DEF D!Cores, D!Buffers
<1>4. PICK s \in Nat : s = vec[c].step
  BY DEF RoundsInv, StoresOwn
<1>5. hasData' \in [D!Cores -> SUBSET D!Buffers]
  <2>1. CASE D!Pending(c, s) # D!Hole
    <3>1. PICK p \in D!Buffers : p = D!Pending(c, s).parity
      BY <2>1, ParityFits DEF RoundsInv
    <3>2. hasData' = [hasData EXCEPT ![c] = @ \cup {p}]
      BY <1>4, <2>1, <3>1 DEF D!Feed
    <3>3. QED
      BY <3>1, <3>2 DEF RoundsInv, StoresOwn
  <2>2. CASE D!Pending(c, s) = D!Hole
    <3>1. hasData' = hasData
      BY <1>4, <2>2 DEF D!Feed
    <3>2. QED
      BY <3>1 DEF RoundsInv, StoresOwn
  <2>3. QED
    BY <2>1, <2>2
<1>6. PICK e : /\ vec' = [vec EXCEPT ![c] = e] /\ e \in [step : Nat, at : D!Grads \cup {"feed"}]
               /\ e.at \in D!Grads => plan.privDkv
  <2>1. [step |-> s, at |-> "dk"].at = "dk" /\ [step |-> s + 1, at |-> "feed"].at \notin D!Grads
    BY DEF D!Grads
  <2>2. \/ vec' = [vec EXCEPT ![c] = [step |-> s, at |-> "dk"]] /\ plan.privDkv
        \/ vec' = [vec EXCEPT ![c] = [step |-> s + 1, at |-> "feed"]]
    BY <1>4 DEF D!Feed
  <2>3. /\ [step |-> s, at |-> "dk"] \in [step : Nat, at : D!Grads \cup {"feed"}]
        /\ [step |-> s + 1, at |-> "feed"] \in [step : Nat, at : D!Grads \cup {"feed"}]
    BY <1>4 DEF D!Grads
  <2>4. QED
    BY <2>1, <2>2, <2>3
<1>7. StoresOwn'
  BY <1>1, <1>3, <1>5, <1>6 DEF RoundsInv, StoresOwn
<1>8. QED
  BY <1>2, <1>7 DEF RoundsInv

LEMMA StoreKeeps ==
  ASSUME RoundsInv, NEW c \in D!Cores, D!ProcessDkvCastStage(c)
  PROVE  RoundsInv'
<1>1. UNCHANGED <<launch, plan, schedule, step, sets, waits, dq, buf>>
  BY DEF D!ProcessDkvCastStage
<1>2. RoundsTyped' /\ BarrierCounts' /\ QueriesAdded' /\ BuffersAdded'
  BY <1>1, SameRounds
<1>3. D!Cores' = D!Cores /\ D!Buffers' = D!Buffers /\ D!ColumnsOf' = D!ColumnsOf
  BY <1>1, SameTasks DEF D!Cores
<1>4. PICK g \in D!Grads, s \in Nat : g = vec[c].at /\ s = vec[c].step
  BY DEF D!ProcessDkvCastStage, RoundsInv, StoresOwn
<1>5. plan.privDkv /\ plan'.privDkv
  BY <1>1, <1>4 DEF RoundsInv, StoresOwn
<1>6. ColumnsAdded'
  <2> DEFINE grad == vec[c].at
             fold == D!Pending(c, vec[c].step).fold
             stored == {p \in hasData[c] : fold[p] # D!Hole}
             found(column) == \E p \in stored : D!KvColumn(fold[p]) = column
             chosen(column) == CHOOSE p \in stored : D!KvColumn(fold[p]) = column
             new == [column \in D!ColumnsOf |->
                       IF found(column) THEN buf[c][grad][chosen(column)] ELSE out[grad][column]]
  <2>1. out' = [out EXCEPT ![grad] = new]
    BY DEF D!ProcessDkvCastStage
  <2>2. ASSUME NEW column \in D!ColumnsOf PROVE new[column] = Unset \/ D!InRounds(new[column])
    <3>1. CASE found(column)
      <4>1. chosen(column) \in stored
        BY <3>1
      <4>2. chosen(column) \in D!Buffers
        BY <4>1 DEF RoundsInv, StoresOwn
      <4>3. PICK p \in D!Buffers : new[column] = buf[c][g][p]
        BY <1>4, <3>1, <4>2
      <4>4. QED
        BY <4>3 DEF RoundsInv, BuffersAdded, OwnShares
    <3>2. CASE ~found(column)
      <4>1. new[column] = out[g][column]
        BY <1>4, <3>2
      <4>2. QED
        BY <1>5, <4>1 DEF RoundsInv, ColumnsAdded
    <3>3. QED
      BY <3>1, <3>2
  <2>3. DOMAIN out = D!Grads /\ DOMAIN new = D!ColumnsOf
    BY DEF RoundsInv, ColumnsAdded
  <2> HIDE DEF new
  <2>4. /\ DOMAIN out' = D!Grads /\ out'[g] = new
        /\ \A h \in D!Grads : h # g => out'[h] = out[h]
    BY <1>4, <2>1, <2>3
  <2>5. \A h \in D!Grads : DOMAIN out'[h] = D!ColumnsOf
    BY <2>3, <2>4 DEF RoundsInv, ColumnsAdded
  <2>6. \A h \in D!Grads : \A column \in D!ColumnsOf : out'[h][column] = Unset \/ D!InRounds(out'[h][column])
    BY <1>5, <2>2, <2>4 DEF RoundsInv, ColumnsAdded
  <2>7. QED
    BY <1>3, <1>5, <2>4, <2>5, <2>6 DEF ColumnsAdded
<1>7. hasData' \in [D!Cores -> SUBSET D!Buffers]
  <2>1. hasData' = hasData \/ hasData' = [hasData EXCEPT ![c] = {}]
    BY DEF D!ProcessDkvCastStage
  <2>2. QED
    BY <2>1 DEF RoundsInv, StoresOwn
<1>8. PICK e : vec' = [vec EXCEPT ![c] = e] /\ e \in [step : Nat, at : D!Grads \cup {"feed"}]
  <2>1. \/ vec' = [vec EXCEPT ![c].at = "dv"]
        \/ vec' = [vec EXCEPT ![c] = [step |-> s + 1, at |-> "feed"]]
    BY <1>4 DEF D!ProcessDkvCastStage
  <2>2. [step |-> s + 1, at |-> "feed"] \in [step : Nat, at : D!Grads \cup {"feed"}]
    BY <1>4
  <2>3. [vec[c] EXCEPT !.at = "dv"] \in [step : Nat, at : D!Grads \cup {"feed"}]
    BY DEF RoundsInv, StoresOwn, D!Grads
  <2>4. QED
    BY <2>1, <2>2, <2>3
<1>9. StoresOwn'
  BY <1>1, <1>3, <1>5, <1>7, <1>8 DEF RoundsInv, StoresOwn
<1>10. QED
  BY <1>2, <1>6, <1>9 DEF RoundsInv

-----------------------------------------------------------------------------
LEMMA RoundsBegin ==
  ASSUME D!Init
  PROVE  RoundsInv
<1>1. launch \in Launches /\ plan = D!Plan(launch) /\ D!totalRounds = T /\ T \in Nat
  BY SchedulesAssumption DEF D!Init, D!RoundsAssumption, D!totalRounds, T
<1>2. RoundsTyped
  <2>1. step = [c \in D!Cores |-> 0] /\ 0 <= T + 1
    BY <1>1 DEF D!Init
  <2>2. QED
    BY <1>1, <2>1 DEF D!Init, RoundsTyped
<1>3. BarrierCounts
  <2>1. \A f \in 0 .. 1 : OfFlag(0, f) = 0
    <3>1. 0 \in Nat
      OBVIOUS
    <3>2. QED
      BY <3>1, FlagNext
  <2>2. \A c \in D!Cores : step[c] = 0 /\ Signalled(c) = 0
    BY <1>1 DEF D!Init, Signalled
  <2>3. sets = [c \in D!Cores |-> [f \in 0 .. 1 |-> 0]] /\ waits = sets
    BY DEF D!Init
  <2>4. QED
    BY <2>1, <2>2, <2>3 DEF BarrierCounts
<1>4. ASSUME NEW tasks PROVE SharesOf(<<>>, tasks, step) /\ D!InRounds(<<>>)
  BY DEF SharesOf, D!InRounds
<1>5. QueriesAdded
  BY <1>4 DEF D!Init, QueriesAdded
<1>6. ColumnsAdded
  <2>1. \A g \in D!Grads : \A column \in D!ColumnsOf :
          out[g][column] = IF plan.privDkv /\ ~D!hasEmptyKvColumns THEN Unset ELSE <<>>
    BY DEF D!Init
  <2>2. DOMAIN out = D!Grads /\ \A g \in D!Grads : DOMAIN out[g] = D!ColumnsOf
    BY DEF D!Init
  <2>3. QED
    BY <1>4, <2>1, <2>2 DEF ColumnsAdded
<1>7. BuffersAdded
  <2>1. \A c \in D!Cores : OwnShares(<<>>, step[c])
    BY DEF OwnShares, D!InRounds
  <2>2. /\ DOMAIN buf = D!Cores
        /\ \A c \in D!Cores : DOMAIN buf[c] = D!Grads /\ \A g \in D!Grads : DOMAIN buf[c][g] = D!Buffers
        /\ \A c \in D!Cores : \A g \in D!Grads : \A p \in D!Buffers : buf[c][g][p] = <<>>
    BY DEF D!Init
  <2>3. QED
    BY <2>1, <2>2 DEF BuffersAdded
<1>8. StoresOwn
  <2>1. [step |-> 1, at |-> "feed"] \in [step : Nat, at : D!Grads \cup {"feed"}] /\ "feed" \notin D!Grads
    BY DEF D!Grads
  <2>2. QED
    BY <2>1 DEF D!Init, StoresOwn
<1>9. QED
  BY <1>2, <1>3, <1>5, <1>6, <1>7, <1>8 DEF RoundsInv

LEMMA RoundsStay ==
  ASSUME RoundsInv, UNCHANGED roundVars
  PROVE  RoundsInv'
<1>1. RoundsTyped' /\ BarrierCounts' /\ QueriesAdded' /\ ColumnsAdded' /\ BuffersAdded'
  BY SameRounds DEF roundVars
<1>2. StoresOwn'
  BY DEF RoundsInv, StoresOwn, roundVars, D!Cores, D!Buffers
<1>3. QED
  BY <1>1, <1>2 DEF RoundsInv

(* In the deterministic backward pass of the 950, whatever the cores'     *)
(* speeds, the shares of every row of dq and of every column of dk and dv  *)
(* are added in the order of their rounds: fag_kernel.cpp's barrier, with  *)
(* its two flags in turn, lets no core begin a round before all have ended *)
(* the one before, and a schedule fit for it has no two cores meet in one. *)
THEOREM SharesAddedByRounds == Spec => []AddedByRounds
<1> DEFINE Inv == part = "rounds" => RoundsInv
<1>1. Init => Inv
  BY RoundsBegin DEF Init
<1>2. Inv /\ [Next]_vars => Inv'
  <2>1. SUFFICES ASSUME Inv, [Next]_vars, part' = "rounds" PROVE RoundsInv'
    OBVIOUS
  <2>2. CASE UNCHANGED vars
    BY <2>1, <2>2, RoundsStay DEF vars
  <2>3. CASE Next
    <3>1. part = "rounds" /\ D!Next /\ RoundsInv
      BY <2>1, <2>3 DEF Next, Decode
    <3>2. ASSUME NEW c \in D!Cores, D!Round(c) \/ D!Drain(c) \/ D!Feed(c) \/ D!ProcessDkvCastStage(c)
          PROVE  RoundsInv'
      BY <3>1, <3>2, RoundKeeps, DrainKeeps, FeedKeeps, StoreKeeps
    <3>3. CASE D!Done
      <4>1. UNCHANGED roundVars
        BY <3>3 DEF D!Done, D!vars, roundVars
      <4>2. QED
        BY <3>1, <4>1, RoundsStay
    <3>4. QED
      BY <3>1, <3>2, <3>3 DEF D!Next
  <2>4. QED
    BY <2>1, <2>2, <2>3
<1>3. Inv => AddedByRounds
  <2>1. SUFFICES ASSUME Inv, part = "rounds" PROVE D!AddedByRounds
    BY DEF AddedByRounds
  <2>2. \A row \in DOMAIN dq : D!InRounds(dq[row])
    BY <2>1 DEF RoundsInv, QueriesAdded, SharesOf
  <2>3. \A g \in D!Grads : \A column \in DOMAIN out[g] : out[g][column] = Unset \/ D!InRounds(out[g][column])
    BY <2>1 DEF RoundsInv, ColumnsAdded, SharesOf
  <2>4. QED
    BY <2>2, <2>3 DEF D!AddedByRounds
<1>4. QED
  BY <1>1, <1>2, <1>3, PTL DEF Spec
=============================================================================
