----------------------------- MODULE DetRounds -----------------------------
(***************************************************************************)
(* The deterministic backward pass of the 950 (RunTasksBn2s2 of            *)
(* src/csrc/ascend950/flash_attn_npu_3/fag_kernel.cpp), run on the         *)
(* schedule of DetSchedule.                                                *)
(*                                                                         *)
(* Every core goes through the same rounds.  In a round its matrix engine  *)
(* begins the tile of that round and ends the tile of the round before:    *)
(* it adds that tile's share of dq, dk and dv to them.  All cores meet at  *)
(* a barrier after each round, so that the shares of a round are added     *)
(* before those of the next: the order of the additions, and so their      *)
(* rounding, is always the same.  dk and dv gather in buffers of the core, *)
(* if no other core works on their column, and its vector engine stores    *)
(* them when the column is complete.                                       *)
(*                                                                         *)
(* A round of the matrix engine is one step: within it a core waits once   *)
(* for the others and signals them once, at its end, and its buffers are   *)
(* its own until it publishes them.  The products and the softmax between  *)
(* them are left out, but for the order they put the two engines in.       *)
(***************************************************************************)
EXTENDS DetSchedule, FiniteSets

CONSTANTS Launches,   \* launches to run
          Unset       \* what a row of an output holds before it is stored

VARIABLES
  launch,    \* the launch
  plan,      \* the kind of schedule the host chose for it, with its numbers
  schedule,  \* of each core: the task of each round, or Hole
  step,      \* of each core: the round its matrix engine is in
  sets,      \* of each core and flag: how often it signalled a round,
  waits,     \*   and how often it was let through
  vec,       \* of each core: the round its vector engine is in, and at what
  published, \* of each core, dk and dv: columns the vector engine may store,
  freed,     \*   and columns stored, not yet noticed by the other
  open,      \* of each core, dk and dv: buffers in use
  started,   \*   and whether it ever was in use
  buf,       \* of each core, dk and dv, buffer: the shares in it
  hasData,   \* of each core: the buffers its vector engine has seen used
  dq,        \* of each tile of queries: the shares added, in order
  out        \* of dk and dv, each column: the shares it was made of
vars == <<launch, plan, schedule, step, sets, waits, vec, published, freed, open, started, buf, hasData, dq, out>>

Grads == {"dk", "dv"}
Cores == 1 .. plan.cores
totalRounds == plan.maxRound
Flag(s) == s % 2
Buffers == 0 .. plan.bufNum - 1

(* The task of core c in round s, counted from 0, if any. *)
Task(c, s) == IF s \in 0 .. totalRounds - 1 THEN schedule[c][s] ELSE Hole
Pending(c, s) == Task(c, s - 1)

(* Is the task of round s the last of its column?  With two columns in     *)
(* turn, a core has them for a fixed number of rounds.                     *)
Later(c, s) == {t \in s + 1 .. totalRounds - 1 : Task(c, t) # Hole}
NextTask(c, s) == CHOOSE t \in Later(c, s) : \A u \in Later(c, s) : t <= u
SlipIsColumnEnd(c, s) == Later(c, s) = {}
IsColumnEnd(c, s) ==
  \/ Later(c, s) = {}
  \/ IF plan.bufNum > 1 THEN NextTask(c, s) \div plan.columnRounds # s \div plan.columnRounds
     ELSE Column(Task(c, NextTask(c, s)).tile) # Column(Task(c, s).tile)

(* Cells: a tile of queries of a head, a column of keys of a K/V head. *)
Rows == {<<i, h, g, s1>> :
           i \in 1 .. batch(launch), h \in 0 .. launch.heads - 1, g \in 0 .. launch.group - 1,
           s1 \in 0 .. Largest([j \in DOMAIN launch.q |-> TndBatchOuterQ(launch, j)]) - 1}
RowsOf == {row \in Rows : row[4] < TndBatchOuterQ(launch, row[1])}
Columns == {<<i, h, s2>> :
              i \in 1 .. batch(launch), h \in 0 .. launch.heads - 1,
              s2 \in 0 .. Largest([j \in DOMAIN launch.q |-> TndBatchOuterK(launch, j)]) - 1}
ColumnsOf == {column \in Columns : column[3] < TndBatchOuterK(launch, column[1])}
Row(tile) == <<tile[1], tile[2], tile[3], tile[4]>>
KvColumn(column) == <<column[1], column[2], column[4]>>

(* A schedule fit for the barrier: in a round no two cores add to the same *)
(* row of dq, nor, where they share them, to the same column of dk and dv. *)
MeetsNobody(x) ==
  LET p == Plan(x)
  IN \A c, d \in 1 .. p.cores, s \in 1 .. p.maxRound :
       LET t == DecodeBlock(x, p, c, s)
           u == DecodeBlock(x, p, d, s)
       IN c # d /\ t # Hole /\ u # Hole =>
            /\ Row(t.tile) # Row(u.tile)
            /\ p.privDkv \/ KvColumn(Column(t.tile)) # KvColumn(Column(u.tile))
RoundsAssumption == \A x \in Launches : Plan(x).maxRound \in Nat /\ MeetsNobody(x)

(* The host clears dk and dv if the window leaves out the first columns.   *)
hasEmptyKvColumns == /\ launch.mask = "band" /\ launch.left >= 0
                     /\ \E i \in DOMAIN launch.q : launch.kv[i] - launch.q[i] > launch.left

Init ==
  /\ launch \in Launches
  /\ plan = Plan(launch)
  /\ schedule = [c \in Cores |-> [s \in 0 .. totalRounds - 1 |-> DecodeBlock(launch, plan, c, s + 1)]]
  /\ step = [c \in Cores |-> 0]
  /\ sets = [c \in Cores |-> [f \in 0 .. 1 |-> 0]] /\ waits = sets
  /\ vec = [c \in Cores |-> [step |-> 1, at |-> "feed"]]
  /\ published = [c \in Cores |-> [g \in Grads |-> 0]] /\ freed = published
  /\ open = [c \in Cores |-> [g \in Grads |-> {}]]
  /\ started = [c \in Cores |-> [g \in Grads |-> FALSE]]
  /\ buf = [c \in Cores |-> [g \in Grads |-> [p \in Buffers |-> << >>]]]
  /\ hasData = [c \in Cores |-> {}]
  /\ dq = [row \in RowsOf |-> << >>]
  /\ out = [g \in Grads |-> [column \in ColumnsOf |->
              IF plan.privDkv /\ ~hasEmptyKvColumns THEN Unset ELSE << >>]]

-----------------------------------------------------------------------------
(* The barrier: let through once all cores have signalled. *)
SlipWaitRound(c, s) == waits' = waits
WaitRound(c, s) ==
  /\ \A d \in Cores : sets[d][Flag(s + 1)] > waits[c][Flag(s + 1)]
  /\ waits' = [waits EXCEPT ![c][Flag(s + 1)] = @ + 1]

Share(s, tile) == [round |-> s, tile |-> tile]

(* A buffer is overwritten by the first share of a column, once the column *)
(* before is stored, and added to by the others.                           *)
SlipReady(c, g) == TRUE
Ready(c, g) == open[c][g] = {} /\ started[c][g] => freed[c][g] > 0
Gather(c, task, s, colEnd) ==
  LET p == task.parity
      share == Share(s - 1, task.tile)
  IN /\ \A g \in Grads : Ready(c, g)
     /\ buf' = [buf EXCEPT ![c] = [g \in Grads |-> [buf[c][g] EXCEPT ![p] =
                  IF p \in open[c][g] THEN Append(@, share) ELSE <<share>>]]]
     /\ freed' = [freed EXCEPT ![c] = [g \in Grads |->
                    IF open[c][g] = {} /\ started[c][g] THEN @[g] - 1 ELSE @[g]]]
     /\ open' = [open EXCEPT ![c] = [g \in Grads |-> IF colEnd THEN {} ELSE @[g] \cup {p}]]
     /\ started' = [started EXCEPT ![c] = [g \in Grads |-> TRUE]]
     /\ published' = [published EXCEPT ![c] = [g \in Grads |-> @[g] + (IF colEnd THEN 1 ELSE 0)]]
     /\ out' = out
AddToAll(task, s) ==
  /\ out' = [g \in Grads |-> [out[g] EXCEPT ![KvColumn(Column(task.tile))] =
                                Append(@, Share(s - 1, task.tile))]]
  /\ UNCHANGED <<published, freed, open, started, buf>>

(* The back end of a tile, whose softmax the vector engine has done. *)
Fed(c, s) == vec[c].step > s \/ vec[c].at # "feed"
BackEnd(c, s, colEnd) ==
  LET task == Pending(c, s)
  IN /\ Fed(c, s)
     /\ dq' = [dq EXCEPT ![Row(task.tile)] = Append(@, Share(s - 1, task.tile))]
     /\ IF plan.privDkv THEN Gather(c, task, s, colEnd) ELSE AddToAll(task, s)

(* One wait per core and round, with or without a tile to end. *)
Round(c) ==
  LET s == step[c]
  IN /\ s < totalRounds
     /\ IF s > 0 THEN WaitRound(c, s) ELSE waits' = waits
     /\ IF Pending(c, s) # Hole THEN BackEnd(c, s, IsColumnEnd(c, s - 1))
        ELSE UNCHANGED <<published, freed, open, started, buf, dq, out>>
     /\ sets' = [sets EXCEPT ![c][Flag(s)] = @ + 1]
     /\ step' = [step EXCEPT ![c] = s + 1]
     /\ UNCHANGED <<launch, plan, schedule, vec, hasData>>

(* After the last round: the tile of that round, if there was one. *)
Drain(c) ==
  LET s == step[c]
  IN /\ s = totalRounds
     /\ IF Pending(c, s) # Hole THEN WaitRound(c, s) /\ BackEnd(c, s, TRUE)
        ELSE UNCHANGED <<waits, published, freed, open, started, buf, dq, out>>
     /\ step' = [step EXCEPT ![c] = s + 1]
     /\ UNCHANGED <<launch, plan, schedule, sets, vec, hasData>>

-----------------------------------------------------------------------------
(* The vector engine: the softmax of the tile the other engine began in    *)
(* the round before, then, at the end of a column, dk and dv.              *)
ColumnEnds(c, s) == s = totalRounds \/ IsColumnEnd(c, s - 1)
Feed(c) ==
  LET s == vec[c].step
      task == Pending(c, s)
      stores == task # Hole /\ plan.privDkv /\ ColumnEnds(c, s)
  IN /\ vec[c].at = "feed" /\ s <= totalRounds
     /\ task # Hole => step[c] >= s - 1
     /\ hasData' = IF task # Hole THEN [hasData EXCEPT ![c] = @ \cup {task.parity}] ELSE hasData
     /\ vec' = [vec EXCEPT ![c] = IF stores THEN [step |-> s, at |-> "dk"] ELSE [step |-> s + 1, at |-> "feed"]]
     /\ UNCHANGED <<launch, plan, schedule, step, sets, waits, published, freed, open, started, buf, dq, out>>

ProcessDkvCastStage(c) ==
  LET s == vec[c].step
      g == vec[c].at
      fold == Pending(c, s).fold
      stored == {p \in hasData[c] : fold[p] # Hole}
  IN /\ g \in Grads /\ published[c][g] > 0
     /\ published' = [published EXCEPT ![c][g] = @ - 1]
     /\ freed' = [freed EXCEPT ![c][g] = @ + 1]
     /\ out' = [out EXCEPT ![g] = [column \in ColumnsOf |->
                  IF \E p \in stored : KvColumn(fold[p]) = column
                  THEN buf[c][g][CHOOSE p \in stored : KvColumn(fold[p]) = column] ELSE @[column]]]
     /\ IF g = "dk" THEN vec' = [vec EXCEPT ![c].at = "dv"] /\ hasData' = hasData
        ELSE vec' = [vec EXCEPT ![c] = [step |-> s + 1, at |-> "feed"]] /\ hasData' = [hasData EXCEPT ![c] = {}]
     /\ UNCHANGED <<launch, plan, schedule, step, sets, waits, open, started, buf, dq>>

Finished == \A c \in Cores : step[c] > totalRounds /\ vec[c].step > totalRounds
Done == Finished /\ UNCHANGED vars

Next ==
  \/ \E c \in Cores : Round(c) \/ Drain(c) \/ Feed(c) \/ ProcessDkvCastStage(c)
  \/ Done
Spec == Init /\ [][Next]_vars

-----------------------------------------------------------------------------
(* The shares a gradient is made of come from different rounds, in order:  *)
(* the result does not depend on which core is faster.                     *)
InRounds(shares) == \A i, j \in DOMAIN shares : i < j => shares[i].round < shares[j].round
AddedByRounds ==
  /\ \A row \in DOMAIN dq : InRounds(dq[row])
  /\ \A g \in Grads : \A column \in DOMAIN out[g] : out[g][column] = Unset \/ InRounds(out[g][column])

(* A tile is visible if some key of it is, to some query of it: the mask   *)
(* is aligned to the bottom right corner.                                  *)
Visible(tile) ==
  LET i == tile[1]
      q == tile[4] * TILE .. DetMin((tile[4] + 1) * TILE, launch.q[i]) - 1
      k == tile[5] * TILE .. DetMin((tile[5] + 1) * TILE, launch.kv[i]) - 1
      delta == launch.kv[i] - launch.q[i]
  IN \E r \in q, j \in k :
       /\ launch.mask = "causal" => j <= r + delta
       /\ launch.mask = "band" =>
            /\ launch.left >= 0 => j >= r + delta - launch.left
            /\ launch.right >= 0 => j <= r + delta + launch.right
TilesOfRow(row) == {Append(row, s2) : s2 \in 0 .. TndBatchOuterK(launch, row[1]) - 1}
TilesOfColumn(column) == {<<column[1], column[2], g, s1, column[3]>> :
                            g \in 0 .. launch.group - 1, s1 \in 0 .. TndBatchOuterQ(launch, column[1]) - 1}

(* Every gradient is made of every tile that is visible and belongs to it, *)
(* and of no tile twice, nor of one of another row or column.              *)
MadeOf(shares, tiles) ==
  /\ shares # Unset
  /\ \A i, j \in DOMAIN shares : shares[i].tile = shares[j].tile => i = j
  /\ LET its == {shares[i].tile : i \in DOMAIN shares}
     IN its \subseteq tiles /\ \A tile \in tiles : Visible(tile) => tile \in its
EveryTileOnce ==
  Finished =>
    /\ \A row \in DOMAIN dq : MadeOf(dq[row], TilesOfRow(row))
    /\ \A g \in Grads : \A column \in DOMAIN out[g] : MadeOf(out[g][column], TilesOfColumn(column))
=============================================================================
