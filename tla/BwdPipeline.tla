----------------------------- MODULE BwdPipeline -----------------------------
(***************************************************************************)
(* The backward kernel at work (fag_kernel.cpp): on each core a cube, which *)
(* computes the products of a block, and two vector engines, which turn     *)
(* scores into gradients of scores, work off the rounds of FagBlocks.       *)
(*                                                                          *)
(* Task t of a core is its block of round t.  The cube computes the scores  *)
(* of task t and then the gradients of task t - 1, while the vectors work   *)
(* on task t - 1; workspaces and flags alternate between two.  Gradients    *)
(* are added to shared tiles: by the cubes, in any order, or, in            *)
(* deterministic mode, by the vectors, a round at a time between barriers.  *)
(*                                                                          *)
(* What an engine has given its pipes and they have not done yet is a queue. *)
(* A queue does its operations in order, each at some later time, and sets   *)
(* the flag that follows the operation at once.                              *)
(***************************************************************************)
EXTENDS FagBlocks

Half == {0, 1}
Parity == {0, 1}
Vec == Core \X Half
C1_V1 == "C1_V1"   \* scores are there
V1_C2 == "V1_C2"   \* gradients of scores are there
C2_V1 == "C2_V1"   \* gradients are there
Flag == {C1_V1, V1_C2, C2_V1}

VARIABLES
  cube,      \* core -> [pc, taskId, extra, pipe]
  vec,       \* engine -> [pc, taskId, extra, pipe]
  flags,     \* flag -> engine -> parity -> how often it is set and not yet waited for
  ws,        \* core -> parity -> half -> [kind, task] in mm1Workspace and mm2Workspace
  dtmWs,     \* core -> parity -> gradient -> task in the workspaces of deterministic mode
  zeroed,    \* engines that have cleared their share of the sums
  sums       \* gradient -> tile -> core's blocks added so far, in order

pipeVars == <<cube, vec, flags, ws, dtmWs, zeroed, sums>>
vars == <<blockVars, pipeVars>>

(* Definitions named Slip... are wrong variants of the definition that follows. *)

(* Launches not marked are only planned. *)
Running == Planned /\ launch.run

Extra == IF launch.dtm THEN 2 ELSE 1
NoTask == -1
Empty == [kind |-> "none", task |-> NoTask]
-----------------------------------------------------------------------------
(* Flags between the cube of a core and its vectors. *)

(* pingpongIdx, the workspaces and flags of a task. *)
SlipOneWorkspace(t) == 0
PingPong(t) == t % 2

SetFor(f, engines, p) == [flags EXCEPT ![f] = [e \in Vec |-> [q \in Parity |->
                            flags[f][e][q] + IF e \in engines /\ q = p THEN 1 ELSE 0]]]
Take(f, engines, p) == [flags EXCEPT ![f] = [e \in Vec |-> [q \in Parity |->
                            flags[f][e][q] - IF e \in engines /\ q = p THEN 1 ELSE 0]]]
IsSet(f, engines, p) == \A e \in engines : flags[f][e][p] > 0
VecsOf(core) == {core} \X Half
-----------------------------------------------------------------------------
(* The cube. *)

(* taskId++: a number of rounds, extraLoopNum, still follows the last one.    *)
NextTask(e) == [e EXCEPT !.taskId = @ + 1, !.extra = IF LastPlanned(e.taskId) THEN @ - 1 ELSE @]

(* ComputeMM1 is issued when a round begins; behind the last one the loop ends. *)
Mm1(t, c) == IF HasBlock(t, c) THEN <<[op |-> "mm1", task |-> t]>> ELSE <<>>
BeginRound(c, e) ==
  IF e.extra >= 0 THEN [e EXCEPT !.pc = "gradients", !.pipe = @ \o Mm1(e.taskId, c)]
  ELSE [e EXCEPT !.pc = IF launch.dtm THEN "lastSync" ELSE "done"]

(* Scores of the first block, before the loop. *)
CubeFirst(c) ==
  /\ cube[c].pc = "first"
  /\ cube' = [cube EXCEPT ![c] = BeginRound(c, [@ EXCEPT !.pipe = Mm1(0, c)])]
  /\ UNCHANGED <<vec, flags, ws, dtmWs, zeroed, sums>>

(* Whether the vectors are told that the gradients of round t are there: in   *)
(* deterministic mode always, else after the last block.                     *)
SlipToldAlways(t, c) == TRUE
SlipNeverTold(t, c) == FALSE
Told(t, c) == launch.dtm \/ ~HasBlock(t + 1, c)

(* ComputeMMDqkv, DTMComputeMMDqkv: gradients of the block before.           *)
CubeGradients(c) ==
  /\ cube[c].pc = "gradients"
  /\ LET t == cube[c].taskId
         mmDqkv == [op |-> "mmDqkv", task |-> t - 1, told |-> Told(t - 1, c)]
         onwards(e) == IF launch.dtm /\ t > 1 THEN [e EXCEPT !.pc = "sync"] ELSE BeginRound(c, NextTask(e))
     IN \/ /\ HasBlock(t - 1, c)
           /\ IsSet(V1_C2, VecsOf(c), PingPong(t - 1))
           /\ flags' = Take(V1_C2, VecsOf(c), PingPong(t - 1))
           /\ cube' = [cube EXCEPT ![c] = onwards([cube[c] EXCEPT !.pipe = Append(cube[c].pipe, mmDqkv)])]
        \/ /\ ~HasBlock(t - 1, c)
           /\ cube' = [cube EXCEPT ![c] = onwards(cube[c])]
           /\ UNCHANGED flags
  /\ UNCHANGED <<vec, ws, dtmWs, zeroed, sums>>

(* SyncAll of the cubes: all have come and have done what they were given. *)
CubeSync ==
  /\ \A c \in Core : cube[c].pc \in {"sync", "lastSync"} /\ cube[c].pipe = <<>>
  /\ cube' = [c \in Core |-> IF cube[c].pc = "lastSync" THEN [cube[c] EXCEPT !.pc = "done"]
                             ELSE BeginRound(c, NextTask(cube[c]))]
  /\ UNCHANGED <<vec, flags, ws, dtmWs, zeroed, sums>>

(* The products of a block, added to the sums by the memory, in any order:    *)
(* the sums do not show it and are kept sorted.                              *)
Added(t, c) ==
  [grad \in Grad |->
     [sums[grad] EXCEPT ![Tile(grad, <<t, c>>)] =
        LET earlier(x) == Before(x, <<t, c>>)
            later(x) == ~earlier(x)
        IN SelectSeq(@, earlier) \o <<<<t, c>>>> \o SelectSeq(@, later)]]
SlipStoredOnArrival(t, c) ==
  [grad \in Grad |-> [sums[grad] EXCEPT ![Tile(grad, <<t, c>>)] = Append(@, <<t, c>>)]]
(* In deterministic mode they are stored, directly or for the vectors to add. *)
Stored(t, c) ==
  [grad \in Grad |->
     IF Direct(grad, <<t, c>>) THEN [sums[grad] EXCEPT ![Tile(grad, <<t, c>>)] = <<<<t, c>>>>] ELSE sums[grad]]

(* The pipe at the end of the cube is done with the oldest operation. *)
CubePipe(c) ==
  /\ cube[c].pipe # <<>>
  /\ cube' = [cube EXCEPT ![c].pipe = Tail(@)]
  /\ LET do == Head(cube[c].pipe)
         p == PingPong(do.task)
     IN \/ /\ do.op = "mm1"
           /\ ws' = [ws EXCEPT ![c][p] = [h \in Half |-> [kind |-> "scores", task |-> do.task]]]
           /\ flags' = SetFor(C1_V1, VecsOf(c), p)
           /\ UNCHANGED <<dtmWs, sums>>
        \/ /\ do.op = "mmDqkv"
           /\ IF launch.dtm
              THEN /\ sums' = Stored(do.task, c)
                   /\ dtmWs' = [dtmWs EXCEPT ![c][p] = [grad \in Grad |->
                                  IF Direct(grad, <<do.task, c>>) THEN @[grad] ELSE do.task]]
              ELSE sums' = Added(do.task, c) /\ UNCHANGED dtmWs
           /\ flags' = IF do.told THEN SetFor(C2_V1, VecsOf(c), p) ELSE flags
           /\ UNCHANGED ws
  /\ UNCHANGED <<vec, zeroed>>
-----------------------------------------------------------------------------
(* A vector engine. *)

(* Clear a share of the sums, and compute one of the row products (pre,      *)
(* sfmg).  Shares and tiles have different bounds: the model clears all.     *)
VecPre(e) ==
  /\ vec[e].pc = "pre"
  /\ vec' = [vec EXCEPT ![e].pc = "preSync"]
  /\ zeroed' = zeroed \cup {e}
  /\ sums' = [grad \in Grad |-> [tile \in {Tile(grad, x) : x \in Places} |-> <<>>]]
  /\ UNCHANGED <<cube, flags, ws, dtmWs>>

(* The loop goes on, or ends at the barrier before the post step. *)
NextRound(e) == LET v == NextTask(e) IN [v EXCEPT !.pc = IF v.extra >= 0 THEN "loop" ELSE "postSync"]

SlipNoLastWait(e, v) ==
  IF launch.dtm /\ v.taskId > 1 THEN [v EXCEPT !.pc = "addWait"] ELSE NextRound(v)
(* What is left of a round when the engine has begun its block, or had none. *)
AfterBlock(e, v) ==
  LET t == v.taskId
  IN IF launch.dtm /\ t > 1 THEN [v EXCEPT !.pc = "addWait"]
     ELSE IF ~launch.dtm /\ HasBlock(t - 1, e[1]) /\ ~HasBlock(t, e[1]) THEN [v EXCEPT !.pc = "lastWait"]
     ELSE NextRound(v)

(* epilogueFAGSabVec: the block of the round before, given to the pipes. *)
VecBlock(e) ==
  /\ vec[e].pc = "loop"
  /\ LET t == vec[e].taskId - 1
     IN /\ HasBlock(t, e[1])
        /\ IsSet(C1_V1, {e}, PingPong(t))
        /\ flags' = Take(C1_V1, {e}, PingPong(t))
        /\ vec' = [vec EXCEPT ![e] = AfterBlock(e, [vec[e] EXCEPT !.pipe = Append(vec[e].pipe, t)])]
  /\ UNCHANGED <<cube, ws, dtmWs, zeroed, sums>>
VecIdle(e) ==
  /\ vec[e].pc = "loop"
  /\ ~HasBlock(vec[e].taskId - 1, e[1])
  /\ vec' = [vec EXCEPT ![e] = AfterBlock(e, @)]
  /\ UNCHANGED <<cube, flags, ws, dtmWs, zeroed, sums>>

(* The pipes have read the scores and stored the gradients of the scores. *)
VecPipe(e) ==
  /\ vec[e].pipe # <<>>
  /\ vec' = [vec EXCEPT ![e].pipe = Tail(@)]
  /\ LET t == Head(vec[e].pipe)
     IN /\ ws' = [ws EXCEPT ![e[1]][PingPong(t)][e[2]] = [kind |-> "mul", task |-> t]]
        /\ flags' = SetFor(V1_C2, {e}, PingPong(t))
  /\ UNCHANGED <<cube, dtmWs, zeroed, sums>>

(* After its last block an engine waits for the gradients of the cube. *)
VecLastWait(e) ==
  /\ vec[e].pc = "lastWait"
  /\ LET p == PingPong(vec[e].taskId - 1)
     IN IsSet(C2_V1, {e}, p) /\ flags' = Take(C2_V1, {e}, p)
  /\ vec' = [vec EXCEPT ![e] = NextRound(@)]
  /\ UNCHANGED <<cube, ws, dtmWs, zeroed, sums>>

(* Deterministic mode: the products of two rounds before are there. *)
VecAddWait(e) ==
  /\ vec[e].pc = "addWait"
  /\ LET t == vec[e].taskId - 2
     IN \/ /\ HasBlock(t, e[1])
           /\ IsSet(C2_V1, {e}, PingPong(t))
           /\ flags' = Take(C2_V1, {e}, PingPong(t))
        \/ /\ ~HasBlock(t, e[1])
           /\ UNCHANGED flags
  /\ vec' = [vec EXCEPT ![e].pc = "addSync"]
  /\ UNCHANGED <<cube, ws, dtmWs, zeroed, sums>>

(* The third of the engines that adds up a gradient, vecBlockNum of each.     *)
(* The first of them stands for all: the others add other rows of the tiles. *)
VecNumber(e) == 2 * e[1] + e[2]
VecBlockNum == (2 * CORES) \div 3
Third == [dq |-> 0, dk |-> 1, dv |-> 2]
Share(grad) == {e \in Vec : VecNumber(e) \div VecBlockNum = Third[grad]}
Adds(e, grad) == e \in Share(grad) /\ VecNumber(e) % VecBlockNum = 0

(* CalcDqReduce, CalcDkvReduce: the groups of a round in the order of their  *)
(* leaders, each added to the tile of the last block of the group.           *)
GroupTile(grad, t, leader) ==
  TileOf(grad, GetIndex(RoundAt(t)[Max(Members(grad, t, leader))].blockIdArr))
Grouped(grad, t, tile) ==
  {x \in Core \X Core : /\ Leads(grad, t, x[1]) /\ x[2] \in Members(grad, t, x[1])
                        /\ GroupTile(grad, t, x[1]) = tile}
Reduced(grad, t) ==
  [tile \in DOMAIN sums[grad] |->
     LET order == SetToSortSeq(Grouped(grad, t, tile), Before)
     IN sums[grad][tile] \o [i \in DOMAIN order |-> <<t, order[i][2]>>]]

(* epilogueFAGDtmAdd. *)
VecAdd(e) ==
  /\ vec[e].pc = "add"
  /\ vec' = [vec EXCEPT ![e].pc = "roundSync"]
  /\ \/ \E grad \in Grad :
           /\ Adds(e, grad)
           /\ \E added \in {Reduced(grad, vec[e].taskId - 2)} : sums' = [sums EXCEPT ![grad] = added]
     \/ /\ \A grad \in Grad : ~Adds(e, grad)
        /\ UNCHANGED sums
  /\ UNCHANGED <<cube, flags, ws, dtmWs, zeroed>>

(* SyncAll of the vectors. *)
AfterSync(v) ==
  CASE v.pc = "preSync" -> [v EXCEPT !.pc = "loop"]
    [] v.pc = "addSync" -> [v EXCEPT !.pc = "add"]
    [] v.pc = "roundSync" -> NextRound(v)
    [] v.pc = "postSync" -> [v EXCEPT !.pc = "post"]
VecSync ==
  /\ \A e \in Vec : vec[e].pc \in {"preSync", "addSync", "roundSync", "postSync"} /\ vec[e].pipe = <<>>
  /\ vec' = [e \in Vec |-> AfterSync(vec[e])]
  /\ UNCHANGED <<cube, flags, ws, dtmWs, zeroed, sums>>

(* epilogueFagPost: the sums are scaled, converted and stored as dq, dk, dv. *)
VecPost(e) ==
  /\ vec[e].pc = "post"
  /\ vec' = [vec EXCEPT ![e].pc = "done"]
  /\ UNCHANGED <<cube, flags, ws, dtmWs, zeroed, sums>>
-----------------------------------------------------------------------------
PipeInit ==
  /\ cube = [c \in Core |-> [pc |-> "first", taskId |-> 1, extra |-> Extra, pipe |-> <<>>]]
  /\ vec = [e \in Vec |-> [pc |-> "pre", taskId |-> 1, extra |-> Extra, pipe |-> <<>>]]
  /\ flags = [f \in Flag |-> [e \in Vec |-> [p \in Parity |-> 0]]]
  /\ ws = [c \in Core |-> [p \in Parity |-> [h \in Half |-> Empty]]]
  /\ dtmWs = [c \in Core |-> [p \in Parity |-> [grad \in Grad |-> NoTask]]]
  /\ zeroed = {}
  /\ sums = [grad \in Grad |-> <<>>]
Init == BlocksInit /\ PipeInit

CubeStep(c) == CubeFirst(c) \/ CubeGradients(c)
VecStep(e) ==
  \/ VecPre(e) \/ VecBlock(e) \/ VecIdle(e) \/ VecLastWait(e)
  \/ VecAddWait(e) \/ VecAdd(e) \/ VecPost(e)
Plan == CalcValidBlock /\ UNCHANGED pipeVars
Engines(step) == Running /\ step /\ UNCHANGED blockVars

AllDone == /\ \A c \in Core : cube[c].pc = "done" /\ cube[c].pipe = <<>>
           /\ \A e \in Vec : vec[e].pc = "done" /\ vec[e].pipe = <<>>
Finished == Planned /\ (Running => AllDone) /\ UNCHANGED vars

Next ==
  \/ Plan
  \/ \E c \in Core : Engines(CubeStep(c)) \/ Engines(CubePipe(c))
  \/ \E e \in Vec : Engines(VecStep(e)) \/ Engines(VecPipe(e))
  \/ Engines(CubeSync) \/ Engines(VecSync)
  \/ Finished

(* Some engine or pipe that can go on does, and a barrier that all have       *)
(* reached opens.                                                            *)
Fairness == WF_vars(Next)
Spec == Init /\ [][Next]_vars /\ Fairness
-----------------------------------------------------------------------------
(* States of the engines; a flag is never set twice before it is waited for. *)
TypeOK ==
  /\ BlocksTypeOK
  /\ \A c \in Core : /\ cube[c].pc \in {"first", "gradients", "sync", "lastSync", "done"}
                      /\ cube[c].extra \in -1 .. 2
  /\ \A e \in Vec : /\ vec[e].pc \in {"pre", "preSync", "loop", "lastWait", "addWait", "addSync",
                                       "add", "roundSync", "postSync", "post", "done"}
                     /\ vec[e].extra \in -1 .. 2
  /\ \A f \in Flag, e \in Vec, p \in Parity : flags[f][e][p] \in 0 .. 1
  /\ zeroed \subseteq Vec

(* Operation op of a core's cube may be under way on the workspaces p. *)
Writing(c, op, p) == cube[c].pipe # <<>> /\ Head(cube[c].pipe).op = op /\ PingPong(Head(cube[c].pipe).task) = p

(* Two workspaces of each kind are enough: whatever the speed of the engines, *)
(* a vector reads the scores of its own task, and no sum before all shares   *)
(* are cleared, the cube reads what both vectors made of its own task, and   *)
(* the reduction of a round reads products of that round, none of them       *)
(* being overwritten meanwhile (taskId % 2, flags and SyncAll).              *)
ScoresIntact ==
  \A e \in Vec : \A i \in DOMAIN vec[e].pipe :
    LET t == vec[e].pipe[i]
    IN /\ ws[e[1]][PingPong(t)][e[2]] = [kind |-> "scores", task |-> t]
       /\ zeroed = Vec
       /\ ~Writing(e[1], "mm1", PingPong(t))
MulIntact ==
  \A c \in Core : \A i \in DOMAIN cube[c].pipe : cube[c].pipe[i].op = "mmDqkv" =>
    LET t == cube[c].pipe[i].task
    IN \A h \in Half : ws[c][PingPong(t)][h] = [kind |-> "mul", task |-> t]
ProductsIntact ==
  \A e \in Vec : vec[e].pc = "add" =>
    LET t == vec[e].taskId - 2
    IN \A grad \in Grad : e \in Share(grad) =>
         \A c \in Listed(t) : ~Direct(grad, <<t, c>>) =>
           dtmWs[c][PingPong(t)][grad] = t /\ ~Writing(c, "mmDqkv", PingPong(t))
WorkspaceIntact == ScoresIntact /\ MulIntact /\ ProductsIntact

(* When a kernel ends, every flag that was set has been waited for: one left  *)
(* over would release an engine of the next launch too early.  Both sides    *)
(* decide on their own whether the last flag is needed.                      *)
FlagsBalanced ==
  AllDone => \A f \in Flag, e \in Vec, p \in Parity : flags[f][e][p] = 0

(* When the first engine begins to convert the sums, every tile has the       *)
(* product of each of its blocks exactly once, of cores that are slower and  *)
(* of cores that had fewer blocks too.                                       *)
GradientsComplete ==
  (\E e \in Vec : vec[e].pc \in {"post", "done"}) =>
    \A grad \in Grad : \A tile \in DOMAIN sums[grad] :
      LET added == sums[grad][tile]
          due == {x \in Places : Tile(grad, x) = tile}
      IN Len(added) = Cardinality(due) /\ {added[i] : i \in DOMAIN added} = due

(* In deterministic mode the products of a tile are added in the order of the *)
(* walk, whatever the speed of the engines.                                  *)
AddedInOrder ==
  launch.dtm =>
    \A grad \in Grad : \A tile \in DOMAIN sums[grad] :
      \A j \in DOMAIN sums[grad][tile] : \A i \in 1 .. j - 1 :
        Before(sums[grad][tile][i], sums[grad][tile][j])

(* Every launch ends, also on cores without blocks, which must keep to the    *)
(* barriers: cube and vectors agree on the number of rounds.                 *)
Finishes == <>(Planned /\ (launch.run => AllDone))
=============================================================================
