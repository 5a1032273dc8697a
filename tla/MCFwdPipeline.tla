--------------------------- MODULE MCFwdPipeline ---------------------------
(* Instances of FwdPipeline for TLC: one cube engine, two vector engines.  *)
EXTENDS FwdPipeline

CONSTANTS v1, v2,
          Stacks   \* the task lists to check: stacks per task

MCVec == {v1, v2}

(* MakeTaskPlan leaves the first vector engine without rows when the tile  *)
(* has one row, and gives rows to both otherwise: in one half of the lists *)
(* the odd tasks are such tiles, in the other half the even ones.          *)
Work(stacks, idle) ==
  [t \in 1 .. Len(stacks) |->
     [stacks |-> stacks[t], rows |-> IF t % 2 = idle THEN {v2} ELSE MCVec]]

MCWorks == {Work(s, idle) : s \in Stacks, idle \in 0 .. 1}

(* Shorter and longer than the pipeline; three tasks inside its run-ahead; *)
(* empty tasks first, between, and last (the last one drains).             *)
MCStacks == { << >>, <<0>>, <<1>>, <<5>>, <<1, 1, 1, 1>>, <<2, 3>>, <<3, 2>>,
               <<1, 0, 1, 0>>, <<0, 2, 0, 1>>, <<4, 0>>, <<1, 0, 1, 1, 1>> }

(* The pipeline implements what the core promises. *)
Tiles == INSTANCE TileOutputs
TilesSpec == Tiles!Spec

(* Every engine reaches the end, as no flag is waited for that nobody sets; *)
(* every row has then been written.                                         *)
Finishes == <>(Terminated /\ Tiles!Complete)
=============================================================================
