---------------------------- MODULE TileOutputs ----------------------------
(***************************************************************************)
(* What the forward kernel of one core promises, whatever its pipeline     *)
(* does: each vector engine writes the output rows it owns of every task,  *)
(* once, with one term per K/V stack of the task, in order, each rescaled  *)
(* by its own factor and all divided by the sum over the same stacks.      *)
(* Nonempty tasks are written in task order; the rows of an empty task are *)
(* initialised without waiting for them.                                   *)
(***************************************************************************)
EXTENDS Integers, Sequences

CONSTANTS Vec, Works, NoOutput

VARIABLES work, out
vars == <<work, out>>

TaskNo == 1 .. Len(work)

(* The number of the first stack of task t, over the core's task list. *)
Base[t \in Nat] == IF t <= 1 THEN 0 ELSE Base[t - 1] + work[t - 1].stacks

Exact(t) ==
  [task  |-> t,
   terms |-> [i \in 1 .. work[t].stacks |->
                [value |-> Base[t] + i - 1, scale |-> Base[t] + i - 1]],
   norm  |-> [i \in 1 .. work[t].stacks |-> Base[t] + i - 1]]

Init ==
  /\ work \in Works
  /\ out = [v \in Vec |-> [t \in TaskNo |-> NoOutput]]

Owes(v, t) == v \in work[t].rows /\ out[v][t] = NoOutput

Write(v, t) ==
  /\ Owes(v, t)
  /\ \A u \in 1 .. t - 1 :
       work[t].stacks > 0 /\ work[u].stacks > 0 => ~ Owes(v, u)
  /\ out' = [out EXCEPT ![v][t] = Exact(t)]
  /\ UNCHANGED work

Next == \E v \in Vec, t \in TaskNo : Write(v, t)

Spec == Init /\ [][Next]_vars

(* Nothing is left to write. *)
Complete == \A v \in Vec, t \in TaskNo : ~ Owes(v, t)
=============================================================================
