---------------------------- MODULE FwdPipeline ----------------------------
(***************************************************************************)
(* The software pipeline of the forward kernel on one NPU core             *)
(* (src/csrc/ascend910/flash_attn_npu_3/mha_fwd_kvcache.cpp).               *)
(*                                                                         *)
(* A core has one cube engine (AIC) and two vector engines (AIV).  The     *)
(* three run the SAME control flow, each with its own scalar unit, its own *)
(* copy of issuedStackCount, taskStateSequence, descriptors[] and          *)
(* taskContexts[], and meet only at the cross-core flags qkReady,          *)
(* softmaxReady and pvReady.  A tile of the output (a task) is computed    *)
(* from a number of K/V "stacks"; iteration n of the loop starts stack n   *)
(*      cube   : QK(n)  writes the scores  S[n % STACK_SLOTS]              *)
(*      vector : SM(n)  reads S, writes    P[n % STACK_SLOTS]              *)
(* and finishes stack n - PRE_LAUNCH, possibly one of an EARLIER task,     *)
(*      cube   : PV(m)  reads P, writes    OTmp[m % STACK_SLOTS]           *)
(*      vector : RS(m)  reads OTmp, rescales and accumulates the output.   *)
(*                                                                         *)
(* The scalar unit only issues an operation; the operation runs later, in  *)
(* issue order (its pipes are in-order queues).  The model therefore keeps *)
(* for each engine the operations issued so far and how many completed:    *)
(* what lies between is in flight and may touch its buffers at any moment. *)
(* An operation of the first half of an iteration (QK, SM) is a "front"    *)
(* operation, one of the second half (PV, RS) a "delayed" one.             *)
(***************************************************************************)
EXTENDS Integers, Sequences

CONSTANTS PRE_LAUNCH,  \* how many stacks the front runs ahead (2 in the code)
          Vec,         \* the vector engines of the core
          Works        \* the task lists a core may be given

(* Definitions named Slip... are wrong variants of the definition that      *)
(* follows them, each the slip of a plausible edit of the kernel.  Nothing  *)
(* uses them: they stand ready to be put in its place, to see the           *)
(* properties fail.                                                        *)
SlipNoSpareSlot == PRE_LAUNCH
STACK_SLOTS == PRE_LAUNCH + 1
Cube == "AIC"
Engine == {Cube} \cup Vec
Slot == 0 .. STACK_SLOTS - 1

(* A task: how many stacks its K/V range has (0: fully masked), and which  *)
(* vector engines own rows of its tile (a one-row tile leaves one idle).   *)
Task == [stacks : Nat, rows : SUBSET Vec]

ASSUME PreLaunchAssumption == PRE_LAUNCH \in Nat \ {0}
ASSUME VecAssumption == Cube \notin Vec
ASSUME WorksAssumption == \A w \in Works : w \in Seq(Task)

Busy == -1     \* a buffer some operation in flight may be writing
EmptyOutput(t) == [task |-> t, terms |-> << >>, norm |-> << >>]
NoOutput == EmptyOutput(0)

VARIABLES
  work,         \* the tasks of this core, in order
  pc, task, kv, issued, taskSeq, desc, ctx,   \* per engine: the control flow
  front, frontDone, delayed, delayedDone,     \* per engine: issued, completed
  qkReady, softmaxReady, pvReady,             \* per vector engine: flag counts
  S, P, OTmp,                                 \* the workspace slots
  dm, gl,                                     \* per vector engine: softmax state
  acc, out                                    \* per vector engine: its output rows

walkVars == <<pc, task, kv, issued, taskSeq, desc, ctx>>
opVars   == <<front, frontDone, delayed, delayedDone>>
flagVars == <<qkReady, softmaxReady, pvReady>>
bufVars  == <<S, P, OTmp, dm, gl, acc, out>>
vars == <<work, walkVars, opVars, flagVars, bufVars>>

TaskNo == 1 .. Len(work)
IsLast(t) == t = Len(work)
SlipNoDrainAfterEmpty(t) ==
  IF IsLast(t) /\ work[t].stacks > 0 THEN PRE_LAUNCH ELSE 0
SlipDrainEveryTask(t) == PRE_LAUNCH
Drain(t) == IF IsLast(t) THEN PRE_LAUNCH ELSE 0
Active(v, t) == v \in work[t].rows

-----------------------------------------------------------------------------
(* The control flow, the same on every engine. *)

NoDesc == [num |-> -1, task |-> 0, kv |-> 0, slot |-> 0, state |-> 0,
           first |-> FALSE, last |-> FALSE]

Init ==
  /\ work \in Works
  /\ pc = [e \in Engine |-> IF Len(work) = 0 THEN "end" ELSE "task"]
  /\ task = [e \in Engine |-> 1]
  /\ kv = [e \in Engine |-> 0]
  /\ issued = [e \in Engine |-> 0]
  /\ taskSeq = [e \in Engine |-> 0]
  /\ desc = [e \in Engine |-> [s \in Slot |-> NoDesc]]
  /\ ctx = [e \in Engine |-> [s \in Slot |-> 0]]
  /\ front = [e \in Engine |-> << >>]
  /\ frontDone = [e \in Engine |-> 0]
  /\ delayed = [e \in Engine |-> << >>]
  /\ delayedDone = [e \in Engine |-> 0]
  /\ qkReady = [v \in Vec |-> 0]
  /\ softmaxReady = [v \in Vec |-> 0]
  /\ pvReady = [v \in Vec |-> 0]
  /\ S = [s \in Slot |-> Busy]
  /\ P = [v \in Vec |-> [s \in Slot |-> Busy]]
  /\ OTmp = [s \in Slot |-> Busy]
  /\ dm = [v \in Vec |-> [s \in Slot |-> Busy]]
  /\ gl = [v \in Vec |-> [s \in Slot |-> << >>]]
  /\ acc = [v \in Vec |-> << >>]
  /\ out = [v \in Vec |-> [t \in TaskNo |-> NoOutput]]

(* Leave task t of engine e: back to the task loop of operator(). *)
NextTask(e, t) ==
  /\ task' = [task EXCEPT ![e] = t + 1]
  /\ pc' = [pc EXCEPT ![e] = IF IsLast(t) THEN "end" ELSE "task"]

(* runMainLoop up to its loop.  A nonempty task records its context; an    *)
(* empty one has its rows initialised by the vector engines, and returns   *)
(* at once unless it is the core's last, which still drains the pipeline.  *)
SlipShortContextRing(e) == taskSeq[e] % PRE_LAUNCH
SlipLongContextRing(e) == taskSeq[e] % (STACK_SLOTS + 1)
StateSlot(e) == taskSeq[e] % STACK_SLOTS

InitOutWhenZero(e, t) ==
  out' = IF e \in Vec /\ Active(e, t)
         THEN [out EXCEPT ![e][t] = EmptyOutput(t)] ELSE out

BeginTask(e) ==
  LET t == task[e] IN
  /\ pc[e] = "task"
  /\ kv' = [kv EXCEPT ![e] = 0]
  /\ \/ /\ work[t].stacks > 0
        /\ ctx' = [ctx EXCEPT ![e][StateSlot(e)] = t]
        /\ pc' = [pc EXCEPT ![e] = "front"]
        /\ UNCHANGED <<task, out>>
     \/ /\ work[t].stacks = 0
        /\ InitOutWhenZero(e, t)
        /\ IF IsLast(t)
           THEN /\ pc' = [pc EXCEPT ![e] = "delayed"]
                /\ UNCHANGED task
           ELSE NextTask(e, t)
        /\ UNCHANGED ctx
  /\ UNCHANGED <<work, issued, taskSeq, desc, opVars, flagVars,
                 S, P, OTmp, dm, gl, acc>>

(* The descriptor the front half of an iteration fills. *)
StackDescriptor(e) ==
  [num   |-> issued[e],
   task  |-> task[e],
   kv    |-> kv[e],
   slot  |-> issued[e] % STACK_SLOTS,
   state |-> StateSlot(e),
   first |-> kv[e] = 0,
   last  |-> kv[e] + 1 >= work[task[e]].stacks]

(* The operation the delayed half issues: the descriptor of PRE_LAUNCH     *)
(* iterations ago, with the destination its task context holds NOW.        *)
SlipCurrentTask(e) ==
  [desc[e][(issued[e] - PRE_LAUNCH) % STACK_SLOTS] EXCEPT !.task = task[e]]
DelayedOp(e) ==
  LET d == desc[e][(issued[e] - PRE_LAUNCH) % STACK_SLOTS]
  IN  [d EXCEPT !.task = ctx[e][d.state]]

(* Operations run in issue order: each one records how many operations of  *)
(* the other half were issued before it.                                   *)
Op(d, n) == [d |-> d, after |-> n]

(* End of an iteration: ++issuedStackCount, ++kvSIdx, and when the loop    *)
(* is over taskStateSequence += hasTaskWork.                               *)
LoopEnd(t) == work[t].stacks + Drain(t)
HasWork(t) == IF work[t].stacks > 0 THEN 1 ELSE 0

Advance(e) ==
  LET t == task[e] IN
  /\ issued' = [issued EXCEPT ![e] = @ + 1]
  /\ kv' = [kv EXCEPT ![e] = @ + 1]
  /\ \/ /\ kv[e] + 1 < LoopEnd(t)
        /\ pc' = [pc EXCEPT ![e] = IF kv[e] + 1 < work[t].stacks
                                  THEN "front" ELSE "delayed"]
        /\ UNCHANGED <<task, taskSeq>>
     \/ /\ kv[e] + 1 >= LoopEnd(t)
        /\ NextTask(e, t)
        /\ taskSeq' = [taskSeq EXCEPT ![e] = @ + HasWork(t)]

(* Issue the front operation of this iteration. *)
IssueFront(e) ==
  LET d == StackDescriptor(e) IN
  /\ pc[e] = "front"
  /\ pc' = [pc EXCEPT ![e] = "delayed"]
  /\ desc' = [desc EXCEPT ![e][d.slot] = d]
  /\ front' = [front EXCEPT ![e] = Append(@, Op(d, Len(delayed[e])))]
  /\ UNCHANGED <<work, task, kv, issued, taskSeq, ctx, frontDone, delayed,
                 delayedDone, softmaxReady, pvReady, OTmp, dm, gl, acc, out>>

IssueDelayed(e) ==
  LET d == DelayedOp(e) IN
  /\ pc[e] = "delayed"
  /\ issued[e] >= PRE_LAUNCH
  /\ delayed' = [delayed EXCEPT ![e] = Append(@, Op(d, Len(front[e])))]
  /\ Advance(e)
  /\ UNCHANGED <<work, desc, ctx, front, frontDone, delayedDone, qkReady,
                 S, P, dm, gl, acc, out>>

(* The pipeline is still filling: no stack to finish yet. *)
SkipDelayed(e) ==
  /\ pc[e] = "delayed"
  /\ issued[e] < PRE_LAUNCH
  /\ Advance(e)
  /\ UNCHANGED <<work, desc, ctx, opVars, flagVars, bufVars>>

-----------------------------------------------------------------------------
(* The cube engine. *)

IssueQK ==
  /\ IssueFront(Cube)
  /\ S' = [S EXCEPT ![StackDescriptor(Cube).slot] = Busy]
  /\ UNCHANGED <<qkReady, P>>

(* PV waits for softmaxReady of both vector engines (sync mode 0x2). *)
IssuePV ==
  /\ \A v \in Vec : softmaxReady[v] > 0
  /\ IssueDelayed(Cube)
  /\ softmaxReady' = [v \in Vec |-> softmaxReady[v] - 1]
  /\ OTmp' = [OTmp EXCEPT ![DelayedOp(Cube).slot] = Busy]
  /\ UNCHANGED pvReady

(* The oldest uncompleted front (delayed) operation of e may complete once *)
(* the delayed (front) operations issued before it have.                   *)
CanCompleteFront(e) ==
  /\ frontDone[e] < Len(front[e])
  /\ front[e][frontDone[e] + 1].after <= delayedDone[e]

CanCompleteDelayed(e) ==
  /\ delayedDone[e] < Len(delayed[e])
  /\ delayed[e][delayedDone[e] + 1].after <= frontDone[e]

OldestFront(e) == front[e][frontDone[e] + 1].d
OldestDelayed(e) == delayed[e][delayedDone[e] + 1].d

(* CrossCoreSetFlag<0x2, PIPE_FIX>: both vector engines see the flag. *)
CompleteQK ==
  LET d == OldestFront(Cube) IN
  /\ CanCompleteFront(Cube)
  /\ S' = [S EXCEPT ![d.slot] = d.num]
  /\ qkReady' = [v \in Vec |-> qkReady[v] + 1]
  /\ frontDone' = [frontDone EXCEPT ![Cube] = @ + 1]
  /\ UNCHANGED <<work, walkVars, front, delayed, delayedDone, softmaxReady,
                 pvReady, P, OTmp, dm, gl, acc, out>>

CompletePV ==
  LET d == OldestDelayed(Cube) IN
  /\ CanCompleteDelayed(Cube)
  /\ OTmp' = [OTmp EXCEPT ![d.slot] = d.num]
  /\ pvReady' = [v \in Vec |-> pvReady[v] + 1]
  /\ delayedDone' = [delayedDone EXCEPT ![Cube] = @ + 1]
  /\ UNCHANGED <<work, walkVars, front, frontDone, delayed, qkReady,
                 softmaxReady, S, P, dm, gl, acc, out>>

-----------------------------------------------------------------------------
(* A vector engine.  One without rows of the tile still consumes and sets  *)
(* every flag; it touches no buffer.                                       *)

IssueSM(v) ==
  LET d == StackDescriptor(v) IN
  /\ qkReady[v] > 0
  /\ IssueFront(v)
  /\ qkReady' = [qkReady EXCEPT ![v] = @ - 1]
  /\ P' = IF Active(v, d.task) THEN [P EXCEPT ![v][d.slot] = Busy] ELSE P
  /\ UNCHANGED S

IssueRS(v) ==
  /\ pvReady[v] > 0
  /\ IssueDelayed(v)
  /\ pvReady' = [pvReady EXCEPT ![v] = @ - 1]
  /\ UNCHANGED <<softmaxReady, OTmp>>

(* Softmax of one stack: the row sums restart with the first stack of a    *)
(* task; dm keeps the factor the delayed rescale of this stack will need.  *)
CompleteSM(v) ==
  LET d == OldestFront(v)
      x == S[d.slot] IN
  /\ CanCompleteFront(v)
  /\ IF Active(v, d.task)
     THEN /\ P' = [P EXCEPT ![v][d.slot] = x]
          /\ dm' = [dm EXCEPT ![v][d.slot] = d.num]
          /\ gl' = [gl EXCEPT ![v][d.state] =
                      IF d.first THEN <<x>> ELSE Append(@, x)]
     ELSE UNCHANGED <<P, dm, gl>>
  /\ softmaxReady' = [softmaxReady EXCEPT ![v] = @ + 1]
  /\ frontDone' = [frontDone EXCEPT ![v] = @ + 1]
  /\ UNCHANGED <<work, walkVars, front, delayed, delayedDone, qkReady,
                 pvReady, S, OTmp, acc, out>>

(* Rescale and accumulate one stack.  A term is the product added and the  *)
(* stack whose factor rescaled the running sum (none for the first); the   *)
(* last stack divides by the row sums of its task and writes the output.   *)
Term(v, d) == [value |-> OTmp[d.slot],
               scale |-> IF d.first THEN d.num ELSE dm[v][d.slot]]

CompleteRS(v) ==
  LET d == OldestDelayed(v)
      terms == IF d.first THEN <<Term(v, d)>> ELSE Append(acc[v], Term(v, d)) IN
  /\ CanCompleteDelayed(v)
  /\ IF Active(v, d.task)
     THEN /\ acc' = [acc EXCEPT ![v] = terms]
          /\ out' = IF d.last
                    THEN [out EXCEPT ![v][d.task] =
                            [task |-> d.task, terms |-> terms,
                             norm |-> gl[v][d.state]]]
                    ELSE out
     ELSE UNCHANGED <<acc, out>>
  /\ delayedDone' = [delayedDone EXCEPT ![v] = @ + 1]
  /\ UNCHANGED <<work, walkVars, front, frontDone, delayed, flagVars,
                 S, P, OTmp, dm, gl>>

-----------------------------------------------------------------------------
(* PipeBarrier<PIPE_ALL> at the end: an engine stops when its queue is     *)
(* empty.  Nothing is left to do once all have stopped.                    *)
Quiet(e) == frontDone[e] = Len(front[e]) /\ delayedDone[e] = Len(delayed[e])
Terminated == \A e \in Engine : pc[e] = "end" /\ Quiet(e)
Terminating == Terminated /\ UNCHANGED vars

CubeStep == IssueQK \/ IssuePV \/ CompleteQK \/ CompletePV
VecStep(v) == IssueSM(v) \/ IssueRS(v) \/ CompleteSM(v) \/ CompleteRS(v)
WalkStep(e) == BeginTask(e) \/ SkipDelayed(e)

Next ==
  \/ \E e \in Engine : WalkStep(e)
  \/ CubeStep
  \/ \E v \in Vec : VecStep(v)
  \/ Terminating

(* The scalar units and pipes of the engines are independent hardware:     *)
(* each takes its next step when it can.                                   *)
Fairness ==
  /\ \A e \in Engine : WF_vars(WalkStep(e))
  /\ WF_vars(IssueQK \/ IssuePV)
  /\ WF_vars(CompleteQK \/ CompletePV)
  /\ \A v \in Vec : /\ WF_vars(IssueSM(v) \/ IssueRS(v))
                    /\ WF_vars(CompleteSM(v) \/ CompleteRS(v))

Spec == Init /\ [][Next]_vars /\ Fairness

-----------------------------------------------------------------------------
(* Properties. *)

Descriptor == [num : Int, task : Nat, kv : Nat, slot : Slot, state : Slot,
               first : BOOLEAN, last : BOOLEAN]
Operation == [d : Descriptor, after : Nat]
Output == [task : Nat, terms : Seq([value : Int, scale : Int]), norm : Seq(Int)]

(* Every variable has the type its declaration in the kernel gives it; in  *)
(* particular no flag count is negative.                                   *)
TypeOK ==
  /\ work \in Seq(Task)
  /\ pc \in [Engine -> {"task", "front", "delayed", "end"}]
  /\ task \in [Engine -> Nat]
  /\ kv \in [Engine -> Nat]
  /\ issued \in [Engine -> Nat]
  /\ taskSeq \in [Engine -> Nat]
  /\ desc \in [Engine -> [Slot -> Descriptor]]
  /\ ctx \in [Engine -> [Slot -> Nat]]
  /\ front \in [Engine -> Seq(Operation)]
  /\ frontDone \in [Engine -> Nat]
  /\ delayed \in [Engine -> Seq(Operation)]
  /\ delayedDone \in [Engine -> Nat]
  /\ qkReady \in [Vec -> Nat]
  /\ softmaxReady \in [Vec -> Nat]
  /\ pvReady \in [Vec -> Nat]
  /\ S \in [Slot -> Int]
  /\ P \in [Vec -> [Slot -> Int]]
  /\ OTmp \in [Slot -> Int]
  /\ dm \in [Vec -> [Slot -> Int]]
  /\ gl \in [Vec -> [Slot -> Seq(Int)]]
  /\ acc \in [Vec -> Seq([value : Int, scale : Int])]
  /\ out \in [Vec -> [TaskNo -> Output]]

InFlight(ops, done) == {ops[i] : i \in (done + 1) .. Len(ops)}

(* While an operation that reads a workspace slot is in flight, the slot   *)
(* holds exactly the data of its own stack: no engine that runs ahead has  *)
(* overwritten it or is writing it.  (STACK_SLOTS slots suffice for a run- *)
(* ahead of PRE_LAUNCH; the flags order every reuse of a slot.)            *)
ScoresIntact ==
  \A v \in Vec : \A o \in InFlight(front[v], frontDone[v]) :
    S[o.d.slot] = o.d.num
ProbsIntact ==
  \A o \in InFlight(delayed[Cube], delayedDone[Cube]) : \A v \in Vec :
    Active(v, front[v][o.d.num + 1].d.task) => P[v][o.d.slot] = o.d.num
ProductsIntact ==
  \A v \in Vec : \A o \in InFlight(delayed[v], delayedDone[v]) :
    OTmp[o.d.slot] = o.d.num
NoSlotRace == ScoresIntact /\ ProbsIntact /\ ProductsIntact

(* A delayed operation uses the parameters of the stack it finishes, even  *)
(* when the front is one or two tasks further: neither its descriptor nor  *)
(* its task's context has been recycled.                                   *)
DelayedContextIntact ==
  \A e \in Engine : \A j \in 1 .. Len(delayed[e]) :
    delayed[e][j].d = front[e][j].d

(* No flag counter ever exceeds the number of slots, and when the core has *)
(* finished every flag that was set has been consumed: the next launch     *)
(* starts clean.                                                           *)
FlagsBalanced ==
  /\ \A v \in Vec : /\ qkReady[v] <= STACK_SLOTS
                    /\ softmaxReady[v] <= STACK_SLOTS
                    /\ pvReady[v] <= STACK_SLOTS
  /\ Terminated => \A v \in Vec : /\ qkReady[v] = 0
                                  /\ softmaxReady[v] = 0
                                  /\ pvReady[v] = 0
=============================================================================
