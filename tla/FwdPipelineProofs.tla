------------------------- MODULE FwdPipelineProofs -------------------------
(***************************************************************************)
(* Proofs about FwdPipeline, for every task list, any number of vector     *)
(* engines and any run-ahead PRE_LAUNCH >= 1.                              *)
(*                                                                         *)
(* First type correctness.  Then the inductive invariant IInv: each        *)
(* engine's walk is exact (CountInv, OpsInv, DescInv, CtxInv: they speak   *)
(* of one engine only, so Frame carries them over the others' steps); a    *)
(* flag is at any time the difference of two counts (FlagInv); and the     *)
(* data of the slots that may still be read is intact (ScoreData,          *)
(* ProbData, ProductData), for which the flags bound how far the engines   *)
(* can be apart (Chain).  RaceFreedom, DelayedContext and FlagBalance      *)
(* follow from it.                                                         *)
(*                                                                         *)
(* The pipeline also implements what the core promises (Implements):       *)
(* FwdPipeline refines TileOutputs.  To IInv, which says that the engines  *)
(* never disturb each other, this adds what they compute: the place of     *)
(* every stack in its task (StackInv, WalkInv), which rows are written     *)
(* (OutInv), and what the running sums of the tasks in progress hold       *)
(* (AccInv, SumInv, FactorInv).  The numbers of the stacks are sums over   *)
(* the task list: their properties are proved by induction on it.          *)
(***************************************************************************)
EXTENDS MCFwdPipeline, FiniteSetTheorems, TLAPS

(* A ring index taken modulo the number of slots is a slot.                *)
LEMMA ModRange ==
  ASSUME NEW n \in Nat
  PROVE  n % STACK_SLOTS \in Slot
BY PreLaunchAssumption DEF Slot, STACK_SLOTS

(* Stacks less than STACK_SLOTS apart have different slots: the reason the *)
(* rings of the kernel have PRE_LAUNCH + 1 entries.                        *)
LEMMA ModUnique ==
  ASSUME NEW i \in Nat, NEW j \in Nat, i < j, j < i + STACK_SLOTS
  PROVE  i % STACK_SLOTS # j % STACK_SLOTS
<1> DEFINE n == STACK_SLOTS
<1>1. n \in Nat \ {0}
  BY PreLaunchAssumption DEF STACK_SLOTS
<1> HIDE DEF n
<1> SUFFICES ASSUME i < j, j < i + n, i % n = j % n PROVE FALSE
  BY DEF n
<1>2. PICK a \in Nat : i = (n * a) + (i % n)
  <2>1. i \div n \in Nat /\ i = (n * (i \div n)) + (i % n)
    BY <1>1
  <2> QED BY <2>1
<1>3. PICK b \in Nat : j = (n * b) + (j % n)
  <2>1. j \div n \in Nat /\ j = (n * (j \div n)) + (j % n)
    BY <1>1
  <2> QED BY <2>1
<1>4. n * a < n * b /\ n * b < n * a + n
  BY <1>1, <1>2, <1>3
<1>5. n * (b - a) > 0 /\ n * (b - a) < n
  BY <1>1, <1>4
<1>6. b - a >= 1 \/ b - a <= 0
  OBVIOUS
<1>7. CASE b - a >= 1
  <2>1. n * (b - a) >= n
    BY <1>1, <1>7
  <2> QED BY <2>1, <1>5, <1>1
<1>8. CASE b - a <= 0
  <2>1. n * (b - a) <= 0
    BY <1>1, <1>8
  <2> QED BY <2>1, <1>5, <1>1
<1> QED BY <1>6, <1>7, <1>8

-----------------------------------------------------------------------------
(* The cube is an engine and no vector engine is the cube.                 *)
LEMMA EngineFacts ==
  /\ Cube \in Engine
  /\ \A v \in Vec : v \in Engine /\ v # Cube
BY VecAssumption DEF Engine

(* Type correctness, action by action.                                     *)
LEMMA InitType == Init => TypeOK
<1> SUFFICES ASSUME Init PROVE TypeOK
  OBVIOUS
<1>1. work \in Seq(Task)
  BY WorksAssumption DEF Init
<1>2. 0 \in Slot
  BY PreLaunchAssumption DEF Slot, STACK_SLOTS
<1>3. NoDesc \in Descriptor
  BY <1>2 DEF NoDesc, Descriptor
<1>4. NoOutput \in Output
  BY DEF NoOutput, EmptyOutput, Output
<1> QED BY <1>1, <1>2, <1>3, <1>4 DEF Init, TypeOK, Busy

(* The task an engine works on exists until it has finished. *)
TaskInv == \A e \in Engine : pc[e] # "end" => task[e] \in TaskNo

(* A task of the list is a Task.                                           *)
LEMMA WorkType == ASSUME TypeOK, NEW t \in TaskNo
                  PROVE  work[t].stacks \in Nat /\ work[t].rows \in SUBSET Vec
<1>1. work[t] \in Task
  BY DEF TypeOK, TaskNo
<1> QED BY <1>1 DEF Task

(* Leaving a task keeps the types of the walk.                             *)
LEMMA NextTaskType ==
  ASSUME NEW e \in Engine, NEW t \in Nat, TypeOK, NextTask(e, t)
  PROVE  /\ pc' \in [Engine -> {"task", "front", "delayed", "end"}]
         /\ task' \in [Engine -> Nat]
<1>1. (IF IsLast(t) THEN "end" ELSE "task") \in {"task", "front", "delayed", "end"}
  OBVIOUS
<1> QED BY <1>1 DEF TypeOK, NextTask

(* Beginning a task, empty or not, keeps the types.                        *)
LEMMA BeginTaskType ==
  \A e \in Engine : TypeOK /\ TaskInv /\ BeginTask(e) => TypeOK'
<1> SUFFICES ASSUME NEW e \in Engine, TypeOK, TaskInv, BeginTask(e) PROVE TypeOK'
  OBVIOUS
<1> DEFINE t == task[e]
<1>1. StateSlot(e) \in Slot
  BY ModRange DEF TypeOK, StateSlot
<1>2. t \in Nat /\ t \in TaskNo /\ TaskNo' = TaskNo
  BY DEF TypeOK, TaskInv, BeginTask, TaskNo
<1>3. /\ pc' \in [Engine -> {"task", "front", "delayed", "end"}]
      /\ task' \in [Engine -> Nat]
  <2>1. CASE NextTask(e, t)
    BY <1>2, <2>1, NextTaskType
  <2>2. CASE pc' \in {[pc EXCEPT ![e] = "front"], [pc EXCEPT ![e] = "delayed"]} /\ UNCHANGED task
    BY <2>2 DEF TypeOK
  <2> QED BY <2>1, <2>2 DEF BeginTask
<1>4. ctx' \in [Engine -> [Slot -> Nat]]
  <2>1. CASE UNCHANGED ctx
    BY <2>1 DEF TypeOK
  <2>2. CASE ctx' = [ctx EXCEPT ![e][StateSlot(e)] = t]
    BY <1>1, <1>2, <2>2 DEF TypeOK
  <2> QED BY <2>1, <2>2 DEF BeginTask
<1>5. EmptyOutput(t) \in Output
  BY <1>2 DEF EmptyOutput, Output
<1>6. out' \in [Vec -> [TaskNo' -> Output]]
  <2>1. CASE UNCHANGED out
    BY <1>2, <2>1 DEF TypeOK
  <2>2. CASE InitOutWhenZero(e, t)
    BY <1>2, <1>5, <2>2 DEF InitOutWhenZero, TypeOK
  <2> QED BY <2>1, <2>2 DEF BeginTask
<1> QED BY <1>3, <1>4, <1>6 DEF TypeOK, BeginTask, opVars, flagVars

(* The end of an iteration keeps the types of the walk.                    *)
LEMMA AdvanceType ==
  ASSUME NEW e \in Engine, TypeOK, Advance(e)
  PROVE  /\ pc' \in [Engine -> {"task", "front", "delayed", "end"}]
         /\ task' \in [Engine -> Nat]
         /\ kv' \in [Engine -> Nat]
         /\ issued' \in [Engine -> Nat]
         /\ taskSeq' \in [Engine -> Nat]
<1>1. task[e] \in Nat /\ kv[e] \in Nat
  BY DEF TypeOK
<1>2. HasWork(task[e]) \in Nat
  BY DEF HasWork
<1>3. /\ pc' \in [Engine -> {"task", "front", "delayed", "end"}]
      /\ task' \in [Engine -> Nat]
      /\ taskSeq' \in [Engine -> Nat]
  <2>1. CASE NextTask(e, task[e]) /\ taskSeq' = [taskSeq EXCEPT ![e] = @ + HasWork(task[e])]
    <3>1. taskSeq' \in [Engine -> Nat]
      BY <1>2, <2>1 DEF TypeOK
    <3> QED BY <1>1, <2>1, <3>1, NextTaskType
  <2>2. CASE UNCHANGED <<task, taskSeq>> /\ pc' = [pc EXCEPT ![e] = IF kv[e] + 1 < work[task[e]].stacks
                                  THEN "front" ELSE "delayed"]
    BY <2>2 DEF TypeOK
  <2> QED BY <2>1, <2>2 DEF Advance
<1>4. kv' \in [Engine -> Nat] /\ issued' \in [Engine -> Nat]
  BY DEF TypeOK, Advance
<1> QED BY <1>3, <1>4

(* The descriptor of an iteration is a Descriptor.                         *)
LEMMA StackDescriptorType ==
  ASSUME NEW e \in Engine, TypeOK
  PROVE  StackDescriptor(e) \in Descriptor
BY ModRange DEF TypeOK, StackDescriptor, StateSlot, Descriptor

(* So is the one a delayed operation is issued with.                       *)
LEMMA DelayedOpType ==
  ASSUME NEW e \in Engine, TypeOK, issued[e] >= PRE_LAUNCH
  PROVE  DelayedOp(e) \in Descriptor
<1> DEFINE s == (issued[e] - PRE_LAUNCH) % STACK_SLOTS
           d == desc[e][s]
<1>1. issued[e] - PRE_LAUNCH \in Nat
  BY PreLaunchAssumption DEF TypeOK
<1>2. s \in Slot
  BY <1>1, ModRange
<1>3. d \in Descriptor
  BY <1>2 DEF TypeOK
<1>4. d.state \in Slot
  BY <1>3 DEF Descriptor
<1>5. ctx[e][d.state] \in Nat
  BY <1>4 DEF TypeOK
<1> HIDE DEF d
<1>6. DelayedOp(e) = [d EXCEPT !.task = ctx[e][d.state]]
  BY DEF DelayedOp, d
<1> QED BY <1>3, <1>5, <1>6 DEF Descriptor

(* Issuing a front operation keeps the types of what all engines have.     *)
LEMMA IssueFrontType ==
  ASSUME NEW e \in Engine, TypeOK, IssueFront(e)
  PROVE  /\ pc' \in [Engine -> {"task", "front", "delayed", "end"}]
         /\ desc' \in [Engine -> [Slot -> Descriptor]]
         /\ front' \in [Engine -> Seq(Operation)]
         /\ StackDescriptor(e).slot \in Slot
<1> DEFINE d == StackDescriptor(e)
<1>1. d \in Descriptor
  BY StackDescriptorType
<1>2. d.slot \in Slot
  BY <1>1 DEF Descriptor
<1>3. Op(d, Len(delayed[e])) \in Operation
  BY <1>1 DEF Op, Operation, TypeOK
<1> HIDE DEF d
<1>4. desc' = [desc EXCEPT ![e][d.slot] = d]
  BY DEF IssueFront, d
<1>5. front' = [front EXCEPT ![e] = Append(@, Op(d, Len(delayed[e])))]
  BY DEF IssueFront, d
<1>6. pc' = [pc EXCEPT ![e] = "delayed"]
  BY DEF IssueFront
<1>7. d.slot = StackDescriptor(e).slot
  BY DEF d
<1> QED BY <1>1, <1>2, <1>3, <1>4, <1>5, <1>6, <1>7 DEF TypeOK

(* Likewise for a delayed operation.                                       *)
LEMMA IssueDelayedType ==
  ASSUME NEW e \in Engine, TypeOK, IssueDelayed(e)
  PROVE  /\ delayed' \in [Engine -> Seq(Operation)]
         /\ DelayedOp(e).slot \in Slot
<1>1. DelayedOp(e) \in Descriptor
  BY DelayedOpType DEF IssueDelayed
<1>2. DelayedOp(e).slot \in Slot
  BY <1>1 DEF Descriptor
<1>3. Op(DelayedOp(e), Len(front[e])) \in Operation
  BY <1>1 DEF Op, Operation, TypeOK
<1>4. delayed' = [delayed EXCEPT ![e] = Append(@, Op(DelayedOp(e), Len(front[e])))]
  BY DEF IssueDelayed
<1> QED BY <1>2, <1>3, <1>4 DEF TypeOK

(* Adding one to every flag keeps the counters natural numbers.            *)
LEMMA IncrementType ==
  ASSUME NEW X, NEW f \in [X -> Nat], NEW x \in X
  PROVE  [f EXCEPT ![x] = f[x] + 1] \in [X -> Nat]
OBVIOUS

(* The mark of a buffer being written is an integer like a stack number.   *)
LEMMA BusyType == Busy \in Int
BY DEF Busy

(* The four operations issued: the cube and the vector engines.            *)
LEMMA IssueQKType == TypeOK /\ IssueQK => TypeOK'
<1> SUFFICES ASSUME TypeOK, IssueQK PROVE TypeOK'
  OBVIOUS
<1>1. IssueFront(Cube)
  BY DEF IssueQK
<1>2. S' \in [Slot -> Int]
  BY BusyType, <1>1, IssueFrontType, EngineFacts DEF IssueQK, TypeOK
<1>3. TaskNo' = TaskNo
  BY <1>1 DEF IssueFront, TaskNo
<1> QED BY <1>1, <1>2, <1>3, IssueFrontType, EngineFacts DEF TypeOK, IssueQK, IssueFront

(* The softmax of a vector engine. *)
LEMMA IssueSMType == \A v \in Vec : TypeOK /\ IssueSM(v) => TypeOK'
<1> SUFFICES ASSUME NEW v \in Vec, TypeOK, IssueSM(v) PROVE TypeOK'
  OBVIOUS
<1>1. IssueFront(v)
  BY DEF IssueSM
<1>2. P' \in [Vec -> [Slot -> Int]]
  <2> DEFINE s == StackDescriptor(v).slot
  <2>1. s \in Slot
    BY <1>1, IssueFrontType, EngineFacts
  <2> HIDE DEF s
  <2>2. P' = P \/ P' = [P EXCEPT ![v][s] = Busy]
    BY DEF IssueSM, s
  <2>3. P \in [Vec -> [Slot -> Int]]
    BY DEF TypeOK
  <2>4. [P EXCEPT ![v][s] = Busy] \in [Vec -> [Slot -> Int]]
    BY <2>1, <2>3, BusyType
  <2> QED BY <2>2, <2>3, <2>4
<1>3. qkReady' \in [Vec -> Nat]
  <2> qkReady[v] > 0
    BY DEF IssueSM
  <2>1. qkReady[v] - 1 \in Nat
    BY DEF TypeOK
  <2>2. qkReady' = [qkReady EXCEPT ![v] = qkReady[v] - 1]
    BY DEF IssueSM
  <2> QED BY <2>1, <2>2 DEF TypeOK
<1>4. TaskNo' = TaskNo
  BY <1>1 DEF IssueFront, TaskNo
<1> QED BY <1>1, <1>2, <1>3, <1>4, IssueFrontType, EngineFacts DEF TypeOK, IssueSM, IssueFront

(* The delayed product of the cube. *)
LEMMA IssuePVType == TypeOK /\ IssuePV => TypeOK'
<1> SUFFICES ASSUME TypeOK, IssuePV PROVE TypeOK'
  OBVIOUS
<1>1. IssueDelayed(Cube)
  BY DEF IssuePV
<1>2. OTmp' \in [Slot -> Int]
  BY BusyType, <1>1, IssueDelayedType, EngineFacts DEF IssuePV, TypeOK
<1>3. softmaxReady' \in [Vec -> Nat]
  <2>1. \A v \in Vec : softmaxReady[v] - 1 \in Nat
    BY DEF IssuePV, TypeOK
  <2> QED BY <2>1 DEF IssuePV
<1>4. TaskNo' = TaskNo
  BY <1>1 DEF IssueDelayed, TaskNo
<1>5. Advance(Cube)
  BY <1>1 DEF IssueDelayed
<1> QED BY <1>1, <1>2, <1>3, <1>4, <1>5, IssueDelayedType, AdvanceType, EngineFacts
    DEF TypeOK, IssuePV, IssueDelayed

(* The delayed rescale of a vector engine. *)
LEMMA IssueRSType == \A v \in Vec : TypeOK /\ IssueRS(v) => TypeOK'
<1> SUFFICES ASSUME NEW v \in Vec, TypeOK, IssueRS(v) PROVE TypeOK'
  OBVIOUS
<1>1. IssueDelayed(v)
  BY DEF IssueRS
<1>2. pvReady' \in [Vec -> Nat]
  <2>1. pvReady[v] - 1 \in Nat
    BY DEF IssueRS, TypeOK
  <2>2. pvReady' = [pvReady EXCEPT ![v] = pvReady[v] - 1]
    BY DEF IssueRS
  <2> QED BY <2>1, <2>2 DEF TypeOK
<1>3. TaskNo' = TaskNo
  BY <1>1 DEF IssueDelayed, TaskNo
<1>4. Advance(v)
  BY <1>1 DEF IssueDelayed
<1> QED BY <1>1, <1>2, <1>3, <1>4, IssueDelayedType, AdvanceType, EngineFacts
    DEF TypeOK, IssueRS, IssueDelayed

(* An iteration that only fills the pipeline keeps the types.              *)
LEMMA SkipDelayedType == \A e \in Engine : TypeOK /\ SkipDelayed(e) => TypeOK'
<1> SUFFICES ASSUME NEW e \in Engine, TypeOK, SkipDelayed(e) PROVE TypeOK'
  OBVIOUS
<1>1. Advance(e) /\ TaskNo' = TaskNo
  BY DEF SkipDelayed, TaskNo
<1> QED BY <1>1, AdvanceType DEF TypeOK, SkipDelayed, opVars, flagVars, bufVars

(* An operation that may complete exists and is an Operation.              *)
LEMMA OldestType ==
  ASSUME NEW e \in Engine, TypeOK
  PROVE  /\ CanCompleteFront(e) => OldestFront(e) \in Descriptor
         /\ CanCompleteDelayed(e) => OldestDelayed(e) \in Descriptor
<1>1. ASSUME CanCompleteFront(e) PROVE OldestFront(e) \in Descriptor
  <2>1. front[e][frontDone[e] + 1] \in Operation
    BY <1>1 DEF TypeOK, CanCompleteFront
  <2> QED BY <2>1 DEF OldestFront, Operation
<1>2. ASSUME CanCompleteDelayed(e) PROVE OldestDelayed(e) \in Descriptor
  <2>1. delayed[e][delayedDone[e] + 1] \in Operation
    BY <1>2 DEF TypeOK, CanCompleteDelayed
  <2> QED BY <2>1 DEF OldestDelayed, Operation
<1> QED BY <1>1, <1>2

(* The four completions keep the types.                                    *)
LEMMA CompleteCubeType == TypeOK /\ (CompleteQK \/ CompletePV) => TypeOK'
<1>1. ASSUME TypeOK, CompleteQK PROVE TypeOK'
  <2> DEFINE d == OldestFront(Cube)
  <2>1. d.slot \in Slot /\ d.num \in Int
    BY <1>1, OldestType, EngineFacts DEF CompleteQK, Descriptor
  <2>2. S' \in [Slot -> Int]
    BY <1>1, <2>1 DEF CompleteQK, TypeOK
  <2>3. qkReady' \in [Vec -> Nat]
    BY <1>1 DEF CompleteQK, TypeOK
  <2>4. frontDone' \in [Engine -> Nat]
    BY <1>1, EngineFacts DEF CompleteQK, TypeOK
  <2>5. TaskNo' = TaskNo
    BY <1>1 DEF CompleteQK, TaskNo
  <2> QED BY <1>1, <2>2, <2>3, <2>4, <2>5 DEF TypeOK, CompleteQK, walkVars
<1>2. ASSUME TypeOK, CompletePV PROVE TypeOK'
  <2> DEFINE d == OldestDelayed(Cube)
  <2>1. d.slot \in Slot /\ d.num \in Int
    BY <1>2, OldestType, EngineFacts DEF CompletePV, Descriptor
  <2>2. OTmp' \in [Slot -> Int]
    BY <1>2, <2>1 DEF CompletePV, TypeOK
  <2>3. pvReady' \in [Vec -> Nat]
    BY <1>2 DEF CompletePV, TypeOK
  <2>4. delayedDone' \in [Engine -> Nat]
    BY <1>2, EngineFacts DEF CompletePV, TypeOK
  <2>5. TaskNo' = TaskNo
    BY <1>2 DEF CompletePV, TaskNo
  <2> QED BY <1>2, <2>2, <2>3, <2>4, <2>5 DEF TypeOK, CompletePV, walkVars
<1> QED BY <1>1, <1>2

(* The softmax completed. *)
LEMMA CompleteSMType == \A v \in Vec : TypeOK /\ CompleteSM(v) => TypeOK'
<1> SUFFICES ASSUME NEW v \in Vec, TypeOK, CompleteSM(v) PROVE TypeOK'
  OBVIOUS
<1> DEFINE d == OldestFront(v)
           x == S[d.slot]
<1>1. d.slot \in Slot /\ d.state \in Slot /\ d.num \in Int
  BY OldestType, EngineFacts DEF CompleteSM, Descriptor
<1>2. x \in Int
  BY <1>1 DEF TypeOK
<1>3. /\ P' \in [Vec -> [Slot -> Int]]
      /\ dm' \in [Vec -> [Slot -> Int]]
      /\ gl' \in [Vec -> [Slot -> Seq(Int)]]
  <2>1. CASE UNCHANGED <<P, dm, gl>>
    BY <2>1 DEF TypeOK
  <2>2. CASE Active(v, d.task)
    <3>1. gl[v][d.state] \in Seq(Int)
      BY <1>1 DEF TypeOK
    <3>2. (IF d.first THEN <<x>> ELSE Append(gl[v][d.state], x)) \in Seq(Int)
      BY <1>2, <3>1
    <3>3. P' = [P EXCEPT ![v][d.slot] = x] /\ dm' = [dm EXCEPT ![v][d.slot] = d.num]
      BY <2>2 DEF CompleteSM
    <3>4. gl' = [gl EXCEPT ![v][d.state] =
                   IF d.first THEN <<x>> ELSE Append(gl[v][d.state], x)]
      BY <2>2 DEF CompleteSM
    <3> HIDE DEF d, x
    <3> QED BY <1>1, <1>2, <3>2, <3>3, <3>4 DEF TypeOK
  <2> QED BY <2>1, <2>2 DEF CompleteSM
<1>4. softmaxReady' \in [Vec -> Nat]
  <2>1. softmaxReady' = [softmaxReady EXCEPT ![v] = softmaxReady[v] + 1]
    BY DEF CompleteSM
  <2>2. softmaxReady \in [Vec -> Nat]
    BY DEF TypeOK
  <2> QED BY <2>1, <2>2, EngineFacts, IncrementType
<1>5. frontDone' \in [Engine -> Nat]
  <2>1. frontDone' = [frontDone EXCEPT ![v] = frontDone[v] + 1]
    BY DEF CompleteSM
  <2>2. frontDone \in [Engine -> Nat]
    BY DEF TypeOK
  <2> QED BY <2>1, <2>2, EngineFacts, IncrementType
<1>6. TaskNo' = TaskNo
  BY DEF CompleteSM, TaskNo
<1> QED BY <1>3, <1>4, <1>5, <1>6 DEF TypeOK, CompleteSM, walkVars

(* The rescale completed. *)
LEMMA CompleteRSType == \A v \in Vec : TypeOK /\ CompleteRS(v) => TypeOK'
<1> SUFFICES ASSUME NEW v \in Vec, TypeOK, CompleteRS(v) PROVE TypeOK'
  OBVIOUS
<1> DEFINE d == OldestDelayed(v)
           terms == IF d.first THEN <<Term(v, d)>> ELSE Append(acc[v], Term(v, d))
           o == [task |-> d.task, terms |-> terms, norm |-> gl[v][d.state]]
<1>1. d.slot \in Slot /\ d.state \in Slot /\ d.num \in Int /\ d.task \in Nat
  BY OldestType, EngineFacts DEF CompleteRS, Descriptor
<1>2. Term(v, d) \in [value : Int, scale : Int]
  BY <1>1 DEF TypeOK, Term
<1>3. terms \in Seq([value : Int, scale : Int])
  <2> DEFINE x == Term(v, d)
             R == [value : Int, scale : Int]
  <2>1. acc[v] \in Seq(R) /\ x \in R
    BY <1>2 DEF TypeOK
  <2> HIDE DEF x, R
  <2>2. <<x>> \in Seq(R) /\ Append(acc[v], x) \in Seq(R)
    BY <2>1
  <2> QED BY <2>2 DEF x, R
<1>4. o \in Output
  BY <1>1, <1>3 DEF TypeOK, Output
<1>5. acc' \in [Vec -> Seq([value : Int, scale : Int])]
  <2>1. CASE UNCHANGED acc
    BY <2>1 DEF TypeOK
  <2>2. CASE acc' = [acc EXCEPT ![v] = terms]
    BY <1>3, <2>2 DEF TypeOK
  <2> QED BY <2>1, <2>2 DEF CompleteRS
<1>6. out' \in [Vec -> [TaskNo -> Output]]
  <2>1. CASE UNCHANGED out
    BY <2>1 DEF TypeOK
  <2>2. CASE out' = [out EXCEPT ![v][d.task] = o]
    <3> HIDE DEF d, o
    <3> QED BY <1>4, <2>2 DEF TypeOK
  <2> QED BY <2>1, <2>2 DEF CompleteRS
<1>7. delayedDone' \in [Engine -> Nat]
  <2>1. delayedDone' = [delayedDone EXCEPT ![v] = delayedDone[v] + 1]
    BY DEF CompleteRS
  <2>2. delayedDone \in [Engine -> Nat]
    BY DEF TypeOK
  <2> QED BY <2>1, <2>2, EngineFacts, IncrementType
<1>8. TaskNo' = TaskNo
  BY DEF CompleteRS, TaskNo
<1> QED BY <1>5, <1>6, <1>7, <1>8 DEF TypeOK, CompleteRS, walkVars, flagVars

(* A step that changes nothing keeps the types.                            *)
LEMMA StutterType == TypeOK /\ UNCHANGED vars => TypeOK'
BY DEF TypeOK, vars, walkVars, opVars, flagVars, bufVars, TaskNo

-----------------------------------------------------------------------------
(* The inductive invariant.  It counts: Fr(e) front and De(e) delayed      *)
(* operations have been issued by engine e.                                *)
Fr(e) == Len(front[e])
De(e) == Len(delayed[e])

(* The control flow: how many operations the walk has issued.  In the      *)
(* draining iterations issued runs ahead of the front operations.          *)
Draining(e) ==
  /\ IsLast(task[e])
  /\ kv[e] < LoopEnd(task[e])
  /\ issued[e] + work[task[e]].stacks = Fr(e) + kv[e]

CountInv(e) ==
  /\ pc[e] # "end" => task[e] \in TaskNo
  /\ pc[e] \in {"task", "front"} => issued[e] = Fr(e)
  /\ pc[e] = "front" => kv[e] < work[task[e]].stacks
  /\ pc[e] = "delayed" /\ kv[e] < work[task[e]].stacks => Fr(e) = issued[e] + 1
  /\ pc[e] = "delayed" /\ kv[e] >= work[task[e]].stacks => Draining(e)
  /\ pc[e] # "end" => De(e) = IF issued[e] >= PRE_LAUNCH
                              THEN issued[e] - PRE_LAUNCH ELSE 0
  /\ pc[e] = "end" => De(e) = Fr(e)
  /\ De(e) <= Fr(e)
  /\ Fr(e) <= De(e) + STACK_SLOTS

(* Every flag count is the number of times it was set less the number of   *)
(* times it was consumed.                                                  *)
FlagInv ==
  /\ \A e \in Engine : frontDone[e] <= Fr(e) /\ delayedDone[e] <= De(e)
  /\ \A v \in Vec : /\ qkReady[v] + Fr(v) = frontDone[Cube]
                    /\ softmaxReady[v] + De(Cube) = frontDone[v]
                    /\ pvReady[v] + De(v) = delayedDone[Cube]

(* The operations issued are those of stacks 0, 1, ...; they complete in   *)
(* issue order.                                                            *)
OpsInv(e) ==
  /\ \A n \in 1 .. Fr(e) : /\ front[e][n].d.num = n - 1
                           /\ front[e][n].d.slot = (n - 1) % STACK_SLOTS
                           /\ front[e][n].after + STACK_SLOTS >= n
  /\ \A n \in 1 .. De(e) : /\ delayed[e][n].d.num = n - 1
                           /\ delayed[e][n].d.slot = (n - 1) % STACK_SLOTS
                           /\ delayed[e][n].after >= n
  /\ frontDone[e] <= delayedDone[e] + STACK_SLOTS
  /\ delayedDone[e] <= frontDone[e]

(* The descriptors of the last STACK_SLOTS stacks are all still there. *)
DescInv(e) ==
  \A n \in 1 .. Fr(e) : n + STACK_SLOTS > Fr(e) =>
    desc[e][(n - 1) % STACK_SLOTS] = front[e][n].d

(* What has been written and may still be read is intact. *)
ScoreData ==
  \A n \in 1 .. frontDone[Cube] : n + STACK_SLOTS > Fr(Cube) =>
    S[(n - 1) % STACK_SLOTS] = n - 1
ProbData(v) ==
  \A n \in 1 .. frontDone[v] :
    n + STACK_SLOTS > Fr(v) /\ Active(v, front[v][n].d.task) =>
      P[v][(n - 1) % STACK_SLOTS] = n - 1
ProductData ==
  \A n \in 1 .. delayedDone[Cube] : n + STACK_SLOTS > De(Cube) =>
    OTmp[(n - 1) % STACK_SLOTS] = n - 1
DataInv == ScoreData /\ (\A v \in Vec : ProbData(v)) /\ ProductData

(* The context of every stack still to be finished is intact: the tasks    *)
(* begun since its own have not come round to its state slot.              *)
StackSeq(e, n, q) ==
  /\ front[e][n].d.state = q % STACK_SLOTS
  /\ q <= taskSeq[e]
  /\ taskSeq[e] <= q + (Fr(e) - n) + 1
  /\ pc[e] = "task" => q < taskSeq[e]
  /\ pc[e] = "delayed" /\ kv[e] < work[task[e]].stacks =>
       taskSeq[e] <= q + (Fr(e) - n)

CtxInv(e) ==
  /\ pc[e] \in {"front", "delayed"} /\ kv[e] < work[task[e]].stacks =>
       ctx[e][StateSlot(e)] = task[e]
  /\ \A n \in De(e) + 1 .. Fr(e) :
       /\ ctx[e][front[e][n].d.state] = front[e][n].d.task
       /\ \E q \in Nat : StackSeq(e, n, q)
  /\ \A n \in 1 .. De(e) : delayed[e][n].d = front[e][n].d

LocalInv(e) == CountInv(e) /\ OpsInv(e) /\ DescInv(e) /\ CtxInv(e)

IInv ==
  /\ TypeOK
  /\ \A e \in Engine : LocalInv(e)
  /\ FlagInv
  /\ DataInv

(* The counts of the invariant are natural numbers.                        *)
LEMMA Numbers ==
  ASSUME TypeOK, NEW e \in Engine
  PROVE  /\ PRE_LAUNCH \in Nat /\ PRE_LAUNCH >= 1
         /\ STACK_SLOTS = PRE_LAUNCH + 1
         /\ Fr(e) \in Nat /\ De(e) \in Nat
         /\ issued[e] \in Nat /\ kv[e] \in Nat /\ taskSeq[e] \in Nat
         /\ frontDone[e] \in Nat /\ delayedDone[e] \in Nat
<1>1. front[e] \in Seq(Operation) /\ delayed[e] \in Seq(Operation)
  BY DEF TypeOK
<1>2. Fr(e) \in Nat /\ De(e) \in Nat
  BY <1>1 DEF Fr, De
<1>3. STACK_SLOTS = PRE_LAUNCH + 1
  BY DEF STACK_SLOTS
<1> QED BY <1>2, <1>3, PreLaunchAssumption DEF TypeOK

(* A task drains PRE_LAUNCH iterations or none.                            *)
LEMMA DrainFact ==
  ASSUME TypeOK, NEW t \in TaskNo
  PROVE  /\ work[t].stacks \in Nat
         /\ LoopEnd(t) = work[t].stacks + (IF IsLast(t) THEN PRE_LAUNCH ELSE 0)
BY WorkType DEF LoopEnd, Drain

(* An engine's own invariant speaks of its own state only. *)
LEMMA Frame ==
  ASSUME NEW x \in Engine, LocalInv(x), work' = work,
         pc'[x] = pc[x], task'[x] = task[x], kv'[x] = kv[x],
         issued'[x] = issued[x], taskSeq'[x] = taskSeq[x],
         desc'[x] = desc[x], ctx'[x] = ctx[x],
         front'[x] = front[x], frontDone'[x] = frontDone[x],
         delayed'[x] = delayed[x], delayedDone'[x] = delayedDone[x]
  PROVE  LocalInv(x)'
<1>1. Fr(x)' = Fr(x) /\ De(x)' = De(x)
  BY DEF Fr, De
<1>2. CountInv(x)'
  BY <1>1 DEF LocalInv, CountInv, TaskNo, Draining, IsLast, LoopEnd, Drain
<1>3. OpsInv(x)'
  BY <1>1 DEF LocalInv, OpsInv
<1>4. DescInv(x)'
  BY <1>1 DEF LocalInv, DescInv
<1>5. CtxInv(x)'
  BY <1>1 DEF LocalInv, CtxInv, StackSeq, StateSlot
<1> QED BY <1>2, <1>3, <1>4, <1>5 DEF LocalInv

(* The end of an iteration keeps the count of operations exact: issued     *)
(* runs ahead of the front operations only in the draining iterations.     *)
LEMMA AdvanceCount ==
  ASSUME NEW e \in Engine, TypeOK, CountInv(e), pc[e] = "delayed", Advance(e),
         work' = work, Fr(e)' = Fr(e),
         De(e)' = IF issued[e] >= PRE_LAUNCH THEN De(e) + 1 ELSE De(e)
  PROVE  CountInv(e)'
<1> DEFINE t == task[e]
           n == work[t].stacks
<1>1. t \in TaskNo /\ n \in Nat /\ t \in Nat /\ TaskNo' = TaskNo
  BY WorkType DEF CountInv, TaskNo, TypeOK
<1>2. LoopEnd(t) = n + (IF IsLast(t) THEN PRE_LAUNCH ELSE 0)
  BY <1>1, DrainFact
<1>3. issued'[e] = issued[e] + 1 /\ kv'[e] = kv[e] + 1
  BY DEF Advance, TypeOK
<1>4. De(e) <= Fr(e) /\ Fr(e) <= De(e) + STACK_SLOTS
  BY DEF CountInv
<1>5. De(e) = IF issued[e] >= PRE_LAUNCH THEN issued[e] - PRE_LAUNCH ELSE 0
  BY DEF CountInv
<1>8. LoopEnd(t) \in Nat /\ kv[e] \in Nat
  BY <1>1, <1>2, Numbers
<1>6. CASE kv[e] + 1 < LoopEnd(t)
  <2>1. /\ task'[e] = t
        /\ pc'[e] = IF kv[e] + 1 < n THEN "front" ELSE "delayed"
    <3>1. ~(kv[e] + 1 >= LoopEnd(t))
      BY <1>6, <1>8
    <3> QED BY <3>1 DEF Advance, TypeOK
  <2>2. /\ IsLast(task[e])' = IsLast(t)
        /\ LoopEnd(task[e])' = LoopEnd(t)
        /\ work'[task'[e]].stacks = n
    BY <2>1 DEF IsLast, LoopEnd, Drain
  <2>3. CASE kv[e] < n
    <3>1. Fr(e) = issued[e] + 1
      BY <2>3 DEF CountInv
    <3>2. CASE kv[e] + 1 < n
      BY <1>1, <1>3, <1>4, <1>5, <2>1, <3>1, <3>2, Numbers DEF CountInv
    <3>3. CASE kv[e] + 1 >= n
      <4>1. kv[e] + 1 = n /\ IsLast(t)
        BY <1>1, <1>2, <1>6, <2>3, <3>3, Numbers
      <4>2. Draining(e)'
        BY <4>1, <1>1, <1>3, <1>6, <1>8, <2>2, <3>1, Numbers DEF Draining
      <4> QED BY <1>1, <1>3, <1>4, <1>5, <2>1, <3>1, <4>1, <4>2, Numbers DEF CountInv
    <3> QED BY <3>2, <3>3, <1>1, Numbers
  <2>4. CASE kv[e] >= n
    <3>1. Draining(e)
      BY <2>4 DEF CountInv
    <3>2. Draining(e)'
      BY <3>1, <1>1, <1>3, <1>6, <1>8, <2>2, Numbers DEF Draining
    <3> QED BY <1>1, <1>2, <1>3, <1>4, <1>5, <1>6, <2>1, <2>4, <3>1, <3>2, Numbers DEF CountInv, Draining
  <2> QED BY <2>3, <2>4, <1>1, Numbers
<1>7. CASE kv[e] + 1 >= LoopEnd(t)
  <2>1. /\ task'[e] = t + 1
        /\ pc'[e] = IF IsLast(t) THEN "end" ELSE "task"
    <3>1. ~(kv[e] + 1 < LoopEnd(t))
      BY <1>7, <1>8
    <3> QED BY <3>1 DEF Advance, NextTask, TypeOK
  <2>2. CASE kv[e] < n
    <3>1. Fr(e) = issued[e] + 1 /\ ~ IsLast(t)
      BY <1>1, <1>2, <1>7, <2>2, Numbers DEF CountInv
    <3>2. t + 1 \in TaskNo'
      BY <3>1, <1>1 DEF TaskNo, IsLast, TypeOK
    <3> QED BY <1>1, <1>3, <1>4, <1>5, <2>1, <3>1, <3>2, Numbers DEF CountInv
  <2>3. CASE kv[e] >= n
    <3>1. IsLast(t) /\ issued[e] + 1 = Fr(e) + PRE_LAUNCH
      BY <1>1, <1>2, <1>7, <2>3, Numbers DEF CountInv, Draining
    <3> QED BY <1>1, <1>3, <1>4, <1>5, <2>1, <3>1, Numbers DEF CountInv
  <2> QED BY <2>2, <2>3, <1>1, Numbers
<1> QED BY <1>6, <1>7, <1>8

(* Beginning a task keeps the engine's invariant: the state slot it takes  *)
(* is not one of a stack still to be finished.                             *)
LEMMA BeginTaskLocal ==
  ASSUME NEW e \in Engine, TypeOK, LocalInv(e), BeginTask(e)
  PROVE  LocalInv(e)'
<1> DEFINE t == task[e]
<1>1. pc[e] = "task" /\ t \in TaskNo /\ t \in Nat /\ TaskNo' = TaskNo /\ work' = work
  BY DEF BeginTask, LocalInv, CountInv, TaskNo, TypeOK
<1>2. /\ front' = front /\ delayed' = delayed /\ frontDone' = frontDone
      /\ delayedDone' = delayedDone /\ issued' = issued /\ taskSeq' = taskSeq
      /\ desc' = desc /\ kv'[e] = 0
  BY DEF BeginTask, opVars, TypeOK
<1>3. Fr(e)' = Fr(e) /\ De(e)' = De(e)
  BY <1>2 DEF Fr, De
<1>4. work[t].stacks \in Nat /\ LoopEnd(t) = work[t].stacks + (IF IsLast(t) THEN PRE_LAUNCH ELSE 0)
  BY <1>1, DrainFact
<1>5. /\ issued[e] = Fr(e) /\ De(e) <= Fr(e) /\ Fr(e) <= De(e) + STACK_SLOTS
      /\ De(e) = IF issued[e] >= PRE_LAUNCH THEN issued[e] - PRE_LAUNCH ELSE 0
  BY <1>1 DEF LocalInv, CountInv
<1>6. OpsInv(e)' /\ DescInv(e)'
  BY <1>2, <1>3 DEF LocalInv, OpsInv, DescInv
<1>7. CASE work[t].stacks > 0
  <2>1. /\ ctx' = [ctx EXCEPT ![e][StateSlot(e)] = t]
        /\ pc'[e] = "front" /\ task' = task
    BY <1>7, <1>4 DEF BeginTask, TypeOK
  <2>2. CountInv(e)'
    BY <1>1, <1>2, <1>3, <1>4, <1>5, <1>7, <2>1, Numbers DEF CountInv
  <2>3. StateSlot(e) \in Slot /\ ctx'[e][StateSlot(e)] = t
    BY <2>1, ModRange DEF StateSlot, TypeOK
  <2>4. StateSlot(e)' = StateSlot(e)
    BY <1>2 DEF StateSlot
  <2>5. ASSUME NEW n \in De(e) + 1 .. Fr(e)
        PROVE  /\ ctx'[e][front[e][n].d.state] = front[e][n].d.task
               /\ \E q \in Nat : StackSeq(e, n, q)'
    <3>1. PICK q \in Nat : StackSeq(e, n, q)
      BY DEF LocalInv, CtxInv
    <3>2. q < taskSeq[e] /\ taskSeq[e] < q + STACK_SLOTS
      BY <1>1, <1>5, <3>1, Numbers DEF StackSeq
    <3>3. q % STACK_SLOTS # StateSlot(e)
      BY <3>2, ModUnique, Numbers DEF StateSlot
    <3>4. ctx'[e][q % STACK_SLOTS] = ctx[e][q % STACK_SLOTS]
      BY <2>1, <3>3, ModRange DEF TypeOK
    <3>5. StackSeq(e, n, q)'
      BY <1>2, <1>3, <1>7, <2>1, <3>1, <3>2 DEF StackSeq
    <3> QED BY <3>1, <3>4, <3>5 DEF LocalInv, CtxInv, StackSeq
  <2>6. CtxInv(e)'
    BY <1>2, <1>3, <2>1, <2>3, <2>4, <2>5 DEF LocalInv, CtxInv
  <2> QED BY <1>6, <2>2, <2>6 DEF LocalInv
<1>8. CASE work[t].stacks = 0
  <2>1. ctx' = ctx
    BY <1>8, <1>4 DEF BeginTask
  <2>2. CASE IsLast(t)
    <3>1. pc'[e] = "delayed" /\ task' = task
      BY <1>8, <1>4, <2>2 DEF BeginTask, TypeOK
    <3>2. Draining(e)'
      BY <1>1, <1>2, <1>3, <1>4, <1>5, <1>8, <2>2, <3>1, Numbers
      DEF Draining, IsLast, LoopEnd, Drain
    <3>3. CountInv(e)'
      BY <1>1, <1>2, <1>3, <1>4, <1>5, <1>8, <3>1, <3>2, Numbers DEF CountInv
    <3>4. ASSUME NEW n \in De(e) + 1 .. Fr(e), NEW q \in Nat, StackSeq(e, n, q)
          PROVE  StackSeq(e, n, q)'
      BY <1>1, <1>2, <1>3, <1>8, <3>1, <3>4 DEF StackSeq
    <3>5. CtxInv(e)'
      BY <1>1, <1>2, <1>3, <1>8, <2>1, <3>1, <3>4 DEF LocalInv, CtxInv
    <3> QED BY <1>6, <3>3, <3>5 DEF LocalInv
  <2>3. CASE ~ IsLast(t)
    <3>1. pc'[e] = "task" /\ task'[e] = t + 1
      BY <1>8, <1>4, <2>3 DEF BeginTask, NextTask, TypeOK
    <3>2. t + 1 \in TaskNo
      BY <1>1, <2>3 DEF TaskNo, IsLast, TypeOK
    <3>3. CountInv(e)'
      BY <1>1, <1>2, <1>3, <1>5, <3>1, <3>2, Numbers DEF CountInv
    <3>4. ASSUME NEW n \in De(e) + 1 .. Fr(e), NEW q \in Nat, StackSeq(e, n, q)
          PROVE  StackSeq(e, n, q)'
      BY <1>1, <1>2, <1>3, <3>1, <3>4 DEF StackSeq
    <3>5. CtxInv(e)'
      BY <1>1, <1>2, <1>3, <2>1, <3>1, <3>4 DEF LocalInv, CtxInv
    <3> QED BY <1>6, <3>3, <3>5 DEF LocalInv
  <2> QED BY <2>2, <2>3
<1> QED BY <1>4, <1>7, <1>8

(* Issuing a front operation keeps the engine's invariant: the descriptor  *)
(* slot it takes is free.                                                  *)
LEMMA IssueFrontLocal ==
  ASSUME NEW e \in Engine, TypeOK, LocalInv(e), IssueFront(e)
  PROVE  LocalInv(e)'
<1> DEFINE t == task[e]
           d == StackDescriptor(e)
           f == Fr(e)
<1>1. /\ pc[e] = "front" /\ pc'[e] = "delayed"
      /\ work' = work /\ task' = task /\ kv' = kv /\ issued' = issued
      /\ taskSeq' = taskSeq /\ ctx' = ctx /\ frontDone' = frontDone
      /\ delayed' = delayed /\ delayedDone' = delayedDone
  BY DEF IssueFront, TypeOK
<1>2. /\ t \in TaskNo /\ work[t].stacks \in Nat /\ kv[e] < work[t].stacks
      /\ issued[e] = f /\ f \in Nat
      /\ De(e) = IF f >= PRE_LAUNCH THEN f - PRE_LAUNCH ELSE 0
  BY <1>1, WorkType, Numbers DEF LocalInv, CountInv
<1>3. d.num = f /\ d.slot = f % STACK_SLOTS /\ d.state = StateSlot(e) /\ d.task = t
  BY <1>2 DEF StackDescriptor
<1>4. /\ front'[e] = Append(front[e], Op(d, De(e)))
      /\ desc'[e] = [desc[e] EXCEPT ![f % STACK_SLOTS] = d]
  BY <1>3 DEF IssueFront, TypeOK, De
<1> HIDE DEF d, f
<1>5. /\ Fr(e)' = f + 1 /\ De(e)' = De(e)
      /\ front'[e][f + 1] = Op(d, De(e))
      /\ \A n \in 1 .. f : front'[e][n] = front[e][n]
  BY <1>1, <1>4 DEF Fr, De, f, TypeOK
<1>6. CountInv(e)'
  BY <1>1, <1>2, <1>5, Numbers, SMTT(30) DEF LocalInv, CountInv, TaskNo
<1>7. OpsInv(e)'
  <2>1. \A n \in 1 .. f : front[e][n].after + STACK_SLOTS >= n
    BY DEF LocalInv, OpsInv, f
  <2>2. De(e) + STACK_SLOTS >= f + 1
    BY <1>2, Numbers
  <2> QED BY <1>1, <1>2, <1>3, <1>5, <2>1, <2>2 DEF LocalInv, OpsInv, Op, f
<1>8. DescInv(e)'
  <2>1. ASSUME NEW n \in 1 .. f + 1, n + STACK_SLOTS > f + 1
        PROVE  desc'[e][(n - 1) % STACK_SLOTS] = front'[e][n].d
    <3>1. CASE n = f + 1
      <4>1. f % STACK_SLOTS \in Slot
        BY <1>2, ModRange
      <4>2. desc'[e][f % STACK_SLOTS] = d
        BY <1>4, <4>1 DEF TypeOK
      <4>3. (n - 1) % STACK_SLOTS = f % STACK_SLOTS
        BY <3>1, <1>2
      <4> QED BY <3>1, <1>5, <4>2, <4>3 DEF Op
    <3>2. CASE n # f + 1
      <4>1. n \in 1 .. f /\ n - 1 \in Nat /\ n - 1 < f /\ f < (n - 1) + STACK_SLOTS
        BY <1>2, <2>1, <3>2, Numbers
      <4>2. (n - 1) % STACK_SLOTS # f % STACK_SLOTS
        BY <4>1, <1>2, ModUnique
      <4>3. desc'[e][(n - 1) % STACK_SLOTS] = desc[e][(n - 1) % STACK_SLOTS]
        BY <1>4, <4>1, <4>2, ModRange DEF TypeOK
      <4>4. n + STACK_SLOTS > f
        BY <4>1, <1>2, Numbers
      <4> QED BY <1>5, <4>1, <4>3, <4>4 DEF LocalInv, DescInv, f
    <3> QED BY <3>1, <3>2
  <2> QED BY <1>5, <2>1 DEF DescInv
<1>9. CtxInv(e)'
  <2>1. StateSlot(e)' = StateSlot(e) /\ ctx[e][StateSlot(e)] = t
    BY <1>1, <1>2 DEF StateSlot, LocalInv, CtxInv
  <2>2. ASSUME NEW n \in De(e) + 1 .. f + 1
        PROVE  /\ ctx'[e][front'[e][n].d.state] = front'[e][n].d.task
               /\ \E q \in Nat : StackSeq(e, n, q)'
    <3>1. CASE n = f + 1
      <4>1. StackSeq(e, n, taskSeq[e])'
        BY <1>1, <1>3, <1>5, <3>1, Numbers DEF StackSeq, Op, StateSlot
      <4> QED BY <1>1, <1>3, <1>5, <2>1, <3>1, <4>1, Numbers DEF Op
    <3>2. CASE n # f + 1
      <4>1. n \in De(e) + 1 .. f /\ n \in 1 .. f
        BY <1>2, <3>2, Numbers
      <4>2. PICK q \in Nat : StackSeq(e, n, q)
        BY <4>1 DEF LocalInv, CtxInv, f
      <4>3. StackSeq(e, n, q)'
        BY <1>1, <1>2, <1>5, <4>1, <4>2, Numbers DEF StackSeq, f
      <4> QED BY <1>1, <1>5, <4>1, <4>3 DEF LocalInv, CtxInv, f
    <3> QED BY <3>1, <3>2
  <2>3. \A n \in 1 .. De(e) : n \in 1 .. f
    BY <1>2, Numbers
  <2> QED BY <1>1, <1>2, <1>5, <2>1, <2>2, <2>3 DEF LocalInv, CtxInv
<1> QED BY <1>6, <1>7, <1>8, <1>9 DEF LocalInv

(* The contexts of the stacks still to be finished survive the end of an   *)
(* iteration.                                                              *)
LEMMA AdvanceCtx ==
  ASSUME NEW e \in Engine, TypeOK, LocalInv(e), CountInv(e)',
         pc[e] = "delayed", Advance(e),
         work' = work, front' = front, ctx' = ctx, De(e)' >= De(e), De(e)' \in Nat,
         \A n \in 1 .. De(e)' : delayed'[e][n].d = front[e][n].d
  PROVE  CtxInv(e)'
<1> DEFINE t == task[e]
           k == work[t].stacks
<1>1. /\ t \in TaskNo /\ k \in Nat /\ kv[e] \in Nat /\ Fr(e)' = Fr(e)
      /\ LoopEnd(t) = k + (IF IsLast(t) THEN PRE_LAUNCH ELSE 0)
      /\ taskSeq[e] \in Nat /\ Fr(e) \in Nat /\ De(e) \in Nat
  BY WorkType, DrainFact, Numbers DEF LocalInv, CountInv, Fr
<1>2. kv'[e] = kv[e] + 1
  BY DEF Advance, TypeOK
<1>3. ASSUME NEW n \in De(e)' + 1 .. Fr(e)
      PROVE  n \in De(e) + 1 .. Fr(e) /\ n \in Nat
  BY <1>1, <1>3
<1>4. CASE kv[e] + 1 < LoopEnd(t)
  <2>1. /\ task'[e] = t /\ taskSeq'[e] = taskSeq[e]
        /\ pc'[e] = IF kv[e] + 1 < k THEN "front" ELSE "delayed"
    <3>1. ~(kv[e] + 1 >= LoopEnd(t))
      BY <1>1, <1>4, Numbers
    <3> QED BY <3>1 DEF Advance, TypeOK
  <2>2. kv'[e] < work'[task'[e]].stacks => ctx'[e][StateSlot(e)'] = task'[e]
    BY <1>1, <1>2, <2>1 DEF LocalInv, CtxInv, StateSlot
  <2>3. ASSUME NEW n \in De(e)' + 1 .. Fr(e), NEW q \in Nat, StackSeq(e, n, q)
        PROVE  StackSeq(e, n, q)'
    BY <1>1, <1>2, <2>1, <2>3 DEF StackSeq
  <2> QED BY <1>1, <1>3, <2>2, <2>3 DEF LocalInv, CtxInv
<1>5. CASE kv[e] + 1 >= LoopEnd(t)
  <2>1. /\ taskSeq'[e] = taskSeq[e] + HasWork(t)
        /\ pc'[e] = IF IsLast(t) THEN "end" ELSE "task"
    <3>1. ~(kv[e] + 1 < LoopEnd(t))
      BY <1>1, <1>5, Numbers
    <3> QED BY <3>1 DEF Advance, NextTask, TypeOK
  <2>2. CASE kv[e] < k
    <3>1. taskSeq'[e] = taskSeq[e] + 1
      BY <1>1, <2>1, <2>2 DEF HasWork
    <3>2. ASSUME NEW n \in De(e)' + 1 .. Fr(e), NEW q \in Nat, StackSeq(e, n, q)
          PROVE  StackSeq(e, n, q)'
      BY <1>1, <1>3, <2>1, <2>2, <3>1, <3>2 DEF StackSeq
    <3> QED BY <1>1, <1>3, <2>1, <3>2 DEF LocalInv, CtxInv
  <2>3. CASE kv[e] >= k
    <3>1. pc'[e] = "end"
      BY <2>1, <2>3 DEF LocalInv, CountInv, Draining
    <3>2. De(e)' = Fr(e)
      BY <3>1, <1>1 DEF CountInv
    <3> QED BY <1>1, <3>1, <3>2 DEF CtxInv
  <2> QED BY <2>2, <2>3, <1>1
<1> QED BY <1>1, <1>4, <1>5, Numbers

(* A delayed operation is issued with the descriptor and the task of its   *)
(* own stack.                                                              *)
LEMMA DelayedOpExact ==
  ASSUME NEW e \in Engine, TypeOK, LocalInv(e), pc[e] = "delayed",
         issued[e] >= PRE_LAUNCH
  PROVE  /\ De(e) + 1 \in 1 .. Fr(e)
         /\ DelayedOp(e) = front[e][De(e) + 1].d
<1> DEFINE j == De(e) + 1
           d == front[e][j].d
<1>1. /\ De(e) = issued[e] - PRE_LAUNCH
      /\ Fr(e) <= issued[e] + 1
      /\ j <= Fr(e)
  <2>1. De(e) = issued[e] - PRE_LAUNCH
    BY DEF LocalInv, CountInv
  <2>2. task[e] \in TaskNo
    BY DEF LocalInv, CountInv
  <2>3. CASE kv[e] < work[task[e]].stacks
    BY <2>1, <2>3, Numbers DEF LocalInv, CountInv
  <2>4. CASE kv[e] >= work[task[e]].stacks
    <3>1. Draining(e)
      BY <2>4 DEF LocalInv, CountInv
    <3> QED BY <2>1, <2>2, <2>4, <3>1, DrainFact, Numbers DEF Draining
  <2> QED BY <2>2, <2>3, <2>4, WorkType, Numbers
<1>2. j \in 1 .. Fr(e) /\ j + STACK_SLOTS > Fr(e) /\ j \in De(e) + 1 .. Fr(e)
  BY <1>1, Numbers
<1>3. (issued[e] - PRE_LAUNCH) % STACK_SLOTS = (j - 1) % STACK_SLOTS
  BY <1>1, Numbers
<1>4. desc[e][(j - 1) % STACK_SLOTS] = d
  BY <1>2 DEF LocalInv, DescInv
<1>5. ctx[e][d.state] = d.task
  BY <1>2 DEF LocalInv, CtxInv
<1>6. d \in Descriptor
  <2>1. front[e][j] \in Operation
    BY <1>2 DEF TypeOK, Fr
  <2> QED BY <2>1 DEF Operation
<1> HIDE DEF d
<1>7. DelayedOp(e) = [d EXCEPT !.task = d.task]
  BY <1>3, <1>4, <1>5 DEF DelayedOp
<1>8. [d EXCEPT !.task = d.task] = d
  BY <1>6 DEF Descriptor
<1> QED BY <1>2, <1>7, <1>8 DEF d

(* Hence issuing it keeps the engine's invariant.                          *)
LEMMA IssueDelayedLocal ==
  ASSUME NEW e \in Engine, TypeOK, LocalInv(e), IssueDelayed(e)
  PROVE  LocalInv(e)'
<1> DEFINE d == DelayedOp(e)
           m == De(e)
<1>1. /\ pc[e] = "delayed" /\ issued[e] >= PRE_LAUNCH /\ Advance(e)
      /\ work' = work /\ desc' = desc /\ ctx' = ctx /\ front' = front
      /\ frontDone' = frontDone /\ delayedDone' = delayedDone
  BY DEF IssueDelayed
<1>2. m \in Nat /\ m + 1 \in 1 .. Fr(e) /\ d = front[e][m + 1].d
  BY <1>1, DelayedOpExact, Numbers
<1> HIDE DEF d
<1>3. delayed'[e] = Append(delayed[e], Op(d, Fr(e)))
  BY DEF IssueDelayed, TypeOK, Fr, d
<1> HIDE DEF m
<1>4. /\ Fr(e)' = Fr(e) /\ De(e)' = m + 1
      /\ delayed'[e][m + 1] = Op(d, Fr(e))
      /\ \A n \in 1 .. m : delayed'[e][n] = delayed[e][n]
  BY <1>1, <1>3 DEF Fr, De, m, TypeOK
<1>5. CountInv(e)'
  BY <1>1, <1>4, AdvanceCount DEF LocalInv, m
<1>6. \A n \in 1 .. m + 1 : delayed'[e][n].d = front[e][n].d
  BY <1>2, <1>4 DEF LocalInv, CtxInv, Op, m
<1>7. CtxInv(e)'
  BY <1>1, <1>2, <1>4, <1>5, <1>6, AdvanceCtx, Numbers DEF m
<1>8. OpsInv(e)'
  <2>1. ASSUME NEW n \in 1 .. m + 1
        PROVE  /\ delayed'[e][n].d.num = n - 1
               /\ delayed'[e][n].d.slot = (n - 1) % STACK_SLOTS
               /\ delayed'[e][n].after >= n
    <3>1. n \in 1 .. Fr(e)
      BY <1>2, Numbers
    <3>2. delayed'[e][n].after >= n
      <4>1. CASE n = m + 1
        BY <1>2, <1>4, <4>1, Numbers DEF Op
      <4>2. CASE n # m + 1
        <5>1. n \in 1 .. m
          BY <1>2, <4>2
        <5> QED BY <1>4, <5>1 DEF LocalInv, OpsInv, m
      <4> QED BY <4>1, <4>2
    <3> QED BY <1>6, <3>1, <3>2 DEF LocalInv, OpsInv
  <2> QED BY <1>1, <1>4, <2>1 DEF LocalInv, OpsInv
<1>9. DescInv(e)'
  BY <1>1, <1>4 DEF LocalInv, DescInv
<1> QED BY <1>5, <1>7, <1>8, <1>9 DEF LocalInv

(* So does an iteration that only fills the pipeline.                      *)
LEMMA SkipDelayedLocal ==
  ASSUME NEW e \in Engine, TypeOK, LocalInv(e), SkipDelayed(e)
  PROVE  LocalInv(e)'
<1>1. /\ pc[e] = "delayed" /\ ~(issued[e] >= PRE_LAUNCH) /\ Advance(e)
      /\ work' = work /\ desc' = desc /\ ctx' = ctx /\ front' = front
      /\ frontDone' = frontDone /\ delayed' = delayed /\ delayedDone' = delayedDone
  BY Numbers DEF SkipDelayed, opVars
<1>2. Fr(e)' = Fr(e) /\ De(e)' = De(e)
  BY <1>1 DEF Fr, De
<1>3. CountInv(e)'
  BY <1>1, <1>2, AdvanceCount DEF LocalInv
<1>4. CtxInv(e)'
  BY <1>1, <1>2, <1>3, AdvanceCtx, Numbers DEF LocalInv, CtxInv
<1>5. OpsInv(e)' /\ DescInv(e)'
  BY <1>1, <1>2 DEF LocalInv, OpsInv, DescInv
<1> QED BY <1>3, <1>4, <1>5 DEF LocalInv

(* The completions keep the engine's invariant, in issue order.            *)
LEMMA CompleteFrontLocal ==
  ASSUME NEW e \in Engine, TypeOK, LocalInv(e), CanCompleteFront(e),
         frontDone'[e] = frontDone[e] + 1,
         UNCHANGED <<work, walkVars, front, delayed, delayedDone>>
  PROVE  LocalInv(e)'
<1>1. Fr(e)' = Fr(e) /\ De(e)' = De(e)
  BY DEF Fr, De
<1>2. CountInv(e)' /\ DescInv(e)' /\ CtxInv(e)'
  BY <1>1 DEF LocalInv, CountInv, DescInv, CtxInv, StackSeq, StateSlot, TaskNo,
     Draining, IsLast, LoopEnd, Drain, walkVars
<1>3. frontDone[e] + 1 \in 1 .. Fr(e)
  BY Numbers DEF CanCompleteFront, Fr
<1> DEFINE o == front[e][frontDone[e] + 1]
<1>4. o.after \in Nat
  <2>1. o \in Operation
    BY <1>3 DEF TypeOK, Fr
  <2> QED BY <2>1 DEF Operation
<1>5. frontDone[e] + 1 <= delayedDone[e] + STACK_SLOTS
  <2>1. o.after + STACK_SLOTS >= frontDone[e] + 1
    BY <1>3 DEF LocalInv, OpsInv
  <2>2. o.after <= delayedDone[e]
    BY DEF CanCompleteFront
  <2> HIDE DEF o
  <2> QED BY <1>4, <2>1, <2>2, Numbers
<1>6. OpsInv(e)'
  BY <1>1, <1>5, Numbers DEF LocalInv, OpsInv
<1> QED BY <1>2, <1>6 DEF LocalInv

(* The same for a delayed operation. *)
LEMMA CompleteDelayedLocal ==
  ASSUME NEW e \in Engine, TypeOK, LocalInv(e), CanCompleteDelayed(e),
         delayedDone'[e] = delayedDone[e] + 1,
         UNCHANGED <<work, walkVars, front, frontDone, delayed>>
  PROVE  LocalInv(e)'
<1>1. Fr(e)' = Fr(e) /\ De(e)' = De(e)
  BY DEF Fr, De
<1>2. CountInv(e)' /\ DescInv(e)' /\ CtxInv(e)'
  BY <1>1 DEF LocalInv, CountInv, DescInv, CtxInv, StackSeq, StateSlot, TaskNo,
     Draining, IsLast, LoopEnd, Drain, walkVars
<1>3. delayedDone[e] + 1 \in 1 .. De(e)
  BY Numbers DEF CanCompleteDelayed, De
<1> DEFINE o == delayed[e][delayedDone[e] + 1]
<1>4. o.after \in Nat
  <2>1. o \in Operation
    BY <1>3 DEF TypeOK, De
  <2> QED BY <2>1 DEF Operation
<1>5. delayedDone[e] + 1 <= frontDone[e]
  <2>1. o.after >= delayedDone[e] + 1
    BY <1>3 DEF LocalInv, OpsInv
  <2>2. o.after <= frontDone[e]
    BY DEF CanCompleteDelayed
  <2> HIDE DEF o
  <2> QED BY <1>4, <2>1, <2>2, Numbers
<1>6. OpsInv(e)'
  BY <1>1, <1>5, Numbers DEF LocalInv, OpsInv
<1> QED BY <1>2, <1>6 DEF LocalInv

(* Every step preserves the invariants of all engines: the one that moves  *)
(* by the lemmas above, the others because nothing of theirs changes.      *)
LEMMA LocalStep ==
  ASSUME TypeOK, \A e \in Engine : LocalInv(e), [Next]_vars
  PROVE  \A e \in Engine : LocalInv(e)'
<1> SUFFICES ASSUME NEW x \in Engine PROVE LocalInv(x)'
  OBVIOUS
<1>1. ASSUME NEW e \in Engine, BeginTask(e) PROVE LocalInv(x)'
  <2>1. CASE x = e
    BY <1>1, <2>1, BeginTaskLocal
  <2>2. CASE x # e
    BY <1>1, <2>2, Frame, SMTT(30) DEF BeginTask, NextTask, opVars, TypeOK
  <2> QED BY <2>1, <2>2
<1>2. ASSUME NEW e \in Engine, SkipDelayed(e) PROVE LocalInv(x)'
  <2>1. CASE x = e
    BY <1>2, <2>1, SkipDelayedLocal
  <2>2. CASE x # e
    BY <1>2, <2>2, Frame DEF SkipDelayed, Advance, NextTask, opVars, TypeOK
  <2> QED BY <2>1, <2>2
<1>3. ASSUME NEW e \in Engine, IssueFront(e) PROVE LocalInv(x)'
  <2>1. CASE x = e
    BY <1>3, <2>1, IssueFrontLocal
  <2>2. CASE x # e
    BY <1>3, <2>2, Frame DEF IssueFront, TypeOK
  <2> QED BY <2>1, <2>2
<1>4. ASSUME NEW e \in Engine, IssueDelayed(e) PROVE LocalInv(x)'
  <2>1. CASE x = e
    BY <1>4, <2>1, IssueDelayedLocal
  <2>2. CASE x # e
    BY <1>4, <2>2, Frame DEF IssueDelayed, Advance, NextTask, TypeOK
  <2> QED BY <2>1, <2>2
<1>5. ASSUME NEW e \in Engine, CanCompleteFront(e),
             frontDone' = [frontDone EXCEPT ![e] = frontDone[e] + 1],
             UNCHANGED <<work, walkVars, front, delayed, delayedDone>>
      PROVE  LocalInv(x)'
  <2>1. CASE x = e
    BY <1>5, <2>1, CompleteFrontLocal DEF TypeOK
  <2>2. CASE x # e
    BY <1>5, <2>2, Frame DEF walkVars, TypeOK
  <2> QED BY <2>1, <2>2
<1>6. ASSUME NEW e \in Engine, CanCompleteDelayed(e),
             delayedDone' = [delayedDone EXCEPT ![e] = delayedDone[e] + 1],
             UNCHANGED <<work, walkVars, front, frontDone, delayed>>
      PROVE  LocalInv(x)'
  <2>1. CASE x = e
    BY <1>6, <2>1, CompleteDelayedLocal DEF TypeOK
  <2>2. CASE x # e
    BY <1>6, <2>2, Frame DEF walkVars, TypeOK
  <2> QED BY <2>1, <2>2
<1>7. CASE CubeStep
  BY <1>3, <1>4, <1>5, <1>6, <1>7, EngineFacts
  DEF CubeStep, IssueQK, IssuePV, CompleteQK, CompletePV
<1>8. CASE \E v \in Vec : VecStep(v)
  BY <1>3, <1>4, <1>5, <1>6, <1>8, EngineFacts
  DEF VecStep, IssueSM, IssueRS, CompleteSM, CompleteRS
<1>9. CASE UNCHANGED vars
  BY <1>9, Frame DEF vars, walkVars, opVars
<1> QED BY <1>1, <1>2, <1>7, <1>8, <1>9 DEF Next, WalkStep, Terminating

-----------------------------------------------------------------------------
(* The flags chain the engines: how far one may be ahead of another. *)
LEMMA Chain ==
  ASSUME IInv, NEW v \in Vec
  PROVE  /\ Fr(v) <= frontDone[Cube] /\ frontDone[Cube] <= Fr(Cube)
         /\ De(Cube) <= frontDone[v] /\ frontDone[v] <= Fr(v)
         /\ De(v) <= delayedDone[Cube] /\ delayedDone[Cube] <= De(Cube)
         /\ delayedDone[v] <= De(v)
         /\ Fr(Cube) <= De(Cube) + STACK_SLOTS
         /\ Fr(v) <= De(v) + STACK_SLOTS
         /\ frontDone[v] <= delayedDone[v] + STACK_SLOTS
<1>1. TypeOK /\ v \in Engine /\ Cube \in Engine
  BY EngineFacts DEF IInv
<1>2. qkReady[v] \in Nat /\ softmaxReady[v] \in Nat /\ pvReady[v] \in Nat
  BY <1>1 DEF TypeOK
<1>3. /\ qkReady[v] + Fr(v) = frontDone[Cube]
      /\ softmaxReady[v] + De(Cube) = frontDone[v]
      /\ pvReady[v] + De(v) = delayedDone[Cube]
      /\ frontDone[Cube] <= Fr(Cube) /\ delayedDone[Cube] <= De(Cube)
      /\ frontDone[v] <= Fr(v) /\ delayedDone[v] <= De(v)
  BY <1>1 DEF IInv, FlagInv
<1>4. /\ Fr(Cube) <= De(Cube) + STACK_SLOTS
      /\ Fr(v) <= De(v) + STACK_SLOTS
      /\ frontDone[v] <= delayedDone[v] + STACK_SLOTS
  BY <1>1 DEF IInv, LocalInv, CountInv, OpsInv
<1>5. /\ Fr(v) \in Nat /\ De(v) \in Nat /\ frontDone[v] \in Nat
      /\ Fr(Cube) \in Nat /\ De(Cube) \in Nat /\ frontDone[Cube] \in Nat
      /\ delayedDone[Cube] \in Nat
  BY <1>1, Numbers
<1> QED BY <1>2, <1>3, <1>4, <1>5

(* How the number of issued front operations changes in a step.            *)
LEMMA FrontCount ==
  ASSUME NEW e \in Engine, TypeOK, IssueFront(e)
  PROVE  /\ Fr(e)' = Fr(e) + 1
         /\ \A x \in Engine : x # e => Fr(x)' = Fr(x)
         /\ \A x \in Engine : De(x)' = De(x)
BY DEF IssueFront, TypeOK, Fr, De

(* How the number of issued delayed operations changes in a step.          *)
LEMMA DelayedCount ==
  ASSUME NEW e \in Engine, TypeOK, IssueDelayed(e)
  PROVE  /\ De(e)' = De(e) + 1
         /\ \A x \in Engine : x # e => De(x)' = De(x)
         /\ \A x \in Engine : Fr(x)' = Fr(x)
BY DEF IssueDelayed, TypeOK, Fr, De

(* Every step keeps each flag at the times it was set less the times it    *)
(* was consumed.                                                           *)
LEMMA FlagStep == IInv /\ [Next]_vars => FlagInv'
<1> SUFFICES ASSUME IInv, [Next]_vars PROVE FlagInv'
  OBVIOUS
<1> USE EngineFacts
<1>0. TypeOK /\ FlagInv
  BY DEF IInv
<1>a. /\ qkReady \in [Vec -> Nat] /\ softmaxReady \in [Vec -> Nat]
      /\ pvReady \in [Vec -> Nat]
      /\ frontDone \in [Engine -> Nat] /\ delayedDone \in [Engine -> Nat]
      /\ \A x \in Engine : Fr(x) \in Nat /\ De(x) \in Nat
  BY <1>0, Numbers DEF TypeOK
<1>b. /\ \A e \in Engine : frontDone[e] <= Fr(e) /\ delayedDone[e] <= De(e)
      /\ \A v \in Vec : /\ qkReady[v] + Fr(v) = frontDone[Cube]
                        /\ softmaxReady[v] + De(Cube) = frontDone[v]
                        /\ pvReady[v] + De(v) = delayedDone[Cube]
  BY <1>0 DEF FlagInv
<1>1. CASE IssueQK
  <2>1. IssueFront(Cube)
    BY <1>1 DEF IssueQK
  <2>2. UNCHANGED <<frontDone, delayedDone, flagVars>>
    BY <1>1 DEF IssueQK, IssueFront, flagVars
  <2> QED BY <1>a, <1>b, <2>1, <2>2, <1>0, FrontCount DEF FlagInv, flagVars
<1>2. ASSUME NEW v \in Vec, IssueSM(v) PROVE FlagInv'
  <2>1. IssueFront(v)
    BY <1>2 DEF IssueSM
  <2>2. /\ UNCHANGED <<frontDone, delayedDone, softmaxReady, pvReady>>
        /\ qkReady' = [qkReady EXCEPT ![v] = qkReady[v] - 1]
    BY <1>2 DEF IssueSM, IssueFront
  <2>3. ASSUME NEW u \in Vec PROVE qkReady'[u] + Fr(u)' = frontDone'[Cube]
    <3>1. CASE u = v
      <4>1. Fr(v)' = Fr(v) + 1
        BY <1>0, <2>1, FrontCount
      <4>2. qkReady'[v] = qkReady[v] - 1
        BY <1>a, <2>2
      <4> QED BY <1>a, <1>b, <2>2, <3>1, <4>1, <4>2
    <3>2. CASE u # v
      <4>1. Fr(u)' = Fr(u)
        BY <1>0, <2>1, <3>2, FrontCount
      <4> QED BY <1>a, <1>b, <2>2, <3>2, <4>1
    <3> QED BY <3>1, <3>2
  <2> QED BY <1>a, <1>b, <2>1, <2>2, <2>3, <1>0, FrontCount DEF FlagInv
<1>3. CASE IssuePV
  <2>1. IssueDelayed(Cube)
    BY <1>3 DEF IssuePV
  <2>2. /\ UNCHANGED <<frontDone, delayedDone, qkReady, pvReady>>
        /\ softmaxReady' = [v \in Vec |-> softmaxReady[v] - 1]
    BY <1>3 DEF IssuePV, IssueDelayed
  <2>3. \A u \in Vec : softmaxReady'[u] + De(Cube)' = frontDone'[u]
    BY <1>a, <1>b, <2>1, <2>2, <1>0, DelayedCount
  <2> QED BY <1>a, <1>b, <2>1, <2>2, <2>3, <1>0, DelayedCount DEF FlagInv
<1>4. ASSUME NEW v \in Vec, IssueRS(v) PROVE FlagInv'
  <2>1. IssueDelayed(v)
    BY <1>4 DEF IssueRS
  <2>2. /\ UNCHANGED <<frontDone, delayedDone, qkReady, softmaxReady>>
        /\ pvReady' = [pvReady EXCEPT ![v] = pvReady[v] - 1]
    BY <1>4 DEF IssueRS, IssueDelayed
  <2>3. ASSUME NEW u \in Vec PROVE pvReady'[u] + De(u)' = delayedDone'[Cube]
    <3>1. CASE u = v
      <4>1. De(v)' = De(v) + 1
        BY <1>0, <2>1, DelayedCount
      <4>2. pvReady'[v] = pvReady[v] - 1
        BY <1>a, <2>2
      <4> QED BY <1>a, <1>b, <2>2, <3>1, <4>1, <4>2
    <3>2. CASE u # v
      <4>1. De(u)' = De(u)
        BY <1>0, <2>1, <3>2, DelayedCount
      <4> QED BY <1>a, <1>b, <2>2, <3>2, <4>1
    <3> QED BY <3>1, <3>2
  <2> QED BY <1>a, <1>b, <2>1, <2>2, <2>3, <1>0, DelayedCount DEF FlagInv
<1> DEFINE Same == \A x \in Engine : Fr(x)' = Fr(x) /\ De(x)' = De(x)
<1>5. CASE CompleteQK
  <2>1. Same /\ UNCHANGED <<delayedDone, softmaxReady, pvReady>>
    BY <1>5 DEF CompleteQK, Fr, De
  <2>2. /\ frontDone' = [frontDone EXCEPT ![Cube] = frontDone[Cube] + 1]
        /\ qkReady' = [v \in Vec |-> qkReady[v] + 1]
        /\ frontDone[Cube] < Fr(Cube)
    BY <1>5 DEF CompleteQK, CanCompleteFront, Fr
  <2>3. \A u \in Vec : qkReady'[u] + Fr(u)' = frontDone'[Cube]
    BY <1>a, <1>b, <2>1, <2>2
  <2> QED BY <1>a, <1>b, <2>1, <2>2, <2>3 DEF FlagInv
<1>6. CASE CompletePV
  <2>1. Same /\ UNCHANGED <<frontDone, softmaxReady, qkReady>>
    BY <1>6 DEF CompletePV, Fr, De
  <2>2. /\ delayedDone' = [delayedDone EXCEPT ![Cube] = delayedDone[Cube] + 1]
        /\ pvReady' = [v \in Vec |-> pvReady[v] + 1]
        /\ delayedDone[Cube] < De(Cube)
    BY <1>6 DEF CompletePV, CanCompleteDelayed, De
  <2>3. \A u \in Vec : pvReady'[u] + De(u)' = delayedDone'[Cube]
    BY <1>a, <1>b, <2>1, <2>2
  <2> QED BY <1>a, <1>b, <2>1, <2>2, <2>3 DEF FlagInv
<1>7. ASSUME NEW v \in Vec, CompleteSM(v) PROVE FlagInv'
  <2>1. Same /\ UNCHANGED <<delayedDone, qkReady, pvReady>>
    BY <1>7 DEF CompleteSM, Fr, De
  <2>2. /\ frontDone' = [frontDone EXCEPT ![v] = frontDone[v] + 1]
        /\ softmaxReady' = [softmaxReady EXCEPT ![v] = softmaxReady[v] + 1]
        /\ frontDone[v] < Fr(v)
    BY <1>7 DEF CompleteSM, CanCompleteFront, Fr
  <2>3. \A u \in Vec : softmaxReady'[u] + De(Cube)' = frontDone'[u]
    BY <1>a, <1>b, <2>1, <2>2
  <2>4. frontDone'[Cube] = frontDone[Cube]
    BY <1>a, <2>2
  <2> QED BY <1>a, <1>b, <2>1, <2>2, <2>3, <2>4 DEF FlagInv
<1>8. ASSUME NEW v \in Vec, CompleteRS(v) PROVE FlagInv'
  <2>1. Same /\ UNCHANGED <<frontDone, flagVars>>
    BY <1>8 DEF CompleteRS, Fr, De
  <2>2. /\ delayedDone' = [delayedDone EXCEPT ![v] = delayedDone[v] + 1]
        /\ delayedDone[v] < De(v)
    BY <1>8 DEF CompleteRS, CanCompleteDelayed, De
  <2>3. delayedDone'[Cube] = delayedDone[Cube]
    BY <1>a, <2>2
  <2> QED BY <1>a, <1>b, <2>1, <2>2, <2>3 DEF FlagInv, flagVars
<1>9. CASE UNCHANGED <<front, frontDone, delayed, delayedDone, flagVars>>
  BY <1>0, <1>9 DEF FlagInv, Fr, De, flagVars
<1>10. ASSUME NEW e \in Engine, WalkStep(e) PROVE FlagInv'
  BY <1>9, <1>10 DEF WalkStep, BeginTask, SkipDelayed, opVars
<1> QED BY <1>1, <1>2, <1>3, <1>4, <1>5, <1>6, <1>7, <1>8, <1>9, <1>10
    DEF Next, CubeStep, VecStep, Terminating, vars, opVars

-----------------------------------------------------------------------------
(* Two stacks whose slots are in use at once have different slots.         *)
LEMMA SlotsDiffer ==
  ASSUME NEW m \in Nat \ {0}, NEW n \in Nat \ {0}, m < n, n < m + STACK_SLOTS
  PROVE  (m - 1) % STACK_SLOTS # (n - 1) % STACK_SLOTS
<1>1. m - 1 \in Nat /\ n - 1 \in Nat /\ m - 1 < n - 1
  OBVIOUS
<1>2. n - 1 < (m - 1) + STACK_SLOTS
  BY PreLaunchAssumption DEF STACK_SLOTS
<1> QED BY <1>1, <1>2, ModUnique

(* The operations that complete next are those of stack frontDone and of   *)
(* stack delayedDone.                                                      *)
LEMMA OldestExact ==
  ASSUME IInv, NEW e \in Engine
  PROVE  /\ CanCompleteFront(e) =>
              /\ frontDone[e] + 1 \in 1 .. Fr(e)
              /\ OldestFront(e) = front[e][frontDone[e] + 1].d
              /\ OldestFront(e).num = frontDone[e]
              /\ OldestFront(e).slot = frontDone[e] % STACK_SLOTS
         /\ CanCompleteDelayed(e) =>
              /\ delayedDone[e] + 1 \in 1 .. De(e)
              /\ OldestDelayed(e).num = delayedDone[e]
              /\ OldestDelayed(e).slot = delayedDone[e] % STACK_SLOTS
<1>1. TypeOK /\ OpsInv(e) /\ frontDone[e] \in Nat /\ delayedDone[e] \in Nat
  BY Numbers DEF IInv, LocalInv
<1>2. Fr(e) \in Nat /\ De(e) \in Nat
  BY <1>1, Numbers
<1>3. ASSUME CanCompleteFront(e)
      PROVE  /\ frontDone[e] + 1 \in 1 .. Fr(e)
             /\ OldestFront(e) = front[e][frontDone[e] + 1].d
             /\ OldestFront(e).num = frontDone[e]
             /\ OldestFront(e).slot = frontDone[e] % STACK_SLOTS
  <2>1. frontDone[e] + 1 \in 1 .. Fr(e)
    BY <1>1, <1>2, <1>3 DEF CanCompleteFront, Fr
  <2>2. (frontDone[e] + 1) - 1 = frontDone[e]
    BY <1>1
  <2> QED BY <1>1, <2>1, <2>2 DEF OpsInv, OldestFront
<1>4. ASSUME CanCompleteDelayed(e)
      PROVE  /\ delayedDone[e] + 1 \in 1 .. De(e)
             /\ OldestDelayed(e).num = delayedDone[e]
             /\ OldestDelayed(e).slot = delayedDone[e] % STACK_SLOTS
  <2>1. delayedDone[e] + 1 \in 1 .. De(e)
    BY <1>1, <1>2, <1>4 DEF CanCompleteDelayed, De
  <2>2. (delayedDone[e] + 1) - 1 = delayedDone[e]
    BY <1>1
  <2> QED BY <1>1, <2>1, <2>2 DEF OpsInv, OldestDelayed
<1> QED BY <1>3, <1>4

(* Every step keeps the scores that may still be read.                     *)
LEMMA ScoreStep == IInv /\ [Next]_vars => ScoreData'
<1> SUFFICES ASSUME IInv, [Next]_vars PROVE ScoreData'
  OBVIOUS
<1> USE EngineFacts
<1>1. /\ TypeOK /\ ScoreData /\ S \in [Slot -> Int]
      /\ frontDone[Cube] \in Nat /\ Fr(Cube) \in Nat /\ frontDone[Cube] <= Fr(Cube)
      /\ frontDone \in [Engine -> Nat]
  BY Numbers DEF IInv, DataInv, FlagInv, TypeOK
<1>2. CASE IssueQK
  <2>1. IssueFront(Cube) /\ frontDone' = frontDone
    BY <1>2 DEF IssueQK, IssueFront
  <2>2. Fr(Cube)' = Fr(Cube) + 1
    BY <1>1, <2>1, FrontCount
  <2>3. StackDescriptor(Cube).slot = Fr(Cube) % STACK_SLOTS
    <3>1. issued[Cube] = Fr(Cube)
      BY <2>1 DEF IssueFront, IInv, LocalInv, CountInv
    <3> QED BY <3>1 DEF StackDescriptor
  <2>4. S' = [S EXCEPT ![Fr(Cube) % STACK_SLOTS] = Busy]
    BY <1>2, <2>3 DEF IssueQK
  <2>5. ASSUME NEW n \in 1 .. frontDone[Cube], n + STACK_SLOTS > Fr(Cube) + 1
        PROVE  S'[(n - 1) % STACK_SLOTS] = n - 1
    <3>1. /\ n \in Nat \ {0} /\ n - 1 \in Nat /\ n < Fr(Cube) + 1
          /\ Fr(Cube) + 1 \in Nat \ {0} /\ (Fr(Cube) + 1) - 1 = Fr(Cube)
          /\ Fr(Cube) + 1 < n + STACK_SLOTS /\ n + STACK_SLOTS > Fr(Cube)
      BY <1>1, <2>5, Numbers
    <3>2. (n - 1) % STACK_SLOTS # Fr(Cube) % STACK_SLOTS
      BY <3>1, SlotsDiffer
    <3> QED BY <1>1, <2>4, <3>1, <3>2, ModRange DEF ScoreData
  <2> QED BY <2>1, <2>2, <2>5 DEF ScoreData
<1>3. CASE CompleteQK
  <2> DEFINE k == frontDone[Cube]
  <2>1. /\ k + 1 \in 1 .. Fr(Cube)
        /\ S' = [S EXCEPT ![k % STACK_SLOTS] = k]
        /\ frontDone'[Cube] = k + 1 /\ Fr(Cube)' = Fr(Cube)
    BY <1>1, <1>3, OldestExact DEF CompleteQK, Fr
  <2>2. ASSUME NEW n \in 1 .. k + 1, n + STACK_SLOTS > Fr(Cube)
        PROVE  S'[(n - 1) % STACK_SLOTS] = n - 1
    <3>1. n \in Nat \ {0} /\ n - 1 \in Nat /\ k + 1 \in Nat \ {0} /\ (k + 1) - 1 = k
      BY <1>1
    <3>2. CASE n = k + 1
      BY <1>1, <2>1, <3>1, <3>2, ModRange
    <3>3. CASE n # k + 1
      <4>1. n \in 1 .. k /\ n < k + 1 /\ k + 1 < n + STACK_SLOTS
        BY <1>1, <2>1, <2>2, <3>3, Numbers
      <4>2. (n - 1) % STACK_SLOTS # k % STACK_SLOTS
        BY <3>1, <4>1, SlotsDiffer
      <4> QED BY <1>1, <2>1, <2>2, <3>1, <4>1, <4>2, ModRange DEF ScoreData
    <3> QED BY <3>2, <3>3
  <2> QED BY <2>1, <2>2 DEF ScoreData
<1>4. CASE S' = S /\ frontDone'[Cube] = frontDone[Cube] /\ Fr(Cube)' = Fr(Cube)
  BY <1>1, <1>4 DEF ScoreData
<1>5. CASE IssuePV \/ CompletePV
  BY <1>4, <1>5 DEF IssuePV, IssueDelayed, CompletePV, Fr
<1>6. ASSUME NEW v \in Vec, IssueSM(v) PROVE ScoreData'
  <2>1. IssueFront(v) /\ UNCHANGED <<S, frontDone>>
    BY <1>6 DEF IssueSM, IssueFront
  <2> QED BY <1>1, <1>4, <2>1, FrontCount
<1>7. ASSUME NEW v \in Vec, IssueRS(v) \/ CompleteRS(v) PROVE ScoreData'
  BY <1>4, <1>7 DEF IssueRS, IssueDelayed, CompleteRS, Fr
<1>8. ASSUME NEW v \in Vec, CompleteSM(v) PROVE ScoreData'
  <2>1. /\ frontDone' = [frontDone EXCEPT ![v] = frontDone[v] + 1]
        /\ UNCHANGED <<S, front>>
    BY <1>8 DEF CompleteSM
  <2> QED BY <1>1, <1>4, <2>1 DEF Fr
<1>9. ASSUME NEW e \in Engine, WalkStep(e) PROVE ScoreData'
  BY <1>4, <1>9 DEF WalkStep, BeginTask, SkipDelayed, opVars, bufVars, Fr
<1>10. CASE UNCHANGED vars
  BY <1>4, <1>10 DEF vars, opVars, bufVars, Fr
<1> QED BY <1>2, <1>3, <1>5, <1>6, <1>7, <1>8, <1>9, <1>10
    DEF Next, CubeStep, VecStep, Terminating

(* A score slot still holds its stack's scores when the softmax that reads *)
(* it is in flight: the cube is at most STACK_SLOTS stacks ahead.          *)
LEMMA ScoreRead ==
  ASSUME IInv, NEW v \in Vec, NEW n \in Nat, frontDone[v] < n, n <= Fr(v)
  PROVE  S[(n - 1) % STACK_SLOTS] = n - 1
<1>1. /\ Fr(v) <= frontDone[Cube]
      /\ Fr(Cube) <= De(Cube) + STACK_SLOTS
      /\ De(Cube) <= frontDone[v]
  BY Chain
<1>2. /\ frontDone[v] \in Nat /\ Fr(v) \in Nat /\ frontDone[Cube] \in Nat
      /\ Fr(Cube) \in Nat /\ De(Cube) \in Nat /\ STACK_SLOTS \in Nat
  BY Numbers, EngineFacts DEF IInv
<1>3. n \in 1 .. frontDone[Cube] /\ n + STACK_SLOTS > Fr(Cube)
  BY <1>1, <1>2
<1> QED BY <1>3 DEF IInv, DataInv, ScoreData

(* Every step keeps the probabilities that may still be read.              *)
LEMMA ProbStep == IInv /\ [Next]_vars => \A v \in Vec : ProbData(v)'
<1> SUFFICES ASSUME IInv, [Next]_vars, NEW v \in Vec PROVE ProbData(v)'
  OBVIOUS
<1> USE EngineFacts
<1>1. /\ TypeOK /\ ProbData(v) /\ P \in [Vec -> [Slot -> Int]]
      /\ frontDone[v] \in Nat /\ Fr(v) \in Nat /\ frontDone[v] <= Fr(v)
      /\ frontDone \in [Engine -> Nat]
  BY Numbers DEF IInv, DataInv, FlagInv, TypeOK
<1>2. CASE P'[v] = P[v] /\ frontDone'[v] = frontDone[v] /\ front'[v] = front[v] /\ work' = work
  BY <1>1, <1>2 DEF ProbData, Fr, Active
<1>3. CASE IssueSM(v)
  <2> DEFINE s == StackDescriptor(v).slot
  <2>1. IssueFront(v) /\ frontDone' = frontDone /\ work' = work
    BY <1>3 DEF IssueSM, IssueFront
  <2>2. Fr(v)' = Fr(v) + 1 /\ \A n \in 1 .. Fr(v) : front'[v][n] = front[v][n]
    BY <1>1, <2>1 DEF IssueFront, Fr, TypeOK
  <2>3. s = Fr(v) % STACK_SLOTS
    <3>1. issued[v] = Fr(v)
      BY <2>1 DEF IssueFront, IInv, LocalInv, CountInv
    <3> QED BY <3>1 DEF StackDescriptor
  <2>4. P' = P \/ P' = [P EXCEPT ![v][s] = Busy]
    BY <1>3 DEF IssueSM
  <2> HIDE DEF s
  <2>5. ASSUME NEW n \in 1 .. frontDone[v], n + STACK_SLOTS > Fr(v) + 1,
               Active(v, front[v][n].d.task)
        PROVE  P'[v][(n - 1) % STACK_SLOTS] = n - 1
    <3>1. /\ n \in Nat \ {0} /\ n - 1 \in Nat /\ n < Fr(v) + 1
          /\ Fr(v) + 1 \in Nat \ {0} /\ (Fr(v) + 1) - 1 = Fr(v)
          /\ Fr(v) + 1 < n + STACK_SLOTS /\ n + STACK_SLOTS > Fr(v)
      BY <1>1, <2>5, Numbers
    <3>2. (n - 1) % STACK_SLOTS # s
      BY <2>3, <3>1, SlotsDiffer
    <3>3. P[v][(n - 1) % STACK_SLOTS] = n - 1
      BY <1>1, <2>5, <3>1 DEF ProbData
    <3>4. (n - 1) % STACK_SLOTS \in Slot
      BY <3>1, ModRange
    <3>5. P'[v][(n - 1) % STACK_SLOTS] = P[v][(n - 1) % STACK_SLOTS]
      BY <1>1, <2>4, <3>2, <3>4
    <3> QED BY <3>3, <3>5
  <2>6. \A n \in 1 .. frontDone[v] : n \in 1 .. Fr(v)
    BY <1>1
  <2> QED BY <2>1, <2>2, <2>5, <2>6 DEF ProbData, Active
<1>4. CASE CompleteSM(v)
  <2> DEFINE k == frontDone[v]
             d == OldestFront(v)
  <2>1. /\ k + 1 \in 1 .. Fr(v) /\ d = front[v][k + 1].d
        /\ d.num = k /\ d.slot = k % STACK_SLOTS
        /\ frontDone'[v] = k + 1 /\ front' = front /\ work' = work
    BY <1>1, <1>4, OldestExact DEF CompleteSM
  <2>2. S[k % STACK_SLOTS] = k
    BY <1>1, <2>1, ScoreRead
  <2>3. P' = IF Active(v, d.task) THEN [P EXCEPT ![v][k % STACK_SLOTS] = k] ELSE P
    BY <1>4, <2>1, <2>2 DEF CompleteSM
  <2>4. ASSUME NEW n \in 1 .. k + 1, n + STACK_SLOTS > Fr(v),
               Active(v, front[v][n].d.task)
        PROVE  P'[v][(n - 1) % STACK_SLOTS] = n - 1
    <3>1. n \in Nat \ {0} /\ n - 1 \in Nat /\ k + 1 \in Nat \ {0} /\ (k + 1) - 1 = k
      BY <1>1
    <3>2. (n - 1) % STACK_SLOTS \in Slot
      BY <3>1, ModRange
    <3>3. CASE n = k + 1
      <4>1. P' = [P EXCEPT ![v][k % STACK_SLOTS] = k]
        BY <2>1, <2>3, <2>4, <3>3
      <4> QED BY <1>1, <3>1, <3>2, <3>3, <4>1
    <3>4. CASE n # k + 1
      <4>1. n \in 1 .. k /\ n < k + 1 /\ k + 1 < n + STACK_SLOTS
        BY <1>1, <2>1, <2>4, <3>4, Numbers
      <4>2. (n - 1) % STACK_SLOTS # k % STACK_SLOTS
        BY <3>1, <4>1, SlotsDiffer
      <4>3. P[v][(n - 1) % STACK_SLOTS] = n - 1
        BY <1>1, <2>4, <4>1 DEF ProbData
      <4>4. P'[v][(n - 1) % STACK_SLOTS] = P[v][(n - 1) % STACK_SLOTS]
        BY <1>1, <2>3, <3>2, <4>2
      <4> QED BY <4>3, <4>4
    <3> QED BY <3>3, <3>4
  <2> QED BY <2>1, <2>4 DEF ProbData, Fr, Active
<1>5. ASSUME NEW u \in Vec, u # v, IssueSM(u) \/ CompleteSM(u) PROVE ProbData(v)'
  <2>1. /\ work' = work /\ front'[v] = front[v] /\ frontDone'[v] = frontDone[v]
    BY <1>1, <1>5 DEF IssueSM, IssueFront, CompleteSM, TypeOK
  <2>2. \/ P' = P
        \/ P' = [P EXCEPT ![u][StackDescriptor(u).slot] = Busy]
        \/ P' = [P EXCEPT ![u][OldestFront(u).slot] = S[OldestFront(u).slot]]
    BY <1>5 DEF IssueSM, CompleteSM
  <2>3. P'[v] = P[v]
    BY <1>1, <1>5, <2>2
  <2> QED BY <1>2, <2>1, <2>3
<1>6. ASSUME NEW u \in Vec, IssueRS(u) \/ CompleteRS(u) PROVE ProbData(v)'
  BY <1>2, <1>6 DEF IssueRS, IssueDelayed, CompleteRS
<1>7. CASE CubeStep
  BY <1>1, <1>2, <1>7 DEF CubeStep, IssueQK, IssueFront, IssuePV, IssueDelayed,
     CompleteQK, CompletePV, TypeOK
<1>8. ASSUME NEW e \in Engine, WalkStep(e) PROVE ProbData(v)'
  BY <1>2, <1>8 DEF WalkStep, BeginTask, SkipDelayed, opVars, bufVars
<1>9. CASE UNCHANGED vars
  BY <1>2, <1>9 DEF vars, opVars, bufVars
<1> QED BY <1>3, <1>4, <1>5, <1>6, <1>7, <1>8, <1>9 DEF Next, VecStep, Terminating

(* Every step keeps the products that may still be read.                   *)
LEMMA ProductStep == IInv /\ [Next]_vars => ProductData'
<1> SUFFICES ASSUME IInv, [Next]_vars PROVE ProductData'
  OBVIOUS
<1> USE EngineFacts
<1> DEFINE c == delayedDone[Cube]
           m == De(Cube)
<1>1. /\ TypeOK /\ ProductData /\ OTmp \in [Slot -> Int]
      /\ c \in Nat /\ m \in Nat /\ c <= m
      /\ delayedDone \in [Engine -> Nat] /\ LocalInv(Cube)
  BY Numbers DEF IInv, DataInv, FlagInv, TypeOK
<1>2. CASE OTmp' = OTmp /\ delayedDone'[Cube] = c /\ De(Cube)' = m
  BY <1>1, <1>2 DEF ProductData
<1>3. CASE IssuePV
  <2>1. /\ IssueDelayed(Cube) /\ delayedDone' = delayedDone
        /\ pc[Cube] = "delayed" /\ issued[Cube] >= PRE_LAUNCH
    BY <1>3 DEF IssuePV, IssueDelayed
  <2>2. m' = m + 1
    BY <1>1, <2>1, DelayedCount
  <2>3. DelayedOp(Cube).slot = m % STACK_SLOTS
    <3>1. m + 1 \in 1 .. Fr(Cube) /\ DelayedOp(Cube) = front[Cube][m + 1].d
      BY <1>1, <2>1, DelayedOpExact
    <3>2. (m + 1) - 1 = m
      BY <1>1
    <3> QED BY <1>1, <3>1, <3>2 DEF LocalInv, OpsInv
  <2>4. OTmp' = [OTmp EXCEPT ![m % STACK_SLOTS] = Busy]
    BY <1>3, <2>3 DEF IssuePV
  <2>5. ASSUME NEW n \in 1 .. c, n + STACK_SLOTS > m + 1
        PROVE  OTmp'[(n - 1) % STACK_SLOTS] = n - 1
    <3>1. /\ n \in Nat \ {0} /\ n - 1 \in Nat /\ n < m + 1
          /\ m + 1 \in Nat \ {0} /\ (m + 1) - 1 = m
          /\ m + 1 < n + STACK_SLOTS /\ n + STACK_SLOTS > m
      BY <1>1, <2>5, Numbers
    <3>2. (n - 1) % STACK_SLOTS # m % STACK_SLOTS
      BY <3>1, SlotsDiffer
    <3>3. OTmp[(n - 1) % STACK_SLOTS] = n - 1
      BY <1>1, <3>1 DEF ProductData
    <3> QED BY <1>1, <2>4, <3>1, <3>2, <3>3, ModRange
  <2> QED BY <2>1, <2>2, <2>5 DEF ProductData
<1>4. CASE CompletePV
  <2>1. /\ c + 1 \in 1 .. m
        /\ OTmp' = [OTmp EXCEPT ![c % STACK_SLOTS] = c]
        /\ delayedDone'[Cube] = c + 1 /\ De(Cube)' = m
    BY <1>1, <1>4, OldestExact DEF CompletePV, De
  <2>2. ASSUME NEW n \in 1 .. c + 1, n + STACK_SLOTS > m
        PROVE  OTmp'[(n - 1) % STACK_SLOTS] = n - 1
    <3>1. n \in Nat \ {0} /\ n - 1 \in Nat /\ c + 1 \in Nat \ {0} /\ (c + 1) - 1 = c
      BY <1>1
    <3>2. CASE n = c + 1
      BY <1>1, <2>1, <3>1, <3>2, ModRange
    <3>3. CASE n # c + 1
      <4>1. n \in 1 .. c /\ n < c + 1 /\ c + 1 < n + STACK_SLOTS
        BY <1>1, <2>1, <2>2, <3>3, Numbers
      <4>2. (n - 1) % STACK_SLOTS # c % STACK_SLOTS
        BY <3>1, <4>1, SlotsDiffer
      <4>3. OTmp[(n - 1) % STACK_SLOTS] = n - 1
        BY <1>1, <2>2, <4>1 DEF ProductData
      <4> QED BY <1>1, <2>1, <3>1, <4>2, <4>3, ModRange
    <3> QED BY <3>2, <3>3
  <2> QED BY <2>1, <2>2 DEF ProductData
<1>5. CASE IssueQK \/ CompleteQK
  BY <1>2, <1>5 DEF IssueQK, IssueFront, CompleteQK, De
<1>6. ASSUME NEW v \in Vec, IssueSM(v) \/ CompleteSM(v) PROVE ProductData'
  BY <1>2, <1>6 DEF IssueSM, IssueFront, CompleteSM, De
<1>7. ASSUME NEW v \in Vec, IssueRS(v) PROVE ProductData'
  <2>1. IssueDelayed(v) /\ UNCHANGED <<OTmp, delayedDone>>
    BY <1>7 DEF IssueRS, IssueDelayed
  <2> QED BY <1>1, <1>2, <2>1, DelayedCount
<1>8. ASSUME NEW v \in Vec, CompleteRS(v) PROVE ProductData'
  <2>1. /\ delayedDone' = [delayedDone EXCEPT ![v] = delayedDone[v] + 1]
        /\ UNCHANGED <<OTmp, delayed>>
    BY <1>8 DEF CompleteRS
  <2> QED BY <1>1, <1>2, <2>1 DEF De
<1>9. ASSUME NEW e \in Engine, WalkStep(e) PROVE ProductData'
  BY <1>2, <1>9 DEF WalkStep, BeginTask, SkipDelayed, opVars, bufVars, De
<1>10. CASE UNCHANGED vars
  BY <1>2, <1>10 DEF vars, opVars, bufVars, De
<1> QED BY <1>3, <1>4, <1>5, <1>6, <1>7, <1>8, <1>9, <1>10
    DEF Next, CubeStep, VecStep, Terminating

-----------------------------------------------------------------------------
(* The invariant holds initially.                                          *)
LEMMA InitIInv == Init => IInv
<1> SUFFICES ASSUME Init PROVE IInv
  OBVIOUS
<1>1. TypeOK
  BY InitType
<1>2. \A e \in Engine : Fr(e) = 0 /\ De(e) = 0 /\ frontDone[e] = 0 /\ delayedDone[e] = 0
  BY DEF Init, Fr, De
<1>3. ASSUME NEW e \in Engine PROVE LocalInv(e)
  <2>1. pc[e] # "end" => pc[e] = "task" /\ task[e] \in TaskNo
    BY <1>1 DEF Init, TaskNo, TypeOK
  <2>2. pc[e] = "end" \/ pc[e] = "task"
    BY DEF Init
  <2>3. issued[e] = 0
    BY DEF Init
  <2>4. CountInv(e)
    BY <1>2, <2>1, <2>2, <2>3, PreLaunchAssumption DEF CountInv, STACK_SLOTS
  <2>5. OpsInv(e) /\ DescInv(e) /\ CtxInv(e)
    BY <1>2, <2>2, PreLaunchAssumption DEF OpsInv, DescInv, CtxInv, STACK_SLOTS
  <2> QED BY <2>4, <2>5 DEF LocalInv
<1>4. FlagInv
  BY <1>2, EngineFacts DEF FlagInv, Init
<1>5. DataInv
  BY <1>2, EngineFacts DEF DataInv, ScoreData, ProbData, ProductData
<1> QED BY <1>1, <1>3, <1>4, <1>5 DEF IInv

(* Type correctness is preserved by every step.                            *)
LEMMA TypeStep ==
  ASSUME TypeOK, \A e \in Engine : LocalInv(e), [Next]_vars
  PROVE  TypeOK'
<1>1. TaskInv
  BY DEF TaskInv, LocalInv, CountInv
<1>2. ASSUME NEW e \in Engine, WalkStep(e) PROVE TypeOK'
  BY <1>1, <1>2, BeginTaskType, SkipDelayedType DEF WalkStep
<1>3. CASE CubeStep
  BY <1>3, IssueQKType, IssuePVType, CompleteCubeType DEF CubeStep
<1>4. ASSUME NEW v \in Vec, VecStep(v) PROVE TypeOK'
  BY <1>4, IssueSMType, IssueRSType, CompleteSMType, CompleteRSType DEF VecStep
<1>5. CASE UNCHANGED vars
  BY <1>5, StutterType
<1> QED BY <1>2, <1>3, <1>4, <1>5 DEF Next, Terminating

(* The invariant is preserved by every step.                               *)
LEMMA StepIInv == IInv /\ [Next]_vars => IInv'
<1> SUFFICES ASSUME IInv, [Next]_vars PROVE IInv'
  OBVIOUS
<1>1. TypeOK /\ \A e \in Engine : LocalInv(e)
  BY DEF IInv
<1>2. TypeOK'
  BY <1>1, TypeStep
<1>3. \A e \in Engine : LocalInv(e)'
  BY <1>1, LocalStep
<1>4. FlagInv' /\ DataInv'
  BY FlagStep, ScoreStep, ProbStep, ProductStep DEF DataInv
<1>5. Engine' = Engine
  BY DEF Engine
<1> QED BY <1>2, <1>3, <1>4, <1>5 DEF IInv

(* The invariant holds in every reachable state, for every task list, any  *)
(* number of vector engines and any run-ahead.                             *)
THEOREM Invariance == Spec => []IInv
BY InitIInv, StepIInv, PTL DEF Spec

(* Type correctness, with it that no flag is consumed before it is set.    *)
THEOREM TypeCorrect == Spec => []TypeOK
<1>1. IInv => TypeOK
  BY DEF IInv
<1> QED BY <1>1, Invariance, PTL

(* A probability slot still holds its stack when the PV that reads it is   *)
(* in flight.                                                              *)
LEMMA ProbRead ==
  ASSUME IInv, NEW v \in Vec, NEW n \in Nat, delayedDone[Cube] < n, n <= De(Cube),
         Active(v, front[v][n].d.task)
  PROVE  P[v][(n - 1) % STACK_SLOTS] = n - 1
<1>1. /\ De(Cube) <= frontDone[v]
      /\ Fr(v) <= De(v) + STACK_SLOTS
      /\ De(v) <= delayedDone[Cube]
  BY Chain
<1>2. /\ frontDone[v] \in Nat /\ Fr(v) \in Nat /\ delayedDone[Cube] \in Nat
      /\ De(v) \in Nat /\ De(Cube) \in Nat /\ STACK_SLOTS \in Nat
  BY Numbers, EngineFacts DEF IInv
<1>3. n \in 1 .. frontDone[v] /\ n + STACK_SLOTS > Fr(v)
  BY <1>1, <1>2
<1> QED BY <1>3 DEF IInv, DataInv, ProbData

(* A product slot still holds its stack when the rescale that reads it is  *)
(* in flight.                                                              *)
LEMMA ProductRead ==
  ASSUME IInv, NEW v \in Vec, NEW n \in Nat, delayedDone[v] < n, n <= De(v)
  PROVE  OTmp[(n - 1) % STACK_SLOTS] = n - 1
<1>1. /\ De(v) <= delayedDone[Cube]
      /\ De(Cube) <= frontDone[v]
      /\ frontDone[v] <= delayedDone[v] + STACK_SLOTS
  BY Chain
<1>2. /\ frontDone[v] \in Nat /\ delayedDone[v] \in Nat /\ delayedDone[Cube] \in Nat
      /\ De(v) \in Nat /\ De(Cube) \in Nat /\ STACK_SLOTS \in Nat
  BY Numbers, EngineFacts DEF IInv
<1>3. n \in 1 .. delayedDone[Cube] /\ n + STACK_SLOTS > De(Cube)
  BY <1>1, <1>2
<1> QED BY <1>3 DEF IInv, DataInv, ProductData

(* No workspace slot is overwritten, or being written, while an operation  *)
(* that reads it is in flight: PRE_LAUNCH + 1 slots and the three flags    *)
(* are enough, whatever the engines' relative speeds.                      *)
THEOREM RaceFreedom == Spec => []NoSlotRace
<1>1. IInv => ScoresIntact
  <2> SUFFICES ASSUME IInv, NEW v \in Vec, NEW n \in frontDone[v] + 1 .. Len(front[v])
               PROVE  S[front[v][n].d.slot] = front[v][n].d.num
    BY DEF ScoresIntact, InFlight
  <2>1. OpsInv(v) /\ frontDone[v] \in Nat /\ Fr(v) \in Nat
    BY EngineFacts, Numbers DEF IInv, LocalInv
  <2>2. n \in Nat /\ n \in 1 .. Fr(v) /\ frontDone[v] < n /\ n <= Fr(v)
    BY <2>1 DEF Fr
  <2> QED BY <2>1, <2>2, ScoreRead DEF OpsInv
<1>2. IInv => ProbsIntact
  <2> SUFFICES ASSUME IInv, NEW n \in delayedDone[Cube] + 1 .. Len(delayed[Cube]),
                      NEW v \in Vec,
                      Active(v, front[v][delayed[Cube][n].d.num + 1].d.task)
               PROVE  P[v][delayed[Cube][n].d.slot] = delayed[Cube][n].d.num
    BY DEF ProbsIntact, InFlight
  <2>1. OpsInv(Cube) /\ delayedDone[Cube] \in Nat /\ De(Cube) \in Nat
    BY EngineFacts, Numbers DEF IInv, LocalInv
  <2>2. /\ n \in Nat /\ n \in 1 .. De(Cube) /\ delayedDone[Cube] < n /\ n <= De(Cube)
        /\ (n - 1) + 1 = n
    BY <2>1 DEF De
  <2>3. delayed[Cube][n].d.num = n - 1 /\ delayed[Cube][n].d.slot = (n - 1) % STACK_SLOTS
    BY <2>1, <2>2 DEF OpsInv
  <2> QED BY <2>2, <2>3, ProbRead
<1>3. IInv => ProductsIntact
  <2> SUFFICES ASSUME IInv, NEW v \in Vec, NEW n \in delayedDone[v] + 1 .. Len(delayed[v])
               PROVE  OTmp[delayed[v][n].d.slot] = delayed[v][n].d.num
    BY DEF ProductsIntact, InFlight
  <2>1. OpsInv(v) /\ delayedDone[v] \in Nat /\ De(v) \in Nat
    BY EngineFacts, Numbers DEF IInv, LocalInv
  <2>2. n \in Nat /\ n \in 1 .. De(v) /\ delayedDone[v] < n /\ n <= De(v)
    BY <2>1 DEF De
  <2> QED BY <2>1, <2>2, ProductRead DEF OpsInv
<1>4. IInv => NoSlotRace
  BY <1>1, <1>2, <1>3 DEF NoSlotRace
<1> QED BY <1>4, Invariance, PTL

(* A delayed operation always runs with its own stack's descriptor and its *)
(* own task's context, however many short or empty tasks the front has     *)
(* gone through meanwhile.                                                 *)
THEOREM DelayedContext == Spec => []DelayedContextIntact
<1>1. IInv => DelayedContextIntact
  BY DEF IInv, LocalInv, CtxInv, DelayedContextIntact, De
<1> QED BY <1>1, Invariance, PTL

(* The flag counters stay within STACK_SLOTS, and a core that has finished *)
(* leaves every one of them at zero: the drain of its last task finishes   *)
(* every stack, even when that task is empty.                              *)
THEOREM FlagBalance == Spec => []FlagsBalanced
<1>1. IInv => FlagsBalanced
  <2> SUFFICES ASSUME IInv PROVE FlagsBalanced
    OBVIOUS
  <2>1. ASSUME NEW v \in Vec
        PROVE  /\ qkReady[v] <= STACK_SLOTS
               /\ softmaxReady[v] <= STACK_SLOTS
               /\ pvReady[v] <= STACK_SLOTS
               /\ Terminated => /\ qkReady[v] = 0 /\ softmaxReady[v] = 0
                                /\ pvReady[v] = 0
    <3>1. /\ qkReady[v] \in Nat /\ softmaxReady[v] \in Nat /\ pvReady[v] \in Nat
          /\ Fr(v) \in Nat /\ De(v) \in Nat /\ frontDone[v] \in Nat
          /\ delayedDone[v] \in Nat
          /\ Fr(Cube) \in Nat /\ De(Cube) \in Nat /\ frontDone[Cube] \in Nat
          /\ delayedDone[Cube] \in Nat /\ STACK_SLOTS \in Nat
      <4>1. TypeOK /\ v \in Engine /\ Cube \in Engine
        BY EngineFacts DEF IInv
      <4>2. qkReady[v] \in Nat /\ softmaxReady[v] \in Nat /\ pvReady[v] \in Nat
        BY <4>1 DEF TypeOK
      <4> QED BY <4>1, <4>2, Numbers, PreLaunchAssumption DEF STACK_SLOTS
    <3>2. /\ qkReady[v] + Fr(v) = frontDone[Cube]
          /\ softmaxReady[v] + De(Cube) = frontDone[v]
          /\ pvReady[v] + De(v) = delayedDone[Cube]
      BY DEF IInv, FlagInv
    <3>3. ASSUME Terminated
          PROVE  De(v) = Fr(v) /\ De(Cube) = Fr(Cube)
      BY <3>3, EngineFacts DEF Terminated, IInv, LocalInv, CountInv
    <3> QED BY <3>1, <3>2, <3>3, Chain
  <2> QED BY <2>1 DEF FlagsBalanced
<1> QED BY <1>1, Invariance, PTL

-----------------------------------------------------------------------------
(* Sums over a task list.                                                  *)

(* Every nonempty set of natural numbers has a least element. *)
LEMMA Least ==
  ASSUME NEW T \in SUBSET Nat, T # {}
  PROVE  \E n \in T : \A m \in T : n <= m
<1> DEFINE R == StrictSubsetOrdering(Nat)
           F == {0 .. m : m \in T}
<1>1. IsWellFoundedOn(R, FiniteSubsetsOf(Nat))
  BY FS_StrictSubsetOrderingWellFounded
<1>2. F \subseteq FiniteSubsetsOf(Nat) /\ F # {}
  <2>1. ASSUME NEW m \in T
        PROVE  0 .. m \in SUBSET Nat /\ IsFiniteSet(0 .. m)
    <3>1. m \in Int /\ 0 \in Int
      OBVIOUS
    <3>2. IsFiniteSet(0 .. m)
      BY <3>1, FS_Interval
    <3>3. QED
      BY <3>2
  <2>2. QED
    BY <2>1 DEF FiniteSubsetsOf
<1>3. \E A \in F : \A B \in F : ~ (<<B, A>> \in R)
  <2> HIDE DEF R, F
  <2>1. QED
    BY <1>1, <1>2, WFMin
<1>4. PICK n \in T : \A m \in T : ~ (<<0 .. m, 0 .. n>> \in R)
  BY <1>3
<1>5. ASSUME NEW m \in T, ~ n <= m
      PROVE  FALSE
  <2>1. 0 .. m \subseteq 0 .. n /\ n \in 0 .. n /\ n \notin 0 .. m
    BY <1>5
  <2>2. <<0 .. m, 0 .. n>> \in R
    BY <2>1 DEF StrictSubsetOrdering
  <2>3. QED
    BY <1>4, <2>2
<1>6. QED
  BY <1>5

(* Induction, for the elements of a set. *)
LEMMA Induction ==
  ASSUME NEW T \in SUBSET Nat, 0 \in T, \A n \in T : n + 1 \in T
  PROVE  T = Nat
<1>1. ASSUME Nat \ T # {}
      PROVE  FALSE
  <2>1. PICK n \in Nat \ T : \A m \in Nat \ T : n <= m
    BY <1>1, Least
  <2>2. n # 0 /\ n - 1 \in Nat /\ n - 1 \in T
    BY <2>1
  <2>3. QED
    BY <2>1, <2>2
<1>2. QED
  BY <1>1

(* The function that sums w up to each number exists.                      *)
LEMMA SumsExist ==
  ASSUME NEW w
  PROVE  \E s : s = [n \in Nat |-> IF n <= 1 THEN 0 ELSE s[n - 1] + w[n - 1]]
<1> DEFINE Upto(h, k) == h = [n \in 0 .. k |-> IF n <= 1 THEN 0 ELSE h[n - 1] + w[n - 1]]
           T == {k \in Nat : \E h : Upto(h, k)}
<1>1. 0 \in T
  <2>1. Upto([n \in 0 .. 0 |-> 0], 0)
    OBVIOUS
  <2>2. QED
    BY <2>1
<1>2. ASSUME NEW k \in T
      PROVE  k + 1 \in T
  <2>1. PICK h : Upto(h, k)
    OBVIOUS
  <2> DEFINE g == [n \in 0 .. k + 1 |-> IF n <= 1 THEN 0 ELSE h[n - 1] + w[n - 1]]
  <2>2. ASSUME NEW n \in 0 .. k
        PROVE  g[n] = h[n]
    BY <2>1
  <2>3. g = [n \in 0 .. k + 1 |-> IF n <= 1 THEN 0 ELSE g[n - 1] + w[n - 1]]
    <3>1. ASSUME NEW n \in 0 .. k + 1, n > 1
          PROVE  n - 1 \in 0 .. k
      BY <3>1
    <3>2. ASSUME NEW n \in 0 .. k + 1, n > 1
          PROVE  h[n - 1] = g[n - 1]
      <4>1. n - 1 \in 0 .. k
        BY <3>1, <3>2
      <4> HIDE DEF g
      <4>2. QED
        BY <2>2, <4>1
    <3>3. \A n \in 0 .. k + 1 : g[n] = IF n <= 1 THEN 0 ELSE h[n - 1] + w[n - 1]
      OBVIOUS
    <3>4. g = [n \in 0 .. k + 1 |-> g[n]]
      OBVIOUS
    <3> HIDE DEF g
    <3>5. \A n \in 0 .. k + 1 : g[n] = IF n <= 1 THEN 0 ELSE g[n - 1] + w[n - 1]
      BY <3>2, <3>3
    <3>6. QED
      BY <3>4, <3>5
  <2>4. k + 1 \in Nat
    OBVIOUS
  <2> HIDE DEF g
  <2>5. QED
    BY <2>3, <2>4
<1>3. T = Nat
  <2> HIDE DEF T
  <2>1. T \in SUBSET Nat
    BY DEF T
  <2>2. QED
    BY <1>1, <1>2, <2>1, Induction
<1>4. ASSUME NEW i \in Nat, NEW h, NEW g, NEW k \in Nat, Upto(h, i), Upto(g, k), i <= k
      PROVE  h[i] = g[i]
  <2> DEFINE U == {n \in Nat : n <= i => h[n] = g[n]}
  <2>1. 0 \in U
    BY <1>4
  <2>2. ASSUME NEW n \in U
        PROVE  n + 1 \in U
    BY <1>4
  <2>3. U = Nat
    <3> HIDE DEF U
    <3>1. U \in SUBSET Nat
      BY DEF U
    <3>2. QED
      BY <2>1, <2>2, <3>1, Induction
  <2>4. QED
    BY <2>3
<1> DEFINE H(n) == CHOOSE h : Upto(h, n)
           s == [n \in Nat |-> H(n)[n]]
<1>5. ASSUME NEW n \in Nat
      PROVE  Upto(H(n), n)
  BY <1>3
<1>6. ASSUME NEW n \in Nat
      PROVE  s[n] = IF n <= 1 THEN 0 ELSE s[n - 1] + w[n - 1]
  <2>1. CASE n <= 1
    <3>1. Upto(H(n), n)
      BY <1>5
    <3> HIDE DEF H
    <3>2. QED
      BY <2>1, <3>1
  <2>2. CASE n > 1
    <3>1. n - 1 \in Nat
      BY <2>2
    <3>5. Upto(H(n), n) /\ Upto(H(n - 1), n - 1)
      BY <1>5, <3>1
    <3> HIDE DEF H
    <3>2. H(n)[n] = H(n)[n - 1] + w[n - 1]
      BY <2>2, <3>5
    <3>3. H(n - 1)[n - 1] = H(n)[n - 1]
      <4> HIDE DEF Upto
      <4>1. QED
        BY <1>4, <3>1, <3>5
    <3>4. QED
      BY <2>2, <3>1, <3>2, <3>3
  <2>3. QED
    BY <2>1, <2>2
<1>7. s = [n \in Nat |-> IF n <= 1 THEN 0 ELSE s[n - 1] + w[n - 1]]
  <2> HIDE DEF H
  <2> QED BY <1>6
<1>8. QED
  BY <1>7

(* The number of the first stack of each task of a list, and the number of *)
(* nonempty tasks before it: the task's place in the ring of states.       *)
Start(w) ==
  LET s[t \in Nat] == IF t <= 1 THEN 0 ELSE s[t - 1] + w[t - 1].stacks IN s
Rank(w) ==
  LET s[t \in Nat] ==
        IF t <= 1 THEN 0 ELSE s[t - 1] + (IF w[t - 1].stacks > 0 THEN 1 ELSE 0)
  IN s

(* Both are what their recursion says.                                     *)
LEMMA SumSteps ==
  ASSUME NEW w, NEW t \in Nat
  PROVE  /\ Start(w)[t] = IF t <= 1 THEN 0 ELSE Start(w)[t - 1] + w[t - 1].stacks
         /\ Rank(w)[t] = IF t <= 1 THEN 0
                        ELSE Rank(w)[t - 1] + (IF w[t - 1].stacks > 0 THEN 1 ELSE 0)
<1>1. Start(w)[t] = IF t <= 1 THEN 0 ELSE Start(w)[t - 1] + w[t - 1].stacks
  <2> DEFINE f == [u \in Nat |-> w[u].stacks]
             s == Start(w)
  <2>1. PICK g : g = [u \in Nat |-> IF u <= 1 THEN 0 ELSE g[u - 1] + f[u - 1]]
    BY SumsExist
  <2>2. g = [u \in Nat |-> IF u <= 1 THEN 0 ELSE g[u - 1] + w[u - 1].stacks]
    BY <2>1
  <2>3. s = [u \in Nat |-> IF u <= 1 THEN 0 ELSE s[u - 1] + w[u - 1].stacks]
    BY <2>2 DEF Start
  <2> HIDE DEF s
  <2>4. s[t] = IF t <= 1 THEN 0 ELSE s[t - 1] + w[t - 1].stacks
    BY <2>3
  <2>5. QED
    BY <2>4 DEF s
<1>2. Rank(w)[t] = IF t <= 1 THEN 0
                   ELSE Rank(w)[t - 1] + (IF w[t - 1].stacks > 0 THEN 1 ELSE 0)
  <2> DEFINE One(u) == IF w[u].stacks > 0 THEN 1 ELSE 0
             f == [u \in Nat |-> One(u)]
             s == Rank(w)
  <2>1. PICK g : g = [u \in Nat |-> IF u <= 1 THEN 0 ELSE g[u - 1] + f[u - 1]]
    BY SumsExist
  <2>2. g = [u \in Nat |-> IF u <= 1 THEN 0 ELSE g[u - 1] + One(u - 1)]
    BY <2>1
  <2>3. s = [u \in Nat |-> IF u <= 1 THEN 0 ELSE s[u - 1] + One(u - 1)]
    BY <2>2 DEF Rank
  <2> HIDE DEF s
  <2>4. s[t] = IF t <= 1 THEN 0 ELSE s[t - 1] + One(t - 1)
    BY <2>3
  <2>5. QED
    BY <2>4 DEF s
<1>3. QED
  BY <1>1, <1>2

(* A task of a list is a Task.                                             *)
LEMMA TaskOf ==
  ASSUME NEW w \in Seq(Task), NEW t \in 1 .. Len(w)
  PROVE  w[t].stacks \in Nat
<1>1. w[t] \in Task
  OBVIOUS
<1>2. QED
  BY <1>1 DEF Task

(* From one task to the next.                                              *)
LEMMA NextStart ==
  ASSUME NEW w, NEW t \in Nat, t >= 1
  PROVE  /\ Start(w)[1] = 0 /\ Rank(w)[1] = 0
         /\ Start(w)[t + 1] = Start(w)[t] + w[t].stacks
         /\ Rank(w)[t + 1] = Rank(w)[t] + (IF w[t].stacks > 0 THEN 1 ELSE 0)
<1>1. t + 1 \in Nat /\ ~ (t + 1 <= 1) /\ (t + 1) - 1 = t /\ 1 \in Nat /\ 1 <= 1
  OBVIOUS
<1>2. QED
  BY <1>1, SumSteps

(* The sums are natural numbers. *)
LEMMA SumsNat ==
  ASSUME NEW w \in Seq(Task), NEW t \in 1 .. Len(w)
  PROVE  Start(w)[t] \in Nat /\ Rank(w)[t] \in Nat
<1> DEFINE T == {n \in Nat : n \in 1 .. Len(w) =>
                                 Start(w)[n] \in Nat /\ Rank(w)[n] \in Nat}
<1>1. 0 \in T
  OBVIOUS
<1>2. ASSUME NEW n \in T
      PROVE  n + 1 \in T
  <2>1. CASE n = 0
    BY <2>1, NextStart
  <2>2. CASE n \in 1 .. Len(w)
    <3>1. Start(w)[n] \in Nat /\ Rank(w)[n] \in Nat /\ w[n].stacks \in Nat
      BY <2>2, TaskOf
    <3>2. /\ Start(w)[n + 1] = Start(w)[n] + w[n].stacks
          /\ Rank(w)[n + 1] = Rank(w)[n] + (IF w[n].stacks > 0 THEN 1 ELSE 0)
      BY <2>2, NextStart
    <3>3. QED
      BY <3>1, <3>2
  <2>3. CASE n > Len(w)
    BY <2>3
  <2>4. QED
    BY <2>1, <2>2, <2>3
<1>3. T = Nat
  <2>1. T \in SUBSET Nat
    OBVIOUS
  <2> HIDE DEF T
  <2>2. QED
    BY <1>1, <1>2, <2>1, Induction
<1>4. QED
  BY <1>3

(* Tasks follow each other without gap or overlap, and the place of a task *)
(* in the ring is at most one further for every stack in between.          *)
LEMMA Ordered ==
  ASSUME NEW w \in Seq(Task), NEW t \in 1 .. Len(w), NEW u \in 1 .. Len(w), t < u
  PROVE  /\ Start(w)[t] + w[t].stacks <= Start(w)[u]
         /\ w[t].stacks > 0 => Rank(w)[t] < Rank(w)[u]
         /\ Rank(w)[u] <= Rank(w)[t] + 1 + (Start(w)[u] - (Start(w)[t] + w[t].stacks))
<1> DEFINE one(n) == IF w[n].stacks > 0 THEN 1 ELSE 0
           Far(n) == /\ Start(w)[t] + w[t].stacks <= Start(w)[n]
                     /\ Rank(w)[t] + one(t) <= Rank(w)[n]
                     /\ Rank(w)[n] <= Rank(w)[t] + 1 + (Start(w)[n] - (Start(w)[t] + w[t].stacks))
           T == {n \in Nat : t < n /\ n <= Len(w) => Far(n)}
<1>1. /\ Start(w)[t] \in Nat /\ Rank(w)[t] \in Nat /\ w[t].stacks \in Nat
      /\ Rank(w)[u] \in Nat /\ t \in Nat /\ t >= 1
  BY SumsNat, TaskOf
<1>2. 0 \in T
  OBVIOUS
<1>3. ASSUME NEW n \in T
      PROVE  n + 1 \in T
  <2>1. CASE n < t
    BY <2>1
  <2>2. CASE n = t
    <3>1. /\ Start(w)[t + 1] = Start(w)[t] + w[t].stacks
          /\ Rank(w)[t + 1] = Rank(w)[t] + one(t)
      BY <1>1, NextStart
    <3>2. one(t) \in 0 .. 1
      OBVIOUS
    <3> HIDE DEF one
    <3>3. Far(t + 1)
      BY <1>1, <3>1, <3>2
    <3> HIDE DEF Far
    <3>4. QED
      BY <2>2, <3>3
  <2>3. CASE t < n /\ n < Len(w)
    <3> DEFINE a == Start(w)[n]
               b == Rank(w)[n]
               c == w[n].stacks
               d == Start(w)[t] + w[t].stacks
               r == Rank(w)[t]
               i == one(n)
               j == one(t)
    <3>1. n \in Nat /\ n >= 1 /\ n + 1 \in Nat
      BY <2>3
    <3>2. Start(w)[n + 1] = a + c /\ Rank(w)[n + 1] = b + i
      BY <3>1, NextStart
    <3>3. /\ a \in Nat /\ b \in Nat /\ c \in Nat /\ d \in Nat /\ r \in Nat
          /\ i \in Nat /\ i <= c /\ j \in Nat
      BY <1>1, <2>3, SumsNat, TaskOf, SMTT(30)
    <3>4. d <= a /\ r + j <= b /\ b <= r + 1 + (a - d)
      BY <2>3
    <3>5. d <= a + c /\ r + j <= b + i /\ b + i <= r + 1 + ((a + c) - d)
      <4> HIDE DEF a, b, c, d, r, i, j
      <4>1. QED
        BY <3>3, <3>4
    <3>6. Far(n + 1)
      BY <3>2, <3>5
    <3> HIDE DEF Far
    <3>7. QED
      BY <3>1, <3>6
  <2>4. CASE n >= Len(w)
    BY <2>4
  <2>5. QED
    BY <2>1, <2>2, <2>3, <2>4
<1>4. T = Nat
  <2>1. T \in SUBSET Nat
    OBVIOUS
  <2> HIDE DEF T
  <2>2. QED
    BY <1>2, <1>3, <2>1, Induction
<1>5. Far(u)
  <2> HIDE DEF Far
  <2>1. QED
    BY <1>4
<1>6. QED
  BY <1>1, <1>5

-----------------------------------------------------------------------------
(* What the engines compute.                                               *)

(* The first stack of a task and the first one after it.                   *)
Base(t) == Start(work)[t]
Rest(t) == Base(t) + work[t].stacks

(* Every stack issued has its place in its task.                           *)
StackInv(e) ==
  \A n \in 1 .. Fr(e) :
    LET d == front[e][n].d IN
    /\ d.task \in TaskNo
    /\ d.kv \in Nat
    /\ d.kv < work[d.task].stacks
    /\ n = Base(d.task) + d.kv + 1
    /\ d.state = Rank(work)[d.task] % STACK_SLOTS
    /\ d.first <=> d.kv = 0
    /\ d.last <=> d.kv + 1 = work[d.task].stacks

(* The walk of an engine: the stacks of the tasks before its own, and those *)
(* of its own begun so far.                                                 *)
WalkInv(e) ==
  pc[e] # "end" =>
    /\ taskSeq[e] = Rank(work)[task[e]]
    /\ pc[e] = "task" => Fr(e) = Base(task[e])
    /\ pc[e] = "front" => Fr(e) = Base(task[e]) + kv[e]
    /\ pc[e] = "delayed" =>
         Fr(e) = IF kv[e] < work[task[e]].stacks
                 THEN Base(task[e]) + kv[e] + 1 ELSE Rest(task[e])

(* What the promise says of a task's rows.                                 *)
Whole(t) ==
  [task  |-> t,
   terms |-> [i \in 1 .. work[t].stacks |->
                [value |-> Base(t) + i - 1, scale |-> Base(t) + i - 1]],
   norm  |-> [i \in 1 .. work[t].stacks |-> Base(t) + i - 1]]

(* The rows written: of an empty task when the engine has come to it, of   *)
(* any other when its last stack is accumulated.                           *)
Begun(v, t) == t < task[v] \/ (t = task[v] /\ pc[v] # "task")
Written(v, t) ==
  /\ Active(v, t)
  /\ IF work[t].stacks = 0 THEN Begun(v, t) ELSE Rest(t) <= delayedDone[v]
OutInv(v) ==
  \A t \in TaskNo : out[v][t] = IF Written(v, t) THEN Whole(t) ELSE NoOutput

(* The task being accumulated has the terms of its stacks so far.          *)
AccInv(v) ==
  \A t \in TaskNo :
    Active(v, t) /\ Base(t) < delayedDone[v] /\ delayedDone[v] < Rest(t) =>
      acc[v] = [i \in 1 .. delayedDone[v] - Base(t) |->
                  [value |-> Base(t) + i - 1, scale |-> Base(t) + i - 1]]

(* A task that still has stacks to accumulate has the row sums of those    *)
(* its softmax has done, and each of these stacks its own factor.          *)
Softened(v, t) ==
  IF frontDone[v] < Rest(t) THEN frontDone[v] - Base(t) ELSE work[t].stacks
SumInv(v) ==
  \A t \in TaskNo :
    /\ work[t].stacks > 0
    /\ Active(v, t)
    /\ Base(t) < frontDone[v]
    /\ delayedDone[v] < Rest(t)
    => gl[v][Rank(work)[t] % STACK_SLOTS] =
         [i \in 1 .. Softened(v, t) |-> Base(t) + i - 1]
FactorInv(v) ==
  \A n \in delayedDone[v] + 1 .. frontDone[v] :
    Active(v, front[v][n].d.task) => dm[v][(n - 1) % STACK_SLOTS] = n - 1

PlaceInv(e) == StackInv(e) /\ WalkInv(e)
ResultInv(v) == OutInv(v) /\ AccInv(v) /\ SumInv(v) /\ FactorInv(v)
TilesInv ==
  /\ IInv
  /\ \A e \in Engine : PlaceInv(e)
  /\ \A v \in Vec : ResultInv(v)

(* The numbers of a task are natural numbers.                              *)
LEMMA TaskFacts ==
  ASSUME TypeOK, NEW t \in TaskNo
  PROVE  /\ t \in Nat /\ t >= 1
         /\ work[t].stacks \in Nat /\ Base(t) \in Nat
         /\ Rest(t) = Base(t) + work[t].stacks /\ Rest(t) \in Nat
         /\ Rank(work)[t] \in Nat
<1>1. work \in Seq(Task)
  BY DEF TypeOK
<1>2. t \in 1 .. Len(work)
  BY DEF TaskNo
<1>3. work[t].stacks \in Nat /\ Base(t) \in Nat /\ Rank(work)[t] \in Nat
  BY <1>1, <1>2, TaskOf, SumsNat DEF Base
<1>4. QED
  BY <1>2, <1>3 DEF Rest

(* The order of two tasks.                                                 *)
LEMMA TaskOrder ==
  ASSUME TypeOK, NEW t \in TaskNo, NEW u \in TaskNo, t < u
  PROVE  /\ Rest(t) <= Base(u)
         /\ work[t].stacks > 0 => Rank(work)[t] < Rank(work)[u]
         /\ Rank(work)[u] <= Rank(work)[t] + 1 + (Base(u) - Rest(t))
<1>1. work \in Seq(Task)
  BY DEF TypeOK
<1>2. t \in 1 .. Len(work) /\ u \in 1 .. Len(work)
  BY DEF TaskNo
<1>3. QED
  BY <1>1, <1>2, Ordered DEF Base, Rest

(* A stack has one place.                                                  *)
LEMMA OnePlace ==
  ASSUME TypeOK, NEW t \in TaskNo, NEW u \in TaskNo, NEW n \in Nat,
         Base(t) < n, n <= Rest(t), Base(u) < n, n <= Rest(u)
  PROVE  t = u
<1>1. /\ t \in Nat /\ Base(t) \in Nat /\ Rest(t) \in Nat
      /\ u \in Nat /\ Base(u) \in Nat /\ Rest(u) \in Nat
  BY TaskFacts
<1>2. ~ (t < u)
  BY <1>1, TaskOrder
<1>3. ~ (u < t)
  BY <1>1, TaskOrder
<1>4. QED
  BY <1>1, <1>2, <1>3

-----------------------------------------------------------------------------
(* The walk keeps the places of the stacks.                                *)

(* What is said of an engine's places speaks of its own state only.        *)
LEMMA PlaceFrame ==
  ASSUME NEW x \in Engine, PlaceInv(x), work' = work,
         pc'[x] = pc[x], task'[x] = task[x], kv'[x] = kv[x],
         taskSeq'[x] = taskSeq[x], front'[x] = front[x]
  PROVE  PlaceInv(x)'
<1>1. Fr(x)' = Fr(x) /\ TaskNo' = TaskNo
  BY DEF Fr, TaskNo
<1>2. \A t : Base(t)' = Base(t) /\ Rest(t)' = Rest(t)
  BY DEF Base, Rest
<1>3. StackInv(x)'
  BY <1>1, <1>2 DEF PlaceInv, StackInv
<1>4. WalkInv(x)'
  BY <1>1, <1>2 DEF PlaceInv, WalkInv
<1>5. QED
  BY <1>3, <1>4 DEF PlaceInv

(* The next task begins where this one ends.                               *)
LEMMA NextPlace ==
  ASSUME TypeOK, NEW t \in TaskNo
  PROVE  /\ Base(t + 1) = Rest(t)
         /\ Rank(work)[t + 1] = Rank(work)[t] + HasWork(t)
<1>1. t \in Nat /\ t >= 1
  BY TaskFacts
<1>2. QED
  BY <1>1, NextStart DEF Base, Rest, HasWork

(* Beginning a task. *)
LEMMA BeginTaskPlace ==
  ASSUME NEW e \in Engine, TypeOK, LocalInv(e), PlaceInv(e), BeginTask(e)
  PROVE  PlaceInv(e)'
<1> DEFINE t == task[e]
<1>1. pc[e] = "task" /\ t \in TaskNo /\ TaskNo' = TaskNo /\ work' = work
  BY DEF BeginTask, LocalInv, CountInv, TaskNo
<1>2. front' = front /\ taskSeq' = taskSeq /\ kv'[e] = 0
  BY DEF BeginTask, opVars, TypeOK
<1>3. Fr(e)' = Fr(e) /\ \A u : Base(u)' = Base(u) /\ Rest(u)' = Rest(u)
  BY <1>1, <1>2 DEF Fr, Base, Rest
<1>4. StackInv(e)'
  BY <1>1, <1>2, <1>3 DEF PlaceInv, StackInv
<1>5. /\ t \in Nat /\ work[t].stacks \in Nat /\ Base(t) \in Nat
      /\ Rest(t) = Base(t) + work[t].stacks /\ Rank(work)[t] \in Nat
  BY <1>1, TaskFacts
<1>6. taskSeq[e] = Rank(work)[t] /\ Fr(e) = Base(t)
  BY <1>1 DEF PlaceInv, WalkInv
<1>7. CASE work[t].stacks > 0
  <2>1. pc'[e] = "front" /\ task' = task
    BY <1>5, <1>7 DEF BeginTask, TypeOK
  <2>2. QED
    BY <1>1, <1>2, <1>3, <1>4, <1>5, <1>6, <2>1 DEF PlaceInv, WalkInv
<1>8. CASE work[t].stacks = 0 /\ IsLast(t)
  <2>1. pc'[e] = "delayed" /\ task' = task
    BY <1>8 DEF BeginTask, TypeOK
  <2>2. QED
    BY <1>1, <1>2, <1>3, <1>4, <1>5, <1>6, <1>8, <2>1 DEF PlaceInv, WalkInv
<1>9. CASE work[t].stacks = 0 /\ ~ IsLast(t)
  <2>1. pc'[e] = "task" /\ task'[e] = t + 1
    BY <1>9 DEF BeginTask, NextTask, TypeOK
  <2>2. Base(t + 1) = Base(t) /\ Rank(work)[t + 1] = Rank(work)[t]
    BY <1>1, <1>5, <1>9, NextPlace DEF HasWork
  <2>3. QED
    BY <1>1, <1>2, <1>3, <1>4, <1>6, <2>1, <2>2 DEF PlaceInv, WalkInv
<1>10. QED
  BY <1>5, <1>7, <1>8, <1>9

(* Issuing a front operation: the next stack of the task. *)
LEMMA IssueFrontPlace ==
  ASSUME NEW e \in Engine, TypeOK, LocalInv(e), PlaceInv(e), IssueFront(e)
  PROVE  PlaceInv(e)'
<1> DEFINE t == task[e]
           d == StackDescriptor(e)
           f == Fr(e)
<1>1. /\ pc[e] = "front" /\ pc'[e] = "delayed"
      /\ work' = work /\ task' = task /\ kv' = kv /\ taskSeq' = taskSeq
  BY DEF IssueFront, TypeOK
<1>2. /\ t \in TaskNo /\ work[t].stacks \in Nat /\ kv[e] < work[t].stacks
      /\ f \in Nat /\ kv[e] \in Nat /\ Base(t) \in Nat /\ TaskNo' = TaskNo
  BY <1>1, TaskFacts, Numbers DEF LocalInv, CountInv, TaskNo
<1>3. f = Base(t) + kv[e] /\ taskSeq[e] = Rank(work)[t]
  BY <1>1 DEF PlaceInv, WalkInv
<1>4. /\ d.task = t /\ d.kv = kv[e] /\ d.state = Rank(work)[t] % STACK_SLOTS
      /\ d.first <=> kv[e] = 0
      /\ d.last <=> kv[e] + 1 = work[t].stacks
  <2>1. kv[e] + 1 >= work[t].stacks <=> kv[e] + 1 = work[t].stacks
    BY <1>2
  <2>2. /\ d.task = t /\ d.kv = kv[e] /\ d.state = StateSlot(e)
        /\ d.first = (kv[e] = 0)
        /\ d.last = (kv[e] + 1 >= work[t].stacks)
    BY DEF StackDescriptor
  <2>3. StateSlot(e) = Rank(work)[t] % STACK_SLOTS
    BY <1>3 DEF StateSlot
  <2> HIDE DEF d
  <2>4. QED
    BY <2>1, <2>2, <2>3, Zenon
<1>5. front'[e] = Append(front[e], Op(d, De(e)))
  BY DEF IssueFront, TypeOK, De
<1> HIDE DEF d, f
<1>6. /\ Fr(e)' = f + 1
      /\ front'[e][f + 1] = Op(d, De(e))
      /\ \A n \in 1 .. f : front'[e][n] = front[e][n]
  BY <1>5 DEF Fr, f, TypeOK
<1>7. \A u : Base(u)' = Base(u) /\ Rest(u)' = Rest(u)
  BY <1>1 DEF Base, Rest
<1>8. StackInv(e)'
  <2> SUFFICES ASSUME NEW n \in 1 .. f + 1
               PROVE  LET x == front'[e][n].d IN
                      /\ x.task \in TaskNo
                      /\ x.kv \in Nat
                      /\ x.kv < work[x.task].stacks
                      /\ n = Base(x.task) + x.kv + 1
                      /\ x.state = Rank(work)[x.task] % STACK_SLOTS
                      /\ x.first <=> x.kv = 0
                      /\ x.last <=> x.kv + 1 = work[x.task].stacks
    BY <1>1, <1>2, <1>6, <1>7 DEF StackInv
  <2>1. CASE n = f + 1
    <3>1. front'[e][n] = Op(d, De(e))
      BY <1>6, <2>1
    <3>2. front'[e][n].d = d
      BY <3>1 DEF Op
    <3>3. d.task = t /\ d.kv = kv[e] /\ n = Base(t) + kv[e] + 1
      BY <1>2, <1>3, <1>4, <2>1
    <3>4. QED
      BY <1>2, <1>4, <3>2, <3>3
  <2>2. CASE n # f + 1
    <3>1. n \in 1 .. f
      BY <1>2, <2>2
    <3>2. QED
      BY <1>6, <3>1 DEF PlaceInv, StackInv, f
  <2>3. QED
    BY <2>1, <2>2
<1>9. WalkInv(e)'
  BY <1>1, <1>2, <1>3, <1>6, <1>7 DEF WalkInv
<1>10. QED
  BY <1>8, <1>9 DEF PlaceInv

(* The end of an iteration. *)
LEMMA AdvancePlace ==
  ASSUME NEW e \in Engine, TypeOK, LocalInv(e), PlaceInv(e),
         pc[e] = "delayed", Advance(e), work' = work, front' = front
  PROVE  PlaceInv(e)'
<1> DEFINE t == task[e]
           k == work[t].stacks
<1>1. t \in TaskNo /\ TaskNo' = TaskNo /\ Fr(e)' = Fr(e)
  BY DEF LocalInv, CountInv, TaskNo, Fr
<1>2. /\ t \in Nat /\ k \in Nat /\ Base(t) \in Nat /\ Rest(t) = Base(t) + k
      /\ kv[e] \in Nat /\ LoopEnd(t) \in Nat /\ LoopEnd(t) >= k
      /\ ~ IsLast(t) => LoopEnd(t) = k
  BY <1>1, TaskFacts, DrainFact, Numbers
<1>3. \A u : Base(u)' = Base(u) /\ Rest(u)' = Rest(u)
  BY DEF Base, Rest
<1>4. StackInv(e)'
  BY <1>1, <1>3 DEF PlaceInv, StackInv
<1>5. /\ taskSeq[e] = Rank(work)[t]
      /\ Fr(e) = IF kv[e] < k THEN Base(t) + kv[e] + 1 ELSE Rest(t)
      /\ kv'[e] = kv[e] + 1
  BY DEF PlaceInv, WalkInv, Advance, TypeOK
<1>6. CASE kv[e] + 1 < LoopEnd(t)
  <2>1. ~ (kv[e] + 1 >= LoopEnd(t))
    BY <1>2, <1>6
  <2>2. /\ task'[e] = t /\ taskSeq'[e] = taskSeq[e]
        /\ pc'[e] = IF kv[e] + 1 < k THEN "front" ELSE "delayed"
    BY <2>1 DEF Advance, TypeOK
  <2>3. WalkInv(e)'
    BY <1>1, <1>2, <1>3, <1>5, <2>2 DEF WalkInv
  <2>4. QED
    BY <1>4, <2>3 DEF PlaceInv
<1>7. CASE kv[e] + 1 >= LoopEnd(t)
  <2>1. ~ (kv[e] + 1 < LoopEnd(t))
    BY <1>2, <1>7
  <2>2. /\ task'[e] = t + 1 /\ taskSeq'[e] = taskSeq[e] + HasWork(t)
        /\ pc'[e] = IF IsLast(t) THEN "end" ELSE "task"
    BY <2>1 DEF Advance, NextTask, TypeOK
  <2>3. CASE IsLast(t)
    BY <1>4, <2>2, <2>3 DEF PlaceInv, WalkInv
  <2>4. CASE ~ IsLast(t)
    <3>1. Fr(e) = Rest(t)
      BY <1>2, <1>5, <1>7, <2>4
    <3>2. Base(t + 1) = Rest(t) /\ Rank(work)[t + 1] = Rank(work)[t] + HasWork(t)
      BY <1>1, NextPlace
    <3>3. WalkInv(e)'
      BY <1>1, <1>3, <1>5, <2>2, <2>4, <3>1, <3>2 DEF WalkInv
    <3>4. QED
      BY <1>4, <3>3 DEF PlaceInv
  <2>5. QED
    BY <2>3, <2>4
<1>8. QED
  BY <1>2, <1>6, <1>7

(* Every step keeps the places of the stacks of every engine.              *)
LEMMA PlaceStep ==
  ASSUME IInv, \A e \in Engine : PlaceInv(e), [Next]_vars
  PROVE  \A e \in Engine : PlaceInv(e)'
<1> SUFFICES ASSUME NEW x \in Engine PROVE PlaceInv(x)'
  OBVIOUS
<1>1. TypeOK /\ \A e \in Engine : LocalInv(e)
  BY DEF IInv
<1>2. ASSUME NEW e \in Engine, BeginTask(e) PROVE PlaceInv(x)'
  <2>1. CASE x = e
    BY <1>1, <1>2, <2>1, BeginTaskPlace
  <2>2. CASE x # e
    BY <1>1, <1>2, <2>2, PlaceFrame, SMTT(30) DEF BeginTask, NextTask, opVars, TypeOK
  <2>3. QED
    BY <2>1, <2>2
<1>3. ASSUME NEW e \in Engine, IssueFront(e) PROVE PlaceInv(x)'
  <2>1. CASE x = e
    BY <1>1, <1>3, <2>1, IssueFrontPlace
  <2>2. CASE x # e
    BY <1>1, <1>3, <2>2, PlaceFrame DEF IssueFront, TypeOK
  <2>3. QED
    BY <2>1, <2>2
<1>4. ASSUME NEW e \in Engine, Advance(e), pc[e] = "delayed", work' = work, front' = front
      PROVE  PlaceInv(x)'
  <2>1. CASE x = e
    BY <1>1, <1>4, <2>1, AdvancePlace
  <2>2. CASE x # e
    BY <1>1, <1>4, <2>2, PlaceFrame DEF Advance, NextTask, TypeOK
  <2>3. QED
    BY <2>1, <2>2
<1>5. CASE UNCHANGED <<work, walkVars, front>>
  BY <1>5, PlaceFrame DEF walkVars
<1>6. ASSUME NEW e \in Engine, WalkStep(e) PROVE PlaceInv(x)'
  BY <1>2, <1>4, <1>6 DEF WalkStep, SkipDelayed, opVars
<1>7. CASE CubeStep
  BY <1>3, <1>4, <1>5, <1>7, EngineFacts
  DEF CubeStep, IssueQK, IssuePV, IssueDelayed, CompleteQK, CompletePV
<1>8. CASE \E v \in Vec : VecStep(v)
  BY <1>3, <1>4, <1>5, <1>8, EngineFacts
  DEF VecStep, IssueSM, IssueRS, IssueDelayed, CompleteSM, CompleteRS
<1>9. CASE UNCHANGED vars
  BY <1>5, <1>9 DEF vars, opVars
<1>10. QED
  BY <1>6, <1>7, <1>8, <1>9 DEF Next, Terminating

-----------------------------------------------------------------------------
(* The steps that change what a vector engine v has computed are those that *)
(* complete one of its operations or begin one of its tasks.               *)

Kept(v) ==
  /\ work' = work
  /\ frontDone'[v] = frontDone[v] /\ delayedDone'[v] = delayedDone[v]
  /\ dm'[v] = dm[v] /\ gl'[v] = gl[v] /\ acc'[v] = acc[v] /\ out'[v] = out[v]
  /\ \A n \in 1 .. Fr(v) : front'[v][n] = front[v][n]
  /\ \A t \in TaskNo : Begun(v, t)' <=> Begun(v, t)

(* A task already begun stays so, and going on begins no other.            *)
LEMMA AdvanceBegun ==
  ASSUME NEW e \in Engine, TypeOK, CountInv(e), pc[e] = "delayed", Advance(e),
         NEW t \in TaskNo
  PROVE  Begun(e, t)' <=> Begun(e, t)
<1>1. t \in Nat /\ t <= Len(work) /\ task[e] \in Nat
  BY DEF TypeOK, TaskNo
<1>2. \/ task'[e] = task[e] /\ pc'[e] \in {"front", "delayed"}
      \/ /\ task'[e] = task[e] + 1
         /\ pc'[e] = IF IsLast(task[e]) THEN "end" ELSE "task"
  BY DEF Advance, NextTask, TypeOK
<1>3. CASE task'[e] = task[e] /\ pc'[e] \in {"front", "delayed"}
  BY <1>3 DEF Begun
<1>4. CASE /\ task'[e] = task[e] + 1
           /\ pc'[e] = IF IsLast(task[e]) THEN "end" ELSE "task"
  BY <1>1, <1>4 DEF Begun, IsLast
<1>5. QED
  BY <1>2, <1>3, <1>4

(* Every other step keeps it.                                              *)
LEMMA OtherSteps ==
  ASSUME IInv, [Next]_vars, NEW v \in Vec,
         ~ BeginTask(v), ~ CompleteSM(v), ~ CompleteRS(v)
  PROVE  Kept(v)
<1>1. /\ TypeOK /\ v \in Engine /\ v # Cube /\ Cube \in Engine
      /\ \A e \in Engine : CountInv(e)
  BY EngineFacts DEF IInv, LocalInv
<1>2. ASSUME NEW e \in Engine, BeginTask(e) PROVE Kept(v)
  <2>1. e # v
    BY <1>2
  <2>2. \/ out' = out
        \/ out' = [out EXCEPT ![e][task[e]] = EmptyOutput(task[e])]
    BY <1>2 DEF BeginTask, InitOutWhenZero
  <2>3. out'[v] = out[v]
    BY <1>1, <2>1, <2>2 DEF TypeOK
  <2>4. /\ pc'[v] = pc[v] /\ task'[v] = task[v]
        /\ UNCHANGED <<work, front, frontDone, delayedDone, dm, gl, acc>>
    BY <1>1, <1>2, <2>1 DEF BeginTask, NextTask, TypeOK, opVars
  <2>5. QED
    BY <2>3, <2>4 DEF Kept, Begun
<1>3. ASSUME NEW e \in Engine, pc[e] = "delayed", Advance(e),
             UNCHANGED <<work, front, frontDone, delayedDone, dm, gl, acc, out>>
      PROVE  Kept(v)
  <2>1. CASE e = v
    BY <1>1, <1>3, <2>1, AdvanceBegun DEF Kept
  <2>2. CASE e # v
    <3>1. pc'[v] = pc[v] /\ task'[v] = task[v]
      BY <1>1, <1>3, <2>2 DEF Advance, NextTask, TypeOK
    <3>2. QED
      BY <1>3, <3>1 DEF Kept, Begun
  <2>3. QED
    BY <2>1, <2>2
<1>4. ASSUME NEW e \in Engine, IssueFront(e) PROVE Kept(v)
  <2>1. UNCHANGED <<work, task, frontDone, delayedDone, dm, gl, acc, out>>
    BY <1>4 DEF IssueFront
  <2>2. \A t \in TaskNo : Begun(v, t)' <=> Begun(v, t)
    <3>1. pc'[v] = IF v = e THEN "delayed" ELSE pc[v]
      BY <1>1, <1>4 DEF IssueFront, TypeOK
    <3>2. pc[e] = "front"
      BY <1>4 DEF IssueFront
    <3>3. QED
      BY <2>1, <3>1, <3>2 DEF Begun
  <2>3. \A n \in 1 .. Fr(v) : front'[v][n] = front[v][n]
    <3> DEFINE o == Op(StackDescriptor(e), Len(delayed[e]))
    <3>1. front' = [front EXCEPT ![e] = Append(front[e], o)]
      BY <1>4 DEF IssueFront
    <3> HIDE DEF o
    <3>2. front \in [Engine -> Seq(Operation)] /\ front[v] \in Seq(Operation)
      BY <1>1 DEF TypeOK
    <3>3. \A n \in 1 .. Len(front[v]) : Append(front[v], o)[n] = front[v][n]
      BY <3>2
    <3>4. front'[v] = front[v] \/ front'[v] = Append(front[v], o)
      BY <1>1, <3>1, <3>2
    <3>5. QED
      BY <3>3, <3>4 DEF Fr
  <2>4. QED
    BY <2>1, <2>2, <2>3 DEF Kept
<1>5. CASE CompleteQK \/ CompletePV
  <2>1. UNCHANGED <<work, walkVars, front, dm, gl, acc, out>>
    BY <1>5 DEF CompleteQK, CompletePV
  <2>2. frontDone'[v] = frontDone[v] /\ delayedDone'[v] = delayedDone[v]
    BY <1>1, <1>5 DEF CompleteQK, CompletePV, TypeOK
  <2>3. QED
    BY <2>1, <2>2 DEF Kept, Begun, walkVars
<1>6. ASSUME NEW u \in Vec, u # v, CompleteSM(u) PROVE Kept(v)
  <2>1. UNCHANGED <<work, walkVars, front, delayedDone, acc, out>>
    BY <1>6 DEF CompleteSM
  <2>2. frontDone'[v] = frontDone[v]
    BY <1>1, <1>6 DEF CompleteSM, TypeOK
  <2>3. dm'[v] = dm[v] /\ gl'[v] = gl[v]
    BY <1>1, <1>6 DEF CompleteSM, TypeOK
  <2>4. QED
    BY <2>1, <2>2, <2>3 DEF Kept, Begun, walkVars
<1>7. ASSUME NEW u \in Vec, u # v, CompleteRS(u) PROVE Kept(v)
  <2>1. UNCHANGED <<work, walkVars, front, frontDone, dm, gl>>
    BY <1>7 DEF CompleteRS
  <2>2. delayedDone'[v] = delayedDone[v]
    BY <1>1, <1>7 DEF CompleteRS, TypeOK
  <2>3. acc'[v] = acc[v] /\ out'[v] = out[v]
    BY <1>1, <1>7 DEF CompleteRS, TypeOK
  <2>4. QED
    BY <2>1, <2>2, <2>3 DEF Kept, Begun, walkVars
<1>8. CASE UNCHANGED vars
  BY <1>8 DEF vars, walkVars, opVars, bufVars, Kept, Begun
<1>9. ASSUME NEW e \in Engine, WalkStep(e) PROVE Kept(v)
  BY <1>2, <1>3, <1>9 DEF WalkStep, SkipDelayed, opVars, bufVars
<1>10. CASE CubeStep
  <2>1. CASE IssueQK
    BY <1>1, <1>4, <2>1 DEF IssueQK
  <2>2. CASE IssuePV
    BY <1>1, <1>3, <2>2 DEF IssuePV, IssueDelayed
  <2>3. QED
    BY <1>5, <1>10, <2>1, <2>2 DEF CubeStep
<1>11. ASSUME NEW u \in Vec, VecStep(u) PROVE Kept(v)
  <2>1. u \in Engine
    BY EngineFacts
  <2>2. CASE IssueSM(u)
    BY <1>4, <2>1, <2>2 DEF IssueSM
  <2>3. CASE IssueRS(u)
    BY <1>3, <2>1, <2>3 DEF IssueRS, IssueDelayed
  <2>4. QED
    BY <1>6, <1>7, <1>11, <2>2, <2>3 DEF VecStep
<1>12. QED
  BY <1>8, <1>9, <1>10, <1>11 DEF Next, Terminating

(* What is said of a task depends on the task list only.                   *)
LEMMA SameTasks ==
  ASSUME work' = work
  PROVE  /\ TaskNo' = TaskNo
         /\ \A t : Base(t)' = Base(t) /\ Rest(t)' = Rest(t) /\ Whole(t)' = Whole(t)
         /\ \A v, t : Active(v, t)' <=> Active(v, t)
<1>1. \A t : Base(t)' = Base(t) /\ Rest(t)' = Rest(t)
  BY DEF Base, Rest
<1>2. QED
  BY <1>1 DEF TaskNo, Whole, Active

(* A step that keeps what v has computed keeps what is said of it.         *)
LEMMA KeptResult ==
  ASSUME IInv, NEW v \in Vec, ResultInv(v), Kept(v)
  PROVE  ResultInv(v)'
<1>1. work' = work /\ TaskNo' = TaskNo
  BY SameTasks DEF Kept
<1>2. /\ \A t : Base(t)' = Base(t) /\ Rest(t)' = Rest(t) /\ Whole(t)' = Whole(t)
      /\ \A t : Active(v, t)' <=> Active(v, t)
      /\ Rank(work)' = Rank(work)
  BY <1>1, SameTasks
<1>3. OutInv(v)'
  <2>1. \A t \in TaskNo : Written(v, t)' <=> Written(v, t)
    BY <1>1, <1>2 DEF Kept, Written
  <2>2. QED
    BY <1>1, <1>2, <2>1 DEF ResultInv, OutInv, Kept
<1>4. AccInv(v)'
  BY <1>1, <1>2 DEF ResultInv, AccInv, Kept
<1>5. SumInv(v)'
  BY <1>1, <1>2 DEF ResultInv, SumInv, Softened, Kept
<1>6. FactorInv(v)'
  <2>1. /\ frontDone[v] <= Fr(v) /\ frontDone[v] \in Nat /\ delayedDone[v] \in Nat
        /\ Fr(v) \in Nat
    BY Chain, Numbers, EngineFacts DEF IInv
  <2>2. \A n \in delayedDone[v] + 1 .. frontDone[v] : front'[v][n] = front[v][n]
    BY <2>1 DEF Kept
  <2>3. QED
    BY <1>2, <2>2 DEF ResultInv, FactorInv, Kept
<1>7. QED
  BY <1>3, <1>4, <1>5, <1>6 DEF ResultInv

-----------------------------------------------------------------------------
(* The softmax of one more stack.                                          *)

(* What it changes, for the stack that is number k of its task t.          *)
SoftmaxOf(v, t, k) ==
  LET f == frontDone[v]
      s == Rank(work)[t] % STACK_SLOTS IN
  /\ k < work[t].stacks /\ f = Base(t) + k
  /\ f + 1 <= Fr(v) /\ f + 1 <= delayedDone[v] + STACK_SLOTS
  /\ front[v][f + 1].d.task = t
  /\ frontDone'[v] = f + 1
  /\ UNCHANGED <<work, walkVars, front, delayed, delayedDone, acc, out>>
  /\ IF Active(v, t)
     THEN /\ dm'[v] = [dm[v] EXCEPT ![f % STACK_SLOTS] = f]
          /\ gl'[v] = [gl[v] EXCEPT ![s] = IF k = 0 THEN <<f>>
                                                   ELSE Append(gl[v][s], f)]
     ELSE dm'[v] = dm[v] /\ gl'[v] = gl[v]

LEMMA SoftmaxFacts ==
  ASSUME IInv, NEW v \in Vec, PlaceInv(v), CompleteSM(v)
  PROVE  \E t \in TaskNo, k \in Nat : SoftmaxOf(v, t, k)
<1> DEFINE f == frontDone[v]
           d == OldestFront(v)
           t == d.task
           k == d.kv
<1>1. TypeOK /\ v \in Engine /\ CanCompleteFront(v) /\ f \in Nat
  BY EngineFacts, Numbers DEF IInv, CompleteSM
<1>2. /\ f + 1 \in 1 .. Fr(v) /\ d = front[v][f + 1].d
      /\ d.num = f /\ d.slot = f % STACK_SLOTS
  BY <1>1, OldestExact
<1>3. /\ t \in TaskNo /\ k \in Nat /\ k < work[t].stacks
      /\ f + 1 = Base(t) + k + 1
      /\ d.state = Rank(work)[t] % STACK_SLOTS
      /\ d.first <=> k = 0
  BY <1>2 DEF PlaceInv, StackInv
<1>4. S[f % STACK_SLOTS] = f
  <2>1. f + 1 \in Nat /\ frontDone[v] < f + 1 /\ f + 1 <= Fr(v) /\ (f + 1) - 1 = f
    BY <1>1, <1>2
  <2>2. QED
    BY <2>1, ScoreRead
<1>5. f + 1 <= delayedDone[v] + STACK_SLOTS
  <2> DEFINE o == front[v][f + 1]
  <2>1. o \in Operation
    BY <1>1, <1>2, SMTT(30) DEF TypeOK, Fr
  <2>2. o.after \in Nat
    BY <2>1 DEF Operation
  <2>3. o.after + STACK_SLOTS >= f + 1
    BY <1>1, <1>2 DEF IInv, LocalInv, OpsInv
  <2>4. o.after <= delayedDone[v]
    BY <1>1 DEF CanCompleteFront
  <2> HIDE DEF o
  <2>5. QED
    BY <1>1, <2>2, <2>3, <2>4, Numbers
<1>6. /\ frontDone'[v] = f + 1
      /\ UNCHANGED <<work, walkVars, front, delayed, delayedDone, acc, out>>
  BY <1>1 DEF CompleteSM, TypeOK
<1>7. ASSUME Active(v, t)
      PROVE  /\ dm'[v] = [dm[v] EXCEPT ![f % STACK_SLOTS] = f]
             /\ gl'[v] = [gl[v] EXCEPT ![d.state] = IF d.first THEN <<f>>
                                                    ELSE Append(gl[v][d.state], f)]
  <2>1. /\ dm' = [dm EXCEPT ![v][f % STACK_SLOTS] = f]
        /\ gl' = [gl EXCEPT ![v][d.state] = IF d.first THEN <<f>>
                                            ELSE Append(gl[v][d.state], f)]
    BY <1>2, <1>4, <1>7 DEF CompleteSM
  <2> HIDE DEF d
  <2>2. QED
    BY <1>1, <2>1 DEF TypeOK
<1>8. ASSUME ~ Active(v, t)
      PROVE  dm'[v] = dm[v] /\ gl'[v] = gl[v]
  BY <1>8 DEF CompleteSM
<1>9. f = Base(t) + k /\ f + 1 <= Fr(v)
  <2>1. Base(t) \in Nat /\ k \in Nat /\ f \in Nat /\ Fr(v) \in Nat /\ f < Fr(v)
    BY <1>1, <1>2, <1>3, TaskFacts, Numbers
  <2>2. QED
    BY <1>3, <2>1
<1>10. SoftmaxOf(v, t, k)
  <2> DEFINE s == Rank(work)[t] % STACK_SLOTS
  <2>1. ASSUME Active(v, t)
        PROVE  gl'[v] = [gl[v] EXCEPT ![s] = IF k = 0 THEN <<f>>
                                             ELSE Append(gl[v][s], f)]
    <3> HIDE DEF d
    <3>1. d.state = s /\ (d.first <=> k = 0)
      BY <1>3
    <3>2. gl'[v] = [gl[v] EXCEPT ![d.state] = IF d.first THEN <<f>>
                                              ELSE Append(gl[v][d.state], f)]
      BY <1>7, <2>1
    <3> HIDE DEF s
    <3>3. QED
      BY <3>1, <3>2
  <2> HIDE DEF d
  <2>2. front[v][f + 1].d.task = t /\ k < work[t].stacks
    BY <1>2, <1>3
  <2> HIDE DEF t, k
  <2>3. QED
    BY <1>5, <1>6, <1>7, <1>8, <1>9, <2>1, <2>2 DEF SoftmaxOf
<1>11. QED
  BY <1>3, <1>10

(* The row sums of a task and the factors of its stacks stay right: the    *)
(* task's place in the ring is taken by no task begun before it is done.   *)
LEMMA SoftmaxStep ==
  ASSUME IInv, NEW v \in Vec, PlaceInv(v), ResultInv(v), CompleteSM(v)
  PROVE  ResultInv(v)'
<1> DEFINE f == frontDone[v]
           g == delayedDone[v]
<1>1. /\ TypeOK /\ v \in Engine /\ f \in Nat /\ g \in Nat /\ STACK_SLOTS \in Nat
      /\ Fr(v) \in Nat /\ g <= f
  BY EngineFacts, Numbers DEF IInv, LocalInv, OpsInv
<1>2. PICK u \in TaskNo, k \in Nat : SoftmaxOf(v, u, k)
  BY SoftmaxFacts
<1>3. /\ k < work[u].stacks /\ f = Base(u) + k
      /\ f + 1 <= Fr(v) /\ f + 1 <= g + STACK_SLOTS
      /\ front[v][f + 1].d.task = u
      /\ frontDone'[v] = f + 1 /\ delayedDone' = delayedDone /\ acc' = acc /\ out' = out
      /\ pc' = pc /\ task' = task /\ work' = work /\ front' = front
  BY <1>2 DEF SoftmaxOf, walkVars
<1>4. /\ TaskNo' = TaskNo /\ Rank(work)' = Rank(work)
      /\ \A t : Base(t)' = Base(t) /\ Rest(t)' = Rest(t) /\ Whole(t)' = Whole(t)
      /\ \A t : Active(v, t)' <=> Active(v, t)
  BY <1>3, SameTasks
<1>5. OutInv(v)'
  <2>1. \A t \in TaskNo : Written(v, t)' <=> Written(v, t)
    BY <1>3, <1>4 DEF Written, Begun
  <2>2. QED
    BY <1>3, <1>4, <2>1 DEF ResultInv, OutInv
<1>6. AccInv(v)'
  BY <1>3, <1>4 DEF ResultInv, AccInv
<1>7. /\ Base(u) \in Nat /\ work[u].stacks \in Nat /\ Rest(u) = Base(u) + work[u].stacks
      /\ Rank(work)[u] \in Nat /\ u \in Nat
  BY <1>1, TaskFacts
<1>8. dm[v] \in [Slot -> Int] /\ gl[v] \in [Slot -> Seq(Int)]
  BY <1>1 DEF TypeOK
<1>9. SumInv(v)'
  <2> SUFFICES ASSUME NEW t \in TaskNo, work[t].stacks > 0, Active(v, t),
                      Base(t) < f + 1, g < Rest(t)
               PROVE  gl'[v][Rank(work)[t] % STACK_SLOTS] =
                        [i \in 1 .. (IF f + 1 < Rest(t) THEN (f + 1) - Base(t)
                                                        ELSE work[t].stacks)
                           |-> Base(t) + i - 1]
    <3>1. \A t : Softened(v, t)' = IF f + 1 < Rest(t) THEN (f + 1) - Base(t)
                                                     ELSE work[t].stacks
      BY <1>3, <1>4 DEF Softened
    <3>2. SUFFICES ASSUME NEW t \in TaskNo, work[t].stacks > 0, Active(v, t),
                          Base(t) < f + 1, g < Rest(t)
                   PROVE  gl'[v][Rank(work)[t] % STACK_SLOTS] =
                            [i \in 1 .. Softened(v, t)' |-> Base(t) + i - 1]
      BY <1>3, <1>4 DEF SumInv
    <3>3. QED
      BY <3>1, <3>2
  <2> DEFINE s == Rank(work)[t] % STACK_SLOTS
             r == Rank(work)[u] % STACK_SLOTS
  <2>1. /\ Base(t) \in Nat /\ work[t].stacks \in Nat /\ t \in Nat
        /\ Rest(t) = Base(t) + work[t].stacks /\ Rank(work)[t] \in Nat
    BY <1>1, TaskFacts
  <2>2. s \in Slot /\ r \in Slot
    BY <1>7, <2>1, ModRange
  <2>3. CASE t = u
    <3>1. gl'[v] = [gl[v] EXCEPT ![s] = IF k = 0 THEN <<f>> ELSE Append(gl[v][s], f)]
      BY <1>2, <2>3 DEF SoftmaxOf
    <3>2. gl'[v][s] = IF k = 0 THEN <<f>> ELSE Append(gl[v][s], f)
      <4> HIDE DEF s, f
      <4>1. QED
        BY <1>8, <2>2, <3>1
    <3>3. (IF f + 1 < Rest(t) THEN (f + 1) - Base(t) ELSE work[t].stacks) = k + 1
      BY <1>3, <1>7, <2>3
    <3>4. CASE k = 0
      <4>1. f = Base(t)
        BY <1>3, <1>7, <2>3, <3>4
      <4>2. <<f>> = [i \in 1 .. k + 1 |-> Base(t) + i - 1]
        BY <2>1, <3>4, <4>1
      <4>3. QED
        BY <3>2, <3>3, <3>4, <4>2
    <3>5. CASE k # 0
      <4> DEFINE b == Base(t)
      <4>1. gl[v][s] = [i \in 1 .. k |-> b + i - 1]
        <5>1. Base(t) < f /\ f < Rest(t) /\ f - Base(t) = k
          BY <1>1, <1>3, <1>7, <2>3, <3>5
        <5>2. gl[v][s] = [i \in 1 .. Softened(v, t) |-> Base(t) + i - 1]
          BY <5>1 DEF ResultInv, SumInv
        <5>3. QED
          BY <5>1, <5>2 DEF Softened
      <4>2. f = b + k /\ b \in Nat
        BY <1>3, <2>1, <2>3
      <4> HIDE DEF b, s, f
      <4>3. Append(gl[v][s], f) = [i \in 1 .. k + 1 |-> b + i - 1]
        BY <4>1, <4>2
      <4>4. QED
        BY <3>2, <3>3, <3>5, <4>3 DEF b, s, f
    <3>6. QED
      BY <3>4, <3>5
  <2>4. CASE t # u
    <3>1. ~ (u < t)
      BY <1>1, <1>3, <1>7, <2>1, TaskOrder
    <3>2. t < u
      BY <1>7, <2>1, <2>4, <3>1
    <3>3. /\ Rest(t) <= Base(u)
          /\ Rank(work)[t] < Rank(work)[u]
          /\ Rank(work)[u] <= Rank(work)[t] + 1 + (Base(u) - Rest(t))
      BY <1>1, <3>2, TaskOrder
    <3>4. s # r
      <4>1. Rank(work)[u] < Rank(work)[t] + STACK_SLOTS
        BY <1>1, <1>3, <1>7, <2>1, <3>3
      <4>2. QED
        BY <1>7, <2>1, <3>3, <4>1, ModUnique
    <3>5. gl'[v][s] = gl[v][s]
      <4>1. \/ gl'[v] = gl[v]
            \/ gl'[v] = [gl[v] EXCEPT ![r] = IF k = 0 THEN <<f>> ELSE Append(gl[v][r], f)]
        BY <1>2 DEF SoftmaxOf
      <4> HIDE DEF s, r, f
      <4>2. QED
        BY <1>8, <2>2, <3>4, <4>1
    <3>6. Base(t) < f /\ ~ (f < Rest(t)) /\ ~ (f + 1 < Rest(t))
      BY <1>1, <1>3, <1>7, <2>1, <3>3
    <3>7. gl[v][s] = [i \in 1 .. Softened(v, t) |-> Base(t) + i - 1]
      BY <3>6 DEF ResultInv, SumInv
    <3>8. QED
      BY <3>5, <3>6, <3>7 DEF Softened
  <2>5. QED
    BY <2>3, <2>4
<1>10. FactorInv(v)'
  <2> SUFFICES ASSUME NEW n \in g + 1 .. f + 1, Active(v, front[v][n].d.task)
               PROVE  dm'[v][(n - 1) % STACK_SLOTS] = n - 1
    BY <1>3, <1>4 DEF FactorInv
  <2>1. n \in Nat \ {0} /\ f + 1 \in Nat \ {0} /\ (f + 1) - 1 = f /\ n - 1 \in Nat
    BY <1>1
  <2>2. (n - 1) % STACK_SLOTS \in Slot /\ f % STACK_SLOTS \in Slot
    BY <1>1, <2>1, ModRange
  <2>3. CASE n = f + 1
    <3>1. dm'[v] = [dm[v] EXCEPT ![f % STACK_SLOTS] = f]
      BY <1>2, <1>3, <2>3 DEF SoftmaxOf
    <3>2. QED
      BY <1>8, <2>1, <2>2, <2>3, <3>1
  <2>4. CASE n # f + 1
    <3>1. n \in g + 1 .. f /\ n < f + 1 /\ f + 1 < n + STACK_SLOTS
      BY <1>1, <1>3, <2>1, <2>4
    <3>2. (n - 1) % STACK_SLOTS # f % STACK_SLOTS
      BY <2>1, <3>1, SlotsDiffer
    <3>3. dm[v][(n - 1) % STACK_SLOTS] = n - 1
      BY <3>1 DEF ResultInv, FactorInv
    <3>4. dm'[v] = dm[v] \/ dm'[v] = [dm[v] EXCEPT ![f % STACK_SLOTS] = f]
      BY <1>2 DEF SoftmaxOf
    <3>5. QED
      BY <1>8, <2>2, <3>2, <3>3, <3>4
  <2>5. QED
    BY <2>3, <2>4
<1>11. QED
  BY <1>5, <1>6, <1>9, <1>10 DEF ResultInv

-----------------------------------------------------------------------------
(* The rescale of one more stack.                                          *)

(* The terms of a task after its stacks 0 to k.                            *)
Terms(t, k) ==
  [i \in 1 .. k + 1 |-> [value |-> Base(t) + i - 1, scale |-> Base(t) + i - 1]]

(* What it changes, for the stack that is number k of its task t.          *)
RescaleOf(v, t, k) ==
  LET g == delayedDone[v]
      s == Rank(work)[t] % STACK_SLOTS IN
  /\ k < work[t].stacks /\ g = Base(t) + k
  /\ g + 1 <= frontDone[v]
  /\ delayedDone'[v] = g + 1
  /\ UNCHANGED <<work, walkVars, front, frontDone, delayed, dm, gl>>
  /\ IF Active(v, t)
     THEN /\ acc'[v] = Terms(t, k)
          /\ out' = IF k + 1 = work[t].stacks
                    THEN [out EXCEPT ![v][t] =
                            [task |-> t, terms |-> Terms(t, k), norm |-> gl[v][s]]]
                    ELSE out
     ELSE acc'[v] = acc[v] /\ out' = out

(* The product is the one of its stack, and so is the factor: the running  *)
(* sum has one term more.                                                  *)
LEMMA RescaleFacts ==
  ASSUME IInv, NEW v \in Vec, PlaceInv(v), ResultInv(v), CompleteRS(v)
  PROVE  \E t \in TaskNo, k \in Nat : RescaleOf(v, t, k)
<1> DEFINE g == delayedDone[v]
           d == OldestDelayed(v)
           t == d.task
           k == d.kv
           x == [value |-> g, scale |-> g]
           s == Rank(work)[t] % STACK_SLOTS
<1>1. /\ TypeOK /\ v \in Engine /\ CanCompleteDelayed(v) /\ g \in Nat
      /\ De(v) \in Nat /\ Fr(v) \in Nat /\ frontDone[v] \in Nat /\ De(v) <= Fr(v)
  BY EngineFacts, Numbers DEF IInv, CompleteRS, LocalInv, CountInv
<1>2. /\ g + 1 \in 1 .. De(v) /\ d.num = g /\ d.slot = g % STACK_SLOTS
  BY <1>1, OldestExact
<1>3. d = front[v][g + 1].d /\ g + 1 \in 1 .. Fr(v)
  BY <1>1, <1>2 DEF OldestDelayed, IInv, LocalInv, CtxInv
<1>4. /\ t \in TaskNo /\ k \in Nat /\ k < work[t].stacks
      /\ g + 1 = Base(t) + k + 1
      /\ d.state = s
      /\ (d.first <=> k = 0)
      /\ (d.last <=> k + 1 = work[t].stacks)
  BY <1>3 DEF PlaceInv, StackInv
<1>5. /\ t \in Nat /\ Base(t) \in Nat /\ work[t].stacks \in Nat
      /\ Rest(t) = Base(t) + work[t].stacks
  BY <1>1, <1>4, TaskFacts
<1>6. g = Base(t) + k
  BY <1>1, <1>4, <1>5
<1>7. g + 1 <= frontDone[v]
  <2> DEFINE o == delayed[v][g + 1]
  <2>1. o \in Operation
    BY <1>1, <1>2 DEF TypeOK, De
  <2>2. o.after \in Nat
    BY <2>1 DEF Operation
  <2>3. o.after >= g + 1
    BY <1>1, <1>2 DEF IInv, LocalInv, OpsInv
  <2>4. o.after <= frontDone[v]
    BY <1>1 DEF CanCompleteDelayed
  <2> HIDE DEF o
  <2>5. QED
    BY <1>1, <2>2, <2>3, <2>4
<1>8. OTmp[g % STACK_SLOTS] = g
  <2>1. g + 1 \in Nat /\ delayedDone[v] < g + 1 /\ g + 1 <= De(v) /\ (g + 1) - 1 = g
    BY <1>1, <1>2
  <2>2. QED
    BY <2>1, ProductRead
<1>9. ASSUME Active(v, t)
      PROVE  Term(v, d) = x
  <2>1. g + 1 \in g + 1 .. frontDone[v] /\ (g + 1) - 1 = g
    BY <1>1, <1>7
  <2>2. dm[v][g % STACK_SLOTS] = g
    BY <1>3, <1>9, <2>1 DEF ResultInv, FactorInv
  <2>3. QED
    BY <1>2, <1>8, <2>2 DEF Term
<1>10. ASSUME Active(v, t)
       PROVE  (IF d.first THEN <<Term(v, d)>> ELSE Append(acc[v], Term(v, d))) = Terms(t, k)
  <2> DEFINE b == Base(t)
             R == [value : Int, scale : Int]
             y == [i \in 1 .. k |-> [value |-> b + i - 1, scale |-> b + i - 1]]
  <2>1. CASE k = 0
    <3>1. <<x>> = Terms(t, k)
      BY <1>5, <1>6, <2>1 DEF Terms
    <3> HIDE DEF d
    <3>2. QED
      BY <1>4, <1>9, <1>10, <2>1, <3>1
  <2>2. CASE k # 0
    <3>1. Base(t) < g /\ g < Rest(t) /\ g - Base(t) = k
      BY <1>4, <1>5, <1>6, <2>2
    <3>2. acc[v] = y
      BY <1>4, <1>10, <3>1 DEF ResultInv, AccInv
    <3>3. Append(y, x) = Terms(t, k)
      <4>1. g = b + k /\ b \in Nat /\ k \in Nat
        BY <1>4, <1>5, <1>6
      <4>2. Terms(t, k) = [i \in 1 .. k + 1 |-> [value |-> b + i - 1, scale |-> b + i - 1]]
        BY DEF Terms
      <4> HIDE DEF b, g, k
      <4>3. y \in Seq(R) /\ Len(y) = k
        BY <4>1
      <4>4. Append(y, x) = [i \in 1 .. k + 1 |-> IF i = k + 1 THEN x ELSE y[i]]
        <5> HIDE DEF y, R
        <5>1. QED
          BY <4>1, <4>3
      <4>5. \A i \in 1 .. k + 1 : (IF i = k + 1 THEN x ELSE y[i]) =
                                  [value |-> b + i - 1, scale |-> b + i - 1]
        <5>1. ASSUME NEW i \in 1 .. k + 1, i = k + 1
              PROVE  b + i - 1 = g
          BY <4>1, <5>1
        <5>2. ASSUME NEW i \in 1 .. k + 1, i # k + 1
              PROVE  i \in 1 .. k
          BY <4>1, <5>2
        <5>3. \A i \in 1 .. k : y[i] = [value |-> b + i - 1, scale |-> b + i - 1]
          OBVIOUS
        <5> HIDE DEF y
        <5>4. QED
          BY <5>1, <5>2, <5>3
      <4> HIDE DEF x, y
      <4>6. QED
        BY <4>2, <4>4, <4>5
    <3> HIDE DEF d
    <3>4. QED
      BY <1>4, <1>9, <1>10, <2>2, <3>2, <3>3
  <2>3. QED
    BY <2>1, <2>2
<1>11. /\ delayedDone'[v] = g + 1
       /\ UNCHANGED <<work, walkVars, front, frontDone, delayed, dm, gl>>
  BY <1>1 DEF CompleteRS, TypeOK
<1>12. ASSUME Active(v, t)
       PROVE  /\ acc' = [acc EXCEPT ![v] = Terms(t, k)]
              /\ out' = IF d.last
                        THEN [out EXCEPT ![v][t] =
                                [task |-> t, terms |-> Terms(t, k), norm |-> gl[v][d.state]]]
                        ELSE out
  BY <1>10, <1>12 DEF CompleteRS
<1>13. ASSUME ~ Active(v, t)
       PROVE  acc' = acc /\ out' = out
  BY <1>13 DEF CompleteRS
<1>14. RescaleOf(v, t, k)
  <2> HIDE DEF d
  <2>1. ASSUME Active(v, t)
        PROVE  /\ acc'[v] = Terms(t, k)
               /\ out' = IF k + 1 = work[t].stacks
                         THEN [out EXCEPT ![v][t] =
                                 [task |-> t, terms |-> Terms(t, k), norm |-> gl[v][s]]]
                         ELSE out
    <3>1. acc'[v] = Terms(t, k)
      BY <1>1, <1>12, <2>1 DEF TypeOK
    <3>2. QED
      BY <1>4, <1>12, <2>1, <3>1
  <2> HIDE DEF t, k
  <2>2. QED
    BY <1>4, <1>6, <1>7, <1>11, <1>13, <2>1 DEF RescaleOf
<1>15. QED
  BY <1>4, <1>14

(* With its last stack a task is whole: all its terms, and the sum over    *)
(* all its stacks, which the softmax has done before.                      *)
LEMMA RescaleWhole ==
  ASSUME IInv, NEW v \in Vec, ResultInv(v), NEW t \in TaskNo, NEW k \in Nat,
         RescaleOf(v, t, k), Active(v, t), k + 1 = work[t].stacks
  PROVE  out' = [out EXCEPT ![v][t] = Whole(t)]
<1> DEFINE g == delayedDone[v]
           f == frontDone[v]
           s == Rank(work)[t] % STACK_SLOTS
<1>1. /\ TypeOK /\ v \in Engine /\ f \in Nat /\ g \in Nat
  BY EngineFacts, Numbers DEF IInv
<1>2. /\ t \in Nat /\ Base(t) \in Nat /\ work[t].stacks \in Nat
      /\ Rest(t) = Base(t) + work[t].stacks
  BY <1>1, TaskFacts
<1>3. g = Base(t) + k /\ g + 1 <= f
  BY DEF RescaleOf
<1>4. work[t].stacks > 0 /\ Base(t) < f /\ g < Rest(t) /\ ~ (f < Rest(t))
  BY <1>1, <1>2, <1>3
<1>5. gl[v][s] = [i \in 1 .. work[t].stacks |-> Base(t) + i - 1]
  <2>1. gl[v][s] = [i \in 1 .. Softened(v, t) |-> Base(t) + i - 1]
    BY <1>4 DEF ResultInv, SumInv
  <2>2. Softened(v, t) = work[t].stacks
    BY <1>4 DEF Softened
  <2>3. QED
    BY <2>1, <2>2
<1>6. [task |-> t, terms |-> Terms(t, k), norm |-> gl[v][s]] = Whole(t)
  BY <1>5 DEF Whole, Terms
<1>7. out' = [out EXCEPT ![v][t] = [task |-> t, terms |-> Terms(t, k), norm |-> gl[v][s]]]
  BY DEF RescaleOf
<1>8. QED
  BY <1>6, <1>7

(* What is said of v's results stays true.                                 *)
LEMMA RescaleStep ==
  ASSUME IInv, NEW v \in Vec, PlaceInv(v), ResultInv(v), CompleteRS(v)
  PROVE  ResultInv(v)'
<1> DEFINE g == delayedDone[v]
           f == frontDone[v]
<1>1. TypeOK /\ v \in Engine /\ f \in Nat /\ g \in Nat
  BY EngineFacts, Numbers DEF IInv
<1>2. PICK u \in TaskNo, k \in Nat : RescaleOf(v, u, k)
  BY RescaleFacts
<1>3. /\ k < work[u].stacks /\ g = Base(u) + k
      /\ delayedDone'[v] = g + 1
      /\ pc' = pc /\ task' = task /\ work' = work /\ front' = front
      /\ frontDone' = frontDone /\ dm' = dm /\ gl' = gl
  BY <1>2 DEF RescaleOf, walkVars
<1>4. /\ TaskNo' = TaskNo /\ Rank(work)' = Rank(work)
      /\ \A t : Base(t)' = Base(t) /\ Rest(t)' = Rest(t) /\ Whole(t)' = Whole(t)
      /\ \A t : Active(v, t)' <=> Active(v, t)
  BY <1>3, SameTasks
<1>5. /\ Base(u) \in Nat /\ work[u].stacks \in Nat /\ u \in Nat
      /\ Rest(u) = Base(u) + work[u].stacks
  BY <1>1, TaskFacts
<1>6. ASSUME NEW t \in TaskNo, Base(t) < g + 1, g + 1 <= Rest(t)
      PROVE  t = u
  <2>1. /\ Base(t) \in Nat /\ Rest(t) \in Nat /\ g + 1 \in Nat
        /\ Base(u) < g + 1 /\ g + 1 <= Rest(u)
    BY <1>1, <1>3, <1>5, TaskFacts
  <2> HIDE DEF g
  <2>2. QED
    BY <1>1, <1>6, <2>1, OnePlace
<1>7. OutInv(v)'
  <2> SUFFICES ASSUME NEW t \in TaskNo
               PROVE  out'[v][t] = IF Written(v, t)' THEN Whole(t) ELSE NoOutput
    BY <1>4 DEF OutInv
  <2>1. out[v][t] = IF Written(v, t) THEN Whole(t) ELSE NoOutput
    BY DEF ResultInv, OutInv
  <2>2. /\ t \in Nat /\ Base(t) \in Nat /\ work[t].stacks \in Nat
        /\ Rest(t) = Base(t) + work[t].stacks
    BY <1>1, TaskFacts
  <2>3. Written(v, t)' <=> /\ Active(v, t)
                           /\ IF work[t].stacks = 0 THEN Begun(v, t) ELSE Rest(t) <= g + 1
    BY <1>3, <1>4 DEF Written, Begun
  <2>4. CASE t = u /\ Active(v, u) /\ k + 1 = work[u].stacks
    <3>1. out' = [out EXCEPT ![v][t] = Whole(t)]
      BY <1>2, <2>4, RescaleWhole
    <3>2. out'[v][t] = Whole(t)
      BY <1>1, <3>1 DEF TypeOK
    <3>3. Written(v, t)'
      BY <1>3, <1>5, <2>3, <2>4
    <3>4. QED
      BY <3>2, <3>3
  <2>5. CASE ~ (t = u /\ Active(v, u) /\ k + 1 = work[u].stacks)
    <3>1. out'[v][t] = out[v][t]
      <4>1. out' = out \/ (Active(v, u) /\ k + 1 = work[u].stacks)
        BY <1>2 DEF RescaleOf
      <4>2. CASE Active(v, u) /\ k + 1 = work[u].stacks
        <5>1. out' = [out EXCEPT ![v][u] = Whole(u)] /\ t # u
          BY <1>2, <2>5, <4>2, RescaleWhole
        <5>2. QED
          BY <1>1, <5>1 DEF TypeOK
      <4>3. QED
        BY <4>1, <4>2
    <3>2. Written(v, t)' <=> Written(v, t)
      <4>1. CASE t = u
        BY <1>1, <1>3, <1>5, <2>3, <2>5, <4>1 DEF Written
      <4>2. CASE t # u /\ work[t].stacks > 0
        <5>1. ~ (Base(t) < g + 1 /\ g + 1 <= Rest(t))
          BY <1>6, <4>2
        <5>2. Rest(t) <= g + 1 <=> Rest(t) <= g
          BY <1>1, <2>2, <4>2, <5>1
        <5>3. QED
          BY <2>3, <5>2 DEF Written
      <4>3. CASE work[t].stacks = 0
        BY <2>3, <4>3 DEF Written
      <4>4. QED
        BY <2>2, <4>1, <4>2, <4>3
    <3>3. QED
      BY <2>1, <3>1, <3>2
  <2>6. QED
    BY <2>4, <2>5
<1>8. AccInv(v)'
  <2> SUFFICES ASSUME NEW t \in TaskNo, Active(v, t), Base(t) < g + 1, g + 1 < Rest(t)
               PROVE  acc'[v] = [i \in 1 .. (g + 1) - Base(t) |->
                                   [value |-> Base(t) + i - 1, scale |-> Base(t) + i - 1]]
    BY <1>3, <1>4 DEF AccInv
  <2>1. Rest(t) \in Nat
    BY <1>1, TaskFacts
  <2>2. t = u
    BY <1>1, <1>6, <2>1
  <2>3. acc'[v] = Terms(t, k)
    BY <1>2, <2>2 DEF RescaleOf
  <2>4. (g + 1) - Base(t) = k + 1
    BY <1>3, <1>5, <2>2
  <2>5. QED
    BY <2>3, <2>4 DEF Terms
<1>9. SumInv(v)'
  <2>1. \A t : Softened(v, t)' = Softened(v, t)
    BY <1>3, <1>4 DEF Softened
  <2> SUFFICES ASSUME NEW t \in TaskNo, work[t].stacks > 0, Active(v, t),
                      Base(t) < f, g + 1 < Rest(t)
               PROVE  gl[v][Rank(work)[t] % STACK_SLOTS] =
                        [i \in 1 .. Softened(v, t) |-> Base(t) + i - 1]
    BY <1>3, <1>4, <2>1 DEF SumInv
  <2>2. Rest(t) \in Nat
    BY <1>1, TaskFacts
  <2>3. g < Rest(t)
    BY <1>1, <2>2
  <2>4. QED
    BY <2>3 DEF ResultInv, SumInv
<1>10. FactorInv(v)'
  <2> SUFFICES ASSUME NEW n \in (g + 1) + 1 .. f, Active(v, front[v][n].d.task)
               PROVE  dm[v][(n - 1) % STACK_SLOTS] = n - 1
    BY <1>3, <1>4 DEF FactorInv
  <2>1. n \in g + 1 .. f
    BY <1>1
  <2>2. QED
    BY <2>1 DEF ResultInv, FactorInv
<1>11. QED
  BY <1>7, <1>8, <1>9, <1>10 DEF ResultInv

-----------------------------------------------------------------------------
(* The beginning of a task: an empty one is written at once.               *)
LEMMA BeginFacts ==
  ASSUME IInv, NEW v \in Vec, BeginTask(v)
  PROVE  /\ task[v] \in TaskNo /\ pc[v] = "task"
         /\ UNCHANGED <<work, front, frontDone, delayedDone, dm, gl, acc>>
         /\ \A u \in TaskNo : Begun(v, u)' <=> Begun(v, u) \/ u = task[v]
         /\ out' = IF work[task[v]].stacks = 0 /\ Active(v, task[v])
                   THEN [out EXCEPT ![v][task[v]] = Whole(task[v])] ELSE out
<1> DEFINE t == task[v]
<1>1. TypeOK /\ v \in Engine
  BY EngineFacts DEF IInv
<1>2. t \in TaskNo /\ pc[v] = "task"
  BY <1>1 DEF BeginTask, IInv, LocalInv, CountInv
<1>3. UNCHANGED <<work, front, frontDone, delayedDone, dm, gl, acc>>
  BY DEF BeginTask, opVars
<1>4. /\ t \in Nat /\ work[t].stacks \in Nat /\ Base(t) \in Nat
      /\ \A u \in TaskNo : u \in Nat /\ u <= Len(work)
  BY <1>1, <1>2, TaskFacts DEF TaskNo
<1>5. \/ task'[v] = t /\ pc'[v] \in {"front", "delayed"}
      \/ /\ task'[v] = t + 1
         /\ pc'[v] = IF IsLast(t) THEN "end" ELSE "task"
  BY <1>1 DEF BeginTask, NextTask, TypeOK
<1>6. ASSUME NEW u \in TaskNo
      PROVE  Begun(v, u)' <=> Begun(v, u) \/ u = t
  <2>1. CASE task'[v] = t /\ pc'[v] \in {"front", "delayed"}
    BY <1>2, <1>4, <2>1 DEF Begun
  <2>2. CASE /\ task'[v] = t + 1
             /\ pc'[v] = IF IsLast(t) THEN "end" ELSE "task"
    BY <1>2, <1>4, <2>2 DEF Begun, IsLast
  <2>3. QED
    BY <1>5, <2>1, <2>2
<1>7. out' = IF work[t].stacks = 0 /\ Active(v, t)
             THEN [out EXCEPT ![v][t] = EmptyOutput(t)] ELSE out
  BY <1>1, <1>4 DEF BeginTask, InitOutWhenZero
<1>8. work[t].stacks = 0 => EmptyOutput(t) = Whole(t)
  BY <1>4 DEF EmptyOutput, Whole
<1>9. QED
  BY <1>2, <1>3, <1>6, <1>7, <1>8

(* What is said of v's results stays true.                                 *)
LEMMA BeginStep ==
  ASSUME IInv, NEW v \in Vec, ResultInv(v), BeginTask(v)
  PROVE  ResultInv(v)'
<1> DEFINE t == task[v]
<1>1. TypeOK /\ v \in Engine
  BY EngineFacts DEF IInv
<1>2. /\ t \in TaskNo /\ pc[v] = "task"
      /\ UNCHANGED <<work, front, frontDone, delayedDone, dm, gl, acc>>
      /\ \A u \in TaskNo : Begun(v, u)' <=> Begun(v, u) \/ u = t
      /\ out' = IF work[t].stacks = 0 /\ Active(v, t)
                THEN [out EXCEPT ![v][t] = Whole(t)] ELSE out
  BY BeginFacts
<1>3. /\ TaskNo' = TaskNo /\ Rank(work)' = Rank(work)
      /\ \A u : Base(u)' = Base(u) /\ Rest(u)' = Rest(u) /\ Whole(u)' = Whole(u)
      /\ \A u : Active(v, u)' <=> Active(v, u)
  BY <1>2, SameTasks
<1>4. OutInv(v)'
  <2> SUFFICES ASSUME NEW u \in TaskNo
               PROVE  out'[v][u] = IF Written(v, u)' THEN Whole(u) ELSE NoOutput
    BY <1>3 DEF OutInv
  <2>1. out[v][u] = IF Written(v, u) THEN Whole(u) ELSE NoOutput
    BY DEF ResultInv, OutInv
  <2>2. Written(v, u)' <=> \/ Written(v, u)
                           \/ u = t /\ work[t].stacks = 0 /\ Active(v, t)
    BY <1>2, <1>3 DEF Written
  <2>3. CASE u = t /\ work[t].stacks = 0 /\ Active(v, t)
    <3>1. out'[v][u] = Whole(u)
      BY <1>1, <1>2, <2>3 DEF TypeOK
    <3>2. QED
      BY <2>2, <2>3, <3>1
  <2>4. CASE ~ (u = t /\ work[t].stacks = 0 /\ Active(v, t))
    <3>1. out'[v][u] = out[v][u]
      <4> HIDE DEF t
      <4>1. QED
        BY <1>1, <1>2, <2>4 DEF TypeOK
    <3>2. QED
      BY <2>1, <2>2, <2>4, <3>1
  <2>5. QED
    BY <2>3, <2>4
<1>5. AccInv(v)'
  BY <1>2, <1>3 DEF ResultInv, AccInv
<1>6. SumInv(v)'
  BY <1>2, <1>3 DEF ResultInv, SumInv, Softened
<1>7. FactorInv(v)'
  BY <1>2, <1>3 DEF ResultInv, FactorInv
<1>8. QED
  BY <1>4, <1>5, <1>6, <1>7 DEF ResultInv

-----------------------------------------------------------------------------
(* The invariant.                                                          *)

(* It holds initially.                                                     *)
LEMMA TilesInit == Init => TilesInv
<1> SUFFICES ASSUME Init PROVE TilesInv
  OBVIOUS
<1>1. IInv
  BY InitIInv
<1>2. TypeOK
  BY <1>1 DEF IInv
<1>3. \A e \in Engine : Fr(e) = 0 /\ frontDone[e] = 0 /\ delayedDone[e] = 0
  BY DEF Init, Fr
<1>4. ASSUME NEW e \in Engine PROVE PlaceInv(e)
  <2>1. StackInv(e)
    BY <1>3 DEF StackInv
  <2>2. task[e] = 1 /\ taskSeq[e] = 0 /\ pc[e] \in {"task", "end"}
    BY DEF Init
  <2>3. Base(1) = 0 /\ Rank(work)[1] = 0
    <3>1. 1 \in Nat /\ 1 >= 1
      OBVIOUS
    <3>2. QED
      BY <3>1, NextStart DEF Base
  <2>4. WalkInv(e)
    BY <1>3, <2>2, <2>3 DEF WalkInv
  <2>5. QED
    BY <2>1, <2>4 DEF PlaceInv
<1>5. ASSUME NEW v \in Vec PROVE ResultInv(v)
  <2>1. v \in Engine
    BY EngineFacts
  <2>2. OutInv(v)
    <3> SUFFICES ASSUME NEW t \in TaskNo PROVE out[v][t] = NoOutput /\ ~ Written(v, t)
      BY DEF OutInv
    <3>1. out[v][t] = NoOutput
      BY DEF Init
    <3>2. /\ t \in Nat /\ t >= 1 /\ work[t].stacks \in Nat /\ Base(t) \in Nat
          /\ Rest(t) = Base(t) + work[t].stacks
      BY <1>2, TaskFacts
    <3>3. ~ Begun(v, t)
      <4>1. task[v] = 1 /\ pc[v] = "task"
        BY <2>1 DEF Init, TaskNo
      <4>2. QED
        BY <3>2, <4>1 DEF Begun
    <3>4. QED
      BY <1>3, <2>1, <3>1, <3>2, <3>3 DEF Written
  <2>3. \A t \in TaskNo : Base(t) \in Nat
    BY <1>2, TaskFacts
  <2>4. AccInv(v) /\ SumInv(v) /\ FactorInv(v)
    BY <1>3, <2>1, <2>3 DEF AccInv, SumInv, FactorInv
  <2>5. QED
    BY <2>2, <2>4 DEF ResultInv
<1>6. QED
  BY <1>1, <1>4, <1>5 DEF TilesInv

(* Every step keeps it.                                                    *)
LEMMA TilesStep == TilesInv /\ [Next]_vars => TilesInv'
<1> SUFFICES ASSUME TilesInv, [Next]_vars PROVE TilesInv'
  OBVIOUS
<1>1. /\ IInv /\ \A e \in Engine : PlaceInv(e)
      /\ \A v \in Vec : PlaceInv(v) /\ ResultInv(v)
  BY EngineFacts DEF TilesInv
<1>2. IInv'
  BY <1>1, StepIInv
<1>3. \A e \in Engine : PlaceInv(e)'
  BY <1>1, PlaceStep
<1>4. ASSUME NEW v \in Vec PROVE ResultInv(v)'
  BY <1>1, BeginStep, SoftmaxStep, RescaleStep, OtherSteps, KeptResult
<1>5. Engine' = Engine
  BY DEF Engine
<1>6. QED
  BY <1>2, <1>3, <1>4, <1>5 DEF TilesInv

(* It holds in every reachable state.                                      *)
THEOREM TilesInvariance == Spec => []TilesInv
BY TilesInit, TilesStep, PTL DEF Spec

-----------------------------------------------------------------------------
(* The refinement.                                                         *)

(* The promise counts the stacks of a task as this module does.            *)
LEMMA SameExact == \A t : Tiles!Exact(t) = Whole(t)
<1>1. Tiles!Base = Start(work)
  BY DEF Tiles!Base, Start
<1>2. QED
  BY <1>1 DEF Tiles!Exact, Whole, Base

(* An empty task, once begun, and a task with its last stack are written   *)
(* as the promise says: whole, and after the nonempty tasks before it.     *)
LEMMA WriteStep ==
  ASSUME TilesInv, NEW v \in Vec, NEW t \in TaskNo, Active(v, t), ~ Written(v, t),
         work[t].stacks > 0 => Base(t) <= delayedDone[v],
         work' = work, out' = [out EXCEPT ![v][t] = Whole(t)]
  PROVE  Tiles!Write(v, t)
<1>1. /\ IInv /\ ResultInv(v) /\ TypeOK /\ v \in Engine
  BY EngineFacts DEF TilesInv, IInv
<1>2. Tiles!Owes(v, t)
  BY <1>1 DEF ResultInv, OutInv, Active, Tiles!Owes
<1>3. ASSUME NEW u \in 1 .. t - 1, work[t].stacks > 0, work[u].stacks > 0
      PROVE  ~ Tiles!Owes(v, u)
  <2>1. t \in Nat /\ t <= Len(work)
    BY DEF TaskNo
  <2>2. u \in TaskNo /\ u < t /\ u # 0
    BY <2>1 DEF TaskNo
  <2>3. /\ Rest(u) <= Base(t) /\ Rest(u) \in Nat /\ Base(t) \in Nat
        /\ delayedDone[v] \in Nat
    BY <1>1, <2>2, TaskOrder, TaskFacts, Numbers
  <2>4. Active(v, u) => out[v][u] = Whole(u)
    BY <1>1, <1>3, <2>2, <2>3 DEF ResultInv, OutInv, Written
  <2>5. Whole(u) # NoOutput
    BY <2>2 DEF Whole, NoOutput, EmptyOutput
  <2>6. QED
    BY <2>4, <2>5 DEF Tiles!Owes, Active
<1>4. QED
  BY <1>2, <1>3, SameExact DEF Tiles!Write

(* Every step of the pipeline writes the rows of one task, whole, or none. *)
LEMMA RefinesStep == TilesInv /\ [Next]_vars => [Tiles!Next]_(Tiles!vars)
<1> SUFFICES ASSUME TilesInv, [Next]_vars
             PROVE  (\E v \in Vec, t \in TaskNo : Tiles!Write(v, t)) \/ UNCHANGED <<work, out>>
  BY DEF Tiles!Next, Tiles!vars, Tiles!TaskNo, TaskNo
<1>1. /\ IInv /\ TypeOK
      /\ \A v \in Vec : v \in Engine /\ PlaceInv(v) /\ ResultInv(v)
  BY EngineFacts DEF TilesInv, IInv
<1>2. ASSUME NEW v \in Vec, BeginTask(v)
      PROVE  (\E t \in TaskNo : Tiles!Write(v, t)) \/ UNCHANGED <<work, out>>
  <2> DEFINE t == task[v]
  <2>1. /\ t \in TaskNo /\ pc[v] = "task" /\ work' = work
        /\ out' = IF work[t].stacks = 0 /\ Active(v, t)
                  THEN [out EXCEPT ![v][t] = Whole(t)] ELSE out
    BY <1>1, <1>2, BeginFacts
  <2>2. CASE work[t].stacks = 0 /\ Active(v, t)
    <3>1. t \in Nat
      BY <1>1, <2>1, TaskFacts
    <3>2. ~ Written(v, t)
      BY <2>1, <2>2, <3>1 DEF Written, Begun
    <3>3. out' = [out EXCEPT ![v][t] = Whole(t)]
      BY <2>1, <2>2
    <3>4. t \in TaskNo /\ Active(v, t) /\ work' = work
      BY <2>1, <2>2
    <3>5. work[t].stacks > 0 => Base(t) <= delayedDone[v]
      BY <2>2
    <3> HIDE DEF t
    <3>6. Tiles!Write(v, t)
      BY <3>2, <3>3, <3>4, <3>5, WriteStep
    <3>7. QED
      BY <3>4, <3>6
  <2>3. CASE ~ (work[t].stacks = 0 /\ Active(v, t))
    BY <2>1, <2>3
  <2>4. QED
    BY <2>2, <2>3
<1>3. ASSUME NEW v \in Vec, CompleteRS(v)
      PROVE  (\E t \in TaskNo : Tiles!Write(v, t)) \/ UNCHANGED <<work, out>>
  <2>1. PICK t \in TaskNo, k \in Nat : RescaleOf(v, t, k)
    BY <1>1, <1>3, RescaleFacts
  <2>2. work' = work /\ delayedDone[v] = Base(t) + k
    BY <2>1 DEF RescaleOf
  <2>3. CASE Active(v, t) /\ k + 1 = work[t].stacks
    <3>1. out' = [out EXCEPT ![v][t] = Whole(t)]
      BY <1>1, <2>1, <2>3, RescaleWhole
    <3>2. /\ Base(t) \in Nat /\ work[t].stacks \in Nat
          /\ Rest(t) = Base(t) + work[t].stacks
      BY <1>1, TaskFacts
    <3>3. ~ Written(v, t)
      BY <2>2, <2>3, <3>2 DEF Written
    <3>4. Base(t) <= delayedDone[v]
      BY <2>2, <3>2
    <3>5. Tiles!Write(v, t)
      BY <2>2, <2>3, <3>1, <3>3, <3>4, WriteStep
    <3>6. QED
      BY <3>5
  <2>4. CASE ~ (Active(v, t) /\ k + 1 = work[t].stacks)
    BY <2>1, <2>4 DEF RescaleOf
  <2>5. QED
    BY <2>3, <2>4
<1>4. BeginTask(Cube) => UNCHANGED <<work, out>>
  BY EngineFacts DEF BeginTask, InitOutWhenZero
<1>5. ASSUME NEW e \in Engine, SkipDelayed(e) PROVE UNCHANGED <<work, out>>
  BY <1>5 DEF SkipDelayed, bufVars
<1>6. CASE CubeStep
  BY <1>6 DEF CubeStep, IssueQK, IssueFront, IssuePV, IssueDelayed, CompleteQK, CompletePV
<1>7. ASSUME NEW v \in Vec, IssueSM(v) \/ IssueRS(v) \/ CompleteSM(v)
      PROVE  UNCHANGED <<work, out>>
  BY <1>7 DEF IssueSM, IssueFront, IssueRS, IssueDelayed, CompleteSM
<1>8. CASE UNCHANGED vars
  BY <1>8 DEF vars, bufVars
<1>9. ASSUME NEW e \in Engine, WalkStep(e)
      PROVE  (\E v \in Vec, t \in TaskNo : Tiles!Write(v, t)) \/ UNCHANGED <<work, out>>
  BY <1>2, <1>4, <1>5, <1>9 DEF WalkStep, Engine
<1>10. ASSUME NEW v \in Vec, VecStep(v)
       PROVE  (\E t \in TaskNo : Tiles!Write(v, t)) \/ UNCHANGED <<work, out>>
  BY <1>3, <1>7, <1>10 DEF VecStep
<1>11. QED
  BY <1>6, <1>8, <1>9, <1>10 DEF Next, Terminating

(* The pipeline implements the promise: each vector engine writes the rows *)
(* it owns of every task once, with one term per stack in order, each      *)
(* rescaled by its own factor, divided by the sum over the same stacks.    *)
THEOREM Implements == Spec => TilesSpec
<1>1. Init => Tiles!Init
  BY DEF Init, Tiles!Init, Tiles!TaskNo, TaskNo
<1>2. QED
  BY <1>1, TilesInvariance, RefinesStep, PTL DEF Spec, TilesSpec, Tiles!Spec
=============================================================================
