-------------------------- MODULE BwdPipelineProofs --------------------------
(*****************************************************************************)
(* Proofs about BwdPipeline, for any number of cores and any launches: every *)
(* engine finds its own task's data in the workspaces, no flag is set twice, *)
(* and none is left over.                                                    *)
(*                                                                           *)
(* The invariant PipesInv is written for one core, its cube k and one of its *)
(* vector engines v at a time (EngineSound): who has waited for whom         *)
(* (Ordered), for which of the tasks a flag stands (FlagsRight), and what the*)
(* workspaces hold (Held).  Two engines of a core are never more than two    *)
(* tasks apart (DueNear), so a flag and a workspace of two are enough.  Each *)
(* move of a cube or an engine is looked at on such parameters first         *)
(* (CubeIssues to VecKeeps), then what the actions do to the records of the  *)
(* engines (CubeFirstIs to VecSyncIs), then to all of them (CubeFirstKeeps to*)
(* VecSyncKeeps).  The barriers keep the engines of all cores together       *)
(* (Together), which the sums of deterministic mode rely on.                 *)
(*****************************************************************************)
EXTENDS BwdPipeline, FagBlocksProofs, TLAPS

(* The tasks, and where the loops of the engines end: a number of rounds,    *)
(* Extra, behind the last one.                                               *)
Tasks == 0 .. Len(rounds) - 1
LastTask == IF Len(rounds) >= 2 THEN Len(rounds) - 1 ELSE 1
EndTask == LastTask + Extra + 1
ExtraAt(t) == IF t <= LastTask THEN Extra ELSE Extra - (t - LastTask)

(* How far a cube k has got: scores are issued up to Issued(k), gradients up *)
(* to Graded(k); what is issued is done unless the pipe still holds it.      *)
Issued(k) == IF k.pc = "first" THEN -1 ELSE k.taskId
Graded(k) == IF k.pc = "sync" THEN k.taskId - 1 ELSE k.taskId - 2
HasOp(pipe, op, t) == \E i \in DOMAIN pipe : pipe[i].op = op /\ pipe[i].task = t
ScoresDone(k, t) == t <= Issued(k) /\ ~HasOp(k.pipe, "mm1", t)
GradsDone(k, t) == t <= Graded(k) /\ ~HasOp(k.pipe, "mmDqkv", t)

(* How far an engine v has got: tasks below Begun(v) are begun, and done     *)
(* unless the pipe still holds them; the gradients of those below Waited(v)  *)
(* are waited for.                                                           *)
Begun(v) == IF v.pc \in {"lastWait", "addWait", "addSync", "add", "roundSync"} THEN v.taskId ELSE v.taskId - 1
InPipe(v, t) == \E i \in DOMAIN v.pipe : v.pipe[i] = t
MulDone(v, t) == t < Begun(v) /\ ~InPipe(v, t)
Waited(v) ==
  IF launch.dtm /\ v.pc \notin {"addSync", "add", "roundSync"} THEN v.taskId - 2 ELSE v.taskId - 1

(* Barriers an engine has passed. *)
Passed(v) ==
  CASE v.pc \in {"pre", "preSync"} -> 0
    [] v.pc \in {"loop", "lastWait", "addWait", "addSync", "postSync"} ->
         IF launch.dtm /\ v.taskId > 1 THEN 2 * v.taskId - 3 ELSE 1
    [] v.pc \in {"add", "roundSync", "post", "done"} -> IF launch.dtm THEN 2 * v.taskId - 2 ELSE 2
-----------------------------------------------------------------------------
(* The parts of the invariant, for a core c, its cube k, one of its engines  *)
(* v, the flags s, m and g of that engine (scores, gradients of scores and   *)
(* gradients are there), what the workspaces hold for it, w, and those of    *)
(* deterministic mode, d.                                                    *)

Op == [op : {"mm1"}, task : Nat] \cup [op : {"mmDqkv"}, task : Nat, told : BOOLEAN]
CubePc == {"first", "gradients", "sync", "lastSync", "done"}
VecPc == {"pre", "preSync", "loop", "lastWait", "addWait", "addSync", "add", "roundSync", "postSync", "post", "done"}
CubeRec == [pc : CubePc, taskId : Nat, extra : Int, pipe : Seq(Op)]
VecRec == [pc : VecPc, taskId : Nat, extra : Int, pipe : Seq(Nat)]
CubeTyped(k) ==
  /\ k \in CubeRec
  /\ k.taskId \in 1 .. EndTask /\ k.extra = ExtraAt(k.taskId)
  /\ k.pc = "first" => k.taskId = 1 /\ k.pipe = <<>>
  /\ k.pc \in {"first", "gradients", "sync"} => k.taskId < EndTask
  /\ k.pc \in {"lastSync", "done"} => k.taskId = EndTask
  /\ k.pc = "sync" => launch.dtm /\ k.taskId > 1
  /\ k.pc = "lastSync" => launch.dtm
VecTyped(c, v) ==
  /\ v \in VecRec
  /\ v.taskId \in 1 .. EndTask /\ v.extra = ExtraAt(v.taskId)
  /\ v.pc \in {"pre", "preSync"} => v.taskId = 1 /\ v.pipe = <<>>
  /\ v.pc \in {"loop", "lastWait", "addWait", "addSync", "add", "roundSync"} => v.taskId < EndTask
  /\ v.pc \in {"postSync", "post", "done"} => v.taskId = EndTask
  /\ v.pc = "lastWait" => (~launch.dtm /\ HasBlock(v.taskId - 1, c) /\ ~HasBlock(v.taskId, c))
  /\ v.pc \in {"addWait", "addSync", "add", "roundSync"} => launch.dtm /\ v.taskId > 1

(* The pipe of a cube holds the operations issued last, in the order of issue: *)
(* scores of t, gradients of t - 2, scores of t + 1, ...                      *)
Place(o) == IF o.op = "mm1" THEN 2 * o.task ELSE 2 * o.task + 3
PipeOp(c, pipe, issued, graded, o) ==
  /\ HasBlock(o.task, c)
  /\ o.op = "mm1" => o.task <= issued
  /\ o.op = "mmDqkv" => (o.task <= graded /\ o.told = Told(o.task, c))
  /\ \A t \in Tasks : HasBlock(t, c) /\ t <= issued /\ 2 * t > Place(o) => HasOp(pipe, "mm1", t)
  /\ \A t \in Tasks : HasBlock(t, c) /\ t <= graded /\ 2 * t + 3 > Place(o) => HasOp(pipe, "mmDqkv", t)
PipeSound(c, pipe, issued, graded) ==
  /\ \A i \in DOMAIN pipe : PipeOp(c, pipe, issued, graded, pipe[i])
  /\ \A i, j \in DOMAIN pipe : i < j => Place(pipe[i]) < Place(pipe[j])
CubePipeSound(c, k) == PipeSound(c, k.pipe, Issued(k), Graded(k))
VecPipeSound(c, v) ==
  /\ \A i \in DOMAIN v.pipe : HasBlock(v.pipe[i], c) /\ v.pipe[i] < Begun(v)
  /\ \A i, j \in DOMAIN v.pipe : i # j => v.pipe[i] # v.pipe[j]

(* Who has waited for whom. *)
AfterScores(c, k, v) == \A t \in Tasks : HasBlock(t, c) /\ t < Begun(v) => ScoresDone(k, t)
AfterMul(c, k, v) == \A t \in Tasks : HasBlock(t, c) /\ t <= Graded(k) => MulDone(v, t)
AfterGrads(c, k, v) ==
  \A t \in Tasks : HasBlock(t, c) /\ Told(t, c) /\ t < Waited(v) => GradsDone(k, t)

(* What the flags stand for. *)
ScoresDue(c, k, v, t) == HasBlock(t, c) /\ ScoresDone(k, t) /\ t >= Begun(v)
MulDue(c, k, v, t) == HasBlock(t, c) /\ MulDone(v, t) /\ t > Graded(k)
GradsDue(c, k, v, t) == HasBlock(t, c) /\ Told(t, c) /\ GradsDone(k, t) /\ t >= Waited(v)
ScoresFlag(c, k, v, s) ==
  \A p \in Parity : s[p] = IF \E t \in Tasks : t % 2 = p /\ ScoresDue(c, k, v, t) THEN 1 ELSE 0
MulFlag(c, k, v, m) ==
  \A p \in Parity : m[p] = IF \E t \in Tasks : t % 2 = p /\ MulDue(c, k, v, t) THEN 1 ELSE 0
GradsFlag(c, k, v, g) ==
  \A p \in Parity : g[p] = IF \E t \in Tasks : t % 2 = p /\ GradsDue(c, k, v, t) THEN 1 ELSE 0

(* What the workspaces hold. *)
ScoresHeld(c, k, v, w) ==
  \A t \in Tasks : HasBlock(t, c) /\ ScoresDone(k, t) /\ ~MulDone(v, t) => w[t % 2] = [kind |-> "scores", task |-> t]
MulHeld(c, k, v, w) ==
  \A t \in Tasks : HasBlock(t, c) /\ MulDone(v, t) /\ ~GradsDone(k, t) => w[t % 2] = [kind |-> "mul", task |-> t]
ProductsHeld(c, k, v, d) ==
  launch.dtm =>
    \A t \in Tasks, grad \in Grad :
      HasBlock(t, c) /\ GradsDone(k, t) /\ t >= v.taskId - 2 /\ ~Direct(grad, <<t, c>>) => d[t % 2][grad] = t

CubeSound(c, k) == CubeTyped(k) /\ CubePipeSound(c, k)
VecSound(c, v) == VecTyped(c, v) /\ VecPipeSound(c, v)
Ordered(c, k, v) == AfterScores(c, k, v) /\ AfterMul(c, k, v) /\ AfterGrads(c, k, v)
FlagsRight(c, k, v, s, m, g) == ScoresFlag(c, k, v, s) /\ MulFlag(c, k, v, m) /\ GradsFlag(c, k, v, g)
Held(c, k, v, w, d) == ScoresHeld(c, k, v, w) /\ MulHeld(c, k, v, w) /\ ProductsHeld(c, k, v, d)
EngineSound(c, k, v, s, m, g, w, d) ==
  Ordered(c, k, v) /\ FlagsRight(c, k, v, s, m, g) /\ Held(c, k, v, w, d)

WsOf(e) == [p \in Parity |-> ws[e[1]][p][e[2]]]
EngineInv(e) ==
  EngineSound(e[1], cube[e[1]], vec[e], flags[C1_V1][e], flags[V1_C2][e], flags[C2_V1][e], WsOf(e), dtmWs[e[1]])

(* The barriers keep the engines together, and all shares are cleared behind *)
(* the first one.                                                            *)
Together == \A e, f \in Vec : Passed(vec[e]) = Passed(vec[f])
Cleared ==
  /\ zeroed \subseteq Vec
  /\ \A e \in Vec : /\ vec[e].pc # "pre" => e \in zeroed
                    /\ Passed(vec[e]) > 0 => zeroed = Vec

Workspace == [kind : {"none", "scores", "mul"}, task : Int]
FlagsTyped(f) == f \in [Flag -> [Vec -> [Parity -> Int]]]
WsTyped(w) == w \in [Core -> [Parity -> [Half -> Workspace]]]
DtmTyped(d) == d \in [Core -> [Parity -> [Grad -> Int]]]
Shapes ==
  /\ cube \in [Core -> CubeRec] /\ vec \in [Vec -> VecRec]
  /\ FlagsTyped(flags) /\ WsTyped(ws) /\ DtmTyped(dtmWs)
PipesInv ==
  /\ Shapes
  /\ \A c \in Core : CubeSound(c, cube[c])
  /\ \A e \in Vec : VecSound(e[1], vec[e]) /\ EngineInv(e)
  /\ Together /\ Cleared
-----------------------------------------------------------------------------
(* How far the engines can be apart. *)

LEMMA Blocks ==
  \A t, c : HasBlock(t, c) => t \in Tasks
BY DEF HasBlock, Tasks

LEMMA Ends ==
  ASSUME Len(rounds) \in Nat
  PROVE  /\ Extra \in 1 .. 2 /\ LastTask \in Nat \ {0} /\ EndTask = LastTask + Extra + 1
         /\ \A t \in Tasks : t \in Nat /\ t <= LastTask
BY DEF Extra, LastTask, EndTask, Tasks

(* The cube issues scores at most two tasks ahead of gradients. *)
LEMMA CubeAhead ==
  ASSUME NEW k, Len(rounds) \in Nat, CubeTyped(k)
  PROVE  /\ Issued(k) \in Int /\ Graded(k) \in Int
         /\ Graded(k) <= Issued(k) /\ Issued(k) <= Graded(k) + 2
<1>1. k.taskId \in Nat /\ k.taskId >= 1 /\ (k.pc = "first" => k.taskId = 1)
  BY DEF CubeTyped, CubeRec
<1>2. QED
  BY <1>1 DEF Issued, Graded

(* An engine begins at most two tasks whose gradients it has not waited for. *)
LEMMA VecAhead ==
  ASSUME NEW c, NEW v, Len(rounds) \in Nat, VecTyped(c, v)
  PROVE  Begun(v) \in Nat /\ Waited(v) \in Int /\ Begun(v) <= Waited(v) + 2
<1>1. v.taskId \in Nat /\ v.taskId >= 1
  BY DEF VecTyped, VecRec
<1>2. QED
  BY <1>1 DEF Begun, Waited

(* So a flag stands for one of two tasks that follow each other. *)
LEMMA DueNear ==
  ASSUME NEW c, NEW k, NEW v, Len(rounds) \in Nat, CubeTyped(k), VecTyped(c, v), Ordered(c, k, v)
  PROVE  \A t \in Tasks :
           /\ HasBlock(t, c) /\ ~MulDone(v, t) => t > Graded(k)
           /\ HasBlock(t, c) /\ ScoresDone(k, t) => t <= Graded(k) + 2
           /\ HasBlock(t, c) /\ MulDone(v, t) => ScoresDone(k, t)
           /\ HasBlock(t, c) /\ t >= Begun(v) => ~MulDone(v, t)
           /\ HasBlock(t, c) /\ GradsDone(k, t) => MulDone(v, t) /\ t < Waited(v) + 2
<1> SUFFICES ASSUME NEW t \in Tasks, HasBlock(t, c)
             PROVE  /\ ~MulDone(v, t) => t > Graded(k)
                    /\ ScoresDone(k, t) => t <= Graded(k) + 2
                    /\ MulDone(v, t) => ScoresDone(k, t)
                    /\ t >= Begun(v) => ~MulDone(v, t)
                    /\ GradsDone(k, t) => MulDone(v, t) /\ t < Waited(v) + 2
  OBVIOUS
<1>1. t \in Nat
  BY Ends
<1>2. /\ Issued(k) \in Int /\ Graded(k) \in Int
      /\ Graded(k) <= Issued(k) /\ Issued(k) <= Graded(k) + 2
  BY CubeAhead
<1>3. Begun(v) \in Nat /\ Waited(v) \in Int /\ Begun(v) <= Waited(v) + 2
  BY VecAhead
<1>4. t <= Graded(k) => MulDone(v, t)
  BY DEF Ordered, AfterMul
<1>5. MulDone(v, t) => t < Begun(v)
  BY DEF MulDone
<1>6. t < Begun(v) => ScoresDone(k, t)
  BY DEF Ordered, AfterScores
<1>7. ScoresDone(k, t) => t <= Issued(k)
  BY DEF ScoresDone
<1>8. GradsDone(k, t) => t <= Graded(k)
  BY DEF GradsDone
<1> HIDE DEF ScoresDone, MulDone, GradsDone
<1>9. QED
  BY <1>1, <1>2, <1>3, <1>4, <1>5, <1>6, <1>7, <1>8

(* Of two tasks that follow each other, one has a given parity. *)
LEMMA OneOfTwo ==
  ASSUME NEW n \in Int, NEW a \in Int, NEW b \in Int, n < a, a <= n + 2, n < b, b <= n + 2, a % 2 = b % 2
  PROVE  a = b
OBVIOUS

LEMMA TaskParity ==
  ASSUME Len(rounds) \in Nat
  PROVE  \A t \in Tasks : t % 2 \in Parity
BY Ends DEF Parity
-----------------------------------------------------------------------------
(* What the moves of one party do to the invariant of a core and an engine.  *)
(* Up and Down are what SetFor and Take do to the flags of one engine.       *)

Up(f, p) == [q \in Parity |-> f[q] + IF q = p THEN 1 ELSE 0]
Down(f, p) == [q \in Parity |-> f[q] - IF q = p THEN 1 ELSE 0]

(* The cube issues scores, and ends nothing: nothing is due that was not. *)
LEMMA CubeIssues ==
  ASSUME NEW c, NEW k, NEW k2, NEW v, NEW s, NEW m, NEW g, NEW w, NEW d, Len(rounds) \in Nat,
         EngineSound(c, k, v, s, m, g, w, d), Graded(k2) = Graded(k),
         \A t \in Tasks : HasBlock(t, c) => /\ ScoresDone(k2, t) <=> ScoresDone(k, t)
                                            /\ GradsDone(k2, t) <=> GradsDone(k, t)
  PROVE  EngineSound(c, k2, v, s, m, g, w, d)
<1>1. Ordered(c, k2, v)
  BY DEF EngineSound, Ordered, AfterScores, AfterMul, AfterGrads
<1>2. FlagsRight(c, k2, v, s, m, g)
  <2>1. \A t \in Tasks : /\ ScoresDue(c, k2, v, t) <=> ScoresDue(c, k, v, t)
                         /\ MulDue(c, k2, v, t) <=> MulDue(c, k, v, t)
                         /\ GradsDue(c, k2, v, t) <=> GradsDue(c, k, v, t)
    BY DEF ScoresDue, MulDue, GradsDue
  <2>2. QED
    BY <2>1 DEF EngineSound, FlagsRight, ScoresFlag, MulFlag, GradsFlag
<1>3. Held(c, k2, v, w, d)
  BY DEF EngineSound, Held, ScoresHeld, MulHeld, ProductsHeld
<1>4. QED
  BY <1>1, <1>2, <1>3 DEF EngineSound

(* The cube takes the next gradients on, when both engines are done with the *)
(* task, if there is a block.                                                *)
LEMMA CubeGrades ==
  ASSUME NEW c, NEW k, NEW k2, NEW v, NEW s, NEW m, NEW m2, NEW g, NEW w, NEW d, Len(rounds) \in Nat,
         CubeTyped(k), VecTyped(c, v),
         EngineSound(c, k, v, s, m, g, w, d), Graded(k2) = Graded(k) + 1,
         \A t \in Tasks : HasBlock(t, c) => /\ ScoresDone(k2, t) <=> ScoresDone(k, t)
                                            /\ GradsDone(k2, t) <=> GradsDone(k, t),
         IF HasBlock(Graded(k2), c) THEN m[Graded(k2) % 2] > 0 /\ m2 = Down(m, Graded(k2) % 2) ELSE m2 = m
  PROVE  EngineSound(c, k2, v, s, m2, g, w, d)
<1> DEFINE a == Graded(k2)
<1>1. Graded(k) \in Int /\ a = Graded(k) + 1
  BY CubeAhead
<1>2. HasBlock(a, c) => a \in Tasks /\ a \in Nat
  BY Blocks, Ends
<1>3. \A t \in Tasks : MulDue(c, k, v, t) => Graded(k) < t /\ t <= Graded(k) + 2
  BY DueNear DEF EngineSound, MulDue
<1>4. \A t \in Tasks : t \in Nat /\ t % 2 \in Parity
  BY Ends, TaskParity
<1>5. HasBlock(a, c) => MulDone(v, a)
  <2> SUFFICES ASSUME HasBlock(a, c) PROVE MulDone(v, a)
    OBVIOUS
  <2>1. PICK t \in Tasks : t % 2 = a % 2 /\ MulDue(c, k, v, t)
    BY <1>2, <1>4 DEF EngineSound, FlagsRight, MulFlag
  <2>2. t = a
    BY <1>1, <1>2, <1>3, <1>4, <2>1, OneOfTwo
  <2>3. QED
    BY <2>1, <2>2 DEF MulDue
<1>6. \A t \in Tasks : MulDue(c, k2, v, t) <=> MulDue(c, k, v, t) /\ t # a
  BY <1>1, <1>4 DEF MulDue
<1>7. MulFlag(c, k2, v, m2)
  <2> SUFFICES ASSUME NEW p \in Parity
               PROVE  m2[p] = IF \E t \in Tasks : t % 2 = p /\ MulDue(c, k2, v, t) THEN 1 ELSE 0
    BY DEF MulFlag
  <2>1. m[p] = IF \E t \in Tasks : t % 2 = p /\ MulDue(c, k, v, t) THEN 1 ELSE 0
    BY DEF EngineSound, FlagsRight, MulFlag
  <2>2. CASE ~HasBlock(a, c)
    <3>1. \A t \in Tasks : MulDue(c, k2, v, t) <=> MulDue(c, k, v, t)
      BY <1>6, <2>2 DEF MulDue
    <3>2. QED
      BY <2>1, <2>2, <3>1
  <2>3. CASE HasBlock(a, c) /\ a % 2 # p
    <3>1. m2[p] = m[p]
      BY <2>1, <2>3 DEF Down
    <3>2. \A t \in Tasks : t % 2 = p => (MulDue(c, k2, v, t) <=> MulDue(c, k, v, t))
      BY <1>6, <2>3
    <3>3. QED
      BY <2>1, <3>1, <3>2
  <2>4. CASE HasBlock(a, c) /\ a % 2 = p
    <3>1. MulDue(c, k, v, a)
      BY <1>1, <1>2, <1>5, <2>4 DEF MulDue
    <3>2. m2[p] = 0
      <4>1. m[p] = 1
        BY <1>2, <2>1, <2>4, <3>1
      <4>2. QED
        BY <2>4, <4>1 DEF Down
    <3>3. \A t \in Tasks : t % 2 = p => ~MulDue(c, k2, v, t)
      <4> SUFFICES ASSUME NEW t \in Tasks, t % 2 = p, MulDue(c, k, v, t) PROVE t = a
        BY <1>6
      <4>1. QED
        BY <1>1, <1>2, <1>3, <1>4, <2>4, OneOfTwo
    <3>4. QED
      BY <3>2, <3>3
  <2>5. QED
    BY <2>2, <2>3, <2>4
<1>8. Ordered(c, k2, v)
  <2>1. AfterMul(c, k2, v)
    <3> SUFFICES ASSUME NEW t \in Tasks, HasBlock(t, c), t <= a PROVE MulDone(v, t)
      BY DEF AfterMul
    <3>1. t = a \/ t <= Graded(k)
      BY <1>1, <1>4
    <3>2. QED
      BY <1>5, <3>1 DEF EngineSound, Ordered, AfterMul
  <2>2. QED
    BY <2>1 DEF EngineSound, Ordered, AfterScores, AfterGrads
<1>9. FlagsRight(c, k2, v, s, m2, g)
  <2>1. \A t \in Tasks : /\ ScoresDue(c, k2, v, t) <=> ScoresDue(c, k, v, t)
                         /\ GradsDue(c, k2, v, t) <=> GradsDue(c, k, v, t)
    BY DEF ScoresDue, GradsDue
  <2>2. QED
    BY <1>7, <2>1 DEF EngineSound, FlagsRight, ScoresFlag, GradsFlag
<1>10. Held(c, k2, v, w, d)
  BY DEF EngineSound, Held, ScoresHeld, MulHeld, ProductsHeld
<1>11. QED
  BY <1>8, <1>9, <1>10 DEF EngineSound

(* The pipe of the cube ends the scores of task a: the flag was not set, and *)
(* the workspace was not in use.                                             *)
LEMMA CubeEndsScores ==
  ASSUME NEW c, NEW k, NEW k2, NEW v, NEW s, NEW m, NEW g, NEW w, NEW w2, NEW d, NEW a \in Tasks,
         Len(rounds) \in Nat, CubeTyped(k), VecTyped(c, v),
         EngineSound(c, k, v, s, m, g, w, d), Graded(k2) = Graded(k),
         HasBlock(a, c), a <= Issued(k), ~ScoresDone(k, a),
         \A t \in Tasks : HasBlock(t, c) => /\ ScoresDone(k2, t) <=> (ScoresDone(k, t) \/ t = a)
                                            /\ GradsDone(k2, t) <=> GradsDone(k, t),
         \A t \in Tasks : HasBlock(t, c) /\ t <= Graded(k) /\ ~GradsDone(k, t) => t % 2 # a % 2,
         \A p \in Parity : w2[p] = IF p = a % 2 THEN [kind |-> "scores", task |-> a] ELSE w[p]
  PROVE  EngineSound(c, k2, v, Up(s, a % 2), m, g, w2, d)
<1>1. /\ Issued(k) \in Int /\ Graded(k) \in Int /\ Issued(k) <= Graded(k) + 2
      /\ \A t \in Tasks : t \in Nat /\ t % 2 \in Parity
  BY CubeAhead, Ends, TaskParity
<1>2. Begun(v) \in Nat
  BY VecAhead
<1>3. Ordered(c, k, v)
  BY DEF EngineSound
<1>4. ~MulDone(v, a) /\ a > Graded(k) /\ a <= Graded(k) + 2 /\ a >= Begun(v)
  <2>1. ~MulDone(v, a)
    BY <1>3, DueNear
  <2>2. a > Graded(k)
    BY <1>3, <2>1, DueNear
  <2>3. a >= Begun(v)
    BY <1>1, <1>2, <1>3 DEF Ordered, AfterScores
  <2>4. QED
    BY <1>1, <2>1, <2>2, <2>3
<1>5. \A t \in Tasks : HasBlock(t, c) /\ t > Graded(k) /\ ScoresDone(k, t) => t % 2 # a % 2
  <2> SUFFICES ASSUME NEW t \in Tasks, HasBlock(t, c), t > Graded(k), ScoresDone(k, t), t % 2 = a % 2
               PROVE  t = a
    OBVIOUS
  <2>1. t <= Graded(k) + 2
    BY <1>3, DueNear
  <2>2. QED
    BY <1>1, <1>4, <2>1, OneOfTwo
<1>6. Ordered(c, k2, v)
  BY <1>3 DEF Ordered, AfterScores, AfterMul, AfterGrads
<1>7. FlagsRight(c, k2, v, Up(s, a % 2), m, g)
  <2>1. \A t \in Tasks : /\ MulDue(c, k2, v, t) <=> MulDue(c, k, v, t)
                         /\ GradsDue(c, k2, v, t) <=> GradsDue(c, k, v, t)
                         /\ ScoresDue(c, k2, v, t) <=> (ScoresDue(c, k, v, t) \/ t = a)
    BY <1>4 DEF MulDue, GradsDue, ScoresDue
  <2>2. ScoresFlag(c, k2, v, Up(s, a % 2))
    <3> SUFFICES ASSUME NEW p \in Parity
                 PROVE  Up(s, a % 2)[p] = IF \E t \in Tasks : t % 2 = p /\ ScoresDue(c, k2, v, t) THEN 1 ELSE 0
      BY DEF ScoresFlag
    <3>1. s[p] = IF \E t \in Tasks : t % 2 = p /\ ScoresDue(c, k, v, t) THEN 1 ELSE 0
      BY DEF EngineSound, FlagsRight, ScoresFlag
    <3>2. Up(s, a % 2)[p] = s[p] + IF p = a % 2 THEN 1 ELSE 0
      BY DEF Up
    <3>3. CASE p # a % 2
      <4>1. \A t \in Tasks : t % 2 = p => (ScoresDue(c, k2, v, t) <=> ScoresDue(c, k, v, t))
        BY <2>1, <3>3
      <4>2. QED
        BY <3>1, <3>2, <3>3, <4>1
    <3>4. CASE p = a % 2
      <4>1. \A t \in Tasks : t % 2 = p => ~ScoresDue(c, k, v, t)
        <5> SUFFICES ASSUME NEW t \in Tasks, t % 2 = p, ScoresDue(c, k, v, t) PROVE FALSE
          OBVIOUS
        <5>1. HasBlock(t, c) /\ ScoresDone(k, t) /\ ~MulDone(v, t)
          BY <1>3, DueNear DEF ScoresDue
        <5>2. t > Graded(k)
          BY <1>3, <5>1, DueNear
        <5>3. QED
          BY <1>5, <3>4, <5>1, <5>2
      <4>2. ScoresDue(c, k2, v, a)
        BY <2>1
      <4>3. QED
        BY <3>1, <3>2, <3>4, <4>1, <4>2
    <3>5. QED
      BY <3>3, <3>4
  <2>3. QED
    BY <2>1, <2>2 DEF EngineSound, FlagsRight, MulFlag, GradsFlag
<1>8. Held(c, k2, v, w2, d)
  <2>1. ScoresHeld(c, k2, v, w2)
    <3> SUFFICES ASSUME NEW t \in Tasks, HasBlock(t, c), ScoresDone(k2, t), ~MulDone(v, t)
                 PROVE  w2[t % 2] = [kind |-> "scores", task |-> t]
      BY DEF ScoresHeld
    <3>1. CASE t = a
      BY <1>1, <3>1
    <3>2. CASE t # a
      <4>1. ScoresDone(k, t) /\ t > Graded(k)
        BY <1>3, <3>2, DueNear
      <4>2. t % 2 # a % 2
        BY <1>5, <4>1
      <4>3. QED
        BY <1>1, <4>1, <4>2 DEF EngineSound, Held, ScoresHeld
    <3>3. QED
      BY <3>1, <3>2
  <2>2. MulHeld(c, k2, v, w2)
    <3> SUFFICES ASSUME NEW t \in Tasks, HasBlock(t, c), MulDone(v, t), ~GradsDone(k, t)
                 PROVE  w2[t % 2] = [kind |-> "mul", task |-> t]
      BY DEF MulHeld
    <3>1. ScoresDone(k, t)
      BY <1>3, DueNear
    <3>2. t % 2 # a % 2
      BY <1>1, <1>5, <3>1
    <3>3. QED
      BY <1>1, <3>2 DEF EngineSound, Held, MulHeld
  <2>3. QED
    BY <2>1, <2>2 DEF EngineSound, Held, ProductsHeld
<1>9. QED
  BY <1>6, <1>7, <1>8 DEF EngineSound

(* The pipe of the cube ends the gradients of task a. *)
ProductsPut(c, a, d, d2) ==
  launch.dtm => \A p \in Parity, grad \in Grad :
                  d2[p][grad] = IF p = a % 2 /\ ~Direct(grad, <<a, c>>) THEN a ELSE d[p][grad]
LEMMA CubeEndsGrads ==
  ASSUME NEW c, NEW k, NEW k2, NEW v, NEW s, NEW m, NEW g, NEW g2, NEW w, NEW d, NEW d2, NEW a \in Tasks,
         Len(rounds) \in Nat, CubeTyped(k), VecTyped(c, v),
         EngineSound(c, k, v, s, m, g, w, d), Graded(k2) = Graded(k),
         HasBlock(a, c), a <= Graded(k), ~GradsDone(k, a),
         \A t \in Tasks : HasBlock(t, c) => /\ ScoresDone(k2, t) <=> ScoresDone(k, t)
                                            /\ GradsDone(k2, t) <=> (GradsDone(k, t) \/ t = a),
         \A t \in Tasks : HasBlock(t, c) /\ GradsDone(k, t) => t < a,
         g2 = IF Told(a, c) THEN Up(g, a % 2) ELSE g, ProductsPut(c, a, d, d2)
  PROVE  EngineSound(c, k2, v, s, m, g2, w, d2)
<1>1. Graded(k) \in Int /\ \A t \in Tasks : t \in Nat /\ t % 2 \in Parity
  BY CubeAhead, Ends, TaskParity
<1>2. Begun(v) \in Nat /\ Waited(v) \in Int /\ Begun(v) <= Waited(v) + 2
  BY VecAhead
<1>3. Ordered(c, k, v)
  BY DEF EngineSound
<1>4. MulDone(v, a) /\ a < Begun(v)
  BY <1>3 DEF Ordered, AfterMul, MulDone
<1>5. Told(a, c) => a >= Waited(v)
  BY <1>1, <1>2, <1>3 DEF Ordered, AfterGrads
<1>6. Ordered(c, k2, v)
  BY <1>3 DEF Ordered, AfterScores, AfterMul, AfterGrads
<1>7. FlagsRight(c, k2, v, s, m, g2)
  <2>1. \A t \in Tasks : /\ MulDue(c, k2, v, t) <=> MulDue(c, k, v, t)
                         /\ ScoresDue(c, k2, v, t) <=> ScoresDue(c, k, v, t)
                         /\ GradsDue(c, k2, v, t) <=> (GradsDue(c, k, v, t) \/ (t = a /\ Told(a, c)))
    BY <1>5 DEF MulDue, GradsDue, ScoresDue
  <2>2. GradsFlag(c, k2, v, g2)
    <3> SUFFICES ASSUME NEW p \in Parity
                 PROVE  g2[p] = IF \E t \in Tasks : t % 2 = p /\ GradsDue(c, k2, v, t) THEN 1 ELSE 0
      BY DEF GradsFlag
    <3>1. g[p] = IF \E t \in Tasks : t % 2 = p /\ GradsDue(c, k, v, t) THEN 1 ELSE 0
      BY DEF EngineSound, FlagsRight, GradsFlag
    <3>2. g2[p] = g[p] + IF Told(a, c) /\ p = a % 2 THEN 1 ELSE 0
      <4>1. g[p] \in Nat
        BY <3>1
      <4>2. QED
        BY <4>1 DEF Up
    <3>3. CASE ~(Told(a, c) /\ p = a % 2)
      <4>1. \A t \in Tasks : t % 2 = p => (GradsDue(c, k2, v, t) <=> GradsDue(c, k, v, t))
        BY <2>1, <3>3
      <4>2. QED
        BY <3>1, <3>2, <3>3, <4>1
    <3>4. CASE Told(a, c) /\ p = a % 2
      <4>1. \A t \in Tasks : t % 2 = p => ~GradsDue(c, k, v, t)
        <5> SUFFICES ASSUME NEW t \in Tasks, t % 2 = a % 2, GradsDue(c, k, v, t) PROVE t = a
          BY <3>4 DEF GradsDue
        <5>1. HasBlock(t, c) /\ GradsDone(k, t) /\ t >= Waited(v)
          BY DEF GradsDue
        <5>2. t < Waited(v) + 2
          BY <1>3, <5>1, DueNear
        <5>3. PICK n \in Int : n = Waited(v) - 1
          BY <1>2
        <5>4. n < t /\ t <= n + 2 /\ n < a /\ a <= n + 2
          BY <1>1, <1>2, <1>4, <1>5, <3>4, <5>1, <5>2, <5>3
        <5>5. QED
          BY <1>1, <5>4, OneOfTwo
      <4>2. GradsDue(c, k2, v, a)
        BY <2>1, <3>4
      <4>3. QED
        BY <3>1, <3>2, <3>4, <4>1, <4>2
    <3>5. QED
      BY <3>3, <3>4
  <2>3. QED
    BY <2>1, <2>2 DEF EngineSound, FlagsRight, MulFlag, ScoresFlag
<1>8. Held(c, k2, v, w, d2)
  <2>1. ProductsHeld(c, k2, v, d2)
    <3> SUFFICES ASSUME launch.dtm, NEW t \in Tasks, NEW grad \in Grad,
                        HasBlock(t, c), GradsDone(k2, t), t >= v.taskId - 2, ~Direct(grad, <<t, c>>)
                 PROVE  d2[t % 2][grad] = t
      BY DEF ProductsHeld
    <3>1. CASE t = a
      BY <1>1, <3>1 DEF ProductsPut
    <3>2. CASE t # a
      <4>1. GradsDone(k, t) /\ t < a
        BY <3>2
      <4>2. Begun(v) <= v.taskId /\ v.taskId \in Nat
        BY DEF Begun, VecTyped, VecRec
      <4>3. t < a /\ a <= t + 1
        BY <1>1, <1>2, <1>4, <4>1, <4>2
      <4>4. t % 2 # a % 2
        BY <1>1, <4>3
      <4>5. d2[t % 2][grad] = d[t % 2][grad]
        BY <1>1, <4>4 DEF ProductsPut
      <4>6. QED
        BY <4>1, <4>5 DEF EngineSound, Held, ProductsHeld
    <3>3. QED
      BY <3>1, <3>2
  <2>2. QED
    BY <2>1 DEF EngineSound, Held, ScoresHeld, MulHeld
<1>9. QED
  BY <1>6, <1>7, <1>8 DEF EngineSound

(* An engine begins the next task, when the scores are there if it has a     *)
(* block.                                                                    *)
LEMMA VecBegins ==
  ASSUME NEW c, NEW k, NEW v, NEW v2, NEW s, NEW s2, NEW m, NEW g, NEW w, NEW d, Len(rounds) \in Nat,
         CubeTyped(k), VecTyped(c, v),
         EngineSound(c, k, v, s, m, g, w, d), Begun(v2) = Begun(v) + 1,
         v2.taskId = v.taskId \/ v2.taskId = v.taskId + 1,
         \A t \in Tasks : HasBlock(t, c) => /\ MulDone(v2, t) <=> MulDone(v, t)
                                            /\ Told(t, c) => (t >= Waited(v2) <=> t >= Waited(v)),
         Waited(v2) \in Int,
         IF HasBlock(Begun(v), c) THEN s[Begun(v) % 2] > 0 /\ s2 = Down(s, Begun(v) % 2) ELSE s2 = s
  PROVE  EngineSound(c, k, v2, s2, m, g, w, d)
<1> DEFINE b == Begun(v)
<1>1. Graded(k) \in Int /\ \A t \in Tasks : t \in Nat /\ t % 2 \in Parity
  BY CubeAhead, Ends, TaskParity
<1>2. b \in Nat /\ Waited(v) \in Int /\ v.taskId \in Nat
  BY VecAhead DEF VecTyped, VecRec
<1>3. Ordered(c, k, v)
  BY DEF EngineSound
<1>4. HasBlock(b, c) => b \in Tasks
  BY Blocks
<1>5. \A t \in Tasks : ScoresDue(c, k, v, t) /\ HasBlock(b, c) /\ t % 2 = b % 2 => t = b
  <2> SUFFICES ASSUME NEW t \in Tasks, ScoresDue(c, k, v, t), HasBlock(b, c), t % 2 = b % 2
               PROVE  t = b
    OBVIOUS
  <2>1. HasBlock(t, c) /\ ScoresDone(k, t) /\ t >= b
    BY DEF ScoresDue
  <2>2. t <= Graded(k) + 2
    BY <1>3, <2>1, DueNear
  <2>3. ~MulDone(v, b) /\ ~MulDone(v, t)
    BY <1>2, <1>3, <1>4, <2>1, DueNear
  <2>4. b > Graded(k) /\ t > Graded(k)
    BY <1>3, <1>4, <2>1, <2>3, DueNear
  <2>5. QED
    BY <1>1, <1>2, <2>1, <2>2, <2>4, OneOfTwo
<1>6. HasBlock(b, c) => ScoresDue(c, k, v, b) /\ s[b % 2] = 1
  <2> SUFFICES ASSUME HasBlock(b, c) PROVE ScoresDue(c, k, v, b) /\ s[b % 2] = 1
    OBVIOUS
  <2>1. /\ b % 2 \in Parity
        /\ s[b % 2] = IF \E t \in Tasks : t % 2 = b % 2 /\ ScoresDue(c, k, v, t) THEN 1 ELSE 0
    BY <1>1, <1>4 DEF EngineSound, FlagsRight, ScoresFlag
  <2>2. PICK t \in Tasks : t % 2 = b % 2 /\ ScoresDue(c, k, v, t)
    BY <2>1
  <2>3. QED
    BY <1>5, <2>1, <2>2
<1>7. \A t \in Tasks : ScoresDue(c, k, v2, t) <=> ScoresDue(c, k, v, t) /\ t # b
  BY <1>1, <1>2 DEF ScoresDue
<1>8. Ordered(c, k, v2)
  <2>1. AfterScores(c, k, v2)
    <3> SUFFICES ASSUME NEW t \in Tasks, HasBlock(t, c), t < b + 1 PROVE ScoresDone(k, t)
      BY DEF AfterScores
    <3>1. t = b \/ t < b
      BY <1>1, <1>2
    <3>2. QED
      BY <1>3, <1>6, <3>1 DEF Ordered, AfterScores, ScoresDue
  <2>2. AfterMul(c, k, v2)
    BY <1>3 DEF Ordered, AfterMul
  <2>3. AfterGrads(c, k, v2)
    <3> SUFFICES ASSUME NEW t \in Tasks, HasBlock(t, c), Told(t, c), t < Waited(v2) PROVE GradsDone(k, t)
      BY DEF AfterGrads
    <3>1. t < Waited(v)
      BY <1>1, <1>2
    <3>2. QED
      BY <1>3, <3>1 DEF Ordered, AfterGrads
  <2>4. QED
    BY <2>1, <2>2, <2>3 DEF Ordered
<1>9. FlagsRight(c, k, v2, s2, m, g)
  <2>1. \A t \in Tasks : /\ MulDue(c, k, v2, t) <=> MulDue(c, k, v, t)
                         /\ GradsDue(c, k, v2, t) <=> GradsDue(c, k, v, t)
    BY DEF MulDue, GradsDue
  <2>2. ScoresFlag(c, k, v2, s2)
    <3> SUFFICES ASSUME NEW p \in Parity
                 PROVE  s2[p] = IF \E t \in Tasks : t % 2 = p /\ ScoresDue(c, k, v2, t) THEN 1 ELSE 0
      BY DEF ScoresFlag
    <3>1. s[p] = IF \E t \in Tasks : t % 2 = p /\ ScoresDue(c, k, v, t) THEN 1 ELSE 0
      BY DEF EngineSound, FlagsRight, ScoresFlag
    <3>2. CASE HasBlock(b, c) /\ b % 2 = p
      <4>1. s2[p] = 0
        BY <1>6, <3>2 DEF Down
      <4>2. \A t \in Tasks : t % 2 = p => ~ScoresDue(c, k, v2, t)
        BY <1>5, <1>7, <3>2
      <4>3. QED
        BY <4>1, <4>2
    <3>3. CASE HasBlock(b, c) /\ b % 2 # p
      <4>1. s2[p] = s[p]
        BY <3>1, <3>3 DEF Down
      <4>2. \A t \in Tasks : t % 2 = p => (ScoresDue(c, k, v2, t) <=> ScoresDue(c, k, v, t))
        BY <1>7, <3>3
      <4>3. QED
        BY <3>1, <4>1, <4>2
    <3>4. CASE ~HasBlock(b, c)
      <4>1. \A t \in Tasks : ScoresDue(c, k, v2, t) <=> ScoresDue(c, k, v, t)
        BY <1>7, <3>4 DEF ScoresDue
      <4>2. QED
        BY <3>1, <3>4, <4>1
    <3>5. QED
      BY <3>2, <3>3, <3>4
  <2>3. QED
    BY <2>1, <2>2 DEF EngineSound, FlagsRight, MulFlag, GradsFlag
<1>10. Held(c, k, v2, w, d)
  <2>1. \A t \in Tasks : t >= v2.taskId - 2 => t >= v.taskId - 2
    BY <1>1, <1>2, SMTT(30)
  <2>2. QED
    BY <2>1 DEF EngineSound, Held, ScoresHeld, MulHeld, ProductsHeld
<1>11. QED
  BY <1>8, <1>9, <1>10 DEF EngineSound

(* The pipe of an engine ends the gradients of scores of task a. *)
LEMMA VecEndsMul ==
  ASSUME NEW c, NEW k, NEW v, NEW v2, NEW s, NEW m, NEW g, NEW w, NEW w2, NEW d, NEW a \in Tasks,
         Len(rounds) \in Nat, CubeTyped(k), VecTyped(c, v),
         EngineSound(c, k, v, s, m, g, w, d), Begun(v2) = Begun(v), Waited(v2) = Waited(v), v2.taskId = v.taskId,
         HasBlock(a, c), a < Begun(v), ~MulDone(v, a),
         \A t \in Tasks : HasBlock(t, c) => (MulDone(v2, t) <=> (MulDone(v, t) \/ t = a)),
         \A t \in Tasks : HasBlock(t, c) /\ t <= Graded(k) /\ ~GradsDone(k, t) => t % 2 # a % 2,
         \A p \in Parity : w2[p] = IF p = a % 2 THEN [kind |-> "mul", task |-> a] ELSE w[p]
  PROVE  EngineSound(c, k, v2, s, Up(m, a % 2), g, w2, d)
<1>1. Graded(k) \in Int /\ \A t \in Tasks : t \in Nat /\ t % 2 \in Parity
  BY CubeAhead, Ends, TaskParity
<1>2. Ordered(c, k, v)
  BY DEF EngineSound
<1>3. ScoresDone(k, a) /\ Graded(k) < a /\ a <= Graded(k) + 2
  <2>1. ScoresDone(k, a)
    BY <1>2 DEF Ordered, AfterScores
  <2>2. QED
    BY <1>2, <2>1, DueNear
<1>4. \A t \in Tasks : HasBlock(t, c) /\ t > Graded(k) /\ ScoresDone(k, t) /\ t # a => t % 2 # a % 2
  <2> SUFFICES ASSUME NEW t \in Tasks, HasBlock(t, c), t > Graded(k), ScoresDone(k, t), t % 2 = a % 2
               PROVE  t = a
    OBVIOUS
  <2>1. t <= Graded(k) + 2
    BY <1>2, DueNear
  <2>2. QED
    BY <1>1, <1>3, <2>1, OneOfTwo
<1>5. Ordered(c, k, v2)
  BY <1>2 DEF Ordered, AfterScores, AfterMul, AfterGrads
<1>6. FlagsRight(c, k, v2, s, Up(m, a % 2), g)
  <2>1. \A t \in Tasks : /\ ScoresDue(c, k, v2, t) <=> ScoresDue(c, k, v, t)
                         /\ GradsDue(c, k, v2, t) <=> GradsDue(c, k, v, t)
                         /\ MulDue(c, k, v2, t) <=> (MulDue(c, k, v, t) \/ t = a)
    BY <1>3 DEF MulDue, GradsDue, ScoresDue
  <2>2. MulFlag(c, k, v2, Up(m, a % 2))
    <3> SUFFICES ASSUME NEW p \in Parity
                 PROVE  Up(m, a % 2)[p] = IF \E t \in Tasks : t % 2 = p /\ MulDue(c, k, v2, t) THEN 1 ELSE 0
      BY DEF MulFlag
    <3>1. m[p] = IF \E t \in Tasks : t % 2 = p /\ MulDue(c, k, v, t) THEN 1 ELSE 0
      BY DEF EngineSound, FlagsRight, MulFlag
    <3>2. Up(m, a % 2)[p] = m[p] + IF p = a % 2 THEN 1 ELSE 0
      BY DEF Up
    <3>3. CASE p # a % 2
      <4>1. \A t \in Tasks : t % 2 = p => (MulDue(c, k, v2, t) <=> MulDue(c, k, v, t))
        BY <2>1, <3>3
      <4>2. QED
        BY <3>1, <3>2, <3>3, <4>1
    <3>4. CASE p = a % 2
      <4>1. \A t \in Tasks : t % 2 = p => ~MulDue(c, k, v, t)
        <5> SUFFICES ASSUME NEW t \in Tasks, t % 2 = p, MulDue(c, k, v, t) PROVE FALSE
          OBVIOUS
        <5>1. HasBlock(t, c) /\ MulDone(v, t) /\ t > Graded(k)
          BY DEF MulDue
        <5>2. ScoresDone(k, t)
          BY <1>2, <5>1, DueNear
        <5>3. QED
          BY <1>4, <3>4, <5>1, <5>2
      <4>2. MulDue(c, k, v2, a)
        BY <2>1
      <4>3. QED
        BY <3>1, <3>2, <3>4, <4>1, <4>2
    <3>5. QED
      BY <3>3, <3>4
  <2>3. QED
    BY <2>1, <2>2 DEF EngineSound, FlagsRight, ScoresFlag, GradsFlag
<1>7. Held(c, k, v2, w2, d)
  <2>1. ScoresHeld(c, k, v2, w2)
    <3> SUFFICES ASSUME NEW t \in Tasks, HasBlock(t, c), ScoresDone(k, t), ~MulDone(v2, t)
                 PROVE  w2[t % 2] = [kind |-> "scores", task |-> t]
      BY DEF ScoresHeld
    <3>1. ~MulDone(v, t) /\ t # a
      OBVIOUS
    <3>2. t > Graded(k)
      BY <1>2, <3>1, DueNear
    <3>3. t % 2 # a % 2
      BY <1>4, <3>1, <3>2
    <3>4. QED
      BY <1>1, <3>1, <3>3 DEF EngineSound, Held, ScoresHeld
  <2>2. MulHeld(c, k, v2, w2)
    <3> SUFFICES ASSUME NEW t \in Tasks, HasBlock(t, c), MulDone(v2, t), ~GradsDone(k, t)
                 PROVE  w2[t % 2] = [kind |-> "mul", task |-> t]
      BY DEF MulHeld
    <3>1. CASE t = a
      BY <1>1, <3>1
    <3>2. CASE t # a
      <4>1. MulDone(v, t) /\ ScoresDone(k, t)
        BY <1>2, <3>2, DueNear
      <4>2. t % 2 # a % 2
        BY <1>1, <1>4, <3>2, <4>1
      <4>3. QED
        BY <1>1, <4>1, <4>2 DEF EngineSound, Held, MulHeld
    <3>3. QED
      BY <3>1, <3>2
  <2>3. ProductsHeld(c, k, v2, d)
    BY DEF EngineSound, Held, ProductsHeld
  <2>4. QED
    BY <2>1, <2>2, <2>3 DEF Held
<1>8. QED
  BY <1>5, <1>6, <1>7 DEF EngineSound

(* An engine waits for the gradients of the next task, if the cube tells.    *)
LEMMA VecWaits ==
  ASSUME NEW c, NEW k, NEW v, NEW v2, NEW s, NEW m, NEW g, NEW g2, NEW w, NEW d, Len(rounds) \in Nat,
         CubeTyped(k), VecTyped(c, v),
         EngineSound(c, k, v, s, m, g, w, d), Begun(v2) = Begun(v),
         v2.taskId = v.taskId \/ v2.taskId = v.taskId + 1,
         \A t \in Tasks : HasBlock(t, c) => (MulDone(v2, t) <=> MulDone(v, t)),
         Waited(v2) = Waited(v) + 1,
         IF HasBlock(Waited(v), c) /\ Told(Waited(v), c)
         THEN g[Waited(v) % 2] > 0 /\ g2 = Down(g, Waited(v) % 2) ELSE g2 = g
  PROVE  EngineSound(c, k, v2, s, m, g2, w, d)
<1> DEFINE b == Waited(v)
           told == HasBlock(b, c) /\ Told(b, c)
<1>1. \A t \in Tasks : t \in Nat /\ t % 2 \in Parity
  BY Ends, TaskParity
<1>2. b \in Int /\ v.taskId \in Nat
  BY VecAhead DEF VecTyped, VecRec
<1>3. Ordered(c, k, v)
  BY DEF EngineSound
<1>4. told => b \in Tasks
  BY Blocks
<1>5. \A t \in Tasks : GradsDue(c, k, v, t) /\ told /\ t % 2 = b % 2 => t = b
  <2> SUFFICES ASSUME NEW t \in Tasks, GradsDue(c, k, v, t), told, t % 2 = b % 2
               PROVE  t = b
    OBVIOUS
  <2>1. HasBlock(t, c) /\ GradsDone(k, t) /\ t >= b
    BY DEF GradsDue
  <2>2. t < b + 2
    BY <1>3, <2>1, DueNear
  <2>3. QED
    BY <1>1, <1>2, <2>1, <2>2
<1>6. told => GradsDue(c, k, v, b) /\ g[b % 2] = 1
  <2> SUFFICES ASSUME told PROVE GradsDue(c, k, v, b) /\ g[b % 2] = 1
    OBVIOUS
  <2>1. /\ b % 2 \in Parity
        /\ g[b % 2] = IF \E t \in Tasks : t % 2 = b % 2 /\ GradsDue(c, k, v, t) THEN 1 ELSE 0
    BY <1>1, <1>4 DEF EngineSound, FlagsRight, GradsFlag
  <2>2. PICK t \in Tasks : t % 2 = b % 2 /\ GradsDue(c, k, v, t)
    BY <2>1
  <2>3. QED
    BY <1>5, <2>1, <2>2
<1>7. \A t \in Tasks : GradsDue(c, k, v2, t) <=> GradsDue(c, k, v, t) /\ t # b
  BY <1>1, <1>2 DEF GradsDue
<1>8. Ordered(c, k, v2)
  <2>1. AfterGrads(c, k, v2)
    <3> SUFFICES ASSUME NEW t \in Tasks, HasBlock(t, c), Told(t, c), t < b + 1 PROVE GradsDone(k, t)
      BY DEF AfterGrads
    <3>1. t = b \/ t < b
      BY <1>1, <1>2
    <3>2. QED
      BY <1>3, <1>6, <3>1 DEF Ordered, AfterGrads, GradsDue
  <2>2. QED
    BY <1>3, <2>1 DEF Ordered, AfterMul, AfterScores
<1>9. FlagsRight(c, k, v2, s, m, g2)
  <2>1. \A t \in Tasks : /\ MulDue(c, k, v2, t) <=> MulDue(c, k, v, t)
                         /\ ScoresDue(c, k, v2, t) <=> ScoresDue(c, k, v, t)
    BY DEF MulDue, ScoresDue
  <2>2. GradsFlag(c, k, v2, g2)
    <3> SUFFICES ASSUME NEW p \in Parity
                 PROVE  g2[p] = IF \E t \in Tasks : t % 2 = p /\ GradsDue(c, k, v2, t) THEN 1 ELSE 0
      BY DEF GradsFlag
    <3>1. g[p] = IF \E t \in Tasks : t % 2 = p /\ GradsDue(c, k, v, t) THEN 1 ELSE 0
      BY DEF EngineSound, FlagsRight, GradsFlag
    <3>2. CASE told /\ b % 2 = p
      <4>1. g2[p] = 0
        BY <1>6, <3>2 DEF Down
      <4>2. \A t \in Tasks : t % 2 = p => ~GradsDue(c, k, v2, t)
        BY <1>5, <1>7, <3>2
      <4>3. QED
        BY <4>1, <4>2
    <3>3. CASE told /\ b % 2 # p
      <4>1. g2[p] = g[p]
        BY <3>1, <3>3 DEF Down
      <4>2. \A t \in Tasks : t % 2 = p => (GradsDue(c, k, v2, t) <=> GradsDue(c, k, v, t))
        BY <1>7, <3>3
      <4>3. QED
        BY <3>1, <4>1, <4>2
    <3>4. CASE ~told
      <4>1. \A t \in Tasks : GradsDue(c, k, v2, t) <=> GradsDue(c, k, v, t)
        BY <1>7, <3>4 DEF GradsDue
      <4>2. QED
        BY <3>1, <3>4, <4>1
    <3>5. QED
      BY <3>2, <3>3, <3>4
  <2>3. QED
    BY <2>1, <2>2 DEF EngineSound, FlagsRight, MulFlag, ScoresFlag
<1>10. Held(c, k, v2, w, d)
  <2>1. \A t \in Tasks : t >= v2.taskId - 2 => t >= v.taskId - 2
    BY <1>1, <1>2
  <2>2. QED
    BY <2>1 DEF EngineSound, Held, ScoresHeld, MulHeld, ProductsHeld
<1>11. QED
  BY <1>8, <1>9, <1>10 DEF EngineSound

(* Any other step of an engine. *)
LEMMA VecKeeps ==
  ASSUME NEW c, NEW k, NEW v, NEW v2, NEW s, NEW m, NEW g, NEW w, NEW d, Len(rounds) \in Nat,
         VecTyped(c, v),
         EngineSound(c, k, v, s, m, g, w, d), Begun(v2) = Begun(v), Waited(v2) = Waited(v),
         v2.taskId = v.taskId \/ v2.taskId = v.taskId + 1,
         \A t \in Tasks : HasBlock(t, c) => (MulDone(v2, t) <=> MulDone(v, t))
  PROVE  EngineSound(c, k, v2, s, m, g, w, d)
<1>1. Ordered(c, k, v2)
  BY DEF EngineSound, Ordered, AfterScores, AfterMul, AfterGrads
<1>2. FlagsRight(c, k, v2, s, m, g)
  <2>1. \A t \in Tasks : /\ ScoresDue(c, k, v2, t) <=> ScoresDue(c, k, v, t)
                         /\ MulDue(c, k, v2, t) <=> MulDue(c, k, v, t)
                         /\ GradsDue(c, k, v2, t) <=> GradsDue(c, k, v, t)
    BY DEF ScoresDue, MulDue, GradsDue
  <2>2. QED
    BY <2>1 DEF EngineSound, FlagsRight, ScoresFlag, MulFlag, GradsFlag
<1>3. Held(c, k, v2, w, d)
  <2>1. \A t \in Tasks : t >= v2.taskId - 2 => t >= v.taskId - 2
    BY Ends DEF VecTyped, VecRec
  <2>2. QED
    BY <2>1 DEF EngineSound, Held, ScoresHeld, MulHeld, ProductsHeld
<1>4. QED
  BY <1>1, <1>2, <1>3 DEF EngineSound
-----------------------------------------------------------------------------
(* The pipe of a cube. *)

(* What a queue holds when one more, or one less, is in it. *)
LEMMA Append1 ==
  ASSUME NEW S, NEW pipe \in Seq(S), NEW o \in S
  PROVE  /\ pipe \o <<o>> \in Seq(S) /\ Len(pipe \o <<o>>) = Len(pipe) + 1
         /\ \A i \in DOMAIN pipe : (pipe \o <<o>>)[i] = pipe[i]
         /\ (pipe \o <<o>>)[Len(pipe) + 1] = o
         /\ DOMAIN pipe = 1 .. Len(pipe) /\ DOMAIN (pipe \o <<o>>) = 1 .. Len(pipe) + 1
OBVIOUS

LEMMA Tail1 ==
  ASSUME NEW S, NEW pipe \in Seq(S), pipe # <<>>
  PROVE  /\ Tail(pipe) \in Seq(S) /\ Len(Tail(pipe)) = Len(pipe) - 1 /\ Len(pipe) \in Nat \ {0}
         /\ DOMAIN pipe = 1 .. Len(pipe) /\ DOMAIN Tail(pipe) = 1 .. Len(pipe) - 1
         /\ \A i \in 1 .. Len(pipe) - 1 : Tail(pipe)[i] = pipe[i + 1]
         /\ Head(pipe) = pipe[1] /\ Head(pipe) \in S
OBVIOUS

LEMMA OpFacts ==
  \A o \in Op : o.task \in Nat /\ o.op \in {"mm1", "mmDqkv"}
BY DEF Op

LEMMA HasPut ==
  ASSUME NEW pipe \in Seq(Op), NEW o \in Op
  PROVE  \A op, t : HasOp(pipe \o <<o>>, op, t) <=> HasOp(pipe, op, t) \/ (o.op = op /\ o.task = t)
<1> DEFINE q == pipe \o <<o>>
<1>1. /\ DOMAIN pipe = 1 .. Len(pipe) /\ DOMAIN q = 1 .. Len(pipe) + 1 /\ Len(pipe) \in Nat
      /\ \A i \in DOMAIN pipe : q[i] = pipe[i]
      /\ q[Len(pipe) + 1] = o
  BY Append1
<1> HIDE DEF q
<1>2. /\ \A i \in DOMAIN q : i \in DOMAIN pipe \/ i = Len(pipe) + 1
      /\ \A i \in DOMAIN pipe : i \in DOMAIN q
      /\ Len(pipe) + 1 \in DOMAIN q
  BY <1>1
<1> SUFFICES ASSUME NEW op, NEW t PROVE HasOp(q, op, t) <=> HasOp(pipe, op, t) \/ (o.op = op /\ o.task = t)
  BY DEF q
<1>3. ASSUME HasOp(q, op, t) PROVE HasOp(pipe, op, t) \/ (o.op = op /\ o.task = t)
  <2>1. PICK i \in DOMAIN q : q[i].op = op /\ q[i].task = t
    BY <1>3 DEF HasOp
  <2>2. QED
    BY <1>1, <1>2, <2>1 DEF HasOp
<1>4. ASSUME HasOp(pipe, op, t) PROVE HasOp(q, op, t)
  <2>1. PICK i \in DOMAIN pipe : pipe[i].op = op /\ pipe[i].task = t
    BY <1>4 DEF HasOp
  <2>2. QED
    BY <1>1, <1>2, <2>1 DEF HasOp
<1>5. ASSUME o.op = op, o.task = t PROVE HasOp(q, op, t)
  BY <1>1, <1>2, <1>5 DEF HasOp
<1>6. QED
  BY <1>3, <1>4, <1>5

(* Scores, and gradients, are issued behind everything else in the pipe. *)
LEMMA PutScores ==
  ASSUME NEW c, NEW pipe \in Seq(Op), NEW issued \in Int, NEW graded \in Int, Len(rounds) \in Nat,
         PipeSound(c, pipe, issued, graded), issued = graded + 1
  PROVE  /\ pipe \o Mm1(issued + 1, c) \in Seq(Op)
         /\ PipeSound(c, pipe \o Mm1(issued + 1, c), issued + 1, graded)
         /\ \A t : /\ HasOp(pipe \o Mm1(issued + 1, c), "mm1", t)
                        <=> HasOp(pipe, "mm1", t) \/ (t = issued + 1 /\ HasBlock(t, c))
                   /\ HasOp(pipe \o Mm1(issued + 1, c), "mmDqkv", t) <=> HasOp(pipe, "mmDqkv", t)
<1>1. PICK n \in Int : n = issued + 1
  OBVIOUS
<1>2. CASE ~HasBlock(n, c)
  <2>1. pipe \o Mm1(n, c) = pipe
    BY <1>2 DEF Mm1
  <2>2. \A t \in Tasks : HasBlock(t, c) /\ t <= n => t <= issued
    BY <1>1, <1>2, Ends
  <2>3. PipeSound(c, pipe, n, graded)
    <3>1. \A i \in DOMAIN pipe : PipeOp(c, pipe, n, graded, pipe[i])
      <4> SUFFICES ASSUME NEW i \in DOMAIN pipe PROVE PipeOp(c, pipe, n, graded, pipe[i])
        OBVIOUS
      <4>1. PipeOp(c, pipe, issued, graded, pipe[i]) /\ pipe[i].task \in Nat
        BY OpFacts DEF PipeSound
      <4>2. QED
        BY <1>1, <2>2, <4>1 DEF PipeOp
    <3>2. QED
      BY <3>1 DEF PipeSound
  <2>4. QED
    BY <1>1, <1>2, <2>1, <2>3
<1>3. CASE HasBlock(n, c)
  <2> DEFINE o == [op |-> "mm1", task |-> n]
             q == pipe \o <<o>>
  <2>1. n \in Tasks /\ n \in Nat
    BY <1>3, Blocks, Ends
  <2>2. o \in Op /\ o.op = "mm1" /\ o.task = n /\ Place(o) = 2 * n
    BY <2>1 DEF Op, Place
  <2>3. pipe \o Mm1(n, c) = q
    BY <1>3 DEF Mm1
  <2> HIDE DEF o
  <2>4. /\ q \in Seq(Op) /\ DOMAIN pipe = 1 .. Len(pipe) /\ DOMAIN q = 1 .. Len(pipe) + 1 /\ Len(pipe) \in Nat
        /\ \A i \in DOMAIN pipe : q[i] = pipe[i]
        /\ q[Len(pipe) + 1] = o
    BY <2>2, Append1
  <2>5. \A t : /\ HasOp(q, "mm1", t) <=> HasOp(pipe, "mm1", t) \/ t = n
               /\ HasOp(q, "mmDqkv", t) <=> HasOp(pipe, "mmDqkv", t)
    BY <2>2, HasPut
  <2> HIDE DEF q
  <2>6. \A i \in DOMAIN pipe : /\ PipeOp(c, pipe, issued, graded, pipe[i])
                               /\ pipe[i].task \in Nat /\ pipe[i].op \in {"mm1", "mmDqkv"}
                               /\ Place(pipe[i]) \in Int /\ Place(pipe[i]) < 2 * n
    <3> SUFFICES ASSUME NEW i \in DOMAIN pipe
                 PROVE  /\ PipeOp(c, pipe, issued, graded, pipe[i])
                        /\ pipe[i].task \in Nat /\ pipe[i].op \in {"mm1", "mmDqkv"}
                        /\ Place(pipe[i]) \in Int /\ Place(pipe[i]) < 2 * n
      OBVIOUS
    <3>1. PipeOp(c, pipe, issued, graded, pipe[i]) /\ pipe[i].task \in Nat /\ pipe[i].op \in {"mm1", "mmDqkv"}
      BY OpFacts DEF PipeSound
    <3>2. QED
      BY <1>1, <3>1 DEF PipeOp, Place
  <2>7. \A i \in DOMAIN q : PipeOp(c, q, n, graded, q[i])
    <3> SUFFICES ASSUME NEW i \in DOMAIN q PROVE PipeOp(c, q, n, graded, q[i])
      OBVIOUS
    <3>1. CASE i \in DOMAIN pipe
      <4>1. q[i] = pipe[i]
        BY <2>4, <3>1
      <4>2. \A t \in Tasks : HasBlock(t, c) /\ t <= n => t = n \/ t <= issued
        BY <1>1, Ends
      <4>3. QED
        BY <1>1, <2>5, <2>6, <3>1, <4>1, <4>2 DEF PipeOp
    <3>2. CASE i = Len(pipe) + 1
      <4>1. q[i] = o
        BY <2>4, <3>2
      <4>2. \A t \in Tasks : ~(t <= n /\ 2 * t > Place(o)) /\ ~(t <= graded /\ 2 * t + 3 > Place(o))
        BY <1>1, <2>2, Ends
      <4>3. QED
        BY <1>3, <2>1, <2>2, <4>1, <4>2 DEF PipeOp
    <3>3. QED
      BY <2>4, <3>1, <3>2
  <2>8. \A i, j \in DOMAIN q : i < j => Place(q[i]) < Place(q[j])
    <3> SUFFICES ASSUME NEW i \in DOMAIN q, NEW j \in DOMAIN q, i < j PROVE Place(q[i]) < Place(q[j])
      OBVIOUS
    <3>1. i \in DOMAIN pipe /\ q[i] = pipe[i]
      BY <2>4
    <3>2. CASE j \in DOMAIN pipe
      BY <2>4, <3>1, <3>2 DEF PipeSound
    <3>3. CASE j = Len(pipe) + 1
      BY <2>2, <2>4, <2>6, <3>1, <3>3
    <3>4. QED
      BY <2>4, <3>2, <3>3
  <2>9. PipeSound(c, q, n, graded)
    BY <2>7, <2>8 DEF PipeSound
  <2>10. QED
    BY <1>1, <1>3, <2>3, <2>4, <2>5, <2>9
<1>4. QED
  BY <1>2, <1>3

GradsOp(t, c) == [op |-> "mmDqkv", task |-> t, told |-> Told(t, c)]
GradsPut(c, pipe, q, issued, n) ==
  /\ q \in Seq(Op) /\ PipeSound(c, q, issued, n)
  /\ \A t : /\ HasOp(q, "mmDqkv", t) <=> HasOp(pipe, "mmDqkv", t) \/ t = n
            /\ HasOp(q, "mm1", t) <=> HasOp(pipe, "mm1", t)
LEMMA PutGrads ==
  ASSUME NEW c, NEW pipe \in Seq(Op), NEW issued \in Int, NEW graded \in Int, NEW n, Len(rounds) \in Nat,
         PipeSound(c, pipe, issued, graded), issued = graded + 2, n = graded + 1, HasBlock(n, c)
  PROVE  GradsPut(c, pipe, pipe \o <<GradsOp(n, c)>>, issued, n)
<1> DEFINE o == GradsOp(n, c)
           q == pipe \o <<o>>
<1>1. n \in Tasks /\ n \in Nat
  BY Blocks, Ends
<1>2. o \in Op /\ o.op = "mmDqkv" /\ o.task = n /\ o.told = Told(n, c) /\ Place(o) = 2 * n + 3
  <2>1. Told(n, c) \in BOOLEAN
    BY DEF Told
  <2>2. QED
    BY <1>1, <2>1 DEF Op, Place, GradsOp
<1> HIDE DEF o
<1>3. /\ q \in Seq(Op) /\ DOMAIN pipe = 1 .. Len(pipe) /\ DOMAIN q = 1 .. Len(pipe) + 1 /\ Len(pipe) \in Nat
      /\ \A i \in DOMAIN pipe : q[i] = pipe[i]
      /\ q[Len(pipe) + 1] = o
  BY <1>2, Append1
<1>4. \A t : /\ HasOp(q, "mmDqkv", t) <=> HasOp(pipe, "mmDqkv", t) \/ t = n
             /\ HasOp(q, "mm1", t) <=> HasOp(pipe, "mm1", t)
  BY <1>2, HasPut
<1> HIDE DEF q
<1>5. \A i \in DOMAIN pipe : /\ PipeOp(c, pipe, issued, graded, pipe[i])
                             /\ pipe[i].task \in Nat /\ pipe[i].op \in {"mm1", "mmDqkv"}
                             /\ Place(pipe[i]) \in Int /\ Place(pipe[i]) < 2 * n + 3
  <2> SUFFICES ASSUME NEW i \in DOMAIN pipe
               PROVE  /\ PipeOp(c, pipe, issued, graded, pipe[i])
                      /\ pipe[i].task \in Nat /\ pipe[i].op \in {"mm1", "mmDqkv"}
                      /\ Place(pipe[i]) \in Int /\ Place(pipe[i]) < 2 * n + 3
    OBVIOUS
  <2>1. PipeOp(c, pipe, issued, graded, pipe[i]) /\ pipe[i].task \in Nat /\ pipe[i].op \in {"mm1", "mmDqkv"}
    BY OpFacts DEF PipeSound
  <2>2. QED
    BY <2>1, SMTT(30) DEF PipeOp, Place
<1>6. \A i \in DOMAIN q : PipeOp(c, q, issued, n, q[i])
  <2> SUFFICES ASSUME NEW i \in DOMAIN q PROVE PipeOp(c, q, issued, n, q[i])
    OBVIOUS
  <2>1. CASE i \in DOMAIN pipe
    <3>1. q[i] = pipe[i]
      BY <1>3, <2>1
    <3>2. \A t \in Tasks : HasBlock(t, c) /\ t <= n => t = n \/ t <= graded
      BY Ends
    <3>3. QED
      BY <1>4, <1>5, <2>1, <3>1, <3>2 DEF PipeOp
  <2>2. CASE i = Len(pipe) + 1
    <3>1. q[i] = o
      BY <1>3, <2>2
    <3>2. \A t \in Tasks : ~(t <= issued /\ 2 * t > Place(o)) /\ ~(t <= n /\ 2 * t + 3 > Place(o))
      BY <1>1, <1>2, Ends
    <3>3. QED
      BY <1>1, <1>2, <3>1, <3>2, SMTT(30) DEF PipeOp
  <2>3. QED
    BY <1>3, <2>1, <2>2
<1>7. \A i, j \in DOMAIN q : i < j => Place(q[i]) < Place(q[j])
  <2> SUFFICES ASSUME NEW i \in DOMAIN q, NEW j \in DOMAIN q, i < j PROVE Place(q[i]) < Place(q[j])
    OBVIOUS
  <2>1. i \in DOMAIN pipe /\ q[i] = pipe[i]
    BY <1>3
  <2>2. CASE j \in DOMAIN pipe
    BY <1>3, <2>1, <2>2 DEF PipeSound
  <2>3. CASE j = Len(pipe) + 1
    BY <1>2, <1>3, <1>5, <2>1, <2>3
  <2>4. QED
    BY <1>3, <2>2, <2>3
<1>8. PipeSound(c, q, issued, n)
  BY <1>6, <1>7 DEF PipeSound
<1>9. GradsPut(c, pipe, q, issued, n)
  BY <1>3, <1>4, <1>8 DEF GradsPut
<1>10. QED
  BY <1>9 DEF q, o

(* Without a block there are no gradients to issue. *)
LEMMA NoGrads ==
  ASSUME NEW c, NEW pipe \in Seq(Op), NEW issued \in Int, NEW graded \in Int, NEW n, Len(rounds) \in Nat,
         PipeSound(c, pipe, issued, graded), n = graded + 1, ~HasBlock(n, c)
  PROVE  PipeSound(c, pipe, issued, n)
<1>1. \A t \in Tasks : HasBlock(t, c) /\ t <= n => t <= graded
  BY Ends
<1>2. \A i \in DOMAIN pipe : PipeOp(c, pipe, issued, n, pipe[i])
  <2> SUFFICES ASSUME NEW i \in DOMAIN pipe PROVE PipeOp(c, pipe, issued, n, pipe[i])
    OBVIOUS
  <2>1. PipeOp(c, pipe, issued, graded, pipe[i]) /\ pipe[i].task \in Nat
    BY OpFacts DEF PipeSound
  <2>2. QED
    BY <1>1, <2>1 DEF PipeOp
<1>3. QED
  BY <1>2 DEF PipeSound

(* The pipe ends its first operation; all that is issued later is still to   *)
(* be done.                                                                  *)
LEMMA TakeFirst ==
  ASSUME NEW c, NEW pipe \in Seq(Op), NEW issued \in Int, NEW graded \in Int, Len(rounds) \in Nat,
         PipeSound(c, pipe, issued, graded), pipe # <<>>
  PROVE  /\ Tail(pipe) \in Seq(Op) /\ PipeSound(c, Tail(pipe), issued, graded)
         /\ Head(pipe) \in Op /\ PipeOp(c, pipe, issued, graded, Head(pipe))
         /\ HasOp(pipe, Head(pipe).op, Head(pipe).task)
         /\ \A t \in Nat, op \in {"mm1", "mmDqkv"} :
              HasOp(Tail(pipe), op, t) <=> HasOp(pipe, op, t) /\ ~(op = Head(pipe).op /\ t = Head(pipe).task)
<1> DEFINE q == Tail(pipe)
           o == Head(pipe)
<1>1. /\ q \in Seq(Op) /\ Len(pipe) \in Nat \ {0}
      /\ DOMAIN pipe = 1 .. Len(pipe) /\ DOMAIN q = 1 .. Len(pipe) - 1
      /\ \A i \in 1 .. Len(pipe) - 1 : q[i] = pipe[i + 1]
      /\ o = pipe[1] /\ o \in Op
  BY Tail1
<1> HIDE DEF q, o
<1>2. \A i \in DOMAIN pipe : /\ PipeOp(c, pipe, issued, graded, pipe[i])
                             /\ pipe[i].task \in Nat /\ pipe[i].op \in {"mm1", "mmDqkv"}
                             /\ i # 1 => Place(o) < Place(pipe[i])
  BY <1>1, OpFacts DEF PipeSound
<1>3. \A t \in Nat, op \in {"mm1", "mmDqkv"} : HasOp(q, op, t) <=> HasOp(pipe, op, t) /\ ~(op = o.op /\ t = o.task)
  <2> SUFFICES ASSUME NEW t \in Nat, NEW op \in {"mm1", "mmDqkv"}
               PROVE  HasOp(q, op, t) <=> HasOp(pipe, op, t) /\ ~(op = o.op /\ t = o.task)
    OBVIOUS
  <2>1. ASSUME HasOp(q, op, t) PROVE HasOp(pipe, op, t) /\ ~(op = o.op /\ t = o.task)
    <3>1. PICK i \in DOMAIN q : q[i].op = op /\ q[i].task = t
      BY <2>1 DEF HasOp
    <3>2. i + 1 \in DOMAIN pipe /\ pipe[i + 1] = q[i] /\ i + 1 # 1
      BY <1>1
    <3>3. Place(o) < Place(pipe[i + 1])
      BY <1>2, <3>2
    <3>4. ~(op = o.op /\ t = o.task)
      <4> SUFFICES ASSUME op = o.op, t = o.task PROVE FALSE
        OBVIOUS
      <4>1. Place(o) = Place(pipe[i + 1])
        BY <3>1, <3>2 DEF Place
      <4>2. Place(o) \in Int
        BY <1>1, OpFacts DEF Place
      <4>3. QED
        BY <3>3, <4>1, <4>2
    <3>5. QED
      BY <3>1, <3>2, <3>4 DEF HasOp
  <2>2. ASSUME HasOp(pipe, op, t), ~(op = o.op /\ t = o.task) PROVE HasOp(q, op, t)
    <3>1. PICK i \in DOMAIN pipe : pipe[i].op = op /\ pipe[i].task = t
      BY <2>2 DEF HasOp
    <3>2. i # 1
      BY <1>1, <2>2, <3>1
    <3>3. i - 1 \in DOMAIN q /\ q[i - 1] = pipe[i]
      BY <1>1, <3>2
    <3>4. QED
      BY <3>1, <3>3 DEF HasOp
  <2>3. QED
    BY <2>1, <2>2
<1>4. \A i \in DOMAIN q : PipeOp(c, q, issued, graded, q[i])
  <2> SUFFICES ASSUME NEW i \in DOMAIN q PROVE PipeOp(c, q, issued, graded, q[i])
    OBVIOUS
  <2> DEFINE x == pipe[i + 1]
  <2>1. q[i] = x /\ i + 1 \in DOMAIN pipe /\ i + 1 # 1
    BY <1>1
  <2>2. PipeOp(c, pipe, issued, graded, x) /\ x.task \in Nat /\ x.op \in {"mm1", "mmDqkv"} /\ Place(o) < Place(x)
    BY <1>2, <2>1
  <2> HIDE DEF x
  <2>3. o.task \in Nat /\ Place(o) \in Int /\ Place(x) \in Int
    BY <1>1, <2>2, OpFacts, SMTT(30) DEF Place
  <2>4. \A t \in Tasks : HasBlock(t, c) /\ t <= issued /\ 2 * t > Place(x) => HasOp(q, "mm1", t)
    <3> SUFFICES ASSUME NEW t \in Tasks, HasBlock(t, c), t <= issued, 2 * t > Place(x) PROVE HasOp(q, "mm1", t)
      OBVIOUS
    <3>1. HasOp(pipe, "mm1", t) /\ t \in Nat
      BY <2>2, Ends DEF PipeOp
    <3>2. ~("mm1" = o.op /\ t = o.task)
      <4> SUFFICES ASSUME "mm1" = o.op, t = o.task PROVE FALSE
        OBVIOUS
      <4>1. Place(o) = 2 * t
        BY DEF Place
      <4>2. QED
        BY <2>2, <2>3, <3>1, <4>1
    <3>3. QED
      BY <1>3, <3>1, <3>2
  <2>5. \A t \in Tasks : HasBlock(t, c) /\ t <= graded /\ 2 * t + 3 > Place(x) => HasOp(q, "mmDqkv", t)
    <3> SUFFICES ASSUME NEW t \in Tasks, HasBlock(t, c), t <= graded, 2 * t + 3 > Place(x)
                 PROVE  HasOp(q, "mmDqkv", t)
      OBVIOUS
    <3>1. HasOp(pipe, "mmDqkv", t) /\ t \in Nat
      BY <2>2, Ends DEF PipeOp
    <3>2. ~("mmDqkv" = o.op /\ t = o.task)
      <4> SUFFICES ASSUME "mmDqkv" = o.op, t = o.task PROVE FALSE
        OBVIOUS
      <4>1. Place(o) = 2 * t + 3
        BY DEF Place
      <4>2. QED
        BY <2>2, <2>3, <3>1, <4>1
    <3>3. QED
      BY <1>3, <3>1, <3>2
  <2>6. QED
    BY <2>1, <2>2, <2>4, <2>5 DEF PipeOp
<1>5. \A i, j \in DOMAIN q : i < j => Place(q[i]) < Place(q[j])
  <2> SUFFICES ASSUME NEW i \in DOMAIN q, NEW j \in DOMAIN q, i < j PROVE Place(q[i]) < Place(q[j])
    OBVIOUS
  <2>1. i + 1 \in DOMAIN pipe /\ j + 1 \in DOMAIN pipe /\ i + 1 < j + 1 /\ q[i] = pipe[i + 1] /\ q[j] = pipe[j + 1]
    BY <1>1
  <2>2. QED
    BY <2>1 DEF PipeSound
<1>6. HasOp(pipe, o.op, o.task) /\ PipeOp(c, pipe, issued, graded, o)
  BY <1>1, <1>2 DEF HasOp
<1>7. PipeSound(c, q, issued, graded)
  BY <1>4, <1>5 DEF PipeSound
<1>8. QED
  BY <1>1, <1>3, <1>6, <1>7 DEF q, o

(* Gradients that are not done have scores of the other parity, or none, done *)
(* behind them, and no gradients.                                            *)
LEMMA PipeOrder ==
  ASSUME NEW c, NEW k, Len(rounds) \in Nat, CubeSound(c, k)
  PROVE  /\ \A t \in Tasks, a \in Tasks :
              HasBlock(t, c) /\ t <= Graded(k) /\ ~GradsDone(k, t) /\ HasBlock(a, c) /\ ScoresDone(k, a) => a <= t + 1
         /\ \A t \in Tasks, a \in Tasks :
              HasBlock(t, c) /\ t <= Graded(k) /\ ~GradsDone(k, t) /\ HasBlock(a, c) /\ GradsDone(k, a) => a < t
<1> SUFFICES ASSUME NEW t \in Tasks, NEW a \in Tasks, HasBlock(t, c), t <= Graded(k), ~GradsDone(k, t), HasBlock(a, c)
             PROVE  (ScoresDone(k, a) => a <= t + 1) /\ (GradsDone(k, a) => a < t)
  OBVIOUS
<1>1. t \in Nat /\ a \in Nat
  BY Ends
<1>2. PICK i \in DOMAIN k.pipe : k.pipe[i].op = "mmDqkv" /\ k.pipe[i].task = t
  BY DEF GradsDone, HasOp
<1>3. PipeOp(c, k.pipe, Issued(k), Graded(k), k.pipe[i]) /\ Place(k.pipe[i]) = 2 * t + 3
  BY <1>2 DEF CubeSound, CubePipeSound, PipeSound, Place
<1>4. ScoresDone(k, a) => ~(2 * a > 2 * t + 3)
  BY <1>3 DEF PipeOp, ScoresDone
<1>5. GradsDone(k, a) => ~(2 * a + 3 > 2 * t + 3) /\ a # t
  BY <1>3 DEF PipeOp, GradsDone
<1>6. QED
  BY <1>1, <1>4, <1>5
-----------------------------------------------------------------------------
(* The records of cubes and engines from round to round. *)

(* taskId counts rounds, and extra those that are left behind the last one.  *)
LEMMA NextTaskIs ==
  ASSUME NEW e, e.taskId \in Nat, Len(rounds) \in Nat,
         e.taskId >= 1, e.taskId < EndTask, e.extra = ExtraAt(e.taskId)
  PROVE  /\ ExtraAt(e.taskId + 1) \in Int
         /\ NextTask(e) = [e EXCEPT !.taskId = e.taskId + 1, !.extra = ExtraAt(e.taskId + 1)]
<1>1. ExtraAt(e.taskId + 1) = IF LastPlanned(e.taskId) THEN e.extra - 1 ELSE e.extra
  BY DEF ExtraAt, LastTask, LastPlanned, Extra
<1>2. ExtraAt(e.taskId + 1) \in Int
  BY Ends DEF ExtraAt
<1>3. QED
  BY <1>1, <1>2 DEF NextTask

(* The record of a cube, or of an engine, in the next round. *)
LEMMA NextRecIs ==
  ASSUME Len(rounds) \in Nat
  PROVE  /\ \A e \in CubeRec :
              e.taskId >= 1 /\ e.taskId < EndTask /\ e.extra = ExtraAt(e.taskId) =>
                /\ NextTask(e) \in CubeRec /\ NextTask(e).pc = e.pc /\ NextTask(e).pipe = e.pipe
                /\ NextTask(e).taskId = e.taskId + 1 /\ NextTask(e).extra = ExtraAt(e.taskId + 1)
         /\ \A e \in VecRec :
              e.taskId >= 1 /\ e.taskId < EndTask /\ e.extra = ExtraAt(e.taskId) =>
                /\ NextTask(e) \in VecRec /\ NextTask(e).pc = e.pc /\ NextTask(e).pipe = e.pipe
                /\ NextTask(e).taskId = e.taskId + 1 /\ NextTask(e).extra = ExtraAt(e.taskId + 1)
<1>1. ASSUME NEW e \in CubeRec, e.taskId >= 1, e.taskId < EndTask, e.extra = ExtraAt(e.taskId)
      PROVE  /\ NextTask(e) \in CubeRec /\ NextTask(e).pc = e.pc /\ NextTask(e).pipe = e.pipe
             /\ NextTask(e).taskId = e.taskId + 1 /\ NextTask(e).extra = ExtraAt(e.taskId + 1)
  <2>1. e.taskId \in Nat
    BY DEF CubeRec
  <2>2. ExtraAt(e.taskId + 1) \in Int /\ NextTask(e) = [e EXCEPT !.taskId = e.taskId + 1, !.extra = ExtraAt(e.taskId + 1)]
    BY <1>1, <2>1, NextTaskIs
  <2>3. PICK n \in Nat, a \in Int : n = e.taskId + 1 /\ a = ExtraAt(e.taskId + 1)
    BY <2>1, <2>2
  <2>4. NextTask(e) = [e EXCEPT !.taskId = n, !.extra = a]
    BY <2>2, <2>3
  <2> HIDE DEF NextTask
  <2>5. [e EXCEPT !.taskId = n, !.extra = a] \in CubeRec
    BY <1>1 DEF CubeRec
  <2>6. /\ [e EXCEPT !.taskId = n, !.extra = a].pc = e.pc /\ [e EXCEPT !.taskId = n, !.extra = a].pipe = e.pipe
        /\ [e EXCEPT !.taskId = n, !.extra = a].taskId = n /\ [e EXCEPT !.taskId = n, !.extra = a].extra = a
    BY <1>1 DEF CubeRec
  <2>7. QED
    BY <2>3, <2>4, <2>5, <2>6
<1>2. ASSUME NEW e \in VecRec, e.taskId >= 1, e.taskId < EndTask, e.extra = ExtraAt(e.taskId)
      PROVE  /\ NextTask(e) \in VecRec /\ NextTask(e).pc = e.pc /\ NextTask(e).pipe = e.pipe
             /\ NextTask(e).taskId = e.taskId + 1 /\ NextTask(e).extra = ExtraAt(e.taskId + 1)
  <2>1. e.taskId \in Nat
    BY DEF VecRec
  <2>2. ExtraAt(e.taskId + 1) \in Int /\ NextTask(e) = [e EXCEPT !.taskId = e.taskId + 1, !.extra = ExtraAt(e.taskId + 1)]
    BY <1>2, <2>1, NextTaskIs
  <2>3. PICK n \in Nat, a \in Int : n = e.taskId + 1 /\ a = ExtraAt(e.taskId + 1)
    BY <2>1, <2>2
  <2>4. NextTask(e) = [e EXCEPT !.taskId = n, !.extra = a]
    BY <2>2, <2>3
  <2> HIDE DEF NextTask
  <2>5. [e EXCEPT !.taskId = n, !.extra = a] \in VecRec
    BY <1>2 DEF VecRec
  <2>6. /\ [e EXCEPT !.taskId = n, !.extra = a].pc = e.pc /\ [e EXCEPT !.taskId = n, !.extra = a].pipe = e.pipe
        /\ [e EXCEPT !.taskId = n, !.extra = a].taskId = n /\ [e EXCEPT !.taskId = n, !.extra = a].extra = a
    BY <1>2 DEF VecRec
  <2>7. QED
    BY <2>3, <2>4, <2>5, <2>6
<1>3. QED
  BY <1>1, <1>2

LEMMA ExtraLeft ==
  ASSUME NEW t \in Nat, Len(rounds) \in Nat, t <= EndTask
  PROVE  ExtraAt(t) \in -1 .. 2 /\ (ExtraAt(t) >= 0 <=> t < EndTask)
<1>1. Extra \in 1 .. 2 /\ LastTask \in Nat \ {0} /\ EndTask = LastTask + Extra + 1
  BY Ends
<1>2. QED
  BY <1>1 DEF ExtraAt

LEMMA NoBlockAtEnd ==
  ASSUME NEW c, Len(rounds) \in Nat
  PROVE  ~HasBlock(EndTask, c)
BY Blocks, Ends

(* A round begins, or the loop ends: scores of task t are issued if it has a *)
(* block.                                                                    *)
LEMMA BeginRoundIs ==
  ASSUME NEW c, NEW e \in CubeRec, NEW t \in Nat, Len(rounds) \in Nat,
         e.taskId = t, t >= 1, t <= EndTask, e.extra = ExtraAt(t), PipeSound(c, e.pipe, t - 1, t - 2)
  PROVE  /\ CubeSound(c, BeginRound(c, e))
         /\ Issued(BeginRound(c, e)) = t /\ Graded(BeginRound(c, e)) = t - 2
         /\ BeginRound(c, e).pc # "first"
         /\ \A x : /\ HasOp(BeginRound(c, e).pipe, "mm1", x)
                        <=> HasOp(e.pipe, "mm1", x) \/ (x = t /\ HasBlock(x, c))
                   /\ HasOp(BeginRound(c, e).pipe, "mmDqkv", x) <=> HasOp(e.pipe, "mmDqkv", x)
<1> DEFINE k == BeginRound(c, e)
           q == e.pipe \o Mm1(t, c)
           i == t - 1
           g == t - 2
<1>1. e.pipe \in Seq(Op) /\ i \in Int /\ g \in Int /\ i = g + 1 /\ t = i + 1
  BY DEF CubeRec
<1>2. PipeSound(c, e.pipe, i, g)
  OBVIOUS
<1> HIDE DEF i, g
<1>3. /\ e.pipe \o Mm1(i + 1, c) \in Seq(Op)
      /\ PipeSound(c, e.pipe \o Mm1(i + 1, c), i + 1, g)
      /\ \A x : /\ HasOp(e.pipe \o Mm1(i + 1, c), "mm1", x) <=> HasOp(e.pipe, "mm1", x) \/ (x = i + 1 /\ HasBlock(x, c))
                /\ HasOp(e.pipe \o Mm1(i + 1, c), "mmDqkv", x) <=> HasOp(e.pipe, "mmDqkv", x)
  BY <1>1, <1>2, PutScores
<1>4. /\ q \in Seq(Op) /\ PipeSound(c, q, t, g)
      /\ \A x : /\ HasOp(q, "mm1", x) <=> HasOp(e.pipe, "mm1", x) \/ (x = t /\ HasBlock(x, c))
                /\ HasOp(q, "mmDqkv", x) <=> HasOp(e.pipe, "mmDqkv", x)
  BY <1>1, <1>3
<1>5. k.pipe = q /\ k.taskId = t /\ k.extra = e.extra /\ k \in CubeRec
      /\ k.pc = IF t < EndTask THEN "gradients" ELSE IF launch.dtm THEN "lastSync" ELSE "done"
  <2>1. CASE t < EndTask
    <3>1. e.extra >= 0
      BY <2>1, ExtraLeft
    <3>2. k = [e EXCEPT !.pc = "gradients", !.pipe = q]
      BY <3>1 DEF BeginRound
    <3>3. QED
      BY <1>4, <2>1, <3>2 DEF CubeRec, CubePc
  <2>2. CASE ~(t < EndTask)
    <3>1. ~(e.extra >= 0)
      BY <2>2, ExtraLeft
    <3>2. t = EndTask
      BY <2>2, Ends
    <3>3. q = e.pipe
      <4> HIDE DEF k
      <4>1. Mm1(t, c) = <<>>
        BY <3>2, NoBlockAtEnd DEF Mm1
      <4>2. e.pipe \o <<>> = e.pipe
        BY <1>1
      <4>3. QED
        BY <4>1, <4>2
    <3>4. k = [e EXCEPT !.pc = IF launch.dtm THEN "lastSync" ELSE "done"]
      BY <3>1 DEF BeginRound
    <3>5. QED
      BY <1>4, <2>2, <3>3, <3>4 DEF CubeRec, CubePc
  <2>3. QED
    BY <2>1, <2>2
<1> HIDE DEF k, q
<1>6. Issued(k) = t /\ Graded(k) = g /\ k.pc # "first"
  BY <1>5 DEF Issued, Graded, g
<1>7. CubeTyped(k)
  BY <1>5, Ends DEF CubeTyped
<1>8. CubeSound(c, k)
  BY <1>4, <1>5, <1>6, <1>7 DEF CubeSound, CubePipeSound
<1> USE DEF k, g
<1>9. QED
  BY <1>4, <1>5, <1>6, <1>8

(* The steps of a cube's program: what they do to its progress. *)
CubeFirstOf(c, k) == BeginRound(c, [k EXCEPT !.pipe = Mm1(0, c)])
LEMMA CubeFirstIs ==
  ASSUME NEW c, NEW k, NEW k2, Len(rounds) \in Nat, CubeSound(c, k), k.pc = "first", k2 = CubeFirstOf(c, k)
  PROVE  /\ CubeSound(c, k2) /\ Graded(k2) = Graded(k)
         /\ \A t \in Tasks : HasBlock(t, c) => /\ ScoresDone(k2, t) <=> ScoresDone(k, t)
                                               /\ GradsDone(k2, t) <=> GradsDone(k, t)
<1> DEFINE e == [k EXCEPT !.pipe = Mm1(0, c)]
<1>1. k \in CubeRec /\ k.taskId = 1 /\ k.extra = ExtraAt(1) /\ k.pipe = <<>> /\ 1 < EndTask
  BY DEF CubeSound, CubeTyped
<1>2. /\ Mm1(0, c) \in Seq(Op) /\ PipeSound(c, Mm1(0, c), 0, -2)
      /\ \A x : /\ HasOp(Mm1(0, c), "mm1", x) <=> x = 0 /\ HasBlock(x, c)
                /\ ~HasOp(Mm1(0, c), "mmDqkv", x)
  <2> DEFINE none == <<>>
             i == -1
             g == -2
  <2>1. none \in Seq(Op) /\ i \in Int /\ g \in Int /\ i = g + 1 /\ i + 1 = 0
    OBVIOUS
  <2>2. PipeSound(c, none, i, g)
    BY DEF PipeSound
  <2>3. \A x, op : ~HasOp(none, op, x)
    BY DEF HasOp
  <2>4. none \o Mm1(0, c) = Mm1(0, c)
    <3>1. Mm1(0, c) = <<>> \/ Mm1(0, c) = <<[op |-> "mm1", task |-> 0]>>
      BY DEF Mm1
    <3>2. QED
      BY <3>1
  <2> HIDE DEF none, i, g
  <2>5. /\ none \o Mm1(i + 1, c) \in Seq(Op)
        /\ PipeSound(c, none \o Mm1(i + 1, c), i + 1, g)
        /\ \A x : /\ HasOp(none \o Mm1(i + 1, c), "mm1", x) <=> HasOp(none, "mm1", x) \/ (x = i + 1 /\ HasBlock(x, c))
                  /\ HasOp(none \o Mm1(i + 1, c), "mmDqkv", x) <=> HasOp(none, "mmDqkv", x)
    BY <2>1, <2>2, PutScores
  <2>6. /\ Mm1(0, c) \in Seq(Op) /\ PipeSound(c, Mm1(0, c), 0, g)
        /\ \A x : /\ HasOp(Mm1(0, c), "mm1", x) <=> x = 0 /\ HasBlock(x, c)
                  /\ ~HasOp(Mm1(0, c), "mmDqkv", x)
    BY <2>1, <2>3, <2>4, <2>5
  <2>7. QED
    BY <2>6 DEF g
<1>3. PipeSound(c, Mm1(0, c), 0, -1)
  <2>1. \A i \in DOMAIN Mm1(0, c) : PipeOp(c, Mm1(0, c), 0, -1, Mm1(0, c)[i])
    <3> SUFFICES ASSUME NEW i \in DOMAIN Mm1(0, c) PROVE PipeOp(c, Mm1(0, c), 0, -1, Mm1(0, c)[i])
      OBVIOUS
    <3>1. PipeOp(c, Mm1(0, c), 0, -2, Mm1(0, c)[i]) /\ Mm1(0, c)[i].op = "mm1"
      BY <1>2 DEF PipeSound, Mm1
    <3>2. \A t \in Tasks : ~(t <= -1)
      BY Ends
    <3>3. QED
      BY <3>1, <3>2 DEF PipeOp
  <2>2. QED
    BY <1>2, <2>1 DEF PipeSound
<1>4. e \in CubeRec /\ e.taskId = 1 /\ e.extra = ExtraAt(1) /\ e.pipe = Mm1(0, c)
  BY <1>1, <1>2 DEF CubeRec
<1>5. k2 = BeginRound(c, e)
  BY DEF CubeFirstOf
<1> HIDE DEF e
<1>6. PipeSound(c, e.pipe, 1 - 1, 1 - 2)
  BY <1>3, <1>4
<1>7. /\ CubeSound(c, k2) /\ Issued(k2) = 1 /\ Graded(k2) = 1 - 2
      /\ \A x : /\ HasOp(k2.pipe, "mm1", x) <=> HasOp(e.pipe, "mm1", x) \/ (x = 1 /\ HasBlock(x, c))
                /\ HasOp(k2.pipe, "mmDqkv", x) <=> HasOp(e.pipe, "mmDqkv", x)
  BY <1>1, <1>4, <1>5, <1>6, BeginRoundIs, Ends
<1>8. Issued(k) = -1 /\ Graded(k) = -1
  BY <1>1 DEF Issued, Graded
<1>9. \A t \in Tasks : HasBlock(t, c) =>
        ~ScoresDone(k, t) /\ ~ScoresDone(k2, t) /\ ~GradsDone(k, t) /\ ~GradsDone(k2, t)
  BY <1>2, <1>4, <1>7, <1>8, Ends DEF ScoresDone, GradsDone
<1>10. QED
  BY <1>7, <1>8, <1>9

(* Gradients of task t - 1 are issued if it has a block, and the cube goes on. *)
Onwards(c, k, pipe) ==
  LET e == [k EXCEPT !.pipe = pipe]
  IN IF launch.dtm /\ k.taskId > 1 THEN [e EXCEPT !.pc = "sync"] ELSE BeginRound(c, NextTask(e))
LEMMA CubeGradientsIs ==
  ASSUME NEW c, NEW k, NEW k2, Len(rounds) \in Nat, CubeSound(c, k), k.pc = "gradients",
         k2 = Onwards(c, k, IF HasBlock(k.taskId - 1, c) THEN k.pipe \o <<GradsOp(k.taskId - 1, c)>> ELSE k.pipe)
  PROVE  /\ CubeSound(c, k2) /\ Graded(k2) = Graded(k) + 1 /\ Graded(k2) = k.taskId - 1
         /\ \A t \in Tasks : HasBlock(t, c) => /\ ScoresDone(k2, t) <=> ScoresDone(k, t)
                                               /\ GradsDone(k2, t) <=> GradsDone(k, t)
<1>1. /\ k \in CubeRec /\ k.taskId \in Nat /\ k.taskId >= 1 /\ k.taskId < EndTask
      /\ k.extra = ExtraAt(k.taskId) /\ k.pipe \in Seq(Op)
  BY Ends DEF CubeSound, CubeTyped, CubeRec
<1> DEFINE t == k.taskId
           i == t
           g == t - 2
           n == t - 1
           q == IF HasBlock(n, c) THEN k.pipe \o <<GradsOp(n, c)>> ELSE k.pipe
           e == [k EXCEPT !.pipe = q]
<1>2. i \in Int /\ g \in Int /\ n \in Int /\ i = g + 2 /\ n = g + 1 /\ PipeSound(c, k.pipe, i, g)
      /\ Issued(k) = i /\ Graded(k) = g /\ n = t - 1 /\ i = t
  BY <1>1 DEF CubeSound, CubePipeSound, Issued, Graded
<1> HIDE DEF i, g, n
<1> HIDE DEF e
<1>3. /\ q \in Seq(Op) /\ PipeSound(c, q, i, n)
      /\ \A x : /\ HasOp(q, "mmDqkv", x) <=> HasOp(k.pipe, "mmDqkv", x) \/ (x = n /\ HasBlock(x, c))
                /\ HasOp(q, "mm1", x) <=> HasOp(k.pipe, "mm1", x)
  <2>1. CASE HasBlock(n, c)
    <3> HIDE DEF q
    <3>1. GradsPut(c, k.pipe, k.pipe \o <<GradsOp(n, c)>>, i, n)
      BY <1>1, <1>2, <2>1, PutGrads
    <3>2. GradsPut(c, k.pipe, q, i, n)
      BY <2>1, <3>1 DEF q
    <3>3. QED
      BY <2>1, <3>2 DEF GradsPut
  <2>2. CASE ~HasBlock(n, c)
    <3>1. PipeSound(c, k.pipe, i, n)
      BY <1>1, <1>2, <2>2, NoGrads
    <3>2. QED
      BY <1>1, <2>2, <3>1
  <2>3. QED
    BY <2>1, <2>2
<1>4. k2 = Onwards(c, k, q)
  BY <1>2 DEF n
<1> HIDE DEF q
<1>5. e \in CubeRec /\ e.taskId = t /\ e.extra = k.extra /\ e.pipe = q /\ e.pc = k.pc
  BY <1>1, <1>3 DEF CubeRec, e
<1>6. CASE launch.dtm /\ t > 1
  <2>1. k2 = [e EXCEPT !.pc = "sync"]
    BY <1>4, <1>6 DEF Onwards, e
  <2>2. k2 \in CubeRec /\ k2.pc = "sync" /\ k2.taskId = t /\ k2.extra = k.extra /\ k2.pipe = q
    BY <1>5, <2>1 DEF CubeRec, CubePc
  <2>3. Issued(k2) = i /\ Graded(k2) = n
    BY <1>2, <2>2 DEF Issued, Graded
  <2>4. CubeSound(c, k2)
    BY <1>1, <1>3, <1>6, <2>2, <2>3, Ends DEF CubeSound, CubeTyped, CubePipeSound
  <2>5. \A x \in Tasks : HasBlock(x, c) => /\ ScoresDone(k2, x) <=> ScoresDone(k, x)
                                           /\ GradsDone(k2, x) <=> GradsDone(k, x)
    BY <1>2, <1>3, <2>2, <2>3, Ends DEF ScoresDone, GradsDone
  <2>6. QED
    BY <1>2, <2>3, <2>4, <2>5
<1>7. CASE ~(launch.dtm /\ t > 1)
  <2> DEFINE f == NextTask(e)
             u == t + 1
  <2>1. k2 = BeginRound(c, f)
    BY <1>4, <1>7 DEF Onwards, e
  <2>2. f \in CubeRec /\ f.pipe = q /\ f.taskId = u /\ f.extra = ExtraAt(u)
    BY <1>1, <1>5, NextRecIs
  <2>3. EndTask \in Nat
    BY Ends
  <2>4. u \in Nat /\ u >= 1 /\ u <= EndTask /\ u - 1 = i /\ u - 2 = n
    BY <1>1, <1>2, <2>3
  <2> HIDE DEF f, u
  <2>5. PipeSound(c, f.pipe, u - 1, u - 2)
    BY <1>3, <2>2, <2>4
  <2>6. /\ CubeSound(c, k2) /\ Issued(k2) = u /\ Graded(k2) = u - 2
        /\ \A x : /\ HasOp(k2.pipe, "mm1", x) <=> HasOp(f.pipe, "mm1", x) \/ (x = u /\ HasBlock(x, c))
                  /\ HasOp(k2.pipe, "mmDqkv", x) <=> HasOp(f.pipe, "mmDqkv", x)
    BY <2>1, <2>2, <2>4, <2>5, BeginRoundIs
  <2>7. \A x \in Tasks : HasBlock(x, c) => /\ ScoresDone(k2, x) <=> ScoresDone(k, x)
                                           /\ GradsDone(k2, x) <=> GradsDone(k, x)
    BY <1>2, <1>3, <2>2, <2>4, <2>6, Ends DEF ScoresDone, GradsDone
  <2>8. QED
    BY <1>2, <2>4, <2>6, <2>7
<1>8. QED
  BY <1>6, <1>7

(* The barrier of the cubes opens. *)
CubeSyncOf(c, k) == IF k.pc = "lastSync" THEN [k EXCEPT !.pc = "done"] ELSE BeginRound(c, NextTask(k))
LEMMA CubeSyncIs ==
  ASSUME NEW c, NEW k, NEW k2, Len(rounds) \in Nat, CubeSound(c, k), k.pc \in {"sync", "lastSync"}, k2 = CubeSyncOf(c, k)
  PROVE  /\ CubeSound(c, k2) /\ Graded(k2) = Graded(k)
         /\ \A t \in Tasks : HasBlock(t, c) => /\ ScoresDone(k2, t) <=> ScoresDone(k, t)
                                               /\ GradsDone(k2, t) <=> GradsDone(k, t)
<1>1. /\ k \in CubeRec /\ k.taskId \in Nat /\ k.taskId >= 1
      /\ k.extra = ExtraAt(k.taskId) /\ k.pipe \in Seq(Op)
  BY Ends DEF CubeSound, CubeTyped, CubeRec
<1>2. CASE k.pc = "lastSync"
  <2>1. k2 = [k EXCEPT !.pc = "done"]
    BY <1>2 DEF CubeSyncOf
  <2>2. k2 \in CubeRec /\ k2.pc = "done" /\ k2.taskId = k.taskId /\ k2.extra = k.extra /\ k2.pipe = k.pipe
    BY <1>1, <2>1 DEF CubeRec, CubePc
  <2>3. Issued(k2) = Issued(k) /\ Graded(k2) = Graded(k)
    BY <1>2, <2>2 DEF Issued, Graded
  <2>4. CubeSound(c, k2)
    BY <1>2, <2>2, <2>3 DEF CubeSound, CubeTyped, CubePipeSound
  <2>5. QED
    BY <2>2, <2>3, <2>4 DEF ScoresDone, GradsDone
<1>3. CASE k.pc = "sync"
  <2> DEFINE f == NextTask(k)
             u == k.taskId + 1
  <2>1. k2 = BeginRound(c, f)
    BY <1>3 DEF CubeSyncOf
  <2>2. k.taskId < EndTask
    BY <1>3 DEF CubeSound, CubeTyped
  <2>3. f \in CubeRec /\ f.pipe = k.pipe /\ f.taskId = u /\ f.extra = ExtraAt(u)
    BY <1>1, <2>2, NextRecIs
  <2>4. u \in Nat /\ u >= 1 /\ u <= EndTask /\ u - 1 = Issued(k) /\ u - 2 = Graded(k)
    BY <1>1, <1>3, <2>2, Ends DEF Issued, Graded
  <2> HIDE DEF f, u
  <2>5. PipeSound(c, f.pipe, u - 1, u - 2)
    BY <2>3, <2>4 DEF CubeSound, CubePipeSound
  <2>6. /\ CubeSound(c, k2) /\ Issued(k2) = u /\ Graded(k2) = u - 2
        /\ \A x : /\ HasOp(k2.pipe, "mm1", x) <=> HasOp(f.pipe, "mm1", x) \/ (x = u /\ HasBlock(x, c))
                  /\ HasOp(k2.pipe, "mmDqkv", x) <=> HasOp(f.pipe, "mmDqkv", x)
    BY <2>1, <2>3, <2>4, <2>5, BeginRoundIs
  <2>7. \A x \in Tasks : HasBlock(x, c) => /\ ScoresDone(k2, x) <=> ScoresDone(k, x)
                                           /\ GradsDone(k2, x) <=> GradsDone(k, x)
    BY <2>3, <2>4, <2>6, Ends DEF ScoresDone, GradsDone
  <2>8. QED
    BY <2>4, <2>6, <2>7
<1>4. QED
  BY <1>2, <1>3
-----------------------------------------------------------------------------
(* The pipe of a cube ends an operation.                                     *)
OneLess(e, e2) == e.pipe # <<>> /\ e2 = [e EXCEPT !.pipe = Tail(e.pipe)]
IsHead(o, pipe) == o = Head(pipe)
LEMMA CubePipeIs ==
  ASSUME NEW c, NEW k, NEW k2, NEW o, Len(rounds) \in Nat, CubeSound(c, k), OneLess(k, k2), IsHead(o, k.pipe)
  PROVE  /\ CubeSound(c, k2) /\ Issued(k2) = Issued(k) /\ Graded(k2) = Graded(k)
         /\ o.task \in Tasks /\ HasBlock(o.task, c) /\ o.op \in {"mm1", "mmDqkv"}
         /\ o.op = "mm1" =>
              /\ o.task <= Issued(k) /\ ~ScoresDone(k, o.task)
              /\ \A t \in Tasks : HasBlock(t, c) => /\ ScoresDone(k2, t) <=> (ScoresDone(k, t) \/ t = o.task)
                                                    /\ GradsDone(k2, t) <=> GradsDone(k, t)
              /\ \A t \in Tasks : HasBlock(t, c) /\ t <= Graded(k) /\ ~GradsDone(k, t) => o.task <= t + 1
         /\ o.op = "mmDqkv" =>
              /\ o.task <= Graded(k) /\ ~GradsDone(k, o.task) /\ o.told = Told(o.task, c)
              /\ \A t \in Tasks : HasBlock(t, c) => /\ ScoresDone(k2, t) <=> ScoresDone(k, t)
                                                    /\ GradsDone(k2, t) <=> (GradsDone(k, t) \/ t = o.task)
              /\ \A t \in Tasks : HasBlock(t, c) /\ GradsDone(k, t) => t < o.task
<1> DEFINE a == o.task
           q == Tail(k.pipe)
<1>1. k \in CubeRec /\ k.pipe \in Seq(Op) /\ Issued(k) \in Int /\ Graded(k) \in Int
      /\ PipeSound(c, k.pipe, Issued(k), Graded(k))
  BY CubeAhead DEF CubeSound, CubeTyped, CubePipeSound, CubeRec
<1>2. PICK p \in Seq(Op), i \in Int, g \in Int : p = k.pipe /\ i = Issued(k) /\ g = Graded(k)
  BY <1>1
<1>0. o = Head(p) /\ p # <<>> /\ k2 = [k EXCEPT !.pipe = q]
  BY <1>2 DEF OneLess, IsHead
<1>3. /\ q \in Seq(Op) /\ PipeSound(c, q, i, g) /\ o \in Op /\ PipeOp(c, k.pipe, i, g, o)
      /\ HasOp(k.pipe, o.op, o.task)
      /\ \A t \in Nat, op \in {"mm1", "mmDqkv"} :
           HasOp(q, op, t) <=> HasOp(k.pipe, op, t) /\ ~(op = o.op /\ t = o.task)
  <2>1. PipeSound(c, p, i, g) /\ p # <<>>
    BY <1>0, <1>1, <1>2
  <2>2. /\ Tail(p) \in Seq(Op) /\ PipeSound(c, Tail(p), i, g)
        /\ Head(p) \in Op /\ PipeOp(c, p, i, g, Head(p))
        /\ HasOp(p, Head(p).op, Head(p).task)
        /\ \A t \in Nat, op \in {"mm1", "mmDqkv"} :
             HasOp(Tail(p), op, t) <=> HasOp(p, op, t) /\ ~(op = Head(p).op /\ t = Head(p).task)
    BY <2>1, TakeFirst
  <2>3. QED
    BY <1>0, <1>2, <2>2
<1> HIDE DEF q
<1>4. k2 \in CubeRec /\ k2.pc = k.pc /\ k2.taskId = k.taskId /\ k2.extra = k.extra /\ k2.pipe = q
  BY <1>0, <1>1, <1>3 DEF CubeRec
<1>5. Issued(k2) = Issued(k) /\ Graded(k2) = Graded(k)
  BY <1>4 DEF Issued, Graded
<1>6. CubeSound(c, k2)
  <2>1. k.pc # "first"
    BY <1>0, <1>2 DEF CubeSound, CubeTyped
  <2>2. QED
    BY <1>2, <1>3, <1>4, <1>5, <2>1 DEF CubeSound, CubeTyped, CubePipeSound
<1>7. HasBlock(a, c) /\ a \in Tasks /\ a \in Nat /\ o.op \in {"mm1", "mmDqkv"}
  BY <1>3, Blocks, OpFacts DEF PipeOp
<1> HIDE DEF a
<1>8. \A t \in Tasks : t \in Nat
  BY Ends
<1>9. CASE o.op = "mm1"
  <2>1. a <= Issued(k) /\ ~ScoresDone(k, a)
    BY <1>2, <1>3, <1>7, <1>9 DEF PipeOp, ScoresDone, a
  <2>2. \A t \in Tasks : HasBlock(t, c) => /\ ScoresDone(k2, t) <=> (ScoresDone(k, t) \/ t = a)
                                           /\ GradsDone(k2, t) <=> GradsDone(k, t)
    BY <1>3, <1>4, <1>5, <1>7, <1>8, <1>9, <2>1 DEF ScoresDone, GradsDone, a
  <2>3. ASSUME NEW t \in Tasks, HasBlock(t, c), t <= Graded(k), ~GradsDone(k, t) PROVE a <= t + 1
    <3>1. PICK j \in DOMAIN p : p[j].op = "mmDqkv" /\ p[j].task = t
      BY <1>2, <2>3 DEF GradsDone, HasOp
    <3>2. DOMAIN p = 1 .. Len(p) /\ Len(p) \in Nat /\ o = p[1] /\ 1 \in DOMAIN p
      BY <1>0, Tail1
    <3>3. 1 < j
      BY <1>9, <3>1, <3>2
    <3>4. Place(p[1]) < Place(p[j])
      BY <1>1, <1>2, <3>2, <3>3 DEF PipeSound
    <3>5. Place(p[1]) = 2 * a /\ Place(p[j]) = 2 * t + 3
      BY <1>7, <1>9, <3>1, <3>2 DEF Place, a
    <3>6. 2 * a < 2 * t + 3
      BY <3>4, <3>5
    <3>7. QED
      BY <1>7, <1>8, <3>6
  <2>4. QED
    BY <1>5, <1>6, <1>7, <1>9, <2>1, <2>2, <2>3 DEF a
<1>10. CASE o.op = "mmDqkv"
  <2>1. a <= Graded(k) /\ ~GradsDone(k, a) /\ o.told = Told(a, c)
    BY <1>2, <1>3, <1>7, <1>10 DEF PipeOp, GradsDone, a
  <2>2. \A t \in Tasks : HasBlock(t, c) => /\ ScoresDone(k2, t) <=> ScoresDone(k, t)
                                           /\ GradsDone(k2, t) <=> (GradsDone(k, t) \/ t = a)
    BY <1>3, <1>4, <1>5, <1>7, <1>8, <1>10, <2>1 DEF ScoresDone, GradsDone, a
  <2>3. \A t \in Tasks : HasBlock(t, c) /\ GradsDone(k, t) => t < a
    BY <1>7, <2>1, PipeOrder
  <2>4. QED
    BY <1>5, <1>6, <1>7, <1>10, <2>1, <2>2, <2>3 DEF a
<1>11. QED
  BY <1>7, <1>9, <1>10 DEF a

(* Gradients that are not done are of the other parity than scores, or       *)
(* gradients of scores, behind them.                                         *)
LEMMA OtherParity ==
  ASSUME NEW n \in Int, NEW t \in Nat, NEW a \in Nat, t <= n, n < a, a <= t + 1
  PROVE  t % 2 # a % 2
<1>1. a = t + 1
  OBVIOUS
<1>2. QED
  BY <1>1
LEMMA CubePipeScores ==
  ASSUME NEW c, NEW k, NEW k2, NEW o, NEW v, NEW s, NEW m, NEW g, NEW w, NEW w2, NEW d,
         Len(rounds) \in Nat, CubeSound(c, k), VecSound(c, v), EngineSound(c, k, v, s, m, g, w, d),
         OneLess(k, k2), IsHead(o, k.pipe), o.op = "mm1",
         \A p \in Parity : w2[p] = IF p = o.task % 2 THEN [kind |-> "scores", task |-> o.task] ELSE w[p]
  PROVE  EngineSound(c, k2, v, Up(s, o.task % 2), m, g, w2, d)
<1> DEFINE a == o.task
<1>1. /\ Graded(k2) = Graded(k)
      /\ a \in Tasks /\ HasBlock(a, c) /\ a <= Issued(k) /\ ~ScoresDone(k, a)
      /\ \A t \in Tasks : HasBlock(t, c) => /\ ScoresDone(k2, t) <=> (ScoresDone(k, t) \/ t = a)
                                            /\ GradsDone(k2, t) <=> GradsDone(k, t)
      /\ \A t \in Tasks : HasBlock(t, c) /\ t <= Graded(k) /\ ~GradsDone(k, t) => a <= t + 1
  BY CubePipeIs
<1>2. CubeTyped(k) /\ VecTyped(c, v) /\ Ordered(c, k, v)
  BY DEF CubeSound, VecSound, EngineSound
<1>3. Graded(k) \in Int /\ \A t \in Tasks : t \in Nat
  BY <1>2, CubeAhead, Ends
<1>4. Graded(k) < a
  <2>1. ~MulDone(v, a)
    BY <1>1, <1>2, DueNear
  <2>2. QED
    BY <1>1, <1>2, <2>1, DueNear, <1>3
<1>5. \A t \in Tasks : HasBlock(t, c) /\ t <= Graded(k) /\ ~GradsDone(k, t) => t % 2 # a % 2
  BY <1>1, <1>3, <1>4, OtherParity
<1>6. QED
  BY <1>1, <1>2, <1>5, CubeEndsScores

ToldOf(o, g, g2) == g2 = IF o.told THEN Up(g, o.task % 2) ELSE g
LEMMA CubePipeGrads ==
  ASSUME NEW c, NEW k, NEW k2, NEW o, NEW v, NEW s, NEW m, NEW g, NEW g2, NEW w, NEW d, NEW d2,
         Len(rounds) \in Nat, CubeSound(c, k), VecSound(c, v), EngineSound(c, k, v, s, m, g, w, d),
         OneLess(k, k2), IsHead(o, k.pipe), o.op = "mmDqkv",
         ToldOf(o, g, g2),
         ProductsPut(c, o.task, d, d2)
  PROVE  EngineSound(c, k2, v, s, m, g2, w, d2)
<1> DEFINE a == o.task
<1>1. /\ Graded(k2) = Graded(k)
      /\ a \in Tasks /\ HasBlock(a, c) /\ a <= Graded(k) /\ ~GradsDone(k, a) /\ o.told = Told(a, c)
      /\ \A t \in Tasks : HasBlock(t, c) => /\ ScoresDone(k2, t) <=> ScoresDone(k, t)
                                            /\ GradsDone(k2, t) <=> (GradsDone(k, t) \/ t = a)
      /\ \A t \in Tasks : HasBlock(t, c) /\ GradsDone(k, t) => t < a
  BY CubePipeIs
<1>2. CubeTyped(k) /\ VecTyped(c, v)
  BY DEF CubeSound, VecSound
<1>3. g2 = IF Told(a, c) THEN Up(g, a % 2) ELSE g
  BY <1>1 DEF ToldOf
<1>4. QED
  BY <1>1, <1>2, <1>3, CubeEndsGrads
-----------------------------------------------------------------------------
(* The pipe of an engine ends a task. *)
LEMMA VecPipeIs ==
  ASSUME NEW c, NEW v, NEW v2, NEW a, Len(rounds) \in Nat, VecSound(c, v), OneLess(v, v2), IsHead(a, v.pipe)
  PROVE  /\ VecSound(c, v2) /\ Begun(v2) = Begun(v) /\ Waited(v2) = Waited(v) /\ v2.taskId = v.taskId
         /\ v2.pc = v.pc /\ Passed(v2) = Passed(v)
         /\ a \in Tasks /\ HasBlock(a, c) /\ a < Begun(v) /\ ~MulDone(v, a)
         /\ \A t \in Tasks : MulDone(v2, t) <=> MulDone(v, t) \/ t = a
<1> DEFINE q == Tail(v.pipe)
<1>1. v \in VecRec /\ v.pipe \in Seq(Nat)
  BY DEF VecSound, VecTyped, VecRec
<1>2. PICK p \in Seq(Nat) : p = v.pipe
  BY <1>1
<1>0. p # <<>> /\ a = Head(p) /\ v2 = [v EXCEPT !.pipe = q]
  BY <1>2 DEF OneLess, IsHead
<1>3. /\ q \in Seq(Nat) /\ Len(p) \in Nat \ {0}
      /\ DOMAIN p = 1 .. Len(p) /\ DOMAIN q = 1 .. Len(p) - 1
      /\ \A i \in 1 .. Len(p) - 1 : q[i] = p[i + 1]
      /\ a = p[1]
  BY <1>0, <1>2, Tail1
<1> HIDE DEF q
<1>4. v2 \in VecRec /\ v2.pc = v.pc /\ v2.taskId = v.taskId /\ v2.extra = v.extra /\ v2.pipe = q
  BY <1>0, <1>1, <1>3 DEF VecRec
<1>5. /\ Begun(v2) = Begun(v) /\ Waited(v2) = Waited(v) /\ v2.pc = v.pc /\ v2.taskId = v.taskId
      /\ Passed(v2) = Passed(v)
  <2>1. Begun(v2) = Begun(v) /\ Waited(v2) = Waited(v)
    BY <1>4 DEF Begun, Waited
  <2>2. Passed(v2) = Passed(v)
    BY <1>4, Zenon DEF Passed
  <2>3. QED
    BY <1>4, <2>1, <2>2
<1>6. \A i \in DOMAIN p : HasBlock(p[i], c) /\ p[i] < Begun(v)
  BY <1>2 DEF VecSound, VecPipeSound
<1>7. \A i, j \in DOMAIN p : i # j => p[i] # p[j]
  BY <1>2 DEF VecSound, VecPipeSound
<1>8. HasBlock(a, c) /\ a < Begun(v) /\ a \in Tasks /\ InPipe(v, a)
  BY <1>2, <1>3, <1>6, Blocks, SMTT(30) DEF InPipe
<1>9. VecSound(c, v2)
  <2>1. VecTyped(c, v2)
    <3>1. v.pc \notin {"pre", "preSync"}
      BY <1>0, <1>2 DEF VecSound, VecTyped
    <3>2. QED
      BY <1>4, <3>1 DEF VecSound, VecTyped
  <2>2. \A i \in DOMAIN q : i + 1 \in DOMAIN p /\ q[i] = p[i + 1]
    BY <1>3
  <2>3. \A i \in DOMAIN q : HasBlock(q[i], c) /\ q[i] < Begun(v)
    BY <1>6, <2>2
  <2>4. \A i, j \in DOMAIN q : i # j => q[i] # q[j]
    BY <1>3, <1>7, <2>2
  <2>5. QED
    BY <1>4, <1>5, <2>1, <2>3, <2>4 DEF VecSound, VecPipeSound
<1>10. \A t \in Tasks : InPipe(v, t) <=> InPipe(v2, t) \/ t = a
  <2> SUFFICES ASSUME NEW t \in Tasks PROVE InPipe(v, t) <=> InPipe(v2, t) \/ t = a
    OBVIOUS
  <2>1. ASSUME InPipe(v, t) PROVE InPipe(v2, t) \/ t = a
    <3>1. PICK i \in DOMAIN p : p[i] = t
      BY <1>2, <2>1 DEF InPipe
    <3>2. CASE i = 1
      BY <1>3, <3>1, <3>2
    <3>3. CASE i # 1
      <4>1. i - 1 \in DOMAIN q /\ q[i - 1] = p[i]
        BY <1>3, <3>3
      <4>2. QED
        BY <1>4, <3>1, <4>1 DEF InPipe
    <3>4. QED
      BY <3>2, <3>3
  <2>2. ASSUME InPipe(v2, t) PROVE InPipe(v, t)
    <3>1. PICK i \in DOMAIN q : q[i] = t
      BY <1>4, <2>2 DEF InPipe
    <3>2. i + 1 \in DOMAIN p /\ p[i + 1] = q[i]
      BY <1>3
    <3>3. QED
      BY <1>2, <3>1, <3>2 DEF InPipe
  <2>3. QED
    BY <1>8, <2>1, <2>2
<1>11. ~InPipe(v2, a)
  <2> SUFFICES ASSUME NEW i \in DOMAIN q, q[i] = a PROVE FALSE
    BY <1>4 DEF InPipe
  <2>1. i + 1 \in DOMAIN p /\ p[i + 1] = p[1] /\ i + 1 # 1 /\ 1 \in DOMAIN p
    BY <1>3
  <2>2. QED
    BY <1>7, <2>1
<1>12. ~MulDone(v, a) /\ \A t \in Tasks : MulDone(v2, t) <=> MulDone(v, t) \/ t = a
  BY <1>5, <1>8, <1>10, <1>11 DEF MulDone
<1>13. QED
  BY <1>4, <1>5, <1>8, <1>9, <1>12

(* An engine that has begun its block, or had none, is at the wait or the    *)
(* barrier of the round, or in the next round.                               *)
NextRoundOf(v, v2) ==
  /\ v2 \in VecRec /\ v2.taskId = v.taskId + 1 /\ v2.extra = ExtraAt(v2.taskId) /\ v2.pipe = v.pipe
  /\ v2.pc = IF v2.taskId < EndTask THEN "loop" ELSE "postSync"
LEMMA NextRoundIs ==
  ASSUME NEW e, NEW v \in VecRec, Len(rounds) \in Nat,
         v.taskId >= 1, v.taskId < EndTask, v.extra = ExtraAt(v.taskId)
  PROVE  NextRoundOf(v, NextRound(v))
<1> DEFINE f == NextTask(v)
           z == IF f.extra >= 0 THEN "loop" ELSE "postSync"
<1>1. /\ f \in VecRec /\ f.pipe = v.pipe /\ f.taskId = v.taskId + 1 /\ f.extra = ExtraAt(v.taskId + 1)
  BY NextRecIs
<1>2. EndTask \in Nat /\ v.taskId \in Nat
  BY Ends DEF VecRec
<1>3. z = IF f.taskId < EndTask THEN "loop" ELSE "postSync"
  <2>1. PICK t \in Nat : t = v.taskId + 1 /\ t <= EndTask
    BY <1>2
  <2>2. f.extra >= 0 <=> t < EndTask
    BY <1>1, <2>1, ExtraLeft
  <2>3. QED
    BY <1>1, <2>1, <2>2
<1>4. NextRound(v) = [f EXCEPT !.pc = z]
  BY DEF NextRound
<1>5. z \in VecPc
  BY DEF VecPc
<1> HIDE DEF f, z
<1>6. [f EXCEPT !.pc = z] = [pc |-> z, taskId |-> f.taskId, extra |-> f.extra, pipe |-> f.pipe]
  BY <1>1 DEF VecRec
<1>7. QED
  BY <1>1, <1>3, <1>4, <1>5, <1>6 DEF NextRoundOf, VecRec

(* Where the counts stand in the next round. *)
LEMMA NextRoundCounts ==
  ASSUME NEW v, NEW v2, Len(rounds) \in Nat, NextRoundOf(v, v2), v.taskId \in Nat, v.taskId >= 1, v.taskId < EndTask
  PROVE  /\ Begun(v2) = v.taskId
         /\ Waited(v2) = IF launch.dtm THEN v.taskId - 1 ELSE v.taskId
         /\ Passed(v2) = IF launch.dtm THEN 2 * v.taskId - 1 ELSE 1
<1>1. v2.taskId = v.taskId + 1 /\ v2.pc \in {"loop", "postSync"}
  BY DEF NextRoundOf
<1>2. QED
  BY <1>1 DEF Begun, Waited, Passed

LEMMA NextRoundSound ==
  ASSUME NEW c, NEW v, NEW v2, Len(rounds) \in Nat, NextRoundOf(v, v2), v.taskId \in Nat, v.taskId >= 1,
         v.taskId < EndTask,
         \A i \in DOMAIN v.pipe : HasBlock(v.pipe[i], c) /\ v.pipe[i] < v.taskId,
         \A i, j \in DOMAIN v.pipe : i # j => v.pipe[i] # v.pipe[j]
  PROVE  VecSound(c, v2)
<1>1. Begun(v2) = v.taskId
  BY NextRoundCounts
<1>2. EndTask \in Nat
  BY Ends
<1>3. /\ v2 \in VecRec /\ v2.taskId = v.taskId + 1 /\ v2.extra = ExtraAt(v2.taskId) /\ v2.pipe = v.pipe
      /\ v2.pc = IF v2.taskId < EndTask THEN "loop" ELSE "postSync"
  BY DEF NextRoundOf
<1>4. VecTyped(c, v2)
  BY <1>2, <1>3 DEF VecTyped
<1>5. VecPipeSound(c, v2)
  BY <1>1, <1>3 DEF VecPipeSound
<1>6. QED
  BY <1>4, <1>5 DEF VecSound

IsAfterBlock(e, v, v2) == v2 = AfterBlock(e, v)
LEMMA AfterBlockIs ==
  ASSUME NEW e, NEW v \in VecRec, NEW v2, Len(rounds) \in Nat,
         v.taskId >= 1, v.taskId < EndTask, v.extra = ExtraAt(v.taskId),
         \A i \in DOMAIN v.pipe : HasBlock(v.pipe[i], e[1]) /\ v.pipe[i] < v.taskId,
         \A i, j \in DOMAIN v.pipe : i # j => v.pipe[i] # v.pipe[j],
         IsAfterBlock(e, v, v2)
  PROVE  /\ VecSound(e[1], v2) /\ Begun(v2) = v.taskId /\ v2.pipe = v.pipe /\ v2.pc \notin {"pre", "preSync"}
         /\ v2.taskId = v.taskId \/ v2.taskId = v.taskId + 1
         /\ Passed(v2) = IF launch.dtm /\ v.taskId > 1 THEN 2 * v.taskId - 3 ELSE 1
         /\ Waited(v2) \in Int
         /\ \A t \in Tasks : HasBlock(t, e[1]) /\ Told(t, e[1]) =>
              (t >= Waited(v2) <=> t >= IF launch.dtm THEN v.taskId - 2 ELSE v.taskId - 1)
<1>1. v.taskId \in Nat /\ EndTask \in Nat /\ v.pipe \in Seq(Nat) /\ \A t \in Tasks : t \in Nat
  BY Ends DEF VecRec
<1>2. CASE launch.dtm /\ v.taskId > 1
  <2>1. v2 = [v EXCEPT !.pc = "addWait"]
    BY <1>2 DEF AfterBlock, IsAfterBlock
  <2>2. v2 \in VecRec /\ v2.pc = "addWait" /\ v2.taskId = v.taskId /\ v2.extra = v.extra /\ v2.pipe = v.pipe
    BY <2>1 DEF VecRec, VecPc
  <2>3. Begun(v2) = v.taskId /\ Waited(v2) = v.taskId - 2 /\ Passed(v2) = 2 * v.taskId - 3
    BY <1>2, <2>2 DEF Begun, Waited, Passed
  <2>4. VecSound(e[1], v2)
    BY <1>1, <1>2, <2>2, <2>3 DEF VecSound, VecTyped, VecPipeSound
  <2>5. QED
    BY <1>1, <1>2, <2>2, <2>3, <2>4
<1>3. CASE ~launch.dtm /\ HasBlock(v.taskId - 1, e[1]) /\ ~HasBlock(v.taskId, e[1])
  <2>1. v2 = [v EXCEPT !.pc = "lastWait"]
    BY <1>3 DEF AfterBlock, IsAfterBlock
  <2>2. v2 \in VecRec /\ v2.pc = "lastWait" /\ v2.taskId = v.taskId /\ v2.extra = v.extra /\ v2.pipe = v.pipe
    BY <2>1 DEF VecRec, VecPc
  <2>3. Begun(v2) = v.taskId /\ Waited(v2) = v.taskId - 1 /\ Passed(v2) = 1
    BY <1>3, <2>2 DEF Begun, Waited, Passed
  <2>4. VecSound(e[1], v2)
    BY <1>1, <1>3, <2>2, <2>3 DEF VecSound, VecTyped, VecPipeSound
  <2>5. QED
    BY <1>1, <1>3, <2>2, <2>3, <2>4
<1>4. CASE ~(launch.dtm /\ v.taskId > 1) /\ ~(~launch.dtm /\ HasBlock(v.taskId - 1, e[1]) /\ ~HasBlock(v.taskId, e[1]))
  <2>1. v2 = NextRound(v)
    BY <1>4 DEF AfterBlock, IsAfterBlock
  <2>2. NextRoundOf(v, v2)
    BY <2>1, NextRoundIs
  <2>3. VecSound(e[1], v2)
    BY <1>1, <2>2, NextRoundSound
  <2>4. /\ Begun(v2) = v.taskId
        /\ Waited(v2) = IF launch.dtm THEN v.taskId - 1 ELSE v.taskId
        /\ Passed(v2) = IF launch.dtm THEN 2 * v.taskId - 1 ELSE 1
    BY <1>1, <2>2, NextRoundCounts
  <2>5. v2.taskId = v.taskId + 1 /\ v2.pipe = v.pipe /\ v2.pc \notin {"pre", "preSync"}
    BY <2>2 DEF NextRoundOf
  <2>6. ASSUME NEW t \in Tasks, HasBlock(t, e[1]), Told(t, e[1])
        PROVE  t >= Waited(v2) <=> t >= IF launch.dtm THEN v.taskId - 2 ELSE v.taskId - 1
    <3>1. CASE launch.dtm
      BY <1>1, <1>4, <2>4, <3>1
    <3>2. CASE ~launch.dtm
      <4>1. t # v.taskId - 1
        <5> SUFFICES ASSUME t = v.taskId - 1 PROVE FALSE
          OBVIOUS
        <5>1. t + 1 = v.taskId
          BY <1>1
        <5>2. QED
          BY <1>4, <2>6, <3>2, <5>1 DEF Told
      <4>2. QED
        BY <1>1, <2>4, <3>2, <4>1
    <3>3. QED
      BY <3>1, <3>2
  <2>7. /\ Passed(v2) = IF launch.dtm /\ v.taskId > 1 THEN 2 * v.taskId - 3 ELSE 1
        /\ Waited(v2) \in Int
    <3>1. CASE launch.dtm
      <4>1. v.taskId = 1
        BY <1>1, <1>4, <3>1
      <4>2. QED
        BY <2>4, <3>1, <4>1
    <3>2. CASE ~launch.dtm
      BY <1>1, <2>4, <3>2
    <3>3. QED
      BY <3>1, <3>2
  <2>8. QED
    BY <2>3, <2>4, <2>5, <2>6, <2>7
<1>5. QED
  BY <1>2, <1>3, <1>4

(* An engine begins its block, or passes over a hole. *)
VecBlockOf(e, v) == AfterBlock(e, [v EXCEPT !.pipe = Append(v.pipe, v.taskId - 1)])
LEMMA VecBlockIs ==
  ASSUME NEW e, NEW v, NEW v2, Len(rounds) \in Nat, VecSound(e[1], v), v.pc = "loop",
         v2 = IF HasBlock(v.taskId - 1, e[1]) THEN VecBlockOf(e, v) ELSE AfterBlock(e, v)
  PROVE  /\ VecSound(e[1], v2) /\ Begun(v2) = Begun(v) + 1 /\ Begun(v) = v.taskId - 1
         /\ v2.taskId = v.taskId \/ v2.taskId = v.taskId + 1
         /\ Passed(v2) = Passed(v) /\ Waited(v2) \in Int /\ v2.pc # "pre"
         /\ \A t \in Tasks : HasBlock(t, e[1]) => /\ MulDone(v2, t) <=> MulDone(v, t)
                                                  /\ Told(t, e[1]) => (t >= Waited(v2) <=> t >= Waited(v))
<1> DEFINE b == v.taskId - 1
           q == IF HasBlock(b, e[1]) THEN Append(v.pipe, b) ELSE v.pipe
           u == [v EXCEPT !.pipe = q]
<1>1. /\ v \in VecRec /\ v.taskId \in Nat /\ v.taskId >= 1 /\ v.taskId < EndTask
      /\ v.extra = ExtraAt(v.taskId) /\ v.pipe \in Seq(Nat) /\ b \in Nat
  BY Ends DEF VecSound, VecTyped, VecRec
<1>2. Begun(v) = b /\ Waited(v) = IF launch.dtm THEN v.taskId - 2 ELSE v.taskId - 1
  BY DEF Begun, Waited
<1>3. Passed(v) = IF launch.dtm /\ v.taskId > 1 THEN 2 * v.taskId - 3 ELSE 1
  BY DEF Passed
<1>4. IsAfterBlock(e, u, v2)
  <2>1. CASE HasBlock(b, e[1])
    BY <2>1 DEF VecBlockOf, IsAfterBlock
  <2>2. CASE ~HasBlock(b, e[1])
    <3>1. u = v
      BY <1>1, <2>2 DEF VecRec
    <3>2. QED
      BY <2>2, <3>1 DEF IsAfterBlock
  <2>3. QED
    BY <2>1, <2>2
<1>5. \A i \in DOMAIN v.pipe : HasBlock(v.pipe[i], e[1]) /\ v.pipe[i] < b /\ v.pipe[i] \in Nat
  BY <1>1, <1>2 DEF VecSound, VecPipeSound
<1>6. \A i, j \in DOMAIN v.pipe : i # j => v.pipe[i] # v.pipe[j]
  BY DEF VecSound, VecPipeSound
<1>7. /\ q \in Seq(Nat)
      /\ \A i \in DOMAIN q : HasBlock(q[i], e[1]) /\ q[i] < v.taskId
      /\ \A i, j \in DOMAIN q : i # j => q[i] # q[j]
      /\ \A t : (\E i \in DOMAIN q : q[i] = t) <=> (\E i \in DOMAIN v.pipe : v.pipe[i] = t) \/ (t = b /\ HasBlock(b, e[1]))
  <2>1. CASE HasBlock(b, e[1])
    <3>1. /\ q \in Seq(Nat) /\ Len(v.pipe) \in Nat
          /\ DOMAIN v.pipe = 1 .. Len(v.pipe) /\ DOMAIN q = 1 .. Len(v.pipe) + 1
          /\ \A i \in DOMAIN v.pipe : q[i] = v.pipe[i]
          /\ q[Len(v.pipe) + 1] = b
      BY <1>1, <2>1
    <3> HIDE DEF q, b
    <3>2. \A i \in DOMAIN q : i \in DOMAIN v.pipe \/ i = Len(v.pipe) + 1
      BY <3>1
    <3>3. /\ \A i \in DOMAIN v.pipe : i \in DOMAIN q
          /\ Len(v.pipe) + 1 \in DOMAIN q
      BY <3>1
    <3>4. \A i \in DOMAIN q : HasBlock(q[i], e[1]) /\ q[i] < v.taskId
      <4>1. b < v.taskId
        BY <1>1 DEF b
      <4>2. SUFFICES ASSUME NEW i \in DOMAIN q PROVE HasBlock(q[i], e[1]) /\ q[i] < v.taskId
        OBVIOUS
      <4>3. CASE i \in DOMAIN v.pipe
        <5>1. q[i] = v.pipe[i] /\ HasBlock(v.pipe[i], e[1]) /\ v.pipe[i] < b /\ v.pipe[i] \in Nat
          BY <1>5, <3>1, <4>3
        <5>2. QED
          BY <1>1, <4>1, <5>1
      <4>4. CASE i = Len(v.pipe) + 1
        BY <2>1, <3>1, <4>1, <4>4
      <4>5. QED
        BY <3>2, <4>3, <4>4
    <3>5. \A i, j \in DOMAIN q : i # j => q[i] # q[j]
      <4>1. \A i \in DOMAIN v.pipe : v.pipe[i] # b
        BY <1>1, <1>5
      <4>2. QED
        BY <1>6, <3>1, <3>2, <4>1
    <3>6. QED
      BY <2>1, <3>1, <3>2, <3>3, <3>4, <3>5
  <2>2. CASE ~HasBlock(b, e[1])
    BY <1>1, <1>5, <1>6, <2>2
  <2>3. QED
    BY <2>1, <2>2
<1> HIDE DEF q
<1>8. u \in VecRec /\ u.taskId = v.taskId /\ u.extra = v.extra /\ u.pipe = q
  BY <1>1, <1>7 DEF VecRec
<1> HIDE DEF u
<1>9. /\ VecSound(e[1], v2) /\ Begun(v2) = v.taskId /\ v2.pipe = q /\ v2.pc \notin {"pre", "preSync"}
      /\ v2.taskId = v.taskId \/ v2.taskId = v.taskId + 1
      /\ Passed(v2) = IF launch.dtm /\ v.taskId > 1 THEN 2 * v.taskId - 3 ELSE 1
      /\ Waited(v2) \in Int
      /\ \A t \in Tasks : HasBlock(t, e[1]) /\ Told(t, e[1]) =>
           (t >= Waited(v2) <=> t >= IF launch.dtm THEN v.taskId - 2 ELSE v.taskId - 1)
  BY <1>1, <1>4, <1>7, <1>8, AfterBlockIs, SMTT(30)
<1>10. ASSUME NEW t \in Tasks, HasBlock(t, e[1]) PROVE MulDone(v2, t) <=> MulDone(v, t)
  <2>1. t \in Nat /\ (InPipe(v2, t) <=> InPipe(v, t) \/ (t = b /\ HasBlock(b, e[1])))
    <3>1. InPipe(v2, t) <=> \E i \in DOMAIN q : q[i] = t
      BY <1>9 DEF InPipe
    <3>2. InPipe(v, t) <=> \E i \in DOMAIN v.pipe : v.pipe[i] = t
      BY DEF InPipe
    <3>3. (\E i \in DOMAIN q : q[i] = t) <=> (\E i \in DOMAIN v.pipe : v.pipe[i] = t) \/ (t = b /\ HasBlock(b, e[1]))
      BY <1>7
    <3>4. QED
      BY <3>1, <3>2, <3>3, Ends
  <2>2. QED
    BY <1>1, <1>2, <1>9, <1>10, <2>1 DEF MulDone
<1>11. QED
  BY <1>1, <1>2, <1>3, <1>9, <1>10

(* The waits of an engine, and its steps between them. *)
LEMMA VecLastWaitIs ==
  ASSUME NEW e, NEW v, NEW v2, Len(rounds) \in Nat, VecSound(e[1], v), v.pc = "lastWait", v2 = NextRound(v)
  PROVE  /\ VecSound(e[1], v2) /\ Begun(v2) = Begun(v) /\ Waited(v2) = Waited(v) + 1 /\ Waited(v) = v.taskId - 1
         /\ v2.taskId = v.taskId + 1 /\ Passed(v2) = Passed(v) /\ v2.pc # "pre"
         /\ HasBlock(Waited(v), e[1]) /\ Told(Waited(v), e[1])
         /\ \A t \in Tasks : MulDone(v2, t) <=> MulDone(v, t)
<1>1. /\ v \in VecRec /\ v.taskId \in Nat /\ v.taskId >= 1 /\ v.taskId < EndTask /\ v.extra = ExtraAt(v.taskId)
      /\ ~launch.dtm /\ HasBlock(v.taskId - 1, e[1]) /\ ~HasBlock(v.taskId, e[1])
  BY Ends DEF VecSound, VecTyped, VecRec
<1>2. Begun(v) = v.taskId /\ Waited(v) = v.taskId - 1 /\ Passed(v) = 1
  BY <1>1 DEF Begun, Waited, Passed
<1>3. NextRoundOf(v, v2)
  BY <1>1, NextRoundIs
<1>4. VecSound(e[1], v2)
  <2>1. /\ \A i \in DOMAIN v.pipe : HasBlock(v.pipe[i], e[1]) /\ v.pipe[i] < v.taskId
        /\ \A i, j \in DOMAIN v.pipe : i # j => v.pipe[i] # v.pipe[j]
    BY <1>2 DEF VecSound, VecPipeSound
  <2>2. QED
    BY <1>1, <1>3, <2>1, NextRoundSound
<1>5. /\ Begun(v2) = v.taskId /\ Waited(v2) = v.taskId /\ Passed(v2) = 1
      /\ v2.taskId = v.taskId + 1 /\ v2.pipe = v.pipe /\ v2.pc # "pre"
  BY <1>1, <1>3, NextRoundCounts DEF NextRoundOf
<1>6. Told(v.taskId - 1, e[1])
  <2>1. (v.taskId - 1) + 1 = v.taskId
    BY <1>1
  <2>2. QED
    BY <1>1, <2>1 DEF Told
<1>7. \A t \in Tasks : MulDone(v2, t) <=> MulDone(v, t)
  BY <1>2, <1>5 DEF MulDone, InPipe
<1>8. QED
  BY <1>1, <1>2, <1>4, <1>5, <1>6, <1>7

(* A step that changes only where the engine is. *)
MovesTo(v, v2, pc) == v2 = [v EXCEPT !.pc = pc]
LEMMA VecMovesIs ==
  ASSUME NEW c, NEW v, NEW v2, NEW pc \in VecPc, Len(rounds) \in Nat, VecSound(c, v), MovesTo(v, v2, pc)
  PROVE  /\ v2 \in VecRec /\ v2.pc = pc /\ v2.taskId = v.taskId /\ v2.extra = v.extra /\ v2.pipe = v.pipe
         /\ v.taskId \in Nat /\ v.taskId >= 1
         /\ (Begun(v2) = Begun(v) /\ VecTyped(c, v2)) =>
              VecSound(c, v2) /\ \A t \in Tasks : MulDone(v2, t) <=> MulDone(v, t)
<1>1. v \in VecRec /\ v.taskId \in Nat /\ v.taskId >= 1
  BY Ends DEF VecSound, VecTyped, VecRec
<1>2. v2 \in VecRec /\ v2.pc = pc /\ v2.taskId = v.taskId /\ v2.extra = v.extra /\ v2.pipe = v.pipe
  BY <1>1 DEF VecRec, MovesTo
<1>3. ASSUME Begun(v2) = Begun(v), VecTyped(c, v2) PROVE VecSound(c, v2)
  BY <1>2, <1>3 DEF VecSound, VecPipeSound
<1>4. ASSUME Begun(v2) = Begun(v) PROVE \A t \in Tasks : MulDone(v2, t) <=> MulDone(v, t)
  BY <1>2, <1>4 DEF MulDone, InPipe
<1>5. QED
  BY <1>1, <1>2, <1>3, <1>4

LEMMA VecAddWaitIs ==
  ASSUME NEW c, NEW v, NEW v2, Len(rounds) \in Nat, VecSound(c, v), v.pc = "addWait", MovesTo(v, v2, v2.pc),
         v2.pc = "addSync"
  PROVE  /\ VecSound(c, v2) /\ Begun(v2) = Begun(v) /\ Waited(v2) = Waited(v) + 1 /\ Waited(v) = v.taskId - 2
         /\ v2.taskId = v.taskId /\ Passed(v2) = Passed(v) /\ v2.pc # "pre" /\ launch.dtm
         /\ \A t \in Tasks : MulDone(v2, t) <=> MulDone(v, t)
<1>1. /\ v2 \in VecRec /\ v2.pc = "addSync" /\ v2.taskId = v.taskId /\ v2.extra = v.extra /\ v2.pipe = v.pipe
      /\ v.taskId \in Nat /\ v.taskId >= 1
      /\ (Begun(v2) = Begun(v) /\ VecTyped(c, v2)) =>
           VecSound(c, v2) /\ \A t \in Tasks : MulDone(v2, t) <=> MulDone(v, t)
  <2>1. "addSync" \in VecPc
    BY DEF VecPc
  <2>2. QED
    BY <2>1, VecMovesIs
<1>2. VecTyped(c, v2) /\ launch.dtm
  BY <1>1 DEF VecSound, VecTyped
<1>3. Begun(v2) = Begun(v) /\ Waited(v) = v.taskId - 2 /\ Waited(v2) = v.taskId - 1
  BY <1>1, <1>2 DEF Begun, Waited
<1>4. Passed(v2) = Passed(v)
  BY <1>1 DEF Passed
<1>5. QED
  BY <1>1, <1>2, <1>3, <1>4

Moves == {<<"pre", "preSync">>, <<"add", "roundSync">>, <<"post", "done">>}
LEMMA VecGoesIs ==
  ASSUME NEW c, NEW v, NEW v2, Len(rounds) \in Nat, VecSound(c, v), <<v.pc, v2.pc>> \in Moves,
         MovesTo(v, v2, v2.pc)
  PROVE  /\ VecSound(c, v2) /\ Begun(v2) = Begun(v) /\ Waited(v2) = Waited(v)
         /\ v2.taskId = v.taskId /\ Passed(v2) = Passed(v) /\ v2.pc # "pre"
         /\ \A t \in Tasks : MulDone(v2, t) <=> MulDone(v, t)
<1>1. (v.pc = "pre" /\ v2.pc = "preSync") \/ (v.pc = "add" /\ v2.pc = "roundSync") \/ (v.pc = "post" /\ v2.pc = "done")
  BY DEF Moves
<1>2. /\ v2 \in VecRec /\ v2.taskId = v.taskId /\ v2.extra = v.extra /\ v2.pipe = v.pipe
      /\ v.taskId \in Nat /\ v.taskId >= 1
      /\ (Begun(v2) = Begun(v) /\ VecTyped(c, v2)) =>
           VecSound(c, v2) /\ \A t \in Tasks : MulDone(v2, t) <=> MulDone(v, t)
  <2>1. v2.pc \in VecPc
    BY <1>1 DEF VecPc
  <2>2. QED
    BY <2>1, VecMovesIs
<1>3. VecTyped(c, v2)
  BY <1>1, <1>2 DEF VecSound, VecTyped
<1>4. Begun(v2) = Begun(v) /\ Waited(v2) = Waited(v)
  BY <1>1, <1>2 DEF Begun, Waited
<1>5. Passed(v2) = Passed(v)
  BY <1>1, <1>2 DEF Passed
<1>6. QED
  BY <1>1, <1>2, <1>3, <1>4, <1>5

(* The barrier of the engines opens. *)
IsAfterSync(v, v2) == v2 = AfterSync(v)
LEMMA VecSyncIs ==
  ASSUME NEW c, NEW v, NEW v2, Len(rounds) \in Nat, VecSound(c, v),
         v.pc \in {"preSync", "addSync", "roundSync", "postSync"}, IsAfterSync(v, v2)
  PROVE  /\ VecSound(c, v2) /\ Begun(v2) = Begun(v) /\ Waited(v2) = Waited(v)
         /\ v2.taskId = v.taskId \/ v2.taskId = v.taskId + 1
         /\ Passed(v) \in Nat /\ Passed(v2) = Passed(v) + 1 /\ v2.pc # "pre"
         /\ \A t \in Tasks : MulDone(v2, t) <=> MulDone(v, t)
<1>1. v \in VecRec /\ v.taskId \in Nat /\ v.taskId >= 1 /\ v.extra = ExtraAt(v.taskId) /\ EndTask \in Nat /\ EndTask > 2
      /\ (launch.dtm => EndTask > 3)
  BY Ends DEF VecSound, VecTyped, VecRec, Extra
<1>2. CASE v.pc = "roundSync"
  <2>1. v2 = NextRound(v)
    BY <1>2 DEF AfterSync, IsAfterSync
  <2>2. v.taskId < EndTask /\ launch.dtm /\ v.taskId > 1
    BY <1>2 DEF VecSound, VecTyped
  <2>3. NextRoundOf(v, v2)
    BY <1>1, <2>1, <2>2, NextRoundIs
  <2>4. Begun(v) = v.taskId /\ Waited(v) = v.taskId - 1 /\ Passed(v) = 2 * v.taskId - 2
    BY <1>2, <2>2 DEF Begun, Waited, Passed
  <2>5. VecSound(c, v2)
    <3>1. /\ \A i \in DOMAIN v.pipe : HasBlock(v.pipe[i], c) /\ v.pipe[i] < v.taskId
          /\ \A i, j \in DOMAIN v.pipe : i # j => v.pipe[i] # v.pipe[j]
      BY <2>4 DEF VecSound, VecPipeSound
    <3>2. QED
      BY <1>1, <2>2, <2>3, <3>1, NextRoundSound
  <2>6. /\ Begun(v2) = v.taskId /\ Waited(v2) = v.taskId - 1 /\ Passed(v2) = 2 * v.taskId - 1
        /\ v2.taskId = v.taskId + 1 /\ v2.pipe = v.pipe /\ v2.pc # "pre"
    BY <1>1, <2>2, <2>3, NextRoundCounts DEF NextRoundOf
  <2>7. \A t \in Tasks : MulDone(v2, t) <=> MulDone(v, t)
    BY <2>4, <2>6 DEF MulDone, InPipe
  <2>8. QED
    BY <1>1, <2>2, <2>4, <2>5, <2>6, <2>7
<1>3. CASE v.pc # "roundSync"
  <2>1. PICK pc \in VecPc : /\ MovesTo(v, v2, pc)
                            /\ \/ v.pc = "preSync" /\ pc = "loop"
                               \/ v.pc = "addSync" /\ pc = "add"
                               \/ v.pc = "postSync" /\ pc = "post"
    BY <1>3 DEF AfterSync, IsAfterSync, VecPc, MovesTo
  <2>2. /\ v2 \in VecRec /\ v2.pc = pc /\ v2.taskId = v.taskId /\ v2.extra = v.extra /\ v2.pipe = v.pipe
        /\ (Begun(v2) = Begun(v) /\ VecTyped(c, v2)) =>
             VecSound(c, v2) /\ \A t \in Tasks : MulDone(v2, t) <=> MulDone(v, t)
    BY <2>1, VecMovesIs
  <2>3. VecTyped(c, v2)
    BY <1>1, <2>1, <2>2 DEF VecSound, VecTyped
  <2>4. Begun(v2) = Begun(v) /\ Waited(v2) = Waited(v)
    BY <2>1, <2>2 DEF Begun, Waited
  <2>5. Passed(v) \in Nat /\ Passed(v2) = Passed(v) + 1
    <3>1. v.pc = "addSync" => launch.dtm /\ v.taskId > 1
      BY DEF VecSound, VecTyped
    <3>2. v.pc = "postSync" => v.taskId = EndTask
      BY DEF VecSound, VecTyped
    <3>3. v.pc = "preSync" => v.taskId = 1
      BY DEF VecSound, VecTyped
    <3>4. CASE v.pc = "preSync"
      BY <2>1, <2>2, <3>3, <3>4 DEF Passed
    <3>5. CASE v.pc = "addSync"
      BY <1>1, <2>1, <2>2, <3>1, <3>5 DEF Passed
    <3>6. CASE v.pc = "postSync"
      BY <1>1, <2>1, <2>2, <3>2, <3>6 DEF Passed
    <3>7. QED
      BY <2>1, <3>4, <3>5, <3>6
  <2>6. QED
    BY <2>1, <2>2, <2>3, <2>4, <2>5
<1>4. QED
  BY <1>2, <1>3
-----------------------------------------------------------------------------
(* While engines work the plan stays as it is, and so does what it says.     *)
LEMMA PlanStays ==
  ASSUME UNCHANGED blockVars
  PROVE  /\ \A t, c : HasBlock(t, c)' <=> HasBlock(t, c)
         /\ \A t, c : Told(t, c)' = Told(t, c)
         /\ \A grad, x : Direct(grad, x)' <=> Direct(grad, x)
         /\ Tasks' = Tasks /\ EndTask' = EndTask
         /\ \A t : ExtraAt(t)' = ExtraAt(t)
<1>1. launch' = launch /\ rounds' = rounds
  BY DEF blockVars
<1>2. \A t : RoundAt(t)' = RoundAt(t)
  BY <1>1 DEF RoundAt, NoBlocksFrom
<1>3. \A t, c : HasBlock(t, c)' <=> HasBlock(t, c)
  BY <1>1, <1>2 DEF HasBlock
<1>4. \A t, c : Told(t, c)' = Told(t, c)
  BY <1>1, <1>3 DEF Told
<1>5. \A grad, x : Direct(grad, x)' <=> Direct(grad, x)
  BY <1>2 DEF Direct, GroupId, BlockAt
<1>6. Tasks' = Tasks /\ LastTask' = LastTask /\ Extra' = Extra
  BY <1>1 DEF Tasks, LastTask, Extra
<1>7. EndTask' = EndTask /\ \A t : ExtraAt(t)' = ExtraAt(t)
  BY <1>6 DEF EndTask, ExtraAt
<1>8. QED
  BY <1>3, <1>4, <1>5, <1>6, <1>7

LEMMA CubeStays ==
  ASSUME UNCHANGED blockVars
  PROVE  \A c, k : CubeSound(c, k)' <=> CubeSound(c, k)
<1>1. launch' = launch
  BY DEF blockVars
<1>2. \A c, k : CubeTyped(k)' <=> CubeTyped(k)
  BY <1>1, PlanStays DEF CubeTyped
<1>3. \A c, pipe, issued, graded, o : PipeOp(c, pipe, issued, graded, o)' <=> PipeOp(c, pipe, issued, graded, o)
  BY PlanStays DEF PipeOp
<1>4. \A c, pipe, issued, graded : PipeSound(c, pipe, issued, graded)' <=> PipeSound(c, pipe, issued, graded)
  BY <1>3 DEF PipeSound
<1>5. \A c, k : CubePipeSound(c, k)' <=> CubePipeSound(c, k)
  BY <1>4 DEF CubePipeSound
<1>6. QED
  BY <1>2, <1>5 DEF CubeSound

LEMMA VecStays ==
  ASSUME UNCHANGED blockVars
  PROVE  /\ \A v : Passed(v)' = Passed(v) /\ Waited(v)' = Waited(v)
         /\ \A c, v : VecSound(c, v)' <=> VecSound(c, v)
<1>1. launch' = launch
  BY DEF blockVars
<1>2. \A c, v : VecTyped(c, v)' <=> VecTyped(c, v)
  BY <1>1, PlanStays DEF VecTyped
<1>3. \A c, v : VecPipeSound(c, v)' <=> VecPipeSound(c, v)
  BY PlanStays DEF VecPipeSound
<1>4. \A v : Passed(v)' = Passed(v) /\ Waited(v)' = Waited(v)
  BY <1>1 DEF Passed, Waited
<1>5. QED
  BY <1>2, <1>3, <1>4 DEF VecSound

LEMMA EngineStays ==
  ASSUME UNCHANGED blockVars
  PROVE  \A c, k, v, s, m, g, w, d : EngineSound(c, k, v, s, m, g, w, d)' <=> EngineSound(c, k, v, s, m, g, w, d)
<1>1. launch' = launch
  BY DEF blockVars
<1>2. \A c, k, v : Ordered(c, k, v)' <=> Ordered(c, k, v)
  <2>1. \A c, k, v : AfterScores(c, k, v)' <=> AfterScores(c, k, v)
    BY PlanStays DEF AfterScores
  <2>2. \A c, k, v : AfterMul(c, k, v)' <=> AfterMul(c, k, v)
    BY PlanStays DEF AfterMul
  <2>3. \A c, k, v : AfterGrads(c, k, v)' <=> AfterGrads(c, k, v)
    BY PlanStays, VecStays DEF AfterGrads
  <2>4. QED
    BY <2>1, <2>2, <2>3 DEF Ordered
<1>3. \A c, k, v, s, m, g : FlagsRight(c, k, v, s, m, g)' <=> FlagsRight(c, k, v, s, m, g)
  <2>1. \A c, k, v, t : /\ ScoresDue(c, k, v, t)' <=> ScoresDue(c, k, v, t)
                        /\ MulDue(c, k, v, t)' <=> MulDue(c, k, v, t)
                        /\ GradsDue(c, k, v, t)' <=> GradsDue(c, k, v, t)
    BY PlanStays, VecStays DEF ScoresDue, MulDue, GradsDue
  <2>2. \A c, k, v, s : ScoresFlag(c, k, v, s)' <=> ScoresFlag(c, k, v, s)
    BY <2>1, PlanStays DEF ScoresFlag
  <2>3. \A c, k, v, m : MulFlag(c, k, v, m)' <=> MulFlag(c, k, v, m)
    BY <2>1, PlanStays DEF MulFlag
  <2>4. \A c, k, v, g : GradsFlag(c, k, v, g)' <=> GradsFlag(c, k, v, g)
    BY <2>1, PlanStays DEF GradsFlag
  <2>5. QED
    BY <2>2, <2>3, <2>4 DEF FlagsRight
<1>4. \A c, k, v, w, d : Held(c, k, v, w, d)' <=> Held(c, k, v, w, d)
  <2>1. \A c, k, v, w : ScoresHeld(c, k, v, w)' <=> ScoresHeld(c, k, v, w)
    BY PlanStays DEF ScoresHeld
  <2>2. \A c, k, v, w : MulHeld(c, k, v, w)' <=> MulHeld(c, k, v, w)
    BY PlanStays DEF MulHeld
  <2>3. \A c, k, v, d : ProductsHeld(c, k, v, d)' <=> ProductsHeld(c, k, v, d)
    BY <1>1, PlanStays DEF ProductsHeld
  <2>4. QED
    BY <2>1, <2>2, <2>3 DEF Held
<1>5. QED
  BY <1>2, <1>3, <1>4 DEF EngineSound

(* So the invariant holds behind a step if the parts hold of what is new.    *)
WsNext(e) == [p \in Parity |-> ws'[e[1]][p][e[2]]]
EngineNext(e) ==
  EngineSound(e[1], cube'[e[1]], vec'[e], flags'[C1_V1][e], flags'[V1_C2][e], flags'[C2_V1][e], WsNext(e), dtmWs'[e[1]])
PipesNext ==
  /\ cube' \in [Core -> CubeRec] /\ vec' \in [Vec -> VecRec]
  /\ FlagsTyped(flags') /\ WsTyped(ws') /\ DtmTyped(dtmWs')
  /\ \A c \in Core : CubeSound(c, cube'[c])
  /\ \A e \in Vec : VecSound(e[1], vec'[e]) /\ EngineNext(e)
  /\ \A e, f \in Vec : Passed(vec'[e]) = Passed(vec'[f])
  /\ zeroed' \subseteq Vec
  /\ \A e \in Vec : /\ vec'[e].pc # "pre" => e \in zeroed'
                    /\ Passed(vec'[e]) > 0 => zeroed' = Vec
LEMMA Behind ==
  ASSUME UNCHANGED blockVars, PipesNext
  PROVE  PipesInv'
<1>1. Shapes'
  BY DEF PipesNext, Shapes, FlagsTyped, WsTyped, DtmTyped
<1>2. \A c \in Core : CubeSound(c, cube[c])'
  BY CubeStays DEF PipesNext
<1>3. \A e \in Vec : VecSound(e[1], vec[e])'
  BY VecStays DEF PipesNext
<1>4. \A e \in Vec : EngineInv(e)'
  BY EngineStays DEF PipesNext, EngineNext, EngineInv, WsNext, WsOf
<1>5. Together'
  BY VecStays DEF PipesNext, Together
<1>6. Cleared'
  BY VecStays DEF PipesNext, Cleared
<1>7. QED
  BY <1>1, <1>2, <1>3, <1>4, <1>5, <1>6 DEF PipesInv
-----------------------------------------------------------------------------
(* What SetFor and Take do to the flags of an engine. *)
LEMMA SetForIs ==
  ASSUME FlagsTyped(flags), NEW f \in Flag, NEW engines, NEW p \in Parity
  PROVE  /\ FlagsTyped(SetFor(f, engines, p))
         /\ \A h \in Flag, e \in Vec :
              SetFor(f, engines, p)[h][e] = IF h = f /\ e \in engines THEN Up(flags[h][e], p) ELSE flags[h][e]
<1>1. \A h \in Flag, e \in Vec : flags[h][e] \in [Parity -> Int] /\ flags[h] \in [Vec -> [Parity -> Int]]
  BY DEF FlagsTyped
<1>2. ASSUME NEW h \in Flag, NEW e \in Vec
      PROVE  /\ SetFor(f, engines, p)[h][e] = IF h = f /\ e \in engines THEN Up(flags[h][e], p) ELSE flags[h][e]
             /\ SetFor(f, engines, p)[h][e] \in [Parity -> Int]
  <2>1. SetFor(f, engines, p)[h] = IF h = f THEN [x \in Vec |-> [q \in Parity |->
                            flags[f][x][q] + IF x \in engines /\ q = p THEN 1 ELSE 0]] ELSE flags[h]
    BY <1>2 DEF SetFor, FlagsTyped
  <2>2. CASE h = f
    <3>1. SetFor(f, engines, p)[h][e] = [q \in Parity |-> flags[h][e][q] + IF e \in engines /\ q = p THEN 1 ELSE 0]
      BY <2>1, <2>2
    <3>2. CASE e \in engines
      BY <1>1, <2>2, <3>1, <3>2 DEF Up
    <3>3. CASE e \notin engines
      <4>1. \A q \in Parity : flags[h][e][q] + (IF e \in engines /\ q = p THEN 1 ELSE 0) = flags[h][e][q]
        BY <1>1, <3>3
      <4>2. flags[h][e] = [q \in Parity |-> flags[h][e][q]]
        BY <1>1
      <4>3. QED
        BY <1>1, <3>1, <3>3, <4>1, <4>2
    <3>4. QED
      BY <3>2, <3>3
  <2>3. CASE h # f
    BY <1>1, <2>1, <2>3
  <2>4. QED
    BY <2>2, <2>3
<1>3. FlagsTyped(SetFor(f, engines, p))
  <2>1. SetFor(f, engines, p) = [flags EXCEPT ![f] = SetFor(f, engines, p)[f]]
    BY DEF SetFor, FlagsTyped
  <2>2. SetFor(f, engines, p)[f] = [e \in Vec |-> SetFor(f, engines, p)[f][e]]
    BY DEF SetFor, FlagsTyped
  <2>3. SetFor(f, engines, p)[f] \in [Vec -> [Parity -> Int]]
    BY <1>2, <2>2
  <2>4. QED
    BY <2>1, <2>3 DEF FlagsTyped
<1>4. QED
  BY <1>2, <1>3

LEMMA TakeIs ==
  ASSUME FlagsTyped(flags), NEW f \in Flag, NEW engines, NEW p \in Parity
  PROVE  /\ FlagsTyped(Take(f, engines, p))
         /\ \A h \in Flag, e \in Vec :
              Take(f, engines, p)[h][e] = IF h = f /\ e \in engines THEN Down(flags[h][e], p) ELSE flags[h][e]
<1>1. \A h \in Flag, e \in Vec : flags[h][e] \in [Parity -> Int] /\ flags[h] \in [Vec -> [Parity -> Int]]
  BY DEF FlagsTyped
<1>2. ASSUME NEW h \in Flag, NEW e \in Vec
      PROVE  /\ Take(f, engines, p)[h][e] = IF h = f /\ e \in engines THEN Down(flags[h][e], p) ELSE flags[h][e]
             /\ Take(f, engines, p)[h][e] \in [Parity -> Int]
  <2>1. Take(f, engines, p)[h] = IF h = f THEN [x \in Vec |-> [q \in Parity |->
                            flags[f][x][q] - IF x \in engines /\ q = p THEN 1 ELSE 0]] ELSE flags[h]
    BY <1>2 DEF Take, FlagsTyped
  <2>2. CASE h = f
    <3>1. Take(f, engines, p)[h][e] = [q \in Parity |-> flags[h][e][q] - IF e \in engines /\ q = p THEN 1 ELSE 0]
      BY <2>1, <2>2
    <3>2. CASE e \in engines
      BY <1>1, <2>2, <3>1, <3>2 DEF Down
    <3>3. CASE e \notin engines
      <4>1. \A q \in Parity : flags[h][e][q] - (IF e \in engines /\ q = p THEN 1 ELSE 0) = flags[h][e][q]
        BY <1>1, <3>3
      <4>2. flags[h][e] = [q \in Parity |-> flags[h][e][q]]
        BY <1>1
      <4>3. QED
        BY <1>1, <3>1, <3>3, <4>1, <4>2
    <3>4. QED
      BY <3>2, <3>3
  <2>3. CASE h # f
    BY <1>1, <2>1, <2>3
  <2>4. QED
    BY <2>2, <2>3
<1>3. FlagsTyped(Take(f, engines, p))
  <2>1. Take(f, engines, p) = [flags EXCEPT ![f] = Take(f, engines, p)[f]]
    BY DEF Take, FlagsTyped
  <2>2. Take(f, engines, p)[f] = [e \in Vec |-> Take(f, engines, p)[f][e]]
    BY DEF Take, FlagsTyped
  <2>3. Take(f, engines, p)[f] \in [Vec -> [Parity -> Int]]
    BY <1>2, <2>2
  <2>4. QED
    BY <2>1, <2>3 DEF FlagsTyped
<1>4. QED
  BY <1>2, <1>3
-----------------------------------------------------------------------------
(* What a step leaves alone.                                                 *)

(* A step of the cube, or of the pipe of the cube, of core c. *)
CubeGoes(c, k) ==
  /\ cube' = [cube EXCEPT ![c] = k] /\ UNCHANGED <<vec, zeroed>>
  /\ FlagsTyped(flags') /\ WsTyped(ws') /\ DtmTyped(dtmWs')
  /\ \A e \in Vec : e[1] # c =>
       /\ \A f \in Flag : flags'[f][e] = flags[f][e]
       /\ ws'[e[1]] = ws[e[1]] /\ dtmWs'[e[1]] = dtmWs[e[1]]
LEMMA CubeMoves ==
  ASSUME PipesInv, NEW c \in Core, NEW k, CubeGoes(c, k), CubeSound(c, k),
         \A e \in Vec : e[1] = c =>
           EngineSound(c, k, vec[e], flags'[C1_V1][e], flags'[V1_C2][e], flags'[C2_V1][e], WsNext(e), dtmWs'[c])
  PROVE  PipesNext
<1>1. k \in CubeRec
  BY DEF CubeSound, CubeTyped
<1>2. /\ cube' \in [Core -> CubeRec] /\ cube'[c] = k /\ \A d \in Core : d # c => cube'[d] = cube[d]
  BY <1>1 DEF PipesInv, Shapes, CubeGoes
<1>3. \A d \in Core : CubeSound(d, cube'[d])
  BY <1>2 DEF PipesInv
<1>4. ASSUME NEW e \in Vec PROVE EngineNext(e)
  <2>1. e[1] \in Core /\ vec'[e] = vec[e]
    BY DEF Vec, CubeGoes
  <2>2. CASE e[1] = c
    BY <1>2, <2>1, <2>2 DEF EngineNext
  <2>3. CASE e[1] # c
    <3>1. EngineSound(e[1], cube[e[1]], vec[e], flags[C1_V1][e], flags[V1_C2][e], flags[C2_V1][e], WsOf(e), dtmWs[e[1]])
      BY DEF PipesInv, EngineInv
    <3>2. WsNext(e) = WsOf(e)
      BY <2>3 DEF WsNext, WsOf, CubeGoes
    <3>3. /\ flags'[C1_V1][e] = flags[C1_V1][e] /\ flags'[V1_C2][e] = flags[V1_C2][e]
          /\ flags'[C2_V1][e] = flags[C2_V1][e] /\ dtmWs'[e[1]] = dtmWs[e[1]]
      BY <2>3 DEF CubeGoes, Flag
    <3>4. QED
      BY <1>2, <2>1, <2>3, <3>1, <3>2, <3>3 DEF EngineNext
  <2>4. QED
    BY <2>2, <2>3
<1>5. \A e \in Vec : VecSound(e[1], vec'[e])
  BY DEF PipesInv, CubeGoes
<1>6. QED
  BY <1>2, <1>3, <1>4, <1>5 DEF PipesInv, PipesNext, CubeGoes, Shapes, Together, Cleared

(* A step of engine e, or of its pipe. *)
VecGoes(e, v) ==
  /\ vec' = [vec EXCEPT ![e] = v] /\ UNCHANGED <<cube, dtmWs>>
  /\ FlagsTyped(flags') /\ WsTyped(ws')
  /\ zeroed' \in {zeroed, zeroed \cup {e}}
  /\ \A x \in Vec : x # e => /\ \A f \in Flag : flags'[f][x] = flags[f][x]
                             /\ WsNext(x) = WsOf(x)
LEMMA VecMoves ==
  ASSUME PipesInv, NEW e \in Vec, NEW v, VecGoes(e, v), VecSound(e[1], v), Passed(v) = Passed(vec[e]),
         v.pc # "pre" => e \in zeroed',
         EngineSound(e[1], cube[e[1]], v, flags'[C1_V1][e], flags'[V1_C2][e], flags'[C2_V1][e], WsNext(e), dtmWs[e[1]])
  PROVE  PipesNext
<1>1. v \in VecRec
  BY DEF VecSound, VecTyped
<1>2. /\ vec' \in [Vec -> VecRec] /\ vec'[e] = v /\ \A x \in Vec : x # e => vec'[x] = vec[x]
  BY <1>1 DEF PipesInv, Shapes, VecGoes
<1>3. \A x \in Vec : VecSound(x[1], vec'[x])
  BY <1>2 DEF PipesInv
<1>4. ASSUME NEW x \in Vec PROVE EngineNext(x)
  <2>1. cube' = cube /\ dtmWs' = dtmWs
    BY DEF VecGoes
  <2>2. CASE x = e
    BY <1>2, <2>1, <2>2 DEF EngineNext
  <2>3. CASE x # e
    <3>1. EngineSound(x[1], cube[x[1]], vec[x], flags[C1_V1][x], flags[V1_C2][x], flags[C2_V1][x], WsOf(x), dtmWs[x[1]])
      BY DEF PipesInv, EngineInv
    <3>2. /\ flags'[C1_V1][x] = flags[C1_V1][x] /\ flags'[V1_C2][x] = flags[V1_C2][x]
          /\ flags'[C2_V1][x] = flags[C2_V1][x] /\ WsNext(x) = WsOf(x)
      BY <2>3 DEF VecGoes, Flag
    <3>3. QED
      BY <1>2, <2>1, <2>3, <3>1, <3>2 DEF EngineNext
  <2>4. QED
    BY <2>2, <2>3
<1>5. \A x \in Vec : Passed(vec'[x]) = Passed(vec[x])
  BY <1>2
<1>6. \A x, y \in Vec : Passed(vec'[x]) = Passed(vec'[y])
  BY <1>5 DEF PipesInv, Together
<1>7. /\ zeroed' \subseteq Vec /\ zeroed \subseteq zeroed'
      /\ \A x \in Vec : /\ vec'[x].pc # "pre" => x \in zeroed'
                        /\ Passed(vec'[x]) > 0 => zeroed' = Vec
  <2>1. zeroed \subseteq zeroed' /\ zeroed' \subseteq Vec
    BY DEF VecGoes, PipesInv, Cleared
  <2>2. QED
    BY <1>2, <1>5, <2>1 DEF PipesInv, Cleared
<1>8. QED
  BY <1>2, <1>3, <1>4, <1>6, <1>7 DEF PipesInv, PipesNext, VecGoes, Shapes

(* What the invariant says of a core and one of its engines. *)
LEMMA OfEngine ==
  ASSUME PipesInv, NEW e \in Vec
  PROVE  /\ e[1] \in Core /\ CubeSound(e[1], cube[e[1]]) /\ VecSound(e[1], vec[e])
         /\ CubeTyped(cube[e[1]]) /\ VecTyped(e[1], vec[e])
         /\ EngineSound(e[1], cube[e[1]], vec[e], flags[C1_V1][e], flags[V1_C2][e], flags[C2_V1][e], WsOf(e), dtmWs[e[1]])
<1>1. e[1] \in Core
  BY DEF Vec
<1>2. QED
  BY <1>1 DEF PipesInv, EngineInv, CubeSound, VecSound
-----------------------------------------------------------------------------
(* The steps of the cubes. *)

(* A step of a cube's program that ends nothing and takes no flag. *)
LEMMA CubeQuiet ==
  ASSUME PipesInv, Len(rounds) \in Nat, NEW c \in Core, NEW k, CubeSound(c, k), Graded(k) = Graded(cube[c]),
         \A t \in Tasks : HasBlock(t, c) => /\ ScoresDone(k, t) <=> ScoresDone(cube[c], t)
                                            /\ GradsDone(k, t) <=> GradsDone(cube[c], t),
         cube' = [cube EXCEPT ![c] = k], UNCHANGED <<vec, flags, ws, dtmWs, zeroed, sums>>
  PROVE  PipesNext
<1>1. CubeGoes(c, k)
  BY DEF PipesInv, Shapes, CubeGoes
<1>2. ASSUME NEW e \in Vec, e[1] = c
      PROVE  EngineSound(c, k, vec[e], flags'[C1_V1][e], flags'[V1_C2][e], flags'[C2_V1][e], WsNext(e), dtmWs'[c])
  <2>1. EngineSound(c, cube[c], vec[e], flags[C1_V1][e], flags[V1_C2][e], flags[C2_V1][e], WsOf(e), dtmWs[c])
    BY <1>2, OfEngine
  <2>2. EngineSound(c, k, vec[e], flags[C1_V1][e], flags[V1_C2][e], flags[C2_V1][e], WsOf(e), dtmWs[c])
    BY <2>1, CubeIssues
  <2>3. WsNext(e) = WsOf(e)
    BY DEF WsNext, WsOf
  <2>4. QED
    BY <2>2, <2>3
<1>3. QED
  BY <1>1, <1>2, CubeMoves

LEMMA CubeFirstKeeps ==
  ASSUME PipesInv, Len(rounds) \in Nat, NEW c \in Core, CubeFirst(c)
  PROVE  PipesNext
<1>1. PICK k : k = CubeFirstOf(c, cube[c])
  OBVIOUS
<1>2. cube[c].pc = "first" /\ CubeSound(c, cube[c])
  BY DEF CubeFirst, PipesInv
<1>3. /\ CubeSound(c, k) /\ Graded(k) = Graded(cube[c])
      /\ \A t \in Tasks : HasBlock(t, c) => /\ ScoresDone(k, t) <=> ScoresDone(cube[c], t)
                                            /\ GradsDone(k, t) <=> GradsDone(cube[c], t)
  BY <1>1, <1>2, CubeFirstIs
<1>4. cube' = [cube EXCEPT ![c] = k] /\ UNCHANGED <<vec, flags, ws, dtmWs, zeroed, sums>>
  BY <1>1 DEF CubeFirst, CubeFirstOf
<1>5. QED
  BY <1>3, <1>4, CubeQuiet

LEMMA CubeSyncKeeps ==
  ASSUME PipesInv, Len(rounds) \in Nat, CubeSync
  PROVE  PipesNext
<1>1. ASSUME NEW c \in Core
      PROVE  /\ CubeSound(c, cube'[c]) /\ Graded(cube'[c]) = Graded(cube[c])
             /\ \A t \in Tasks : HasBlock(t, c) => /\ ScoresDone(cube'[c], t) <=> ScoresDone(cube[c], t)
                                                   /\ GradsDone(cube'[c], t) <=> GradsDone(cube[c], t)
  <2>1. PICK k : k = CubeSyncOf(c, cube[c])
    OBVIOUS
  <2>2. cube[c].pc \in {"sync", "lastSync"} /\ CubeSound(c, cube[c]) /\ cube'[c] = k
    BY <2>1 DEF CubeSync, CubeSyncOf, PipesInv
  <2>3. QED
    BY <2>1, <2>2, CubeSyncIs
<1>2. cube' \in [Core -> CubeRec]
  <2>1. \A c \in Core : cube'[c] \in CubeRec
    BY <1>1 DEF CubeSound, CubeTyped
  <2>2. cube' = [c \in Core |-> cube'[c]]
    BY DEF CubeSync
  <2>3. QED
    BY <2>1, <2>2
<1>3. ASSUME NEW e \in Vec PROVE EngineNext(e)
  <2>1. PICK k : k = cube'[e[1]]
    OBVIOUS
  <2>2. e[1] \in Core /\ EngineSound(e[1], cube[e[1]], vec[e], flags[C1_V1][e], flags[V1_C2][e], flags[C2_V1][e], WsOf(e), dtmWs[e[1]])
    BY OfEngine
  <2>3. /\ Graded(k) = Graded(cube[e[1]])
        /\ \A t \in Tasks : HasBlock(t, e[1]) => /\ ScoresDone(k, t) <=> ScoresDone(cube[e[1]], t)
                                                 /\ GradsDone(k, t) <=> GradsDone(cube[e[1]], t)
    BY <1>1, <2>1, <2>2
  <2>4. EngineSound(e[1], k, vec[e], flags[C1_V1][e], flags[V1_C2][e], flags[C2_V1][e], WsOf(e), dtmWs[e[1]])
    BY <2>2, <2>3, CubeIssues
  <2>5. WsNext(e) = WsOf(e)
    BY DEF WsNext, WsOf, CubeSync
  <2>6. QED
    BY <2>1, <2>4, <2>5 DEF EngineNext, CubeSync
<1>4. QED
  BY <1>1, <1>2, <1>3 DEF PipesInv, PipesNext, CubeSync, Shapes, Together, Cleared

LEMMA CubeGradientsKeeps ==
  ASSUME PipesInv, Len(rounds) \in Nat, NEW c \in Core, CubeGradients(c)
  PROVE  PipesNext
<1>1. PICK n : n = cube[c].taskId - 1
  OBVIOUS
<1>2. PICK k : k = Onwards(c, cube[c], IF HasBlock(n, c) THEN cube[c].pipe \o <<GradsOp(n, c)>> ELSE cube[c].pipe)
  OBVIOUS
<1>3. /\ cube[c].pc = "gradients" /\ CubeSound(c, cube[c]) /\ CubeTyped(cube[c])
      /\ cube[c] \in CubeRec /\ cube[c].pipe \in Seq(Op)
  BY DEF CubeGradients, PipesInv, CubeSound, CubeTyped, CubeRec
<1>4. /\ CubeSound(c, k) /\ Graded(k) = Graded(cube[c]) + 1 /\ Graded(k) = n
      /\ \A t \in Tasks : HasBlock(t, c) => /\ ScoresDone(k, t) <=> ScoresDone(cube[c], t)
                                            /\ GradsDone(k, t) <=> GradsDone(cube[c], t)
  BY <1>1, <1>2, <1>3, CubeGradientsIs
<1>5. HasBlock(n, c) => n % 2 \in Parity
  BY Blocks, TaskParity
<1>6. /\ cube' = [cube EXCEPT ![c] = k] /\ UNCHANGED <<vec, ws, dtmWs, zeroed, sums>>
      /\ IF HasBlock(n, c)
         THEN IsSet(V1_C2, VecsOf(c), n % 2) /\ flags' = Take(V1_C2, VecsOf(c), n % 2)
         ELSE flags' = flags
  <2>1. CASE HasBlock(n, c)
    <3>1. cube[c].pipe \o <<GradsOp(n, c)>> = Append(cube[c].pipe, GradsOp(n, c))
      BY <1>3
    <3>2. k = Onwards(c, cube[c], Append(cube[c].pipe, GradsOp(n, c)))
      BY <1>2, <2>1, <3>1
    <3>3. /\ IsSet(V1_C2, VecsOf(c), (cube[c].taskId - 1) % 2)
          /\ flags' = Take(V1_C2, VecsOf(c), (cube[c].taskId - 1) % 2)
          /\ cube' = [cube EXCEPT ![c] = Onwards(c, cube[c], Append(cube[c].pipe, GradsOp(cube[c].taskId - 1, c)))]
          /\ UNCHANGED <<vec, ws, dtmWs, zeroed, sums>>
      <4>1. HasBlock(cube[c].taskId - 1, c)
        BY <1>1, <2>1
      <4>2. /\ IsSet(V1_C2, VecsOf(c), (cube[c].taskId - 1) % 2)
            /\ flags' = Take(V1_C2, VecsOf(c), (cube[c].taskId - 1) % 2)
        BY <4>1 DEF CubeGradients, PingPong
      <4>3. cube' = [cube EXCEPT ![c] = Onwards(c, cube[c], Append(cube[c].pipe, GradsOp(cube[c].taskId - 1, c)))]
        BY <4>1, Zenon DEF CubeGradients, Onwards, GradsOp
      <4>4. UNCHANGED <<vec, ws, dtmWs, zeroed, sums>>
        BY DEF CubeGradients
      <4>5. QED
        BY <4>2, <4>3, <4>4
    <3>4. QED
      BY <1>1, <2>1, <3>2, <3>3
  <2>2. CASE ~HasBlock(n, c)
    <3>1. cube[c] = [cube[c] EXCEPT !.pipe = cube[c].pipe]
      BY <1>3 DEF CubeRec
    <3>2. k = Onwards(c, cube[c], cube[c].pipe)
      BY <1>2, <2>2
    <3>3. QED
      BY <1>1, <2>2, <3>1, <3>2 DEF CubeGradients, Onwards
  <2>3. QED
    BY <2>1, <2>2
<1>7. /\ FlagsTyped(flags')
      /\ \A h \in Flag, e \in Vec :
           flags'[h][e] = IF HasBlock(n, c) /\ h = V1_C2 /\ e[1] = c THEN Down(flags[h][e], n % 2) ELSE flags[h][e]
  <2>1. \A e \in Vec : e \in VecsOf(c) <=> e[1] = c
    BY DEF Vec, VecsOf
  <2>2. V1_C2 \in Flag /\ FlagsTyped(flags)
    BY DEF Flag, PipesInv, Shapes
  <2>3. CASE HasBlock(n, c)
    <3>1. /\ FlagsTyped(Take(V1_C2, VecsOf(c), n % 2))
          /\ \A h \in Flag, e \in Vec :
               Take(V1_C2, VecsOf(c), n % 2)[h][e]
                 = IF h = V1_C2 /\ e \in VecsOf(c) THEN Down(flags[h][e], n % 2) ELSE flags[h][e]
      BY <1>5, <2>2, <2>3, TakeIs
    <3>2. QED
      BY <1>6, <2>1, <2>3, <3>1
  <2>4. CASE ~HasBlock(n, c)
    BY <1>6, <2>2, <2>4
  <2>5. QED
    BY <2>3, <2>4
<1>8. CubeGoes(c, k)
  BY <1>6, <1>7 DEF CubeGoes, PipesInv, Shapes
<1>9. ASSUME NEW e \in Vec, e[1] = c
      PROVE  EngineSound(c, k, vec[e], flags'[C1_V1][e], flags'[V1_C2][e], flags'[C2_V1][e], WsNext(e), dtmWs'[c])
  <2>1. PICK m2 : m2 = flags'[V1_C2][e]
    OBVIOUS
  <2>2. /\ VecTyped(c, vec[e])
        /\ EngineSound(c, cube[c], vec[e], flags[C1_V1][e], flags[V1_C2][e], flags[C2_V1][e], WsOf(e), dtmWs[c])
    BY <1>9, OfEngine
  <2>3. IF HasBlock(Graded(k), c)
        THEN flags[V1_C2][e][Graded(k) % 2] > 0 /\ m2 = Down(flags[V1_C2][e], Graded(k) % 2)
        ELSE m2 = flags[V1_C2][e]
    <3>1. e \in VecsOf(c)
      BY <1>9 DEF Vec, VecsOf
    <3>2. V1_C2 \in Flag
      BY DEF Flag
    <3>3. QED
      BY <1>4, <1>6, <1>7, <1>9, <2>1, <3>1, <3>2 DEF IsSet
  <2>4. EngineSound(c, k, vec[e], flags[C1_V1][e], m2, flags[C2_V1][e], WsOf(e), dtmWs[c])
    BY <1>3, <1>4, <2>2, <2>3, CubeGrades
  <2>5. flags'[C1_V1][e] = flags[C1_V1][e] /\ flags'[C2_V1][e] = flags[C2_V1][e]
    BY <1>7 DEF Flag, C1_V1, V1_C2, C2_V1
  <2>6. WsNext(e) = WsOf(e) /\ dtmWs'[c] = dtmWs[c]
    BY <1>6 DEF WsNext, WsOf
  <2>7. QED
    BY <2>1, <2>4, <2>5, <2>6
<1>10. QED
  BY <1>4, <1>8, <1>9, CubeMoves
(* The pipe of a cube ends scores, which both engines of its core see.       *)
LEMMA CubeScoresKeeps ==
  ASSUME PipesInv, Len(rounds) \in Nat, NEW c \in Core, CubePipe(c), Head(cube[c].pipe).op = "mm1"
  PROVE  PipesNext
<1>1. PICK o : IsHead(o, cube[c].pipe)
  BY DEF IsHead
<1>2. PICK k : k = [cube[c] EXCEPT !.pipe = Tail(cube[c].pipe)]
  OBVIOUS
<1>3. OneLess(cube[c], k) /\ cube' = [cube EXCEPT ![c] = k] /\ UNCHANGED <<vec, zeroed>>
  BY <1>2 DEF CubePipe, OneLess
<1>4. CubeSound(c, cube[c])
  BY DEF PipesInv
<1>5. CubeSound(c, k) /\ o.task \in Tasks /\ o.op = "mm1"
  BY <1>1, <1>3, <1>4, CubePipeIs DEF IsHead
<1>6. PICK p \in Parity : p = o.task % 2
  BY <1>5, TaskParity
<1>7. /\ ws' = [ws EXCEPT ![c][p] = [h \in Half |-> [kind |-> "scores", task |-> o.task]]]
      /\ flags' = SetFor(C1_V1, VecsOf(c), p) /\ dtmWs' = dtmWs
  BY <1>1, <1>5, <1>6 DEF CubePipe, IsHead, PingPong
<1>8. /\ FlagsTyped(flags')
      /\ \A h \in Flag, e \in Vec : flags'[h][e] = IF h = C1_V1 /\ e[1] = c THEN Up(flags[h][e], p) ELSE flags[h][e]
  <2>1. C1_V1 \in Flag /\ FlagsTyped(flags)
    BY DEF Flag, PipesInv, Shapes
  <2>2. \A e \in Vec : e \in VecsOf(c) <=> e[1] = c
    BY DEF Vec, VecsOf
  <2>3. QED
    BY <1>7, <2>1, <2>2, SetForIs
<1>9. /\ WsTyped(ws') /\ \A d \in Core : d # c => ws'[d] = ws[d]
      /\ \A q \in Parity, h \in Half :
           ws'[c][q][h] = IF q = p THEN [kind |-> "scores", task |-> o.task] ELSE ws[c][q][h]
  <2>1. WsTyped(ws)
    BY DEF PipesInv, Shapes
  <2>2. [kind |-> "scores", task |-> o.task] \in Workspace
    BY <1>5, Ends DEF Workspace
  <2>3. [h \in Half |-> [kind |-> "scores", task |-> o.task]] \in [Half -> Workspace]
    BY <2>2
  <2>4. WsTyped(ws')
    BY <1>7, <2>1, <2>3 DEF WsTyped
  <2>5. QED
    BY <1>7, <2>1, <2>4 DEF WsTyped
<1>10. CubeGoes(c, k)
  BY <1>3, <1>7, <1>8, <1>9 DEF CubeGoes, PipesInv, Shapes, Vec
<1>11. ASSUME NEW e \in Vec, e[1] = c
       PROVE  EngineSound(c, k, vec[e], flags'[C1_V1][e], flags'[V1_C2][e], flags'[C2_V1][e], WsNext(e), dtmWs'[c])
  <2>1. PICK w2 : w2 = WsNext(e)
    OBVIOUS
  <2>2. /\ VecSound(c, vec[e])
        /\ EngineSound(c, cube[c], vec[e], flags[C1_V1][e], flags[V1_C2][e], flags[C2_V1][e], WsOf(e), dtmWs[c])
    BY <1>11, OfEngine
  <2>3. \A q \in Parity : w2[q] = IF q = o.task % 2 THEN [kind |-> "scores", task |-> o.task] ELSE WsOf(e)[q]
    <3>1. e[2] \in Half
      BY DEF Vec
    <3>2. \A q \in Parity : w2[q] = ws'[c][q][e[2]] /\ WsOf(e)[q] = ws[c][q][e[2]]
      BY <1>11, <2>1 DEF WsNext, WsOf
    <3>3. QED
      BY <1>6, <1>9, <3>1, <3>2
  <2>4. EngineSound(c, k, vec[e], Up(flags[C1_V1][e], o.task % 2), flags[V1_C2][e], flags[C2_V1][e], w2, dtmWs[c])
    BY <1>1, <1>3, <1>4, <1>5, <2>2, <2>3, CubePipeScores
  <2>5. /\ flags'[C1_V1][e] = Up(flags[C1_V1][e], o.task % 2) /\ flags'[V1_C2][e] = flags[V1_C2][e]
        /\ flags'[C2_V1][e] = flags[C2_V1][e]
    BY <1>6, <1>8, <1>11 DEF Flag, C1_V1, V1_C2, C2_V1
  <2>6. QED
    BY <1>7, <2>1, <2>4, <2>5
<1>12. QED
  BY <1>5, <1>10, <1>11, CubeMoves

(* It ends gradients, and tells the engines if they will wait for them.      *)
LEMMA CubeGradsKeeps ==
  ASSUME PipesInv, Len(rounds) \in Nat, NEW c \in Core, CubePipe(c), Head(cube[c].pipe).op = "mmDqkv"
  PROVE  PipesNext
<1>1. PICK o : IsHead(o, cube[c].pipe)
  BY DEF IsHead
<1>2. PICK k : k = [cube[c] EXCEPT !.pipe = Tail(cube[c].pipe)]
  OBVIOUS
<1>3. OneLess(cube[c], k) /\ cube' = [cube EXCEPT ![c] = k] /\ UNCHANGED <<vec, zeroed>>
  BY <1>2 DEF CubePipe, OneLess
<1>4. CubeSound(c, cube[c])
  BY DEF PipesInv
<1>5. CubeSound(c, k) /\ o.task \in Tasks /\ o.op = "mmDqkv"
  BY <1>1, <1>3, <1>4, CubePipeIs DEF IsHead
<1>6. PICK p \in Parity : p = o.task % 2
  BY <1>5, TaskParity
<1>7. /\ ws' = ws
      /\ flags' = IF o.told THEN SetFor(C2_V1, VecsOf(c), p) ELSE flags
      /\ launch.dtm => dtmWs' = [dtmWs EXCEPT ![c][p] = [grad \in Grad |->
                                   IF Direct(grad, <<o.task, c>>) THEN dtmWs[c][p][grad] ELSE o.task]]
      /\ ~launch.dtm => dtmWs' = dtmWs
  BY <1>1, <1>5, <1>6 DEF CubePipe, IsHead, PingPong
<1>8. /\ FlagsTyped(flags')
      /\ \A h \in Flag, e \in Vec :
           flags'[h][e] = IF o.told /\ h = C2_V1 /\ e[1] = c THEN Up(flags[h][e], p) ELSE flags[h][e]
  <2>1. C2_V1 \in Flag /\ FlagsTyped(flags)
    BY DEF Flag, PipesInv, Shapes
  <2>2. \A e \in Vec : e \in VecsOf(c) <=> e[1] = c
    BY DEF Vec, VecsOf
  <2>3. /\ FlagsTyped(SetFor(C2_V1, VecsOf(c), p))
        /\ \A h \in Flag, e \in Vec :
             SetFor(C2_V1, VecsOf(c), p)[h][e] = IF h = C2_V1 /\ e \in VecsOf(c) THEN Up(flags[h][e], p) ELSE flags[h][e]
    BY <2>1, SetForIs
  <2>4. CASE o.told
    BY <1>7, <2>2, <2>3, <2>4
  <2>5. CASE ~o.told
    BY <1>7, <2>1, <2>5
  <2>6. QED
    BY <2>4, <2>5
<1>9. /\ DtmTyped(dtmWs') /\ \A d \in Core : d # c => dtmWs'[d] = dtmWs[d]
      /\ ProductsPut(c, o.task, dtmWs[c], dtmWs'[c])
  <2>1. DtmTyped(dtmWs)
    BY DEF PipesInv, Shapes
  <2>2. CASE launch.dtm
    <3>1. PICK n : n = [grad \in Grad |-> IF Direct(grad, <<o.task, c>>) THEN dtmWs[c][p][grad] ELSE o.task]
      OBVIOUS
    <3>2. n \in [Grad -> Int]
      <4>1. \A grad \in Grad : dtmWs[c][p][grad] \in Int
        BY <2>1 DEF DtmTyped
      <4>2. o.task \in Int
        BY <1>5, Ends
      <4>3. QED
        BY <3>1, <4>1, <4>2
    <3>3. dtmWs' = [dtmWs EXCEPT ![c][p] = n]
      BY <1>7, <2>2, <3>1
    <3>4. DtmTyped(dtmWs')
      BY <2>1, <3>2, <3>3 DEF DtmTyped
    <3>5. \A q \in Parity : dtmWs'[c][q] = IF q = p THEN n ELSE dtmWs[c][q]
      BY <2>1, <3>3 DEF DtmTyped
    <3>6. ProductsPut(c, o.task, dtmWs[c], dtmWs'[c])
      BY <1>6, <3>1, <3>5 DEF ProductsPut
    <3>7. QED
      BY <2>1, <3>3, <3>4, <3>6 DEF DtmTyped
  <2>3. CASE ~launch.dtm
    BY <1>7, <2>1, <2>3 DEF ProductsPut
  <2>4. QED
    BY <2>2, <2>3
<1>10. CubeGoes(c, k)
  BY <1>3, <1>7, <1>8, <1>9 DEF CubeGoes, PipesInv, Shapes, Vec
<1>11. ASSUME NEW e \in Vec, e[1] = c
       PROVE  EngineSound(c, k, vec[e], flags'[C1_V1][e], flags'[V1_C2][e], flags'[C2_V1][e], WsNext(e), dtmWs'[c])
  <2>1. PICK g2, d2 : g2 = flags'[C2_V1][e] /\ d2 = dtmWs'[c]
    OBVIOUS
  <2>2. /\ VecSound(c, vec[e])
        /\ EngineSound(c, cube[c], vec[e], flags[C1_V1][e], flags[V1_C2][e], flags[C2_V1][e], WsOf(e), dtmWs[c])
    BY <1>11, OfEngine
  <2>3. ToldOf(o, flags[C2_V1][e], g2)
    BY <1>6, <1>8, <1>11, <2>1 DEF Flag, ToldOf
  <2>4. ProductsPut(c, o.task, dtmWs[c], d2)
    BY <1>9, <2>1
  <2>5. EngineSound(c, k, vec[e], flags[C1_V1][e], flags[V1_C2][e], g2, WsOf(e), d2)
    BY <1>1, <1>3, <1>4, <1>5, <2>2, <2>3, <2>4, CubePipeGrads
  <2>6. flags'[C1_V1][e] = flags[C1_V1][e] /\ flags'[V1_C2][e] = flags[V1_C2][e]
    BY <1>8 DEF Flag, C1_V1, V1_C2, C2_V1
  <2>7. WsNext(e) = WsOf(e)
    BY <1>7 DEF WsNext, WsOf
  <2>8. QED
    BY <2>1, <2>5, <2>6, <2>7
<1>12. QED
  BY <1>5, <1>10, <1>11, CubeMoves

LEMMA CubePipeKeeps ==
  ASSUME PipesInv, Len(rounds) \in Nat, NEW c \in Core, CubePipe(c)
  PROVE  PipesNext
<1>1. Head(cube[c].pipe).op \in {"mm1", "mmDqkv"}
  BY DEF CubePipe
<1>2. QED
  BY <1>1, CubeScoresKeeps, CubeGradsKeeps
-----------------------------------------------------------------------------
(* The steps of the engines.                                                 *)

(* What one engine does to the flags. *)
LEMMA TakeOne ==
  ASSUME PipesInv, NEW f \in Flag, NEW e \in Vec, NEW p \in Parity, flags' = Take(f, {e}, p)
  PROVE  /\ FlagsTyped(flags') /\ flags'[f][e] = Down(flags[f][e], p)
         /\ \A h \in Flag : h # f => flags'[h][e] = flags[h][e]
         /\ \A x \in Vec : x # e => \A h \in Flag : flags'[h][x] = flags[h][x]
<1>1. FlagsTyped(flags)
  BY DEF PipesInv, Shapes
<1>2. QED
  BY <1>1, TakeIs
LEMMA SetOne ==
  ASSUME PipesInv, NEW f \in Flag, NEW e \in Vec, NEW p \in Parity, flags' = SetFor(f, {e}, p)
  PROVE  /\ FlagsTyped(flags') /\ flags'[f][e] = Up(flags[f][e], p)
         /\ \A h \in Flag : h # f => flags'[h][e] = flags[h][e]
         /\ \A x \in Vec : x # e => \A h \in Flag : flags'[h][x] = flags[h][x]
<1>1. FlagsTyped(flags)
  BY DEF PipesInv, Shapes
<1>2. QED
  BY <1>1, SetForIs

(* A step of an engine that waits for no flag. *)
LEMMA VecQuiet ==
  ASSUME PipesInv, Len(rounds) \in Nat, NEW e \in Vec, NEW v, VecSound(e[1], v), Begun(v) = Begun(vec[e]),
         Waited(v) = Waited(vec[e]), v.taskId = vec[e].taskId, Passed(v) = Passed(vec[e]), v.pc # "pre",
         \A t \in Tasks : MulDone(v, t) <=> MulDone(vec[e], t),
         vec' = [vec EXCEPT ![e] = v], UNCHANGED <<cube, flags, ws, dtmWs>>,
         e \in zeroed', zeroed' \in {zeroed, zeroed \cup {e}}
  PROVE  PipesNext
<1>1. \A x \in Vec : WsNext(x) = WsOf(x)
  BY DEF WsNext, WsOf
<1>2. VecGoes(e, v)
  BY <1>1 DEF PipesInv, Shapes, VecGoes
<1>3. /\ VecTyped(e[1], vec[e])
      /\ EngineSound(e[1], cube[e[1]], vec[e], flags[C1_V1][e], flags[V1_C2][e], flags[C2_V1][e], WsOf(e), dtmWs[e[1]])
  BY OfEngine
<1>4. EngineSound(e[1], cube[e[1]], v, flags[C1_V1][e], flags[V1_C2][e], flags[C2_V1][e], WsOf(e), dtmWs[e[1]])
  BY <1>3, VecKeeps
<1>5. EngineSound(e[1], cube[e[1]], v, flags'[C1_V1][e], flags'[V1_C2][e], flags'[C2_V1][e], WsNext(e), dtmWs[e[1]])
  BY <1>1, <1>4
<1>6. QED
  BY <1>2, <1>5, VecMoves

LEMMA VecGoesKeeps ==
  ASSUME PipesInv, Len(rounds) \in Nat, NEW e \in Vec, VecPre(e) \/ VecAdd(e) \/ VecPost(e)
  PROVE  PipesNext
<1>1. PICK pc : /\ <<vec[e].pc, pc>> \in Moves /\ vec' = [vec EXCEPT ![e].pc = pc]
                /\ UNCHANGED <<cube, flags, ws, dtmWs>>
                /\ zeroed' = IF vec[e].pc = "pre" THEN zeroed \cup {e} ELSE zeroed
  BY DEF VecPre, VecAdd, VecPost, Moves
<1>2. PICK v : v = [vec[e] EXCEPT !.pc = pc]
  OBVIOUS
<1>3. VecSound(e[1], vec[e]) /\ vec[e] \in VecRec
  BY OfEngine DEF VecTyped
<1>4. v.pc = pc /\ MovesTo(vec[e], v, v.pc) /\ <<vec[e].pc, v.pc>> \in Moves
  BY <1>1, <1>2, <1>3 DEF MovesTo, VecRec
<1>5. /\ VecSound(e[1], v) /\ Begun(v) = Begun(vec[e]) /\ Waited(v) = Waited(vec[e])
      /\ v.taskId = vec[e].taskId /\ Passed(v) = Passed(vec[e]) /\ v.pc # "pre"
      /\ \A t \in Tasks : MulDone(v, t) <=> MulDone(vec[e], t)
  BY <1>3, <1>4, VecGoesIs
<1>6. vec' = [vec EXCEPT ![e] = v]
  BY <1>1, <1>2
<1>7. e \in zeroed' /\ zeroed' \in {zeroed, zeroed \cup {e}}
  BY <1>1 DEF PipesInv, Cleared
<1>8. QED
  BY <1>1, <1>5, <1>6, <1>7, VecQuiet

LEMMA VecBlockKeeps ==
  ASSUME PipesInv, Len(rounds) \in Nat, NEW e \in Vec, VecBlock(e) \/ VecIdle(e)
  PROVE  PipesNext
<1>1. PICK n : n = vec[e].taskId - 1
  OBVIOUS
<1>2. PICK v : v = IF HasBlock(vec[e].taskId - 1, e[1]) THEN VecBlockOf(e, vec[e]) ELSE AfterBlock(e, vec[e])
  OBVIOUS
<1>3. vec[e].pc = "loop" /\ VecSound(e[1], vec[e])
  BY OfEngine DEF VecBlock, VecIdle
<1>4. /\ VecSound(e[1], v) /\ Begun(v) = Begun(vec[e]) + 1 /\ Begun(vec[e]) = n
      /\ v.taskId = vec[e].taskId \/ v.taskId = vec[e].taskId + 1
      /\ Passed(v) = Passed(vec[e]) /\ Waited(v) \in Int /\ v.pc # "pre"
      /\ \A t \in Tasks : HasBlock(t, e[1]) => /\ MulDone(v, t) <=> MulDone(vec[e], t)
                                               /\ Told(t, e[1]) => (t >= Waited(v) <=> t >= Waited(vec[e]))
  BY <1>1, <1>2, <1>3, VecBlockIs
<1>5. HasBlock(n, e[1]) => n % 2 \in Parity
  BY Blocks, TaskParity
<1>6. /\ vec' = [vec EXCEPT ![e] = v] /\ UNCHANGED <<cube, ws, dtmWs, zeroed>>
      /\ IF HasBlock(n, e[1])
         THEN flags[C1_V1][e][n % 2] > 0 /\ flags' = Take(C1_V1, {e}, n % 2)
         ELSE flags' = flags
  BY <1>1, <1>2 DEF VecBlock, VecIdle, VecBlockOf, IsSet, PingPong
<1>7. C1_V1 \in Flag /\ C1_V1 # V1_C2 /\ C1_V1 # C2_V1 /\ V1_C2 \in Flag /\ C2_V1 \in Flag
  BY DEF Flag, C1_V1, V1_C2, C2_V1
<1>8. PICK s2 : s2 = flags'[C1_V1][e]
  OBVIOUS
<1>9. /\ FlagsTyped(flags')
      /\ flags'[V1_C2][e] = flags[V1_C2][e] /\ flags'[C2_V1][e] = flags[C2_V1][e]
      /\ \A x \in Vec : x # e => \A h \in Flag : flags'[h][x] = flags[h][x]
      /\ IF HasBlock(Begun(vec[e]), e[1])
         THEN flags[C1_V1][e][Begun(vec[e]) % 2] > 0 /\ s2 = Down(flags[C1_V1][e], Begun(vec[e]) % 2)
         ELSE s2 = flags[C1_V1][e]
  <2>1. CASE HasBlock(n, e[1])
    <3>1. PICK p \in Parity : p = n % 2
      BY <1>5, <2>1
    <3>2. flags' = Take(C1_V1, {e}, p)
      BY <1>6, <2>1, <3>1
    <3>3. /\ FlagsTyped(flags') /\ flags'[C1_V1][e] = Down(flags[C1_V1][e], p)
          /\ \A h \in Flag : h # C1_V1 => flags'[h][e] = flags[h][e]
          /\ \A x \in Vec : x # e => \A h \in Flag : flags'[h][x] = flags[h][x]
      BY <1>7, <3>2, TakeOne
    <3>4. QED
      BY <1>4, <1>6, <1>7, <1>8, <2>1, <3>1, <3>3
  <2>2. CASE ~HasBlock(n, e[1])
    BY <1>4, <1>6, <1>8, <2>2 DEF PipesInv, Shapes
  <2>3. QED
    BY <2>1, <2>2
<1>10. \A x \in Vec : WsNext(x) = WsOf(x)
  BY <1>6 DEF WsNext, WsOf
<1>11. VecGoes(e, v)
  BY <1>6, <1>9, <1>10 DEF PipesInv, Shapes, VecGoes
<1>12. /\ CubeTyped(cube[e[1]]) /\ VecTyped(e[1], vec[e])
       /\ EngineSound(e[1], cube[e[1]], vec[e], flags[C1_V1][e], flags[V1_C2][e], flags[C2_V1][e], WsOf(e), dtmWs[e[1]])
  BY OfEngine
<1>13. EngineSound(e[1], cube[e[1]], v, s2, flags[V1_C2][e], flags[C2_V1][e], WsOf(e), dtmWs[e[1]])
  BY <1>4, <1>9, <1>12, VecBegins
<1>14. EngineSound(e[1], cube[e[1]], v, flags'[C1_V1][e], flags'[V1_C2][e], flags'[C2_V1][e], WsNext(e), dtmWs[e[1]])
  BY <1>8, <1>9, <1>10, <1>13
<1>15. e \in zeroed'
  BY <1>3, <1>6 DEF PipesInv, Cleared
<1>16. QED
  BY <1>4, <1>11, <1>14, <1>15, VecMoves

(* The pipes of an engine end a task: of the gradients the cube has been     *)
(* given, those not done are of the other parity.                            *)
LEMMA VecPipeKeeps ==
  ASSUME PipesInv, Len(rounds) \in Nat, NEW e \in Vec, VecPipe(e)
  PROVE  PipesNext
<1>1. PICK a : IsHead(a, vec[e].pipe)
  BY DEF IsHead
<1>2. PICK v : v = [vec[e] EXCEPT !.pipe = Tail(vec[e].pipe)]
  OBVIOUS
<1>3. /\ OneLess(vec[e], v) /\ vec' = [vec EXCEPT ![e] = v] /\ UNCHANGED <<cube, dtmWs, zeroed>>
      /\ ws' = [ws EXCEPT ![e[1]][a % 2][e[2]] = [kind |-> "mul", task |-> a]]
      /\ flags' = SetFor(V1_C2, {e}, a % 2)
  BY <1>1, <1>2 DEF VecPipe, OneLess, IsHead, PingPong
<1>4. /\ e[1] \in Core /\ CubeSound(e[1], cube[e[1]]) /\ VecSound(e[1], vec[e])
      /\ CubeTyped(cube[e[1]]) /\ VecTyped(e[1], vec[e])
      /\ EngineSound(e[1], cube[e[1]], vec[e], flags[C1_V1][e], flags[V1_C2][e], flags[C2_V1][e], WsOf(e), dtmWs[e[1]])
  BY OfEngine
<1>5. /\ VecSound(e[1], v) /\ Begun(v) = Begun(vec[e]) /\ Waited(v) = Waited(vec[e]) /\ v.taskId = vec[e].taskId
      /\ v.pc = vec[e].pc /\ Passed(v) = Passed(vec[e])
      /\ a \in Tasks /\ HasBlock(a, e[1]) /\ a < Begun(vec[e]) /\ ~MulDone(vec[e], a)
      /\ \A t \in Tasks : MulDone(v, t) <=> MulDone(vec[e], t) \/ t = a
  BY <1>1, <1>3, <1>4, VecPipeIs, ZenonT(30)
<1>6. PICK p \in Parity : p = a % 2
  BY <1>5, TaskParity
<1>7. /\ FlagsTyped(flags') /\ flags'[V1_C2][e] = Up(flags[V1_C2][e], p)
      /\ flags'[C1_V1][e] = flags[C1_V1][e] /\ flags'[C2_V1][e] = flags[C2_V1][e]
      /\ \A x \in Vec : x # e => \A h \in Flag : flags'[h][x] = flags[h][x]
  <2>1. C1_V1 \in Flag /\ C1_V1 # V1_C2 /\ V1_C2 # C2_V1 /\ V1_C2 \in Flag /\ C2_V1 \in Flag
    BY DEF Flag, C1_V1, V1_C2, C2_V1
  <2>2. flags' = SetFor(V1_C2, {e}, p)
    BY <1>3, <1>6
  <2>3. /\ FlagsTyped(flags') /\ flags'[V1_C2][e] = Up(flags[V1_C2][e], p)
        /\ \A h \in Flag : h # V1_C2 => flags'[h][e] = flags[h][e]
        /\ \A x \in Vec : x # e => \A h \in Flag : flags'[h][x] = flags[h][x]
    BY <2>1, <2>2, SetOne
  <2>4. QED
    BY <2>1, <2>3
<1>8. /\ WsTyped(ws')
      /\ \A q \in Parity : WsNext(e)[q] = IF q = p THEN [kind |-> "mul", task |-> a] ELSE WsOf(e)[q]
      /\ \A x \in Vec : x # e => WsNext(x) = WsOf(x)
  <2>1. PICK c \in Core, h \in Half : e = <<c, h>>
    BY DEF Vec
  <2>2. WsTyped(ws)
    BY DEF PipesInv, Shapes
  <2>3. PICK m \in Workspace : m = [kind |-> "mul", task |-> a]
    <3>1. [kind |-> "mul", task |-> a] \in Workspace
      BY <1>5, Ends DEF Workspace
    <3>2. QED
      BY <3>1
  <2>4. ws' = [ws EXCEPT ![c][p][h] = m]
    BY <1>3, <1>6, <2>1, <2>3
  <2>5. /\ WsTyped(ws')
        /\ \A d \in Core, q \in Parity, i \in Half :
             ws'[d][q][i] = IF d = c /\ q = p /\ i = h THEN m ELSE ws[d][q][i]
    BY <2>2, <2>4 DEF WsTyped
  <2>6. \A q \in Parity : WsNext(e)[q] = IF q = p THEN [kind |-> "mul", task |-> a] ELSE WsOf(e)[q]
    BY <2>1, <2>3, <2>5 DEF WsNext, WsOf
  <2>7. ASSUME NEW x \in Vec, x # e PROVE WsNext(x) = WsOf(x)
    <3>1. PICK d \in Core, i \in Half : x = <<d, i>> /\ (d # c \/ i # h)
      BY <2>1, <2>7 DEF Vec
    <3>2. \A q \in Parity : ws'[d][q][i] = ws[d][q][i]
      BY <2>5, <3>1
    <3>3. QED
      BY <3>1, <3>2 DEF WsNext, WsOf
  <2>8. QED
    BY <2>5, <2>6, <2>7
<1>9. VecGoes(e, v)
  BY <1>3, <1>7, <1>8 DEF PipesInv, Shapes, VecGoes
<1>10. PICK w2 : w2 = WsNext(e)
  OBVIOUS
<1>11. \A t \in Tasks : HasBlock(t, e[1]) /\ t <= Graded(cube[e[1]]) /\ ~GradsDone(cube[e[1]], t) => t % 2 # a % 2
  <2>1. Ordered(e[1], cube[e[1]], vec[e])
    BY <1>4 DEF EngineSound
  <2>2. Graded(cube[e[1]]) < a /\ ScoresDone(cube[e[1]], a)
    <3>1. a > Graded(cube[e[1]])
      BY <1>4, <1>5, <2>1, DueNear
    <3>2. QED
      BY <1>4, <1>5, <2>1, <3>1, CubeAhead, Ends DEF Ordered, AfterScores
  <2>3. \A t \in Tasks : HasBlock(t, e[1]) /\ t <= Graded(cube[e[1]]) /\ ~GradsDone(cube[e[1]], t) => a <= t + 1
    BY <1>4, <1>5, <2>2, PipeOrder
  <2>4. Graded(cube[e[1]]) \in Int /\ \A t \in Tasks : t \in Nat
    BY <1>4, CubeAhead, Ends
  <2>5. QED
    BY <1>5, <2>2, <2>3, <2>4, OtherParity
<1>12. EngineSound(e[1], cube[e[1]], v, flags[C1_V1][e], Up(flags[V1_C2][e], a % 2), flags[C2_V1][e], w2, dtmWs[e[1]])
  <2>1. \A q \in Parity : w2[q] = IF q = a % 2 THEN [kind |-> "mul", task |-> a] ELSE WsOf(e)[q]
    BY <1>6, <1>8, <1>10
  <2>2. \A t \in Tasks : HasBlock(t, e[1]) => (MulDone(v, t) <=> (MulDone(vec[e], t) \/ t = a))
    BY <1>5
  <2>3. QED
    BY <1>4, <1>5, <1>11, <2>1, <2>2, VecEndsMul
<1>13. EngineSound(e[1], cube[e[1]], v, flags'[C1_V1][e], flags'[V1_C2][e], flags'[C2_V1][e], WsNext(e), dtmWs[e[1]])
  BY <1>6, <1>7, <1>10, <1>12
<1>14. v.pc # "pre" => e \in zeroed'
  BY <1>3, <1>5 DEF PipesInv, Cleared
<1>15. QED
  BY <1>5, <1>9, <1>13, <1>14, VecMoves

(* An engine waits for gradients. *)
LEMMA VecWaitKeeps ==
  ASSUME PipesInv, Len(rounds) \in Nat, NEW e \in Vec, NEW v, NEW n \in Int, VecSound(e[1], v),
         Begun(v) = Begun(vec[e]), n = Waited(vec[e]), Waited(v) = n + 1,
         v.taskId = vec[e].taskId \/ v.taskId = vec[e].taskId + 1, Passed(v) = Passed(vec[e]), v.pc # "pre",
         vec[e].pc # "pre", \A t \in Tasks : MulDone(v, t) <=> MulDone(vec[e], t),
         vec' = [vec EXCEPT ![e] = v], UNCHANGED <<cube, ws, dtmWs, zeroed>>,
         HasBlock(n, e[1]) => Told(n, e[1]),
         IF HasBlock(n, e[1])
         THEN flags[C2_V1][e][n % 2] > 0 /\ flags' = Take(C2_V1, {e}, n % 2)
         ELSE flags' = flags
  PROVE  PipesNext
<1>1. C1_V1 \in Flag /\ C1_V1 # C2_V1 /\ V1_C2 # C2_V1 /\ V1_C2 \in Flag /\ C2_V1 \in Flag
  BY DEF Flag, C1_V1, V1_C2, C2_V1
<1>2. PICK g2 : g2 = flags'[C2_V1][e]
  OBVIOUS
<1>3. /\ FlagsTyped(flags')
      /\ flags'[V1_C2][e] = flags[V1_C2][e] /\ flags'[C1_V1][e] = flags[C1_V1][e]
      /\ \A x \in Vec : x # e => \A h \in Flag : flags'[h][x] = flags[h][x]
      /\ IF HasBlock(n, e[1]) /\ Told(n, e[1])
         THEN flags[C2_V1][e][n % 2] > 0 /\ g2 = Down(flags[C2_V1][e], n % 2)
         ELSE g2 = flags[C2_V1][e]
  <2>1. CASE HasBlock(n, e[1])
    <3>1. PICK p \in Parity : p = n % 2
      BY <2>1, Blocks, TaskParity
    <3>2. flags' = Take(C2_V1, {e}, p)
      BY <2>1, <3>1
    <3>3. /\ FlagsTyped(flags') /\ flags'[C2_V1][e] = Down(flags[C2_V1][e], p)
          /\ \A h \in Flag : h # C2_V1 => flags'[h][e] = flags[h][e]
          /\ \A x \in Vec : x # e => \A h \in Flag : flags'[h][x] = flags[h][x]
      BY <1>1, <3>2, TakeOne, ZenonT(30)
    <3>4. QED
      BY <1>1, <1>2, <2>1, <3>1, <3>3
  <2>2. CASE ~HasBlock(n, e[1])
    BY <1>2, <2>2 DEF PipesInv, Shapes
  <2>3. QED
    BY <2>1, <2>2
<1>4. \A x \in Vec : WsNext(x) = WsOf(x)
  BY DEF WsNext, WsOf
<1>5. VecGoes(e, v)
  BY <1>3, <1>4 DEF PipesInv, Shapes, VecGoes
<1>6. /\ CubeTyped(cube[e[1]]) /\ VecTyped(e[1], vec[e])
      /\ EngineSound(e[1], cube[e[1]], vec[e], flags[C1_V1][e], flags[V1_C2][e], flags[C2_V1][e], WsOf(e), dtmWs[e[1]])
  BY OfEngine
<1>7. EngineSound(e[1], cube[e[1]], v, flags[C1_V1][e], flags[V1_C2][e], g2, WsOf(e), dtmWs[e[1]])
  <2>1. Waited(v) = Waited(vec[e]) + 1
    OBVIOUS
  <2>2. IF HasBlock(Waited(vec[e]), e[1]) /\ Told(Waited(vec[e]), e[1])
        THEN flags[C2_V1][e][Waited(vec[e]) % 2] > 0 /\ g2 = Down(flags[C2_V1][e], Waited(vec[e]) % 2)
        ELSE g2 = flags[C2_V1][e]
    BY <1>3
  <2>3. \A t \in Tasks : HasBlock(t, e[1]) => (MulDone(v, t) <=> MulDone(vec[e], t))
    OBVIOUS
  <2>4. QED
    BY <1>6, <2>1, <2>2, <2>3, VecWaits
<1>8. EngineSound(e[1], cube[e[1]], v, flags'[C1_V1][e], flags'[V1_C2][e], flags'[C2_V1][e], WsNext(e), dtmWs[e[1]])
  BY <1>2, <1>3, <1>4, <1>7
<1>9. e \in zeroed'
  BY DEF PipesInv, Cleared
<1>10. QED
  BY <1>5, <1>8, <1>9, VecMoves

LEMMA VecLastWaitKeeps ==
  ASSUME PipesInv, Len(rounds) \in Nat, NEW e \in Vec, VecLastWait(e)
  PROVE  PipesNext
<1>1. PICK v : v = NextRound(vec[e])
  OBVIOUS
<1>2. vec[e].pc = "lastWait" /\ VecSound(e[1], vec[e]) /\ vec[e].taskId \in Nat
  BY OfEngine DEF VecLastWait, VecTyped, VecRec
<1>3. PICK n \in Int : n = vec[e].taskId - 1
  BY <1>2
<1>4. /\ VecSound(e[1], v) /\ Begun(v) = Begun(vec[e]) /\ Waited(v) = n + 1 /\ Waited(vec[e]) = n
      /\ v.taskId = vec[e].taskId + 1 /\ Passed(v) = Passed(vec[e]) /\ v.pc # "pre"
      /\ HasBlock(n, e[1]) /\ Told(n, e[1])
      /\ \A t \in Tasks : MulDone(v, t) <=> MulDone(vec[e], t)
  <2>1. /\ VecSound(e[1], v) /\ Begun(v) = Begun(vec[e]) /\ Waited(v) = Waited(vec[e]) + 1
        /\ Waited(vec[e]) = vec[e].taskId - 1
        /\ v.taskId = vec[e].taskId + 1 /\ Passed(v) = Passed(vec[e]) /\ v.pc # "pre"
        /\ HasBlock(Waited(vec[e]), e[1]) /\ Told(Waited(vec[e]), e[1])
        /\ \A t \in Tasks : MulDone(v, t) <=> MulDone(vec[e], t)
    BY <1>1, <1>2, VecLastWaitIs
  <2>2. QED
    BY <1>3, <2>1
<1>5. /\ vec' = [vec EXCEPT ![e] = v] /\ UNCHANGED <<cube, ws, dtmWs, zeroed>>
      /\ flags[C2_V1][e][n % 2] > 0 /\ flags' = Take(C2_V1, {e}, n % 2)
  BY <1>1, <1>3 DEF VecLastWait, PingPong, IsSet
<1>6. QED
  BY <1>2, <1>4, <1>5, VecWaitKeeps

LEMMA VecAddWaitKeeps ==
  ASSUME PipesInv, Len(rounds) \in Nat, NEW e \in Vec, VecAddWait(e)
  PROVE  PipesNext
<1>1. PICK v : v = [vec[e] EXCEPT !.pc = "addSync"]
  OBVIOUS
<1>2. vec[e].pc = "addWait" /\ VecSound(e[1], vec[e]) /\ vec[e].taskId \in Nat
  BY OfEngine DEF VecAddWait, VecTyped, VecRec
<1>3. PICK n \in Int : n = vec[e].taskId - 2
  BY <1>2
<1>4. /\ VecSound(e[1], v) /\ Begun(v) = Begun(vec[e]) /\ Waited(v) = n + 1 /\ Waited(vec[e]) = n
      /\ v.taskId = vec[e].taskId /\ Passed(v) = Passed(vec[e]) /\ v.pc # "pre" /\ launch.dtm
      /\ \A t \in Tasks : MulDone(v, t) <=> MulDone(vec[e], t)
  <2>1. MovesTo(vec[e], v, v.pc) /\ v.pc = "addSync"
    BY <1>1, <1>2, OfEngine DEF MovesTo, VecTyped, VecRec
  <2>2. /\ VecSound(e[1], v) /\ Begun(v) = Begun(vec[e]) /\ Waited(v) = Waited(vec[e]) + 1
        /\ Waited(vec[e]) = vec[e].taskId - 2
        /\ v.taskId = vec[e].taskId /\ Passed(v) = Passed(vec[e]) /\ v.pc # "pre" /\ launch.dtm
        /\ \A t \in Tasks : MulDone(v, t) <=> MulDone(vec[e], t)
    BY <1>2, <2>1, VecAddWaitIs, SMTT(30)
  <2>3. QED
    BY <1>3, <2>2
<1>5. /\ vec' = [vec EXCEPT ![e] = v] /\ UNCHANGED <<cube, ws, dtmWs, zeroed>>
      /\ IF HasBlock(n, e[1])
         THEN flags[C2_V1][e][n % 2] > 0 /\ flags' = Take(C2_V1, {e}, n % 2)
         ELSE flags' = flags
  BY <1>1, <1>3 DEF VecAddWait, PingPong, IsSet
<1>6. HasBlock(n, e[1]) => Told(n, e[1])
  BY <1>4 DEF Told
<1>7. QED
  BY <1>2, <1>4, <1>5, <1>6, VecWaitKeeps

(* The barrier opens for all engines at once. *)
LEMMA VecSyncKeeps ==
  ASSUME PipesInv, Len(rounds) \in Nat, VecSync
  PROVE  PipesNext
<1>1. UNCHANGED <<cube, flags, ws, dtmWs, zeroed>>
  BY DEF VecSync
<1>2. ASSUME NEW e \in Vec
      PROVE  /\ VecSound(e[1], vec'[e]) /\ vec'[e] \in VecRec /\ EngineNext(e)
             /\ Passed(vec[e]) \in Nat /\ Passed(vec'[e]) = Passed(vec[e]) + 1 /\ e \in zeroed
  <2>1. PICK v : v = AfterSync(vec[e])
    OBVIOUS
  <2>2. /\ vec[e].pc \in {"preSync", "addSync", "roundSync", "postSync"} /\ vec'[e] = v
        /\ VecSound(e[1], vec[e])
    BY <2>1, OfEngine DEF VecSync
  <2>3. /\ VecSound(e[1], v) /\ Begun(v) = Begun(vec[e]) /\ Waited(v) = Waited(vec[e])
        /\ v.taskId = vec[e].taskId \/ v.taskId = vec[e].taskId + 1
        /\ Passed(vec[e]) \in Nat /\ Passed(v) = Passed(vec[e]) + 1
        /\ \A t \in Tasks : MulDone(v, t) <=> MulDone(vec[e], t)
    <3>1. IsAfterSync(vec[e], v)
      BY <2>1 DEF IsAfterSync
    <3>2. QED
      BY <2>2, <3>1, VecSyncIs
  <2>4. /\ VecTyped(e[1], vec[e])
        /\ EngineSound(e[1], cube[e[1]], vec[e], flags[C1_V1][e], flags[V1_C2][e], flags[C2_V1][e], WsOf(e), dtmWs[e[1]])
    BY OfEngine
  <2>5. EngineSound(e[1], cube[e[1]], v, flags[C1_V1][e], flags[V1_C2][e], flags[C2_V1][e], WsOf(e), dtmWs[e[1]])
    BY <2>3, <2>4, VecKeeps
  <2>6. WsNext(e) = WsOf(e)
    BY <1>1 DEF WsNext, WsOf
  <2>7. EngineNext(e)
    BY <1>1, <2>2, <2>5, <2>6 DEF EngineNext
  <2>8. vec'[e] \in VecRec /\ e \in zeroed
    BY <2>2, <2>3 DEF VecSound, VecTyped, PipesInv, Cleared
  <2>9. QED
    BY <2>2, <2>3, <2>7, <2>8
<1>3. vec' \in [Vec -> VecRec]
  <2>1. vec' = [e \in Vec |-> vec'[e]]
    BY DEF VecSync
  <2>2. QED
    BY <1>2, <2>1
<1>4. zeroed = Vec
  BY <1>2 DEF PipesInv, Cleared
<1>5. \A e, f \in Vec : Passed(vec'[e]) = Passed(vec'[f])
  BY <1>2 DEF PipesInv, Together
<1>6. QED
  BY <1>1, <1>2, <1>3, <1>4, <1>5 DEF PipesInv, PipesNext, Shapes
-----------------------------------------------------------------------------
(* Before the engines begin, nothing is under way and nothing is due. *)
LEMMA PipesInvInit ==
  ASSUME PipeInit, Len(rounds) \in Nat
  PROVE  PipesInv
<1>1. Extra \in 1 .. 2 /\ LastTask \in Nat \ {0} /\ EndTask = LastTask + Extra + 1
  BY Ends
<1>2. PICK k : k = [pc |-> "first", taskId |-> 1, extra |-> Extra, pipe |-> <<>>]
  OBVIOUS
<1>3. PICK v : v = [pc |-> "pre", taskId |-> 1, extra |-> Extra, pipe |-> <<>>]
  OBVIOUS
<1>4. /\ k \in CubeRec /\ k.pc = "first" /\ k.taskId = 1 /\ k.extra = Extra /\ k.pipe = <<>>
      /\ v \in VecRec /\ v.pc = "pre" /\ v.taskId = 1 /\ v.extra = Extra /\ v.pipe = <<>>
  BY <1>1, <1>2, <1>3 DEF CubeRec, VecRec, CubePc, VecPc
<1>5. /\ \A c \in Core : cube[c] = k
      /\ \A e \in Vec : vec[e] = v
      /\ \A f \in Flag, e \in Vec, p \in Parity : flags[f][e][p] = 0
  BY <1>2, <1>3 DEF PipeInit
<1>6. Shapes
  <2>1. cube \in [Core -> CubeRec] /\ vec \in [Vec -> VecRec]
    BY <1>2, <1>3, <1>4 DEF PipeInit
  <2>2. FlagsTyped(flags)
    BY DEF PipeInit, FlagsTyped
  <2>3. WsTyped(ws)
    <3>1. Empty \in Workspace
      BY DEF Empty, NoTask, Workspace
    <3>2. QED
      BY <3>1 DEF PipeInit, WsTyped
  <2>4. DtmTyped(dtmWs)
    BY DEF PipeInit, DtmTyped, NoTask
  <2>5. QED
    BY <2>1, <2>2, <2>3, <2>4 DEF Shapes
<1>7. ASSUME NEW c \in Core PROVE CubeSound(c, cube[c])
  <2>1. CubeTyped(k)
    BY <1>1, <1>4 DEF CubeTyped, ExtraAt
  <2>2. CubePipeSound(c, k)
    BY <1>4 DEF CubePipeSound, PipeSound
  <2>3. QED
    BY <1>5, <2>1, <2>2 DEF CubeSound
<1>8. ASSUME NEW e \in Vec PROVE VecSound(e[1], vec[e])
  <2>1. VecTyped(e[1], v)
    BY <1>1, <1>4 DEF VecTyped, ExtraAt
  <2>2. VecPipeSound(e[1], v)
    BY <1>4 DEF VecPipeSound
  <2>3. QED
    BY <1>5, <2>1, <2>2 DEF VecSound
<1>9. \A t \in Tasks : ~ScoresDone(k, t) /\ ~GradsDone(k, t) /\ ~MulDone(v, t) /\ ~(t <= Graded(k)) /\ ~(t < Begun(v))
  <2>1. \A t \in Tasks : t \in Nat
    BY Ends
  <2>2. Issued(k) = -1 /\ Graded(k) = -1 /\ Begun(v) = 0
    BY <1>4 DEF Issued, Graded, Begun
  <2>3. QED
    BY <2>1, <2>2 DEF ScoresDone, GradsDone, MulDone
<1>10. Waited(v) <= 0
  BY <1>4 DEF Waited
<1>11. ASSUME NEW e \in Vec PROVE EngineInv(e)
  <2>1. e[1] \in Core /\ cube[e[1]] = k /\ vec[e] = v
    BY <1>5 DEF Vec
  <2>2. \A t \in Tasks : ~(t < Waited(v))
    BY <1>4, <1>10, Ends DEF Waited
  <2>3. Ordered(e[1], k, v)
    BY <1>9, <2>2 DEF Ordered, AfterScores, AfterMul, AfterGrads
  <2>4. FlagsRight(e[1], k, v, flags[C1_V1][e], flags[V1_C2][e], flags[C2_V1][e])
    <3>1. \A t \in Tasks : ~ScoresDue(e[1], k, v, t) /\ ~MulDue(e[1], k, v, t) /\ ~GradsDue(e[1], k, v, t)
      BY <1>9 DEF ScoresDue, MulDue, GradsDue
    <3>2. \A p \in Parity : flags[C1_V1][e][p] = 0 /\ flags[V1_C2][e][p] = 0 /\ flags[C2_V1][e][p] = 0
      BY <1>5 DEF Flag
    <3>3. QED
      BY <3>1, <3>2 DEF FlagsRight, ScoresFlag, MulFlag, GradsFlag
  <2>5. Held(e[1], k, v, WsOf(e), dtmWs[e[1]])
    BY <1>9 DEF Held, ScoresHeld, MulHeld, ProductsHeld
  <2>6. QED
    BY <2>1, <2>3, <2>4, <2>5 DEF EngineInv, EngineSound
<1>12. Passed(v) = 0
  BY <1>4 DEF Passed
<1>13. Together /\ Cleared
  BY <1>4, <1>5, <1>12 DEF Together, Cleared, PipeInit
<1>14. QED
  BY <1>6, <1>7, <1>8, <1>11, <1>13 DEF PipesInv
-----------------------------------------------------------------------------
(* The invariant: the plan is sound, no engine works before it is there, and *)
(* the engines are where they may be.                                        *)
BwdInv == BlocksInv /\ PipesInv /\ (Running \/ PipeInit)

LEMMA RoundsCounted ==
  ASSUME BlocksInv
  PROVE  Len(rounds) \in Nat
BY DEF BlocksInv

LEMMA PlanKeeps ==
  ASSUME BwdInv, Plan
  PROVE  BlocksInv' /\ PipeInit'
<1>1. BlocksInv'
  BY BlocksInvStep DEF BwdInv, Plan
<1>2. ~Running
  BY DEF Plan, CalcValidBlock, EndOfBlocks, SkipColumn, DealBlocks, Running, Planned
<1>3. PipeInit
  BY <1>2 DEF BwdInv
<1>4. launch' = launch
  BY DEF Plan, CalcValidBlock, EndOfBlocks, SkipColumn, DealBlocks
<1>5. QED
  BY <1>1, <1>3, <1>4 DEF Plan, PipeInit, pipeVars, Extra

LEMMA EnginesKeep ==
  ASSUME BwdInv, Running, UNCHANGED blockVars, PipesNext
  PROVE  BlocksInv' /\ PipesInv' /\ Running'
<1>1. BlocksInv'
  BY BlocksInvStep DEF BwdInv
<1>2. Running'
  BY DEF Running, Planned, blockVars
<1>3. QED
  BY <1>1, <1>2, Behind

LEMMA RestKeeps ==
  ASSUME BwdInv, UNCHANGED vars
  PROVE  BwdInv'
<1>1. UNCHANGED blockVars /\ UNCHANGED <<cube, vec, flags, ws, dtmWs, zeroed, sums>>
  BY DEF vars, pipeVars
<1>2. BlocksInv'
  BY <1>1, BlocksInvStep DEF BwdInv
<1>3. PipesNext
  BY <1>1 DEF BwdInv, PipesInv, PipesNext, Shapes, EngineInv, EngineNext, WsOf, WsNext, Together, Cleared
<1>4. PipesInv'
  BY <1>1, <1>3, Behind
<1>5. (Running \/ PipeInit)'
  BY <1>1 DEF BwdInv, Running, Planned, PipeInit, blockVars, Extra
<1>6. QED
  BY <1>2, <1>4, <1>5 DEF BwdInv

LEMMA BwdInvStep ==
  ASSUME BwdInv, [Next]_vars
  PROVE  BlocksInv' /\ (PipesInv \/ PipeInit)' /\ (Running \/ PipeInit)'
<1>1. PipesInv /\ Len(rounds) \in Nat
  BY RoundsCounted DEF BwdInv
<1>2. CASE Plan
  BY <1>2, PlanKeeps
<1>3. ASSUME NEW c \in Core, Engines(CubeStep(c)) \/ Engines(CubePipe(c))
      PROVE  BlocksInv' /\ PipesInv' /\ Running'
  <2>1. Running /\ UNCHANGED blockVars /\ (CubeFirst(c) \/ CubeGradients(c) \/ CubePipe(c))
    BY <1>3 DEF Engines, CubeStep
  <2>2. PipesNext
    BY <1>1, <2>1, CubeFirstKeeps, CubeGradientsKeeps, CubePipeKeeps
  <2>3. QED
    BY <2>1, <2>2, EnginesKeep
<1>4. ASSUME NEW e \in Vec, Engines(VecStep(e)) \/ Engines(VecPipe(e))
      PROVE  BlocksInv' /\ PipesInv' /\ Running'
  <2>1. /\ Running /\ UNCHANGED blockVars
        /\ \/ VecPre(e) \/ VecAdd(e) \/ VecPost(e)
           \/ VecBlock(e) \/ VecIdle(e)
           \/ VecLastWait(e)
           \/ VecAddWait(e)
           \/ VecPipe(e)
    BY <1>4 DEF Engines, VecStep
  <2>2. PipesNext
    BY <1>1, <2>1, VecGoesKeeps, VecBlockKeeps, VecLastWaitKeeps, VecAddWaitKeeps, VecPipeKeeps
  <2>3. QED
    BY <2>1, <2>2, EnginesKeep
<1>5. ASSUME Engines(CubeSync) \/ Engines(VecSync)
      PROVE  BlocksInv' /\ PipesInv' /\ Running'
  <2>1. Running /\ UNCHANGED blockVars /\ (CubeSync \/ VecSync)
    BY <1>5 DEF Engines
  <2>2. PipesNext
    BY <1>1, <2>1, CubeSyncKeeps, VecSyncKeeps
  <2>3. QED
    BY <2>1, <2>2, EnginesKeep
<1>6. CASE Finished \/ UNCHANGED vars
  BY <1>6, RestKeeps DEF Finished, BwdInv
<1>7. QED
  BY <1>2, <1>3, <1>4, <1>5, <1>6 DEF Next

LEMMA BwdInvAlways == Spec => []BwdInv
<1>1. Init => BlocksInv /\ PipeInit
  BY BlocksInvInit DEF Init
<1>2. BlocksInv /\ PipeInit => PipesInv
  BY RoundsCounted, PipesInvInit
<1>3. BwdInv /\ [Next]_vars => BlocksInv' /\ (PipesInv \/ PipeInit)' /\ (Running \/ PipeInit)'
  BY BwdInvStep
<1>4. BlocksInv /\ (PipesInv \/ PipeInit) /\ (Running \/ PipeInit) => BwdInv
  BY <1>2 DEF BwdInv
<1>5. BwdInv => BlocksInv /\ (PipesInv \/ PipeInit) /\ (Running \/ PipeInit)
  BY DEF BwdInv
<1>6. QED
  BY <1>1, <1>3, <1>4, <1>5, PTL DEF Spec
-----------------------------------------------------------------------------
(* What the invariant says of the workspaces. *)

(* An operation of the cube under way on the workspaces of a task is one of  *)
(* the task itself, or of a task two or more apart.                          *)
LEMMA UnderWay ==
  ASSUME PipesInv, Len(rounds) \in Nat, NEW c \in Core, NEW op, NEW t \in Tasks, Writing(c, op, t % 2)
  PROVE  \E x \in Tasks :
           /\ HasBlock(x, c) /\ HasOp(cube[c].pipe, op, x) /\ x % 2 = t % 2
           /\ op = "mm1" => x <= Issued(cube[c]) /\ (HasBlock(t, c) /\ ScoresDone(cube[c], t) => t < x)
           /\ op = "mmDqkv" => x <= Graded(cube[c]) /\ (HasBlock(t, c) /\ GradsDone(cube[c], t) => t < x)
<1>1. PICK k : k = cube[c]
  OBVIOUS
<1>2. k.pipe \in Seq(Op) /\ PipeSound(c, k.pipe, Issued(k), Graded(k))
  BY <1>1 DEF PipesInv, CubeSound, CubeTyped, CubePipeSound, CubeRec
<1>3. PICK o : o = Head(k.pipe)
  OBVIOUS
<1>4. k.pipe # <<>> /\ o.op = op /\ o.task % 2 = t % 2
  BY <1>1, <1>3 DEF Writing, PingPong
<1>5. 1 \in DOMAIN k.pipe /\ k.pipe[1] = o
  BY <1>2, <1>3, <1>4
<1>6. PipeOp(c, k.pipe, Issued(k), Graded(k), o)
  BY <1>2, <1>5 DEF PipeSound
<1>7. o.task \in Tasks /\ HasBlock(o.task, c) /\ HasOp(k.pipe, op, o.task)
  BY <1>4, <1>5, <1>6, Blocks DEF PipeOp, HasOp
<1>8. t \in Nat /\ o.task \in Nat
  BY <1>7, Ends
<1>9. ASSUME op = "mm1"
      PROVE  o.task <= Issued(k) /\ (HasBlock(t, c) /\ ScoresDone(k, t) => t < o.task)
  <2>1. o.task <= Issued(k) /\ Place(o) = 2 * o.task
    BY <1>4, <1>6, <1>9 DEF PipeOp, Place
  <2>2. HasBlock(t, c) /\ ScoresDone(k, t) => ~(2 * t > Place(o)) /\ t # o.task
    BY <1>6, <1>7, <1>9 DEF PipeOp, ScoresDone
  <2>3. QED
    BY <1>8, <2>1, <2>2
<1>10. ASSUME op = "mmDqkv"
      PROVE  o.task <= Graded(k) /\ (HasBlock(t, c) /\ GradsDone(k, t) => t < o.task)
  <2>1. o.task <= Graded(k) /\ Place(o) = 2 * o.task + 3
    BY <1>4, <1>6, <1>10 DEF PipeOp, Place
  <2>2. HasBlock(t, c) /\ GradsDone(k, t) => ~(2 * t + 3 > Place(o)) /\ t # o.task
    BY <1>6, <1>7, <1>10 DEF PipeOp, GradsDone
  <2>3. QED
    BY <1>8, <2>1, <2>2
<1>11. QED
  BY <1>1, <1>4, <1>7, <1>9, <1>10

LEMMA ScoresKept ==
  ASSUME PipesInv, Len(rounds) \in Nat
  PROVE  ScoresIntact
<1> SUFFICES ASSUME NEW e \in Vec, NEW i \in DOMAIN vec[e].pipe
             PROVE  LET t == vec[e].pipe[i]
                    IN /\ ws[e[1]][PingPong(t)][e[2]] = [kind |-> "scores", task |-> t]
                       /\ zeroed = Vec
                       /\ ~Writing(e[1], "mm1", PingPong(t))
  BY DEF ScoresIntact
<1>1. PICK k, v, t : k = cube[e[1]] /\ v = vec[e] /\ t = vec[e].pipe[i]
  OBVIOUS
<1>2. /\ e[1] \in Core /\ CubeTyped(k) /\ VecTyped(e[1], v) /\ VecPipeSound(e[1], v)
      /\ EngineSound(e[1], k, v, flags[C1_V1][e], flags[V1_C2][e], flags[C2_V1][e], WsOf(e), dtmWs[e[1]])
  BY <1>1, OfEngine DEF VecSound
<1>3. Ordered(e[1], k, v) /\ ScoresHeld(e[1], k, v, WsOf(e))
  BY <1>2 DEF EngineSound, Held
<1>4. t \in Tasks /\ HasBlock(t, e[1]) /\ t < Begun(v) /\ ~MulDone(v, t)
  BY <1>1, <1>2, Blocks DEF VecPipeSound, MulDone, InPipe
<1>5. t \in Nat /\ t % 2 \in Parity /\ ScoresDone(k, t) /\ t > Graded(k)
  BY <1>2, <1>3, <1>4, Ends, TaskParity, DueNear DEF Ordered, AfterScores
<1>6. ws[e[1]][t % 2][e[2]] = [kind |-> "scores", task |-> t]
  BY <1>3, <1>4, <1>5 DEF ScoresHeld, WsOf
<1>7. zeroed = Vec
  <2>1. v \in VecRec /\ v.pipe # <<>> /\ v.pc \notin {"pre", "preSync"}
    BY <1>1, <1>2 DEF VecTyped
  <2>2. Passed(v) > 0
    <3>1. /\ v.taskId \in Nat /\ v.taskId >= 1 /\ v.pc \in VecPc
          /\ v.pc \in {"add", "roundSync"} => v.taskId > 1
          /\ v.pc \in {"post", "done"} => v.taskId = EndTask
      BY <1>2 DEF VecTyped, VecRec
    <3>2. EndTask \in Nat /\ EndTask > 1
      BY Ends
    <3>3. v.pc \in {"add", "roundSync", "post", "done"} => Passed(v) = IF launch.dtm THEN 2 * v.taskId - 2 ELSE 2
      BY DEF Passed
    <3>4. v.pc \in {"loop", "lastWait", "addWait", "addSync", "postSync"} =>
            Passed(v) = IF launch.dtm /\ v.taskId > 1 THEN 2 * v.taskId - 3 ELSE 1
      BY DEF Passed
    <3>5. CASE v.pc \in {"add", "roundSync", "post", "done"}
      BY <3>1, <3>2, <3>3, <3>5
    <3>6. CASE v.pc \in {"loop", "lastWait", "addWait", "addSync", "postSync"}
      BY <3>1, <3>4, <3>6
    <3>7. QED
      BY <2>1, <3>1, <3>5, <3>6 DEF VecPc
  <2>3. QED
    BY <1>1, <2>2 DEF PipesInv, Cleared
<1>8. ASSUME Writing(e[1], "mm1", t % 2) PROVE FALSE
  <2>1. PICK x \in Tasks : x % 2 = t % 2 /\ x <= Issued(k) /\ t < x
    BY <1>1, <1>2, <1>4, <1>5, <1>8, UnderWay
  <2>2. Issued(k) \in Int /\ Graded(k) \in Int /\ Issued(k) <= Graded(k) + 2 /\ x \in Nat
    BY <1>2, CubeAhead, Ends
  <2>3. x <= t + 1
    BY <1>5, <2>1, <2>2
  <2>4. QED
    BY <1>5, <2>1, <2>2, <2>3
<1>9. QED
  BY <1>1, <1>6, <1>7, <1>8 DEF PingPong

LEMMA MulKept ==
  ASSUME PipesInv, Len(rounds) \in Nat
  PROVE  MulIntact
<1> SUFFICES ASSUME NEW c \in Core, NEW i \in DOMAIN cube[c].pipe, cube[c].pipe[i].op = "mmDqkv", NEW h \in Half
             PROVE  LET t == cube[c].pipe[i].task
                    IN ws[c][PingPong(t)][h] = [kind |-> "mul", task |-> t]
  BY DEF MulIntact
<1>1. PICK k, t : k = cube[c] /\ t = cube[c].pipe[i].task
  OBVIOUS
<1>2. PICK e \in Vec : e[1] = c /\ e[2] = h
  <2>1. <<c, h>> \in Vec /\ <<c, h>>[1] = c /\ <<c, h>>[2] = h
    BY DEF Vec
  <2>2. QED
    BY <2>1
<1>3. /\ CubeTyped(k) /\ CubePipeSound(c, k) /\ VecTyped(c, vec[e])
      /\ EngineSound(c, k, vec[e], flags[C1_V1][e], flags[V1_C2][e], flags[C2_V1][e], WsOf(e), dtmWs[c])
  BY <1>1, <1>2, OfEngine DEF CubeSound
<1>4. t \in Tasks /\ HasBlock(t, c) /\ t <= Graded(k) /\ ~GradsDone(k, t)
  <2>1. PipeOp(c, k.pipe, Issued(k), Graded(k), k.pipe[i])
    BY <1>1, <1>3 DEF CubePipeSound, PipeSound
  <2>2. HasOp(k.pipe, "mmDqkv", t)
    BY <1>1 DEF HasOp
  <2>3. QED
    BY <1>1, <2>1, <2>2, Blocks DEF PipeOp, GradsDone
<1>5. MulDone(vec[e], t) /\ t % 2 \in Parity
  BY <1>3, <1>4, TaskParity DEF EngineSound, Ordered, AfterMul
<1>6. WsOf(e)[t % 2] = [kind |-> "mul", task |-> t]
  BY <1>3, <1>4, <1>5 DEF EngineSound, Held, MulHeld
<1>7. QED
  BY <1>1, <1>2, <1>5, <1>6 DEF WsOf, PingPong

(* A core that the reduction of a round goes through has a block in it. *)
LEMMA ListedHaveBlocks ==
  ASSUME BlocksInv, NEW t \in Nat, NEW c \in Listed(t)
  PROVE  HasBlock(t, c)
<1>1. c \in Core /\ \A d \in 0 .. c : RoundAt(t)[d].blockIdArr # NO_BLOCK
  BY DEF Listed
<1>2. c \in Nat /\ 0 \in Core /\ 0 \in 0 .. c /\ c \in 0 .. c
  BY <1>1, BlocksAssumption DEF Core
<1>3. t < Len(rounds)
  <2>1. ASSUME ~(t < Len(rounds)) PROVE RoundAt(t)[0].blockIdArr = NO_BLOCK
    <3>1. RoundAt(t)[0] = [Blank EXCEPT !.blockId = NO_BLOCK, !.blockIdArr = NO_BLOCK]
      BY <1>2, <2>1 DEF RoundAt, NoBlocksFrom
    <3>2. QED
      BY <3>1 DEF Blank
  <2>2. QED
    BY <1>1, <1>2, <2>1
<1>4. t + 1 \in DOMAIN rounds /\ Len(rounds) \in Nat
  BY <1>3 DEF BlocksInv
<1>5. RoundSound(rounds[t + 1]) /\ RoundAt(t) = rounds[t + 1]
  BY <1>3, <1>4 DEF BlocksInv, RoundAt
<1>6. RoundAt(t)[c].blockId # NO_BLOCK
  BY <1>1, <1>5 DEF RoundSound
<1>7. QED
  BY <1>3, <1>4, <1>6 DEF HasBlock

(* Engines between the same barriers are at the same task. *)
LEMMA AddTogether ==
  ASSUME PipesInv, Len(rounds) \in Nat, NEW e \in Vec, NEW f \in Vec, vec[e].pc = "add"
  PROVE  /\ vec[f].pc \in {"add", "roundSync"} /\ vec[f].taskId = vec[e].taskId
         /\ launch.dtm /\ vec[e].taskId \in Nat /\ vec[e].taskId > 1
<1>1. PICK u, v : u = vec[e] /\ v = vec[f]
  OBVIOUS
<1>2. VecTyped(e[1], u) /\ VecTyped(f[1], v) /\ Passed(u) = Passed(v)
  BY <1>1, OfEngine DEF PipesInv, Together
<1>3. u.pc = "add" /\ launch.dtm /\ u.taskId \in Nat /\ u.taskId > 1 /\ u.taskId < EndTask
  BY <1>1, <1>2 DEF VecTyped, VecRec
<1>4. v.taskId \in Nat /\ v.taskId >= 1 /\ v.pc \in VecPc /\ (v.pc \in {"post", "done"} => v.taskId = EndTask)
  BY <1>2 DEF VecTyped, VecRec
<1>5. Passed(u) = 2 * u.taskId - 2
  BY <1>3 DEF Passed
<1>6. EndTask \in Nat
  BY Ends
<1>7. v.pc \notin {"pre", "preSync"}
  BY <1>2, <1>3, <1>5 DEF Passed
<1>8. v.pc \notin {"loop", "lastWait", "addWait", "addSync", "postSync"}
  <2>1. ASSUME v.pc \in {"loop", "lastWait", "addWait", "addSync", "postSync"}
        PROVE  Passed(v) = IF v.taskId > 1 THEN 2 * v.taskId - 3 ELSE 1
    BY <1>3, <2>1 DEF Passed
  <2>2. QED
    BY <1>2, <1>3, <1>4, <1>5, <2>1
<1>9. Passed(v) = 2 * v.taskId - 2
  BY <1>3, <1>4, <1>7, <1>8 DEF Passed, VecPc
<1>10. v.taskId = u.taskId
  <2>1. PICK a \in Nat, b \in Nat : a = u.taskId /\ b = v.taskId
    BY <1>3, <1>4
  <2>2. 2 * a - 2 = 2 * b - 2
    BY <1>2, <1>5, <1>9, <2>1
  <2>3. QED
    BY <2>1, <2>2
<1>11. QED
  BY <1>1, <1>3, <1>4, <1>6, <1>7, <1>8, <1>10 DEF VecPc

LEMMA ProductsKept ==
  ASSUME BlocksInv, PipesInv, Len(rounds) \in Nat
  PROVE  ProductsIntact
<1> SUFFICES ASSUME NEW e \in Vec, vec[e].pc = "add", NEW grad \in Grad, NEW c \in Listed(vec[e].taskId - 2),
                    ~Direct(grad, <<vec[e].taskId - 2, c>>)
             PROVE  LET t == vec[e].taskId - 2
                    IN dtmWs[c][PingPong(t)][grad] = t /\ ~Writing(c, "mmDqkv", PingPong(t))
  BY DEF ProductsIntact
<1>1. vec[e].taskId \in Nat /\ vec[e].taskId > 1 /\ launch.dtm /\ c \in Core
  BY AddTogether DEF Listed
<1>2. PICK t \in Nat : t = vec[e].taskId - 2
  BY <1>1
<1>3. PICK f \in Vec : f[1] = c
  <2>1. <<c, 0>> \in Vec /\ <<c, 0>>[1] = c
    BY <1>1 DEF Vec, Half
  <2>2. QED
    BY <2>1
<1>4. PICK k, v : k = cube[c] /\ v = vec[f]
  OBVIOUS
<1>5. v.pc \in {"add", "roundSync"} /\ v.taskId = t + 2
  BY <1>1, <1>2, <1>4, AddTogether
<1>6. /\ CubeTyped(k) /\ VecTyped(c, v)
      /\ EngineSound(c, k, v, flags[C1_V1][f], flags[V1_C2][f], flags[C2_V1][f], WsOf(f), dtmWs[c])
  BY <1>3, <1>4, OfEngine
<1>7. Ordered(c, k, v) /\ ProductsHeld(c, k, v, dtmWs[c])
  BY <1>6 DEF EngineSound, Held
<1>8. HasBlock(t, c) /\ t \in Tasks /\ t % 2 \in Parity /\ Told(t, c)
  BY <1>1, <1>2, ListedHaveBlocks, Blocks, TaskParity DEF Told
<1>9. Begun(v) = t + 2 /\ Waited(v) = t + 1
  BY <1>5 DEF Begun, Waited
<1>10. GradsDone(k, t)
  BY <1>7, <1>8, <1>9 DEF Ordered, AfterGrads
<1>11. dtmWs[c][t % 2][grad] = t
  BY <1>1, <1>2, <1>5, <1>7, <1>8, <1>10 DEF ProductsHeld
<1>12. ASSUME Writing(c, "mmDqkv", t % 2) PROVE FALSE
  <2>1. PICK x \in Tasks : HasBlock(x, c) /\ x % 2 = t % 2 /\ x <= Graded(k) /\ t < x
    BY <1>1, <1>4, <1>8, <1>10, <1>12, UnderWay
  <2>2. x \in Nat /\ x < Begun(v)
    BY <1>7, <2>1, Ends DEF Ordered, AfterMul, MulDone
  <2>3. x = t + 1
    BY <1>9, <2>1, <2>2
  <2>4. QED
    BY <2>1, <2>3
<1>13. QED
  BY <1>2, <1>11, <1>12 DEF PingPong
-----------------------------------------------------------------------------
(* At the end nothing is due any more. *)
LEMMA NothingDue ==
  ASSUME PipesInv, Len(rounds) \in Nat, AllDone, NEW e \in Vec, NEW p \in Parity
  PROVE  flags[C1_V1][e][p] = 0 /\ flags[V1_C2][e][p] = 0 /\ flags[C2_V1][e][p] = 0
<1>1. PICK k, v : k = cube[e[1]] /\ v = vec[e]
  OBVIOUS
<1>2. /\ CubeTyped(k) /\ VecTyped(e[1], v)
      /\ EngineSound(e[1], k, v, flags[C1_V1][e], flags[V1_C2][e], flags[C2_V1][e], WsOf(e), dtmWs[e[1]])
  BY <1>1, OfEngine
<1>3. k.pc = "done" /\ v.pc = "done"
  BY <1>1, OfEngine DEF AllDone
<1>4. k.taskId = EndTask /\ v.taskId = EndTask
  BY <1>2, <1>3 DEF CubeTyped, VecTyped
<1>5. LastTask \in Nat /\ EndTask = LastTask + Extra + 1 /\ \A t \in Tasks : t \in Nat /\ t <= LastTask
  BY Ends
<1>6. Extra = IF launch.dtm THEN 2 ELSE 1
  BY DEF Extra
<1>7. \A t \in Tasks : t < Begun(v) /\ t <= Graded(k) /\ t < Waited(v)
  BY <1>3, <1>4, <1>5, <1>6 DEF Begun, Graded, Waited
<1>8. /\ Begun(v) \in Int /\ Graded(k) \in Int /\ Waited(v) \in Int
  BY <1>2, CubeAhead, VecAhead
<1>9. \A t \in Tasks : ~ScoresDue(e[1], k, v, t) /\ ~MulDue(e[1], k, v, t) /\ ~GradsDue(e[1], k, v, t)
  BY <1>5, <1>7, <1>8 DEF ScoresDue, MulDue, GradsDue
<1>10. QED
  BY <1>2, <1>9 DEF EngineSound, FlagsRight, ScoresFlag, MulFlag, GradsFlag

LEMMA BwdInvImplies ==
  ASSUME BwdInv
  PROVE  TypeOK /\ WorkspaceIntact /\ FlagsBalanced
<1>1. BlocksInv /\ PipesInv /\ Len(rounds) \in Nat
  BY RoundsCounted DEF BwdInv
<1>2. TypeOK
  <2>1. BlocksTypeOK
    BY <1>1, BlocksInvImplies
  <2>2. EndTask \in Nat
    BY <1>1, Ends
  <2>3. ASSUME NEW c \in Core
        PROVE  cube[c].pc \in {"first", "gradients", "sync", "lastSync", "done"} /\ cube[c].extra \in -1 .. 2
    <3>1. /\ cube[c] \in CubeRec /\ cube[c].taskId \in Nat /\ cube[c].taskId <= EndTask
          /\ cube[c].extra = ExtraAt(cube[c].taskId)
      BY <1>1, <2>2 DEF PipesInv, CubeSound, CubeTyped
    <3>2. ExtraAt(cube[c].taskId) \in -1 .. 2
      BY <1>1, <3>1, ExtraLeft
    <3>3. QED
      BY <3>1, <3>2 DEF CubeRec, CubePc
  <2>4. ASSUME NEW e \in Vec
        PROVE  /\ vec[e].pc \in {"pre", "preSync", "loop", "lastWait", "addWait", "addSync",
                                 "add", "roundSync", "postSync", "post", "done"}
               /\ vec[e].extra \in -1 .. 2
    <3>1. /\ vec[e] \in VecRec /\ vec[e].taskId \in Nat /\ vec[e].taskId <= EndTask
          /\ vec[e].extra = ExtraAt(vec[e].taskId)
      BY <1>1, <2>2 DEF PipesInv, VecSound, VecTyped
    <3>2. ExtraAt(vec[e].taskId) \in -1 .. 2
      BY <1>1, <3>1, ExtraLeft
    <3>3. QED
      BY <3>1, <3>2 DEF VecRec, VecPc
  <2>5. ASSUME NEW f \in Flag, NEW e \in Vec, NEW p \in Parity PROVE flags[f][e][p] \in 0 .. 1
    BY <1>1, OfEngine DEF EngineSound, FlagsRight, ScoresFlag, MulFlag, GradsFlag, Flag
  <2>6. zeroed \subseteq Vec
    BY <1>1 DEF PipesInv, Cleared
  <2>7. QED
    BY <2>1, <2>3, <2>4, <2>5, <2>6 DEF TypeOK
<1>3. WorkspaceIntact
  BY <1>1, ScoresKept, MulKept, ProductsKept DEF WorkspaceIntact
<1>4. FlagsBalanced
  BY <1>1, NothingDue DEF FlagsBalanced, Flag
<1>5. QED
  BY <1>2, <1>3, <1>4
-----------------------------------------------------------------------------
(* The kernel, with any number of cores and any launches. *)

(* States of the engines: no flag is set a second time before it is waited   *)
(* for, and no block that the walk deals out is empty or beyond its sequence.*)
THEOREM BwdTypeCorrect == Spec => []TypeOK
<1>1. BwdInv => TypeOK
  BY BwdInvImplies
<1>2. QED
  BY <1>1, BwdInvAlways, PTL

(* Two workspaces of each kind are enough: whatever the speed of the engines *)
(* and however the blocks are dealt out, no engine reads scores, gradients   *)
(* of scores or products of another task than its own, or while they are     *)
(* overwritten.                                                              *)
THEOREM WorkspacesKept == Spec => []WorkspaceIntact
<1>1. BwdInv => WorkspaceIntact
  BY BwdInvImplies
<1>2. QED
  BY <1>1, BwdInvAlways, PTL

(* A kernel leaves no flag behind that would release an engine of the next.  *)
THEOREM FlagsSpent == Spec => []FlagsBalanced
<1>1. BwdInv => FlagsBalanced
  BY BwdInvImplies
<1>2. QED
  BY <1>1, BwdInvAlways, PTL

(* No engine touches the plan once it stands: what holds of the walk holds of*)
(* the tasks of every launch while the engines run.                          *)
THEOREM TasksCoverPairs == Spec => []EveryPairOnce
<1>1. Init => BlocksInit
  BY DEF Init
<1>2. [Next]_vars => [CalcValidBlock]_blockVars
  BY DEF Next, Plan, Engines, Finished, vars, blockVars
<1>3. QED
  BY <1>1, <1>2, PairsInOneBlock, PTL DEF Spec, BlocksSpec

(* In deterministic mode the engines therefore store and add by groups that  *)
(* are sound, in every launch and all the while they run.                    *)
THEOREM TasksKeepGroups == Spec => []GroupsSound
<1>1. Init => BlocksInit
  BY DEF Init
<1>2. [Next]_vars => [CalcValidBlock]_blockVars
  BY DEF Next, Plan, Engines, Finished, vars, blockVars
<1>3. QED
  BY <1>1, <1>2, GroupsAreSound, PTL DEF Spec, BlocksSpec
=============================================================================
