------------------------------ MODULE NpuPipes ------------------------------
(***************************************************************************)
(* The instruction pipes of an NPU core, running a kernel.                 *)
(*                                                                         *)
(* An engine (the cube engine AIC, a vector engine AIV) has a scalar unit  *)
(* that meets the instructions of the kernel in program order and hands    *)
(* each one to the queue of its pipe: MTE2 loads from global memory, MTE1  *)
(* moves tiles of L1 into L0A and L0B, M multiplies, FIX stores the        *)
(* product, V computes on vectors, MTE3 stores vectors.  A pipe works its  *)
(* queue off in order; pipes run side by side.  What orders them is        *)
(*   SetFlag(X_Y, id)   in the queue of X, adds one to the event,          *)
(*   WaitFlag(X_Y, id)  in the queue of Y, holds Y until it can take one,  *)
(*   PipeBarrier<ALL>   in the scalar unit, which hands out nothing more   *)
(*                      until every pipe of the engine has run empty,      *)
(* and likewise CrossCoreSetFlag and CrossCoreWaitFlag between engines.    *)
(* The instruction set is external; the kernels are the programs of the    *)
(* modules that extend PipeCode.  A program lists the instructions of all  *)
(* its engines in the order of the data flow: what comes later in the list *)
(* is meant to see, or to overwrite, what comes earlier.                   *)
(*                                                                         *)
(* A step is a turn of a pipe: the flags it waits for, the operations that *)
(* follow, the flags it sets after them.  Nothing another pipe can see     *)
(* happens in between: an event has one pipe that waits for it.            *)
(***************************************************************************)
EXTENDS PipeCode, TLC

CONSTANT Kernels   \* the programs, by name

Kernel == DOMAIN Kernels
Kinds == {"wait", "do", "fence", "set", "barrier"}

ASSUME KernelsAssumption ==
  \A k \in Kernel : With(LAMBDA code: \A n \in DOMAIN code : code[n].kind \in Kinds, Kernels[k])

-----------------------------------------------------------------------------
(* What is fixed by the program.                                           *)
Unit(i) == <<i.core, i.pipe>>
Scalar(u) == <<u[1], "S">>
Units(code) == UNION {{Unit(code[n]), Scalar(Unit(code[n]))} : n \in DOMAIN code}
Events(code) == {code[n].event : n \in {m \in DOMAIN code : code[m].kind \in {"set", "wait"}}}
Of(code, u) == SelectSeq([n \in DOMAIN code |-> n], LAMBDA n: Unit(code[n]) = u)
Operations(code, u) == {n \in DOMAIN code : code[n].kind = "do" /\ Unit(code[n]) = u}

(* Instruction n of a pipe starts a turn if it is the first, if the one    *)
(* before it, m, is of a later kind, or if the scalar unit has something   *)
(* to do in between.                                                       *)
Rank == [wait |-> 0, do |-> 1, fence |-> 1, set |-> 2, barrier |-> 3]
Starts(code, n, m) ==
  \/ Rank[code[n].kind] < Rank[code[m].kind]
  \/ code[n].pipe = "S"
  \/ \E i \in m + 1 .. n - 1 : code[i].core = code[n].core /\ code[i].pipe = "S"
HeadsOf(code, own) ==
  LET Heads(o) == SelectSeq([j \in DOMAIN o |-> <<j, o[j]>>],
                            LAMBDA h: h[1] = 1 \/ Starts(code, h[2], o[h[1] - 1]))
  IN  With(LAMBDA heads: [k \in DOMAIN heads |-> heads[k][2]], With(Heads, own))

(* Two operations clash when one writes what the other reads or writes.    *)
Clash(a, b) ==
  \/ a.writes \cap (b.reads \cup b.writes) # {}
  \/ a.reads \cap b.writes # {}

Max0(S) == IF S = {} THEN 0 ELSE -(CHOOSE m \in {-s : s \in S} : \A n \in S : m <= -n)
(* How many of the turns that start at heads start before instruction n.   *)
Before(heads, n) == Cardinality({k \in DOMAIN heads : heads[k] < n})

(* A turn, of the instructions ns; work: the operations of each pipe.      *)
TurnOf(code, heads, work, n, ns) ==
  LET Kind(kind) == {m \in ns : code[m].kind = kind}
      Count(kind, e) == Cardinality({m \in ns : code[m].kind = kind /\ code[m].event = e})
      (* The last operation of v that one of ops needs, or overwrites.     *)
      Need(ops, v) == Max0({m \in work[v] : \E i \in ops : m < i /\ Clash(code[m], code[i])})
      (* A vector operation that needs one that may still be on its way.   *)
      Overtakes(ops) ==
        \E i, j \in ops : /\ j < i /\ code[i].pipe = "V" /\ Clash(code[j], code[i])
                          /\ ~ \E f \in Kind("fence") : j < f /\ f < i
  IN  [barrier |-> code[n].kind = "barrier",
       takes |-> [e \in {code[m].event : m \in Kind("wait")} |-> Count("wait", e)],
       change |-> [e \in {code[m].event : m \in Kind("set") \cup Kind("wait")} |->
                     Count("set", e) - Count("wait", e)],
       before |-> [v \in {w \in DOMAIN heads : w[1] = code[n].core} |-> Before(heads[v], n)],
       needs |-> With(LAMBDA last: [v \in {w \in DOMAIN last : last[w] > 0} |-> Before(heads[v], last[v] + 1)],
                      [v \in DOMAIN heads \ {Unit(code[n])} |-> Need(Kind("do"), v)]),
       fenced |-> ~Overtakes(Kind("do"))]
TurnsOf(code, heads, work, u) ==
  [k \in DOMAIN heads[u] |->
     LET last == IF k = Len(heads[u]) THEN Len(code) ELSE heads[u][k + 1] - 1
     IN  With(LAMBDA ns: TurnOf(code, heads, work, heads[u][k], ns),
              {m \in heads[u][k] .. last : Unit(code[m]) = u})]

Loaded(code) ==
  With(LAMBDA heads:
    With(LAMBDA work: [turns |-> [u \in DOMAIN heads |-> TurnsOf(code, heads, work, u)],
                       events |-> Events(code)],
      [u \in DOMAIN heads |-> Operations(code, u)]),
    [u \in Units(code) |-> HeadsOf(code, Of(code, u))])
Memory == [k \in Kernel |-> With(Loaded, Kernels[k])]

-----------------------------------------------------------------------------
VARIABLES kernel,  \* the kernel that runs
          pos,     \* of each pipe: the turn it is at
          flags    \* of each event: how often it was set and not yet waited for

vars == <<kernel, pos, flags>>
Turns == Memory[kernel].turns
Pipes == DOMAIN pos
At(u) == Turns[u][pos[u]]
Over(u) == pos[u] > Len(Turns[u])

Init ==
  /\ kernel \in Kernel
  /\ pos = [u \in DOMAIN Turns |-> 1]
  /\ flags = [e \in Memory[kernel].events |-> 0]

(* The scalar unit of an engine stands before an instruction of its own    *)
(* until that one is done: nothing behind it has reached a queue.          *)
Issued(u) == ~Over(u) /\ pos[Scalar(u)] > At(u).before[Scalar(u)]

CanWork(u) ==
  /\ Issued(u)
  /\ LET turn == At(u)
     IN ~turn.barrier /\ \A e \in DOMAIN turn.takes : flags[e] >= turn.takes[e]
(* All that was handed out before the barrier is done. *)
CanPass(u) ==
  /\ Issued(u)
  /\ At(u).barrier
  /\ \A v \in Pipes : v[1] = u[1] => pos[v] > At(u).before[v]

Advance(u) == pos' = [pos EXCEPT ![u] = @ + 1] /\ UNCHANGED kernel
Work(u) ==
  /\ CanWork(u)
  /\ flags' = LET change == At(u).change IN [e \in DOMAIN change |-> flags[e] + change[e]] @@ flags
  /\ Advance(u)
PassBarrier(u) == CanPass(u) /\ Advance(u) /\ UNCHANGED flags

Ended == \A u \in Pipes : Over(u)
Finish == Ended /\ UNCHANGED vars

Next ==
  \/ \E u \in Pipes : Work(u) \/ PassBarrier(u)
  \/ Finish

Spec == Init /\ [][Next]_vars

-----------------------------------------------------------------------------
(* An operation that can start finds every earlier operation on its        *)
(* buffers done: no tile is loaded over one still in use, or used before   *)
(* it is there, whatever the pace of the pipes; a vector operation stands  *)
(* behind a barrier of its pipe if it needs the result of another one of   *)
(* its turn.                                                               *)
OrderKept ==
  \A u \in Pipes : CanWork(u) =>
    LET turn == At(u)
    IN turn.fenced /\ \A v \in DOMAIN turn.needs : pos[v] > turn.needs[v]

(* Until the kernel ends, some pipe can move on: no wait is left without   *)
(* the set it is for.                                                      *)
NeverStuck == Ended \/ \E u \in Pipes : CanWork(u) \/ CanPass(u)

(* A kernel leaves no event behind: the next kernel of the core starts     *)
(* with none set.                                                          *)
EventsSpent == Ended => \A e \in DOMAIN flags : flags[e] = 0

=============================================================================
