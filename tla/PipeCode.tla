------------------------------ MODULE PipeCode ------------------------------
(***************************************************************************)
(* The vocabulary of the kernels' programs (see NpuPipes).  The code of an *)
(* engine is a sequence of instructions; code that runs on several engines *)
(* is written in the order of the data flow, with On(core, ...).  The      *)
(* counters by which the code takes its buffers in turn (its ping-pong     *)
(* flags) are named: a buffer or an event names the counter that picks its *)
(* slot, Flip(counter) is the code's step of it, and Program resolves them.*)
(***************************************************************************)
EXTENDS Integers, Sequences, FiniteSets

(* A buffer or an event: its name, its number, and the counter, if any,    *)
(* whose parity is added to the number; Other is the one of the two that   *)
(* is not its turn.                                                        *)
Ref(name, number, counter) == <<name, number, counter, 0>>
Other(ref) == <<ref[1], ref[2], ref[3], 1>>
Fixed(name, number) == Ref(name, number, "")
(* What all engines share: a buffer in global memory, a flag between them. *)
Shared(name, number) == Ref(name, number, "shared")

(* The pipes of an event X_Y: set in X, waited for in Y. *)
Source == [M_MTE1 |-> "M", FIX_M |-> "FIX", MTE1_MTE2 |-> "MTE1", MTE2_MTE1 |-> "MTE2",
           MTE1_M |-> "MTE1", M_FIX |-> "M", MTE3_V |-> "MTE3", MTE3_MTE2 |-> "MTE3",
           V_MTE2 |-> "V", MTE2_V |-> "MTE2", V_MTE3 |-> "V", MTE2_MTE3 |-> "MTE2",
           V_S |-> "V", S_V |-> "S", S_MTE3 |-> "S", MTE3_S |-> "MTE3", MTE2_S |-> "MTE2",
           S_MTE2 |-> "S", FIX_MTE2 |-> "FIX", MTE2_FIX |-> "MTE2", FIX_MTE1 |-> "FIX",
           MTE1_FIX |-> "MTE1", M_MTE2 |-> "M", MTE2_M |-> "MTE2"]
Target == [M_MTE1 |-> "MTE1", FIX_M |-> "M", MTE1_MTE2 |-> "MTE2", MTE2_MTE1 |-> "MTE1",
           MTE1_M |-> "M", M_FIX |-> "FIX", MTE3_V |-> "V", MTE3_MTE2 |-> "MTE2",
           V_MTE2 |-> "MTE2", MTE2_V |-> "V", V_MTE3 |-> "MTE3", MTE2_MTE3 |-> "MTE3",
           V_S |-> "S", S_V |-> "V", S_MTE3 |-> "MTE3", MTE3_S |-> "S", MTE2_S |-> "S",
           S_MTE2 |-> "MTE2", FIX_MTE2 |-> "MTE2", MTE2_FIX |-> "FIX", FIX_MTE1 |-> "MTE1",
           MTE1_FIX |-> "FIX", M_MTE2 |-> "M", MTE2_M |-> "M"]

Instruction(kind, pipe, event, reads, writes) ==
  [kind |-> kind, pipe |-> pipe, event |-> event, reads |-> reads, writes |-> writes, core |-> ""]
None == Fixed("", 0)

(* An operation of a pipe, with the buffers it reads and writes. *)
Op(pipe, reads, writes) == <<Instruction("do", pipe, None, reads, writes)>>

SetRef(e, ref) == <<Instruction("set", Source[e], ref, {}, {})>>
WaitRef(e, ref) == <<Instruction("wait", Target[e], ref, {}, {})>>
Set(e, id) == SetRef(e, Fixed(e, id))
Wait(e, id) == WaitRef(e, Fixed(e, id))
Both(e, id) == Set(e, id) \o Wait(e, id)
(* The same, of the event the counter picks. *)
SetTurn(e, id, counter) == SetRef(e, Ref(e, id, counter))
WaitTurn(e, id, counter) == WaitRef(e, Ref(e, id, counter))
(* The next turn of a counter. *)
Flip(counter) == <<Instruction("flip", "S", Ref("", 0, counter), {}, {})>>
(* PipeBarrier<ALL>: the scalar unit hands out nothing more until all      *)
(* pipes are done; PipeBarrier<V>: the vector pipe starts nothing more     *)
(* until it is done.                                                       *)
PipeAll == <<Instruction("barrier", "S", None, {}, {})>>
Fence == <<Instruction("fence", "V", None, {}, {})>>
(* A vector operation with a barrier of its pipe behind it, and without.   *)
V(reads, writes) == Op("V", reads, writes) \o Fence
Unfenced(reads, writes) == Op("V", reads, writes)

(* Between engines: the pipe that sets a flag once its work so far is      *)
(* done, and the pipe that waits for it, on the 910 the scalar unit.       *)
CrossCoreSet(pipe, flag) == <<Instruction("set", pipe, flag, {}, {})>>
CrossCoreWaitIn(pipe, flag) == <<Instruction("wait", pipe, flag, {}, {})>>
CrossCoreWait(flag) == CrossCoreWaitIn("S", flag)

(* (With(Body, code) is Body(code), which evaluates the code once.)        *)
With(Body(_), code) == CHOOSE r \in {Body(c) : c \in {code}} : TRUE
On(core, code) == With(LAMBDA c: [n \in DOMAIN c |-> [c[n] EXCEPT !.core = core]], code)
When(condition, code) == IF condition THEN code ELSE << >>
Repeat(Body(_), times) ==
  LET upto[n \in 0 .. times] == IF n = 0 THEN << >> ELSE upto[n - 1] \o Body(n)
  IN  upto[times]

SetAll(e, ids) == [n \in DOMAIN ids |-> Set(e, ids[n])[1]]
WaitAll(e, ids) == [n \in DOMAIN ids |-> Wait(e, ids[n])[1]]
UpTo(n) == [m \in 1 .. n + 1 |-> m - 1]

-----------------------------------------------------------------------------
(* A program is code whose counters are resolved.  Events belong to their  *)
(* engine, and so do buffers, unless they are in global memory.            *)
Turn(code, flips, n, ref) ==
  IF ref[3] \in {"", "shared"} THEN 0
  ELSE (ref[4] + Cardinality({m \in flips : /\ m < n
                                            /\ code[m].core = code[n].core
                                            /\ code[m].event[3] = ref[3]})) % 2
Placed(code, flips, n, ref) ==
  <<IF ref[3] = "shared" THEN "" ELSE code[n].core, ref[1], ref[2] + Turn(code, flips, n, ref)>>

Resolved(code, flips) ==
  SelectSeq([n \in DOMAIN code |-> [code[n] EXCEPT !.event = Placed(code, flips, n, @),
                                                   !.reads = {Placed(code, flips, n, b) : b \in @},
                                                   !.writes = {Placed(code, flips, n, b) : b \in @}]],
            LAMBDA i: i.kind # "flip")
Program(code) ==
  With(LAMBDA c: With(LAMBDA flips: Resolved(c, flips), {n \in DOMAIN c : c[n].kind = "flip"}), code)

=============================================================================
