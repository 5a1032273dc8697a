----------------------------- MODULE VecCode910 -----------------------------
(***************************************************************************)
(* The vector engine's part of the forward kernel on the 910 (v3):         *)
(* online_softmax.hpp (P from the scores S), rescale_o.hpp (O from the     *)
(* partial products), init_outputs.hpp and combine_scale.hpp.  Rows go     *)
(* GM --MTE2--> UB --V--> UB --MTE3--> GM, a few rows at a time; S and P   *)
(* have two slots in UB, taken in turn by softmaxPingPongFlag, here "s".   *)
(*                                                                         *)
(* A stack t says where it stands: first and last of its task, its slot,   *)
(* the task's state slot, the number of row loops of the softmax (rows)    *)
(* and of the rescale (oRows), which mask its call has (mask) and whether  *)
(* it bites in this stack (masked), whether the scores have a softcap,     *)
(* rows of the tile are invalid, the task is a split one, and the          *)
(* log-sum-exp is wanted (lse).  The buffers of a call in global memory    *)
(* are in g.                                                               *)
(***************************************************************************)
EXTENDS PipeCode

Ls == Ref("ls", 0, "s")        \* the slot that is loaded
LsWas == Other(Ls)             \* the one loaded before, that is computed
Lp == Other(Ref("lp", 0, "s"))
Lm == Fixed("lm", 0)           \* also the soft cap's constant
Hm == Fixed("hm", 0)
Ll == Fixed("ll", 0)
GlobalMax(state) == Fixed("gm", state)
GlobalSum(state) == Fixed("gl", state)
Dm(slot) == Fixed("dm", slot)
Tv(n) == Fixed("tv", n)
Scratch == {Tv(0), Tv(1)}
Keep == Fixed("keep", 0)

(* Rowmax, Rowsum and their variants for 512 columns: three reductions,    *)
(* through the two parts of the scratch.                                   *)
Rowmax(in, out) == V({in}, {Tv(0)}) \o V({Tv(0)}, {Tv(1)}) \o V({Tv(1)}, {out})
Rowsum(in, out) == Rowmax(in, out)

CopySGmToUb(in) == Op("MTE2", {in}, {Ls})
ScaleS == V({LsWas}, {LsWas})
ApplySoftcap ==
  V({LsWas}, {LsWas}) \o V({LsWas}, {LsWas}) \o V({LsWas}, {LsWas})
  \o Unfenced({LsWas}, {LsWas}) \o V({}, {Lm}) \o V({Lm, LsWas}, {LsWas}) \o V({LsWas}, {LsWas})

(* The scalar unit writes the rows' masks, once the last selection has     *)
(* read the ones before.                                                   *)
WriteMasks == Both("V_S", 7) \o Op("S", {}, {Keep}) \o Both("S_V", 7)
ApplyArithMask == WriteMasks \o V({Keep, LsWas}, {LsWas})
ApplySwaArithMask == WriteMasks \o V({Keep, LsWas}, {LsWas})

CalcLocalRowMax == Rowmax(LsWas, Lm)
UpdateGlobalRowMax(t) ==
  LET gm == GlobalMax(t.state)
  IN  IF t.first THEN Unfenced({Lm}, {Hm}) \o V({Lm}, {gm})
      ELSE V({Lm, gm}, {Hm}) \o V({gm, Hm}, {Dm(t.slot)}) \o V({Dm(t.slot)}, {Dm(t.slot)})
           \o V({Hm}, {gm})
CalcExp == V({Hm}, Scratch) \o V({LsWas} \cup Scratch, {LsWas}) \o V({LsWas}, {LsWas})
CalcLocalRowSum == Rowsum(LsWas, Ll)
UpdateGlobalRowSum(t) ==
  LET gl == GlobalSum(t.state)
  IN  IF t.first THEN V({Ll}, {gl})
      ELSE V({Dm(t.slot), gl}, {gl}) \o V({gl, Ll}, {gl})
DownCastP == Unfenced({LsWas}, {Lp})
CopyPUbToGm(out) == Op("MTE3", {Lp}, {out})

(* S becomes P and leaves, and its slots are free again. *)
SetWas(e) == SetRef(e, Other(Ref(e, 0, "s")))
WaitWas(e) == WaitRef(e, Other(Ref(e, 0, "s")))
SoftmaxSubCoreCompute(t, out) ==
  CalcLocalRowMax \o UpdateGlobalRowMax(t) \o CalcExp
  \o WaitWas("MTE3_V") \o DownCastP \o SetWas("V_MTE3")
  \o CalcLocalRowSum \o SetWas("V_MTE2")
  \o WaitWas("V_MTE3") \o CopyPUbToGm(out) \o SetWas("MTE3_V")
  \o UpdateGlobalRowSum(t)

(* operator(), without and with a mask: the rows of the next loop are      *)
(* loaded before the ones of this loop are computed.  An idle engine takes *)
(* the flag all the same.                                                  *)
LoadS(in, acquired) == acquired \o CopySGmToUb(in) \o SetTurn("MTE2_V", 0, "s")
Acquire == WaitTurn("V_MTE2", 0, "s")
ComputeP(t, out, mask) ==
  WaitWas("MTE2_V") \o ScaleS \o When(t.softcap, ApplySoftcap) \o mask
  \o SoftmaxSubCoreCompute(t, out)
RowLoops(rows, first, next, compute) ==
  first \o Flip("s")
  \o Repeat(LAMBDA n: next \o compute \o Flip("s"), rows - 1) \o compute
QkReady == CrossCoreWait(Shared("qkReady", 0))

Softmax(t, in, out) ==
  IF t.rows = 0 THEN QkReady
  ELSE RowLoops(t.rows, LoadS(in, Acquire \o QkReady), LoadS(in, Acquire), ComputeP(t, out, << >>))
MaskedSoftmax(t, in, out, mask) ==
  IF t.rows = 0 THEN QkReady
  ELSE RowLoops(t.rows, LoadS(in, QkReady \o Acquire), LoadS(in, Acquire),
                ComputeP(t, out, When(t.masked, mask)))
CausalSoftmax(t, in, out) == MaskedSoftmax(t, in, out, ApplyArithMask)
SwaSoftmax(t, in, out) == MaskedSoftmax(t, in, out, ApplySwaArithMask)

-----------------------------------------------------------------------------
(* rescale_o.hpp *)

Lo == Fixed("lo", 0)
Go == Fixed("go", 0)
Staging == Fixed("lse", 0)
Broadcast == Fixed("lse", 1)

(* The first stack's product is taken as it is; to a later one what was    *)
(* there before is added, scaled; with several row loops it comes back     *)
(* from global memory first.                                               *)
TakeProduct(in) == Wait("MTE3_MTE2", 6) \o Op("MTE2", {in}, {Go}) \o Both("MTE2_V", 0)
AddProduct(t, in, update) ==
  Wait("V_MTE2", 3) \o Op("MTE2", {in}, {Lo}) \o Set("MTE2_V", 0) \o Wait("MTE3_MTE2", 6)
  \o V({Dm(t.slot)}, Scratch)
  \o When(t.oRows > 1, Op("MTE2", {update}, {Go}) \o Both("MTE2_V", 1))
  \o V({Go} \cup Scratch, {Go}) \o Wait("MTE2_V", 0) \o V({Go, Lo}, {Go}) \o Set("V_MTE2", 3)

KeepProduct(t, update) ==
  When(t.oRows > 1, Both("V_MTE3", 5) \o Op("MTE3", {Go}, {update})) \o Set("MTE3_MTE2", 6)

InvalidLineLSEProcess == V({}, {Staging})
ClearInvalidOutputRows == Fence \o Unfenced({}, {Go})
CopyOToGm(out) == Op("MTE3", {Go}, {out})
CopyOToGmFp32(partial) == Op("MTE3", {Go}, {partial})
CopyLseToGm(t, out) == Op("MTE3", IF t.split THEN {Broadcast} ELSE {Staging, Broadcast}, {out})

(* The last stack's is divided by the sum and leaves, as the output or as  *)
(* a partial one, and after the last rows its log-sum-exp.                 *)
WriteLse(t, out) ==
  Fence \o V({GlobalSum(t.state)}, {Staging}) \o V({GlobalMax(t.state), Staging}, {Staging})
  \o When(t.lse /\ t.invalid, InvalidLineLSEProcess)
  \o V({Staging}, {Broadcast}) \o Both("V_MTE3", 4) \o CopyLseToGm(t, out)
WriteProduct(t, out, partial, lse, lastRows) ==
  V({GlobalSum(t.state)}, Scratch) \o V({Go} \cup Scratch, {Go})
  \o When(~t.split, Unfenced({Go}, {Go}) \o When(t.invalid, ClearInvalidOutputRows))
  \o Both("V_MTE3", 0) \o (IF t.split THEN CopyOToGmFp32(partial) ELSE CopyOToGm(out))
  \o When(lastRows /\ (t.lse \/ t.split), WriteLse(t, lse))
  \o Set("MTE3_MTE2", 6)

RescaleSubCoreCompute(t, g, lastRows) ==
  (IF t.first THEN TakeProduct(g.product) ELSE AddProduct(t, g.product, g.update))
  \o (IF t.last THEN WriteProduct(t, g.out, g.partial, g.lse, lastRows) ELSE KeepProduct(t, g.update))

PvReady(first) == When(first, CrossCoreWait(Shared("pvReady", 0)))
RescaleO(t, g) ==
  IF t.oRows = 0 THEN PvReady(TRUE)
  ELSE Repeat(LAMBDA n: PvReady(n = 1) \o RescaleSubCoreCompute(t, g, n = t.oRows), t.oRows)

-----------------------------------------------------------------------------
(* init_outputs.hpp: a tile without keys, in the buffers of the softmax    *)
(* (S) and the rescale (lo), between two barriers.                         *)
InitOutputs(lse, g) ==
  PipeAll \o Unfenced({}, {Ls, Other(Ls)}) \o Both("V_MTE3", 6)
  \o Op("MTE3", {Ls, Other(Ls)}, {g.out})
  \o When(lse, Unfenced({}, {Lo}) \o Both("V_MTE3", 7) \o Op("MTE3", {Lo}, {g.lse})) \o PipeAll

-----------------------------------------------------------------------------
(* combine_scale.hpp: c.splits partial results of c.tiles groups of rows,  *)
(* and the log-sum-exp if c.lse.                                           *)
C(name) == Fixed(name, 0)
CombineLse(c, in, out) ==
  Unfenced({}, {C("ll2")}) \o Unfenced({}, {C("tl")}) \o Both("V_MTE2", 2)
  \o Op("MTE2", {in}, {C("ll2")}) \o Both("MTE2_V", 0)
  \o V({C("ll2")}, {C("lm2")}) \o V({C("lm2")}, {C("bc")}) \o V({C("ll2"), C("bc")}, {C("tl")})
  \o V({C("tl")}, {C("tl")}) \o V({C("tl")}, {C("rs")}) \o V({C("rs")}, {C("rs")})
  \o V({C("rs"), C("lm2")}, {C("ts")})
  \o When(c.lse, V({C("ts")}, {C("lo2")}) \o Both("V_MTE3", 3)
                  \o Op("MTE3", {C("lo2")}, {out}) \o Both("MTE3_V", 3))
  \o V({C("ts")}, {C("bc")}) \o V({C("ll2"), C("bc")}, {C("gl2")}) \o V({C("gl2")}, {C("gl2")})
CombineTile(c, in, out) ==
  Wait("MTE3_MTE2", 0) \o Set("V_MTE2", 2)
  \o Repeat(LAMBDA n:
       Wait("V_MTE2", 2) \o Op("MTE2", {in}, {C("lo2")}) \o Both("MTE2_V", 1)
       \o V({C("gl2")}, {C("to")}) \o V({C("lo2"), C("to")}, {C("to")})
       \o V({C("to")} \cup (IF n = 1 THEN {} ELSE {C("go2")}), {C("go2")}) \o Set("V_MTE2", 2),
       c.splits)
  \o Wait("V_MTE2", 2) \o V({C("go2")}, {C("go2")}) \o Both("V_MTE3", 1)
  \o Op("MTE3", {C("go2")}, {out}) \o Set("MTE3_MTE2", 0)
CombineScale(c, g) ==
  CombineLse(c, g.partialLse, g.lse) \o Set("MTE3_MTE2", 0)
  \o Repeat(LAMBDA n: CombineTile(c, g.partial, g.out), c.tiles) \o Wait("MTE3_MTE2", 0)

-----------------------------------------------------------------------------
(* mha_fwd_kvcache.cpp: what is free when the kernel starts.               *)
VectorPrologue ==
  SetAll("MTE3_V", <<0, 1, 2, 4, 6, 7>>) \o SetAll("MTE3_MTE2", <<0, 2, 3, 4, 5, 6>>)
  \o SetAll("V_MTE2", UpTo(4))
VectorEpilogue ==
  WaitAll("MTE3_V", <<0, 1, 2, 4, 6, 7>>) \o WaitAll("MTE3_MTE2", <<0, 2, 3, 4, 5, 6>>)
  \o WaitAll("V_MTE2", UpTo(4)) \o PipeAll

=============================================================================
