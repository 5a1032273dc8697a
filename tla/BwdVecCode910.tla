--------------------------- MODULE BwdVecCode910 ---------------------------
(***************************************************************************)
(* The vector engine's part of the backward kernel on the 910 (v3):        *)
(* fag_epilogue_pre.hpp (clear the accumulators), fag_epilogue_sfmg.hpp    *)
(* (the row sums of dO O), fag_epilogue_op.hpp (P and dS from the products *)
(* dy V' and Q K'), epilogue_fag_deterministic_add.hpp (add up the partial *)
(* results in a fixed order), fag_epilogue_post.hpp (scale and convert).   *)
(*                                                                         *)
(* Buffers are regions of UB, named by what is in them; where the code     *)
(* reuses a region under another name, the names are one here.             *)
(*                                                                         *)
(* A shape e of fag_epilogue_op: the loops of an engine over its rows, of  *)
(* which s2Loops follow one another on the same rows, and what the kernel  *)
(* was built for: mask ("none", "plain", "band"), softcap, alibi, drop,    *)
(* and whether a row's keys all are in the tile (fullKey).                 *)
(***************************************************************************)
EXTENDS PipeCode

Scores == Fixed("S", 0)            \* T2Begin
SoftcapConst == Fixed("softcap", 0)
CopyOutP == Fixed("copyOutP", 0)   \* T1Begin, and alibi's bias row
MaskUb == Fixed("mask", 0)         \* BoolBegin
Lse == Fixed("lse", 0)             \* T2BlockBegin
DropUb == Fixed("drop", 0)         \* U8Begin
Prob == Fixed("P", 0)              \* DbBegin
Grad == Fixed("dP", 0)             \* DbBegin + T1Begin, and dS on its way out
Sfmg == Fixed("sfmg", 0)           \* SFMG_UB_OFFSET
Tmp == Fixed("tmp", 0)             \* TMP_UB_OFFSET
RowSums == Fixed("rowSums", 0)
Products == Fixed("products", 0)

(* A vector operation in place. *)
VI(buffer) == V({buffer}, {buffer})

-----------------------------------------------------------------------------
(* fag_epilogue_op.hpp, SubGrapA: P, which leaves as the factor of dV.     *)

CopyInSoftMax == Op("MTE2", {}, {Lse}) \o Both("MTE2_V", 0) \o Unfenced({Lse}, {Lse})
CopyInAttenMaskBool == Op("MTE2", {}, {MaskUb})
CalcAttenMaskBool(scores) == Unfenced({scores, MaskUb}, {scores, Tmp})
Softcap ==
  VI(Scores) \o VI(Scores) \o VI(Scores) \o Unfenced({Scores}, {Scores}) \o V({}, {SoftcapConst})
  \o Unfenced({SoftcapConst, Scores}, {Scores}) \o Fence \o VI(Scores)
(* alibi.hpp: a row of biases, its first block written by the scalar unit. *)
BuildAlibiBiasRow ==
  Both("V_S", 0) \o Op("S", {}, {CopyOutP}) \o Both("S_V", 0)
  \o VI(CopyOutP) \o VI(CopyOutP) \o VI(CopyOutP)
SubBiasToScoreRow(scores) == V({scores, CopyOutP}, {scores})
ApplyAlibi(scores) == BuildAlibiBiasRow \o SubBiasToScoreRow(scores)
AttenMask(scores, band) ==
  CalcAttenMaskBool(scores)
  \o When(band, Both("V_MTE2", 0) \o CopyInAttenMaskBool \o Both("MTE2_V", 0)
                \o CalcAttenMaskBool(scores))
  \o Fence
CalcSoftMax(scores) == V({scores, Lse}, {Prob}) \o VI(Prob)
Dropout ==
  Wait("V_MTE2", 1) \o Op("MTE2", {}, {DropUb}) \o Both("MTE2_V", 0)
  \o V({Prob}, {Tmp}) \o Unfenced({DropUb, Tmp}, {Tmp})

SubGrapA(e, i, in, out) ==
  LET scores == IF e.alibi /\ e.softcap THEN Prob ELSE Scores
  IN  When(i > 1, Wait("MTE3_MTE2", 1)) \o CopyInSoftMax
      \o When(e.mask # "none", CopyInAttenMaskBool)
      \o Op("MTE2", {in}, {Scores}) \o Both("MTE2_V", 0)
      \o Fence \o VI(Scores) \o When(e.softcap, Softcap)
      \o When(e.alibi /\ e.softcap, Unfenced({Scores}, {Prob}))
      \o When(e.alibi, ApplyAlibi(scores))
      \o When(e.mask # "none", AttenMask(scores, e.mask = "band"))
      \o CalcSoftMax(scores) \o When(e.drop, Dropout)
      \o Fence \o Unfenced({IF e.drop THEN Tmp ELSE Prob}, {CopyOutP})
      \o Both("V_MTE3", 0) \o Op("MTE3", {CopyOutP}, {out})
      \o When(i < e.loops, Set("MTE3_MTE2", 1))

-----------------------------------------------------------------------------
(* SubGrapB: dS = P (dP - D), which leaves as the factor of dQ and dK.     *)

SaveScores == Unfenced({Scores}, {Tmp})
DropGrad == Unfenced({DropUb, Grad}, {Grad}) \o Set("V_MTE2", 1) \o Fence \o Unfenced({Grad}, {Grad})
(* D from P dP, when all keys of the rows are here.                        *)
FullKeySums ==
  Fence \o V({Prob, Grad}, {Products}) \o V({Products}, {RowSums}) \o VI(RowSums)
  \o V({RowSums}, {Sfmg})
SoftcapGrad == VI(Tmp) \o VI(Tmp) \o VI(Tmp) \o VI(Tmp) \o V({Grad, Tmp}, {Grad})
ClearRows == V({}, {Grad})

SubGrapB(e, i, in, out) ==
  When(i > 1, Wait("MTE3_MTE2", 2)) \o When(e.softcap, SaveScores)
  \o When((i - 1) % e.s2Loops = 0, Op("MTE2", {Shared("sfmg", 0)}, {Sfmg}))
  \o Op("MTE2", {in}, {Grad}) \o Both("MTE2_V", 0)
  \o When(e.drop, DropGrad) \o When(e.fullKey, FullKeySums)
  \o Fence \o Unfenced({Grad, Sfmg}, {Grad}) \o Fence \o V({Grad, Prob}, {Grad})
  \o When(e.softcap, SoftcapGrad) \o When(e.mask # "none", ClearRows)
  \o Unfenced({Grad}, {Grad})
  \o Both("V_MTE3", 0) \o Op("MTE3", {Grad}, {out})
  \o When(i < e.loops, Set("MTE3_MTE2", 2))

(* operator() *)
SabVec(e, scores, grad) ==
  Both("MTE3_MTE2", 0)
  \o Repeat(LAMBDA i: Set("V_MTE2", 1) \o SubGrapA(e, i, scores, scores)
                      \o SubGrapB(e, i, grad, grad) \o Wait("V_MTE2", 1),
            e.loops)

-----------------------------------------------------------------------------
(* epilogue_fag_deterministic_add.hpp: the partial results of the cores of *)
(* a group are summed in UB and added to the accumulator; d.cores sources  *)
(* for each of d.groups groups.                                            *)
DtmResult == Scores
DtmIn == Prob
CalcReduce(d, in, out) ==
  Repeat(LAMBDA group:
    Both("MTE3_V", 0) \o V({}, {DtmResult})
    \o Repeat(LAMBDA core:
         Both("V_MTE2", 0) \o Op("MTE2", {in}, {DtmIn}) \o Both("MTE2_V", 0)
         \o Unfenced({DtmResult, DtmIn}, {DtmResult}) \o Both("V_MTE2", 0),
         d.cores)
    \o When(d.cores > 0, Both("V_MTE3", 0) \o Op("MTE3", {DtmResult}, {out})),
    d.groups)
CalcDqReduce(d, in) == CalcReduce(d, in, Shared("dq", 0))
CalcDkvReduce(d, in) == CalcReduce(d, in, Shared("dkv", 0))

(* An engine reduces dQ or dK or dV; when UB is too small for its share,   *)
(* all three, one after the other.                                         *)
DtmAdd(d, in) ==
  IF d.small THEN CalcDqReduce(d, in) \o CalcDkvReduce(d, in) \o CalcDkvReduce(d, in)
  ELSE IF d.dq THEN CalcDqReduce(d, in) ELSE CalcDkvReduce(d, in)

-----------------------------------------------------------------------------
(* fag_epilogue_pre.hpp: InitOutput stores zeros from UB.                  *)
InitOutput(out) == Unfenced({}, {Tmp}) \o Both("V_MTE3", 0) \o Op("MTE3", {Tmp}, {out}) \o PipeAll
Pre == InitOutput(Shared("dq", 0)) \o InitOutput(Shared("dkv", 0)) \o InitOutput(Shared("dkv", 0))

(* fag_epilogue_sfmg.hpp: dO and O are loaded and converted, the next ones *)
(* are loaded while the row sums are computed.                             *)
Din == Fixed("in1", 0)
Oin == Fixed("in2", 0)
Cast1 == Fixed("cast1", 0)
Cast2 == Fixed("cast2", 0)
SumsOut == Fixed("sums", 0)
CopyInSfmg == Op("MTE2", {}, {Din}) \o Op("MTE2", {}, {Oin}) \o Set("MTE2_V", 0)
SfmgEpilogue(times) ==
  PipeAll
  \o Repeat(LAMBDA i:
       When(i = 1, CopyInSfmg) \o Wait("MTE2_V", 0) \o V({Din}, {Cast1}) \o V({Oin}, {Cast2})
       \o When(i < times, Both("V_MTE2", 0) \o CopyInSfmg)
       \o When(i > 1, Wait("MTE3_V", 0))
       \o V({}, {SumsOut}) \o V({Cast1, Cast2}, {SumsOut})
       \o Both("V_MTE3", 0) \o Op("MTE3", {SumsOut}, {Shared("sfmg", 0)})
       \o When(i < times, Set("MTE3_V", 0)),
       times)

(* fag_epilogue_post.hpp *)
VecIn == Fixed("vecIn", 0)
VecOut == Fixed("vecOut", 0)
PostTile(in, scaled) ==
  Op("MTE2", {in}, {VecIn}) \o Both("MTE2_V", 0) \o When(scaled, VI(VecIn))
  \o Unfenced({VecIn}, {VecOut}) \o Both("V_MTE3", 0)
  \o Op("MTE3", {VecOut}, {Shared("gradients", 0)})
Post(tiles) ==
  Repeat(LAMBDA i: PostTile(Shared("dq", 0), TRUE) \o Both("MTE3_MTE2", 0), tiles) \o PipeAll
  \o Repeat(LAMBDA i: PostTile(Shared("dkv", 0), TRUE) \o Both("MTE3_MTE2", 0), tiles) \o PipeAll
  \o Repeat(LAMBDA i: PostTile(Shared("dkv", 0), FALSE) \o When(i < tiles, Both("MTE3_MTE2", 0)), tiles)

=============================================================================
