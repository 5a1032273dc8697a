---------------------------- MODULE CubeCode910 ----------------------------
(***************************************************************************)
(* The matrix products of the forward kernel on the 910 (v3):              *)
(* qk_matmul.hpp (scores = Q K'), pv_matmul.hpp (output = P V).  A tile    *)
(* goes GM --MTE2--> L1 --MTE1--> L0A, L0B --M--> L0C --FIX--> GM, with    *)
(* two slots for each of K/P, L0A, L0B and L0C, taken in turn by counters  *)
(* the two products share (pingPongState): "l1", "ab", "c".  K and P tiles *)
(* take turns in the same slots of L1.                                     *)
(*                                                                         *)
(* A shape x says how many turns each loop takes: qkN, qkM, qkK tiles of   *)
(* K, of rows, of the head dimension; pvN, pvM, pvTiles, pvK slices of the *)
(* output, tiles of rows, tiles of P and steps of each; slices of the head *)
(* dimension; pages of a tile; copyback: the tile is new and is copied     *)
(* into the cache; compact: P stays in L1.                                 *)
(***************************************************************************)
EXTENDS PipeCode

L1Q == Fixed("l1Q", 0)
L1P == Fixed("l1P", 0)
L1KP == Ref("l1KP", 0, "l1")
L1V(s) == Fixed("l1V", s)
L1Copy == Fixed("l1Copy", 0)
L0A == Ref("l0A", 0, "ab")
L0B == Ref("l0B", 0, "ab")
L0C == Ref("l0C", 0, "c")

(* One multiplication: the L0 slots whose turn it is are filled by moves   *)
(* from L1, multiplied and given back.                                     *)
MoveA(from) == Op("MTE1", {from}, {L0A})
MoveB(from) == WaitTurn("M_MTE1", 2, "ab") \o Op("MTE1", {from}, {L0B})
Multiply(moves) ==
  WaitTurn("M_MTE1", 0, "ab") \o moves \o Both("MTE1_M", 0)
  \o Op("M", {L0A, L0B, L0C}, {L0C})
  \o SetTurn("M_MTE1", 0, "ab") \o SetTurn("M_MTE1", 2, "ab") \o Flip("ab")

(* A tile of the product: its L0C slot is taken, filled by the             *)
(* multiplications, and stored.                                            *)
Product(multiplications, out) ==
  WaitTurn("FIX_M", 0, "c") \o multiplications
  \o Both("M_FIX", 0) \o Op("FIX", {L0C}, {out}) \o SetTurn("FIX_M", 0, "c") \o Flip("c")

(* A tile that is loaded in pieces, one for each of its pages. *)
Load(pages, to) == Repeat(LAMBDA n: Op("MTE2", {}, {to}), pages)

(* New rows on their way into the cache, through L1. *)
CopyToCache(via) ==
  Op("MTE2", {}, {via}) \o PipeAll \o Op("MTE3", {via}, {Shared("cache", 0)}) \o PipeAll

-----------------------------------------------------------------------------
(* qk_matmul.hpp *)

LoadQGM == Wait("MTE1_MTE2", 3) \o Op("MTE2", {}, {L1Q}) \o Both("MTE2_MTE1", 3)

WritebackK(copyback) == When(copyback, CopyToCache(L1Copy))

LoadK(x) ==
  WaitTurn("MTE1_MTE2", 0, "l1") \o Load(x.pages, L1KP) \o SetTurn("MTE2_MTE1", 0, "l1")

QKStep(first, last) ==
  Multiply(MoveA(L1Q) \o When(first, WaitTurn("MTE2_MTE1", 0, "l1")) \o MoveB(L1KP)
           \o When(last, SetTurn("MTE1_MTE2", 0, "l1")))

(* operator() up to a head dimension of 256: for each tile of K, each tile *)
(* of rows, each slice of the head dimension.                              *)
QK(x, out) ==
  Repeat(LAMBDA n:
    LoadK(x) \o WritebackK(x.copyback)
    \o Repeat(LAMBDA m:
         Product(Repeat(LAMBDA k: QKStep(m = 1 /\ k = 1, m = x.qkM /\ k = x.qkK), x.qkK), out),
         x.qkM)
    \o Flip("l1"),
    x.qkN)

(* headDimSplitQK, beyond 256: K comes in slices of the head dimension,    *)
(* which pass through the slot of the tile one after the other.            *)
HeadDimSplitQK(x, out) ==
  Repeat(LAMBDA n:
    Repeat(LAMBDA m: Product(
      Repeat(LAMBDA d:
        LoadK(x) \o WritebackK(x.copyback /\ m = 1)
        \o Repeat(LAMBDA k: QKStep(k = 1, k = x.qkK), x.qkK),
        x.slices), out),
      x.qkM)
    \o Flip("l1"),
    x.qkN)

-----------------------------------------------------------------------------
(* pv_matmul.hpp *)

AwaitSoftmax(first) == When(first, CrossCoreWait(Shared("softmaxReady", 0)))
LoadP(in, first) ==
  WaitTurn("MTE1_MTE2", 0, "l1") \o AwaitSoftmax(first)
  \o Op("MTE2", {in}, {L1KP}) \o SetTurn("MTE2_MTE1", 0, "l1")
MoveP(first, last) ==
  When(first, WaitTurn("MTE2_MTE1", 0, "l1")) \o MoveA(L1KP)
  \o When(last, SetTurn("MTE1_MTE2", 0, "l1"))

WritebackV(copyback) == When(copyback, PipeAll \o CopyToCache(L1V(0)))

(* A tile of P times the rows of V it belongs to. *)
PVTile(x, in, first) ==
  LoadP(in, first)
  \o Repeat(LAMBDA k: Multiply(MoveP(k = 1, k = x.pvK) \o MoveB(L1V(0))), x.pvK)
  \o Flip("l1")

(* operator() up to a head dimension of 256: V is in L1 as a whole; for    *)
(* each slice of the head dimension, each tile of rows, each tile of P.    *)
PV(x, in, out) ==
  Wait("MTE1_MTE2", 4) \o Load(x.pages, L1V(0)) \o Both("MTE2_MTE1", 0)
  \o Repeat(LAMBDA n: Repeat(LAMBDA m: Product(
       Repeat(LAMBDA k: PVTile(x, in, n = 1 /\ m = 1 /\ k = 1), x.pvTiles), out),
       x.pvM), x.pvN)
  \o WritebackV(x.copyback) \o Set("MTE1_MTE2", 4)

(* headDimSplitPV, beyond 256: slices of V take turns in two slots of      *)
(* their own, with the events 5 and 6.                                     *)
LoadV(v, x) ==
  Wait("MTE1_MTE2", 5 + v) \o Load(x.pages, L1V(v)) \o Set("MTE2_MTE1", 5 + v)
MoveV(v, first, last) ==
  When(first, Wait("MTE2_MTE1", 5 + v)) \o MoveB(L1V(v)) \o When(last, Set("MTE1_MTE2", 5 + v))

WritebackVHeadDimSlice(copyback) == When(copyback, CopyToCache(L1Copy))

HeadDimSplitPVTile(x, in, v, m) ==
  LoadP(in, FALSE) \o LoadV(v, x)
  \o Repeat(LAMBDA k: Multiply(MoveP(k = 1, k = x.pvK) \o MoveV(v, k = 1, k = x.pvK)), x.pvK)
  \o Flip("l1") \o WritebackVHeadDimSlice(x.copyback /\ m = 1)

(* Compact decode: the rows are few, all of P is in L1 and stays there. *)
LoadAllP(in) == Wait("MTE1_MTE2", 4) \o Op("MTE2", {in}, {L1P}) \o Both("MTE2_MTE1", 4)
CompactPVTile(x, v) ==
  LoadV(v, x) \o Repeat(LAMBDA k: Multiply(MoveA(L1P) \o MoveV(v, k = 1, k = x.pvK)), x.pvK)

HeadDimSplitPV(x, in, out) ==
  AwaitSoftmax(TRUE) \o When(x.compact, LoadAllP(in))
  \o Repeat(LAMBDA n: Repeat(LAMBDA m: Product(
       Repeat(LAMBDA k1: IF x.compact THEN CompactPVTile(x, (k1 - 1) % 2)
                                      ELSE HeadDimSplitPVTile(x, in, (k1 - 1) % 2, m),
              x.pvTiles), out),
       x.pvM), x.pvN)
  \o When(x.compact, Set("MTE1_MTE2", 4))

-----------------------------------------------------------------------------
(* mha_fwd_kvcache.cpp: the events that are free when the kernel starts,   *)
(* and that it takes back when it ends.                                    *)

CubePrologue == SetAll("M_MTE1", UpTo(7)) \o SetAll("FIX_M", UpTo(1)) \o SetAll("MTE1_MTE2", UpTo(7))
CubeEpilogue ==
  WaitAll("M_MTE1", UpTo(7)) \o WaitAll("FIX_M", UpTo(1)) \o WaitAll("MTE1_MTE2", UpTo(7)) \o PipeAll

=============================================================================
