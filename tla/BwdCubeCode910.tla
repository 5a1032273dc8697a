-------------------------- MODULE BwdCubeCode910 --------------------------
(***************************************************************************)
(* The matrix products of the backward kernel on the 910 (v3), in          *)
(* fag_common: mmad_fag_sdp.hpp (dy V' and Q K', stored with plain stores) *)
(* and mmad_fag_dqkv.hpp (dQ, dK, dV, added to global memory).             *)
(*                                                                         *)
(* Every product is an object of its own, with its own layout of L1: a     *)
(* load of one layout also overwrites what is there in the other (Over).   *)
(* A shape x says how many turns each loop takes: m, n, k tiles of L0, and *)
(* kL1 tiles of L1 along k.                                                *)
(***************************************************************************)
EXTENDS PipeCode

SdpA(s) == Fixed("sdpA", s)
SdpB(s) == Fixed("sdpB", s)
DqkvA == Ref("dqkvA", 0, "la")
DqkvB == Fixed("dqkvB", 0)
L0A == Ref("l0A", 0, "ab")
L0B == Ref("l0B", 0, "ab")
L0C == Fixed("l0C", 0)
OverSdp == {SdpA(0), SdpA(1), SdpB(0), SdpB(1)}
OverDqkv == {DqkvA, Other(DqkvA), DqkvB}

(* The constructor of Arch::Resource, a member of every product object,    *)
(* creates and destroys a TPipe, which ends in PipeBarrier<ALL>.           *)
SlipNoBarrier == << >>
NewResource == PipeAll

(* With a unit flag the hardware hands the tile in L0C over: the store     *)
(* waits for the last multiplication of a tile, the first multiplication   *)
(* of the next tile for the store.                                         *)
UnitFlag == 8
UnitTaken(first) == When(first, Wait("FIX_M", UnitFlag))
UnitFull(last) == When(last, Set("M_FIX", UnitFlag))
UnitStore(out) == Wait("M_FIX", UnitFlag) \o Op("FIX", {L0C}, {out}) \o Set("FIX_M", UnitFlag)

-----------------------------------------------------------------------------
(* mmad_fag_sdp.hpp *)

SdpSetFlag(l1Events) ==
  SetAll("MTE1_MTE2", l1Events) \o SetAll("M_MTE1", UpTo(3)) \o Set("FIX_M", 0)
  \o Set("FIX_M", UnitFlag)
SdpWaitFlag(l1Events) ==
  WaitAll("MTE1_MTE2", l1Events) \o WaitAll("M_MTE1", UpTo(3)) \o Wait("FIX_M", 0)
  \o Wait("FIX_M", UnitFlag)

(* A tile of A and one of B go from L1 to L0, are multiplied, and the      *)
(* slots of L0 are free again.                                             *)
SdpMultiply(moveA, moveB, firstK, lastK) ==
  WaitTurn("M_MTE1", 0, "ab") \o moveA \o WaitTurn("M_MTE1", 2, "ab") \o moveB
  \o Both("MTE1_M", 0)
  \o UnitTaken(firstK) \o Op("M", {L0A, L0B, L0C}, {L0C}) \o UnitFull(lastK)
  \o SetTurn("M_MTE1", 0, "ab") \o SetTurn("M_MTE1", 2, "ab") \o Flip("ab")
SdpMoveA(slot) == Op("MTE1", {slot}, {L0A})
SdpMoveB(slot) == Op("MTE1", {slot}, {L0B})

(* A and B fit into L1 (head dimensions 64, 128): both are loaded at once, *)
(* and no event says that L1 is free.                                      *)
GemmABFullLoad(x, out) ==
  Op("MTE2", {}, {SdpA(0)} \cup OverDqkv) \o Set("MTE2_MTE1", 0)
  \o Op("MTE2", {}, {SdpB(0)} \cup OverDqkv) \o Set("MTE2_MTE1", 1)
  \o Repeat(LAMBDA n: Repeat(LAMBDA m:
       Repeat(LAMBDA k:
         LET start == n = 1 /\ m = 1 /\ k = 1
         IN  SdpMultiply(When(start, Wait("MTE2_MTE1", 0)) \o SdpMoveA(SdpA(0)),
                         When(start, Wait("MTE2_MTE1", 1)) \o SdpMoveB(SdpB(0)),
                         k = 1, k = x.k),
         x.k)
       \o UnitStore(out),
       x.m), x.n)

(* B fits (256): tiles of A take turns in two slots. *)
A1 == Ref("sdpA", 0, "la")
B1 == Ref("sdpB", 0, "lb")
GemmATiledBFullLoad(x, out) ==
  Op("MTE2", {}, {SdpB(0)} \cup OverDqkv) \o Set("MTE2_MTE1", 2)
  \o Repeat(LAMBDA m:
       WaitTurn("MTE1_MTE2", 0, "la") \o Op("MTE2", {}, {A1} \cup OverDqkv)
       \o SetTurn("MTE2_MTE1", 0, "la")
       \o Repeat(LAMBDA n:
            Repeat(LAMBDA k:
              SdpMultiply(When(n = 1 /\ k = 1, WaitTurn("MTE2_MTE1", 0, "la")) \o SdpMoveA(A1)
                            \o When(n = x.n /\ k = x.k, SetTurn("MTE1_MTE2", 0, "la")),
                          When(m = 1 /\ n = 1 /\ k = 1, Wait("MTE2_MTE1", 2)) \o SdpMoveB(SdpB(0)),
                          k = 1, k = x.k),
              x.k)
            \o UnitStore(out),
            x.n)
       \o Flip("la"),
       x.m)

(* Neither fits (192): tiles of both take turns. *)
GemmATiledBTiled(x, out) ==
  Repeat(LAMBDA n: Repeat(LAMBDA m:
    Repeat(LAMBDA k:
      WaitTurn("MTE1_MTE2", 0, "la") \o Op("MTE2", {}, {A1} \cup OverDqkv)
      \o SetTurn("MTE2_MTE1", 0, "la")
      \o WaitTurn("MTE1_MTE2", 2, "lb") \o Op("MTE2", {}, {B1} \cup OverDqkv)
      \o SetTurn("MTE2_MTE1", 2, "lb")
      \o SdpMultiply(WaitTurn("MTE2_MTE1", 0, "la") \o SdpMoveA(A1) \o SetTurn("MTE1_MTE2", 0, "la"),
                     WaitTurn("MTE2_MTE1", 2, "lb") \o SdpMoveB(B1) \o SetTurn("MTE1_MTE2", 2, "lb"),
                     k = 1, k = x.k)
      \o Flip("la") \o Flip("lb"),
      x.k)
    \o UnitStore(out),
    x.m), x.n)

(* operator(): the policy is one of the three. *)
BlockMmadFagSdp(x, out) ==
  CASE x.policy = "full" -> SdpSetFlag(<< >>) \o GemmABFullLoad(x, out) \o SdpWaitFlag(<< >>)
    [] x.policy = "tiledA" ->
         SdpSetFlag(UpTo(1)) \o GemmATiledBFullLoad(x, out) \o SdpWaitFlag(UpTo(1))
    [] x.policy = "tiledAB" ->
         SdpSetFlag(UpTo(3)) \o GemmATiledBTiled(x, out) \o SdpWaitFlag(UpTo(3))

-----------------------------------------------------------------------------
(* mmad_fag_dqkv.hpp; e is eventIdStart.                                   *)

DqkvSetFlag(e) ==
  SetAll("MTE1_MTE2", <<e, e + 1, e + 2>>) \o SetAll("M_MTE1", <<e, e + 1, e + 2, e + 3>>)
  \o Set("FIX_M", e)
DqkvWaitFlag(e) ==
  WaitAll("MTE1_MTE2", <<e, e + 1, e + 2>>) \o WaitAll("M_MTE1", <<e, e + 1, e + 2, e + 3>>)
  \o Wait("FIX_M", e)

(* B is loaded as a whole, tiles of A take turns. *)
DqkvLoadB(e) ==
  Both("MTE1_MTE2", e + 2) \o Op("MTE2", {}, {DqkvB} \cup OverSdp) \o Both("MTE2_MTE1", e + 2)
DqkvLoadA(e, in) ==
  WaitTurn("MTE1_MTE2", e, "la") \o Op("MTE2", {in}, {DqkvA} \cup OverSdp)
  \o SetTurn("MTE2_MTE1", e, "la")
DqkvStep(e, first, last, initC) ==
  WaitTurn("M_MTE1", e, "ab") \o When(first, WaitTurn("MTE2_MTE1", e, "la"))
  \o Op("MTE1", {DqkvA}, {L0A}) \o When(last, SetTurn("MTE1_MTE2", e, "la"))
  \o WaitTurn("M_MTE1", e + 2, "ab") \o Op("MTE1", {DqkvB}, {L0B})
  \o Both("MTE1_M", (e + 7) % 8)
  \o When(initC, Wait("FIX_M", e)) \o Op("M", {L0A, L0B, L0C}, {L0C})
  \o SetTurn("M_MTE1", e + 2, "ab") \o SetTurn("M_MTE1", e, "ab") \o Flip("ab")
BlockMmadFag(e, x, in, out) ==
  DqkvSetFlag(e) \o DqkvLoadB(e)
  \o Repeat(LAMBDA m:
       Repeat(LAMBDA k1:
         DqkvLoadA(e, in)
         \o Repeat(LAMBDA k: DqkvStep(e, k = 1, k = x.k, k1 = 1 /\ k = 1), x.k)
         \o Flip("la"),
         x.kL1)
       \o Both("M_FIX", e) \o Op("FIX", {L0C}, {out}) \o Set("FIX_M", e),
       x.m)
  \o DqkvWaitFlag(e)

=============================================================================
