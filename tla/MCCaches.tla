------------------------------ MODULE MCCaches ------------------------------
(***************************************************************************)
(* The two caches of the repository for TLC, in two parts that share no    *)
(* state: SparseCache (normalised block lists, read by kernels that run    *)
(* later) and GoldenCache (reference results, shared by the processes of   *)
(* the tests).                                                             *)
(***************************************************************************)
EXTENDS Integers, Sequences, TLC

CONSTANTS t1, t2, s1, s2                                                    \* values
CONSTANTS Threads, Streams, CurrentStream, Lists, Blocks, Owner,            \* SparseCache
          MAX_ENTRIES, MAX_CALLS, MAX_VERSION
CONSTANTS Processes, Cases, Temps, MAX_ARTIFACTS, Nobody                    \* GoldenCache

VARIABLES part,
  version, cache, call, calls, queue, recorded, content, mem,
  test, caseLock, rootLock, file, temp, order, old, due

S == INSTANCE SparseCache
G == INSTANCE GoldenCache WITH call <- test

ASSUME CachesAssumption == S!ListsAssumption /\ G!CacheAssumption

sparseVars == <<version, cache, call, calls, queue, recorded, content, mem>>
goldenVars == <<test, caseLock, rootLock, file, temp, order, old, due>>
vars == <<part, sparseVars, goldenVars>>

Init ==
  \/ /\ part = "lists" /\ S!Init
     /\ test = {} /\ caseLock = {} /\ rootLock = {} /\ file = {} /\ temp = {} /\ order = {} /\ old = {} /\ due = {}
  \/ /\ part = "golden" /\ G!Init
     /\ version = {} /\ cache = {} /\ call = {} /\ calls = {} /\ queue = {} /\ recorded = {}
     /\ content = {} /\ mem = {}

Golden(A) == part = "golden" /\ A /\ UNCHANGED <<part, sparseVars>>
Next ==
  \/ part = "lists" /\ S!Next /\ UNCHANGED <<part, goldenVars>>
  \/ Golden(G!Next)

(* A test process runs on until its call returns or it dies, and gets a    *)
(* lock that is released again and again: flock() serves its waiters in    *)
(* turn.                                                                   *)
Fairness ==
  \A p \in Processes :
    /\ WF_vars(Golden(G!Step(p)))
    /\ SF_vars(Golden(G!LockCase(p) \/ G!LockRoot(p)))
Spec == Init /\ [][Next]_vars /\ Fairness

(* A kernel reads lists that its call was given, completely written,       *)
(* whoever computed them and on whatever stream.                           *)
ReadsItsLists == part = "lists" => S!ReadsItsLists
(* Memory is not given away under a kernel of another stream.              *)
NotRecycled == part = "lists" => S!NotRecycled
(* What a failed or killed write leaves never bears the name of a case.    *)
NoTornFile == part = "golden" => G!NoTornFile
(* A case is computed by one process at a time, and only if it cannot be   *)
(* read.                                                                   *)
NoDuplicateWork == part = "golden" => G!NoDuplicateWork
(* Every call returns, whoever dies with a lock in hand.                   *)
Returns ==
  \A p \in Processes :
    (part = "golden" /\ G!At(p) # "idle") ~> (part = "golden" /\ G!At(p) = "idle")

-----------------------------------------------------------------------------
(* Two threads, each on its own stream with two blocks of memory.          *)
StreamOf == (t1 :> s1) @@ (t2 :> s2)
OwnerOf == <<s1, s1, s2, s2>>
=============================================================================
