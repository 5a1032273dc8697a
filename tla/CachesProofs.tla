---------------------------- MODULE CachesProofs ----------------------------
(***************************************************************************)
(* The theorems about the caches, in their composition, where the run      *)
(* checks the properties: for any number of processes and of cases, what a *)
(* failed or killed write leaves never takes the name of a case, and no    *)
(* case is computed twice at a time; and what SparseCacheProofs says of    *)
(* the block lists.                                                        *)
(***************************************************************************)
EXTENDS MCCaches, TLAPS

(* The places where a process is, and those where it has the lock of its   *)
(* case and the lock of the directory; before it writes it is at Places.   *)
Writing == {"temp", "fill", "replace", "evict"}
Locked == {"relook", "reopen", "rehit", "compute", "write"} \cup Writing
Places == {"look", "open", "hit", "lock", "relook", "reopen", "rehit", "compute", "write", "temp"}
Calls == [pc : Places, case : Cases, refresh : BOOLEAN]
Fills == [pc : {"fill", "replace"}, case : Cases, temp : Temps]
Evicts == [pc : {"evict"}, case : Cases]
TestRec == {G!Idle} \cup Calls \cup Fills \cup Evicts
FileStates == {"none", "partial", "complete", "damaged"}

Typed ==
  /\ test \in [Processes -> TestRec]
  /\ caseLock \in [Cases -> Processes \cup {Nobody}]
  /\ rootLock \in Processes \cup {Nobody}
  /\ file \in [Cases -> FileStates]
  /\ temp \in [Temps -> FileStates]

CaseLocked == \A p \in Processes : G!At(p) \in Locked => caseLock[G!Case(p)] = p
RootLocked == \A p \in Processes : G!At(p) \in Writing => rootLock = p
Missing == \A p \in Processes : G!At(p) = "compute" /\ ~test[p].refresh => file[G!Case(p)] # "complete"
(* A process renames a file that it has filled, whatever others left.      *)
Filled == \A p \in Processes : G!At(p) = "replace" => temp[test[p].temp] = "complete"

GoldenIInv == Typed /\ CaseLocked /\ RootLocked /\ Missing /\ Filled /\ G!NoTornFile

(* Where a process is tells what is known of its call.                     *)
LEMMA CallIs ==
  ASSUME Typed, NEW p \in Processes
  PROVE  /\ G!At(p) # "idle" => G!Case(p) \in Cases
         /\ G!At(p) \in Places => test[p] \in Calls
         /\ G!At(p) \in {"fill", "replace"} => test[p] \in Fills
BY DEF Typed, TestRec, G!Idle, G!At, G!Case, Calls, Fills, Evicts, Places

(* What a process does that goes on to another place of its call.          *)
LEMMA Goes ==
  ASSUME Typed, NEW p \in Processes, G!At(p) \in Places, NEW next \in Places, G!Go(p, next)
  PROVE  /\ test' \in [Processes -> TestRec]
         /\ G!At(p)' = next /\ G!Case(p)' = G!Case(p) /\ test'[p].refresh = test[p].refresh
         /\ G!Case(p) \in Cases
         /\ \A q \in Processes \ {p} : test'[q] = test[q]
<1>1. test[p] \in Calls
  BY CallIs
<1>2. test'[p] = [pc |-> next, case |-> test[p].case, refresh |-> test[p].refresh]
  BY <1>1 DEF Typed, G!Go, Calls
<1>3. test'[p] \in TestRec
  BY <1>1, <1>2 DEF Calls, TestRec
<1>4. QED
  BY <1>1, <1>2, <1>3 DEF Typed, G!Go, Calls, G!At, G!Case

(* ... and one that returns or dies. *)
LEMMA Returned ==
  ASSUME Typed, NEW p \in Processes, G!Return(p)
  PROVE  /\ test' \in [Processes -> TestRec]
         /\ G!At(p)' = "idle"
         /\ \A q \in Processes \ {p} : test'[q] = test[q]
BY DEF Typed, G!Return, G!At, G!Idle, TestRec

LEMMA Released ==
  ASSUME Typed, NEW p \in Processes, G!At(p) # "idle", caseLock' = G!Unlocked(p)
  PROVE  /\ caseLock' \in [Cases -> Processes \cup {Nobody}]
         /\ \A c \in Cases : caseLock[c] # p => caseLock'[c] = caseLock[c]
BY CallIs DEF Typed, G!Unlocked, G!Case

LEMMA GoldenIInvInit == G!Init => GoldenIInv
BY DEF G!Init, GoldenIInv, Typed, CaseLocked, RootLocked, Missing, Filled, G!NoTornFile, G!At, G!Idle, Locked, Writing,
       TestRec, FileStates

(* A step of process p that goes on to a place where it has no lock that   *)
(* it had not before, and leaves locks and files as they are.              *)
LEMMA GoesOn ==
  ASSUME GoldenIInv, NEW p \in Processes, G!At(p) \in Places, NEW next \in Places, G!Go(p, next),
         UNCHANGED <<caseLock, rootLock, file, temp>>,
         next \in Locked => G!At(p) \in Locked,
         next \in Writing => G!At(p) \in Writing,
         next = "compute" => G!At(p) = "compute" \/ file[G!Case(p)] # "complete"
  PROVE  GoldenIInv'
<1>1. Typed /\ CaseLocked /\ RootLocked /\ Missing /\ Filled /\ G!NoTornFile
  BY DEF GoldenIInv
<1>2. /\ test' \in [Processes -> TestRec]
      /\ G!At(p)' = next /\ G!Case(p)' = G!Case(p) /\ test'[p].refresh = test[p].refresh
      /\ \A q \in Processes \ {p} : test'[q] = test[q]
  BY <1>1, Goes
<1>3. Typed'
  BY <1>1, <1>2 DEF Typed
<1>4. CaseLocked' /\ RootLocked'
  BY <1>1, <1>2 DEF CaseLocked, RootLocked, G!At, G!Case
<1>5. Missing'
  BY <1>1, <1>2 DEF Missing, G!At, G!Case
<1>6. Filled'
  BY <1>1, <1>2 DEF Filled, G!At, Places
<1>7. QED
  BY <1>1, <1>3, <1>4, <1>5, <1>6 DEF GoldenIInv, G!NoTornFile

(* A step that ends the call of p and releases the locks p has.            *)
LEMMA Ends ==
  ASSUME GoldenIInv, NEW p \in Processes, G!At(p) # "idle", G!Return(p), caseLock' = G!Unlocked(p),
         rootLock' = rootLock \/ (rootLock = p /\ rootLock' = Nobody),
         file' \in [Cases -> FileStates], temp' \in [Temps -> FileStates],
         \A c \in Cases : file'[c] = file[c] \/ file'[c] = "none",
         temp' = temp \/ G!At(p) \in Writing,
         G!At(p) \in Writing => rootLock' = Nobody
  PROVE  GoldenIInv'
<1>1. Typed /\ CaseLocked /\ RootLocked /\ Missing /\ Filled /\ G!NoTornFile
  BY DEF GoldenIInv
<1>2. /\ test' \in [Processes -> TestRec]
      /\ G!At(p)' = "idle"
      /\ \A q \in Processes \ {p} : test'[q] = test[q]
  BY <1>1, Returned
<1>3. /\ caseLock' \in [Cases -> Processes \cup {Nobody}]
      /\ \A c \in Cases : caseLock[c] # p => caseLock'[c] = caseLock[c]
  BY <1>1, Released
<1>4. Typed'
  BY <1>1, <1>2, <1>3 DEF Typed
<1>5. ASSUME NEW q \in Processes, G!At(q)' # "idle"
      PROVE  q # p /\ test'[q] = test[q] /\ G!Case(q) \in Cases
  BY <1>1, <1>2, <1>5, CallIs DEF G!At
<1>6. CaseLocked'
  <2>1. ASSUME NEW q \in Processes, G!At(q)' \in Locked
        PROVE  caseLock'[G!Case(q)'] = q
    <3>1. q # p /\ G!At(q) \in Locked /\ G!Case(q)' = G!Case(q) /\ G!Case(q) \in Cases
      BY <1>5, <2>1 DEF G!At, G!Case, Locked, Writing
    <3>2. caseLock[G!Case(q)] = q
      BY <1>1, <3>1 DEF CaseLocked
    <3>3. QED
      BY <1>3, <3>1, <3>2
  <2>2. QED
    BY <2>1 DEF CaseLocked
<1>7. RootLocked'
  BY <1>1, <1>5 DEF RootLocked, G!At, G!Case, Writing
<1>8. Missing'
  BY <1>1, <1>5 DEF Missing, G!At, G!Case
<1>9. Filled'
  BY <1>1, <1>5 DEF Filled, RootLocked, G!At, Writing
<1>10. G!NoTornFile'
  BY <1>1 DEF G!NoTornFile
<1>11. QED
  BY <1>4, <1>6, <1>7, <1>8, <1>9, <1>10 DEF GoldenIInv

LEMMA GoldenIInvStep ==
  ASSUME GoldenIInv, G!Next \/ UNCHANGED goldenVars
  PROVE  GoldenIInv'
<1> USE DEF Locked, Writing, Places
<1>1. Typed /\ CaseLocked /\ RootLocked /\ Missing /\ Filled /\ G!NoTornFile
  BY DEF GoldenIInv
<1>2. ASSUME NEW p \in Processes, G!Call(p)
      PROVE  GoldenIInv'
  <2>1. PICK c \in Cases, fresh \in BOOLEAN :
          test' = [test EXCEPT ![p] = [pc |-> IF fresh THEN "lock" ELSE "look", case |-> c, refresh |-> fresh]]
    BY <1>2 DEF G!Call
  <2>2. /\ test'[p] = [pc |-> IF fresh THEN "lock" ELSE "look", case |-> c, refresh |-> fresh]
        /\ \A q \in Processes \ {p} : test'[q] = test[q]
    BY <1>1, <2>1 DEF Typed
  <2>3. UNCHANGED <<caseLock, rootLock, file, temp>>
    BY <1>2 DEF G!Call, G!locks, G!files
  <2>4. Typed'
    BY <1>1, <2>1, <2>3 DEF Typed, Calls, TestRec
  <2>5. CaseLocked' /\ RootLocked' /\ Missing' /\ Filled'
    BY <1>1, <2>2, <2>3 DEF CaseLocked, RootLocked, Missing, Filled, G!At, G!Case
  <2>6. QED
    BY <1>1, <2>3, <2>4, <2>5 DEF GoldenIInv, G!NoTornFile
<1>3. ASSUME NEW p \in Processes, G!Look(p)
      PROVE  GoldenIInv'
  BY <1>3, GoesOn DEF G!Look, G!Missed, G!locks, G!files
<1>4. ASSUME NEW p \in Processes, G!Open(p)
      PROVE  GoldenIInv'
  BY <1>4, GoesOn DEF G!Open, G!Missed, G!locks, G!files
<1>5. ASSUME NEW p \in Processes, G!Hit(p)
      PROVE  GoldenIInv'
  <2>1. /\ G!At(p) \in {"hit", "rehit"} /\ G!Return(p) /\ caseLock' = G!Unlocked(p)
        /\ UNCHANGED <<rootLock, file, temp>>
    BY <1>5 DEF G!Hit
  <2>2. QED
    BY <1>1, <2>1, Ends DEF Typed
<1>6. ASSUME NEW p \in Processes, G!LockCase(p)
      PROVE  GoldenIInv'
  <2>1. /\ G!UnderLock(p) \in {"compute", "relook"}
        /\ G!UnderLock(p) = "compute" => test[p].refresh
    BY DEF G!UnderLock
  <2>2. /\ test' \in [Processes -> TestRec]
        /\ G!At(p)' = G!UnderLock(p) /\ G!Case(p)' = G!Case(p) /\ test'[p].refresh = test[p].refresh
        /\ G!Case(p) \in Cases
        /\ \A q \in Processes \ {p} : test'[q] = test[q]
    BY <1>1, <1>6, <2>1, Goes DEF G!LockCase
  <2>3. UNCHANGED <<rootLock, file, temp>>
    BY <1>6 DEF G!LockCase, G!files
  <2>4. /\ caseLock' \in [Cases -> Processes \cup {Nobody}]
        /\ caseLock'[G!Case(p)] = p
        /\ \A c \in Cases : caseLock[c] # Nobody => caseLock'[c] = caseLock[c]
    BY <1>1, <1>6, <2>2 DEF G!LockCase, Typed
  <2>5. Typed'
    BY <1>1, <2>2, <2>3, <2>4 DEF Typed
  <2>6. ASSUME NEW q \in Processes \ {p}, G!At(q)' # "idle"
        PROVE  G!Case(q) \in Cases
    BY <1>1, <2>2, <2>6, CallIs DEF G!At
  <2>7. CaseLocked'
    BY <1>1, <2>2, <2>4, <2>6, CachesAssumption DEF CaseLocked, G!At, G!Case, G!CacheAssumption
  <2>8. RootLocked' /\ Missing' /\ Filled'
    BY <1>1, <2>1, <2>2, <2>3 DEF RootLocked, Missing, Filled, G!At, G!Case
  <2>9. QED
    BY <1>1, <2>3, <2>5, <2>7, <2>8 DEF GoldenIInv, G!NoTornFile
<1>7. ASSUME NEW p \in Processes, G!Computed(p)
      PROVE  GoldenIInv'
  BY <1>7, GoesOn DEF G!Computed, G!locks, G!files
<1>8. ASSUME NEW p \in Processes, G!Raised(p)
      PROVE  GoldenIInv'
  <2>1. /\ G!At(p) = "compute" /\ G!Return(p) /\ caseLock' = G!Unlocked(p)
        /\ UNCHANGED <<rootLock, file, temp>>
    BY <1>8 DEF G!Raised, G!files
  <2>2. QED
    BY <1>1, <2>1, Ends DEF Typed
<1>9. ASSUME NEW p \in Processes, G!LockRoot(p)
      PROVE  GoldenIInv'
  <2>1. /\ test' \in [Processes -> TestRec]
        /\ G!At(p)' = "temp" /\ G!Case(p)' = G!Case(p)
        /\ \A q \in Processes \ {p} : test'[q] = test[q]
    BY <1>1, <1>9, Goes DEF G!LockRoot
  <2>2. UNCHANGED <<caseLock, file, temp>> /\ rootLock = Nobody /\ rootLock' = p /\ G!At(p) = "write"
    BY <1>9 DEF G!LockRoot, G!files
  <2>3. Typed'
    BY <1>1, <2>1, <2>2 DEF Typed
  <2>4. CaseLocked' /\ RootLocked' /\ Missing' /\ Filled'
    BY <1>1, <2>1, <2>2, CachesAssumption DEF CaseLocked, RootLocked, Missing, Filled, G!At, G!Case, G!CacheAssumption
  <2>5. QED
    BY <1>1, <2>2, <2>3, <2>4 DEF GoldenIInv, G!NoTornFile
<1>10. ASSUME NEW p \in Processes, G!MakeTemp(p)
       PROVE  GoldenIInv'
  <2>1. PICK t \in Temps : /\ temp' = [temp EXCEPT ![t] = "partial"]
                           /\ test' = [test EXCEPT ![p] = [pc |-> "fill", case |-> G!Case(p), temp |-> t]]
    BY <1>10 DEF G!MakeTemp, G!FreeTemps
  <2>2. G!At(p) = "temp" /\ G!Case(p) \in Cases /\ UNCHANGED <<caseLock, rootLock, file>>
    BY <1>1, <1>10, CallIs DEF G!MakeTemp, G!locks
  <2>3. /\ test'[p] = [pc |-> "fill", case |-> G!Case(p), temp |-> t]
        /\ \A q \in Processes \ {p} : test'[q] = test[q]
    BY <1>1, <2>1 DEF Typed
  <2>4. Typed'
    BY <1>1, <2>1, <2>2 DEF Typed, TestRec, Fills, FileStates
  <2>5. CaseLocked' /\ RootLocked' /\ Missing'
    BY <1>1, <2>2, <2>3 DEF CaseLocked, RootLocked, Missing, G!At, G!Case
  <2>6. Filled'
    BY <1>1, <2>2, <2>3 DEF Filled, RootLocked, G!At
  <2>7. QED
    BY <1>1, <2>2, <2>4, <2>5, <2>6 DEF GoldenIInv, G!NoTornFile
<1>11. ASSUME NEW p \in Processes, G!WriteTemp(p)
       PROVE  GoldenIInv'
  <2>1. /\ G!At(p) = "fill" /\ test[p] \in Fills /\ UNCHANGED <<caseLock, rootLock, file>>
        /\ temp' = [temp EXCEPT ![test[p].temp] = "complete"]
        /\ test' = [test EXCEPT ![p].pc = "replace"]
    BY <1>1, <1>11, CallIs DEF G!WriteTemp, G!locks, G!Go
  <2>2. /\ test'[p] = [pc |-> "replace", case |-> test[p].case, temp |-> test[p].temp]
        /\ \A q \in Processes \ {p} : test'[q] = test[q]
        /\ test[p].temp \in Temps /\ test[p].case \in Cases
    BY <1>1, <2>1 DEF Typed, Fills
  <2>3. test' \in [Processes -> TestRec]
    <3>1. test'[p] \in TestRec
      BY <2>2 DEF TestRec, Fills
    <3>2. QED
      BY <1>1, <2>1, <3>1 DEF Typed
  <2>4. Typed'
    BY <1>1, <2>1, <2>2, <2>3 DEF Typed, FileStates
  <2>5. CaseLocked' /\ RootLocked' /\ Missing'
    BY <1>1, <2>1, <2>2 DEF CaseLocked, RootLocked, Missing, G!At, G!Case
  <2>6. Filled'
    <3>1. temp'[test[p].temp] = "complete"
      BY <1>1, <2>1, <2>2 DEF Typed
    <3>2. QED
      BY <1>1, <2>1, <2>2, <3>1 DEF Filled, RootLocked, G!At
  <2>7. QED
    BY <1>1, <2>1, <2>4, <2>5, <2>6 DEF GoldenIInv, G!NoTornFile
<1>12. ASSUME NEW p \in Processes, G!Replace(p)
       PROVE  GoldenIInv'
  <2>1. /\ G!At(p) = "replace" /\ test[p] \in Fills /\ G!Case(p) \in Cases
        /\ UNCHANGED <<caseLock, rootLock>> /\ temp' = G!Unlinked(p)
        /\ file' = [file EXCEPT ![G!Case(p)] = temp[test[p].temp]]
        /\ test' = [test EXCEPT ![p] = [pc |-> "evict", case |-> G!Case(p)]]
    BY <1>1, <1>12, CallIs DEF G!Replace, G!locks
  <2>2. /\ test'[p] = [pc |-> "evict", case |-> G!Case(p)]
        /\ \A q \in Processes \ {p} : test'[q] = test[q]
    BY <1>1, <2>1 DEF Typed
  <2>3. temp[test[p].temp] = "complete"
    BY <1>1, <2>1 DEF Filled
  <2>4. /\ file' \in [Cases -> FileStates] /\ file'[G!Case(p)] = "complete"
        /\ \A c \in Cases \ {G!Case(p)} : file'[c] = file[c]
    BY <1>1, <2>1, <2>3 DEF Typed, FileStates
  <2>5. temp' \in [Temps -> FileStates]
    BY <1>1, <2>1 DEF G!Unlinked, Typed, FileStates
  <2>6. Typed'
    BY <1>1, <2>1, <2>4, <2>5 DEF Typed, TestRec, Evicts
  <2>7. CaseLocked' /\ RootLocked'
    BY <1>1, <2>1, <2>2 DEF CaseLocked, RootLocked, G!At, G!Case
  <2>8. ASSUME NEW q \in Processes \ {p}, G!At(q) = "compute"
        PROVE  G!Case(q) \in Cases /\ G!Case(q) # G!Case(p)
    BY <1>1, <2>1, <2>8, CallIs DEF CaseLocked
  <2>9. Missing'
    BY <1>1, <2>2, <2>4, <2>8 DEF Missing, G!At, G!Case
  <2>10. Filled'
    BY <1>1, <2>1, <2>2 DEF Filled, RootLocked, G!At
  <2>11. G!NoTornFile'
    BY <1>1, <2>4 DEF G!NoTornFile
  <2>12. QED
    BY <2>6, <2>7, <2>9, <2>10, <2>11 DEF GoldenIInv
<1>13. ASSUME NEW p \in Processes, G!Evict(p)
       PROVE  GoldenIInv'
  <2>1. /\ file' \in [Cases -> FileStates] /\ temp' = temp
        /\ \A c \in Cases : file'[c] = file[c] \/ file'[c] = "none"
    BY <1>1, <1>13 DEF G!Evict, Typed, FileStates
  <2>2. rootLock = p
    BY <1>1, <1>13 DEF RootLocked, G!Evict
  <2>3. QED
    BY <1>1, <1>13, <2>1, <2>2, Ends DEF G!Evict, Typed
<1>14. ASSUME NEW p \in Processes, G!WriteFails(p)
       PROVE  GoldenIInv'
  <2>1. rootLock = p
    BY <1>1, <1>14 DEF RootLocked, G!WriteFails
  <2>2. temp' \in [Temps -> FileStates]
    BY <1>1, <1>14 DEF G!WriteFails, G!Unlinked, Typed, FileStates
  <2>3. QED
    BY <1>1, <1>14, <2>1, <2>2, Ends DEF G!WriteFails, Typed
<1>15. ASSUME NEW p \in Processes, G!Crash(p)
       PROVE  GoldenIInv'
  <2>1. /\ G!At(p) # "idle" /\ G!Return(p) /\ caseLock' = G!Unlocked(p) /\ file' = file /\ temp' = temp
        /\ rootLock' = rootLock \/ (rootLock = p /\ rootLock' = Nobody)
    BY <1>15 DEF G!Crash, G!files
  <2>2. G!At(p) \in Writing => rootLock' = Nobody
    BY <1>1, <1>15 DEF G!Crash, RootLocked
  <2>3. QED
    BY <1>1, <2>1, <2>2, Ends DEF Typed
<1>16. ASSUME NEW c \in Cases, G!Damage(c)
       PROVE  GoldenIInv'
  <2>1. /\ UNCHANGED <<test, caseLock, rootLock, temp>>
        /\ file' \in [Cases -> FileStates]
        /\ \A x \in Cases : file'[x] = file[x] \/ file'[x] = "damaged"
    BY <1>1, <1>16 DEF G!Damage, Typed, FileStates, G!locks
  <2>2. ASSUME NEW p \in Processes, G!At(p) = "compute"
        PROVE  G!Case(p) \in Cases
    BY <1>1, <2>2, CallIs
  <2>3. QED
    BY <1>1, <2>1, <2>2 DEF GoldenIInv, Typed, CaseLocked, RootLocked, Missing, Filled, G!NoTornFile, G!At, G!Case
<1>17. CASE G!Passes \/ UNCHANGED goldenVars
  <2>1. UNCHANGED <<test, caseLock, rootLock, file, temp>>
    BY <1>17 DEF G!Passes, goldenVars, G!locks
  <2>2. QED
    BY <1>1, <2>1 DEF GoldenIInv, Typed, CaseLocked, RootLocked, Missing, Filled, G!NoTornFile, G!At, G!Case
<1>18. QED
  BY <1>2, <1>3, <1>4, <1>5, <1>6, <1>7, <1>8, <1>9, <1>10, <1>11, <1>12, <1>13, <1>14, <1>15, <1>16,
     <1>17 DEF G!Next, G!Step

LEMMA GoldenIInvImplies == ASSUME GoldenIInv PROVE G!NoDuplicateWork /\ G!NoTornFile
<1>1. Typed /\ CaseLocked /\ Missing /\ G!NoTornFile
  BY DEF GoldenIInv
<1>2. ASSUME NEW p \in Processes, G!At(p) = "compute"
      PROVE  caseLock[G!Case(p)] = p
  BY <1>1, <1>2 DEF CaseLocked, Locked
<1>3. QED
  BY <1>1, <1>2 DEF G!NoDuplicateWork, Missing

GoldenInv == part = "golden" => GoldenIInv

LEMMA GoldenInvInit == Init => GoldenInv
BY GoldenIInvInit DEF Init, GoldenInv

LEMMA GoldenInvStep == GoldenInv /\ [Next]_vars => GoldenInv'
<1> SUFFICES ASSUME GoldenInv, [Next]_vars, part' = "golden"
             PROVE  GoldenIInv'
  BY DEF GoldenInv
<1>1. part = "golden" /\ GoldenIInv /\ (G!Next \/ UNCHANGED goldenVars)
  BY DEF Next, Golden, vars, GoldenInv
<1>2. QED
  BY <1>1, GoldenIInvStep

(* Whoever dies, and whenever: a case is computed by one process at a      *)
(* time, and by none that could have read it.                              *)
THEOREM WorkOnce == Spec => []NoDuplicateWork
<1>1. GoldenInv => NoDuplicateWork
  BY GoldenIInvImplies DEF GoldenInv, NoDuplicateWork
<1>2. QED
  BY <1>1, GoldenInvInit, GoldenInvStep, PTL DEF Spec

(* A reader, which takes no lock, never meets a file that a failed or      *)
(* killed write left partial, or that is still being filled: whatever      *)
(* temporary files there are, and whoever is killed between two steps      *)
(* (_write_artifact).                                                      *)
THEOREM WholeFiles == Spec => []NoTornFile
<1>1. GoldenInv => NoTornFile
  BY GoldenIInvImplies DEF GoldenInv, NoTornFile
<1>2. QED
  BY <1>1, GoldenInvInit, GoldenInvStep, PTL DEF Spec

-----------------------------------------------------------------------------
(* The lists: the proofs of SparseCacheProofs, carried over.              *)

SP == INSTANCE SparseCacheProofs

LEMMA SameLists ==
  /\ S!ListsAssumption <=> SP!ListsAssumption
  /\ S!Init <=> SP!Init
  /\ S!Next <=> SP!Next
  /\ S!ReadsItsLists <=> SP!ReadsItsLists
  /\ S!NotRecycled <=> SP!NotRecycled
<1> USE DEF S!Idle, SP!Idle, S!NoBlock, SP!NoBlock
<1>1. /\ S!Init <=> SP!Init
      /\ S!ListsAssumption <=> SP!ListsAssumption
      /\ S!ReadsItsLists <=> SP!ReadsItsLists
      /\ S!NotRecycled <=> SP!NotRecycled
  BY DEF S!Init, SP!Init, S!ListsAssumption, SP!ListsAssumption, S!ReadsItsLists, SP!ReadsItsLists,
         S!NotRecycled, SP!NotRecycled
<1>2. /\ \A m \in Lists : S!Change(m) <=> SP!Change(m)
      /\ \A s \in Streams : S!Run(s) <=> SP!Run(s)
      /\ S!Rest <=> SP!Rest
  BY DEF S!Change, SP!Change, S!Run, SP!Run, S!Rest, SP!Rest, S!vars, SP!vars
<1>3. ASSUME NEW t \in Threads
      PROVE  /\ S!Call(t) <=> SP!Call(t)
             /\ S!WaitEvent(t) <=> SP!WaitEvent(t)
             /\ S!Save(t) <=> SP!Save(t)
             /\ \A i \in DOMAIN cache : S!Hit(t, i) <=> SP!Hit(t, i)
             /\ \A b \in Blocks : S!Canonical(t, b) <=> SP!Canonical(t, b)
  BY DEF S!Call, SP!Call, S!WaitEvent, SP!WaitEvent, S!Save, SP!Save, S!Hit, SP!Hit,
         S!Canonical, SP!Canonical, S!Put, SP!Put, S!Wait, SP!Wait, S!Record, SP!Record,
         S!Write, SP!Write, S!Places, SP!Places, S!Without, SP!Without, S!Free, SP!Free
<1>4. ASSUME NEW memory, NEW queues, NEW entries, NEW threads
      PROVE  S!Collect(memory, queues, entries, threads) <=> SP!Collect(memory, queues, entries, threads)
  BY DEF S!Collect, SP!Collect, S!Held, SP!Held, S!Release, SP!Release
<1>5. ASSUME NEW t \in Threads
      PROVE  /\ S!Insert(t) <=> SP!Insert(t)
             /\ S!Backward(t) <=> SP!Backward(t)
             /\ \A training \in BOOLEAN : S!Forward(t, training) <=> SP!Forward(t, training)
  BY <1>4 DEF S!Insert, SP!Insert, S!Backward, SP!Backward, S!Forward, SP!Forward, S!Places, SP!Places,
              S!Used, SP!Used, S!Kernel, SP!Kernel, S!Read, SP!Read
<1>6. S!Next <=> SP!Next
  BY <1>2, <1>3, <1>5 DEF S!Next, SP!Next
<1>7. QED
  BY <1>1, <1>6

ListsInv == part = "lists" => SP!IInv

LEMMA ListsInvInit == Init => ListsInv
<1>1. Init /\ part = "lists" => SP!Init
  BY SameLists DEF Init
<1>2. QED
  BY <1>1, SP!IInvInit DEF ListsInv

LEMMA ListsInvStep == ListsInv /\ [Next]_vars => ListsInv'
<1> SUFFICES ASSUME ListsInv, [Next]_vars, part' = "lists"
             PROVE  SP!IInv'
  BY DEF ListsInv
<1>1. part = "lists" /\ SP!IInv
  BY DEF Next, Golden, vars, ListsInv
<1>2. SP!ListsAssumption
  BY CachesAssumption, SameLists
<1>3. [SP!Next]_(SP!vars)
  BY <1>1, SameLists DEF Next, Golden, vars, sparseVars, SP!vars
<1>4. QED
  BY <1>1, <1>2, <1>3, SP!IInvStep

LEMMA ListsInvImplies == ListsInv => ReadsItsLists /\ NotRecycled
BY CachesAssumption, SameLists, SP!IInvImplies DEF ListsInv, ReadsItsLists, NotRecycled

(* However many threads, streams, lists and blocks there are and however   *)
(* large the cache is: a kernel reads lists its call was given, wherever   *)
(* and whenever they were computed.                                        *)
THEOREM ListsRead == Spec => []ReadsItsLists
BY ListsInvInit, ListsInvStep, ListsInvImplies, PTL DEF Spec

(* ... and no block is given away under a kernel of another stream. *)
THEOREM MemoryKept == Spec => []NotRecycled
BY ListsInvInit, ListsInvStep, ListsInvImplies, PTL DEF Spec
=============================================================================
