---------------------------- MODULE GoldenCache ----------------------------
(***************************************************************************)
(* The cache of reference results that the test processes of all CI jobs   *)
(* of a machine share (tests/common/golden_cache.py): files in a           *)
(* directory, one per case, and locks that the operating system releases   *)
(* when their holder dies.                                                 *)
(*                                                                         *)
(* A process looks for its case without a lock, then again under the lock  *)
(* of the case; only then does it compute.  It makes a temporary file,     *)
(* fills it, gives it the name of the case, and evicts other cases, all    *)
(* under one lock of the directory.  Any process may die at any step and   *)
(* another take its place; a file may vanish between two steps of its      *)
(* reader.  What a process that dies leaves of its temporary file stays in *)
(* the directory: no name of a temporary file is that of a case, and none  *)
(* is taken that is there already.                                         *)
(***************************************************************************)
EXTENDS Integers, FiniteSets, Sequences, SequencesExt

CONSTANTS
  Processes, Cases,
  Temps,           \* names of temporary files: as many as the disk has room for
  MAX_ARTIFACTS,   \* the size limit, in artifacts
  Nobody

CacheAssumption == Nobody \notin Processes

VARIABLES
  call,                \* of each process: where it is, its case, and force_refresh
  caseLock, rootLock,  \* holders of the locks
  file,                \* of each case: its artifact, none or complete, or damaged
  temp,                \* of each temporary file: none, partial or complete
  order,               \* the cases with an artifact, the one used longest ago first
  old,                 \* the cases past the age limit
  due                  \* the last eviction is long enough ago
vars == <<call, caseLock, rootLock, file, temp, order, old, due>>
files == <<file, temp, order, old, due>>
locks == <<caseLock, rootLock>>

Idle == [pc |-> "idle"]
At(p) == call[p].pc
Case(p) == call[p].case

Init ==
  /\ call = [p \in Processes |-> Idle]
  /\ caseLock = [c \in Cases |-> Nobody] /\ rootLock = Nobody
  /\ file = [c \in Cases |-> "none"] /\ temp = [t \in Temps |-> "none"]
  /\ order = << >> /\ old = {} /\ due = TRUE

Go(p, next) == call' = [call EXCEPT ![p].pc = next]
Return(p) == call' = [call EXCEPT ![p] = Idle]

(* A case used or written now is the newest. *)
Newest(c) == Append(SelectSeq(order, LAMBDA x : x # c), c)

(* A call: a refresh goes straight for the lock. *)
Call(p) ==
  /\ At(p) = "idle"
  /\ \E c \in Cases, fresh \in BOOLEAN :
       call' = [call EXCEPT ![p] = [pc |-> IF fresh THEN "lock" ELSE "look", case |-> c, refresh |-> fresh]]
  /\ UNCHANGED <<locks, files>>

(* Where a process goes that does not find its case: the first time, and   *)
(* under the lock.                                                         *)
Missed(p) == IF At(p) \in {"look", "open"} THEN "lock" ELSE "compute"

(* is_file() *)
Look(p) ==
  /\ At(p) \in {"look", "relook"}
  /\ Go(p, IF file[Case(p)] = "none" THEN Missed(p) ELSE IF At(p) = "look" THEN "open" ELSE "reopen")
  /\ UNCHANGED <<locks, files>>

(* A file that is gone by now, or damaged, counts as none. *)
Open(p) ==
  /\ At(p) \in {"open", "reopen"}
  /\ Go(p, IF file[Case(p)] # "complete" THEN Missed(p) ELSE IF At(p) = "open" THEN "hit" ELSE "rehit")
  /\ UNCHANGED <<locks, files>>

Unlocked(p) == [caseLock EXCEPT ![Case(p)] = IF @ = p THEN Nobody ELSE @]

(* utime(), if there is still a file; then the call returns. *)
Hit(p) ==
  /\ At(p) \in {"hit", "rehit"}
  /\ IF file[Case(p)] # "none"
     THEN order' = Newest(Case(p)) /\ old' = old \ {Case(p)}
     ELSE UNCHANGED <<order, old>>
  /\ caseLock' = Unlocked(p) /\ Return(p)
  /\ UNCHANGED <<rootLock, file, temp, due>>

SlipNoSecondLook(p) == "compute"
UnderLock(p) == IF call[p].refresh THEN "compute" ELSE "relook"

LockCase(p) ==
  /\ At(p) = "lock" /\ caseLock[Case(p)] = Nobody
  /\ caseLock' = [caseLock EXCEPT ![Case(p)] = p]
  /\ Go(p, UnderLock(p))
  /\ UNCHANGED <<rootLock, files>>

Computed(p) == At(p) = "compute" /\ Go(p, "write") /\ UNCHANGED <<locks, files>>

SlipKeepsLock(p) == At(p) = "compute" /\ Return(p) /\ UNCHANGED <<locks, files>>
(* compute_fn() raises, or returns other tensors than it should. *)
Raised(p) ==
  /\ At(p) = "compute"
  /\ caseLock' = Unlocked(p) /\ Return(p)
  /\ UNCHANGED <<rootLock, files>>

LockRoot(p) ==
  /\ At(p) = "write" /\ rootLock = Nobody
  /\ rootLock' = p /\ Go(p, "temp")
  /\ UNCHANGED <<caseLock, files>>

(* A temporary file with a name of its own (NamedTemporaryFile), empty; it *)
(* makes no difference which of the free ones.  With no room for another   *)
(* the write fails.                                                        *)
FreeTemps == {t \in Temps : temp[t] = "none"}
MakeTemp(p) ==
  /\ At(p) = "temp" /\ FreeTemps # {}
  /\ LET t == CHOOSE t \in FreeTemps : TRUE
     IN /\ temp' = [temp EXCEPT ![t] = "partial"]
        /\ call' = [call EXCEPT ![p] = [pc |-> "fill", case |-> Case(p), temp |-> t]]
  /\ UNCHANGED <<locks, file, order, old, due>>

(* The tensors go to the archive, which is complete when it is closed...   *)
WriteTemp(p) ==
  /\ At(p) = "fill"
  /\ temp' = [temp EXCEPT ![call[p].temp] = "complete"]
  /\ Go(p, "replace")
  /\ UNCHANGED <<locks, file, order, old, due>>

(* The temporary file of p, if it has one now, is removed. *)
HasTemp(p) == At(p) \in {"fill", "replace"}
Unlinked(p) == [t \in Temps |-> IF HasTemp(p) /\ call[p].temp = t THEN "none" ELSE temp[t]]

(* ... and takes, as it is, the name of the case; it has none of its own   *)
(* any more.                                                               *)
Replace(p) ==
  /\ At(p) = "replace"
  /\ file' = [file EXCEPT ![Case(p)] = temp[call[p].temp]] /\ temp' = Unlinked(p)
  /\ order' = Newest(Case(p)) /\ old' = old \ {Case(p)}
  /\ call' = [call EXCEPT ![p] = [pc |-> "evict", case |-> Case(p)]]
  /\ UNCHANGED <<locks, due>>

(* What an eviction leaves: none past the age limit, then the newest that  *)
(* fit; the case just written in any event.                                *)
Kept(p) ==
  LET young == SelectSeq(order, LAMBDA c : c \notin old \/ c = Case(p))
      excess == IF Len(young) > MAX_ARTIFACTS THEN Len(young) - MAX_ARTIFACTS ELSE 0
      others == SelectSeq(young, LAMBDA c : c # Case(p))
      gone == {others[i] : i \in {j \in DOMAIN others : j <= excess}}
  IN SelectSeq(young, LAMBDA c : c \notin gone)

Evict(p) ==
  /\ At(p) = "evict"
  /\ IF due
     THEN /\ order' = Kept(p)
          /\ file' = [c \in Cases |-> IF Contains(order', c) THEN file[c] ELSE "none"]
          /\ old' = old \cap ToSet(order') /\ due' = FALSE
     ELSE UNCHANGED <<file, order, old, due>>
  /\ rootLock' = Nobody /\ caseLock' = Unlocked(p) /\ Return(p)
  /\ UNCHANGED temp

SlipRenamesAnyway(p) ==
  /\ HasTemp(p)
  /\ file' = [file EXCEPT ![Case(p)] = temp[call[p].temp]] /\ order' = Newest(Case(p))
  /\ temp' = Unlinked(p) /\ rootLock' = Nobody /\ caseLock' = Unlocked(p) /\ Return(p)
  /\ UNCHANGED <<old, due>>
(* An error while writing, a disk that is full for one, or before anything *)
(* is evicted: the temporary file is removed, as far as it got, unless     *)
(* that fails as well; the call returns what it computed.                  *)
WriteFails(p) ==
  /\ At(p) \in {"temp", "fill", "replace", "evict"}
  /\ temp' \in {temp, Unlinked(p)}
  /\ rootLock' = Nobody /\ caseLock' = Unlocked(p) /\ Return(p)
  /\ UNCHANGED <<file, order, old, due>>

(* A process is killed: its locks are released, its temporary file stays   *)
(* as it is.                                                               *)
Crash(p) ==
  /\ At(p) # "idle" /\ Return(p)
  /\ caseLock' = Unlocked(p) /\ rootLock' = (IF rootLock = p THEN Nobody ELSE rootLock)
  /\ UNCHANGED files

(* Time passes, a minute or the month after which a file is too old; a     *)
(* file is damaged.                                                        *)
Passes ==
  /\ due' = TRUE /\ old' \in {old, ToSet(order)}
  /\ UNCHANGED <<call, locks, file, temp, order>>
Damage(c) ==
  /\ file[c] = "complete" /\ file' = [file EXCEPT ![c] = "damaged"]
  /\ UNCHANGED <<call, locks, temp, order, old, due>>

Step(p) ==
  \/ Look(p) \/ Open(p) \/ Hit(p) \/ Computed(p) \/ Raised(p)
  \/ MakeTemp(p) \/ WriteTemp(p) \/ Replace(p) \/ Evict(p) \/ WriteFails(p)
Next ==
  \/ \E p \in Processes : Call(p) \/ Step(p) \/ LockCase(p) \/ LockRoot(p) \/ Crash(p)
  \/ \E c \in Cases : Damage(c)
  \/ Passes
Spec == Init /\ [][Next]_vars

-----------------------------------------------------------------------------
(* No temporary file that is still being written, or that an error or a    *)
(* death cut short, ever bears the name of a case: readers take no lock    *)
(* (_write_artifact).                                                      *)
NoTornFile == \A c \in Cases : file[c] # "partial"

(* A case is computed by one process at a time, and by none that could     *)
(* have read it: not by one that missed it before another wrote it.        *)
NoDuplicateWork ==
  \A p \in Processes : At(p) = "compute" =>
    /\ \A q \in Processes \ {p} : At(q) = "compute" => Case(q) # Case(p)
    /\ ~call[p].refresh => file[Case(p)] # "complete"
=============================================================================
