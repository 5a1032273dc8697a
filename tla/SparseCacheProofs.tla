------------------------- MODULE SparseCacheProofs -------------------------
(***************************************************************************)
(* Proofs about SparseCache: for any number of threads, streams, lists and *)
(* blocks, and a cache of any size, every kernel reads lists that its call *)
(* was given, and none has its memory taken away.                          *)
(*                                                                         *)
(* The parts of the invariant take the memory, the queues, the entries and *)
(* the calls as parameters, since a call changes them first and gives away *)
(* the blocks that nobody holds any more after that (Collect).             *)
(***************************************************************************)
EXTENDS SparseCache, TLAPS

Entries == [lists : Lists, key : Nat, saved : Nat, block : Blocks, event : Nat]
Asking == [pc : {"lookup"}, lists : Lists, stream : Streams, key : Nat, by : Nat]
Holding == [pc : {"save", "hit", "launch"}, lists : Lists, stream : Streams, key : Nat, by : Nat,
            block : Blocks, event : Nat]
Saving == [pc : {"insert", "launch"}, lists : Lists, stream : Streams, key : Nat, by : Nat,
           block : Blocks, event : Nat, saved : Nat]
Keeping == [pc : {"held"}, lists : Lists, stream : Streams, key : Nat, by : Nat,
            block : Blocks, versions : Nat]
Calls == {Idle} \cup Asking \cup Holding \cup Saving \cup Keeping
Holders == {"save", "insert", "hit", "launch", "held"}

Writes == [op : {"write"}, block : Blocks, lists : Lists, version : Nat]
Records == [op : {"record"}, event : Nat]
Waits == [op : {"wait"}, event : Nat]
Releases == [op : {"release"}, blocks : SUBSET Blocks]
Reads == [op : {"read"}, block : Blocks, by : Nat, lists : Lists, first : Nat, last : Nat]
Ops == Writes \cup Records \cup Waits \cup Releases \cup Reads
Memory == [state : {"free", "live", "waiting"}, by : Nat, uses : SUBSET Streams]

Typed(memory, queues, entries, threads) ==
  /\ memory \in [Blocks -> Memory]
  /\ queues \in [Streams -> Seq(Ops)]
  /\ entries \in Seq(Entries)
  /\ threads \in [Threads -> Calls]
  /\ version \in [Lists -> Nat] /\ calls \in Nat /\ recorded \in SUBSET Nat
  /\ DOMAIN content = Blocks

(* What the operation at place i of a stream is. *)
WriteTo(queues, s, i, b) == queues[s][i].op = "write" /\ queues[s][i].block = b
ReadOf(queues, s, i, b) == queues[s][i].op = "read" /\ queues[s][i].block = b
ReleaseOf(queues, s, i, b) == queues[s][i].op = "release" /\ b \in queues[s][i].blocks
RecordOf(queues, s, i, e) == queues[s][i].op = "record" /\ queues[s][i].event = e
WaitFor(queues, s, i, e) == queues[s][i].op = "wait" /\ queues[s][i].event = e

(* After the first n operations of its owner, block b has list m at        *)
(* version v.                                                              *)
Will(queues, n, b, m, v) ==
  LET s == Owner[b]
  IN \/ \E i \in 1 .. n :
          /\ WriteTo(queues, s, i, b) /\ queues[s][i].lists = m /\ queues[s][i].version = v
          /\ \A j \in i + 1 .. n : ~WriteTo(queues, s, j, b)
     \/ content[b] = <<m, v>> /\ \A j \in 1 .. n : ~WriteTo(queues, s, j, b)
(* ... at some version from first to last. *)
Between(queues, n, b, m, first, last) == \E v \in Nat : first <= v /\ v <= last /\ Will(queues, n, b, m, v)
(* ... once all that is queued has run. *)
Ready(queues, b, m, first, last) == Between(queues, Len(queues[Owner[b]]), b, m, first, last)

(* An event that has not been recorded, nor will be by what is queued. *)
NotYet(queues, e) ==
  e \notin recorded /\ \A s \in Streams : \A i \in 1 .. Len(queues[s]) : ~RecordOf(queues, s, i, e)
(* The operations of s from place n on come after event e. *)
Waited(queues, s, n, e) == e \in recorded \/ \E i \in 1 .. n : WaitFor(queues, s, i, e)

-----------------------------------------------------------------------------
(* A call has a number of its own, and a key its lists had before. *)
Numbered(threads) ==
  \A t \in Threads : threads[t].pc # "idle" =>
    /\ threads[t].stream = CurrentStream[t]
    /\ threads[t].by <= calls
    /\ threads[t].key <= version[threads[t].lists]
    /\ \A u \in Threads \ {t} : threads[u].pc # "idle" => threads[u].by # threads[t].by

(* The event of a call is not recorded before the call has saved the       *)
(* versions, and no block but its own bears its number.                    *)
Fresh(memory, queues, threads) ==
  /\ \A t \in Threads : threads[t].pc \in {"lookup", "save"} =>
       /\ NotYet(queues, threads[t].by)
       /\ \A b \in Blocks : memory[b].state # "free" /\ memory[b].by = threads[t].by =>
            threads[t].pc = "save" /\ threads[t].block = b
  /\ \A e \in Nat : e > calls => NotYet(queues, e)
  /\ \A b \in Blocks : memory[b].by <= calls

(* Streams write blocks of their own. *)
OwnWrites(queues) ==
  \A s \in Streams : \A i \in 1 .. Len(queues[s]) : queues[s][i].op = "write" => Owner[queues[s][i].block] = s

(* The block of an entry ... *)
EntryLive(memory, queues, e) ==
  /\ memory[e.block].state = "live" /\ memory[e.block].by = e.event
  /\ Ready(queues, e.block, e.lists, e.key, e.saved)
  /\ e.saved <= version[e.lists]
EntriesLive(memory, queues, entries) ==
  \A i \in 1 .. Len(entries) : EntryLive(memory, queues, entries[i])
(* ... and of a call is not given away, and has what its holder needs. *)
CallLive(memory, queues, c) ==
  /\ memory[c.block].state = "live"
  /\ Ready(queues, c.block, c.lists, c.key, version[c.lists])
  /\ c.pc \in {"save", "insert"} => Owner[c.block] = c.stream /\ c.event = c.by
  /\ c.pc \in {"save", "insert", "hit"} => memory[c.block].by = c.event
  /\ c.pc = "insert" => Ready(queues, c.block, c.lists, c.key, c.saved) /\ c.saved <= version[c.lists]
  /\ c.pc = "held" => Ready(queues, c.block, c.lists, c.key, c.versions)
  /\ c.pc \in {"launch", "held"} =>
       Owner[c.block] = c.stream \/ Waited(queues, c.stream, Len(queues[c.stream]), memory[c.block].by)
CallsLive(memory, queues, threads) ==
  \A t \in Threads : threads[t].pc \in Holders => CallLive(memory, queues, threads[t])

(* A kernel on the stream that owns its block finds there what the         *)
(* operations before it leave.                                             *)
OwnRead(queues, i, r) == Between(queues, i - 1, r.block, r.lists, r.first, r.last)
(* On another stream it comes after the event, and its block stays the     *)
(* same until then.                                                        *)
OtherRead(memory, queues, s, i, r) ==
  /\ memory[r.block].state # "free" /\ memory[r.block].by = r.by /\ s \in memory[r.block].uses
  /\ Ready(queues, r.block, r.lists, r.first, r.last)
  /\ Waited(queues, s, i - 1, r.by)
OwnReads(queues) ==
  \A s \in Streams : \A i \in 1 .. Len(queues[s]) :
    queues[s][i].op = "read" /\ Owner[queues[s][i].block] = s => OwnRead(queues, i, queues[s][i])
OtherReads(memory, queues) ==
  \A s \in Streams : \A i \in 1 .. Len(queues[s]) :
    queues[s][i].op = "read" /\ Owner[queues[s][i].block] # s => OtherRead(memory, queues, s, i, queues[s][i])

(* The event of a block is recorded after what is written to it. *)
RecordedAfter(memory, queues) ==
  \A b \in Blocks : memory[b].state # "free" =>
    \A j \in 1 .. Len(queues[Owner[b]]) : WriteTo(queues, Owner[b], j, b) =>
      /\ memory[b].by \notin recorded
      /\ \A s \in Streams : \A k \in 1 .. Len(queues[s]) :
           RecordOf(queues, s, k, memory[b].by) => s = Owner[b] /\ j < k

(* A block is released, once, by each stream it waits for, behind the      *)
(* kernels that read it.                                                   *)
ReleasedAfter(memory, queues) ==
  \A s \in Streams : \A k \in 1 .. Len(queues[s]) : \A b \in Blocks : ReleaseOf(queues, s, k, b) =>
    /\ memory[b].state = "waiting" /\ s \in memory[b].uses
    /\ \A i \in 1 .. Len(queues[s]) :
         /\ ReadOf(queues, s, i, b) /\ Owner[b] # s => i < k
         /\ ReleaseOf(queues, s, i, b) => i = k

Sound(memory, queues, entries, threads) ==
  /\ Typed(memory, queues, entries, threads)
  /\ Numbered(threads)
  /\ Fresh(memory, queues, threads)
  /\ OwnWrites(queues)
  /\ EntriesLive(memory, queues, entries)
  /\ CallsLive(memory, queues, threads)
  /\ OwnReads(queues)
  /\ OtherReads(memory, queues)
  /\ RecordedAfter(memory, queues)
  /\ ReleasedAfter(memory, queues)
IInv == Sound(mem, queue, cache, call)

-----------------------------------------------------------------------------
(* What is known of an operation, an entry or a call from its kind. *)
LEMMA OpFacts ==
  ASSUME NEW op \in Ops
  PROVE  /\ op.op = "write" => op.block \in Blocks /\ op.lists \in Lists /\ op.version \in Nat
         /\ op.op \in {"record", "wait"} => op.event \in Nat
         /\ op.op = "release" => op.blocks \in SUBSET Blocks
         /\ op.op = "read" => /\ op.block \in Blocks /\ op.by \in Nat /\ op.lists \in Lists
                             /\ op.first \in Nat /\ op.last \in Nat
         /\ op.op \in {"write", "record", "wait", "release", "read"}
BY DEF Ops, Writes, Records, Waits, Releases, Reads

LEMMA OpAt ==
  ASSUME NEW queues \in [Streams -> Seq(Ops)], NEW s \in Streams
  PROVE  /\ queues[s] \in Seq(Ops) /\ Len(queues[s]) \in Nat
         /\ \A i \in 1 .. Len(queues[s]) : queues[s][i] \in Ops
OBVIOUS

LEMMA CallFacts ==
  ASSUME NEW c \in Calls
  PROVE  /\ c.pc # "idle" => /\ c.lists \in Lists /\ c.stream \in Streams /\ c.key \in Nat
                            /\ c.by \in Nat
         /\ c.pc \in Holders => c.block \in Blocks
         /\ c.pc \in {"save", "hit", "insert"} => c.event \in Nat
         /\ c.pc = "insert" => c.saved \in Nat
         /\ c.pc = "held" => c.versions \in Nat
         /\ c.pc \in {"idle", "lookup", "save", "insert", "hit", "launch", "held"}
BY DEF Calls, Idle, Asking, Holding, Saving, Keeping, Holders

LEMMA EntryFacts ==
  ASSUME NEW entries \in Seq(Entries), NEW i \in 1 .. Len(entries)
  PROVE  /\ entries[i] \in Entries
         /\ entries[i].lists \in Lists /\ entries[i].key \in Nat /\ entries[i].saved \in Nat
         /\ entries[i].block \in Blocks /\ entries[i].event \in Nat
<1>1. entries[i] \in Entries
  OBVIOUS
<1>2. QED
  BY <1>1 DEF Entries

LEMMA IInvInit == Init => IInv
<1> SUFFICES ASSUME Init PROVE IInv
  OBVIOUS
<1>1. /\ \A s \in Streams : queue[s] = << >> /\ Len(queue[s]) = 0
      /\ \A t \in Threads : call[t].pc = "idle"
      /\ \A b \in Blocks : mem[b].state = "free" /\ mem[b].by = 0
      /\ Len(cache) = 0 /\ recorded = {} /\ calls = 0
  BY DEF Init, Idle, NoBlock
<1>2. Typed(mem, queue, cache, call)
  BY DEF Init, Typed, Calls, Memory, NoBlock
<1>3. Numbered(call) /\ EntriesLive(mem, queue, cache) /\ CallsLive(mem, queue, call)
  BY <1>1 DEF Numbered, EntriesLive, CallsLive, Holders
<1>4. Fresh(mem, queue, call)
  BY <1>1 DEF Fresh, NotYet
<1>5. OwnWrites(queue) /\ OwnReads(queue) /\ OtherReads(mem, queue)
  BY <1>1 DEF OwnWrites, OwnReads, OtherReads
<1>6. RecordedAfter(mem, queue) /\ ReleasedAfter(mem, queue)
  BY <1>1 DEF RecordedAfter, ReleasedAfter
<1>7. QED
  BY <1>2, <1>3, <1>4, <1>5, <1>6 DEF IInv, Sound
-----------------------------------------------------------------------------
(* Queues that grow at their ends: nothing is different at a place that    *)
(* was there before.                                                       *)
Grown(before, after) ==
  /\ before \in [Streams -> Seq(Ops)] /\ after \in [Streams -> Seq(Ops)]
  /\ \A s \in Streams :
       /\ Len(before[s]) <= Len(after[s])
       /\ \A i \in 1 .. Len(before[s]) : after[s][i] = before[s][i]
NewPlaces(before, after, s) == Len(before[s]) + 1 .. Len(after[s])

LEMMA WillGrows ==
  ASSUME ListsAssumption, NEW before, NEW after, Grown(before, after), NEW b \in Blocks, NEW m, NEW v,
         NEW n \in 0 .. Len(before[Owner[b]])
  PROVE  Will(before, n, b, m, v) <=> Will(after, n, b, m, v)
<1> DEFINE s == Owner[b]
<1>1. s \in Streams
  BY DEF ListsAssumption
<1>2. Len(before[s]) \in Nat /\ \A i \in 1 .. n : i \in 1 .. Len(before[s]) /\ after[s][i] = before[s][i]
  BY <1>1, OpAt DEF Grown
<1>3. \A i \in 1 .. n : WriteTo(before, s, i, b) <=> WriteTo(after, s, i, b)
  BY <1>2 DEF WriteTo
<1>4. QED
  BY <1>2, <1>3 DEF Will

LEMMA BetweenGrows ==
  ASSUME ListsAssumption, NEW before, NEW after, Grown(before, after), NEW b \in Blocks, NEW m,
         NEW first, NEW last, NEW n \in 0 .. Len(before[Owner[b]]), Between(before, n, b, m, first, last)
  PROVE  Between(after, n, b, m, first, last)
BY WillGrows DEF Between

LEMMA ReadyGrows ==
  ASSUME ListsAssumption, NEW before, NEW after, Grown(before, after), NEW b \in Blocks,
         NEW m, NEW first, NEW last, Ready(before, b, m, first, last),
         \A i \in NewPlaces(before, after, Owner[b]) : ~WriteTo(after, Owner[b], i, b)
  PROVE  Ready(after, b, m, first, last)
<1> DEFINE s == Owner[b]
           n == Len(before[s])
           k == Len(after[s])
<1>1. s \in Streams
  BY DEF ListsAssumption
<1>2. n \in Nat /\ k \in Nat /\ n <= k
  BY <1>1, OpAt DEF Grown
<1>3. PICK v \in Nat : first <= v /\ v <= last /\ Will(before, n, b, m, v)
  BY DEF Ready, Between
<1>4. Will(after, n, b, m, v)
  BY <1>2, <1>3, WillGrows
<1>5. \A i \in n + 1 .. k : ~WriteTo(after, s, i, b)
  BY DEF NewPlaces
<1> HIDE DEF n, k
<1>6. Will(after, k, b, m, v)
  <2>1. CASE \E i \in 1 .. n :
              /\ WriteTo(after, s, i, b) /\ after[s][i].lists = m /\ after[s][i].version = v
              /\ \A j \in i + 1 .. n : ~WriteTo(after, s, j, b)
    <3>1. PICK i \in 1 .. n :
              /\ WriteTo(after, s, i, b) /\ after[s][i].lists = m /\ after[s][i].version = v
              /\ \A j \in i + 1 .. n : ~WriteTo(after, s, j, b)
      BY <2>1
    <3>2. i \in 1 .. k /\ \A j \in i + 1 .. k : j \in i + 1 .. n \/ j \in n + 1 .. k
      BY <1>2
    <3>3. QED
      BY <3>1, <3>2, <1>5 DEF Will
  <2>2. CASE content[b] = <<m, v>> /\ \A j \in 1 .. n : ~WriteTo(after, s, j, b)
    <3>1. \A j \in 1 .. k : j \in 1 .. n \/ j \in n + 1 .. k
      BY <1>2
    <3>2. QED
      BY <2>2, <3>1, <1>5 DEF Will
  <2>3. QED
    BY <1>4, <2>1, <2>2 DEF Will
<1>7. QED
  BY <1>3, <1>6 DEF Ready, Between, k

LEMMA WaitedGrows ==
  ASSUME NEW before, NEW after, Grown(before, after), NEW s \in Streams, NEW e,
         NEW n \in 0 .. Len(before[s]), NEW k \in Nat, n <= k, Waited(before, s, n, e)
  PROVE  Waited(after, s, k, e)
<1>1. Len(before[s]) \in Nat /\ \A i \in 1 .. n : i \in 1 .. k /\ after[s][i] = before[s][i]
  BY OpAt DEF Grown
<1>2. QED
  BY <1>1 DEF Waited, WaitFor

(* A later version than the one known of does as well. *)
LEMMA ReadyLater ==
  ASSUME NEW queues, NEW b, NEW m, NEW first, NEW last \in Nat, NEW later \in Nat, last <= later,
         Ready(queues, b, m, first, last)
  PROVE  Ready(queues, b, m, first, later)
BY DEF Ready, Between
(* The operations that may be added. *)
Fits(memory, after, threads, s, i) ==
  LET op == after[s][i]
  IN /\ op.op = "write" => Owner[op.block] = s /\ memory[op.block].state = "free"
     /\ op.op = "record" =>
          /\ op.event <= calls
          /\ \A t \in Threads : threads[t].pc \in {"lookup", "save"} => threads[t].by # op.event
          /\ \A b \in Blocks : memory[b].state # "free" /\ memory[b].by = op.event => Owner[b] = s
     /\ op.op = "read" /\ Owner[op.block] = s => OwnRead(after, i, op)
     /\ op.op = "read" /\ Owner[op.block] # s =>
          memory[op.block].state = "live" /\ OtherRead(memory, after, s, i, op)
     /\ op.op # "release"

LEMMA SoundGrows ==
  ASSUME ListsAssumption, NEW memory, NEW before, NEW after, NEW entries, NEW threads,
         Sound(memory, before, entries, threads), Grown(before, after),
         \A s \in Streams : \A i \in NewPlaces(before, after, s) : Fits(memory, after, threads, s, i)
  PROVE  Sound(memory, after, entries, threads)
<1>1. /\ Typed(memory, before, entries, threads)
      /\ Numbered(threads)
      /\ Fresh(memory, before, threads)
      /\ OwnWrites(before)
      /\ EntriesLive(memory, before, entries)
      /\ CallsLive(memory, before, threads)
      /\ OwnReads(before)
      /\ OtherReads(memory, before)
      /\ RecordedAfter(memory, before)
      /\ ReleasedAfter(memory, before)
  BY DEF Sound
<1>2. \A s \in Streams : Len(before[s]) \in Nat /\ Len(after[s]) \in Nat /\ Len(before[s]) <= Len(after[s])
  BY OpAt DEF Grown
<1>3. \A s \in Streams : \A i \in 1 .. Len(after[s]) :
        \/ i \in 1 .. Len(before[s]) /\ after[s][i] = before[s][i]
        \/ i \in NewPlaces(before, after, s) /\ i > Len(before[s]) /\ Fits(memory, after, threads, s, i)
  BY <1>2 DEF Grown, NewPlaces
<1>4. \A s \in Streams : \A i \in 1 .. Len(before[s]) : i \in 1 .. Len(after[s]) /\ after[s][i] = before[s][i]
  BY <1>2 DEF Grown
<1>5. \A s \in Streams : \A i \in 1 .. Len(after[s]) : after[s][i] \in Ops
  BY OpAt DEF Grown
<1>6. Typed(memory, after, entries, threads)
  BY <1>1 DEF Typed, Grown
<1>7. Fresh(memory, after, threads)
  <2>1. ASSUME NEW e, NotYet(before, e), e > calls \/ \E t \in Threads : threads[t].pc \in {"lookup", "save"} /\ threads[t].by = e,
               NEW s \in Streams, NEW i \in 1 .. Len(after[s]), RecordOf(after, s, i, e), e \in Nat
        PROVE  FALSE
    <3>1. CASE i \in 1 .. Len(before[s]) /\ after[s][i] = before[s][i]
      BY <2>1, <3>1 DEF NotYet, RecordOf
    <3>2. CASE Fits(memory, after, threads, s, i)
      BY <1>1, <2>1, <3>2 DEF Fits, RecordOf, Typed
    <3>3. QED
      BY <1>3, <3>1, <3>2
  <2>2. \A t \in Threads : threads[t].pc \in {"lookup", "save"} => threads[t].by \in Nat
    BY <1>1, CallFacts DEF Typed
  <2>3. \A t \in Threads : threads[t].pc \in {"lookup", "save"} => NotYet(after, threads[t].by)
    BY <1>1, <2>1, <2>2 DEF Fresh, NotYet
  <2>4. \A e \in Nat : e > calls => NotYet(after, e)
    BY <1>1, <2>1 DEF Fresh, NotYet
  <2>5. QED
    BY <1>1, <2>3, <2>4 DEF Fresh
<1>8. OwnWrites(after)
  BY <1>1, <1>3 DEF OwnWrites, Fits
<1>9. ASSUME NEW b \in Blocks, memory[b].state # "free", NEW m, NEW first, NEW last,
             Ready(before, b, m, first, last)
      PROVE  Ready(after, b, m, first, last)
  <2>1. Owner[b] \in Streams
    BY DEF ListsAssumption
  <2>2. \A i \in NewPlaces(before, after, Owner[b]) : ~WriteTo(after, Owner[b], i, b)
    BY <1>9, <2>1 DEF Fits, WriteTo
  <2>3. QED
    BY <1>9, <2>2, ReadyGrows
<1>10. EntriesLive(memory, after, entries)
  <2> SUFFICES ASSUME NEW i \in 1 .. Len(entries)
               PROVE  EntryLive(memory, after, entries[i])
    BY DEF EntriesLive
  <2>1. entries[i].block \in Blocks /\ EntryLive(memory, before, entries[i])
    BY <1>1, EntryFacts DEF Typed, EntriesLive
  <2>2. QED
    BY <1>9, <2>1 DEF EntryLive
<1>11. CallsLive(memory, after, threads)
  <2> SUFFICES ASSUME NEW t \in Threads, threads[t].pc \in Holders
               PROVE  CallLive(memory, after, threads[t])
    BY DEF CallsLive
  <2> DEFINE c == threads[t]
  <2>1. CallLive(memory, before, c)
    BY <1>1 DEF CallsLive
  <2>2. c \in Calls /\ c.block \in Blocks /\ c.stream \in Streams
    BY <1>1, CallFacts DEF Typed, Holders
  <2>3. Waited(before, c.stream, Len(before[c.stream]), memory[c.block].by) =>
          Waited(after, c.stream, Len(after[c.stream]), memory[c.block].by)
    BY <1>2, <2>2, WaitedGrows
  <2> HIDE DEF c
  <2>4. ASSUME NEW last, Ready(before, c.block, c.lists, c.key, last)
        PROVE  Ready(after, c.block, c.lists, c.key, last)
    BY <1>9, <2>1, <2>2, <2>4 DEF CallLive
  <2>5. /\ Ready(after, c.block, c.lists, c.key, version[c.lists])
        /\ c.pc = "insert" => Ready(after, c.block, c.lists, c.key, c.saved)
        /\ c.pc = "held" => Ready(after, c.block, c.lists, c.key, c.versions)
    BY <2>1, <2>4 DEF CallLive
  <2>6. CallLive(memory, after, c)
    BY <2>1, <2>3, <2>5 DEF CallLive
  <2>7. QED
    BY <2>6 DEF c
<1>12. ASSUME NEW s \in Streams, NEW i \in 1 .. Len(after[s]), after[s][i].op = "read"
       PROVE  /\ Owner[after[s][i].block] = s => OwnRead(after, i, after[s][i])
              /\ Owner[after[s][i].block] # s => OtherRead(memory, after, s, i, after[s][i])
  <2> DEFINE r == after[s][i]
  <2>1. r.block \in Blocks
    BY <1>5, <1>12, OpFacts
  <2>2. CASE i \in 1 .. Len(before[s]) /\ r = before[s][i]
    <3>1. i - 1 \in 0 .. Len(before[s]) /\ i - 1 \in Nat
      BY <1>2, <2>2
    <3>2. ASSUME Owner[r.block] = s PROVE OwnRead(after, i, r)
      <4>1. OwnRead(before, i, r)
        BY <1>1, <1>12, <2>2, <3>2 DEF OwnReads
      <4> HIDE DEF r
      <4>2. QED
        BY <2>1, <3>1, <3>2, <4>1, BetweenGrows DEF OwnRead
    <3>3. ASSUME Owner[r.block] # s PROVE OtherRead(memory, after, s, i, r)
      <4>1. OtherRead(memory, before, s, i, r)
        BY <1>1, <1>12, <2>2, <3>3 DEF OtherReads
      <4> HIDE DEF r
      <4>2. Waited(after, s, i - 1, r.by)
        BY <3>1, <4>1, WaitedGrows DEF OtherRead
      <4>3. QED
        BY <1>9, <2>1, <4>1, <4>2 DEF OtherRead
    <3>4. QED
      BY <3>2, <3>3
  <2>3. CASE Fits(memory, after, threads, s, i)
    BY <1>12, <2>3 DEF Fits
  <2>4. QED
    BY <1>3, <2>2, <2>3
<1>13. OwnReads(after) /\ OtherReads(memory, after)
  BY <1>12 DEF OwnReads, OtherReads
<1>14. RecordedAfter(memory, after)
  <2> SUFFICES ASSUME NEW b \in Blocks, memory[b].state # "free",
                      NEW j \in 1 .. Len(after[Owner[b]]), WriteTo(after, Owner[b], j, b)
               PROVE  /\ memory[b].by \notin recorded
                      /\ \A s \in Streams : \A k \in 1 .. Len(after[s]) :
                           RecordOf(after, s, k, memory[b].by) => s = Owner[b] /\ j < k
    BY DEF RecordedAfter
  <2>1. Owner[b] \in Streams
    BY DEF ListsAssumption
  <2>2. j \in 1 .. Len(before[Owner[b]]) /\ WriteTo(before, Owner[b], j, b)
    BY <1>3, <2>1 DEF Fits, WriteTo
  <2>3. /\ memory[b].by \notin recorded
        /\ \A s \in Streams : \A k \in 1 .. Len(before[s]) :
             RecordOf(before, s, k, memory[b].by) => s = Owner[b] /\ j < k
    BY <1>1, <2>2 DEF RecordedAfter
  <2>4. ASSUME NEW s \in Streams, NEW k \in 1 .. Len(after[s]), RecordOf(after, s, k, memory[b].by)
        PROVE  s = Owner[b] /\ j < k
    <3>1. CASE k \in 1 .. Len(before[s]) /\ after[s][k] = before[s][k]
      BY <2>3, <2>4, <3>1 DEF RecordOf
    <3>2. CASE k > Len(before[s]) /\ Fits(memory, after, threads, s, k)
      <4>1. s = Owner[b]
        BY <2>4, <3>2 DEF Fits, RecordOf
      <4>2. QED
        BY <1>2, <2>2, <3>2, <4>1
    <3>3. QED
      BY <1>3, <3>1, <3>2
  <2>5. QED
    BY <2>3, <2>4
<1>15. ReleasedAfter(memory, after)
  <2> SUFFICES ASSUME NEW s \in Streams, NEW k \in 1 .. Len(after[s]), NEW b \in Blocks,
                      ReleaseOf(after, s, k, b)
               PROVE  /\ memory[b].state = "waiting" /\ s \in memory[b].uses
                      /\ \A i \in 1 .. Len(after[s]) :
                           /\ ReadOf(after, s, i, b) /\ Owner[b] # s => i < k
                           /\ ReleaseOf(after, s, i, b) => i = k
    BY DEF ReleasedAfter
  <2>1. \A i \in 1 .. Len(after[s]) : ReleaseOf(after, s, i, b) =>
          i \in 1 .. Len(before[s]) /\ ReleaseOf(before, s, i, b)
    BY <1>3 DEF Fits, ReleaseOf
  <2>2. /\ memory[b].state = "waiting" /\ s \in memory[b].uses
        /\ \A i \in 1 .. Len(before[s]) :
             /\ ReadOf(before, s, i, b) /\ Owner[b] # s => i < k
             /\ ReleaseOf(before, s, i, b) => i = k
    BY <1>1, <2>1 DEF ReleasedAfter
  <2>3. \A i \in 1 .. Len(after[s]) : ReadOf(after, s, i, b) /\ Owner[b] # s =>
          i \in 1 .. Len(before[s]) /\ ReadOf(before, s, i, b)
    BY <1>3, <2>2 DEF Fits, ReadOf
  <2>4. QED
    BY <2>1, <2>2, <2>3
<1>16. QED
  BY <1>1, <1>6, <1>7, <1>8, <1>10, <1>11, <1>13, <1>14, <1>15 DEF Sound
(* One operation more. *)
Puts(before, after, s, op) == after = [before EXCEPT ![s] = Append(@, op)]

LEMMA PutGrows ==
  ASSUME NEW before \in [Streams -> Seq(Ops)], NEW s \in Streams, NEW op \in Ops, NEW after,
         Puts(before, after, s, op)
  PROVE  /\ Grown(before, after)
         /\ after[s][Len(before[s]) + 1] = op /\ Len(after[s]) = Len(before[s]) + 1
         /\ \A z \in Streams : \A i \in NewPlaces(before, after, z) : z = s /\ i = Len(before[s]) + 1
<1>1. after \in [Streams -> Seq(Ops)]
  BY DEF Puts
<1>2. ASSUME NEW z \in Streams
      PROVE  /\ z # s => after[z] = before[z]
             /\ z = s => /\ Len(after[z]) = Len(before[z]) + 1 /\ after[z][Len(before[z]) + 1] = op
                        /\ \A i \in 1 .. Len(before[z]) : after[z][i] = before[z][i]
             /\ Len(before[z]) \in Nat
  BY DEF Puts
<1>3. Grown(before, after)
  BY <1>1, <1>2, SMTT(30) DEF Grown
<1>4. QED
  BY <1>2, <1>3 DEF NewPlaces

(* A call that goes on. *)
LEMMA SoundCall ==
  ASSUME NEW memory, NEW queues, NEW entries, NEW threads, Sound(memory, queues, entries, threads),
         NEW t \in Threads, NEW c \in Calls, NEW next, next = [threads EXCEPT ![t] = c],
         c.pc # "idle" => /\ threads[t].pc # "idle" /\ c.lists = threads[t].lists
                         /\ c.stream = threads[t].stream /\ c.key = threads[t].key /\ c.by = threads[t].by,
         c.pc \notin {"lookup", "save"},
         c.pc \in Holders => CallLive(memory, queues, c)
  PROVE  Sound(memory, queues, entries, next)
<1>1. Typed(memory, queues, entries, threads) /\ Numbered(threads) /\ Fresh(memory, queues, threads)
  BY DEF Sound
<1>2. next[t] = c /\ \A u \in Threads \ {t} : next[u] = threads[u]
  BY <1>1 DEF Typed
<1>3. Typed(memory, queues, entries, next)
  BY <1>1 DEF Typed
<1>4. Numbered(next)
  BY <1>1, <1>2 DEF Numbered
<1>5. Fresh(memory, queues, next)
  BY <1>1, <1>2 DEF Fresh
<1>6. CallsLive(memory, queues, next)
  BY <1>2 DEF Sound, CallsLive
<1>7. QED
  BY <1>3, <1>4, <1>5, <1>6 DEF Sound

LEMMA SoundEntries ==
  ASSUME NEW memory, NEW queues, NEW entries, NEW threads, Sound(memory, queues, entries, threads),
         NEW next \in Seq(Entries),
         \A i \in 1 .. Len(next) : EntryLive(memory, queues, next[i])
  PROVE  Sound(memory, queues, next, threads)
BY DEF Sound, Typed, EntriesLive

(* A use is recorded. *)
LEMMA SoundUsed ==
  ASSUME NEW memory, NEW queues, NEW entries, NEW threads, Sound(memory, queues, entries, threads),
         NEW b \in Blocks, NEW s \in Streams, NEW next, next = [memory EXCEPT ![b].uses = @ \cup {s}]
  PROVE  Sound(next, queues, entries, threads) /\ s \in next[b].uses
<1>1. Typed(memory, queues, entries, threads)
  BY DEF Sound
<1>2. /\ next \in [Blocks -> Memory] /\ s \in next[b].uses
      /\ \A a \in Blocks : /\ next[a].state = memory[a].state /\ next[a].by = memory[a].by
                           /\ memory[a].uses \subseteq next[a].uses
  BY <1>1 DEF Typed, Memory
<1>3. Typed(next, queues, entries, threads)
  BY <1>1, <1>2 DEF Typed
<1>4. Fresh(next, queues, threads)
  BY <1>2 DEF Sound, Fresh
<1>5. EntriesLive(next, queues, entries)
  BY <1>1, <1>2, EntryFacts DEF Sound, Typed, EntriesLive, EntryLive
<1>6. CallsLive(next, queues, threads)
  <2> SUFFICES ASSUME NEW t \in Threads, threads[t].pc \in Holders
               PROVE  CallLive(next, queues, threads[t])
    BY DEF CallsLive
  <2>1. threads[t].block \in Blocks
    BY <1>1, CallFacts DEF Typed
  <2>2. QED
    BY <1>2, <2>1 DEF Sound, CallsLive, CallLive
<1>7. OtherReads(next, queues)
  <2> SUFFICES ASSUME NEW z \in Streams, NEW i \in 1 .. Len(queues[z]),
                      queues[z][i].op = "read", Owner[queues[z][i].block] # z
               PROVE  OtherRead(next, queues, z, i, queues[z][i])
    BY DEF OtherReads
  <2>1. queues[z][i].block \in Blocks
    BY <1>1, OpAt, OpFacts DEF Typed
  <2>2. QED
    BY <1>2, <2>1 DEF Sound, OtherReads, OtherRead
<1>8. RecordedAfter(next, queues) /\ ReleasedAfter(next, queues)
  BY <1>2 DEF Sound, RecordedAfter, ReleasedAfter
<1>9. QED
  BY <1>2, <1>3, <1>4, <1>5, <1>6, <1>7, <1>8 DEF Sound

(* A call takes a free block, of which its stream knows already what it    *)
(* will have.                                                              *)
LEMMA SoundTaken ==
  ASSUME NEW memory, NEW queues, NEW entries, NEW threads, Sound(memory, queues, entries, threads),
         NEW t \in Threads, threads[t].pc = "lookup",
         NEW b \in Blocks, memory[b].state = "free", Owner[b] = threads[t].stream,
         Ready(queues, b, threads[t].lists, threads[t].key, version[threads[t].lists]),
         NEW nextMemory, nextMemory = [memory EXCEPT ![b] = [state |-> "live", by |-> threads[t].by, uses |-> {}]],
         NEW nextThreads,
         nextThreads = [threads EXCEPT ![t] = [pc |-> "save", lists |-> @.lists, stream |-> @.stream, key |-> @.key,
                                               by |-> @.by, block |-> b, event |-> @.by]]
  PROVE  Sound(nextMemory, queues, entries, nextThreads)
<1> DEFINE g == threads[t].by
<1>1. Typed(memory, queues, entries, threads) /\ Numbered(threads) /\ Fresh(memory, queues, threads)
  BY DEF Sound
<1>2. /\ threads[t] \in Calls /\ g \in Nat /\ g <= calls /\ NotYet(queues, g)
      /\ threads[t].lists \in Lists /\ threads[t].stream \in Streams /\ threads[t].key \in Nat
  BY <1>1, CallFacts DEF Typed, Numbered, Fresh
<1>3. /\ nextMemory[b] = [state |-> "live", by |-> g, uses |-> {}]
      /\ \A a \in Blocks \ {b} : nextMemory[a] = memory[a]
      /\ nextMemory \in [Blocks -> Memory]
  BY <1>1, <1>2 DEF Typed, Memory
<1>4. /\ nextThreads[t] = [pc |-> "save", lists |-> threads[t].lists, stream |-> threads[t].stream,
                           key |-> threads[t].key, by |-> g, block |-> b, event |-> g]
      /\ \A u \in Threads \ {t} : nextThreads[u] = threads[u]
  BY <1>1 DEF Typed
<1>5. nextThreads[t] \in Calls /\ nextThreads \in [Threads -> Calls]
  <2>1. nextThreads[t] \in Holding
    BY <1>2, <1>4 DEF Holding
  <2>2. QED
    BY <1>1, <2>1 DEF Typed, Calls
<1>6. Typed(nextMemory, queues, entries, nextThreads)
  BY <1>1, <1>3, <1>5 DEF Typed
<1>7. Numbered(nextThreads)
  BY <1>1, <1>4 DEF Numbered
<1>8. Fresh(nextMemory, queues, nextThreads)
  <2>1. \A u \in Threads : nextThreads[u].pc \in {"lookup", "save"} =>
          /\ NotYet(queues, nextThreads[u].by)
          /\ \A a \in Blocks : nextMemory[a].state # "free" /\ nextMemory[a].by = nextThreads[u].by =>
               nextThreads[u].pc = "save" /\ nextThreads[u].block = a
    BY <1>1, <1>2, <1>3, <1>4 DEF Fresh, Numbered
  <2>2. \A a \in Blocks : nextMemory[a].by <= calls
    BY <1>1, <1>2, <1>3 DEF Fresh
  <2>3. QED
    BY <1>1, <2>1, <2>2 DEF Fresh
<1>9. EntriesLive(nextMemory, queues, entries)
  <2> SUFFICES ASSUME NEW i \in 1 .. Len(entries) PROVE EntryLive(nextMemory, queues, entries[i])
    BY DEF EntriesLive
  <2>1. EntryLive(memory, queues, entries[i]) /\ entries[i].block \in Blocks
    BY <1>1, EntryFacts DEF Typed, Sound, EntriesLive
  <2>2. entries[i].block # b
    BY <2>1 DEF EntryLive
  <2>3. QED
    BY <1>3, <2>1, <2>2 DEF EntryLive
<1>10. CallsLive(nextMemory, queues, nextThreads)
  <2>1. CallLive(nextMemory, queues, nextThreads[t])
    BY <1>3, <1>4 DEF CallLive
  <2>2. ASSUME NEW u \in Threads \ {t}, threads[u].pc \in Holders
        PROVE  CallLive(nextMemory, queues, threads[u])
    <3>1. CallLive(memory, queues, threads[u]) /\ threads[u].block \in Blocks
      BY <1>1, <2>2, CallFacts DEF Typed, Sound, CallsLive
    <3>2. threads[u].block # b
      BY <3>1 DEF CallLive
    <3>3. QED
      BY <1>3, <3>1, <3>2 DEF CallLive
  <2>3. QED
    BY <1>4, <2>1, <2>2 DEF CallsLive
<1>11. OtherReads(nextMemory, queues)
  <2> SUFFICES ASSUME NEW z \in Streams, NEW i \in 1 .. Len(queues[z]),
                      queues[z][i].op = "read", Owner[queues[z][i].block] # z
               PROVE  OtherRead(nextMemory, queues, z, i, queues[z][i])
    BY DEF OtherReads
  <2>1. queues[z][i].block \in Blocks /\ OtherRead(memory, queues, z, i, queues[z][i])
    BY <1>1, OpAt, OpFacts DEF Typed, Sound, OtherReads
  <2>2. queues[z][i].block # b
    BY <2>1 DEF OtherRead
  <2>3. QED
    BY <1>3, <2>1, <2>2 DEF OtherRead
<1>12. RecordedAfter(nextMemory, queues)
  <2> SUFFICES ASSUME NEW a \in Blocks, nextMemory[a].state # "free",
                      NEW j \in 1 .. Len(queues[Owner[a]]), WriteTo(queues, Owner[a], j, a)
               PROVE  /\ nextMemory[a].by \notin recorded
                      /\ \A s \in Streams : \A k \in 1 .. Len(queues[s]) :
                           RecordOf(queues, s, k, nextMemory[a].by) => s = Owner[a] /\ j < k
    BY DEF RecordedAfter
  <2>1. CASE a = b
    BY <1>2, <1>3, <2>1 DEF NotYet
  <2>2. CASE a # b
    BY <1>3, <2>2 DEF Sound, RecordedAfter
  <2>3. QED
    BY <2>1, <2>2
<1>13. ReleasedAfter(nextMemory, queues)
  BY <1>3 DEF Sound, ReleasedAfter
<1>14. QED
  BY <1>6, <1>7, <1>8, <1>9, <1>10, <1>11, <1>12, <1>13 DEF Sound
-----------------------------------------------------------------------------
(* What Collect does to a block and to a stream. *)
LEMMA Collected ==
  ASSUME ListsAssumption, NEW memory, NEW queues, NEW entries, NEW threads,
         Typed(memory, queues, entries, threads), Collect(memory, queues, entries, threads)
  PROVE  /\ mem' \in [Blocks -> Memory]
         /\ \A b \in Blocks :
              \/ mem'[b] = memory[b]
              \/ /\ memory[b].state = "live" /\ b \notin Held(entries, threads)
                 /\ \/ /\ mem'[b].state = "free" /\ mem'[b].by = 0 /\ memory[b].uses \subseteq {Owner[b]}
                    \/ /\ mem'[b].state = "waiting" /\ mem'[b].by = memory[b].by
                       /\ memory[b].uses \ {Owner[b]} \subseteq mem'[b].uses
         /\ Grown(queues, queue')
         /\ \A s \in Streams : \A i \in NewPlaces(queues, queue', s) :
              /\ i = Len(queues[s]) + 1
              /\ queue'[s][i].op = "release"
              /\ \A b \in Blocks : ReleaseOf(queue', s, i, b) =>
                   memory[b].state = "live" /\ mem'[b].state = "waiting" /\ s \in mem'[b].uses
<1> DEFINE gone == {b \in Blocks : memory[b].state = "live"} \ Held(entries, threads)
           others(b) == memory[b].uses \ {Owner[b]}
           used(s) == {b \in gone : s \in others(b)}
           after(b) == IF others(b) = {} THEN NoBlock
                       ELSE [memory[b] EXCEPT !.state = "waiting", !.uses = others(b)]
<1>1. /\ mem' = [b \in Blocks |-> IF b \in gone THEN after(b) ELSE memory[b]]
      /\ queue' = [s \in Streams |-> IF used(s) = {} THEN queues[s] ELSE Append(queues[s], Release(used(s)))]
  BY DEF Collect
<1>2. memory \in [Blocks -> Memory] /\ queues \in [Streams -> Seq(Ops)]
  BY DEF Typed
<1>3. ASSUME NEW b \in Blocks
      PROVE  /\ memory[b] \in Memory /\ others(b) \in SUBSET Streams
             /\ others(b) = {} => after(b) = NoBlock
             /\ others(b) # {} => after(b) = [state |-> "waiting", by |-> memory[b].by, uses |-> others(b)]
  BY <1>2 DEF Memory
<1>4. ASSUME NEW b \in Blocks PROVE after(b) \in Memory
  BY <1>3 DEF Memory, NoBlock
<1>5. mem' \in [Blocks -> Memory]
  BY <1>1, <1>3, <1>4
<1>6. ASSUME NEW b \in Blocks
      PROVE  /\ b \notin gone => mem'[b] = memory[b]
             /\ b \in gone => mem'[b] = after(b)
  BY <1>1
<1>7. ASSUME NEW b \in Blocks, b \in gone
      PROVE  /\ memory[b].state = "live" /\ b \notin Held(entries, threads)
             /\ \/ /\ mem'[b].state = "free" /\ mem'[b].by = 0 /\ memory[b].uses \subseteq {Owner[b]}
                \/ /\ mem'[b].state = "waiting" /\ mem'[b].by = memory[b].by
                   /\ memory[b].uses \ {Owner[b]} \subseteq mem'[b].uses
             /\ others(b) # {} => mem'[b].state = "waiting" /\ others(b) \subseteq mem'[b].uses
  <2>1. mem'[b] = after(b)
    BY <1>6, <1>7
  <2>2. CASE others(b) = {}
    <3>1. mem'[b] = NoBlock
      BY <1>3, <2>1, <2>2
    <3>2. memory[b].uses \subseteq {Owner[b]}
      BY <2>2
    <3>3. QED
      BY <1>7, <2>2, <3>1, <3>2 DEF NoBlock
  <2>3. CASE others(b) # {}
    <3>1. mem'[b] = [state |-> "waiting", by |-> memory[b].by, uses |-> others(b)]
      BY <1>3, <2>1, <2>3
    <3>2. QED
      BY <1>7, <2>3, <3>1
  <2>4. QED
    BY <2>2, <2>3
<1>8. ASSUME NEW s \in Streams
      PROVE  /\ used(s) \in SUBSET Blocks
             /\ used(s) = {} => queue'[s] = queues[s]
             /\ used(s) # {} => queue'[s] = Append(queues[s], Release(used(s)))
             /\ Release(used(s)) \in Ops
             /\ Release(used(s)).op = "release" /\ Release(used(s)).blocks = used(s)
  BY <1>1 DEF Release, Ops, Releases
<1>9. ASSUME NEW s \in Streams, NEW b \in used(s)
      PROVE  b \in Blocks /\ memory[b].state = "live" /\ mem'[b].state = "waiting" /\ s \in mem'[b].uses
  BY <1>7
<1>10. DOMAIN queue' = Streams /\ queue' = [s \in Streams |-> queue'[s]]
  BY <1>1
<1> HIDE DEF gone, others, used, after
<1>11. ASSUME NEW s \in Streams
       PROVE  /\ queue'[s] \in Seq(Ops) /\ Len(queues[s]) <= Len(queue'[s])
              /\ \A i \in 1 .. Len(queues[s]) : queue'[s][i] = queues[s][i]
              /\ \A i \in NewPlaces(queues, queue', s) :
                   i = Len(queues[s]) + 1 /\ queue'[s][i] = Release(used(s))
  <2>1. CASE used(s) = {}
    BY <1>2, <1>8, <2>1 DEF NewPlaces
  <2>2. CASE used(s) # {}
    <3> DEFINE o == Release(used(s))
    <3>1. queues[s] \in Seq(Ops) /\ o \in Ops /\ queue'[s] = Append(queues[s], o)
      BY <1>2, <1>8, <2>2
    <3> HIDE DEF o
    <3>2. /\ queue'[s] \in Seq(Ops) /\ Len(queue'[s]) = Len(queues[s]) + 1 /\ Len(queues[s]) \in Nat
          /\ \A i \in 1 .. Len(queues[s]) : queue'[s][i] = queues[s][i]
          /\ queue'[s][Len(queues[s]) + 1] = o
      BY <3>1
    <3>3. QED
      BY <3>2 DEF NewPlaces, o
  <2>3. QED
    BY <2>1, <2>2
<1>12. queue' \in [Streams -> Seq(Ops)]
  BY <1>10, <1>11
<1>13. Grown(queues, queue')
  BY <1>2, <1>11, <1>12 DEF Grown
<1>14. \A s \in Streams : \A i \in NewPlaces(queues, queue', s) :
         /\ i = Len(queues[s]) + 1
         /\ queue'[s][i].op = "release"
         /\ \A b \in Blocks : ReleaseOf(queue', s, i, b) =>
              memory[b].state = "live" /\ mem'[b].state = "waiting" /\ s \in mem'[b].uses
  BY <1>8, <1>9, <1>11 DEF ReleaseOf
<1>15. QED
  BY <1>5, <1>6, <1>7, <1>13, <1>14

LEMMA SoundCollect ==
  ASSUME ListsAssumption, NEW memory, NEW queues, NEW entries, NEW threads,
         Sound(memory, queues, entries, threads), Collect(memory, queues, entries, threads),
         NEW after, NEW later, after = queue', later = mem'
  PROVE  Sound(later, after, entries, threads)
<1>1. /\ Typed(memory, queues, entries, threads)
      /\ Numbered(threads)
      /\ Fresh(memory, queues, threads)
      /\ OwnWrites(queues)
      /\ EntriesLive(memory, queues, entries)
      /\ CallsLive(memory, queues, threads)
      /\ OwnReads(queues)
      /\ OtherReads(memory, queues)
      /\ RecordedAfter(memory, queues)
      /\ ReleasedAfter(memory, queues)
  BY DEF Sound
<1>2. /\ later \in [Blocks -> Memory] /\ Grown(queues, after)
      /\ \A b \in Blocks :
           \/ later[b] = memory[b]
           \/ /\ memory[b].state = "live" /\ b \notin Held(entries, threads)
              /\ \/ /\ later[b].state = "free" /\ later[b].by = 0 /\ memory[b].uses \subseteq {Owner[b]}
                 \/ /\ later[b].state = "waiting" /\ later[b].by = memory[b].by
                    /\ memory[b].uses \ {Owner[b]} \subseteq later[b].uses
      /\ \A s \in Streams : \A i \in NewPlaces(queues, after, s) :
           /\ i = Len(queues[s]) + 1
           /\ after[s][i].op = "release"
           /\ \A b \in Blocks : ReleaseOf(after, s, i, b) =>
                memory[b].state = "live" /\ later[b].state = "waiting" /\ s \in later[b].uses
  BY <1>1, Collected
<1>3. \A s \in Streams : Len(queues[s]) \in Nat /\ Len(after[s]) \in Nat /\ Len(queues[s]) <= Len(after[s])
  BY <1>2, OpAt DEF Grown
<1>4. \A s \in Streams : \A i \in 1 .. Len(after[s]) :
        \/ i \in 1 .. Len(queues[s]) /\ after[s][i] = queues[s][i]
        \/ /\ i = Len(queues[s]) + 1 /\ after[s][i].op = "release"
           /\ \A b \in Blocks : ReleaseOf(after, s, i, b) =>
                memory[b].state = "live" /\ later[b].state = "waiting" /\ s \in later[b].uses
  BY <1>2, <1>3 DEF Grown, NewPlaces
<1>5. ASSUME NEW b \in Blocks, NEW m, NEW first, NEW last, Ready(queues, b, m, first, last)
      PROVE  Ready(after, b, m, first, last)
  <2>1. Owner[b] \in Streams
    BY DEF ListsAssumption
  <2>2. \A i \in NewPlaces(queues, after, Owner[b]) : ~WriteTo(after, Owner[b], i, b)
    BY <1>2, <2>1 DEF WriteTo
  <2>3. QED
    BY <1>2, <1>5, <2>2, ReadyGrows
<1>6. Typed(later, after, entries, threads)
  BY <1>1, <1>2 DEF Typed, Grown
<1>7. Fresh(later, after, threads)
  <2>1. \A e : NotYet(queues, e) => NotYet(after, e)
    BY <1>4 DEF NotYet, RecordOf
  <2>2. calls \in Nat
    BY <1>1 DEF Typed
  <2>3. \A b \in Blocks : later[b].by <= calls
    BY <1>1, <1>2, <2>2 DEF Fresh
  <2>4. \A b \in Blocks : later[b].state # "free" => memory[b].state # "free" /\ later[b].by = memory[b].by
    BY <1>2
  <2>5. QED
    BY <1>1, <2>1, <2>3, <2>4 DEF Fresh
<1>8. OwnWrites(after)
  BY <1>1, <1>4 DEF OwnWrites
<1>9. EntriesLive(later, after, entries)
  <2> SUFFICES ASSUME NEW i \in 1 .. Len(entries) PROVE EntryLive(later, after, entries[i])
    BY DEF EntriesLive
  <2>1. EntryLive(memory, queues, entries[i]) /\ entries[i].block \in Blocks
    BY <1>1, EntryFacts DEF Typed, EntriesLive
  <2>2. entries[i].block \in Held(entries, threads)
    BY <1>1 DEF Typed, Held
  <2>3. later[entries[i].block] = memory[entries[i].block]
    BY <1>2, <2>1, <2>2
  <2>4. QED
    BY <1>5, <2>1, <2>3 DEF EntryLive
<1>10. CallsLive(later, after, threads)
  <2> SUFFICES ASSUME NEW t \in Threads, threads[t].pc \in Holders
               PROVE  CallLive(later, after, threads[t])
    BY DEF CallsLive
  <2> DEFINE c == threads[t]
  <2>1. CallLive(memory, queues, c) /\ c.block \in Blocks /\ c.stream \in Streams
    BY <1>1, CallFacts DEF Typed, CallsLive, Holders
  <2>2. c.block \in Held(entries, threads)
    BY DEF Holders, Held
  <2>3. later[c.block] = memory[c.block]
    BY <1>2, <2>1, <2>2
  <2>4. Waited(queues, c.stream, Len(queues[c.stream]), memory[c.block].by) =>
          Waited(after, c.stream, Len(after[c.stream]), memory[c.block].by)
    BY <1>2, <1>3, <2>1, WaitedGrows
  <2>5. /\ Ready(after, c.block, c.lists, c.key, version[c.lists])
        /\ c.pc = "insert" => Ready(after, c.block, c.lists, c.key, c.saved)
        /\ c.pc = "held" => Ready(after, c.block, c.lists, c.key, c.versions)
    BY <1>5, <2>1 DEF CallLive
  <2> HIDE DEF c
  <2>6. CallLive(later, after, c)
    BY <2>1, <2>3, <2>4, <2>5 DEF CallLive
  <2>7. QED
    BY <2>6 DEF c
<1>11. ASSUME NEW s \in Streams, NEW i \in 1 .. Len(after[s]), after[s][i].op = "read"
       PROVE  /\ i \in 1 .. Len(queues[s]) /\ i - 1 \in 0 .. Len(queues[s]) /\ i - 1 \in Nat
              /\ after[s][i] = queues[s][i] /\ after[s][i].block \in Blocks
  <2>1. i \in 1 .. Len(queues[s]) /\ after[s][i] = queues[s][i]
    BY <1>4, <1>11
  <2>2. after[s][i] \in Ops
    BY <1>2, OpAt DEF Grown
  <2>3. QED
    BY <1>3, <1>11, <2>1, <2>2, OpFacts
<1>12. OwnReads(after)
  <2> SUFFICES ASSUME NEW s \in Streams, NEW i \in 1 .. Len(after[s]),
                      after[s][i].op = "read", Owner[after[s][i].block] = s
               PROVE  OwnRead(after, i, after[s][i])
    BY DEF OwnReads
  <2> DEFINE r == after[s][i]
  <2>1. OwnRead(queues, i, r) /\ r.block \in Blocks /\ i - 1 \in 0 .. Len(queues[Owner[r.block]])
    BY <1>1, <1>11 DEF OwnReads
  <2> HIDE DEF r
  <2>2. OwnRead(after, i, r)
    BY <1>2, <2>1, BetweenGrows DEF OwnRead
  <2>3. QED
    BY <2>2 DEF r
<1>13. OtherReads(later, after)
  <2> SUFFICES ASSUME NEW s \in Streams, NEW i \in 1 .. Len(after[s]),
                      after[s][i].op = "read", Owner[after[s][i].block] # s
               PROVE  OtherRead(later, after, s, i, after[s][i])
    BY DEF OtherReads
  <2> DEFINE r == after[s][i]
  <2>1. /\ OtherRead(memory, queues, s, i, r) /\ r.block \in Blocks
        /\ i - 1 \in 0 .. Len(queues[s]) /\ i - 1 \in Nat /\ Owner[r.block] # s
    BY <1>1, <1>11 DEF OtherReads
  <2> HIDE DEF r
  <2>2. later[r.block].state # "free" /\ later[r.block].by = r.by /\ s \in later[r.block].uses
    BY <1>2, <2>1 DEF OtherRead
  <2>3. Waited(after, s, i - 1, r.by)
    BY <1>2, <2>1, WaitedGrows DEF OtherRead
  <2>4. OtherRead(later, after, s, i, r)
    BY <1>5, <2>1, <2>2, <2>3 DEF OtherRead
  <2>5. QED
    BY <2>4 DEF r
<1>14. RecordedAfter(later, after)
  <2> SUFFICES ASSUME NEW b \in Blocks, later[b].state # "free",
                      NEW j \in 1 .. Len(after[Owner[b]]), WriteTo(after, Owner[b], j, b)
               PROVE  /\ later[b].by \notin recorded
                      /\ \A s \in Streams : \A k \in 1 .. Len(after[s]) :
                           RecordOf(after, s, k, later[b].by) => s = Owner[b] /\ j < k
    BY DEF RecordedAfter
  <2>1. Owner[b] \in Streams /\ memory[b].state # "free" /\ later[b].by = memory[b].by
    BY <1>2 DEF ListsAssumption
  <2>2. j \in 1 .. Len(queues[Owner[b]]) /\ WriteTo(queues, Owner[b], j, b)
    BY <1>4, <2>1 DEF WriteTo
  <2>3. \A s \in Streams : \A k \in 1 .. Len(after[s]) : RecordOf(after, s, k, later[b].by) =>
          k \in 1 .. Len(queues[s]) /\ RecordOf(queues, s, k, memory[b].by)
    BY <1>4, <2>1 DEF RecordOf
  <2>4. QED
    BY <1>1, <2>1, <2>2, <2>3 DEF RecordedAfter
<1>15. ReleasedAfter(later, after)
  <2> SUFFICES ASSUME NEW s \in Streams, NEW k \in 1 .. Len(after[s]), NEW b \in Blocks,
                      ReleaseOf(after, s, k, b)
               PROVE  /\ later[b].state = "waiting" /\ s \in later[b].uses
                      /\ \A i \in 1 .. Len(after[s]) :
                           /\ ReadOf(after, s, i, b) /\ Owner[b] # s => i < k
                           /\ ReleaseOf(after, s, i, b) => i = k
    BY DEF ReleasedAfter
  <2>1. ASSUME NEW i \in 1 .. Len(after[s]), ReadOf(after, s, i, b)
        PROVE  i \in 1 .. Len(queues[s]) /\ ReadOf(queues, s, i, b)
    BY <1>4, <2>1 DEF ReadOf
  <2>2. ASSUME NEW i \in 1 .. Len(after[s]), ReleaseOf(after, s, i, b)
        PROVE  \/ /\ i \in 1 .. Len(queues[s]) /\ ReleaseOf(queues, s, i, b)
                  /\ memory[b].state = "waiting" /\ s \in memory[b].uses
               \/ /\ i = Len(queues[s]) + 1 /\ memory[b].state = "live"
                  /\ later[b].state = "waiting" /\ s \in later[b].uses
    BY <1>1, <1>4, <2>2 DEF ReleasedAfter, ReleaseOf
  <2>3. CASE k \in 1 .. Len(queues[s]) /\ ReleaseOf(queues, s, k, b) /\ memory[b].state = "waiting" /\ s \in memory[b].uses
    BY <1>1, <1>2, <2>1, <2>2, <2>3 DEF ReleasedAfter
  <2>4. CASE k = Len(queues[s]) + 1 /\ memory[b].state = "live" /\ later[b].state = "waiting" /\ s \in later[b].uses
    BY <1>3, <2>1, <2>2, <2>4
  <2>5. QED
    BY <2>2, <2>3, <2>4
<1>16. QED
  BY <1>1, <1>6, <1>7, <1>8, <1>9, <1>10, <1>12, <1>13, <1>14, <1>15 DEF Sound
-----------------------------------------------------------------------------
(* A stream runs: what was at place i + 1 is at place i. *)
Place(s, z, i) == IF z = s THEN i + 1 ELSE i

LEMMA RunFacts ==
  ASSUME queue \in [Streams -> Seq(Ops)], NEW s \in Streams, Run(s)
  PROVE  /\ queue' \in [Streams -> Seq(Ops)]
         /\ 1 \in 1 .. Len(queue[s])
         /\ \A z \in Streams : /\ Len(queue[z]) \in Nat /\ Len(queue'[z]) \in Nat
                               /\ Len(queue[z]) = Place(s, z, Len(queue'[z]))
         /\ \A z \in Streams : \A i \in 1 .. Len(queue'[z]) :
              Place(s, z, i) \in 1 .. Len(queue[z]) /\ queue'[z][i] = queue[z][Place(s, z, i)]
<1>1. queue[s] \in Seq(Ops) /\ queue[s] # << >> /\ queue' = [queue EXCEPT ![s] = Tail(@)]
  BY DEF Run
<1>2. /\ Len(queue[s]) \in Nat /\ Len(queue[s]) >= 1 /\ Tail(queue[s]) \in Seq(Ops)
      /\ Len(Tail(queue[s])) = Len(queue[s]) - 1
      /\ \A i \in 1 .. Len(queue[s]) - 1 : Tail(queue[s])[i] = queue[s][i + 1]
  BY <1>1
<1>3. queue'[s] = Tail(queue[s]) /\ \A z \in Streams \ {s} : queue'[z] = queue[z]
  BY <1>1
<1>4. queue' \in [Streams -> Seq(Ops)]
  BY <1>1, <1>2
<1>5. ASSUME NEW z \in Streams
      PROVE  /\ Len(queue[z]) \in Nat /\ Len(queue'[z]) \in Nat
             /\ Len(queue[z]) = Place(s, z, Len(queue'[z]))
             /\ \A i \in 1 .. Len(queue'[z]) :
                  Place(s, z, i) \in 1 .. Len(queue[z]) /\ queue'[z][i] = queue[z][Place(s, z, i)]
  <2>1. CASE z = s
    <3>1. /\ Len(queue[s]) \in Nat /\ Len(queue'[s]) = Len(queue[s]) - 1 /\ Len(queue[s]) >= 1
          /\ \A i \in 1 .. Len(queue[s]) - 1 : queue'[s][i] = queue[s][i + 1]
      BY <1>2, <1>3
    <3>2. \A i \in 1 .. Len(queue'[s]) : i + 1 \in 1 .. Len(queue[s]) /\ queue'[s][i] = queue[s][i + 1]
      <4> DEFINE n == Len(queue[s])
                 k == Len(queue'[s])
      <4>1. n \in Nat /\ k = n - 1 /\ n >= 1 /\ \A i \in 1 .. n - 1 : queue'[s][i] = queue[s][i + 1]
        BY <3>1
      <4> HIDE DEF n, k
      <4>2. \A i \in 1 .. k : i \in 1 .. n - 1 /\ i + 1 \in 1 .. n
        BY <4>1
      <4>3. QED
        BY <4>1, <4>2 DEF n, k
    <3>3. QED
      BY <2>1, <3>1, <3>2 DEF Place
  <2>2. CASE z # s
    BY <1>3, <2>2 DEF Place
  <2>3. QED
    BY <2>1, <2>2
<1>6. QED
  BY <1>2, <1>4, <1>5

(* The operation that was first. *)
LEMMA RunFirst ==
  ASSUME queue \in [Streams -> Seq(Ops)], mem \in [Blocks -> Memory], DOMAIN content = Blocks,
         NEW s \in Streams, Run(s)
  PROVE  LET op == queue[s][1]
         IN /\ op \in Ops
            /\ op.op = "wait" => op.event \in recorded
            /\ recorded' = IF op.op = "record" THEN recorded \cup {op.event} ELSE recorded
            /\ \A b \in Blocks : content'[b] = IF WriteTo(queue, s, 1, b) THEN <<op.lists, op.version>> ELSE content[b]
            /\ DOMAIN content' = Blocks
            /\ mem' \in [Blocks -> Memory]
            /\ \A b \in Blocks :
                 \/ mem'[b] = mem[b]
                 \/ /\ ReleaseOf(queue, s, 1, b)
                    /\ \/ mem[b].uses = {s} /\ mem'[b] = NoBlock
                       \/ /\ mem'[b].state = mem[b].state /\ mem'[b].by = mem[b].by
                          /\ mem'[b].uses = mem[b].uses \ {s}
            /\ UNCHANGED <<version, cache, call, calls>>
<1> DEFINE op == queue[s][1]
<1>1. /\ queue[s] \in Seq(Ops) /\ queue[s] # << >> /\ op = Head(queue[s]) /\ op \in Ops
  BY DEF Run
<1>2. /\ op.op = "wait" => op.event \in recorded
      /\ recorded' = IF op.op = "record" THEN recorded \cup {op.event} ELSE recorded
      /\ content' = IF op.op = "write" THEN [content EXCEPT ![op.block] = <<op.lists, op.version>>]
                    ELSE content
      /\ mem' = IF op.op # "release" THEN mem
                ELSE [b \in Blocks |->
                        IF b \notin op.blocks THEN mem[b]
                        ELSE IF mem[b].uses = {s} THEN NoBlock ELSE [mem[b] EXCEPT !.uses = @ \ {s}]]
      /\ UNCHANGED <<version, cache, call, calls>>
  BY <1>1 DEF Run
<1> HIDE DEF op
<1>3. /\ \A b \in Blocks : content'[b] = IF op.op = "write" /\ op.block = b THEN <<op.lists, op.version>> ELSE content[b]
      /\ DOMAIN content' = Blocks
  BY <1>2
<1>4. ASSUME NEW b \in Blocks
      PROVE  /\ NoBlock \in Memory
             /\ [mem[b] EXCEPT !.uses = @ \ {s}] \in Memory
             /\ [mem[b] EXCEPT !.uses = @ \ {s}].state = mem[b].state
             /\ [mem[b] EXCEPT !.uses = @ \ {s}].by = mem[b].by
             /\ [mem[b] EXCEPT !.uses = @ \ {s}].uses = mem[b].uses \ {s}
  BY DEF Memory, NoBlock
<1>5. mem' \in [Blocks -> Memory]
  BY <1>2, <1>4
<1>6. ASSUME NEW b \in Blocks
      PROVE  \/ mem'[b] = mem[b]
             \/ /\ op.op = "release" /\ b \in op.blocks
                /\ \/ mem[b].uses = {s} /\ mem'[b] = NoBlock
                   \/ /\ mem'[b].state = mem[b].state /\ mem'[b].by = mem[b].by
                      /\ mem'[b].uses = mem[b].uses \ {s}
  <2>1. CASE op.op # "release"
    BY <1>2, <2>1
  <2>2. CASE op.op = "release"
    BY <1>2, <1>4, <2>2
  <2>3. QED
    BY <2>1, <2>2
<1>7. QED
  BY <1>1, <1>2, <1>3, <1>5, <1>6 DEF op, WriteTo, ReleaseOf

LEMMA WillRuns ==
  ASSUME ListsAssumption, Typed(mem, queue, cache, call), OwnWrites(queue), NEW s \in Streams, Run(s),
         NEW b \in Blocks, NEW m, NEW v, NEW n, NEW k \in Nat, n = Place(s, Owner[b], k),
         n <= Len(queue[Owner[b]]), Will(queue, n, b, m, v)
  PROVE  Will(queue, k, b, m, v)'
<1> DEFINE z == Owner[b]
<1>1. z \in Streams /\ n \in Nat
  BY DEF ListsAssumption, Place
<1>2. /\ \A i \in 1 .. Len(queue'[z]) : queue'[z][i] = queue[z][Place(s, z, i)]
      /\ Len(queue[z]) = Place(s, z, Len(queue'[z])) /\ Len(queue'[z]) \in Nat
      /\ 1 \in 1 .. Len(queue[s])
  BY <1>1, RunFacts DEF Typed
<1>3. k <= Len(queue'[z])
  BY <1>2 DEF Place
<1>4. \A i \in 1 .. k : queue'[z][i] = queue[z][Place(s, z, i)] /\ Place(s, z, i) \in 1 .. n
  BY <1>1, <1>2, <1>3 DEF Place
<1>5. \A i \in 1 .. k : WriteTo(queue', z, i, b) <=> WriteTo(queue, z, Place(s, z, i), b)
  BY <1>4 DEF WriteTo
<1>6. content'[b] = IF WriteTo(queue, s, 1, b) THEN <<queue[s][1].lists, queue[s][1].version>> ELSE content[b]
  BY RunFirst DEF Typed
<1>7. z # s => content'[b] = content[b]
  BY <1>2, <1>6 DEF OwnWrites, WriteTo
<1> HIDE DEF z
<1>8. CASE \E i \in 1 .. n :
            /\ WriteTo(queue, z, i, b) /\ queue[z][i].lists = m /\ queue[z][i].version = v
            /\ \A j \in i + 1 .. n : ~WriteTo(queue, z, j, b)
  <2>1. PICK i \in 1 .. n :
            /\ WriteTo(queue, z, i, b) /\ queue[z][i].lists = m /\ queue[z][i].version = v
            /\ \A j \in i + 1 .. n : ~WriteTo(queue, z, j, b)
    BY <1>8
  <2>2. CASE z = s /\ i = 1
    <3>1. content'[b] = <<m, v>>
      BY <1>6, <2>1, <2>2
    <3>2. \A j \in 1 .. k : Place(s, z, j) \in i + 1 .. n
      BY <1>4, <2>2 DEF Place
    <3>3. \A j \in 1 .. k : ~WriteTo(queue', z, j, b)
      BY <1>5, <2>1, <3>2
    <3>4. QED
      BY <3>1, <3>3 DEF Will, z
  <2>3. CASE z # s \/ i # 1
    <3>1. PICK h \in 1 .. k : Place(s, z, h) = i
      <4>1. CASE z = s
        <5>1. i - 1 \in 1 .. k /\ Place(s, z, i - 1) = i
          BY <1>1, <2>3, <4>1 DEF Place, z
        <5>2. QED
          BY <5>1
      <4>2. CASE z # s
        BY <1>1, <4>2 DEF Place, z
      <4>3. QED
        BY <4>1, <4>2
    <3>2. /\ WriteTo(queue', z, h, b) /\ queue'[z][h].lists = m /\ queue'[z][h].version = v
      BY <1>4, <1>5, <2>1, <3>1
    <3>3. \A j \in h + 1 .. k : j \in 1 .. k /\ Place(s, z, j) \in i + 1 .. n
      BY <1>1, <1>4, <3>1 DEF Place, z
    <3>4. \A j \in h + 1 .. k : ~WriteTo(queue', z, j, b)
      BY <1>5, <2>1, <3>3
    <3>5. QED
      BY <3>2, <3>4 DEF Will, z
  <2>4. QED
    BY <2>2, <2>3
<1>9. CASE content[b] = <<m, v>> /\ \A j \in 1 .. n : ~WriteTo(queue, z, j, b)
  <2>1. z = s => 1 \in 1 .. n
    BY DEF Place, z
  <2>2. content'[b] = <<m, v>>
    BY <1>6, <1>7, <1>9, <2>1
  <2>3. \A j \in 1 .. k : ~WriteTo(queue', z, j, b)
    BY <1>4, <1>5, <1>9
  <2>4. QED
    BY <2>2, <2>3 DEF Will, z
<1>10. QED
  BY <1>8, <1>9 DEF Will, z
LEMMA ReadyRuns ==
  ASSUME ListsAssumption, Typed(mem, queue, cache, call), OwnWrites(queue), NEW s \in Streams, Run(s),
         NEW b \in Blocks, NEW m, NEW first, NEW last, Ready(queue, b, m, first, last)
  PROVE  Ready(queue, b, m, first, last)'
<1> DEFINE n == Len(queue[Owner[b]])
<1>0. PICK k \in Nat : k = Len(queue'[Owner[b]])
  BY RunFacts DEF Typed, ListsAssumption
<1>1. n = Place(s, Owner[b], k) /\ n \in Nat
  BY <1>0, RunFacts DEF Typed, ListsAssumption
<1>2. PICK v \in Nat : first <= v /\ v <= last /\ Will(queue, n, b, m, v)
  BY DEF Ready, Between
<1>3. n <= Len(queue[Owner[b]])
  BY <1>1
<1> HIDE DEF n
<1>4. Will(queue, k, b, m, v)'
  BY <1>1, <1>2, <1>3, WillRuns
<1>5. QED
  BY <1>0, <1>2, <1>4 DEF Ready, Between

LEMMA WaitedRuns ==
  ASSUME Typed(mem, queue, cache, call), NEW s \in Streams, Run(s), NEW z \in Streams, NEW e,
         NEW n, NEW k \in Nat, n = Place(s, z, k), n <= Len(queue[z]), Waited(queue, z, n, e)
  PROVE  Waited(queue, z, k, e)'
<1>1. recorded \subseteq recorded' /\ (queue[s][1].op = "wait" => queue[s][1].event \in recorded)
  BY RunFirst DEF Typed
<1>2. /\ Len(queue[z]) = Place(s, z, Len(queue'[z])) /\ Len(queue'[z]) \in Nat
      /\ \A i \in 1 .. Len(queue'[z]) : queue'[z][i] = queue[z][Place(s, z, i)]
  BY RunFacts DEF Typed
<1>3. CASE e \in recorded
  BY <1>1, <1>3 DEF Waited
<1>4. ASSUME NEW i \in 1 .. n, WaitFor(queue, z, i, e)
      PROVE  Waited(queue, z, k, e)'
  <2>1. CASE z = s /\ i = 1
    BY <1>1, <1>4, <2>1 DEF Waited, WaitFor
  <2>2. CASE z = s /\ i # 1
    <3>1. i - 1 \in 1 .. k /\ i - 1 \in 1 .. Len(queue'[z]) /\ (i - 1) + 1 = i
      BY <1>2, <2>2 DEF Place
    <3>2. queue'[z][i - 1] = queue[z][i]
      BY <1>2, <2>2, <3>1 DEF Place
    <3>3. QED
      BY <1>4, <3>1, <3>2 DEF Waited, WaitFor
  <2>3. CASE z # s
    <3>1. i \in 1 .. k /\ i \in 1 .. Len(queue'[z])
      BY <1>2, <2>3 DEF Place
    <3>2. queue'[z][i] = queue[z][i]
      BY <1>2, <2>3, <3>1 DEF Place
    <3>3. QED
      BY <1>4, <3>1, <3>2 DEF Waited, WaitFor
  <2>4. QED
    BY <2>1, <2>2, <2>3
<1>5. QED
  BY <1>3, <1>4 DEF Waited

LEMMA IInvRun ==
  ASSUME ListsAssumption, IInv, NEW s \in Streams, Run(s)
  PROVE  IInv'
<1>1. /\ Typed(mem, queue, cache, call)
      /\ Numbered(call)
      /\ Fresh(mem, queue, call)
      /\ OwnWrites(queue)
      /\ EntriesLive(mem, queue, cache)
      /\ CallsLive(mem, queue, call)
      /\ OwnReads(queue)
      /\ OtherReads(mem, queue)
      /\ RecordedAfter(mem, queue)
      /\ ReleasedAfter(mem, queue)
  BY DEF IInv, Sound
<1>2. /\ queue' \in [Streams -> Seq(Ops)]
      /\ 1 \in 1 .. Len(queue[s])
      /\ \A z \in Streams : /\ Len(queue[z]) \in Nat /\ Len(queue'[z]) \in Nat
                            /\ Len(queue[z]) = Place(s, z, Len(queue'[z]))
      /\ \A z \in Streams : \A i \in 1 .. Len(queue'[z]) :
           Place(s, z, i) \in 1 .. Len(queue[z]) /\ queue'[z][i] = queue[z][Place(s, z, i)]
  BY <1>1, RunFacts DEF Typed
<1> DEFINE op == queue[s][1]
<1>3. /\ op \in Ops
      /\ op.op = "wait" => op.event \in recorded
      /\ recorded' = IF op.op = "record" THEN recorded \cup {op.event} ELSE recorded
      /\ DOMAIN content' = Blocks
      /\ mem' \in [Blocks -> Memory]
      /\ \A b \in Blocks :
           \/ mem'[b] = mem[b]
           \/ /\ ReleaseOf(queue, s, 1, b)
              /\ \/ mem[b].uses = {s} /\ mem'[b] = NoBlock
                 \/ /\ mem'[b].state = mem[b].state /\ mem'[b].by = mem[b].by
                    /\ mem'[b].uses = mem[b].uses \ {s}
      /\ UNCHANGED <<version, cache, call, calls>>
  BY <1>1, RunFirst DEF Typed
<1> HIDE DEF op
<1>4. Typed(mem, queue, cache, call)'
  <2>1. recorded' \in SUBSET Nat
    BY <1>1, <1>3, OpFacts DEF Typed
  <2>2. QED
    BY <1>1, <1>2, <1>3, <2>1 DEF Typed
<1>5. Numbered(call)'
  BY <1>1, <1>3 DEF Numbered
<1>6. Fresh(mem, queue, call)'
  <2>1. \A e : NotYet(queue, e) => NotYet(queue, e)'
    <3> SUFFICES ASSUME NEW e, NotYet(queue, e) PROVE NotYet(queue, e)'
      OBVIOUS
    <3>1. e \notin recorded'
      BY <1>2, <1>3 DEF NotYet, RecordOf, op
    <3>2. \A z \in Streams : \A i \in 1 .. Len(queue'[z]) : ~RecordOf(queue', z, i, e)
      BY <1>2 DEF NotYet, RecordOf
    <3>3. QED
      BY <3>1, <3>2 DEF NotYet
  <2>2. \A b \in Blocks : /\ mem'[b].state # "free" => mem[b].state # "free" /\ mem'[b].by = mem[b].by
                          /\ mem'[b].by = mem[b].by \/ mem'[b].by = 0
    BY <1>3 DEF NoBlock
  <2>3. calls' = calls /\ calls \in Nat /\ call' = call
    BY <1>1, <1>3 DEF Typed
  <2>4. \A b \in Blocks : mem'[b].by <= calls'
    BY <1>1, <2>2, <2>3 DEF Fresh
  <2>5. QED
    BY <1>1, <2>1, <2>2, <2>3, <2>4 DEF Fresh
<1>7. OwnWrites(queue)'
  BY <1>1, <1>2, SMTT(30) DEF OwnWrites
<1>8. ASSUME NEW b \in Blocks, mem[b].state = "live"
      PROVE  mem'[b] = mem[b]
  BY <1>1, <1>2, <1>3, <1>8 DEF ReleasedAfter
<1>9. ASSUME NEW b \in Blocks, NEW m, NEW first, NEW last, Ready(queue, b, m, first, last)
      PROVE  Ready(queue, b, m, first, last)'
  BY <1>1, <1>9, ReadyRuns
<1>10. EntriesLive(mem, queue, cache)'
  <2> SUFFICES ASSUME NEW i \in 1 .. Len(cache) PROVE EntryLive(mem, queue, cache[i])'
    BY <1>3 DEF EntriesLive
  <2> DEFINE e == cache[i]
  <2>1. EntryLive(mem, queue, e) /\ e.block \in Blocks /\ e' = e
    BY <1>1, <1>3, EntryFacts DEF Typed, EntriesLive
  <2>2. mem'[e.block] = mem[e.block]
    BY <1>8, <2>1 DEF EntryLive
  <2>3. Ready(queue, e.block, e.lists, e.key, e.saved)'
    BY <1>9, <2>1 DEF EntryLive
  <2>4. QED
    BY <1>3, <2>1, <2>2, <2>3 DEF EntryLive
<1>11. ASSUME NEW z \in Streams, NEW n, NEW k \in Nat, n = Place(s, z, k), n <= Len(queue[z]),
              NEW e, Waited(queue, z, n, e)
       PROVE  Waited(queue, z, k, e)'
  BY <1>1, <1>11, WaitedRuns
<1>12. CallsLive(mem, queue, call)'
  <2> SUFFICES ASSUME NEW t \in Threads, call[t].pc \in Holders PROVE CallLive(mem, queue, call[t])'
    BY <1>3 DEF CallsLive, Holders
  <2> DEFINE c == call[t]
  <2>1. /\ CallLive(mem, queue, c) /\ c.block \in Blocks /\ c' = c /\ c.stream \in Streams
        /\ c.lists \in Lists
    BY <1>1, <1>3, CallFacts DEF Typed, CallsLive, Holders
  <2>2. mem'[c.block] = mem[c.block] /\ version' = version
    BY <1>3, <1>8, <2>1 DEF CallLive
  <2>3. /\ Ready(queue, c.block, c.lists, c.key, version[c.lists])'
        /\ c.pc = "insert" => Ready(queue, c.block, c.lists, c.key, c.saved)'
        /\ c.pc = "held" => Ready(queue, c.block, c.lists, c.key, c.versions)'
    <3> DEFINE last == version[c.lists]
               saved == c.saved
               versions == c.versions
               b == c.block
               m == c.lists
               key == c.key
    <3>1. b \in Blocks /\ Ready(queue, b, m, key, last) /\ last' = last /\ b' = b /\ m' = m /\ key' = key
          /\ saved' = saved /\ versions' = versions
      BY <2>1, <2>2 DEF CallLive
    <3>2. /\ c.pc = "insert" => Ready(queue, b, m, key, saved)
          /\ c.pc = "held" => Ready(queue, b, m, key, versions)
          /\ c.pc' = c.pc
      BY <2>1 DEF CallLive
    <3> HIDE DEF last, saved, versions, b, m, key
    <3>3. Ready(queue, b, m, key, last)'
      BY <1>9, <3>1
    <3>4. c.pc = "insert" => Ready(queue, b, m, key, saved)'
      BY <1>9, <3>1, <3>2
    <3>5. c.pc = "held" => Ready(queue, b, m, key, versions)'
      BY <1>9, <3>1, <3>2
    <3>6. QED
      BY <3>3, <3>4, <3>5 DEF last, saved, versions, b, m, key
  <2>4. Waited(queue, c.stream, Len(queue[c.stream]), mem[c.block].by) =>
          Waited(queue, c.stream, Len(queue[c.stream]), mem[c.block].by)'
    <3> DEFINE z == c.stream
               e == mem[c.block].by
    <3>1. z \in Streams /\ z' = z /\ e' = e
      BY <2>1, <2>2
    <3> HIDE DEF z, e
    <3>2. PICK k \in Nat : k = Len(queue'[z])
      BY <1>2, <3>1
    <3>3. Len(queue[z]) <= Len(queue[z]) /\ Len(queue[z]) = Place(s, z, k)
      BY <1>2, <3>1, <3>2
    <3>4. Waited(queue, z, Len(queue[z]), e) => Waited(queue, z, k, e)'
      BY <1>11, <3>1, <3>3
    <3>5. QED
      BY <3>1, <3>2, <3>4 DEF z, e, Waited, WaitFor
  <2> HIDE DEF c
  <2>5. CallLive(mem, queue, c)'
    BY <2>1, <2>2, <2>3, <2>4 DEF CallLive
  <2>6. QED
    BY <2>5 DEF c
<1>13. ASSUME NEW z \in Streams, NEW i \in 1 .. Len(queue'[z]), queue'[z][i].op = "read"
       PROVE  /\ Place(s, z, i) \in 1 .. Len(queue[z]) /\ queue'[z][i] = queue[z][Place(s, z, i)]
              /\ i - 1 \in Nat /\ Place(s, z, i) - 1 = Place(s, z, i - 1)
              /\ Place(s, z, i) - 1 <= Len(queue[z])
              /\ queue'[z][i].block \in Blocks
  <2>1. Place(s, z, i) \in 1 .. Len(queue[z]) /\ queue'[z][i] = queue[z][Place(s, z, i)] /\ queue'[z][i] \in Ops
    BY <1>2
  <2>2. queue'[z][i].block \in Blocks
    BY <1>13, <2>1, OpFacts
  <2>3. i - 1 \in Nat /\ Place(s, z, i) - 1 = Place(s, z, i - 1) /\ Place(s, z, i) - 1 <= Len(queue[z])
    BY <1>2, <2>1 DEF Place
  <2>4. QED
    BY <2>1, <2>2, <2>3
<1>14. OwnReads(queue)'
  <2> SUFFICES ASSUME NEW z \in Streams, NEW i \in 1 .. Len(queue'[z]),
                      queue'[z][i].op = "read", Owner[queue'[z][i].block] = z
               PROVE  OwnRead(queue, i, queue[z][i])'
    BY DEF OwnReads
  <2> DEFINE n == Place(s, z, i) - 1
             k == i - 1
  <2>0. PICK r : r = queue'[z][i]
    OBVIOUS
  <2>1. OwnRead(queue, Place(s, z, i), r)
    <3>1. PICK p \in 1 .. Len(queue[z]) : p = Place(s, z, i) /\ queue[z][p] = r
      BY <1>13, <2>0
    <3>2. OwnRead(queue, p, queue[z][p])
      BY <1>1, <2>0, <3>1 DEF OwnReads
    <3>3. QED
      BY <3>1, <3>2
  <2>2. PICK v \in Nat : r.first <= v /\ v <= r.last /\ Will(queue, n, r.block, r.lists, v)
    BY <2>1 DEF OwnRead, Between
  <2>3. k \in Nat /\ n = Place(s, Owner[r.block], k) /\ n <= Len(queue[Owner[r.block]]) /\ r.block \in Blocks
    BY <1>13, <2>0
  <2> HIDE DEF n, k
  <2>4. Will(queue, k, r.block, r.lists, v)'
    BY <1>1, <2>2, <2>3, WillRuns
  <2> USE DEF k
  <2>5. QED
    BY <2>0, <2>2, <2>4 DEF OwnRead, Between
<1>15. OtherReads(mem, queue)'
  <2> SUFFICES ASSUME NEW z \in Streams, NEW i \in 1 .. Len(queue'[z]),
                      queue'[z][i].op = "read", Owner[queue'[z][i].block] # z
               PROVE  OtherRead(mem, queue, z, i, queue[z][i])'
    BY DEF OtherReads
  <2> DEFINE n == Place(s, z, i) - 1
             k == i - 1
  <2>0. PICK r : r = queue'[z][i]
    OBVIOUS
  <2>1. PICK p \in 1 .. Len(queue[z]) : p = Place(s, z, i) /\ queue[z][p] = r
    BY <1>13, <2>0
  <2>2. OtherRead(mem, queue, z, p, r) /\ r.block \in Blocks
    BY <1>1, <1>13, <2>0, <2>1 DEF OtherReads
  <2>3. k \in Nat /\ n = Place(s, z, k) /\ n <= Len(queue[z]) /\ n = p - 1
    BY <1>13, <2>0, <2>1
  <2> HIDE DEF n, k
  <2>4. Waited(queue, z, k, r.by)'
    BY <1>11, <2>2, <2>3 DEF OtherRead
  <2>5. Ready(queue, r.block, r.lists, r.first, r.last)'
    BY <1>9, <2>2 DEF OtherRead
  <2>6. mem'[r.block].state # "free" /\ mem'[r.block].by = r.by /\ z \in mem'[r.block].uses
    <3>1. mem[r.block].state # "free" /\ mem[r.block].by = r.by /\ z \in mem[r.block].uses
      BY <2>2 DEF OtherRead
    <3>2. ASSUME ReleaseOf(queue, s, 1, r.block) PROVE z # s
      <4>1. ReadOf(queue, z, p, r.block)
        BY <2>0, <2>1 DEF ReadOf
      <4>2. z = s => p > 1
        BY <2>1 DEF Place
      <4>3. \A j \in 1 .. Len(queue[s]) : ReadOf(queue, s, j, r.block) /\ Owner[r.block] # s => j < 1
        BY <1>1, <1>2, <2>2, <3>2 DEF ReleasedAfter
      <4>4. Owner[r.block] # z
        BY <2>0
      <4>5. QED
        BY <4>1, <4>2, <4>3, <4>4
    <3>3. QED
      BY <1>3, <2>2, <3>1, <3>2
  <2> USE DEF k
  <2>7. QED
    BY <2>0, <2>4, <2>5, <2>6 DEF OtherRead
<1>16. RecordedAfter(mem, queue)'
  <2> SUFFICES ASSUME NEW b \in Blocks, mem'[b].state # "free",
                      NEW j \in 1 .. Len(queue'[Owner[b]]), WriteTo(queue', Owner[b], j, b)
               PROVE  /\ mem'[b].by \notin recorded'
                      /\ \A z \in Streams : \A k \in 1 .. Len(queue'[z]) :
                           RecordOf(queue', z, k, mem'[b].by) => z = Owner[b] /\ j < k
    BY DEF RecordedAfter, WriteTo, RecordOf
  <2> DEFINE o == Owner[b]
  <2>1. o \in Streams /\ mem[b].state # "free" /\ mem'[b].by = mem[b].by
    BY <1>3 DEF ListsAssumption, NoBlock
  <2>2. PICK p \in 1 .. Len(queue[o]) : p = Place(s, o, j) /\ WriteTo(queue, o, p, b)
    BY <1>2, <2>1 DEF WriteTo
  <2>3. /\ mem[b].by \notin recorded
        /\ \A z \in Streams : \A k \in 1 .. Len(queue[z]) : RecordOf(queue, z, k, mem[b].by) => z = o /\ p < k
    BY <1>1, <2>1, <2>2 DEF RecordedAfter
  <2>4. mem[b].by \notin recorded'
    <3>1. ~RecordOf(queue, s, 1, mem[b].by)
      BY <1>2, <2>2, <2>3
    <3>2. QED
      BY <1>3, <2>3, <3>1 DEF RecordOf, op
  <2>5. ASSUME NEW z \in Streams, NEW k \in 1 .. Len(queue'[z]), RecordOf(queue', z, k, mem[b].by)
        PROVE  z = o /\ j < k
    <3>1. PICK h \in 1 .. Len(queue[z]) : h = Place(s, z, k) /\ RecordOf(queue, z, h, mem[b].by)
      BY <1>2, <2>5 DEF RecordOf
    <3>2. z = o /\ p < h
      BY <2>3, <3>1
    <3>3. QED
      BY <2>2, <3>1, <3>2 DEF Place
  <2>6. QED
    BY <2>1, <2>4, <2>5
<1>17. ReleasedAfter(mem, queue)'
  <2> SUFFICES ASSUME NEW z \in Streams, NEW k \in 1 .. Len(queue'[z]), NEW b \in Blocks,
                      ReleaseOf(queue', z, k, b)
               PROVE  /\ mem'[b].state = "waiting" /\ z \in mem'[b].uses
                      /\ \A i \in 1 .. Len(queue'[z]) :
                           /\ ReadOf(queue', z, i, b) /\ Owner[b] # z => i < k
                           /\ ReleaseOf(queue', z, i, b) => i = k
    BY DEF ReleasedAfter, ReadOf, ReleaseOf
  <2>1. PICK p \in 1 .. Len(queue[z]) : p = Place(s, z, k) /\ ReleaseOf(queue, z, p, b)
    BY <1>2, SMTT(30) DEF ReleaseOf
  <2>2. /\ mem[b].state = "waiting" /\ z \in mem[b].uses
        /\ \A i \in 1 .. Len(queue[z]) :
             /\ ReadOf(queue, z, i, b) /\ Owner[b] # z => i < p
             /\ ReleaseOf(queue, z, i, b) => i = p
    BY <1>1, <2>1 DEF ReleasedAfter
  <2>3. ReleaseOf(queue, s, 1, b) => z # s
    <3>1. z = s => p > 1
      BY <2>1 DEF Place
    <3>2. QED
      BY <1>2, <2>2, <3>1
  <2>4. mem'[b].state = "waiting" /\ z \in mem'[b].uses
    BY <1>3, <2>2, <2>3
  <2>5. ASSUME NEW i \in 1 .. Len(queue'[z])
        PROVE  /\ ReadOf(queue', z, i, b) /\ Owner[b] # z => i < k
               /\ ReleaseOf(queue', z, i, b) => i = k
    <3>1. PICK h \in 1 .. Len(queue[z]) : h = Place(s, z, i) /\ queue'[z][i] = queue[z][h]
      BY <1>2
    <3>2. /\ ReadOf(queue', z, i, b) <=> ReadOf(queue, z, h, b)
          /\ ReleaseOf(queue', z, i, b) <=> ReleaseOf(queue, z, h, b)
      BY <3>1 DEF ReadOf, ReleaseOf
    <3>3. QED
      BY <2>1, <2>2, <3>1, <3>2 DEF Place
  <2>6. QED
    BY <2>4, <2>5
<1>18. QED
  BY <1>4, <1>5, <1>6, <1>7, <1>10, <1>12, <1>14, <1>15, <1>16, <1>17 DEF IInv, Sound
-----------------------------------------------------------------------------
(* The steps of the host. *)
LEMMA SoundNext ==
  ASSUME UNCHANGED <<version, calls, recorded, content>>, Sound(mem', queue', cache', call')
  PROVE  IInv'
<1>1. /\ Typed(mem', queue', cache', call') <=> Typed(mem, queue, cache, call)'
      /\ Numbered(call') <=> Numbered(call)'
  BY DEF Typed, Numbered
<1>2. /\ \A e : NotYet(queue', e) <=> NotYet(queue, e)'
      /\ \A s, n, e : Waited(queue', s, n, e) <=> Waited(queue, s, n, e)'
      /\ \A n, b, m, v : Will(queue', n, b, m, v) <=> Will(queue, n, b, m, v)'
  BY DEF NotYet, Waited, Will, RecordOf, WaitFor, WriteTo
<1>3. Fresh(mem', queue', call') <=> Fresh(mem, queue, call)'
  BY <1>2 DEF Fresh
<1>4. /\ \A n, b, m, first, last : Between(queue', n, b, m, first, last) <=> Between(queue, n, b, m, first, last)'
      /\ \A b, m, first, last : Ready(queue', b, m, first, last) <=> Ready(queue, b, m, first, last)'
  BY <1>2 DEF Between, Ready
<1>5. /\ \A e : EntryLive(mem', queue', e) <=> EntryLive(mem, queue, e)'
      /\ \A c : CallLive(mem', queue', c) <=> CallLive(mem, queue, c)'
      /\ \A i, r : OwnRead(queue', i, r) <=> OwnRead(queue, i, r)'
      /\ \A s, i, r : OtherRead(mem', queue', s, i, r) <=> OtherRead(mem, queue, s, i, r)'
  BY <1>2, <1>4 DEF EntryLive, CallLive, OwnRead, OtherRead
<1>6. /\ EntriesLive(mem', queue', cache') <=> EntriesLive(mem, queue, cache)'
      /\ CallsLive(mem', queue', call') <=> CallsLive(mem, queue, call)'
      /\ OwnReads(queue') <=> OwnReads(queue)'
      /\ OtherReads(mem', queue') <=> OtherReads(mem, queue)'
  BY <1>5 DEF EntriesLive, CallsLive, OwnReads, OtherReads
<1>7. /\ RecordedAfter(mem', queue') <=> RecordedAfter(mem, queue)'
      /\ ReleasedAfter(mem', queue') <=> ReleasedAfter(mem, queue)'
      /\ OwnWrites(queue') <=> OwnWrites(queue)'
  BY DEF RecordedAfter, ReleasedAfter, OwnWrites, WriteTo, RecordOf, ReleaseOf, ReadOf
<1>8. QED
  BY <1>1, <1>3, <1>6, <1>7 DEF Sound, IInv

(* A list is changed: what a holder is content with includes the versions  *)
(* to come.                                                                *)
LEMMA IInvChange ==
  ASSUME IInv, NEW m \in Lists, Change(m)
  PROVE  IInv'
<1>1. /\ version' = [version EXCEPT ![m] = @ + 1]
      /\ UNCHANGED <<cache, call, calls, queue, recorded, content, mem>>
  BY DEF Change
<1>2. Sound(mem, queue, cache, call)
  BY DEF IInv
<1>3. Typed(mem, queue, cache, call) /\ Numbered(call) /\ EntriesLive(mem, queue, cache) /\ CallsLive(mem, queue, call)
  BY <1>2 DEF Sound
<1>4. version' \in [Lists -> Nat] /\ \A l \in Lists : version[l] \in Nat /\ version'[l] \in Nat /\ version[l] <= version'[l]
  BY <1>1, <1>3 DEF Typed
<1>5. Typed(mem, queue, cache, call)'
  BY <1>1, <1>3, <1>4 DEF Typed
<1>6. Numbered(call)'
  <2> SUFFICES ASSUME NEW t \in Threads, call[t].pc # "idle" PROVE call[t].key <= version'[call[t].lists]
    BY <1>1, <1>3 DEF Numbered
  <2>1. call[t].lists \in Lists /\ call[t].key \in Nat /\ call[t].key <= version[call[t].lists]
    BY <1>3, CallFacts DEF Typed, Numbered
  <2>2. QED
    BY <1>4, <2>1
<1>7. /\ \A e : NotYet(queue, e)' <=> NotYet(queue, e)
      /\ \A s, n, e : Waited(queue, s, n, e)' <=> Waited(queue, s, n, e)
      /\ \A n, b, l, v : Will(queue, n, b, l, v)' <=> Will(queue, n, b, l, v)
  BY <1>1 DEF NotYet, Waited, Will, RecordOf, WaitFor, WriteTo
<1>8. /\ \A n, b, l, first, last : Between(queue, n, b, l, first, last)' <=> Between(queue, n, b, l, first, last)
      /\ \A b, l, first, last : Ready(queue, b, l, first, last)' <=> Ready(queue, b, l, first, last)
  BY <1>1, <1>7 DEF Between, Ready
<1>9. EntriesLive(mem, queue, cache)'
  <2> SUFFICES ASSUME NEW i \in 1 .. Len(cache) PROVE EntryLive(mem, queue, cache[i])'
    BY <1>1 DEF EntriesLive
  <2>0. PICK e : e = cache[i]
    OBVIOUS
  <2>1. EntryLive(mem, queue, e) /\ e.lists \in Lists /\ e.saved \in Nat
    BY <1>3, <2>0, EntryFacts DEF Typed, EntriesLive
  <2>2. EntryLive(mem, queue, e)'
    BY <1>1, <1>4, <1>8, <2>1 DEF EntryLive
  <2>3. QED
    BY <1>1, <2>0, <2>2 DEF EntryLive
<1>10. CallsLive(mem, queue, call)'
  <2> SUFFICES ASSUME NEW t \in Threads, call[t].pc \in Holders PROVE CallLive(mem, queue, call[t])'
    BY <1>1 DEF CallsLive, Holders
  <2>0. PICK c : c = call[t]
    OBVIOUS
  <2>1. /\ CallLive(mem, queue, c) /\ c.lists \in Lists /\ c.block \in Blocks /\ c.key \in Nat
        /\ c.pc = "insert" => c.saved \in Nat
    BY <1>3, <2>0, CallFacts DEF Typed, CallsLive, Holders
  <2>2. Ready(queue, c.block, c.lists, c.key, version'[c.lists])
    BY <1>4, <2>1, ReadyLater DEF CallLive
  <2>3. CallLive(mem, queue, c)'
    BY <1>1, <1>4, <1>7, <1>8, <2>1, <2>2 DEF CallLive
  <2>4. QED
    BY <1>1, <2>0, <2>3 DEF CallLive
<1>11. Fresh(mem, queue, call)'
  BY <1>1, <1>2, <1>7 DEF Sound, Fresh
<1>12. OwnWrites(queue)' /\ RecordedAfter(mem, queue)' /\ ReleasedAfter(mem, queue)'
  BY <1>1, <1>2 DEF Sound, OwnWrites, RecordedAfter, ReleasedAfter, WriteTo, RecordOf, ReleaseOf, ReadOf
<1>13. OwnReads(queue)' /\ OtherReads(mem, queue)'
  <2>1. /\ \A i, r : OwnRead(queue, i, r)' <=> OwnRead(queue, i, r)
        /\ \A s, i, r : OtherRead(mem, queue, s, i, r)' <=> OtherRead(mem, queue, s, i, r)
    BY <1>1, <1>7, <1>8 DEF OwnRead, OtherRead
  <2>2. QED
    BY <1>1, <1>2, <2>1 DEF Sound, OwnReads, OtherReads
<1>14. QED
  BY <1>5, <1>6, <1>9, <1>10, <1>11, <1>12, <1>13 DEF IInv, Sound

(* A call begins, under a number that no event has had. *)
LEMMA IInvCall ==
  ASSUME ListsAssumption, IInv, NEW t \in Threads, Call(t)
  PROVE  IInv'
<1>1. PICK m \in Lists :
        /\ call[t].pc = "idle"
        /\ calls' = calls + 1
        /\ call' = [call EXCEPT ![t] = [pc |-> "lookup", lists |-> m, stream |-> CurrentStream[t],
                                         key |-> version[m], by |-> calls']]
        /\ UNCHANGED <<version, cache, queue, recorded, content, mem>>
  BY DEF Call
<1>2. Sound(mem, queue, cache, call)
  BY DEF IInv
<1>3. Typed(mem, queue, cache, call) /\ Numbered(call) /\ Fresh(mem, queue, call)
  BY <1>2 DEF Sound
<1>4. calls \in Nat /\ calls' \in Nat /\ calls < calls' /\ version[m] \in Nat /\ CurrentStream[t] \in Streams
  BY <1>1, <1>3 DEF Typed, ListsAssumption
<1>5. /\ call'[t] = [pc |-> "lookup", lists |-> m, stream |-> CurrentStream[t], key |-> version[m], by |-> calls']
      /\ \A u \in Threads \ {t} : call'[u] = call[u]
  BY <1>1, <1>3 DEF Typed
<1>6. call' \in [Threads -> Calls]
  <2>1. call'[t] \in Asking
    BY <1>4, <1>5 DEF Asking
  <2>2. QED
    BY <1>1, <1>3, <1>5, <2>1 DEF Typed, Calls
<1>7. Typed(mem, queue, cache, call)'
  BY <1>1, <1>3, <1>4, <1>6 DEF Typed
<1>8. \A u \in Threads : call[u].pc # "idle" => call[u].by \in Nat /\ call[u].by <= calls
  BY <1>3, CallFacts DEF Typed, Numbered
<1>9. Numbered(call)'
  <2>1. \A u \in Threads \ {t} : call[u].pc # "idle" => call[u].by # calls' /\ call[u].by <= calls'
    BY <1>4, <1>8
  <2>2. QED
    BY <1>1, <1>3, <1>4, <1>5, <2>1 DEF Numbered
<1>10. \A e : NotYet(queue, e)' <=> NotYet(queue, e)
  BY <1>1 DEF NotYet, RecordOf
<1>11. Fresh(mem, queue, call)'
  <2>1. \A b \in Blocks : mem[b].by \in Nat /\ mem[b].by <= calls
    BY <1>3 DEF Typed, Fresh, Memory
  <2>2. \A b \in Blocks : mem[b].by # calls' /\ mem[b].by <= calls'
    BY <1>4, <2>1
  <2>3. \A e \in Nat : e > calls' => NotYet(queue, e)
    BY <1>3, <1>4 DEF Fresh
  <2>4. NotYet(queue, calls')
    BY <1>3, <1>4 DEF Fresh
  <2>5. ASSUME NEW u \in Threads, call'[u].pc \in {"lookup", "save"}
        PROVE  /\ NotYet(queue, call'[u].by)
               /\ \A b \in Blocks : mem[b].state # "free" /\ mem[b].by = call'[u].by =>
                    call'[u].pc = "save" /\ call'[u].block = b
    BY <1>3, <1>5, <2>2, <2>4, <2>5 DEF Fresh
  <2>6. QED
    BY <1>1, <1>10, <2>2, <2>3, <2>5 DEF Fresh
<1>12. /\ \A s, n, e : Waited(queue, s, n, e)' <=> Waited(queue, s, n, e)
       /\ \A n, b, l, v : Will(queue, n, b, l, v)' <=> Will(queue, n, b, l, v)
  BY <1>1 DEF Waited, Will, WaitFor, WriteTo
<1>13. /\ \A n, b, l, first, last : Between(queue, n, b, l, first, last)' <=> Between(queue, n, b, l, first, last)
       /\ \A b, l, first, last : Ready(queue, b, l, first, last)' <=> Ready(queue, b, l, first, last)
  BY <1>1, <1>12 DEF Between, Ready
<1>14. EntriesLive(mem, queue, cache)'
  BY <1>1, <1>2, <1>13 DEF Sound, EntriesLive, EntryLive
<1>15. CallsLive(mem, queue, call)'
  <2> SUFFICES ASSUME NEW u \in Threads, call'[u].pc \in Holders PROVE CallLive(mem, queue, call[u])'
    BY DEF CallsLive, Holders
  <2>1. u # t /\ call'[u] = call[u]
    BY <1>5 DEF Holders
  <2>0. PICK c : c = call[u]
    OBVIOUS
  <2>2. CallLive(mem, queue, c)
    BY <1>2, <2>0, <2>1 DEF Sound, CallsLive
  <2>3. CallLive(mem, queue, c)'
    BY <1>1, <1>12, <1>13, <2>2 DEF CallLive
  <2>4. QED
    BY <2>0, <2>1, <2>3 DEF CallLive
<1>16. OwnWrites(queue)' /\ RecordedAfter(mem, queue)' /\ ReleasedAfter(mem, queue)'
  <2>1. OwnWrites(queue)'
    BY <1>1, <1>2 DEF Sound, OwnWrites, WriteTo
  <2>2. RecordedAfter(mem, queue)'
    BY <1>1, <1>2 DEF Sound, RecordedAfter, WriteTo, RecordOf
  <2>3. ReleasedAfter(mem, queue)'
    BY <1>1, <1>2 DEF Sound, ReleasedAfter, ReleaseOf, ReadOf
  <2>4. QED
    BY <2>1, <2>2, <2>3
<1>17. OwnReads(queue)' /\ OtherReads(mem, queue)'
  <2>1. /\ \A i, r : OwnRead(queue, i, r)' <=> OwnRead(queue, i, r)
        /\ \A s, i, r : OtherRead(mem, queue, s, i, r)' <=> OtherRead(mem, queue, s, i, r)
    BY <1>1, <1>12, <1>13 DEF OwnRead, OtherRead
  <2>2. QED
    BY <1>1, <1>2, <2>1 DEF Sound, OwnReads, OtherReads
<1>18. QED
  BY <1>7, <1>9, <1>11, <1>14, <1>15, <1>16, <1>17 DEF IInv, Sound
LEMMA IInvHit ==
  ASSUME IInv, NEW t \in Threads, NEW i \in DOMAIN cache, Hit(t, i)
  PROVE  IInv'
<1> DEFINE c == [pc |-> "hit", lists |-> call[t].lists, stream |-> call[t].stream, key |-> call[t].key,
                 by |-> call[t].by, block |-> cache[i].block, event |-> cache[i].event]
<1>1. /\ call[t].pc = "lookup" /\ cache[i].lists = call[t].lists /\ cache[i].key = call[t].key
      /\ cache' = Append(Without(i), cache[i])
      /\ call' = [call EXCEPT ![t] = c]
      /\ UNCHANGED <<version, calls, queue, recorded, content, mem>>
  BY DEF Hit, Places
<1>2. Sound(mem, queue, cache, call) /\ Typed(mem, queue, cache, call)
  BY DEF IInv, Sound
<1>3. /\ i \in 1 .. Len(cache) /\ Len(cache) \in Nat /\ cache[i] \in Entries
      /\ EntryLive(mem, queue, cache[i]) /\ cache[i].block \in Blocks /\ cache[i].event \in Nat
      /\ cache[i].saved \in Nat /\ cache[i].lists \in Lists
  BY <1>2, EntryFacts DEF Typed, Sound, EntriesLive
<1>4. /\ call[t].lists \in Lists /\ call[t].stream \in Streams /\ call[t].key \in Nat /\ call[t].by \in Nat
      /\ version[call[t].lists] \in Nat
  BY <1>1, <1>2, CallFacts DEF Typed
<1>5. c \in Calls
  BY <1>3, <1>4 DEF Calls, Holding
<1>6. CallLive(mem, queue, c)
  <2>1. Ready(queue, c.block, c.lists, c.key, version[c.lists])
    BY <1>1, <1>3, <1>4, ReadyLater DEF EntryLive
  <2>2. QED
    BY <1>3, <2>1 DEF CallLive, EntryLive
<1>7. /\ c.pc = "hit" /\ c.lists = call[t].lists /\ c.stream = call[t].stream /\ c.key = call[t].key
      /\ c.by = call[t].by
  OBVIOUS
<1> HIDE DEF c
<1>8. Sound(mem, queue, cache, call')
  BY <1>1, <1>2, <1>5, <1>6, <1>7, SoundCall DEF Holders
<1>9. Without(i) \in Seq(Entries) /\ \A j \in 1 .. Len(Without(i)) : \E k \in 1 .. Len(cache) : Without(i)[j] = cache[k]
  <2> DEFINE at(j) == IF j < i THEN j ELSE j + 1
  <2>1. \A j \in 1 .. Len(cache) - 1 : at(j) \in 1 .. Len(cache) /\ cache[at(j)] \in Entries
    BY <1>2, <1>3 DEF Typed
  <2> HIDE DEF at
  <2>2. Without(i) = [j \in 1 .. Len(cache) - 1 |-> cache[at(j)]]
    BY DEF Without, at
  <2>3. Len(cache) - 1 \in Nat
    BY <1>3
  <2>4. Without(i) \in Seq(Entries) /\ Len(Without(i)) = Len(cache) - 1
    BY <2>1, <2>2, <2>3
  <2>5. QED
    BY <2>1, <2>2, <2>4
<1>10. /\ cache' \in Seq(Entries)
       /\ \A j \in 1 .. Len(cache') : \E k \in 1 .. Len(cache) : cache'[j] = cache[k]
  <2> DEFINE w == Without(i)
             e == cache[i]
  <2>1. w \in Seq(Entries) /\ e \in Entries /\ cache' = Append(w, e)
    BY <1>1, <1>3, <1>9
  <2> HIDE DEF w, e
  <2>2. /\ cache' \in Seq(Entries) /\ Len(cache') = Len(w) + 1 /\ Len(w) \in Nat
        /\ \A j \in 1 .. Len(w) : cache'[j] = w[j]
        /\ cache'[Len(w) + 1] = e
    BY <2>1
  <2>3. \A j \in 1 .. Len(cache') : j \in 1 .. Len(w) \/ j = Len(w) + 1
    BY <2>2
  <2>4. QED
    BY <1>3, <1>9, <2>2, <2>3 DEF w, e
<1>11. \A j \in 1 .. Len(cache') : EntryLive(mem, queue, cache'[j])
  BY <1>2, <1>10 DEF Sound, EntriesLive
<1>12. Sound(mem, queue, cache', call')
  BY <1>8, <1>10, <1>11, SoundEntries
<1>13. QED
  BY <1>1, <1>12, SoundNext

LEMMA IInvWaitEvent ==
  ASSUME ListsAssumption, IInv, NEW t \in Threads, WaitEvent(t)
  PROVE  IInv'
<1> DEFINE s == call[t].stream
           op == Wait(call[t].event)
<1>1. /\ call[t].pc = "hit"
      /\ Puts(queue, queue', s, op)
      /\ call' = [call EXCEPT ![t].pc = "launch"]
      /\ UNCHANGED <<version, cache, calls, recorded, content, mem>>
  BY DEF WaitEvent, Put, Puts
<1>2. Sound(mem, queue, cache, call) /\ Typed(mem, queue, cache, call) /\ CallLive(mem, queue, call[t])
  BY <1>1 DEF IInv, Sound, CallsLive, Holders
<1>3. call[t] \in Calls /\ call[t].event \in Nat /\ s \in Streams
  BY <1>1, <1>2, CallFacts DEF Typed
<1>4. op \in Ops /\ op.op = "wait" /\ op.event = call[t].event
  BY <1>3 DEF Wait, Ops, Waits
<1> HIDE DEF op
<1>5. /\ Grown(queue, queue') /\ queue'[s][Len(queue[s]) + 1] = op /\ Len(queue'[s]) = Len(queue[s]) + 1
      /\ \A z \in Streams : \A i \in NewPlaces(queue, queue', z) : z = s /\ i = Len(queue[s]) + 1
  BY <1>1, <1>2, <1>3, <1>4, PutGrows DEF Typed
<1>6. \A z \in Streams : \A i \in NewPlaces(queue, queue', z) : Fits(mem, queue', call, z, i)
  BY <1>4, <1>5 DEF Fits
<1>7. Sound(mem, queue', cache, call)
  BY <1>2, <1>5, <1>6, SoundGrows
<1> DEFINE c == [call[t] EXCEPT !.pc = "launch"]
<1>8. /\ call[t] \in Holding
      /\ c \in Calls /\ c.pc = "launch" /\ c.lists = call[t].lists /\ c.stream = s /\ c.key = call[t].key
      /\ c.by = call[t].by /\ c.block = call[t].block
  <2>1. call[t] \in Holding
    BY <1>1, <1>3 DEF Calls, Idle, Asking, Holding, Saving, Keeping
  <2>2. QED
    BY <2>1 DEF Holding, Calls
<1>9. Waited(queue', s, Len(queue'[s]), mem[c.block].by)
  <2>1. mem[c.block].by = call[t].event
    BY <1>1, <1>2, <1>8 DEF CallLive
  <2>2. Len(queue[s]) + 1 \in 1 .. Len(queue'[s])
    BY <1>2, <1>3, <1>5, OpAt DEF Typed
  <2>3. WaitFor(queue', s, Len(queue[s]) + 1, call[t].event)
    BY <1>4, <1>5 DEF WaitFor
  <2>4. QED
    BY <2>1, <2>2, <2>3 DEF Waited
<1>10. CallLive(mem, queue', call[t])
  BY <1>1, <1>7 DEF Sound, CallsLive, Holders
<1> HIDE DEF s
<1>11. CallLive(mem, queue', c)
  <2> HIDE DEF c
  <2>1. QED
    BY <1>1, <1>8, <1>9, <1>10 DEF CallLive
<1>12. call' = [call EXCEPT ![t] = c]
  BY <1>1
<1> HIDE DEF c
<1>13. Sound(mem, queue', cache, call')
  BY <1>1, <1>7, <1>8, <1>11, <1>12, SoundCall, ZenonT(30) DEF s
<1>14. QED
  BY <1>1, <1>13, SoundNext

LEMMA IInvCanonical ==
  ASSUME ListsAssumption, IInv, NEW t \in Threads, NEW b \in Blocks, Canonical(t, b)
  PROVE  IInv'
<1> DEFINE s == call[t].stream
           m == call[t].lists
           op == Write(b, m, version[m])
<1>1. /\ call[t].pc = "lookup"
      /\ b \in Free(s)
      /\ Puts(queue, queue', s, op)
      /\ mem' = [mem EXCEPT ![b] = [state |-> "live", by |-> call[t].by, uses |-> {}]]
      /\ call' = [call EXCEPT ![t] = [pc |-> "save", lists |-> @.lists, stream |-> @.stream, key |-> @.key,
                                      by |-> @.by, block |-> b, event |-> @.by]]
      /\ UNCHANGED <<version, cache, calls, recorded, content>>
  BY DEF Canonical, Put, Puts
<1>2. Sound(mem, queue, cache, call) /\ Typed(mem, queue, cache, call) /\ Numbered(call)
  BY DEF IInv, Sound
<1>3. s \in Streams /\ m \in Lists /\ version[m] \in Nat /\ call[t].key \in Nat /\ call[t].key <= version[m]
  BY <1>1, <1>2, CallFacts DEF Typed, Numbered
<1>4. mem[b].state = "free" /\ Owner[b] = s
  BY <1>1 DEF Free
<1>5. op \in Ops /\ op.op = "write" /\ op.block = b /\ op.lists = m /\ op.version = version[m]
  BY <1>3 DEF Write, Ops, Writes
<1> HIDE DEF op
<1>6. /\ Grown(queue, queue') /\ queue'[s][Len(queue[s]) + 1] = op /\ Len(queue'[s]) = Len(queue[s]) + 1
      /\ \A z \in Streams : \A i \in NewPlaces(queue, queue', z) : z = s /\ i = Len(queue[s]) + 1
  BY <1>1, <1>2, <1>3, <1>5, PutGrows DEF Typed
<1>7. \A z \in Streams : \A i \in NewPlaces(queue, queue', z) : Fits(mem, queue', call, z, i)
  BY <1>4, <1>5, <1>6 DEF Fits
<1>8. Sound(mem, queue', cache, call)
  BY <1>2, <1>6, <1>7, SoundGrows
<1>9. Ready(queue', b, m, call[t].key, version[m])
  <2>1. /\ WriteTo(queue', s, Len(queue[s]) + 1, b)
        /\ queue'[s][Len(queue[s]) + 1].lists = m /\ queue'[s][Len(queue[s]) + 1].version = version[m]
    BY <1>5, <1>6 DEF WriteTo
  <2>2. /\ Len(queue[s]) + 1 \in 1 .. Len(queue'[s])
        /\ \A j \in (Len(queue[s]) + 1) + 1 .. Len(queue'[s]) : FALSE
    BY <1>2, <1>3, <1>6, OpAt DEF Typed
  <2>3. Will(queue', Len(queue'[s]), b, m, version[m])
    BY <1>4, <2>1, <2>2 DEF Will
  <2>4. QED
    BY <1>3, <1>4, <2>3 DEF Ready, Between
<1> HIDE DEF s
<1>10. Sound(mem', queue', cache, call')
  BY <1>1, <1>4, <1>8, <1>9, SoundTaken DEF s
<1>11. QED
  BY <1>1, <1>10, SoundNext

LEMMA IInvSave ==
  ASSUME ListsAssumption, IInv, NEW t \in Threads, Save(t)
  PROVE  IInv'
<1> DEFINE s == call[t].stream
           op == Record(call[t].event)
           c == [pc |-> "insert", lists |-> call[t].lists, stream |-> call[t].stream, key |-> call[t].key,
                 by |-> call[t].by, block |-> call[t].block, event |-> call[t].event,
                 saved |-> version[call[t].lists]]
<1>1. /\ call[t].pc = "save"
      /\ Puts(queue, queue', s, op)
      /\ call' = [call EXCEPT ![t] = c]
      /\ UNCHANGED <<version, cache, calls, recorded, content, mem>>
  BY DEF Save, Put, Puts
<1>2. /\ Sound(mem, queue, cache, call) /\ Typed(mem, queue, cache, call) /\ CallLive(mem, queue, call[t])
      /\ Numbered(call) /\ Fresh(mem, queue, call)
  BY <1>1 DEF IInv, Sound, CallsLive, Holders
<1>3. /\ call[t].event \in Nat /\ s \in Streams /\ call[t].lists \in Lists /\ call[t].key \in Nat
      /\ call[t].by \in Nat /\ call[t].block \in Blocks /\ version[call[t].lists] \in Nat
  BY <1>1, <1>2, CallFacts DEF Typed, Holders
<1>4. call[t].event = call[t].by /\ Owner[call[t].block] = s
  BY <1>1, <1>2 DEF CallLive
<1>5. /\ c \in Calls /\ c.pc = "insert" /\ c.lists = call[t].lists /\ c.stream = s /\ c.key = call[t].key
      /\ c.by = call[t].by /\ c.block = call[t].block /\ c.event = call[t].event
      /\ c.saved = version[call[t].lists]
  <2>1. c \in Saving
    BY <1>3 DEF Saving
  <2>2. QED
    BY <2>1 DEF Calls
<1>6. op \in Ops /\ op.op = "record" /\ op.event = call[t].by
  BY <1>3, <1>4 DEF Record, Ops, Records
<1> HIDE DEF c, op
<1>7. CallLive(mem, queue, c)
  BY <1>1, <1>2, <1>3, <1>5 DEF CallLive
<1>8. /\ Grown(queue, queue') /\ queue'[s][Len(queue[s]) + 1] = op /\ Len(queue'[s]) = Len(queue[s]) + 1
      /\ \A z \in Streams : \A i \in NewPlaces(queue, queue', z) : z = s /\ i = Len(queue[s]) + 1
  <2>1. queue \in [Streams -> Seq(Ops)] /\ s \in Streams /\ op \in Ops /\ Puts(queue, queue', s, op)
    BY <1>1, <1>2, <1>3, <1>6 DEF Typed
  <2>2. QED
    BY <2>1, PutGrows
<1> HIDE DEF s
<1>9. Sound(mem, queue, cache, call')
  BY <1>1, <1>2, <1>5, <1>7, SoundCall DEF s
<1>10. call'[t] = c /\ \A u \in Threads \ {t} : call'[u] = call[u]
  BY <1>1, <1>2 DEF Typed
<1>11. /\ call[t].by <= calls
       /\ \A u \in Threads : call'[u].pc \in {"lookup", "save"} => call'[u].by # call[t].by
       /\ \A b \in Blocks : mem[b].state # "free" /\ mem[b].by = call[t].by => Owner[b] = s
  BY <1>1, <1>2, <1>4, <1>5, <1>10 DEF Numbered, Fresh
<1>12. \A z \in Streams : \A i \in NewPlaces(queue, queue', z) : Fits(mem, queue', call', z, i)
  BY <1>6, <1>8, <1>11 DEF Fits
<1>13. Sound(mem, queue', cache, call')
  BY <1>8, <1>9, <1>12, SoundGrows
<1>14. QED
  BY <1>1, <1>13, SoundNext
LEMMA IInvInsert ==
  ASSUME ListsAssumption, IInv, NEW t \in Threads, Insert(t)
  PROVE  IInv'
<1> DEFINE entry == [lists |-> call[t].lists, key |-> call[t].key, saved |-> call[t].saved,
                     block |-> call[t].block, event |-> call[t].event]
           places == Places(call[t].lists, call[t].key)
           filled == IF places = {} THEN Append(cache, entry)
                     ELSE [i \in DOMAIN cache |-> IF i \in places THEN entry ELSE cache[i]]
           excess == IF Len(filled) > MAX_ENTRIES THEN Len(filled) - MAX_ENTRIES ELSE 0
           c == [call[t] EXCEPT !.pc = "launch"]
<1>1. /\ call[t].pc = "insert"
      /\ cache' = SubSeq(filled, excess + 1, Len(filled))
      /\ call' = [call EXCEPT ![t].pc = "launch"]
      /\ Collect(mem, queue, cache', call')
      /\ UNCHANGED <<version, calls, recorded, content>>
  BY DEF Insert
<1>2. Sound(mem, queue, cache, call) /\ Typed(mem, queue, cache, call) /\ CallLive(mem, queue, call[t])
  BY <1>1 DEF IInv, Sound, CallsLive, Holders
<1>3. /\ call[t].event \in Nat /\ call[t].lists \in Lists /\ call[t].key \in Nat
      /\ call[t].block \in Blocks /\ call[t].saved \in Nat /\ call[t].stream \in Streams
  BY <1>1, <1>2, CallFacts DEF Typed, Holders
<1>4. entry \in Entries /\ EntryLive(mem, queue, entry)
  BY <1>1, <1>2, <1>3 DEF Entries, EntryLive, CallLive
<1> HIDE DEF entry
<1>5. filled \in Seq(Entries) /\ \A j \in 1 .. Len(filled) : EntryLive(mem, queue, filled[j])
  <2>1. cache \in Seq(Entries) /\ \A j \in 1 .. Len(cache) : EntryLive(mem, queue, cache[j])
    BY <1>2 DEF Typed, Sound, EntriesLive
  <2> HIDE DEF places
  <2>2. CASE places = {}
    <3>1. filled = Append(cache, entry)
      BY <2>2
    <3> HIDE DEF filled
    <3>2. /\ filled \in Seq(Entries) /\ Len(filled) = Len(cache) + 1 /\ Len(cache) \in Nat
          /\ \A j \in 1 .. Len(cache) : filled[j] = cache[j]
          /\ filled[Len(cache) + 1] = entry
      BY <1>4, <2>1, <3>1
    <3>3. \A j \in 1 .. Len(filled) : j \in 1 .. Len(cache) \/ j = Len(cache) + 1
      BY <3>2
    <3>4. QED
      BY <1>4, <2>1, <3>2, <3>3
  <2>3. CASE places # {}
    <3>1. filled = [i \in 1 .. Len(cache) |-> IF i \in places THEN entry ELSE cache[i]]
      BY <2>1, <2>3
    <3> HIDE DEF filled
    <3>2. Len(cache) \in Nat /\ \A i \in 1 .. Len(cache) : (IF i \in places THEN entry ELSE cache[i]) \in Entries
      BY <1>4, <2>1
    <3>3. filled \in Seq(Entries) /\ Len(filled) = Len(cache)
      BY <3>1, <3>2
    <3>4. QED
      BY <1>4, <2>1, <3>1, <3>3
  <2>4. QED
    BY <2>2, <2>3
<1>6. cache' \in Seq(Entries) /\ \A j \in 1 .. Len(cache') : \E k \in 1 .. Len(filled) : cache'[j] = filled[k]
  <2> DEFINE n == Len(filled)
             q == filled
  <2>1. q \in Seq(Entries) /\ n = Len(q) /\ n \in Nat
    BY <1>5
  <2>2. excess \in Nat /\ excess <= n
    BY <2>1 DEF ListsAssumption
  <2>3. cache' = SubSeq(q, excess + 1, n)
    BY <1>1
  <2> HIDE DEF q, n, filled, excess
  <2>4. /\ cache' \in Seq(Entries) /\ Len(cache') = n - excess
        /\ \A j \in 1 .. n - excess : cache'[j] = q[excess + j]
    BY <2>1, <2>2, <2>3
  <2>5. \A j \in 1 .. n - excess : excess + j \in 1 .. Len(q)
    BY <2>1, <2>2
  <2>6. QED
    BY <2>4, <2>5 DEF q
<1> HIDE DEF filled, excess, places
<1>7. Sound(mem, queue, cache', call)
  BY <1>2, <1>5, <1>6, SoundEntries
<1>8. /\ c \in Calls /\ c.pc = "launch" /\ c.lists = call[t].lists /\ c.stream = call[t].stream
      /\ c.key = call[t].key /\ c.by = call[t].by /\ c.block = call[t].block
  <2>1. call[t] \in Calls
    BY <1>2 DEF Typed
  <2>2. call[t] \in Saving
    BY <1>1, <2>1 DEF Calls, Idle, Asking, Holding, Saving, Keeping
  <2>3. QED
    BY <2>2 DEF Saving, Calls
<1>9. call' = [call EXCEPT ![t] = c]
  BY <1>1
<1> HIDE DEF c
<1>10. CallLive(mem, queue, c)
  BY <1>1, <1>2, <1>8 DEF CallLive
<1>11. Sound(mem, queue, cache', call')
  BY <1>1, <1>7, <1>8, <1>9, <1>10, SoundCall, ZenonT(30)
<1>12. Sound(mem', queue', cache', call')
  BY <1>1, <1>11, SoundCollect
<1>13. QED
  BY <1>1, <1>12, SoundNext
(* A kernel is launched with the lists its call holds. *)
LEMMA SoundLaunch ==
  ASSUME ListsAssumption, Sound(mem, queue, cache, call), NEW t \in Threads,
         call[t].pc \in {"launch", "held"}, NEW last \in Nat,
         Ready(queue, call[t].block, call[t].lists, call[t].key, last),
         NEW ran, Puts(queue, ran, call[t].stream, Kernel(t, last)), NEW used, used = Used(t)
  PROVE  Sound(used, ran, cache, call)
<1> DEFINE s == call[t].stream
           b == call[t].block
           op == Kernel(t, last)
<1>1. Typed(mem, queue, cache, call) /\ CallLive(mem, queue, call[t])
  BY DEF Sound, CallsLive, Holders
<1>2. /\ b \in Blocks /\ s \in Streams /\ call[t].lists \in Lists /\ call[t].key \in Nat /\ mem[b].by \in Nat
      /\ queue \in [Streams -> Seq(Ops)]
  BY <1>1, CallFacts DEF Typed, Holders, Memory
<1>3. /\ op \in Ops /\ op.op = "read" /\ op.block = b /\ op.by = mem[b].by /\ op.lists = call[t].lists
      /\ op.first = call[t].key /\ op.last = last
  BY <1>2 DEF Kernel, Read, Ops, Reads
<1>4. /\ mem[b].state = "live" /\ Ready(queue, b, op.lists, op.first, op.last)
      /\ Owner[b] = s \/ Waited(queue, s, Len(queue[s]), op.by)
  BY <1>1, <1>3 DEF CallLive
<1>5. Puts(queue, ran, s, op)
  OBVIOUS
<1>6. used = [mem EXCEPT ![b].uses = @ \cup {s}]
  BY DEF Used
<1> HIDE DEF s, b, op
<1>7. Sound(used, queue, cache, call) /\ s \in used[b].uses
  BY <1>2, <1>6, SoundUsed
<1>8. used[b].state = "live" /\ used[b].by = op.by
  BY <1>1, <1>2, <1>3, <1>4, <1>6 DEF Typed
<1>9. /\ Grown(queue, ran) /\ ran[s][Len(queue[s]) + 1] = op /\ Len(ran[s]) = Len(queue[s]) + 1
      /\ \A z \in Streams : \A i \in NewPlaces(queue, ran, z) : z = s /\ i = Len(queue[s]) + 1
  BY <1>2, <1>3, <1>5, PutGrows
<1>10. Len(queue[s]) \in Nat /\ (Len(queue[s]) + 1) - 1 = Len(queue[s]) /\ Len(queue[s]) \in 0 .. Len(queue[s])
  BY <1>2, OpAt
<1>11. ASSUME Owner[b] = s
       PROVE  OwnRead(ran, Len(queue[s]) + 1, op)
  <2>1. Between(queue, Len(queue[s]), b, op.lists, op.first, op.last)
    BY <1>4, <1>11 DEF Ready
  <2>2. Between(ran, Len(queue[s]), b, op.lists, op.first, op.last)
    BY <1>2, <1>9, <1>10, <1>11, <2>1, BetweenGrows
  <2>3. QED
    BY <1>3, <1>10, <2>2 DEF OwnRead
<1>12. ASSUME Owner[b] # s
       PROVE  OtherRead(used, ran, s, Len(queue[s]) + 1, op)
  <2>1. Waited(ran, s, Len(queue[s]), op.by)
    BY <1>2, <1>4, <1>9, <1>10, <1>12, WaitedGrows
  <2>2. Owner[b] \in Streams /\ \A i \in NewPlaces(queue, ran, Owner[b]) : ~WriteTo(ran, Owner[b], i, b)
    BY <1>2, <1>9, <1>12 DEF ListsAssumption
  <2>3. Ready(ran, b, op.lists, op.first, op.last)
    BY <1>2, <1>4, <1>9, <2>2, ReadyGrows
  <2>4. QED
    BY <1>3, <1>7, <1>8, <1>10, <2>1, <2>3 DEF OtherRead
<1>13. \A z \in Streams : \A i \in NewPlaces(queue, ran, z) : Fits(used, ran, call, z, i)
  BY <1>3, <1>8, <1>9, <1>11, <1>12 DEF Fits
<1>14. QED
  BY <1>7, <1>9, <1>13, SoundGrows

LEMMA IInvForward ==
  ASSUME ListsAssumption, IInv, NEW t \in Threads, NEW training \in BOOLEAN, Forward(t, training)
  PROVE  IInv'
<1> DEFINE last == version[call[t].lists]
           ran == [queue EXCEPT ![call[t].stream] = Append(@, Kernel(t, last))]
           c == IF training
                THEN [pc |-> "held", lists |-> call[t].lists, stream |-> call[t].stream, key |-> call[t].key,
                      by |-> call[t].by, block |-> call[t].block, versions |-> last]
                ELSE Idle
<1>1. /\ call[t].pc = "launch"
      /\ call' = [call EXCEPT ![t] = c]
      /\ Collect(Used(t), ran, cache, call')
      /\ UNCHANGED <<version, cache, calls, recorded, content>>
  BY DEF Forward
<1>2. Sound(mem, queue, cache, call) /\ Typed(mem, queue, cache, call) /\ CallLive(mem, queue, call[t])
  BY <1>1 DEF IInv, Sound, CallsLive, Holders
<1>3. /\ call[t].lists \in Lists /\ call[t].key \in Nat /\ call[t].by \in Nat
      /\ call[t].block \in Blocks /\ call[t].stream \in Streams /\ last \in Nat
  BY <1>1, <1>2, CallFacts DEF Typed, Holders
<1>4. Ready(queue, call[t].block, call[t].lists, call[t].key, last)
  BY <1>2 DEF CallLive
<1>5. Puts(queue, ran, call[t].stream, Kernel(t, last))
  BY DEF Puts
<1>6. Sound(Used(t), ran, cache, call)
  <2> HIDE DEF ran, last
  <2>1. QED
    BY <1>1, <1>2, <1>3, <1>4, <1>5, SoundLaunch
<1>7. c \in Calls /\ c.pc \in {"held", "idle"}
  <2>1. CASE training
    <3>1. c \in Keeping
      BY <1>3, <2>1 DEF Keeping
    <3>2. QED
      BY <2>1, <3>1 DEF Calls
  <2>2. CASE ~training
    BY <2>2 DEF Calls, Idle
  <2>3. QED
    BY <2>1, <2>2
<1>8. c.pc = "held" => /\ c.lists = call[t].lists /\ c.stream = call[t].stream /\ c.key = call[t].key
                       /\ c.by = call[t].by /\ c.block = call[t].block /\ c.versions = last
  BY DEF Idle
<1> HIDE DEF c, ran
<1>9. CallLive(Used(t), ran, call[t])
  BY <1>1, <1>6 DEF Sound, CallsLive, Holders
<1>10. c.pc \in Holders => CallLive(Used(t), ran, c)
  BY <1>1, <1>7, <1>8, <1>9 DEF CallLive, Holders
<1>11. Sound(Used(t), ran, cache, call')
  BY <1>1, <1>6, <1>7, <1>8, <1>10, SoundCall
<1>12. Sound(mem', queue', cache, call')
  BY <1>1, <1>11, SoundCollect
<1>13. QED
  BY <1>1, <1>12, SoundNext

LEMMA IInvBackward ==
  ASSUME ListsAssumption, IInv, NEW t \in Threads, Backward(t)
  PROVE  IInv'
<1> DEFINE last == call[t].versions
           ran == [queue EXCEPT ![call[t].stream] = Append(@, Kernel(t, last))]
<1>1. /\ call[t].pc = "held"
      /\ call' = [call EXCEPT ![t] = Idle]
      /\ Collect(Used(t), ran, cache, call') \/ Collect(mem, queue, cache, call')
      /\ UNCHANGED <<version, cache, calls, recorded, content>>
  BY DEF Backward
<1>2. Sound(mem, queue, cache, call) /\ Typed(mem, queue, cache, call) /\ CallLive(mem, queue, call[t])
  BY <1>1 DEF IInv, Sound, CallsLive, Holders
<1>3. last \in Nat
  BY <1>1, <1>2, CallFacts DEF Typed
<1>4. Ready(queue, call[t].block, call[t].lists, call[t].key, last)
  BY <1>1, <1>2 DEF CallLive
<1>5. Puts(queue, ran, call[t].stream, Kernel(t, last))
  BY DEF Puts
<1> HIDE DEF ran, last
<1>6. Sound(Used(t), ran, cache, call)
  BY <1>1, <1>2, <1>3, <1>4, <1>5, SoundLaunch
<1>7. Idle \in Calls /\ Idle.pc = "idle"
  BY DEF Calls, Idle
<1>8. Sound(Used(t), ran, cache, call') /\ Sound(mem, queue, cache, call')
  BY <1>1, <1>2, <1>6, <1>7, SoundCall DEF Holders
<1>9. Sound(mem', queue', cache, call')
  BY <1>1, <1>8, SoundCollect
<1>10. QED
  BY <1>1, <1>9, SoundNext

LEMMA IInvStep ==
  ASSUME ListsAssumption, IInv, [Next]_vars
  PROVE  IInv'
<1>1. CASE UNCHANGED vars
  <2>1. UNCHANGED <<version, calls, recorded, content>> /\ Sound(mem', queue', cache', call')
    BY <1>1 DEF vars, IInv
  <2>2. QED
    BY <2>1, SoundNext
<1>2. CASE Rest
  BY <1>1, <1>2 DEF Rest
<1>3. QED
  BY <1>1, <1>2, IInvChange, IInvCall, IInvHit, IInvWaitEvent, IInvCanonical, IInvSave, IInvInsert,
     IInvForward, IInvBackward, IInvRun DEF Next

-----------------------------------------------------------------------------
LEMMA IInvImplies ==
  ASSUME ListsAssumption, IInv
  PROVE  ReadsItsLists /\ NotRecycled
<1>1. /\ Typed(mem, queue, cache, call) /\ OwnReads(queue) /\ OtherReads(mem, queue) /\ RecordedAfter(mem, queue)
      /\ ReleasedAfter(mem, queue)
  BY DEF IInv, Sound
<1>2. NotRecycled
  <2> SUFFICES ASSUME NEW s \in Streams, NEW i \in DOMAIN queue[s], queue[s][i].op = "read",
                      Owner[queue[s][i].block] # s
               PROVE  mem[queue[s][i].block].state # "free" /\ mem[queue[s][i].block].by = queue[s][i].by
    BY DEF NotRecycled
  <2>1. i \in 1 .. Len(queue[s])
    BY <1>1 DEF Typed
  <2>2. QED
    BY <1>1, <2>1 DEF OtherReads, OtherRead
<1>3. ReadsItsLists
  <2> SUFFICES ASSUME NEW s \in Streams, queue[s] # << >>, Head(queue[s]).op = "read"
               PROVE  \E v \in Head(queue[s]).first .. Head(queue[s]).last :
                        content[Head(queue[s]).block] = <<Head(queue[s]).lists, v>>
    BY DEF ReadsItsLists
  <2>0. PICK r : r = queue[s][1]
    OBVIOUS
  <2>1. /\ 1 \in 1 .. Len(queue[s]) /\ Head(queue[s]) = r /\ r \in Ops /\ r.op = "read"
        /\ r.block \in Blocks /\ r.first \in Nat /\ r.last \in Nat
    <3>1. queue[s] \in Seq(Ops) /\ Head(queue[s]) = queue[s][1] /\ 1 \in 1 .. Len(queue[s])
      BY <1>1 DEF Typed
    <3>2. QED
      BY <2>0, <3>1, OpFacts
  <2>2. CASE Owner[r.block] = s
    <3>1. OwnRead(queue, 1, r)
      BY <1>1, <2>0, <2>1, <2>2 DEF OwnReads
    <3>2. PICK v \in Nat : r.first <= v /\ v <= r.last /\ Will(queue, 0, r.block, r.lists, v)
      BY <3>1 DEF OwnRead, Between
    <3>3. content[r.block] = <<r.lists, v>> /\ v \in r.first .. r.last
      BY <2>1, <3>2 DEF Will
    <3>4. QED
      BY <2>1, <3>3
  <2>3. CASE Owner[r.block] # s
    <3> DEFINE z == Owner[r.block]
    <3>1. OtherRead(mem, queue, s, 1, r)
      BY <1>1, <2>0, <2>1, <2>3 DEF OtherReads
    <3>2. PICK v \in Nat : r.first <= v /\ v <= r.last /\ Will(queue, Len(queue[z]), r.block, r.lists, v)
      BY <3>1 DEF OtherRead, Ready, Between
    <3>3. mem[r.block].by \in recorded /\ mem[r.block].state # "free"
      BY <3>1 DEF OtherRead, Waited
    <3>4. \A j \in 1 .. Len(queue[z]) : ~WriteTo(queue, z, j, r.block)
      BY <1>1, <2>1, <3>3 DEF RecordedAfter
    <3>5. content[r.block] = <<r.lists, v>> /\ v \in r.first .. r.last
      BY <2>1, <3>2, <3>4 DEF Will
    <3>6. QED
      BY <2>1, <3>5
  <2>4. QED
    BY <2>2, <2>3
<1>4. QED
  BY <1>2, <1>3
=============================================================================
