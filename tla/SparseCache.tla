---------------------------- MODULE SparseCache ----------------------------
(***************************************************************************)
(* The cache of normalised block lists (catlass_dsl/block_sparsity.py) and *)
(* the launches that read them (interface.py, runtime.py).                 *)
(*                                                                         *)
(* Threads call the attention with block lists of the user, each on a      *)
(* stream of the NPU, which runs what was put in its queue later and in    *)
(* order.  A call looks for the normalised lists under the lists and their *)
(* version; it computes them on its own stream or, if it finds those of    *)
(* another thread, makes its stream wait for them.  Nothing waits on the   *)
(* host.  So three things must agree that happen at different times: the   *)
(* lists, which the user may change at any moment; their normalised form,  *)
(* computed on one stream and read on another; and the memory of that      *)
(* form, which is given away as soon as the host holds no reference to it. *)
(*                                                                         *)
(* External: streams, events and the caching allocator of PyTorch, which   *)
(* hands a block freed on the host to the next tensor of its stream at     *)
(* once, unless record_stream() told of a use on another stream.           *)
(***************************************************************************)
EXTENDS Integers, Sequences, FiniteSets

CONSTANTS
  Threads, Streams, CurrentStream, \* current_stream() of each thread
  Lists,         \* the BlockSparseTensorsTorch of the user
  Blocks, Owner, \* blocks of device memory, numbered, and the stream each belongs to
  MAX_ENTRIES,   \* entries of the cache (64)
  MAX_CALLS,     \* bound: calls of a behaviour
  MAX_VERSION    \* bound: changes of a list

VARIABLES
  version,   \* of each list: its _version
  cache,     \* _CACHE, the entry used longest ago first
  call,      \* of each thread: the call it is in
  calls,     \* calls made so far; a call's number names the event it records
  queue,     \* of each stream: the operations to run
  recorded,  \* events that have happened
  content,   \* of each block: what was written to it last
  mem        \* of each block: whether it is taken, by which call, and its recorded uses
vars == <<version, cache, call, calls, queue, recorded, content, mem>>

ListsAssumption ==
  /\ Owner \in [Blocks -> Streams] /\ CurrentStream \in [Threads -> Streams]
  /\ MAX_ENTRIES \in Nat

Idle == [pc |-> "idle"]
NoBlock == [state |-> "free", by |-> 0, uses |-> {}]

Init ==
  /\ version = [m \in Lists |-> 0]
  /\ cache = << >>
  /\ call = [t \in Threads |-> Idle]
  /\ calls = 0
  /\ queue = [s \in Streams |-> << >>]
  /\ recorded = {}
  /\ content = [b \in Blocks |-> << >>]
  /\ mem = [b \in Blocks |-> NoBlock]

(* Operations of a stream. *)
Write(b, m, v) == [op |-> "write", block |-> b, lists |-> m, version |-> v]
Record(e) == [op |-> "record", event |-> e]
Wait(e) == [op |-> "wait", event |-> e]
Release(B) == [op |-> "release", blocks |-> B]
(* A kernel that reads block b for a call during which list m had the      *)
(* versions first to last.                                                 *)
Read(b, by, m, first, last) ==
  [op |-> "read", block |-> b, by |-> by, lists |-> m, first |-> first, last |-> last]

Put(s, op) == queue' = [queue EXCEPT ![s] = Append(@, op)]

(* The blocks the host holds: of the entries and of the calls in progress. *)
Held(entries, threads) ==
  {entries[i].block : i \in DOMAIN entries}
    \cup {threads[t].block : t \in {u \in Threads : threads[u].pc \in {"save", "insert", "hit", "launch", "held"}}}

(* Blocks nobody holds any more are freed: at once, or when the other      *)
(* streams that used them come to this point.                              *)
Collect(memory, queues, entries, threads) ==
  LET gone == {b \in Blocks : memory[b].state = "live"} \ Held(entries, threads)
      others(b) == memory[b].uses \ {Owner[b]}
      used(s) == {b \in gone : s \in others(b)}
      after(b) == IF others(b) = {} THEN NoBlock
                  ELSE [memory[b] EXCEPT !.state = "waiting", !.uses = others(b)]
  IN /\ mem' = [b \in Blocks |-> IF b \in gone THEN after(b) ELSE memory[b]]
     /\ queue' = [s \in Streams |-> IF used(s) = {} THEN queues[s] ELSE Append(queues[s], Release(used(s)))]

-----------------------------------------------------------------------------
(* The host. *)

(* The user changes a list in place. *)
Change(m) ==
  /\ version[m] < MAX_VERSION
  /\ version' = [version EXCEPT ![m] = @ + 1]
  /\ UNCHANGED <<cache, call, calls, queue, recorded, content, mem>>

(* A call begins, on the thread's current stream: its key has the versions *)
(* of this moment.                                                         *)
Call(t) ==
  /\ call[t].pc = "idle" /\ calls < MAX_CALLS
  /\ calls' = calls + 1
  /\ \E m \in Lists :
       call' = [call EXCEPT ![t] = [pc |-> "lookup", lists |-> m, stream |-> CurrentStream[t],
                                    key |-> version[m], by |-> calls']]
  /\ UNCHANGED <<version, cache, queue, recorded, content, mem>>

(* The entries of a key: one at most. *)
Places(m, v) == {i \in DOMAIN cache : cache[i].lists = m /\ cache[i].key = v}
Without(i) == [j \in 1 .. Len(cache) - 1 |-> cache[IF j < i THEN j ELSE j + 1]]

(* Under the lock: an entry is good if nothing changed since it was made;  *)
(* it becomes the one used last.                                           *)
Hit(t, i) ==
  /\ call[t].pc = "lookup"
  /\ i \in Places(call[t].lists, call[t].key)
  /\ cache[i].saved = version[call[t].lists]
  /\ cache' = Append(Without(i), cache[i])
  /\ call' = [call EXCEPT ![t] = [pc |-> "hit", lists |-> @.lists, stream |-> @.stream, key |-> @.key,
                                  by |-> @.by, block |-> cache[i].block, event |-> cache[i].event]]
  /\ UNCHANGED <<version, calls, queue, recorded, content, mem>>

SlipNoWait(t) ==
  /\ call[t].pc = "hit"
  /\ call' = [call EXCEPT ![t].pc = "launch"]
  /\ UNCHANGED <<version, cache, calls, queue, recorded, content, mem>>
(* The lists may still be being computed, on another stream. *)
WaitEvent(t) ==
  /\ call[t].pc = "hit"
  /\ Put(call[t].stream, Wait(call[t].event))
  /\ call' = [call EXCEPT ![t].pc = "launch"]
  /\ UNCHANGED <<version, cache, calls, recorded, content, mem>>

Free(s) == {b \in Blocks : Owner[b] = s /\ mem[b].state = "free"}

(* A miss: the lists are normalised as they are now, in a new block: the   *)
(* first free one, as any would do.                                        *)
Canonical(t, b) ==
  /\ call[t].pc = "lookup"
  /\ \A i \in Places(call[t].lists, call[t].key) : cache[i].saved # version[call[t].lists]
  /\ b \in Free(call[t].stream) /\ \A a \in Free(call[t].stream) : b <= a
  /\ mem' = [mem EXCEPT ![b] = [state |-> "live", by |-> call[t].by, uses |-> {}]]
  /\ Put(call[t].stream, Write(b, call[t].lists, version[call[t].lists]))
  /\ call' = [call EXCEPT ![t] = [pc |-> "save", lists |-> @.lists, stream |-> @.stream, key |-> @.key,
                                  by |-> @.by, block |-> b, event |-> @.by]]
  /\ UNCHANGED <<version, cache, calls, recorded, content>>

(* The versions the entry will be good for, and its event. *)
Save(t) ==
  /\ call[t].pc = "save"
  /\ Put(call[t].stream, Record(call[t].event))
  /\ call' = [call EXCEPT ![t] = [pc |-> "insert", lists |-> @.lists, stream |-> @.stream, key |-> @.key,
                                  by |-> @.by, block |-> @.block, event |-> @.event,
                                  saved |-> version[@.lists]]]
  /\ UNCHANGED <<version, cache, calls, recorded, content, mem>>

(* Under the lock: an entry of this key is replaced where it is, another   *)
(* comes last; then the ones used longest ago go.                          *)
Insert(t) ==
  LET entry == [lists |-> call[t].lists, key |-> call[t].key, saved |-> call[t].saved,
                block |-> call[t].block, event |-> call[t].event]
      places == Places(call[t].lists, call[t].key)
      filled == IF places = {} THEN Append(cache, entry)
                ELSE [i \in DOMAIN cache |-> IF i \in places THEN entry ELSE cache[i]]
      excess == IF Len(filled) > MAX_ENTRIES THEN Len(filled) - MAX_ENTRIES ELSE 0
  IN /\ call[t].pc = "insert"
     /\ cache' = SubSeq(filled, excess + 1, Len(filled))
     /\ call' = [call EXCEPT ![t].pc = "launch"]
     /\ Collect(mem, queue, cache', call')
     /\ UNCHANGED <<version, calls, recorded, content>>

SlipUnrecorded(t) == mem
(* record_stream() of the launch. *)
Used(t) == [mem EXCEPT ![call[t].block].uses = @ \cup {call[t].stream}]

Kernel(t, last) == Read(call[t].block, mem[call[t].block].by, call[t].lists, call[t].key, last)

(* The forward kernel.  Its call holds the lists until the backward one if *)
(* gradients are wanted.                                                   *)
Forward(t, training) ==
  LET last == version[call[t].lists]
      ran == [queue EXCEPT ![call[t].stream] = Append(@, Kernel(t, last))]
  IN /\ call[t].pc = "launch"
     /\ call' = [call EXCEPT ![t] =
          IF training
          THEN [pc |-> "held", lists |-> @.lists, stream |-> @.stream, key |-> @.key, by |-> @.by,
                block |-> @.block, versions |-> last]
          ELSE Idle]
     /\ Collect(Used(t), ran, cache, call')
     /\ UNCHANGED <<version, cache, calls, recorded, content>>

(* The backward kernel, on the same stream; refused if a list changed      *)
(* since the forward call; or the graph is dropped.                        *)
Backward(t) ==
  LET ran == [queue EXCEPT ![call[t].stream] = Append(@, Kernel(t, call[t].versions))]
  IN /\ call[t].pc = "held"
     /\ call' = [call EXCEPT ![t] = Idle]
     /\ \/ call[t].versions = version[call[t].lists] /\ Collect(Used(t), ran, cache, call')
        \/ Collect(mem, queue, cache, call')
     /\ UNCHANGED <<version, cache, calls, recorded, content>>

-----------------------------------------------------------------------------
(* The NPU runs the next operation of a stream. *)
Run(s) ==
  LET op == Head(queue[s])
  IN /\ queue[s] # << >>
     /\ op.op = "wait" => op.event \in recorded
     /\ queue' = [queue EXCEPT ![s] = Tail(@)]
     /\ recorded' = IF op.op = "record" THEN recorded \cup {op.event} ELSE recorded
     /\ content' = IF op.op = "write" THEN [content EXCEPT ![op.block] = <<op.lists, op.version>>]
                   ELSE content
     /\ mem' = IF op.op # "release" THEN mem
               ELSE [b \in Blocks |->
                       IF b \notin op.blocks THEN mem[b]
                       ELSE IF mem[b].uses = {s} THEN NoBlock ELSE [mem[b] EXCEPT !.uses = @ \ {s}]]
     /\ UNCHANGED <<version, cache, call, calls>>

Rest ==
  /\ calls = MAX_CALLS /\ \A t \in Threads : call[t].pc = "idle"
  /\ \A s \in Streams : queue[s] = << >>
  /\ UNCHANGED vars

Next ==
  \/ \E m \in Lists : Change(m)
  \/ \E t \in Threads :
       \/ Call(t) \/ WaitEvent(t) \/ Save(t) \/ Insert(t) \/ Backward(t)
       \/ \E i \in DOMAIN cache : Hit(t, i)
       \/ \E b \in Blocks : Canonical(t, b)
       \/ \E training \in BOOLEAN : Forward(t, training)
  \/ \E s \in Streams : Run(s)
  \/ Rest

-----------------------------------------------------------------------------
(* A kernel that is about to run, or running, reads lists that its call    *)
(* was given: normalised from the user's list at a version it had while    *)
(* the call was made, completely written, whoever computed them, on        *)
(* whatever stream and in whatever order the host went about it.           *)
ReadsItsLists ==
  \A s \in Streams :
    queue[s] # << >> /\ Head(queue[s]).op = "read" =>
      LET r == Head(queue[s])
      IN \E v \in r.first .. r.last : content[r.block] = <<r.lists, v>>

(* Memory is not given away under a kernel: a block that a kernel of       *)
(* another stream has still to read belongs to the lists it was launched   *)
(* with, though the host forgot them long ago.                             *)
NotRecycled ==
  \A s \in Streams : \A i \in DOMAIN queue[s] :
    LET r == queue[s][i]
    IN r.op = "read" /\ Owner[r.block] # s => mem[r.block].state # "free" /\ mem[r.block].by = r.by
=============================================================================
