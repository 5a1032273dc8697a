------------------------------- MODULE PagedKv -------------------------------
(***************************************************************************)
(* Where the keys and values of a stack come from when the cache is paged, *)
(* and where new ones go (qk_matmul.hpp and pv_matmul.hpp, as runMainLoop  *)
(* calls them).                                                            *)
(*                                                                         *)
(* A page holds blockSize rows of a sequence; pages and stacks need not    *)
(* line up.  The QK operation loads a stack in chunks of l1NDynamic rows   *)
(* and each chunk in pieces that end where a page ends.  It keeps a cursor *)
(* into the page, blockStartOffset, from stack to stack, and sets it anew  *)
(* with a task.  The PV operation, two stacks behind, has a cursor of its  *)
(* own and sets it anew with each stack.  The stacks of new keys are       *)
(* dense, and are written to the pages of the cache.                       *)
(*                                                                         *)
(* A place is <<entry of the block table, row of the page>>.  One piece is *)
(* one step; how QK, PV and the vector engines overlap is FwdPipeline's.   *)
(* The definitions named Slip... are slips used to check the properties.   *)
(***************************************************************************)
EXTENDS Integers, Sequences, FiniteSets

CONSTANTS
  MAX_KV_STACK_LEN,  \* rows of a stack (512)
  l1NDynamic,        \* rows of a chunk
  PRE_LAUNCH,        \* how many stacks PV is behind (2)
  Runs               \* what to run

VARIABLES
  run,       \* blockSize, and tasks: [kvStart, len (rows of the cache), new (rows)]
  todo,      \* the stacks QK has not begun, in order
  issued,    \* the stacks PV has not begun, in order
  qk, pv,    \* the operation in progress, or Idle
  blockStartOffset,  \* of QK, of PV
  loaded, stored     \* the rows of K, of V: {[task, row, place]}
vars == <<run, todo, issued, qk, pv, blockStartOffset, loaded, stored>>

CeilDiv(a, b) == (a + b - 1) \div b
AtMost(a, b) == IF a < b THEN a ELSE b
blockSize == run.blockSize
Idle == [stack |-> << >>]

(* What a launch can be: pages have rows, and a task begins at a stack.    *)
RunsAssumption ==
  \A r \in Runs : /\ r.blockSize \in Nat \ {0}
                  /\ r.tasks \in Seq([kvStart : Nat, len : Nat, new : Nat])

(* The stacks of task t: from kvStart through the cache, then the new ones.*)
Stacks(t) ==
  LET task == run.tasks[t]
      old == CeilDiv(task.len, MAX_KV_STACK_LEN)
      Stack(i, n, append) ==
        [task |-> t, nIdx |-> i, append |-> append, first |-> i = task.kvStart /\ ~append,
         tile |-> AtMost(MAX_KV_STACK_LEN, n - i * MAX_KV_STACK_LEN)]
  IN [k \in 1 .. old - task.kvStart |-> Stack(task.kvStart + k - 1, task.len, FALSE)]
     \o [k \in 1 .. CeilDiv(task.new, MAX_KV_STACK_LEN) |-> Stack(k - 1, task.new, TRUE)]

Init ==
  /\ run \in Runs
  /\ todo = LET all[t \in 0 .. Len(run.tasks)] == IF t = 0 THEN << >> ELSE all[t - 1] \o Stacks(t)
            IN all[Len(run.tasks)]
  /\ issued = << >> /\ qk = Idle /\ pv = Idle
  /\ blockStartOffset = [qk |-> 0, pv |-> 0]
  /\ loaded = [k |-> {}, v |-> {}] /\ stored = [k |-> {}, v |-> {}]

(* setBlockParam: the last row of the last page that the stack uses, and   *)
(* how many pages it uses, from the cursor.                                *)
blockEnd(tile, offset) ==
  LET blockStart == blockSize - offset
      left == (tile - blockStart) % blockSize
  IN IF tile < blockStart THEN tile + offset ELSE IF left = 0 THEN blockSize ELSE left
curBlockTotalNum(tile, offset) ==
  LET blockStart == blockSize - offset
  IN IF tile < blockStart THEN 1 ELSE CeilDiv(tile - blockStart, blockSize) + 1

SlipResetBlockStart(s, offset) == IF s.append THEN (s.nIdx * MAX_KV_STACK_LEN) % blockSize ELSE offset
(* The cursor of QK at the beginning of stack s. *)
resetBlockStart(s, offset) == IF s.first THEN (s.nIdx * MAX_KV_STACK_LEN) % blockSize ELSE offset

(* An operation at its first piece: rows done, pages done.                 *)
Begin(s, offset) ==
  [stack |-> <<s>>, done |-> 0, curBlockIdx |-> 0,
   blockEnd |-> blockEnd(s.tile, offset), curBlockTotalNum |-> curBlockTotalNum(s.tile, offset)]

BeginQK ==
  /\ qk = Idle /\ pv = Idle /\ todo # << >> /\ Len(issued) <= PRE_LAUNCH
  /\ LET s == Head(todo)
         offset == resetBlockStart(s, blockStartOffset.qk)
     IN qk' = Begin(s, offset) /\ blockStartOffset' = [blockStartOffset EXCEPT !.qk = offset]
  /\ todo' = Tail(todo)
  /\ UNCHANGED <<run, issued, pv, loaded, stored>>

(* Rows of stack s from piece position at on, read at rows of a page.      *)
Rows(s, at, n, page, row) ==
  {[task |-> s.task, row |-> s.nIdx * MAX_KV_STACK_LEN + at + i, place |-> <<page, row + i>>] :
     i \in 0 .. n - 1}
page(op) == ((op.stack[1].nIdx * MAX_KV_STACK_LEN) \div blockSize) + op.curBlockIdx

(* One piece of a chunk of keys. *)
LoadK ==
  /\ qk # Idle /\ ~qk.stack[1].append
  /\ LET s == qk.stack[1]
         offset == blockStartOffset.qk
         chunkEnd == AtMost(s.tile, (qk.done \div l1NDynamic + 1) * l1NDynamic)
         curBlockSize == IF qk.curBlockIdx < qk.curBlockTotalNum - 1 THEN blockSize ELSE qk.blockEnd
         nowLen == AtMost(curBlockSize - offset, chunkEnd - qk.done)
         full == offset + nowLen = blockSize
     IN /\ loaded' = [loaded EXCEPT !.k = @ \cup Rows(s, qk.done, nowLen, page(qk), offset)]
        /\ blockStartOffset' = [blockStartOffset EXCEPT !.qk = IF full THEN 0 ELSE offset + nowLen]
        /\ IF qk.done + nowLen = s.tile
           THEN qk' = Idle /\ issued' = Append(issued, s)
           ELSE /\ qk' = [qk EXCEPT !.done = @ + nowLen, !.curBlockIdx = IF full THEN @ + 1 ELSE @]
                /\ UNCHANGED issued
  /\ UNCHANGED <<run, todo, pv, stored>>

(* PV of the stack that is PRE_LAUNCH behind; at the end of the others.    *)
PVStart(s) == (s.nIdx * MAX_KV_STACK_LEN) % blockSize
BeginPV ==
  /\ qk = Idle /\ pv = Idle /\ issued # << >> /\ (Len(issued) > PRE_LAUNCH \/ todo = << >>)
  /\ LET s == Head(issued)
     IN pv' = Begin(s, PVStart(s)) /\ blockStartOffset' = [blockStartOffset EXCEPT !.pv = PVStart(s)]
  /\ issued' = Tail(issued)
  /\ UNCHANGED <<run, todo, qk, loaded, stored>>

LoadV ==
  /\ pv # Idle /\ ~pv.stack[1].append
  /\ LET s == pv.stack[1]
         offset == blockStartOffset.pv
         last == pv.curBlockIdx = pv.curBlockTotalNum - 1
         nowLen == (IF last THEN pv.blockEnd ELSE blockSize) - offset
     IN /\ loaded' = [loaded EXCEPT !.v = @ \cup Rows(s, pv.done, nowLen, page(pv), offset)]
        /\ blockStartOffset' = [blockStartOffset EXCEPT
                                  !.pv = IF offset + nowLen = blockSize THEN 0 ELSE offset + nowLen]
        /\ pv' = IF last THEN Idle
                 ELSE [pv EXCEPT !.done = @ + nowLen, !.curBlockIdx = @ + 1]
  /\ UNCHANGED <<run, todo, issued, qk, stored>>

(* New rows, from at on and at most to end: dense in the source, a piece   *)
(* at a time to the pages; appendCacheRowBase is where the stack goes.     *)
SlipCacheRowBase(s) == run.tasks[s.task].len
appendCacheRowBase(s) == run.tasks[s.task].len + s.nIdx * MAX_KV_STACK_LEN
Piece(s, at, end) ==
  LET segRow == appendCacheRowBase(s) + at
      pageOff == segRow % blockSize
      segLen == AtMost(end - at, blockSize - pageOff)
  IN [len |-> segLen, rows |-> Rows(s, at, segLen, segRow \div blockSize, pageOff)]

(* One piece of a chunk of new keys, of a stack of new values. *)
StoreK ==
  /\ qk # Idle /\ qk.stack[1].append
  /\ LET s == qk.stack[1]
         p == Piece(s, qk.done, AtMost(s.tile, (qk.done \div l1NDynamic + 1) * l1NDynamic))
     IN /\ stored' = [stored EXCEPT !.k = @ \cup p.rows]
        /\ IF qk.done + p.len = s.tile
           THEN qk' = Idle /\ issued' = Append(issued, s)
           ELSE qk' = [qk EXCEPT !.done = @ + p.len] /\ UNCHANGED issued
  /\ UNCHANGED <<run, todo, pv, blockStartOffset, loaded>>

StoreV ==
  /\ pv # Idle /\ pv.stack[1].append
  /\ LET s == pv.stack[1]
         p == Piece(s, pv.done, s.tile)
     IN /\ stored' = [stored EXCEPT !.v = @ \cup p.rows]
        /\ pv' = IF pv.done + p.len = s.tile THEN Idle ELSE [pv EXCEPT !.done = @ + p.len]
  /\ UNCHANGED <<run, todo, issued, qk, blockStartOffset, loaded>>

AllDone == todo = << >> /\ issued = << >> /\ qk = Idle /\ pv = Idle
Terminated == AllDone /\ UNCHANGED vars

Next == BeginQK \/ LoadK \/ StoreK \/ BeginPV \/ LoadV \/ StoreV \/ Terminated
Spec == Init /\ [][Next]_vars

-----------------------------------------------------------------------------
Place(r) == <<r \div blockSize, r % blockSize>>
(* What task t is to load: the rows from kvStart on, from where they are.  *)
Wanted == UNION {{[task |-> t, row |-> r, place |-> Place(r)] :
                    r \in run.tasks[t].kvStart * MAX_KV_STACK_LEN .. run.tasks[t].len - 1} :
                 t \in DOMAIN run.tasks}
(* Where the new rows of task t go: behind the old ones.                   *)
Appended == UNION {{[task |-> t, row |-> r, place |-> Place(run.tasks[t].len + r)] :
                      r \in 0 .. run.tasks[t].new - 1} : t \in DOMAIN run.tasks}

(* QK and PV read every row of their stacks from the row's place, wherever *)
(* stacks, chunks and pages end: the cursor QK carries along never goes    *)
(* astray, nothing of a task's cursor is left for the next, and PV has its *)
(* own although QK has gone on to later stacks, of other tasks even.       *)
InPlace(rows) == rows \subseteq Wanted /\ (AllDone => rows = Wanted)
RowsOfPages == InPlace(loaded.k) /\ InPlace(loaded.v)

(* Every new key and value is stored where a later launch looks for it.    *)
NewRowsInPlace ==
  /\ stored.k \cup stored.v \subseteq Appended
  /\ AllDone => stored.k = Appended /\ stored.v = Appended
=============================================================================
