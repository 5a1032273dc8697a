----------------------------- MODULE TilesProofs -----------------------------
(***************************************************************************)
(* What happens to a tile, proved for every launch: the keys and values of *)
(* paged tasks come from their rows, and new ones go to theirs; every      *)
(* query row is computed from exactly the keys it sees, and is written to  *)
(* its place.                                                              *)
(***************************************************************************)
EXTENDS WalkProofs

-----------------------------------------------------------------------------
(* A cursor in pages: where it is after a piece.                           *)

(* A piece of a stack of len rows from offset first of its first page on, *)
(* done of them behind: it ends within page idx and within the stack, and  *)
(* only the last page ends before its end.                                 *)
PieceAt(B, len, first, done, idx, offset, end, last) ==
  /\ B \in Nat \ {0} /\ len \in Nat \ {0} /\ first \in 0 .. B - 1 /\ offset \in 0 .. B - 1
  /\ done \in Nat /\ done < len /\ idx \in Nat /\ first + done = idx * B + offset
  /\ end \in Int /\ end = ((first + len - 1) % B) + 1
  /\ last \in Int /\ last = (first + len - 1) \div B
LEMMA PieceFits ==
  ASSUME NEW B, NEW len, NEW first, NEW done, NEW idx, NEW offset, NEW end, NEW last,
         PieceAt(B, len, first, done, idx, offset, end, last)
  PROVE  /\ idx <= last
         /\ idx < last => done + (B - offset) < len
         /\ idx = last => end - offset = len - done /\ end > offset /\ end <= B
<1> USE DEF PieceAt
<1>1. PICK x \in Int : x = first + len - 1
  OBVIOUS
<1>2. last * B \in Int /\ x = last * B + (end - 1) /\ end - 1 \in 0 .. B - 1
  <2>1. PICK d \in Int, m \in 0 .. B - 1, u \in Int : x \div B = d /\ x % B = m /\ u = d * B /\ x = u + m
    BY DivPick
  <2>2. last = d /\ end = m + 1
    BY <1>1, <2>1
  <2>3. QED
    BY <2>1, <2>2
<1>3. idx * B \in Int /\ (idx + 1) * B = idx * B + B /\ (last + 1) * B = last * B + B
  BY NextTimes
<1>4. idx <= last
  <2>1. idx * B < (last + 1) * B
    BY <1>1, <1>2, <1>3
  <2>2. idx < last + 1
    BY <2>1, TimesLess
  <2>3. QED
    BY <2>2
<1>5. ASSUME idx < last
      PROVE  done + (B - offset) < len
  <2>1. (idx + 1) * B <= last * B
    BY <1>5, TimesGrows
  <2>2. QED
    BY <1>1, <1>2, <1>3, <2>1
<1>6. ASSUME idx = last
      PROVE  end - offset = len - done /\ end > offset /\ end <= B
  <2>1. PICK u \in Int : u = idx * B /\ u = last * B
    BY <1>3, <1>6
  <2>2. first + done = u + offset /\ x = u + (end - 1) /\ end - 1 \in 0 .. B - 1
    BY <1>2, <2>1
  <2> HIDE <2>1
  <2>3. QED
    BY <1>1, <2>2
<1>7. QED
  BY <1>4, <1>5, <1>6

(* A chunk goes on behind what is done of it. *)
LEMMA ChunkGoesOn ==
  ASSUME NEW done \in Nat, NEW c \in Nat \ {0}
  PROVE  ((done \div c) + 1) * c \in Int /\ ((done \div c) + 1) * c > done
<1>1. PICK d \in Int : d = done \div c /\ d * c \in Int /\ done = d * c + (done % c)
  BY DivIs
<1>2. done % c < c /\ done % c \in Int
  BY DivIs
<1>3. (d + 1) * c = d * c + c
  BY NextTimes
<1>4. QED
  BY <1>1, <1>2, <1>3

(* Row row of a page and page p are the row's place.                       *)
PlacedAt(r, p, row) == row \in 0 .. P!blockSize - 1 /\ r = p * P!blockSize + row

LEMMA PlaceIs ==
  ASSUME P!blockSize \in Nat \ {0}, NEW r \in Int, NEW p \in Int, NEW row, PlacedAt(r, p, row)
  PROVE  P!Place(r) = <<p, row>>
<1>1. PICK B \in Nat \ {0} : B = P!blockSize
  OBVIOUS
<1>2. row \in 0 .. B - 1 /\ r = p * B + row
  BY <1>1 DEF PlacedAt
<1>3. r \div B = p /\ r % B = row
  BY <1>2, DivUnique
<1>4. QED
  BY <1>1, <1>3 DEF P!Place

(* The parameters of a stack, from offset on: its pages less one, and the  *)
(* last row of the last.                                                   *)
LEMMA BlockParams ==
  ASSUME NEW B \in Nat \ {0}, B = P!blockSize, NEW len \in Nat \ {0}, NEW offset \in 0 .. B - 1
  PROVE  /\ P!blockEnd(len, offset) = ((offset + len - 1) % B) + 1
         /\ P!curBlockTotalNum(len, offset) = ((offset + len - 1) \div B) + 1
<1>1. PICK x \in Int : x = len - (B - offset)
  OBVIOUS
<1>2. PICK d \in Int, m \in 0 .. B - 1, u \in Int : x \div B = d /\ x % B = m /\ u = d * B /\ x = u + m
  BY DivPick
<1>3. PICK y \in Int : y = offset + len - 1
  OBVIOUS
<1>4. P!blockEnd(len, offset) = IF len < B - offset THEN len + offset ELSE IF m = 0 THEN B ELSE m
  BY <1>1, <1>2 DEF P!blockEnd
<1>5. P!curBlockTotalNum(len, offset)
        = IF len < B - offset THEN 1 ELSE (y \div B) + 1
  <2>1. (len - (B - offset)) + B - 1 = y
    BY <1>3
  <2>2. QED
    BY <2>1 DEF P!curBlockTotalNum, P!CeilDiv
<1>6. CASE len < B - offset
  <2>1. y \in 0 .. B - 1 /\ y = 0 * B + y
    BY <1>3, <1>6
  <2>2. y \div B = 0 /\ y % B = y
    BY <2>1, DivUnique
  <2>3. QED
    BY <1>3, <1>4, <1>5, <1>6, <2>2
<1>7. CASE len >= B - offset /\ m # 0
  <2>1. PICK w \in Int : w = (d + 1) * B /\ w = u + B
    BY <1>2, NextTimes
  <2>2. y = w + (m - 1) /\ m - 1 \in 0 .. B - 1 /\ d + 1 \in Int
    <3>1. x = u + m /\ w = u + B
      BY <1>2, <2>1
    <3> HIDE <1>2, <2>1
    <3>2. QED
      BY <1>1, <1>3, <1>7, <3>1
  <2>3. y % B = m - 1
    BY <2>1, <2>2, DivUnique, ZenonT(30)
  <2>4. QED
    BY <1>3, <1>4, <1>5, <1>7, <2>3
<1>8. CASE len >= B - offset /\ m = 0
  <2>1. y = u + (B - 1) /\ B - 1 \in 0 .. B - 1
    <3>1. x = u + m
      BY <1>2
    <3>2. QED
      BY <1>1, <1>3, <1>8, <3>1
  <2>2. y = d * B + (B - 1)
    BY <1>2, <2>1
  <2>3. y % B = B - 1
    BY <2>1, <2>2, DivUnique, SMTT(30)
  <2>4. QED
    BY <1>3, <1>4, <1>5, <1>8, <2>3
<1>9. QED
  BY <1>3, <1>6, <1>7, <1>8

-----------------------------------------------------------------------------
(* Paged tasks: the invariant.                                             *)

FirstRow(s) == s.nIdx * MAX_KV_STACK_LEN
Tasks == DOMAIN run.tasks
Old(t) == run.tasks[t].kvStart * MAX_KV_STACK_LEN .. run.tasks[t].len - 1
New(t) == 0 .. run.tasks[t].new - 1

(* Stacks that hold rows of their task and no other. *)
KvStack == [task : Nat, nIdx : Nat, append : BOOLEAN, first : BOOLEAN, tile : Nat \ {0}]
OfTask(s) ==
  /\ s.task \in Tasks
  /\ s.append => FirstRow(s) + s.tile <= run.tasks[s.task].new
  /\ ~s.append => /\ FirstRow(s) + s.tile <= run.tasks[s.task].len
                  /\ run.tasks[s.task].kvStart <= s.nIdx
KvStacks == {s \in KvStack : OfTask(s)}
Operations == {op \in [stack : Seq(KvStacks), done : Nat, curBlockIdx : Nat, blockEnd : Int,
                       curBlockTotalNum : Int] : Len(op.stack) = 1 /\ op.done < op.stack[1].tile}

(* The numbers of a launch, and where rows have come from and gone to.     *)
PagesType ==
  /\ run \in Runs
  /\ todo \in Seq(KvStacks) /\ issued \in Seq(KvStacks)
  /\ qk \in Operations \cup {P!Idle} /\ pv \in Operations \cup {P!Idle}
  /\ blockStartOffset \in [qk : 0 .. P!blockSize - 1, pv : 0 .. P!blockSize - 1]
  /\ loaded \in [k : SUBSET P!Wanted, v : SUBSET P!Wanted]
  /\ stored \in [k : SUBSET P!Appended, v : SUBSET P!Appended]

(* The cursor of an operation: the row it is at of the pages, from the     *)
(* first of its stack on, and the end of the last of them.                 *)
Cursor(op, offset) ==
  LET s == op.stack[1]
      first == P!PVStart(s)
  IN /\ first + op.done = op.curBlockIdx * P!blockSize + offset
     /\ op.blockEnd = ((first + s.tile - 1) % P!blockSize) + 1
     /\ op.curBlockTotalNum = ((first + s.tile - 1) \div P!blockSize) + 1
CursorInv ==
  /\ qk # P!Idle /\ ~qk.stack[1].append => Cursor(qk, blockStartOffset.qk)
  /\ pv # P!Idle /\ ~pv.stack[1].append => Cursor(pv, blockStartOffset.pv)

(* Stack u needs nothing of the cursor, or goes on behind s: and so does   *)
(* the next stack behind the one in progress, or behind the cursor.        *)
Fresh(u) == u.append \/ u.first
Follows(s, u) == Fresh(u) \/ (~s.append /\ FirstRow(u) = FirstRow(s) + s.tile)
Resumes(u) == Fresh(u) \/ blockStartOffset.qk = P!PVStart(u)
InOrder(list) == \A i \in 1 .. Len(list) - 1 : Follows(list[i], list[i + 1])
OrderInv ==
  /\ InOrder(todo)
  /\ todo # << >> => /\ qk = P!Idle => Resumes(todo[1])
                     /\ qk # P!Idle => Follows(qk.stack[1], todo[1])

(* Row r of task t is of stack s, of one in a list, of what an operation   *)
(* still has to do.                                                        *)
Covers(s, append, t, r) ==
  s.append = append /\ s.task = t /\ r \in FirstRow(s) .. FirstRow(s) + s.tile - 1
Waits(list, append, t, r) == \E i \in 1 .. Len(list) : Covers(list[i], append, t, r)
Left(op, append, t, r) ==
  op # P!Idle /\ Covers(op.stack[1], append, t, r) /\ r >= FirstRow(op.stack[1]) + op.done
Whole(op, append, t, r) == op # P!Idle /\ Covers(op.stack[1], append, t, r)

(* No row is forgotten: it is where it belongs or still to come.           *)
ComesK(append, t, r) == Waits(todo, append, t, r) \/ Left(qk, append, t, r)
ComesV(append, t, r) ==
  \/ Waits(todo, append, t, r) \/ Whole(qk, append, t, r)
  \/ Waits(issued, append, t, r) \/ Left(pv, append, t, r)
OldRow(t, r) == [task |-> t, row |-> r, place |-> P!Place(r)]
NewRow(t, r) == [task |-> t, row |-> r, place |-> P!Place(run.tasks[t].len + r)]
RowsInv ==
  /\ \A t \in Tasks : \A r \in Old(t) : /\ ComesK(FALSE, t, r) \/ OldRow(t, r) \in loaded.k
                                        /\ ComesV(FALSE, t, r) \/ OldRow(t, r) \in loaded.v
  /\ \A t \in Tasks : \A r \in New(t) : /\ ComesK(TRUE, t, r) \/ NewRow(t, r) \in stored.k
                                        /\ ComesV(TRUE, t, r) \/ NewRow(t, r) \in stored.v

PagesInv == PagesType /\ CursorInv /\ OrderInv /\ RowsInv

-----------------------------------------------------------------------------
(* Paged tasks: what a step leaves alone.                                  *)

LEMMA PagesBasics ==
  ASSUME run \in Runs
  PROVE  /\ P!blockSize \in Nat \ {0} /\ MAX_KV_STACK_LEN \in Nat \ {0} /\ l1NDynamic \in Nat \ {0}
         /\ \A t \in Tasks : /\ run.tasks[t] \in [kvStart : Nat, len : Nat, new : Nat]
                             /\ run.tasks[t].kvStart \in Nat /\ run.tasks[t].len \in Nat
                             /\ run.tasks[t].new \in Nat /\ t \in Nat
<1>1. run.blockSize \in Nat \ {0} /\ run.tasks \in Seq([kvStart : Nat, len : Nat, new : Nat])
  BY TilesAssumption DEF P!RunsAssumption
<1>2. \A t \in Tasks : t \in Nat /\ run.tasks[t] \in [kvStart : Nat, len : Nat, new : Nat]
  <2> DEFINE TaskType == [kvStart : Nat, len : Nat, new : Nat]
  <2>1. run.tasks \in Seq(TaskType)
    BY <1>1
  <2> HIDE DEF TaskType
  <2>2. DOMAIN run.tasks = 1 .. Len(run.tasks) /\ Len(run.tasks) \in Nat
    BY <2>1
  <2>3. \A t \in DOMAIN run.tasks : t \in Nat /\ run.tasks[t] \in TaskType
    BY <2>1, <2>2
  <2>4. QED
    BY <2>3 DEF Tasks, TaskType
<1>3. QED
  BY <1>1, <1>2, TilesAssumption DEF P!blockSize

LEMMA FirstRowType ==
  ASSUME run \in Runs, NEW s \in KvStack
  PROVE  FirstRow(s) \in Nat
BY PagesBasics DEF FirstRow, KvStack

(* What depends on the launch alone does not change. *)
LEMMA PagesSame ==
  ASSUME run' = run
  PROVE  /\ P!blockSize' = P!blockSize /\ Tasks' = Tasks /\ KvStacks' = KvStacks
         /\ P!Wanted' = P!Wanted /\ P!Appended' = P!Appended
         /\ \A s : (P!PVStart(s))' = P!PVStart(s)
         /\ \A t, r : OldRow(t, r)' = OldRow(t, r) /\ NewRow(t, r)' = NewRow(t, r)
         /\ \A t : Old(t)' = Old(t) /\ New(t)' = New(t)
<1>1. P!blockSize' = P!blockSize /\ Tasks' = Tasks
  BY DEF P!blockSize, Tasks
<1>2. \A t : Old(t)' = Old(t) /\ New(t)' = New(t)
  BY DEF Old, New
<1>3. \A r : P!Place(r)' = P!Place(r)
  BY <1>1 DEF P!Place
<1>4. \A t, r : OldRow(t, r)' = OldRow(t, r) /\ NewRow(t, r)' = NewRow(t, r)
  BY <1>3 DEF OldRow, NewRow
<1>5. P!Wanted' = P!Wanted /\ P!Appended' = P!Appended
  BY <1>1 DEF P!Wanted, P!Appended, P!Place
<1>6. KvStacks' = KvStacks
  BY <1>1 DEF KvStacks, OfTask, Tasks
<1>7. \A s : (P!PVStart(s))' = P!PVStart(s)
  BY <1>1 DEF P!PVStart
<1>8. QED
  BY <1>1, <1>2, <1>4, <1>5, <1>6, <1>7

(* The rows that tasks want, and those they append.                        *)
LEMMA WantedIs ==
  /\ \A t \in Tasks : \A r \in Old(t) : OldRow(t, r) \in P!Wanted
  /\ \A w \in P!Wanted : \E t \in Tasks : \E r \in Old(t) : w = OldRow(t, r)
BY DEF P!Wanted, Tasks, Old, OldRow

LEMMA AppendedIs ==
  /\ \A t \in Tasks : \A r \in New(t) : NewRow(t, r) \in P!Appended
  /\ \A w \in P!Appended : \E t \in Tasks : \E r \in New(t) : w = NewRow(t, r)
BY DEF P!Appended, Tasks, New, NewRow

(* At the end, with every row in place.                                    *)
LEMMA PagesInvImplies ==
  ASSUME PagesInv
  PROVE  P!RowsOfPages /\ P!NewRowsInPlace
<1>1. loaded.k \subseteq P!Wanted /\ loaded.v \subseteq P!Wanted
      /\ stored.k \subseteq P!Appended /\ stored.v \subseteq P!Appended
  BY DEF PagesInv, PagesType
<1>2. ASSUME P!AllDone
      PROVE  /\ P!Wanted \subseteq loaded.k /\ P!Wanted \subseteq loaded.v
             /\ P!Appended \subseteq stored.k /\ P!Appended \subseteq stored.v
  <2>1. todo = << >> /\ issued = << >> /\ qk = P!Idle /\ pv = P!Idle
    BY <1>2 DEF P!AllDone
  <2>2. ASSUME NEW append, NEW t, NEW r
        PROVE  ~ComesK(append, t, r) /\ ~ComesV(append, t, r)
    BY <2>1 DEF ComesK, ComesV, Waits, Left, Whole
  <2>3. /\ \A t \in Tasks : \A r \in Old(t) : OldRow(t, r) \in loaded.k /\ OldRow(t, r) \in loaded.v
        /\ \A t \in Tasks : \A r \in New(t) : NewRow(t, r) \in stored.k /\ NewRow(t, r) \in stored.v
    BY <2>2 DEF PagesInv, RowsInv
  <2>4. QED
    BY <2>3, WantedIs, AppendedIs
<1>3. QED
  BY <1>1, <1>2 DEF P!RowsOfPages, P!NewRowsInPlace, P!InPlace

-----------------------------------------------------------------------------
(* Paged tasks: the lists of stacks.                                       *)

(* The first of a list, and the rest. *)
LEMMA ListRest ==
  ASSUME NEW list \in Seq(KvStacks), list # << >>
  PROVE  /\ Head(list) = list[1] /\ list[1] \in KvStacks /\ Tail(list) \in Seq(KvStacks)
         /\ \A append, t, r : Waits(list, append, t, r)
              => Covers(list[1], append, t, r) \/ Waits(Tail(list), append, t, r)
<1>1. /\ Head(list) = list[1] /\ list[1] \in KvStacks
      /\ Tail(list) \in Seq(KvStacks) /\ Len(Tail(list)) = Len(list) - 1 /\ Len(list) \in Nat \ {0}
      /\ \A i \in 1 .. Len(list) - 1 : Tail(list)[i] = list[i + 1]
  OBVIOUS
<1>2. ASSUME NEW append, NEW t, NEW r, Waits(list, append, t, r)
      PROVE  Covers(list[1], append, t, r) \/ Waits(Tail(list), append, t, r)
  <2>1. PICK i \in 1 .. Len(list) : Covers(list[i], append, t, r)
    BY <1>2 DEF Waits
  <2>2. CASE i = 1
    BY <2>1, <2>2
  <2>3. CASE i # 1
    <3>1. i - 1 \in 1 .. Len(list) - 1 /\ (i - 1) + 1 = i
      BY <1>1, <2>3
    <3>2. Tail(list)[i - 1] = list[i] /\ i - 1 \in 1 .. Len(Tail(list))
      BY <1>1, <3>1
    <3>3. QED
      BY <2>1, <3>2 DEF Waits
  <2>4. QED
    BY <2>2, <2>3
<1>3. QED
  BY <1>1, <1>2

LEMMA ListTail ==
  ASSUME NEW list \in Seq(KvStacks), list # << >>, InOrder(list)
  PROVE  /\ Head(list) = list[1] /\ list[1] \in KvStacks
         /\ Tail(list) \in Seq(KvStacks) /\ InOrder(Tail(list))
         /\ Tail(list) # << >> => Follows(list[1], Tail(list)[1])
         /\ \A append, t, r : Waits(list, append, t, r)
              => Covers(list[1], append, t, r) \/ Waits(Tail(list), append, t, r)
<1>1. /\ Head(list) = list[1] /\ list[1] \in KvStacks
      /\ Tail(list) \in Seq(KvStacks) /\ Len(Tail(list)) = Len(list) - 1 /\ Len(list) \in Nat \ {0}
      /\ \A i \in 1 .. Len(list) - 1 : Tail(list)[i] = list[i + 1]
  OBVIOUS
<1>2. InOrder(Tail(list))
  <2>1. ASSUME NEW i \in 1 .. Len(Tail(list)) - 1
        PROVE  Follows(Tail(list)[i], Tail(list)[i + 1])
    <3>1. i + 1 \in 1 .. Len(list) - 1 /\ i \in 1 .. Len(list) - 1
      BY <1>1
    <3>2. Tail(list)[i] = list[i + 1] /\ Tail(list)[i + 1] = list[(i + 1) + 1]
      BY <1>1, <3>1
    <3>3. QED
      BY <3>1, <3>2 DEF InOrder
  <2>2. QED
    BY <2>1 DEF InOrder
<1>3. ASSUME Tail(list) # << >>
      PROVE  Follows(list[1], Tail(list)[1])
  <2>1. 1 \in 1 .. Len(list) - 1
    BY <1>1, <1>3
  <2>2. Tail(list)[1] = list[1 + 1]
    BY <1>1, <2>1
  <2>3. QED
    BY <2>1, <2>2 DEF InOrder
<1>4. QED
  BY <1>1, <1>2, <1>3, ListRest

LEMMA ListAppend ==
  ASSUME NEW list \in Seq(KvStacks), NEW s \in KvStacks
  PROVE  /\ Append(list, s) \in Seq(KvStacks)
         /\ \A append, t, r : Waits(list, append, t, r) \/ Covers(s, append, t, r)
              => Waits(Append(list, s), append, t, r)
<1>1. /\ Append(list, s) \in Seq(KvStacks) /\ Len(Append(list, s)) = Len(list) + 1 /\ Len(list) \in Nat
      /\ \A i \in 1 .. Len(list) : Append(list, s)[i] = list[i]
      /\ Append(list, s)[Len(list) + 1] = s
  OBVIOUS
<1>2. ASSUME NEW append, NEW t, NEW r, Waits(list, append, t, r)
      PROVE  Waits(Append(list, s), append, t, r)
  <2>1. PICK i \in 1 .. Len(list) : Covers(list[i], append, t, r)
    BY <1>2 DEF Waits
  <2>2. i \in 1 .. Len(Append(list, s)) /\ Append(list, s)[i] = list[i]
    BY <1>1
  <2>3. QED
    BY <2>1, <2>2 DEF Waits
<1>3. ASSUME NEW append, NEW t, NEW r, Covers(s, append, t, r)
      PROVE  Waits(Append(list, s), append, t, r)
  <2>1. Len(list) + 1 \in 1 .. Len(Append(list, s))
    BY <1>1
  <2>2. QED
    BY <1>1, <1>3, <2>1 DEF Waits
<1>4. QED
  BY <1>1, <1>2, <1>3

(* A list that begins with a stack that needs nothing of the cursor.       *)
GoodList(list) ==
  /\ list \in Seq(KvStacks) /\ InOrder(list)
  /\ list # << >> => Fresh(list[1])

LEMMA ListsJoin ==
  ASSUME NEW a, NEW b, GoodList(a), GoodList(b)
  PROVE  /\ GoodList(a \o b)
         /\ \A append, t, r : Waits(a, append, t, r) \/ Waits(b, append, t, r)
              => Waits(a \o b, append, t, r)
<1> DEFINE c == a \o b
<1>1. a \in Seq(KvStacks) /\ b \in Seq(KvStacks) /\ Len(a) \in Nat /\ Len(b) \in Nat
  BY DEF GoodList
<1>2. /\ c \in Seq(KvStacks) /\ Len(c) = Len(a) + Len(b)
      /\ \A i \in 1 .. Len(a) : c[i] = a[i]
      /\ \A i \in 1 .. Len(b) : c[Len(a) + i] = b[i]
  BY <1>1
<1>3. InOrder(c)
  <2>1. SUFFICES ASSUME NEW i \in 1 .. Len(c) - 1
                 PROVE  Follows(c[i], c[i + 1])
    BY DEF InOrder
  <2>2. CASE i < Len(a)
    <3> HIDE DEF c
    <3>1. i \in 1 .. Len(a) /\ i + 1 \in 1 .. Len(a) /\ i \in 1 .. Len(a) - 1
      BY <1>1, <1>2, <2>2
    <3>2. c[i] = a[i] /\ c[i + 1] = a[i + 1]
      BY <1>2, <3>1
    <3>3. QED
      BY <3>1, <3>2 DEF GoodList, InOrder
  <2>3. CASE i = Len(a)
    <3> HIDE DEF c
    <3>1. 1 \in 1 .. Len(b)
      BY <1>1, <1>2, <2>3
    <3>2. c[i + 1] = b[1] /\ b # << >>
      BY <1>2, <2>3, <3>1
    <3>3. QED
      BY <3>2 DEF GoodList, Follows
  <2>4. CASE i > Len(a)
    <3> HIDE DEF c
    <3>1. PICK k \in 1 .. Len(b) - 1 : i = Len(a) + k
      <4>1. i - Len(a) \in 1 .. Len(b) - 1 /\ i = Len(a) + (i - Len(a))
        BY <1>1, <1>2, <2>4
      <4>2. QED
        BY <4>1
    <3>2. k \in 1 .. Len(b) /\ k + 1 \in 1 .. Len(b) /\ i + 1 = Len(a) + (k + 1)
      BY <1>1, <3>1
    <3>3. c[i] = b[k] /\ c[i + 1] = b[k + 1]
      BY <1>2, <3>1, <3>2
    <3>4. QED
      BY <3>1, <3>3 DEF GoodList, InOrder
  <2>5. QED
    BY <1>1, <2>2, <2>3, <2>4
<1>4. ASSUME c # << >>
      PROVE  Fresh(c[1])
  <2>1. CASE a # << >>
    <3>1. 1 \in 1 .. Len(a)
      BY <1>1, <2>1
    <3>2. c[1] = a[1]
      BY <1>2, <3>1
    <3> HIDE DEF c
    <3>3. QED
      BY <2>1, <3>2 DEF GoodList
  <2>2. CASE a = << >>
    <3>1. Len(a) = 0
      BY <2>2
    <3> HIDE DEF c
    <3>2. 1 \in 1 .. Len(b) /\ b # << >>
      BY <1>1, <1>2, <1>4, <3>1
    <3>3. c[0 + 1] = b[1]
      BY <1>2, <3>1, <3>2
    <3>4. QED
      BY <3>2, <3>3 DEF GoodList
  <2>3. QED
    BY <2>1, <2>2
<1>5. ASSUME NEW append, NEW t, NEW r, Waits(a, append, t, r)
      PROVE  Waits(c, append, t, r)
  <2> HIDE DEF c
  <2>1. PICK i \in 1 .. Len(a) : Covers(a[i], append, t, r)
    BY <1>5 DEF Waits
  <2>2. i \in 1 .. Len(c) /\ c[i] = a[i]
    BY <1>1, <1>2
  <2>3. QED
    BY <2>1, <2>2 DEF Waits
<1>6. ASSUME NEW append, NEW t, NEW r, Waits(b, append, t, r)
      PROVE  Waits(c, append, t, r)
  <2> HIDE DEF c
  <2>1. PICK i \in 1 .. Len(b) : Covers(b[i], append, t, r)
    BY <1>6 DEF Waits
  <2>2. Len(a) + i \in 1 .. Len(c) /\ c[Len(a) + i] = b[i]
    BY <1>1, <1>2
  <2>3. QED
    BY <2>1, <2>2 DEF Waits
<1> HIDE DEF c
<1>7. GoodList(c)
  BY <1>2, <1>3, <1>4 DEF GoodList
<1>8. QED
  BY <1>5, <1>6, <1>7 DEF c

(* The stacks of a task.                                                   *)
StackOf(t, i, append) ==
  LET rows == IF append THEN run.tasks[t].new ELSE run.tasks[t].len
  IN [task |-> t, nIdx |-> i, append |-> append, first |-> i = run.tasks[t].kvStart /\ ~append,
      tile |-> P!AtMost(MAX_KV_STACK_LEN, rows - i * MAX_KV_STACK_LEN)]

LEMMA StackIs ==
  ASSUME run \in Runs, NEW t \in Tasks, NEW i \in Nat, NEW append \in BOOLEAN,
         NEW rows \in Nat, rows = (IF append THEN run.tasks[t].new ELSE run.tasks[t].len),
         i < P!CeilDiv(rows, MAX_KV_STACK_LEN), ~append => run.tasks[t].kvStart <= i,
         NEW s, s = StackOf(t, i, append)
  PROVE  /\ s \in KvStacks /\ s.task = t /\ s.append = append /\ s.nIdx = i
         /\ s.first = (i = run.tasks[t].kvStart /\ ~append)
         /\ FirstRow(s) = i * MAX_KV_STACK_LEN
         /\ FirstRow(s) + s.tile = P!AtMost(FirstRow(s) + MAX_KV_STACK_LEN, rows)
<1>1. MAX_KV_STACK_LEN \in Nat \ {0} /\ t \in Nat
  BY PagesBasics
<1>2. PICK first \in Nat : first = i * MAX_KV_STACK_LEN
  BY <1>1
<1>3. first < rows
  BY <1>1, <1>2, CeilIs
<1>4. PICK len \in Nat \ {0} : len = P!AtMost(MAX_KV_STACK_LEN, rows - first)
                               /\ first + len = P!AtMost(first + MAX_KV_STACK_LEN, rows)
                               /\ first + len <= rows
  <2>1. rows - first \in Nat \ {0}
    BY <1>3
  <2>2. QED
    BY <1>1, <2>1 DEF P!AtMost
<1>5. s = [task |-> t, nIdx |-> i, append |-> append, first |-> i = run.tasks[t].kvStart /\ ~append,
           tile |-> len]
  BY <1>2, <1>4 DEF StackOf
<1>6. /\ s.task = t /\ s.append = append /\ s.nIdx = i /\ s.tile = len
      /\ s.first = (i = run.tasks[t].kvStart /\ ~append)
  BY <1>5
<1>7. s \in KvStack
  BY <1>1, <1>5 DEF KvStack
<1>8. FirstRow(s) = first
  BY <1>2, <1>6 DEF FirstRow
<1>9. OfTask(s)
  BY <1>4, <1>6, <1>8 DEF OfTask
<1>10. QED
  BY <1>2, <1>4, <1>6, <1>7, <1>8, <1>9 DEF KvStacks

(* The row of a task is of the stack that its number says.                 *)
LEMMA StackCovers ==
  ASSUME run \in Runs, NEW t \in Tasks, NEW append \in BOOLEAN,
         NEW rows \in Nat, rows = (IF append THEN run.tasks[t].new ELSE run.tasks[t].len),
         NEW start \in Nat, start = (IF append THEN 0 ELSE run.tasks[t].kvStart),
         NEW r \in start * MAX_KV_STACK_LEN .. rows - 1
  PROVE  \E i \in Nat : /\ start <= i /\ i < P!CeilDiv(rows, MAX_KV_STACK_LEN)
                        /\ Covers(StackOf(t, i, append), append, t, r)
<1>1. MAX_KV_STACK_LEN \in Nat \ {0} /\ start * MAX_KV_STACK_LEN \in Nat
  BY PagesBasics
<1>2. r \in Int /\ r >= start * MAX_KV_STACK_LEN /\ r < rows
  BY <1>1
<1>3. PICK i \in Int, m \in 0 .. MAX_KV_STACK_LEN - 1, u \in Int :
        u = i * MAX_KV_STACK_LEN /\ r = u + m
  <2>1. \E d \in Int, m \in 0 .. MAX_KV_STACK_LEN - 1, u \in Int :
           r \div MAX_KV_STACK_LEN = d /\ r % MAX_KV_STACK_LEN = m /\ u = d * MAX_KV_STACK_LEN /\ r = u + m
    BY <1>1, <1>2, DivPick
  <2>2. QED
    BY <2>1
<1>4. start <= i
  <2>1. (i + 1) * MAX_KV_STACK_LEN = u + MAX_KV_STACK_LEN
    BY <1>1, <1>3, NextTimes
  <2>2. start * MAX_KV_STACK_LEN < (i + 1) * MAX_KV_STACK_LEN
    BY <1>1, <1>2, <1>3, <2>1
  <2>3. start < i + 1
    BY <1>1, <1>3, <2>2, TimesLess
  <2>4. QED
    BY <1>3, <2>3
<1>5. i \in Nat
  BY <1>3, <1>4
<1>6. i < P!CeilDiv(rows, MAX_KV_STACK_LEN)
  <2>1. i * MAX_KV_STACK_LEN < rows
    BY <1>2, <1>3
  <2>2. QED
    BY <1>1, <1>5, <2>1, CeilIs
<1>7. PICK s : s = StackOf(t, i, append)
  OBVIOUS
<1>8. /\ s.task = t /\ s.append = append /\ FirstRow(s) = u /\ s \in KvStacks
      /\ FirstRow(s) + s.tile = P!AtMost(u + MAX_KV_STACK_LEN, rows)
  BY <1>3, <1>4, <1>5, <1>6, <1>7, StackIs
<1>9. r \in FirstRow(s) .. FirstRow(s) + s.tile - 1
  <2>1. r >= u /\ r < u + MAX_KV_STACK_LEN /\ r < rows
    BY <1>1, <1>2, <1>3
  <2>2. P!AtMost(u + MAX_KV_STACK_LEN, rows) \in Int /\ r < P!AtMost(u + MAX_KV_STACK_LEN, rows)
    BY <1>1, <1>2, <1>3, <2>1 DEF P!AtMost
  <2>3. PICK e \in Int : e = FirstRow(s) + s.tile /\ r < e
    BY <1>8, <2>2
  <2>4. FirstRow(s) + s.tile - 1 = e - 1
    <3>1. s.tile \in Int /\ FirstRow(s) \in Int
      BY <1>3, <1>8 DEF KvStacks, KvStack
    <3>2. QED
      BY <2>3, <3>1
  <2>5. QED
    BY <1>2, <1>3, <1>8, <2>1, <2>3, <2>4
<1>10. QED
  BY <1>4, <1>5, <1>6, <1>7, <1>8, <1>9 DEF Covers

(* Its stacks, from the first to the last, and those of its new rows.      *)
OldStacks(t) ==
  [k \in 1 .. P!CeilDiv(run.tasks[t].len, MAX_KV_STACK_LEN) - run.tasks[t].kvStart |->
     StackOf(t, run.tasks[t].kvStart + k - 1, FALSE)]
NewStacks(t) ==
  [k \in 1 .. P!CeilDiv(run.tasks[t].new, MAX_KV_STACK_LEN) |-> StackOf(t, k - 1, TRUE)]

LEMMA StacksAre ==
  ASSUME NEW t
  PROVE  P!Stacks(t) = OldStacks(t) \o NewStacks(t)
BY DEF P!Stacks, OldStacks, NewStacks, StackOf

(* The place of number i in a list of those from start on, below n. *)
From(start, i, n) == {start, i, n} \subseteq Int /\ start <= i /\ i < n

LEMMA IndexFrom ==
  ASSUME NEW start, NEW n, NEW i, From(start, i, n)
  PROVE  \E k \in 1 .. n - start : i = start + k - 1
<1> USE DEF From
<1>1. PICK d \in Int : d = i - start
  OBVIOUS
<1>2. d + 1 \in 1 .. n - start /\ i = start + (d + 1) - 1
  BY <1>1
<1>3. QED
  BY <1>2

(* A list of stacks with consecutive numbers, from start on.               *)
ListFrom(t, append, rows, start, n, list) ==
  /\ t \in Tasks /\ append \in BOOLEAN /\ rows \in Nat /\ start \in Nat /\ n \in Int
  /\ rows = IF append THEN run.tasks[t].new ELSE run.tasks[t].len
  /\ start = IF append THEN 0 ELSE run.tasks[t].kvStart
  /\ n = P!CeilDiv(rows, MAX_KV_STACK_LEN)
  /\ list = [k \in 1 .. n - start |-> StackOf(t, start + k - 1, append)]

LEMMA StacksInOrder ==
  ASSUME run \in Runs, NEW t, NEW append, NEW rows, NEW start, NEW n, NEW list,
         ListFrom(t, append, rows, start, n, list)
  PROVE  /\ GoodList(list)
         /\ \A r \in start * MAX_KV_STACK_LEN .. rows - 1 : Waits(list, append, t, r)
<1> USE DEF ListFrom
<1>1. MAX_KV_STACK_LEN \in Nat \ {0}
  BY PagesBasics
<1>2. ASSUME NEW k \in 1 .. n - start, NEW s, s = list[k], NEW i, i = start + k - 1
      PROVE  /\ i \in Nat /\ s = StackOf(t, i, append)
             /\ s \in KvStacks /\ s.append = append /\ s.nIdx = i
             /\ s.first = (i = run.tasks[t].kvStart /\ ~append)
             /\ FirstRow(s) = i * MAX_KV_STACK_LEN
             /\ FirstRow(s) + s.tile = P!AtMost(FirstRow(s) + MAX_KV_STACK_LEN, rows)
  <2>1. i \in Nat /\ i < n /\ start <= i
    BY <1>2
  <2>2. s = StackOf(t, i, append)
    BY <1>2
  <2>3. QED
    BY <2>1, <2>2, StackIs
<1>3. PICK m \in Nat : 1 .. m = 1 .. n - start /\ \A k \in 1 .. m : k \in 1 .. n - start
  <2>1. CASE n - start > 0
    <3>1. n - start \in Nat
      BY <2>1
    <3>2. QED
      BY <3>1
  <2>2. CASE n - start <= 0
    <3>1. 1 .. 0 = 1 .. n - start
      BY <2>2
    <3>2. QED
      BY <3>1
  <2>3. QED
    BY <2>1, <2>2
<1>4. list \in Seq(KvStacks) /\ Len(list) = m
  <2>1. \A k \in 1 .. m : list[k] \in KvStacks
    BY <1>2, <1>3
  <2>2. list \in [1 .. m -> KvStacks]
    <3>1. list = [k \in 1 .. m |-> list[k]]
      BY <1>3
    <3>2. QED
      BY <2>1, <3>1
  <2>3. QED
    BY <2>2, IsASeqOf, ZenonT(30)
<1>5. InOrder(list)
  <2>1. SUFFICES ASSUME NEW k \in 1 .. m - 1, ~append
                 PROVE  Follows(list[k], list[k + 1])
    <3>1. ASSUME NEW k \in 1 .. m - 1, append
          PROVE  Follows(list[k], list[k + 1])
      <4>1. k + 1 \in 1 .. m
        OBVIOUS
      <4>2. k + 1 \in 1 .. n - start
        BY <1>3, <4>1
      <4>3. list[k + 1].append = append
        BY <1>2, <4>2
      <4>4. QED
        BY <3>1, <4>3 DEF Follows, Fresh
    <3>2. QED
      BY <1>4, <3>1 DEF InOrder
  <2>2. k \in 1 .. n - start /\ k + 1 \in 1 .. n - start /\ (start + (k + 1) - 1) = start + k
    <3>1. k \in 1 .. m /\ k + 1 \in 1 .. m
      OBVIOUS
    <3>2. k \in 1 .. n - start /\ k + 1 \in 1 .. n - start
      BY <1>3, <3>1
    <3>3. QED
      BY <3>2
  <2>3. PICK s, u : s = list[k] /\ u = list[k + 1]
    OBVIOUS
  <2>4. PICK i \in Nat : i = start + k - 1 /\ i + 1 = start + (k + 1) - 1 /\ i + 1 < n
    <3>1. PICK i \in Nat : i = start + k - 1
      OBVIOUS
    <3>2. i + 1 = start + (k + 1) - 1
      BY <3>1
    <3>3. start + k < n
      BY <2>2
    <3>4. QED
      BY <3>1, <3>2, <3>3
  <2>5. /\ s.append = append /\ FirstRow(s) = i * MAX_KV_STACK_LEN
        /\ FirstRow(s) + s.tile = P!AtMost(FirstRow(s) + MAX_KV_STACK_LEN, rows)
    BY <1>2, <2>2, <2>3, <2>4
  <2>6. FirstRow(u) = (i + 1) * MAX_KV_STACK_LEN
    BY <1>2, <2>2, <2>3, <2>4
  <2>7. PICK v \in Int : v = i * MAX_KV_STACK_LEN /\ (i + 1) * MAX_KV_STACK_LEN = v + MAX_KV_STACK_LEN
    BY <1>1, NextTimes
  <2>8. (i + 1) * MAX_KV_STACK_LEN < rows
    <3>1. \A x \in Int : x < n <=> x * MAX_KV_STACK_LEN < rows
      BY <1>1, CeilIs
    <3>2. i + 1 \in Int /\ i + 1 < n
      BY <2>4
    <3>3. QED
      BY <3>1, <3>2
  <2>9. FirstRow(s) + s.tile = v + MAX_KV_STACK_LEN
    BY <1>1, <2>5, <2>7, <2>8 DEF P!AtMost
  <2>10. QED
    BY <2>1, <2>3, <2>5, <2>6, <2>7, <2>9 DEF Follows
<1>6. ASSUME list # << >>
      PROVE  Fresh(list[1])
  <2>1. 1 \in 1 .. n - start /\ start + 1 - 1 = start
    <3>1. m # 0
      BY <1>4, <1>6, EmptySeqIs
    <3>2. 1 \in 1 .. m
      BY <3>1
    <3>3. QED
      BY <1>3, <3>2
  <2>2. list[1].append = append /\ list[1].first = (start = run.tasks[t].kvStart /\ ~append)
    BY <1>2, <2>1
  <2>3. QED
    BY <2>2 DEF Fresh
<1>7. ASSUME NEW i \in Nat, start <= i, i < n
      PROVE  \E k \in 1 .. Len(list) : list[k] = StackOf(t, i, append)
  <2>1. From(start, i, n)
    BY <1>7 DEF From
  <2>2. PICK k \in 1 .. n - start : i = start + k - 1
    BY <2>1, IndexFrom
  <2>3. QED
    BY <1>3, <1>4, <2>2
<1>8. ASSUME NEW r \in start * MAX_KV_STACK_LEN .. rows - 1
      PROVE  Waits(list, append, t, r)
  <2>1. PICK i \in Nat : start <= i /\ i < n /\ Covers(StackOf(t, i, append), append, t, r)
    BY StackCovers
  <2>2. PICK k \in 1 .. Len(list) : list[k] = StackOf(t, i, append)
    BY <1>7, <2>1
  <2>3. QED
    BY <2>1, <2>2 DEF Waits
<1>9. QED
  BY <1>4, <1>5, <1>6, <1>8 DEF GoodList

LEMMA StacksGood ==
  ASSUME run \in Runs, NEW t \in Tasks
  PROVE  /\ GoodList(P!Stacks(t))
         /\ \A r \in Old(t) : Waits(P!Stacks(t), FALSE, t, r)
         /\ \A r \in New(t) : Waits(P!Stacks(t), TRUE, t, r)
<1>1. /\ run.tasks[t].kvStart \in Nat /\ run.tasks[t].len \in Nat /\ run.tasks[t].new \in Nat
      /\ MAX_KV_STACK_LEN \in Nat \ {0}
  BY PagesBasics
<1>2. GoodList(OldStacks(t)) /\ \A r \in Old(t) : Waits(OldStacks(t), FALSE, t, r)
  <2>1. PICK n \in Int : n = P!CeilDiv(run.tasks[t].len, MAX_KV_STACK_LEN)
    BY <1>1, CeilIs
  <2>2. OldStacks(t) = [k \in 1 .. n - run.tasks[t].kvStart |->
                          StackOf(t, run.tasks[t].kvStart + k - 1, FALSE)]
    BY <2>1 DEF OldStacks
  <2>3. ListFrom(t, FALSE, run.tasks[t].len, run.tasks[t].kvStart, n, OldStacks(t))
    BY <1>1, <2>1, <2>2 DEF ListFrom
  <2>4. QED
    BY <2>3, StacksInOrder DEF Old
<1>3. GoodList(NewStacks(t)) /\ \A r \in New(t) : Waits(NewStacks(t), TRUE, t, r)
  <2>1. PICK n \in Int : n = P!CeilDiv(run.tasks[t].new, MAX_KV_STACK_LEN)
    BY <1>1, CeilIs
  <2>2. PICK start \in Nat : start = 0
    OBVIOUS
  <2>3. NewStacks(t) = [k \in 1 .. n - start |-> StackOf(t, start + k - 1, TRUE)]
    <3>1. \A k \in 1 .. n : start + k - 1 = k - 1
      BY <2>2
    <3>2. n - start = n
      BY <2>2
    <3>3. QED
      BY <2>1, <3>1, <3>2 DEF NewStacks
  <2>4. New(t) = start * MAX_KV_STACK_LEN .. run.tasks[t].new - 1
    BY <1>1, <2>2 DEF New
  <2>5. ListFrom(t, TRUE, run.tasks[t].new, start, n, NewStacks(t))
    BY <1>1, <2>1, <2>2, <2>3 DEF ListFrom
  <2>6. QED
    BY <2>4, <2>5, StacksInOrder
<1>4. QED
  BY <1>2, <1>3, StacksAre, ListsJoin

-----------------------------------------------------------------------------
(* Paged tasks: the beginning.                                             *)

(* The lists w[1] .. w[n], one behind the other.                           *)
LEMMA ListsExist ==
  ASSUME NEW w, NEW n \in Nat
  PROVE  \E s : s = [t \in 0 .. n |-> IF t = 0 THEN << >> ELSE s[t - 1] \o w[t]]
<1> DEFINE Upto(s, k) == s = [t \in 0 .. k |-> IF t = 0 THEN << >> ELSE s[t - 1] \o w[t]]
           A == {k \in Nat : \E s : Upto(s, k)}
<1>1. 0 \in A
  <2>1. Upto([t \in 0 .. 0 |-> << >>], 0)
    OBVIOUS
  <2>2. QED
    BY <2>1
<1>2. ASSUME NEW k \in A
      PROVE  k + 1 \in A
  <2>1. PICK s : Upto(s, k)
    OBVIOUS
  <2> DEFINE g == [t \in 0 .. k + 1 |-> IF t = 0 THEN << >> ELSE s[t - 1] \o w[t]]
  <2>2. ASSUME NEW t \in 0 .. k
        PROVE  g[t] = s[t]
    BY <2>1
  <2>3. ASSUME NEW t \in 0 .. k + 1, t # 0
        PROVE  s[t - 1] = g[t - 1]
    <3>1. t - 1 \in 0 .. k
      BY <2>3
    <3> HIDE DEF g
    <3>2. QED
      BY <2>2, <3>1
  <2>4. \A t \in 0 .. k + 1 : g[t] = IF t = 0 THEN << >> ELSE s[t - 1] \o w[t]
    OBVIOUS
  <2>5. g = [t \in 0 .. k + 1 |-> g[t]]
    OBVIOUS
  <2> HIDE DEF g
  <2>6. \A t \in 0 .. k + 1 : g[t] = IF t = 0 THEN << >> ELSE g[t - 1] \o w[t]
    BY <2>3, <2>4
  <2>7. Upto(g, k + 1)
    BY <2>5, <2>6
  <2>8. k + 1 \in Nat
    OBVIOUS
  <2> HIDE DEF Upto
  <2>9. QED
    BY <2>7, <2>8
<1>3. A = Nat
  <2> HIDE DEF A
  <2>1. A \in SUBSET Nat
    BY DEF A
  <2>2. QED
    BY <1>1, <1>2, <2>1, Induction
<1>4. n \in A
  BY <1>3
<1>5. QED
  BY <1>4

LEMMA AllStacks ==
  ASSUME P!Init
  PROVE  /\ GoodList(todo)
         /\ \A t \in Tasks : /\ \A r \in Old(t) : Waits(todo, FALSE, t, r)
                             /\ \A r \in New(t) : Waits(todo, TRUE, t, r)
<1>1. run \in Runs
  BY DEF P!Init
<1>2. PICK n \in Nat : n = Len(run.tasks) /\ Tasks = 1 .. n
  <2> DEFINE TaskType == [kvStart : Nat, len : Nat, new : Nat]
  <2>1. run.tasks \in Seq(TaskType)
    BY <1>1, TilesAssumption DEF P!RunsAssumption
  <2> HIDE DEF TaskType
  <2>2. QED
    BY <2>1 DEF Tasks
<1> DEFINE Is(s) == s = [t \in 0 .. n |-> IF t = 0 THEN << >> ELSE s[t - 1] \o P!Stacks(t)]
           all == CHOOSE s : Is(s)
<1>3. todo = all[n]
  BY <1>2, Zenon DEF P!Init
<1>4. \E s : Is(s)
  <2> DEFINE w == [t \in 0 .. n |-> P!Stacks(t)]
  <2>1. \A t \in 0 .. n : w[t] = P!Stacks(t)
    OBVIOUS
  <2> HIDE DEF w
  <2>2. PICK s : s = [t \in 0 .. n |-> IF t = 0 THEN << >> ELSE s[t - 1] \o w[t]]
    BY ListsExist
  <2>3. \A t \in 0 .. n : s[t] = IF t = 0 THEN << >> ELSE s[t - 1] \o P!Stacks(t)
    BY <2>1, <2>2
  <2>4. s = [t \in 0 .. n |-> s[t]]
    BY <2>2
  <2>5. Is(s)
    BY <2>3, <2>4
  <2> HIDE DEF Is
  <2>6. QED
    BY <2>5
<1>5. Is(all)
  <2> HIDE DEF Is
  <2>1. QED
    BY <1>4
<1> HIDE DEF all
<1>6. all[0] = << >> /\ \A t \in 0 .. n : t # 0 => all[t] = all[t - 1] \o P!Stacks(t)
  <2>1. ASSUME NEW t \in 0 .. n
        PROVE  all[t] = IF t = 0 THEN << >> ELSE all[t - 1] \o P!Stacks(t)
    BY <1>5
  <2> HIDE DEF Is
  <2>2. 0 \in 0 .. n
    OBVIOUS
  <2>3. QED
    BY <2>1, <2>2
<1> HIDE DEF Is
<1> DEFINE Right(list, k) ==
             /\ GoodList(list)
             /\ \A t \in 1 .. k : /\ \A r \in Old(t) : Waits(list, FALSE, t, r)
                                  /\ \A r \in New(t) : Waits(list, TRUE, t, r)
           A == {k \in Nat : k <= n => Right(all[k], k)}
<1>7. 0 \in A
  <2>1. Right(<< >>, 0)
    BY DEF GoodList, InOrder
  <2> HIDE DEF Right
  <2>2. QED
    BY <1>6, <2>1
<1>8. ASSUME NEW k \in A, k + 1 <= n
      PROVE  Right(all[k + 1], k + 1)
  <2>1. k \in Nat /\ k + 1 \in 0 .. n /\ k + 1 # 0 /\ (k + 1) - 1 = k /\ k + 1 \in Tasks
    BY <1>2, <1>8
  <2>2. PICK a, b : a = all[k] /\ b = P!Stacks(k + 1)
    OBVIOUS
  <2>3. all[k + 1] = a \o b
    BY <1>6, <2>1, <2>2
  <2>4. Right(a, k)
    <3> HIDE DEF Right
    <3>1. QED
      BY <1>8, <2>1, <2>2
  <2>5. /\ GoodList(b)
        /\ \A r \in Old(k + 1) : Waits(b, FALSE, k + 1, r)
        /\ \A r \in New(k + 1) : Waits(b, TRUE, k + 1, r)
    BY <1>1, <2>1, <2>2, StacksGood
  <2>6. /\ GoodList(a \o b)
        /\ \A append, t, r : Waits(a, append, t, r) \/ Waits(b, append, t, r)
             => Waits(a \o b, append, t, r)
    BY <2>4, <2>5, ListsJoin
  <2>7. \A t \in 1 .. k + 1 : t = k + 1 \/ t \in 1 .. k
    BY <2>1
  <2>8. Right(a \o b, k + 1)
    BY <2>4, <2>5, <2>6, <2>7
  <2>9. QED
    BY <2>3, <2>8
<1> HIDE DEF Right
<1>9. A = Nat
  <2>1. ASSUME NEW k \in A
        PROVE  k + 1 \in A
    BY <1>8, <2>1
  <2> HIDE DEF A
  <2>2. A \in SUBSET Nat
    BY DEF A
  <2>3. QED
    BY <1>7, <2>1, <2>2, Induction
<1>10. Right(all[n], n)
  BY <1>9
<1>11. QED
  BY <1>2, <1>3, <1>10 DEF Right

LEMMA PagesInvInit ==
  ASSUME P!Init
  PROVE  PagesInv
<1>1. run \in Runs /\ P!blockSize \in Nat \ {0}
  BY PagesBasics DEF P!Init
<1>2. /\ issued = << >> /\ qk = P!Idle /\ pv = P!Idle /\ blockStartOffset = [qk |-> 0, pv |-> 0]
      /\ loaded = [k |-> {}, v |-> {}] /\ stored = [k |-> {}, v |-> {}]
  BY DEF P!Init
<1>3. PagesType
  BY <1>1, <1>2, AllStacks DEF PagesType, GoodList
<1>4. CursorInv
  BY <1>2 DEF CursorInv
<1>5. OrderInv
  BY <1>2, AllStacks DEF OrderInv, GoodList, Resumes
<1>6. RowsInv
  BY AllStacks DEF RowsInv, ComesK, ComesV
<1>7. QED
  BY <1>3, <1>4, <1>5, <1>6 DEF PagesInv

-----------------------------------------------------------------------------
(* Paged tasks: stacks, operations and their pieces.                       *)

LEMMA StackTypes ==
  ASSUME run \in Runs, NEW s \in KvStacks
  PROVE  /\ s.task \in Tasks /\ s.nIdx \in Nat /\ s.append \in BOOLEAN /\ s.tile \in Nat \ {0}
         /\ FirstRow(s) \in Nat /\ FirstRow(s) = s.nIdx * MAX_KV_STACK_LEN
         /\ P!PVStart(s) \in 0 .. P!blockSize - 1 /\ P!PVStart(s) = FirstRow(s) % P!blockSize
         /\ run.tasks[s.task].len \in Nat /\ run.tasks[s.task].new \in Nat
         /\ run.tasks[s.task].kvStart \in Nat
<1>1. s \in KvStack /\ OfTask(s)
  BY DEF KvStacks
<1>2. s.task \in Tasks /\ s.nIdx \in Nat /\ s.append \in BOOLEAN /\ s.tile \in Nat \ {0}
  BY <1>1 DEF KvStack, OfTask
<1>3. FirstRow(s) \in Nat /\ FirstRow(s) = s.nIdx * MAX_KV_STACK_LEN
  BY <1>1, FirstRowType DEF FirstRow
<1>4. P!PVStart(s) = FirstRow(s) % P!blockSize
  BY DEF P!PVStart, FirstRow
<1>5. P!PVStart(s) \in 0 .. P!blockSize - 1
  <2>1. PICK B \in Nat \ {0}, x \in Int : B = P!blockSize /\ x = FirstRow(s)
    BY <1>3, PagesBasics
  <2>2. x % B \in 0 .. B - 1
    BY DivIs
  <2>3. QED
    BY <1>4, <2>1, <2>2
<1>6. QED
  BY <1>2, <1>3, <1>4, <1>5, PagesBasics

LEMMA OperationIs ==
  ASSUME NEW op \in Operations
  PROVE  /\ op # P!Idle /\ op.stack[1] \in KvStacks
         /\ op.done \in Nat /\ op.done < op.stack[1].tile
         /\ op.curBlockIdx \in Nat /\ op.blockEnd \in Int /\ op.curBlockTotalNum \in Int
<1>1. op.stack \in Seq(KvStacks) /\ Len(op.stack) = 1
  BY DEF Operations
<1>2. op # P!Idle
  BY <1>1 DEF P!Idle
<1>3. op.stack[1] \in KvStacks
  BY <1>1
<1>4. QED
  BY <1>2, <1>3 DEF Operations

GoesOn(op, d, i) == [op EXCEPT !.done = d, !.curBlockIdx = i]
LEMMA OperationGoesOn ==
  ASSUME NEW op \in Operations, NEW d \in Nat, d < op.stack[1].tile, NEW i \in Nat
  PROVE  /\ GoesOn(op, d, i) \in Operations /\ GoesOn(op, d, i).stack = op.stack
         /\ GoesOn(op, d, i).done = d /\ GoesOn(op, d, i).curBlockIdx = i
         /\ GoesOn(op, d, i).blockEnd = op.blockEnd
         /\ GoesOn(op, d, i).curBlockTotalNum = op.curBlockTotalNum
BY DEF Operations, GoesOn

LEMMA OperationBegins ==
  ASSUME run \in Runs, NEW s \in KvStacks, NEW offset \in 0 .. P!blockSize - 1,
         NEW op, op = P!Begin(s, offset)
  PROVE  /\ op \in Operations /\ op.stack[1] = s /\ op.done = 0
         /\ offset = P!PVStart(s) => Cursor(op, offset)
<1>1. s.tile \in Nat \ {0} /\ P!blockSize \in Nat \ {0}
  BY StackTypes, PagesBasics
<1>2. PICK B \in Nat \ {0} : B = P!blockSize
  BY <1>1
<1>3. PICK end, num : end = P!blockEnd(s.tile, offset) /\ num = P!curBlockTotalNum(s.tile, offset)
  OBVIOUS
<1>4. end = ((offset + s.tile - 1) % B) + 1 /\ num = ((offset + s.tile - 1) \div B) + 1
  BY <1>1, <1>2, <1>3, BlockParams
<1>5. end \in Int /\ num \in Int
  <2>1. PICK x \in Int : x = offset + s.tile - 1
    BY <1>1, <1>2
  <2>2. x % B \in 0 .. B - 1 /\ x \div B \in Int
    BY DivIs
  <2>3. QED
    BY <1>2, <1>4, <2>1, <2>2
<1>6. op = [stack |-> <<s>>, done |-> 0, curBlockIdx |-> 0, blockEnd |-> end, curBlockTotalNum |-> num]
  BY <1>3 DEF P!Begin
<1>7. <<s>> \in Seq(KvStacks) /\ Len(<<s>>) = 1 /\ <<s>>[1] = s
  OBVIOUS
<1>8. /\ op \in Operations /\ op.stack[1] = s /\ op.done = 0 /\ op.curBlockIdx = 0
      /\ op.blockEnd = end /\ op.curBlockTotalNum = num
  BY <1>1, <1>5, <1>6, <1>7 DEF Operations
<1>9. ASSUME offset = P!PVStart(s)
      PROVE  Cursor(op, offset)
  <2>1. offset + 0 = 0 * B + offset
    BY <1>2
  <2>2. QED
    BY <1>2, <1>4, <1>8, <1>9, <2>1 DEF Cursor
<1>10. QED
  BY <1>8, <1>9

(* What a piece of n rows leaves of an operation.                          *)
Shortens(op, n, op2) ==
  LET s == op.stack[1]
  IN /\ op \in Operations /\ n \in Nat /\ op.done + n <= s.tile
     /\ op.done + n = s.tile => op2 = P!Idle
     /\ op.done + n # s.tile => op2 \in Operations /\ op2.stack = op.stack /\ op2.done = op.done + n
LEMMA PieceLeaves ==
  ASSUME run \in Runs, NEW op, NEW n, NEW op2, Shortens(op, n, op2), NEW s, s = op.stack[1]
  PROVE  \A append, t, r :
           /\ Whole(op, append, t, r) => \/ Whole(op2, append, t, r)
                                         \/ op2 = P!Idle /\ Covers(s, append, t, r)
           /\ Left(op, append, t, r) => \/ Left(op2, append, t, r)
                                        \/ /\ append = s.append /\ t = s.task
                                           /\ r \in FirstRow(s) + op.done .. FirstRow(s) + op.done + n - 1
<1>1. /\ s \in KvStacks /\ op.done \in Nat /\ s.tile \in Nat /\ FirstRow(s) \in Nat
      /\ n \in Nat /\ op.done + n <= s.tile
      /\ op.done + n = s.tile => op2 = P!Idle
      /\ op.done + n # s.tile => op2 \in Operations /\ op2.stack = op.stack /\ op2.done = op.done + n
  BY OperationIs, StackTypes DEF Shortens
<1>2. CASE op.done + n = s.tile
  <2>1. ASSUME NEW append, NEW t, NEW r, Left(op, append, t, r)
        PROVE  /\ append = s.append /\ t = s.task
               /\ r \in FirstRow(s) + op.done .. FirstRow(s) + op.done + n - 1
    <3>1. /\ append = s.append /\ t = s.task /\ r \in FirstRow(s) .. FirstRow(s) + s.tile - 1
          /\ r >= FirstRow(s) + op.done
      BY <2>1 DEF Left, Covers
    <3>2. r \in Int /\ r <= FirstRow(s) + s.tile - 1
      BY <1>1, <3>1
    <3>3. QED
      BY <1>1, <1>2, <3>1, <3>2
  <2>2. QED
    BY <1>1, <1>2, <2>1 DEF Whole
<1>3. CASE op.done + n # s.tile
  <2>1. op2 # P!Idle /\ op2.stack[1] = s /\ op2.done = op.done + n
    BY <1>1, <1>3, OperationIs
  <2>2. ASSUME NEW append, NEW t, NEW r, Left(op, append, t, r), ~Left(op2, append, t, r)
        PROVE  /\ append = s.append /\ t = s.task
               /\ r \in FirstRow(s) + op.done .. FirstRow(s) + op.done + n - 1
    <3>1. /\ append = s.append /\ t = s.task /\ r \in FirstRow(s) .. FirstRow(s) + s.tile - 1
          /\ r >= FirstRow(s) + op.done /\ ~ r >= FirstRow(s) + (op.done + n)
      BY <2>1, <2>2 DEF Left, Covers
    <3>2. r \in Int
      BY <1>1, <3>1
    <3>3. QED
      BY <1>1, <3>1, <3>2
  <2>3. QED
    BY <2>1, <2>2 DEF Whole
<1>4. QED
  BY <1>2, <1>3

(* The rows of a piece of the cache are rows that are wanted, at their     *)
(* places: at is where it begins in the stack.                             *)
LEMMA OldPiece ==
  ASSUME run \in Runs, NEW s \in KvStacks, ~s.append, NEW at \in Nat, NEW n \in Nat, at + n <= s.tile,
         NEW page \in Int, NEW row \in 0 .. P!blockSize - 1, row + n <= P!blockSize,
         FirstRow(s) + at = page * P!blockSize + row
  PROVE  /\ P!Rows(s, at, n, page, row) \subseteq P!Wanted
         /\ \A r \in FirstRow(s) + at .. FirstRow(s) + at + n - 1 :
              OldRow(s.task, r) \in P!Rows(s, at, n, page, row)
<1>1. PICK B \in Nat \ {0} : B = P!blockSize
  BY PagesBasics
<1>2. PICK first \in Nat, len \in Nat \ {0}, rows \in Nat, start \in Nat :
        /\ first = FirstRow(s) /\ len = s.tile /\ rows = run.tasks[s.task].len
        /\ start = run.tasks[s.task].kvStart /\ s.task \in Tasks
  BY StackTypes
<1>3. first + len <= rows /\ start * MAX_KV_STACK_LEN \in Int /\ start * MAX_KV_STACK_LEN <= first
  <2>1. OfTask(s)
    BY DEF KvStacks
  <2>2. start <= s.nIdx /\ s.nIdx \in Nat /\ first = s.nIdx * MAX_KV_STACK_LEN /\ first + len <= rows
    BY <1>2, <2>1, StackTypes DEF OfTask
  <2>3. MAX_KV_STACK_LEN \in Nat
    BY PagesBasics
  <2>4. QED
    BY <2>2, <2>3, TimesGrows
<1>4. ASSUME NEW i \in 0 .. n - 1, NEW w,
             w = [task |-> s.task, row |-> s.nIdx * MAX_KV_STACK_LEN + at + i, place |-> <<page, row + i>>]
      PROVE  w = OldRow(s.task, first + at + i) /\ first + at + i \in Old(s.task)
  <2>1. PICK v \in Int : v = page * B /\ first + at = v + row
    BY <1>1, <1>2
  <2>2. row + i \in 0 .. B - 1 /\ first + at + i = v + (row + i)
    BY <1>1, <2>1
  <2>3. P!Place(first + at + i) = <<page, row + i>>
    <3>1. PICK there \in Int, here \in 0 .. B - 1 : there = first + at + i /\ here = row + i
      BY <1>2, <2>2
    <3>2. PlacedAt(there, page, here)
      BY <1>1, <2>1, <2>2, <3>1 DEF PlacedAt
    <3>3. P!Place(there) = <<page, here>>
      BY <3>1, <3>2, PagesBasics, PlaceIs
    <3>4. QED
      BY <3>1, <3>3
  <2>4. s.nIdx * MAX_KV_STACK_LEN = first
    BY <1>2 DEF FirstRow
  <2>5. first + at + i \in start * MAX_KV_STACK_LEN .. rows - 1
    BY <1>2, <1>3
  <2>6. QED
    BY <1>2, <1>4, <2>3, <2>4, <2>5 DEF OldRow, Old
<1>5. P!Rows(s, at, n, page, row) \subseteq P!Wanted
  <2>1. ASSUME NEW w \in P!Rows(s, at, n, page, row)
        PROVE  w \in P!Wanted
    <3>1. PICK i \in 0 .. n - 1 :
            w = [task |-> s.task, row |-> s.nIdx * MAX_KV_STACK_LEN + at + i, place |-> <<page, row + i>>]
      BY DEF P!Rows
    <3>2. QED
      BY <1>2, <1>4, <3>1, WantedIs
  <2>2. QED
    BY <2>1
<1>6. ASSUME NEW r \in FirstRow(s) + at .. FirstRow(s) + at + n - 1
      PROVE  OldRow(s.task, r) \in P!Rows(s, at, n, page, row)
  <2>1. PICK i \in 0 .. n - 1 : r = first + at + i
    <3>1. r \in Int /\ r - (first + at) \in 0 .. n - 1 /\ r = first + at + (r - (first + at))
      BY <1>2
    <3>2. QED
      BY <3>1
  <2>2. PICK w : w = [task |-> s.task, row |-> s.nIdx * MAX_KV_STACK_LEN + at + i,
                      place |-> <<page, row + i>>]
    OBVIOUS
  <2>3. w \in P!Rows(s, at, n, page, row)
    BY <2>2 DEF P!Rows
  <2>4. QED
    BY <1>4, <2>1, <2>2, <2>3
<1>7. QED
  BY <1>5, <1>6

(* The same of a piece of new rows.                                        *)
LEMMA NewPiece ==
  ASSUME run \in Runs, NEW s \in KvStacks, s.append, NEW at \in Nat, NEW n \in Nat, at + n <= s.tile,
         NEW page \in Int, NEW row \in 0 .. P!blockSize - 1, row + n <= P!blockSize,
         run.tasks[s.task].len + FirstRow(s) + at = page * P!blockSize + row
  PROVE  /\ P!Rows(s, at, n, page, row) \subseteq P!Appended
         /\ \A r \in FirstRow(s) + at .. FirstRow(s) + at + n - 1 :
              NewRow(s.task, r) \in P!Rows(s, at, n, page, row)
<1>1. PICK B \in Nat \ {0} : B = P!blockSize
  BY PagesBasics
<1>2. PICK first \in Nat, len \in Nat \ {0}, rows \in Nat, new \in Nat :
        /\ first = FirstRow(s) /\ len = s.tile /\ rows = run.tasks[s.task].len
        /\ new = run.tasks[s.task].new /\ s.task \in Tasks
  BY StackTypes
<1>3. first + len <= new
  <2>1. OfTask(s)
    BY DEF KvStacks
  <2>2. QED
    BY <1>2, <2>1 DEF OfTask
<1>4. ASSUME NEW i \in 0 .. n - 1, NEW w,
             w = [task |-> s.task, row |-> s.nIdx * MAX_KV_STACK_LEN + at + i, place |-> <<page, row + i>>]
      PROVE  w = NewRow(s.task, first + at + i) /\ first + at + i \in New(s.task)
  <2>1. PICK v \in Int : v = page * B /\ rows + first + at = v + row
    BY <1>1, <1>2
  <2>2. row + i \in 0 .. B - 1 /\ rows + (first + at + i) = v + (row + i)
    BY <1>1, <2>1
  <2>3. P!Place(rows + (first + at + i)) = <<page, row + i>>
    <3>1. PICK there \in Int, here \in 0 .. B - 1 : there = rows + (first + at + i) /\ here = row + i
      BY <1>2, <2>2
    <3>2. PlacedAt(there, page, here)
      BY <1>1, <2>1, <2>2, <3>1 DEF PlacedAt
    <3>3. P!Place(there) = <<page, here>>
      BY <3>1, <3>2, PagesBasics, PlaceIs
    <3>4. QED
      BY <3>1, <3>3
  <2>4. s.nIdx * MAX_KV_STACK_LEN = first
    BY <1>2 DEF FirstRow
  <2>5. first + at + i \in 0 .. new - 1
    BY <1>2, <1>3
  <2>6. QED
    BY <1>2, <1>4, <2>3, <2>4, <2>5 DEF NewRow, New
<1>5. P!Rows(s, at, n, page, row) \subseteq P!Appended
  <2>1. ASSUME NEW w \in P!Rows(s, at, n, page, row)
        PROVE  w \in P!Appended
    <3>1. PICK i \in 0 .. n - 1 :
            w = [task |-> s.task, row |-> s.nIdx * MAX_KV_STACK_LEN + at + i, place |-> <<page, row + i>>]
      BY DEF P!Rows
    <3>2. QED
      BY <1>2, <1>4, <3>1, AppendedIs
  <2>2. QED
    BY <2>1
<1>6. ASSUME NEW r \in FirstRow(s) + at .. FirstRow(s) + at + n - 1
      PROVE  NewRow(s.task, r) \in P!Rows(s, at, n, page, row)
  <2>1. PICK i \in 0 .. n - 1 : r = first + at + i
    <3>1. r \in Int /\ r - (first + at) \in 0 .. n - 1 /\ r = first + at + (r - (first + at))
      BY <1>2
    <3>2. QED
      BY <3>1
  <2>2. PICK w : w = [task |-> s.task, row |-> s.nIdx * MAX_KV_STACK_LEN + at + i,
                      place |-> <<page, row + i>>]
    OBVIOUS
  <2>3. w \in P!Rows(s, at, n, page, row)
    BY <2>2 DEF P!Rows
  <2>4. QED
    BY <1>4, <2>1, <2>2, <2>3
<1>7. QED
  BY <1>5, <1>6

-----------------------------------------------------------------------------
(* Paged tasks: the steps.                                                 *)

LEMMA LeftPrimes ==
  ASSUME NEW append, NEW t, NEW r
  PROVE  /\ Left(qk, append, t, r)' <=> Left(qk', append, t, r)
         /\ Whole(qk, append, t, r)' <=> Whole(qk', append, t, r)
         /\ Left(pv, append, t, r)' <=> Left(pv', append, t, r)
         /\ Waits(todo, append, t, r)' <=> Waits(todo', append, t, r)
         /\ Waits(issued, append, t, r)' <=> Waits(issued', append, t, r)
BY DEF Left, Whole, Waits, Covers, FirstRow, P!Idle

(* The rows that are still to come, step by step: those of a list or an    *)
(* operation go on to the next, or are done.                               *)
ComesKTo(append, t, r) == Waits(todo', append, t, r) \/ Left(qk', append, t, r)
ComesVTo(append, t, r) ==
  \/ Waits(todo', append, t, r) \/ Whole(qk', append, t, r)
  \/ Waits(issued', append, t, r) \/ Left(pv', append, t, r)

LEMMA RowsGoOn ==
  ASSUME RowsInv, run' = run,
         loaded.k \subseteq loaded'.k, loaded.v \subseteq loaded'.v,
         stored.k \subseteq stored'.k, stored.v \subseteq stored'.v,
         \A t, r : /\ ComesK(FALSE, t, r) => ComesKTo(FALSE, t, r) \/ OldRow(t, r) \in loaded'.k
                   /\ ComesV(FALSE, t, r) => ComesVTo(FALSE, t, r) \/ OldRow(t, r) \in loaded'.v
                   /\ ComesK(TRUE, t, r) => ComesKTo(TRUE, t, r) \/ NewRow(t, r) \in stored'.k
                   /\ ComesV(TRUE, t, r) => ComesVTo(TRUE, t, r) \/ NewRow(t, r) \in stored'.v
  PROVE  RowsInv'
<1>1. \A append, t, r : /\ ComesK(append, t, r)' <=> ComesKTo(append, t, r)
                        /\ ComesV(append, t, r)' <=> ComesVTo(append, t, r)
  BY LeftPrimes DEF ComesK, ComesV, ComesKTo, ComesVTo
<1>2. /\ Tasks' = Tasks /\ \A t : Old(t)' = Old(t) /\ New(t)' = New(t)
      /\ \A t, r : OldRow(t, r)' = OldRow(t, r) /\ NewRow(t, r)' = NewRow(t, r)
  BY PagesSame
<1>3. /\ \A t \in Tasks : \A r \in Old(t) : /\ ComesKTo(FALSE, t, r) \/ OldRow(t, r) \in loaded'.k
                                            /\ ComesVTo(FALSE, t, r) \/ OldRow(t, r) \in loaded'.v
      /\ \A t \in Tasks : \A r \in New(t) : /\ ComesKTo(TRUE, t, r) \/ NewRow(t, r) \in stored'.k
                                            /\ ComesVTo(TRUE, t, r) \/ NewRow(t, r) \in stored'.v
  BY DEF RowsInv
<1>4. QED
  BY <1>1, <1>2, <1>3 DEF RowsInv

LEMMA PagesTypes ==
  ASSUME PagesInv
  PROVE  /\ run \in Runs /\ todo \in Seq(KvStacks) /\ issued \in Seq(KvStacks)
         /\ qk # P!Idle => qk \in Operations
         /\ pv # P!Idle => pv \in Operations
         /\ blockStartOffset \in [qk : 0 .. P!blockSize - 1, pv : 0 .. P!blockSize - 1]
         /\ blockStartOffset.qk \in 0 .. P!blockSize - 1 /\ blockStartOffset.pv \in 0 .. P!blockSize - 1
         /\ loaded \in [k : SUBSET P!Wanted, v : SUBSET P!Wanted]
         /\ stored \in [k : SUBSET P!Appended, v : SUBSET P!Appended]
         /\ P!blockSize \in Nat \ {0}
<1>1. PagesType
  BY DEF PagesInv
<1>2. P!blockSize \in Nat \ {0}
  BY <1>1, PagesBasics DEF PagesType
<1>3. QED
  BY <1>1, <1>2 DEF PagesType

(* The type of a state after a step that leaves the launch alone.          *)
LEMMA PagesTypeNext ==
  ASSUME PagesInv, run' = run, todo' \in Seq(KvStacks), issued' \in Seq(KvStacks),
         qk' = P!Idle \/ qk' \in Operations, pv' = P!Idle \/ pv' \in Operations,
         blockStartOffset' \in [qk : 0 .. P!blockSize - 1, pv : 0 .. P!blockSize - 1],
         loaded' \in [k : SUBSET P!Wanted, v : SUBSET P!Wanted],
         stored' \in [k : SUBSET P!Appended, v : SUBSET P!Appended]
  PROVE  PagesType'
<1>1. /\ P!blockSize' = P!blockSize /\ KvStacks' = KvStacks
      /\ P!Wanted' = P!Wanted /\ P!Appended' = P!Appended
  BY PagesSame
<1>2. Operations' = Operations
  BY <1>1 DEF Operations
<1>3. P!Idle' = P!Idle
  BY DEF P!Idle
<1>4. run \in Runs
  BY PagesTypes
<1>5. QED
  BY <1>1, <1>2, <1>3, <1>4 DEF PagesType

(* The cursors and the order after such a step, from the new values.       *)
LEMMA CursorNext ==
  ASSUME run' = run,
         qk' # P!Idle /\ ~qk'.stack[1].append => Cursor(qk', blockStartOffset'.qk),
         pv' # P!Idle /\ ~pv'.stack[1].append => Cursor(pv', blockStartOffset'.pv)
  PROVE  CursorInv'
<1>1. P!blockSize' = P!blockSize /\ P!Idle' = P!Idle
  BY PagesSame DEF P!Idle
<1>2. \A s : P!PVStart(s)' = P!PVStart(s)
  BY PagesSame
<1>3. /\ Cursor(qk, blockStartOffset.qk)' <=> Cursor(qk', blockStartOffset'.qk)
      /\ Cursor(pv, blockStartOffset.pv)' <=> Cursor(pv', blockStartOffset'.pv)
  BY <1>1 DEF Cursor, P!PVStart
<1>4. QED
  BY <1>1, <1>3 DEF CursorInv

ResumesAt(u, offset) == Fresh(u) \/ offset = P!PVStart(u)
LEMMA OrderNext ==
  ASSUME run' = run, InOrder(todo'),
         todo' # << >> => /\ qk' = P!Idle => ResumesAt(todo'[1], blockStartOffset'.qk)
                          /\ qk' # P!Idle => Follows(qk'.stack[1], todo'[1])
  PROVE  OrderInv'
<1>1. P!blockSize' = P!blockSize /\ P!Idle' = P!Idle
  BY PagesSame DEF P!Idle
<1>2. Resumes(todo[1])' <=> ResumesAt(todo'[1], blockStartOffset'.qk)
  BY <1>1 DEF Resumes, ResumesAt, Fresh, P!PVStart
<1>3. InOrder(todo)' <=> InOrder(todo')
  BY DEF InOrder, Follows, FirstRow, Fresh
<1>4. Follows(qk.stack[1], todo[1])' <=> Follows(qk'.stack[1], todo'[1])
  BY DEF Follows, FirstRow, Fresh
<1>5. QED
  BY <1>1, <1>2, <1>3, <1>4 DEF OrderInv

LEMMA BeginQKKeeps ==
  ASSUME PagesInv, P!BeginQK
  PROVE  PagesInv'
<1>1. PICK s, offset : s = todo[1] /\ offset = P!resetBlockStart(s, blockStartOffset.qk)
  OBVIOUS
<1>2. run \in Runs /\ todo \in Seq(KvStacks) /\ todo # << >> /\ InOrder(todo) /\ qk = P!Idle /\ pv = P!Idle
  BY PagesTypes DEF P!BeginQK, PagesInv, OrderInv
<1>3. /\ Head(todo) = s /\ s \in KvStacks /\ Tail(todo) \in Seq(KvStacks) /\ InOrder(Tail(todo))
      /\ Tail(todo) # << >> => Follows(s, Tail(todo)[1])
      /\ \A append, t, r : Waits(todo, append, t, r)
           => Covers(s, append, t, r) \/ Waits(Tail(todo), append, t, r)
  BY <1>1, <1>2, ListTail
<1>4. /\ run' = run /\ todo' = Tail(todo) /\ issued' = issued /\ pv' = pv
      /\ loaded' = loaded /\ stored' = stored
      /\ qk' = P!Begin(s, offset) /\ blockStartOffset' = [blockStartOffset EXCEPT !.qk = offset]
  BY <1>1, <1>3 DEF P!BeginQK
<1>5. offset \in 0 .. P!blockSize - 1 /\ (~s.append => offset = P!PVStart(s))
  <2>1. CASE s.first
    <3>1. offset = P!PVStart(s)
      BY <1>1, <2>1 DEF P!resetBlockStart, P!PVStart
    <3>2. QED
      BY <1>2, <1>3, <3>1, StackTypes
  <2>2. CASE ~s.first
    <3>1. offset = blockStartOffset.qk
      BY <1>1, <2>2 DEF P!resetBlockStart
    <3>2. Resumes(s)
      BY <1>1, <1>2 DEF PagesInv, OrderInv
    <3>3. QED
      BY <2>2, <3>1, <3>2, PagesTypes DEF Resumes, Fresh
  <2>3. QED
    BY <2>1, <2>2
<1>6. /\ qk' \in Operations /\ qk' # P!Idle /\ qk'.stack[1] = s /\ qk'.done = 0
      /\ ~s.append => Cursor(qk', offset)
  <2>1. PICK op : op = P!Begin(s, offset)
    OBVIOUS
  <2>2. op \in Operations /\ op.stack[1] = s /\ op.done = 0 /\ (offset = P!PVStart(s) => Cursor(op, offset))
    BY <1>2, <1>3, <1>5, <2>1, OperationBegins
  <2>3. op # P!Idle
    BY <2>2, OperationIs
  <2>4. QED
    BY <1>4, <1>5, <2>1, <2>2, <2>3
<1>7. blockStartOffset' \in [qk : 0 .. P!blockSize - 1, pv : 0 .. P!blockSize - 1]
      /\ blockStartOffset'.qk = offset
  BY <1>4, <1>5, PagesTypes
<1>8. PagesType'
  BY <1>2, <1>3, <1>4, <1>6, <1>7, PagesTypes, PagesTypeNext
<1>9. CursorInv'
  BY <1>2, <1>4, <1>6, <1>7, CursorNext
<1>10. OrderInv'
  BY <1>3, <1>4, <1>6, OrderNext
<1>11. RowsInv'
  <2>1. ASSUME NEW append, NEW t, NEW r, Covers(s, append, t, r)
        PROVE  Left(qk', append, t, r) /\ Whole(qk', append, t, r)
    <3>1. FirstRow(s) \in Nat /\ s.tile \in Nat
      BY <1>2, <1>3, StackTypes
    <3>2. r \in FirstRow(s) .. FirstRow(s) + s.tile - 1
      BY <2>1 DEF Covers
    <3>3. r >= FirstRow(s) + 0
      BY <3>1, <3>2
    <3>4. QED
      BY <1>6, <2>1, <3>3 DEF Left, Whole
  <2>2. ASSUME NEW append, NEW t, NEW r
        PROVE  /\ ComesK(append, t, r) => ComesKTo(append, t, r)
               /\ ComesV(append, t, r) => ComesVTo(append, t, r)
    <3>1. ~Left(qk, append, t, r) /\ ~Whole(qk, append, t, r)
      BY <1>2 DEF Left, Whole
    <3>2. QED
      BY <1>3, <1>4, <2>1, <3>1 DEF ComesK, ComesV, ComesKTo, ComesVTo
  <2>3. RowsInv
    BY DEF PagesInv
  <2>4. QED
    BY <1>4, <2>2, <2>3, RowsGoOn
<1>12. QED
  BY <1>8, <1>9, <1>10, <1>11 DEF PagesInv

LEMMA BeginPVKeeps ==
  ASSUME PagesInv, P!BeginPV
  PROVE  PagesInv'
<1>1. PICK s : s = issued[1]
  OBVIOUS
<1>2. run \in Runs /\ issued \in Seq(KvStacks) /\ issued # << >> /\ qk = P!Idle /\ pv = P!Idle
  BY PagesTypes DEF P!BeginPV
<1>3. /\ Head(issued) = s /\ s \in KvStacks /\ Tail(issued) \in Seq(KvStacks)
      /\ \A append, t, r : Waits(issued, append, t, r)
           => Covers(s, append, t, r) \/ Waits(Tail(issued), append, t, r)
  BY <1>1, <1>2, ListRest
<1>4. /\ run' = run /\ todo' = todo /\ issued' = Tail(issued) /\ qk' = qk
      /\ loaded' = loaded /\ stored' = stored
      /\ pv' = P!Begin(s, P!PVStart(s))
      /\ blockStartOffset' = [blockStartOffset EXCEPT !.pv = P!PVStart(s)]
  BY <1>3 DEF P!BeginPV
<1>5. P!PVStart(s) \in 0 .. P!blockSize - 1
  BY <1>2, <1>3, StackTypes
<1>6. /\ pv' \in Operations /\ pv' # P!Idle /\ pv'.stack[1] = s /\ pv'.done = 0
      /\ Cursor(pv', P!PVStart(s))
  <2>1. PICK op : op = P!Begin(s, P!PVStart(s))
    OBVIOUS
  <2>2. op \in Operations /\ op.stack[1] = s /\ op.done = 0 /\ Cursor(op, P!PVStart(s))
    BY <1>2, <1>3, <1>5, <2>1, OperationBegins
  <2>3. op # P!Idle
    BY <2>2, OperationIs
  <2>4. QED
    BY <1>4, <2>1, <2>2, <2>3
<1>7. /\ blockStartOffset' \in [qk : 0 .. P!blockSize - 1, pv : 0 .. P!blockSize - 1]
      /\ blockStartOffset'.pv = P!PVStart(s) /\ blockStartOffset'.qk = blockStartOffset.qk
  BY <1>4, <1>5, PagesTypes
<1>8. PagesType'
  BY <1>2, <1>3, <1>4, <1>6, <1>7, PagesTypes, PagesTypeNext
<1>9. CursorInv'
  BY <1>2, <1>4, <1>6, <1>7, CursorNext
<1>10. OrderInv'
  <2>1. todo # << >> => ResumesAt(todo[1], blockStartOffset.qk)
    BY <1>2 DEF PagesInv, OrderInv, Resumes, ResumesAt
  <2>2. InOrder(todo)
    BY DEF PagesInv, OrderInv
  <2>3. QED
    BY <1>2, <1>4, <1>7, <2>1, <2>2, OrderNext
<1>11. RowsInv'
  <2>1. ASSUME NEW append, NEW t, NEW r, Covers(s, append, t, r)
        PROVE  Left(pv', append, t, r)
    <3>1. FirstRow(s) \in Nat /\ s.tile \in Nat
      BY <1>2, <1>3, StackTypes
    <3>2. r \in FirstRow(s) .. FirstRow(s) + s.tile - 1
      BY <2>1 DEF Covers
    <3>3. r >= FirstRow(s) + 0
      BY <3>1, <3>2
    <3>4. QED
      BY <1>6, <2>1, <3>3 DEF Left
  <2>2. ASSUME NEW append, NEW t, NEW r
        PROVE  /\ ComesK(append, t, r) => ComesKTo(append, t, r)
               /\ ComesV(append, t, r) => ComesVTo(append, t, r)
    <3>1. ~Left(pv, append, t, r)
      BY <1>2 DEF Left
    <3>2. QED
      BY <1>3, <1>4, <2>1, <3>1 DEF ComesK, ComesV, ComesKTo, ComesVTo
  <2>3. RowsInv
    BY DEF PagesInv
  <2>4. QED
    BY <1>4, <2>2, <2>3, RowsGoOn
<1>12. QED
  BY <1>8, <1>9, <1>10, <1>11 DEF PagesInv

(* A piece that begins at the cursor of an operation: page is its page.    *)
LEMMA CursorPlace ==
  ASSUME run \in Runs, NEW op \in Operations, NEW offset \in 0 .. P!blockSize - 1, Cursor(op, offset)
  PROVE  /\ P!page(op) \in Int
         /\ FirstRow(op.stack[1]) + op.done = P!page(op) * P!blockSize + offset
<1>1. PICK s \in KvStacks : s = op.stack[1]
  BY OperationIs
<1>2. PICK B \in Nat \ {0} : B = P!blockSize
  BY PagesBasics
<1>3. PICK x \in Nat : x = FirstRow(s) /\ x = s.nIdx * MAX_KV_STACK_LEN
  BY StackTypes
<1>4. PICK d \in Int, first \in 0 .. B - 1, u \in Int : x \div B = d /\ x % B = first /\ u = d * B /\ x = u + first
  BY DivPick
<1>5. P!PVStart(s) = first
  BY <1>2, <1>3, <1>4 DEF P!PVStart
<1>6. PICK i \in Nat, done \in Nat : i = op.curBlockIdx /\ done = op.done
  BY OperationIs
<1>7. PICK v \in Int : v = i * B /\ first + done = v + offset
  BY <1>1, <1>2, <1>5, <1>6 DEF Cursor
<1>8. P!page(op) = d + i
  BY <1>1, <1>2, <1>3, <1>4, <1>6 DEF P!page
<1>9. (d + i) * B = u + v
  BY <1>4, <1>7, TimesSum
<1>10. x + done = (u + v) + offset
  <2>1. x = u + first /\ first + done = v + offset
    BY <1>4, <1>7
  <2>2. QED
    BY <2>1
<1>11. QED
  BY <1>1, <1>2, <1>3, <1>6, <1>8, <1>9, <1>10

LEMMA LoadKKeeps ==
  ASSUME PagesInv, P!LoadK
  PROVE  PagesInv'
<1>1. PICK s, offset, done, idx :
        s = qk.stack[1] /\ offset = blockStartOffset.qk /\ done = qk.done /\ idx = qk.curBlockIdx
  OBVIOUS
<1>2. run \in Runs /\ qk \in Operations /\ ~s.append /\ qk # P!Idle
  BY <1>1, PagesTypes DEF P!LoadK
<1>3. /\ s \in KvStacks /\ done \in Nat /\ done < s.tile /\ idx \in Nat
      /\ offset \in 0 .. P!blockSize - 1 /\ Cursor(qk, offset)
  BY <1>1, <1>2, OperationIs, PagesTypes DEF PagesInv, CursorInv
<1>4. PICK B \in Nat \ {0}, len \in Nat \ {0}, first \in Nat :
        B = P!blockSize /\ len = s.tile /\ first = P!PVStart(s) /\ first \in 0 .. B - 1
  BY <1>2, <1>3, PagesBasics, StackTypes
<1>5. PICK end, last :
        /\ first + done = idx * B + offset /\ end = qk.blockEnd /\ last = qk.curBlockTotalNum - 1
        /\ end \in Int /\ last \in Int
        /\ end = ((first + len - 1) % B) + 1 /\ last = (first + len - 1) \div B
  <2>1. PICK x \in Int : x = first + len - 1
    OBVIOUS
  <2>2. x \div B \in Int /\ qk.blockEnd \in Int /\ qk.curBlockTotalNum \in Int
    BY <1>2, DivIs, OperationIs
  <2>3. first + done = idx * B + offset /\ qk.blockEnd = (x % B) + 1
        /\ qk.curBlockTotalNum = (x \div B) + 1
    BY <1>1, <1>3, <1>4, <2>1 DEF Cursor
  <2>4. qk.curBlockTotalNum - 1 = x \div B
    BY <2>2, <2>3
  <2>5. QED
    BY <2>1, <2>2, <2>3, <2>4
<1>6. /\ idx <= last
      /\ idx < last => done + (B - offset) < len
      /\ idx = last => end - offset = len - done /\ end > offset /\ end <= B
  <2>1. done \in Nat /\ idx \in Nat /\ offset \in 0 .. B - 1 /\ done < len
    BY <1>3, <1>4
  <2>2. /\ first + done = idx * B + offset /\ end \in Int /\ last \in Int
        /\ end = ((first + len - 1) % B) + 1 /\ last = (first + len - 1) \div B
    BY <1>5
  <2>3. PieceAt(B, len, first, done, idx, offset, end, last)
    BY <1>4, <2>1, <2>2 DEF PieceAt
  <2>4. QED
    BY <2>3, PieceFits
<1>7. PICK chunkEnd \in Int :
        /\ chunkEnd = P!AtMost(s.tile, (qk.done \div l1NDynamic + 1) * l1NDynamic)
        /\ chunkEnd > done /\ chunkEnd <= len
  <2>1. l1NDynamic \in Nat \ {0}
    BY <1>2, PagesBasics
  <2>2. PICK z \in Int : z = (done \div l1NDynamic + 1) * l1NDynamic /\ z > done
    BY <1>3, <2>1, ChunkGoesOn
  <2>3. QED
    BY <1>1, <1>3, <1>4, <2>2 DEF P!AtMost
<1>8. PICK size \in Int : size = (IF idx < last THEN B ELSE end) /\ size > offset /\ size <= B
                          /\ (size - offset <= len - done)
  <2>1. B > offset /\ B \in Int /\ offset \in Int
    BY <1>3, <1>4
  <2>2. CASE idx < last
    <3>1. done + (B - offset) < len
      BY <1>6, <2>2
    <3>2. QED
      BY <1>3, <1>4, <2>1, <2>2, <3>1
  <2>3. CASE idx = last
    <3>1. end - offset = len - done /\ end > offset /\ end <= B
      BY <1>6, <2>3
    <3>2. ~ idx < last
      BY <1>3, <2>3
    <3>3. QED
      BY <1>3, <1>4, <1>5, <2>1, <3>1, <3>2
  <2>4. QED
    BY <1>3, <1>5, <1>6, <2>2, <2>3
<1>9. PICK n \in Nat \ {0} : /\ n = P!AtMost(size - offset, chunkEnd - qk.done)
                             /\ done + n <= len /\ offset + n <= B
  BY <1>1, <1>3, <1>4, <1>7, <1>8 DEF P!AtMost
<1>10. /\ run' = run /\ todo' = todo /\ pv' = pv /\ stored' = stored
       /\ loaded' = [loaded EXCEPT !.k = @ \cup P!Rows(s, done, n, P!page(qk), offset)]
       /\ blockStartOffset' = [blockStartOffset EXCEPT !.qk = IF offset + n = B THEN 0 ELSE offset + n]
       /\ done + n = len => qk' = P!Idle /\ issued' = Append(issued, s)
       /\ done + n # len =>
            /\ qk' = [qk EXCEPT !.done = @ + n, !.curBlockIdx = IF offset + n = B THEN @ + 1 ELSE @]
            /\ issued' = issued
  <2>1. n = P!AtMost((IF qk.curBlockIdx < qk.curBlockTotalNum - 1 THEN P!blockSize ELSE qk.blockEnd)
                       - blockStartOffset.qk,
                     P!AtMost(s.tile, (qk.done \div l1NDynamic + 1) * l1NDynamic) - qk.done)
    BY <1>1, <1>4, <1>5, <1>7, <1>8, <1>9
  <2>2. QED
    BY <1>1, <1>4, <2>1 DEF P!LoadK
<1>11. PICK offset2 \in 0 .. B - 1, idx2 \in Nat :
         /\ offset2 = (IF offset + n = B THEN 0 ELSE offset + n)
         /\ idx2 = (IF offset + n = B THEN idx + 1 ELSE idx)
         /\ first + (done + n) = idx2 * B + offset2
  <2>1. PICK v \in Int : v = idx * B /\ (idx + 1) * B = v + B
    BY <1>3, <1>4, NextTimes
  <2>2. first + (done + n) = v + (offset + n)
    <3>1. first + done = v + offset
      BY <1>5, <2>1
    <3>2. first \in Int /\ done \in Int /\ offset \in Int
      BY <1>3, <1>4
    <3>3. QED
      BY <3>1, <3>2
  <2>3. CASE offset + n = B
    BY <1>3, <1>4, <2>1, <2>2, <2>3
  <2>4. CASE offset + n # B
    BY <1>3, <1>4, <1>9, <2>1, <2>2, <2>4
  <2>5. QED
    BY <2>3, <2>4
<1>12. /\ blockStartOffset'.qk = offset2 /\ blockStartOffset'.pv = blockStartOffset.pv
       /\ blockStartOffset' \in [qk : 0 .. P!blockSize - 1, pv : 0 .. P!blockSize - 1]
  BY <1>4, <1>10, <1>11, PagesTypes
<1>13. ASSUME done + n # len
       PROVE  /\ qk' \in Operations /\ qk'.stack = qk.stack /\ qk'.done = done + n
              /\ qk' # P!Idle /\ Cursor(qk', offset2)
  <2>1. PICK op : op = [qk EXCEPT !.done = done + n, !.curBlockIdx = idx2]
    OBVIOUS
  <2>2. qk' = op
    <3>1. qk' = [qk EXCEPT !.done = @ + n, !.curBlockIdx = IF offset + n = B THEN @ + 1 ELSE @]
      BY <1>10, <1>13
    <3>2. CASE offset + n = B
      <4>1. qk' = [qk EXCEPT !.done = @ + n, !.curBlockIdx = @ + 1]
        BY <3>1, <3>2
      <4>2. idx2 = idx + 1
        BY <1>11, <3>2
      <4>3. QED
        BY <1>1, <2>1, <4>1, <4>2
    <3>3. CASE offset + n # B
      <4>1. qk' = [qk EXCEPT !.done = @ + n, !.curBlockIdx = @]
        BY <3>1, <3>3
      <4>2. idx2 = idx
        BY <1>11, <3>3
      <4>3. QED
        BY <1>1, <2>1, <4>1, <4>2
    <3>4. QED
      BY <3>2, <3>3
  <2>3. done + n \in Nat /\ done + n < s.tile
    BY <1>3, <1>4, <1>9, <1>13
  <2>4. /\ op \in Operations /\ op.stack = qk.stack /\ op.done = done + n /\ op.curBlockIdx = idx2
        /\ op.blockEnd = qk.blockEnd /\ op.curBlockTotalNum = qk.curBlockTotalNum
    <3>1. PICK d \in Nat : d = done + n /\ d < qk.stack[1].tile
      BY <1>1, <2>3
    <3>2. op = GoesOn(qk, d, idx2)
      BY <2>1, <3>1 DEF GoesOn
    <3>3. QED
      BY <1>2, <3>1, <3>2, OperationGoesOn
  <2>5. op # P!Idle
    BY <2>4, OperationIs
  <2>6. Cursor(op, offset2)
    BY <1>1, <1>3, <1>4, <1>11, <2>4 DEF Cursor
  <2>7. QED
    BY <2>2, <2>4, <2>5, <2>6
<1>14. FirstRow(s) + done = P!page(qk) * B + offset /\ P!page(qk) \in Int /\ FirstRow(s) \in Nat
  BY <1>1, <1>2, <1>3, <1>4, CursorPlace, StackTypes
<1>15. /\ P!Rows(s, done, n, P!page(qk), offset) \subseteq P!Wanted
       /\ \A r \in FirstRow(s) + done .. FirstRow(s) + done + n - 1 :
            OldRow(s.task, r) \in P!Rows(s, done, n, P!page(qk), offset)
  BY <1>2, <1>3, <1>4, <1>9, <1>14, OldPiece
<1>16. /\ loaded' \in [k : SUBSET P!Wanted, v : SUBSET P!Wanted] /\ loaded'.v = loaded.v
       /\ loaded'.k = loaded.k \cup P!Rows(s, done, n, P!page(qk), offset)
  BY <1>10, <1>15, PagesTypes
<1>17. /\ issued' \in Seq(KvStacks)
       /\ \A append, t, r : Waits(issued, append, t, r) => Waits(issued', append, t, r)
       /\ done + n = len =>
            \A append, t, r : Covers(s, append, t, r) => Waits(issued', append, t, r)
  <2>1. PICK list : list = Append(issued, s)
    OBVIOUS
  <2>2. /\ list \in Seq(KvStacks)
        /\ \A append, t, r : Waits(issued, append, t, r) \/ Covers(s, append, t, r)
             => Waits(list, append, t, r)
    BY <1>3, <2>1, ListAppend, PagesTypes
  <2>3. issued' = IF done + n = len THEN list ELSE issued
    BY <1>10, <2>1
  <2>4. QED
    BY <2>2, <2>3, PagesTypes
<1>18. PagesType'
  BY <1>10, <1>12, <1>13, <1>16, <1>17, PagesTypes, PagesTypeNext
<1>19. CursorInv'
  <2>1. pv # P!Idle /\ ~pv.stack[1].append => Cursor(pv, blockStartOffset.pv)
    BY DEF PagesInv, CursorInv
  <2>2. QED
    BY <1>10, <1>12, <1>13, <2>1, CursorNext
<1>20. OrderInv'
  <2>1. InOrder(todo) /\ (todo # << >> => Follows(s, todo[1]))
    BY <1>1, <1>2 DEF PagesInv, OrderInv
  <2>2. ASSUME todo # << >>, done + n = len
        PROVE  ResumesAt(todo[1], offset2)
    <3>1. PICK u \in KvStacks : u = todo[1]
      BY <2>2, PagesTypes
    <3>2. SUFFICES ASSUME FirstRow(u) = FirstRow(s) + s.tile
                   PROVE  offset2 = P!PVStart(u)
      BY <2>1, <2>2, <3>1 DEF Follows, ResumesAt
    <3>3. P!PVStart(u) = FirstRow(u) % B
      BY <1>2, <1>4, StackTypes
    <3>4. PICK page \in Int, x \in Int, v \in Int :
            page = P!page(qk) /\ x = FirstRow(u) /\ v = page * B /\ x = v + (offset + n)
      <4>1. PICK page \in Int, v \in Int, f \in Nat :
              page = P!page(qk) /\ v = page * B /\ f = FirstRow(s) /\ f + done = v + offset
        BY <1>14
      <4>2. f + len = v + (offset + n)
        <5>1. f + done = v + offset
          BY <4>1
        <5>2. done \in Int /\ offset \in Int /\ done + n = len
          BY <1>3, <2>2
        <5>3. QED
          BY <5>1, <5>2
      <4>3. FirstRow(u) = f + len
        BY <1>4, <3>2, <4>1
      <4>4. QED
        BY <1>3, <4>1, <4>2, <4>3
    <3>5. CASE offset + n = B
      <4>1. x = (page + 1) * B + 0 /\ page + 1 \in Int /\ 0 \in 0 .. B - 1
        BY <3>4, <3>5, NextTimes
      <4>2. x % B = 0
        BY <4>1, DivUnique
      <4>3. QED
        BY <1>11, <3>3, <3>4, <3>5, <4>2
    <3>6. CASE offset + n # B
      <4>1. x = page * B + (offset + n) /\ offset + n \in 0 .. B - 1
        <5>1. x = page * B + (offset + n)
          BY <3>4
        <5>2. offset \in 0 .. B - 1 /\ offset + n <= B
          BY <1>3, <1>4, <1>9
        <5>3. offset + n \in 0 .. B - 1
          BY <3>6, <5>2
        <5>4. QED
          BY <5>1, <5>3
      <4>2. x % B = offset + n
        BY <4>1, DivUnique
      <4>3. QED
        BY <1>11, <3>3, <3>4, <3>6, <4>2
    <3>7. QED
      BY <3>5, <3>6
  <2>3. QED
    BY <1>1, <1>10, <1>12, <1>13, <2>1, <2>2, OrderNext
<1>21. RowsInv'
  <2>1. \A append, t, r :
           /\ Whole(qk, append, t, r) => \/ Whole(qk', append, t, r)
                                         \/ qk' = P!Idle /\ Covers(s, append, t, r)
           /\ Left(qk, append, t, r) => \/ Left(qk', append, t, r)
                                        \/ /\ append = s.append /\ t = s.task
                                           /\ r \in FirstRow(s) + done .. FirstRow(s) + done + n - 1
    <3>1. PICK op2 : op2 = qk'
      OBVIOUS
    <3>2. /\ done + n <= s.tile
          /\ done + n = s.tile => op2 = P!Idle
          /\ done + n # s.tile => op2 \in Operations /\ op2.stack = qk.stack /\ op2.done = done + n
      BY <1>4, <1>9, <1>10, <1>13, <3>1
    <3>3. Shortens(qk, n, op2)
      BY <1>1, <1>2, <3>2 DEF Shortens
    <3>4. \A append, t, r :
           /\ Whole(qk, append, t, r) => \/ Whole(op2, append, t, r)
                                         \/ op2 = P!Idle /\ Covers(s, append, t, r)
           /\ Left(qk, append, t, r) => \/ Left(op2, append, t, r)
                                        \/ /\ append = s.append /\ t = s.task
                                           /\ r \in FirstRow(s) + done .. FirstRow(s) + done + n - 1
      BY <1>1, <1>2, <3>3, PieceLeaves
    <3>5. QED
      BY <3>1, <3>4
  <2>2. qk' = P!Idle => done + n = len
    BY <1>13
  <2>3. ASSUME NEW t, NEW r
        PROVE  /\ ComesK(FALSE, t, r) => ComesKTo(FALSE, t, r) \/ OldRow(t, r) \in loaded'.k
               /\ ComesK(TRUE, t, r) => ComesKTo(TRUE, t, r)
    BY <1>2, <1>10, <1>15, <1>16, <2>1 DEF ComesK, ComesKTo
  <2>4. ASSUME NEW append, NEW t, NEW r
        PROVE  ComesV(append, t, r) => ComesVTo(append, t, r)
    BY <1>10, <1>17, <2>1, <2>2 DEF ComesV, ComesVTo
  <2>5. RowsInv
    BY DEF PagesInv
  <2>6. QED
    BY <1>10, <1>16, <2>3, <2>4, <2>5, RowsGoOn
<1>22. QED
  BY <1>18, <1>19, <1>20, <1>21 DEF PagesInv

LEMMA LoadVKeeps ==
  ASSUME PagesInv, P!LoadV
  PROVE  PagesInv'
<1>1. PICK s, offset, done, idx :
        s = pv.stack[1] /\ offset = blockStartOffset.pv /\ done = pv.done /\ idx = pv.curBlockIdx
  OBVIOUS
<1>2. run \in Runs /\ pv \in Operations /\ ~s.append /\ pv # P!Idle
  BY <1>1, PagesTypes DEF P!LoadV
<1>3. /\ s \in KvStacks /\ done \in Nat /\ done < s.tile /\ idx \in Nat
      /\ offset \in 0 .. P!blockSize - 1 /\ Cursor(pv, offset)
  BY <1>1, <1>2, OperationIs, PagesTypes DEF PagesInv, CursorInv
<1>4. PICK B \in Nat \ {0}, len \in Nat \ {0}, first \in Nat :
        B = P!blockSize /\ len = s.tile /\ first = P!PVStart(s) /\ first \in 0 .. B - 1
  BY <1>2, <1>3, PagesBasics, StackTypes
<1>5. PICK end, last :
        /\ first + done = idx * B + offset /\ end = pv.blockEnd /\ last = pv.curBlockTotalNum - 1
        /\ end \in Int /\ last \in Int
        /\ end = ((first + len - 1) % B) + 1 /\ last = (first + len - 1) \div B
  <2>1. PICK x \in Int : x = first + len - 1
    OBVIOUS
  <2>2. x \div B \in Int /\ pv.blockEnd \in Int /\ pv.curBlockTotalNum \in Int
    BY <1>2, DivIs, OperationIs
  <2>3. first + done = idx * B + offset /\ pv.blockEnd = (x % B) + 1
        /\ pv.curBlockTotalNum = (x \div B) + 1
    BY <1>1, <1>3, <1>4, <2>1 DEF Cursor
  <2>4. pv.curBlockTotalNum - 1 = x \div B
    BY <2>2, <2>3
  <2>5. QED
    BY <2>1, <2>2, <2>3, <2>4
<1>6. /\ idx <= last
      /\ idx < last => done + (B - offset) < len
      /\ idx = last => end - offset = len - done /\ end > offset /\ end <= B
  <2>1. done \in Nat /\ idx \in Nat /\ offset \in 0 .. B - 1 /\ done < len
    BY <1>3, <1>4
  <2>2. /\ first + done = idx * B + offset /\ end \in Int /\ last \in Int
        /\ end = ((first + len - 1) % B) + 1 /\ last = (first + len - 1) \div B
    BY <1>5
  <2>3. PieceAt(B, len, first, done, idx, offset, end, last)
    BY <1>4, <2>1, <2>2 DEF PieceAt
  <2>4. QED
    BY <2>3, PieceFits
<1>7. PICK n \in Nat \ {0} :
        /\ n = (IF idx = last THEN end ELSE B) - offset
        /\ done + n <= len /\ offset + n <= B
        /\ idx = last <=> done + n = len
        /\ idx # last => offset + n = B
  <2>1. offset \in Int /\ B > offset /\ done \in Int /\ end \in Int
    BY <1>3, <1>4, <1>5
  <2>2. CASE idx = last
    <3>1. end - offset = len - done /\ end > offset /\ end <= B
      BY <1>6, <2>2
    <3>2. QED
      BY <2>1, <2>2, <3>1
  <2>3. CASE idx # last
    <3>1. done + (B - offset) < len
      BY <1>3, <1>5, <1>6, <2>3
    <3>2. QED
      BY <2>1, <2>3, <3>1
  <2>4. QED
    BY <2>2, <2>3
<1>8. /\ run' = run /\ todo' = todo /\ issued' = issued /\ qk' = qk /\ stored' = stored
      /\ loaded' = [loaded EXCEPT !.v = @ \cup P!Rows(s, done, n, P!page(pv), offset)]
      /\ blockStartOffset' = [blockStartOffset EXCEPT !.pv = IF offset + n = B THEN 0 ELSE offset + n]
      /\ done + n = len => pv' = P!Idle
      /\ done + n # len => pv' = [pv EXCEPT !.done = @ + n, !.curBlockIdx = @ + 1]
  <2>1. n = (IF pv.curBlockIdx = pv.curBlockTotalNum - 1 THEN pv.blockEnd ELSE P!blockSize)
              - blockStartOffset.pv
    BY <1>1, <1>4, <1>5, <1>7
  <2>2. pv.curBlockIdx = pv.curBlockTotalNum - 1 <=> done + n = len
    BY <1>1, <1>5, <1>7
  <2>3. QED
    BY <1>1, <1>4, <2>1, <2>2 DEF P!LoadV
<1>9. PICK offset2 \in 0 .. B - 1 : offset2 = (IF offset + n = B THEN 0 ELSE offset + n)
  BY <1>3, <1>4, <1>7
<1>10. /\ blockStartOffset'.pv = offset2 /\ blockStartOffset'.qk = blockStartOffset.qk
       /\ blockStartOffset' \in [qk : 0 .. P!blockSize - 1, pv : 0 .. P!blockSize - 1]
  BY <1>4, <1>8, <1>9, PagesTypes
<1>11. ASSUME done + n # len
       PROVE  /\ pv' \in Operations /\ pv'.stack = pv.stack /\ pv'.done = done + n
              /\ pv' # P!Idle /\ Cursor(pv', offset2)
  <2>1. PICK d \in Nat, i \in Nat : d = done + n /\ d < pv.stack[1].tile /\ i = idx + 1
    BY <1>1, <1>3, <1>4, <1>7, <1>11
  <2>2. PICK op : op = GoesOn(pv, d, i)
    OBVIOUS
  <2>3. pv' = op
    BY <1>1, <1>8, <1>11, <2>1, <2>2 DEF GoesOn
  <2>4. /\ op \in Operations /\ op.stack = pv.stack /\ op.done = d /\ op.curBlockIdx = i
        /\ op.blockEnd = pv.blockEnd /\ op.curBlockTotalNum = pv.curBlockTotalNum
    BY <1>2, <2>1, <2>2, OperationGoesOn
  <2>5. op # P!Idle
    BY <2>4, OperationIs
  <2>6. first + d = i * B + offset2
    <3>1. PICK v \in Int : v = idx * B /\ (idx + 1) * B = v + B
      BY <1>3, <1>4, NextTimes
    <3>2. first + done = v + offset
      BY <1>5, <3>1
    <3>3. offset + n = B /\ offset2 = 0
      BY <1>7, <1>9, <1>11
    <3>4. first + d = v + B
      <4>1. offset \in Int /\ done \in Int
        BY <1>3
      <4>2. QED
        BY <2>1, <3>2, <3>3, <4>1
    <3>5. i * B = v + B
      BY <2>1, <3>1
    <3>6. QED
      BY <3>3, <3>4, <3>5
  <2>7. Cursor(op, offset2)
    BY <1>1, <1>3, <1>4, <2>4, <2>6 DEF Cursor
  <2>8. QED
    BY <2>1, <2>3, <2>4, <2>5, <2>7
<1>12. FirstRow(s) + done = P!page(pv) * B + offset /\ P!page(pv) \in Int
  BY <1>1, <1>2, <1>3, <1>4, CursorPlace
<1>13. /\ P!Rows(s, done, n, P!page(pv), offset) \subseteq P!Wanted
       /\ \A r \in FirstRow(s) + done .. FirstRow(s) + done + n - 1 :
            OldRow(s.task, r) \in P!Rows(s, done, n, P!page(pv), offset)
  BY <1>2, <1>3, <1>4, <1>7, <1>12, OldPiece
<1>14. /\ loaded' \in [k : SUBSET P!Wanted, v : SUBSET P!Wanted] /\ loaded'.k = loaded.k
       /\ loaded'.v = loaded.v \cup P!Rows(s, done, n, P!page(pv), offset)
  BY <1>8, <1>13, PagesTypes
<1>15. PagesType'
  BY <1>8, <1>10, <1>11, <1>14, PagesTypes, PagesTypeNext
<1>16. CursorInv'
  <2>1. qk # P!Idle /\ ~qk.stack[1].append => Cursor(qk, blockStartOffset.qk)
    BY DEF PagesInv, CursorInv
  <2>2. QED
    BY <1>8, <1>10, <1>11, <2>1, CursorNext
<1>17. OrderInv'
  <2>1. /\ InOrder(todo)
        /\ todo # << >> => /\ qk = P!Idle => ResumesAt(todo[1], blockStartOffset.qk)
                           /\ qk # P!Idle => Follows(qk.stack[1], todo[1])
    BY DEF PagesInv, OrderInv, Resumes, ResumesAt
  <2>2. QED
    BY <1>8, <1>10, <2>1, OrderNext
<1>18. RowsInv'
  <2>1. \A append, t, r : Left(pv, append, t, r)
          => \/ Left(pv', append, t, r)
             \/ /\ append = s.append /\ t = s.task
                /\ r \in FirstRow(s) + done .. FirstRow(s) + done + n - 1
    <3>1. PICK op2 : op2 = pv'
      OBVIOUS
    <3>2. /\ done + n <= s.tile
          /\ done + n = s.tile => op2 = P!Idle
          /\ done + n # s.tile => op2 \in Operations /\ op2.stack = pv.stack /\ op2.done = done + n
      BY <1>4, <1>7, <1>8, <1>11, <3>1
    <3>3. Shortens(pv, n, op2)
      BY <1>1, <1>2, <3>2 DEF Shortens
    <3>4. \A append, t, r : Left(pv, append, t, r)
            => \/ Left(op2, append, t, r)
               \/ /\ append = s.append /\ t = s.task
                  /\ r \in FirstRow(s) + done .. FirstRow(s) + done + n - 1
      BY <1>1, <1>2, <3>3, PieceLeaves
    <3>5. QED
      BY <3>1, <3>4
  <2>2. ASSUME NEW append, NEW t, NEW r
        PROVE  ComesK(append, t, r) => ComesKTo(append, t, r)
    BY <1>8 DEF ComesK, ComesKTo
  <2>3. ASSUME NEW t, NEW r
        PROVE  /\ ComesV(FALSE, t, r) => ComesVTo(FALSE, t, r) \/ OldRow(t, r) \in loaded'.v
               /\ ComesV(TRUE, t, r) => ComesVTo(TRUE, t, r)
    BY <1>2, <1>8, <1>13, <1>14, <2>1 DEF ComesV, ComesVTo
  <2>4. RowsInv
    BY DEF PagesInv
  <2>5. QED
    BY <1>8, <1>14, <2>2, <2>3, <2>4, RowsGoOn
<1>19. QED
  BY <1>15, <1>16, <1>17, <1>18 DEF PagesInv

(* A piece of new rows is not empty, and goes to where the rows belong.    *)
LEMMA PieceIs ==
  ASSUME run \in Runs, NEW s \in KvStacks, s.append, NEW at \in Nat, NEW end \in Nat,
         at < end, end <= s.tile, NEW p, p = P!Piece(s, at, end)
  PROVE  /\ p.len \in Nat \ {0} /\ at + p.len <= end /\ p.rows \subseteq P!Appended
         /\ \A r \in FirstRow(s) + at .. FirstRow(s) + at + p.len - 1 : NewRow(s.task, r) \in p.rows
<1>1. PICK B \in Nat \ {0}, x \in Nat, first \in Nat, rows \in Nat :
        /\ B = P!blockSize /\ first = FirstRow(s) /\ rows = run.tasks[s.task].len
        /\ x = rows + first + at /\ first = s.nIdx * MAX_KV_STACK_LEN
  <2>1. P!blockSize \in Nat \ {0} /\ FirstRow(s) \in Nat /\ run.tasks[s.task].len \in Nat
        /\ FirstRow(s) = s.nIdx * MAX_KV_STACK_LEN
    BY PagesBasics, StackTypes
  <2>2. run.tasks[s.task].len + FirstRow(s) + at \in Nat
    BY <2>1
  <2>3. QED
    BY <2>1, <2>2
<1>2. PICK page \in Int, row \in 0 .. B - 1, u \in Int :
        x \div B = page /\ x % B = row /\ u = page * B /\ x = u + row
  BY DivPick
<1>3. PICK n \in Nat \ {0} : n = P!AtMost(end - at, B - row) /\ at + n <= end /\ row + n <= B
  BY DEF P!AtMost
<1>4. p = [len |-> n, rows |-> P!Rows(s, at, n, page, row)]
  <2>1. P!appendCacheRowBase(s) + at = x
    BY <1>1 DEF P!appendCacheRowBase
  <2>2. p = [len |-> P!AtMost(end - at, B - row),
             rows |-> P!Rows(s, at, P!AtMost(end - at, B - row), page, row)]
    BY <1>1, <1>2, <2>1 DEF P!Piece
  <2>3. QED
    BY <1>3, <2>2
<1>5. p.len = n /\ p.rows = P!Rows(s, at, n, page, row)
  BY <1>4
<1>6. /\ P!Rows(s, at, n, page, row) \subseteq P!Appended
      /\ \A r \in FirstRow(s) + at .. FirstRow(s) + at + n - 1 :
           NewRow(s.task, r) \in P!Rows(s, at, n, page, row)
  <2>1. run.tasks[s.task].len + FirstRow(s) + at = page * P!blockSize + row
    BY <1>1, <1>2
  <2>2. at + n <= s.tile /\ row \in 0 .. P!blockSize - 1 /\ row + n <= P!blockSize
    <3>1. s.tile \in Nat
      BY StackTypes
    <3>2. QED
      BY <1>1, <1>3, <3>1
  <2>3. QED
    BY <2>1, <2>2, NewPiece
<1>7. QED
  BY <1>3, <1>5, <1>6

DoneTo(op, d) == [op EXCEPT !.done = d]
LEMMA OperationDoneTo ==
  ASSUME NEW op \in Operations, NEW d \in Nat, d < op.stack[1].tile
  PROVE  /\ DoneTo(op, d) \in Operations /\ DoneTo(op, d).stack = op.stack /\ DoneTo(op, d).done = d
BY DEF Operations, DoneTo

LEMMA StoreKKeeps ==
  ASSUME PagesInv, P!StoreK
  PROVE  PagesInv'
<1>1. PICK s, done : s = qk.stack[1] /\ done = qk.done
  OBVIOUS
<1>2. run \in Runs /\ qk \in Operations /\ s.append /\ qk # P!Idle
  BY <1>1, PagesTypes DEF P!StoreK
<1>3. s \in KvStacks /\ done \in Nat /\ done < s.tile
  BY <1>1, <1>2, OperationIs
<1>4. PICK len \in Nat \ {0} : len = s.tile
  BY <1>2, <1>3, StackTypes
<1>5. PICK chunkEnd \in Nat :
        /\ chunkEnd = P!AtMost(s.tile, (qk.done \div l1NDynamic + 1) * l1NDynamic)
        /\ chunkEnd > done /\ chunkEnd <= len
  <2>1. l1NDynamic \in Nat \ {0}
    BY <1>2, PagesBasics
  <2>2. PICK z \in Int : z = (done \div l1NDynamic + 1) * l1NDynamic /\ z > done
    BY <1>3, <2>1, ChunkGoesOn
  <2>3. QED
    BY <1>1, <1>3, <1>4, <2>2 DEF P!AtMost
<1>6. PICK p : p = P!Piece(s, done, chunkEnd)
  OBVIOUS
<1>7. /\ p.len \in Nat \ {0} /\ done + p.len <= chunkEnd /\ p.rows \subseteq P!Appended
      /\ \A r \in FirstRow(s) + done .. FirstRow(s) + done + p.len - 1 : NewRow(s.task, r) \in p.rows
  BY <1>2, <1>3, <1>4, <1>5, <1>6, PieceIs
<1>8. PICK n \in Nat \ {0} : n = p.len /\ done + n <= len
  BY <1>3, <1>4, <1>5, <1>7
<1>9. /\ run' = run /\ todo' = todo /\ pv' = pv /\ loaded' = loaded
      /\ blockStartOffset' = blockStartOffset
      /\ stored' = [stored EXCEPT !.k = @ \cup p.rows]
      /\ done + n = len => qk' = P!Idle /\ issued' = Append(issued, s)
      /\ done + n # len => qk' = [qk EXCEPT !.done = @ + n] /\ issued' = issued
  <2>1. p = P!Piece(s, qk.done, P!AtMost(s.tile, (qk.done \div l1NDynamic + 1) * l1NDynamic))
    BY <1>1, <1>5, <1>6
  <2>2. QED
    BY <1>1, <1>4, <1>8, <2>1 DEF P!StoreK
<1>10. ASSUME done + n # len
       PROVE  /\ qk' \in Operations /\ qk'.stack = qk.stack /\ qk'.done = done + n /\ qk' # P!Idle
  <2>1. PICK d \in Nat : d = done + n /\ d < qk.stack[1].tile
    BY <1>1, <1>3, <1>4, <1>8, <1>10
  <2>2. PICK op : op = DoneTo(qk, d)
    OBVIOUS
  <2>3. qk' = op
    BY <1>1, <1>9, <1>10, <2>1, <2>2 DEF DoneTo
  <2>4. op \in Operations /\ op.stack = qk.stack /\ op.done = d
    BY <1>2, <2>1, <2>2, OperationDoneTo
  <2>5. op # P!Idle
    BY <2>4, OperationIs
  <2>6. QED
    BY <2>1, <2>3, <2>4, <2>5
<1>11. /\ stored' \in [k : SUBSET P!Appended, v : SUBSET P!Appended] /\ stored'.v = stored.v
       /\ stored'.k = stored.k \cup p.rows
  BY <1>7, <1>9, PagesTypes
<1>12. /\ issued' \in Seq(KvStacks)
       /\ \A append, t, r : Waits(issued, append, t, r) => Waits(issued', append, t, r)
       /\ done + n = len =>
            \A append, t, r : Covers(s, append, t, r) => Waits(issued', append, t, r)
  <2>1. PICK list : list = Append(issued, s)
    OBVIOUS
  <2>2. /\ list \in Seq(KvStacks)
        /\ \A append, t, r : Waits(issued, append, t, r) \/ Covers(s, append, t, r)
             => Waits(list, append, t, r)
    BY <1>3, <2>1, ListAppend, PagesTypes
  <2>3. issued' = IF done + n = len THEN list ELSE issued
    BY <1>9, <2>1
  <2>4. QED
    BY <2>2, <2>3, PagesTypes
<1>13. PagesType'
  BY <1>9, <1>10, <1>11, <1>12, PagesTypes, PagesTypeNext
<1>14. CursorInv'
  <2>1. pv # P!Idle /\ ~pv.stack[1].append => Cursor(pv, blockStartOffset.pv)
    BY DEF PagesInv, CursorInv
  <2>2. qk' # P!Idle => qk'.stack[1].append
    BY <1>1, <1>2, <1>9, <1>10
  <2>3. QED
    BY <1>9, <2>1, <2>2, CursorNext
<1>15. OrderInv'
  <2>1. InOrder(todo) /\ (todo # << >> => Follows(s, todo[1]))
    BY <1>1, <1>2 DEF PagesInv, OrderInv
  <2>2. todo # << >> => Fresh(todo[1])
    BY <1>2, <2>1 DEF Follows
  <2>3. QED
    BY <1>1, <1>9, <1>10, <2>1, <2>2, OrderNext DEF ResumesAt
<1>16. RowsInv'
  <2>1. \A append, t, r :
           /\ Whole(qk, append, t, r) => \/ Whole(qk', append, t, r)
                                         \/ qk' = P!Idle /\ Covers(s, append, t, r)
           /\ Left(qk, append, t, r) => \/ Left(qk', append, t, r)
                                        \/ /\ append = s.append /\ t = s.task
                                           /\ r \in FirstRow(s) + done .. FirstRow(s) + done + n - 1
    <3>1. PICK op2 : op2 = qk'
      OBVIOUS
    <3>2. /\ done + n <= s.tile
          /\ done + n = s.tile => op2 = P!Idle
          /\ done + n # s.tile => op2 \in Operations /\ op2.stack = qk.stack /\ op2.done = done + n
      BY <1>4, <1>8, <1>9, <1>10, <3>1
    <3>3. Shortens(qk, n, op2) /\ run \in Runs
      BY <1>1, <1>2, <3>2 DEF Shortens
    <3>4. \A append, t, r :
           /\ Whole(qk, append, t, r) => \/ Whole(op2, append, t, r)
                                         \/ op2 = P!Idle /\ Covers(s, append, t, r)
           /\ Left(qk, append, t, r) => \/ Left(op2, append, t, r)
                                        \/ /\ append = s.append /\ t = s.task
                                           /\ r \in FirstRow(s) + done .. FirstRow(s) + done + n - 1
      BY <1>1, <3>3, PieceLeaves
    <3>5. QED
      BY <3>1, <3>4
  <2>2. qk' = P!Idle => done + n = len
    BY <1>10
  <2>3. s.append = TRUE
    BY <1>2, <1>3, StackTypes
  <2>4. ASSUME NEW t, NEW r
        PROVE  /\ ComesK(TRUE, t, r) => ComesKTo(TRUE, t, r) \/ NewRow(t, r) \in stored'.k
               /\ ComesK(FALSE, t, r) => ComesKTo(FALSE, t, r)
    BY <1>7, <1>8, <1>9, <1>11, <2>1, <2>3 DEF ComesK, ComesKTo
  <2>5. ASSUME NEW append, NEW t, NEW r
        PROVE  ComesV(append, t, r) => ComesVTo(append, t, r)
    BY <1>9, <1>12, <2>1, <2>2 DEF ComesV, ComesVTo
  <2>6. RowsInv
    BY DEF PagesInv
  <2>7. QED
    BY <1>9, <1>11, <2>4, <2>5, <2>6, RowsGoOn
<1>17. QED
  BY <1>13, <1>14, <1>15, <1>16 DEF PagesInv

LEMMA StoreVKeeps ==
  ASSUME PagesInv, P!StoreV
  PROVE  PagesInv'
<1>1. PICK s, done : s = pv.stack[1] /\ done = pv.done
  OBVIOUS
<1>2. run \in Runs /\ pv \in Operations /\ s.append /\ pv # P!Idle
  BY <1>1, PagesTypes DEF P!StoreV
<1>3. s \in KvStacks /\ done \in Nat /\ done < s.tile
  BY <1>1, <1>2, OperationIs
<1>4. PICK len \in Nat \ {0} : len = s.tile
  BY <1>2, <1>3, StackTypes
<1>5. PICK p : p = P!Piece(s, done, len)
  OBVIOUS
<1>6. /\ p.len \in Nat \ {0} /\ done + p.len <= len /\ p.rows \subseteq P!Appended
      /\ \A r \in FirstRow(s) + done .. FirstRow(s) + done + p.len - 1 : NewRow(s.task, r) \in p.rows
  BY <1>2, <1>3, <1>4, <1>5, PieceIs
<1>7. PICK n \in Nat \ {0} : n = p.len /\ done + n <= len
  BY <1>6
<1>8. /\ run' = run /\ todo' = todo /\ issued' = issued /\ qk' = qk /\ loaded' = loaded
      /\ blockStartOffset' = blockStartOffset
      /\ stored' = [stored EXCEPT !.v = @ \cup p.rows]
      /\ done + n = len => pv' = P!Idle
      /\ done + n # len => pv' = [pv EXCEPT !.done = @ + n]
  <2>1. p = P!Piece(s, pv.done, s.tile)
    BY <1>1, <1>4, <1>5
  <2>2. QED
    BY <1>1, <1>4, <1>7, <2>1 DEF P!StoreV
<1>9. ASSUME done + n # len
      PROVE  /\ pv' \in Operations /\ pv'.stack = pv.stack /\ pv'.done = done + n /\ pv' # P!Idle
  <2>1. PICK d \in Nat : d = done + n /\ d < pv.stack[1].tile
    BY <1>1, <1>3, <1>4, <1>7, <1>9
  <2>2. PICK op : op = DoneTo(pv, d)
    OBVIOUS
  <2>3. pv' = op
    BY <1>1, <1>8, <1>9, <2>1, <2>2 DEF DoneTo
  <2>4. op \in Operations /\ op.stack = pv.stack /\ op.done = d
    BY <1>2, <2>1, <2>2, OperationDoneTo
  <2>5. op # P!Idle
    BY <2>4, OperationIs
  <2>6. QED
    BY <2>1, <2>3, <2>4, <2>5
<1>10. /\ stored' \in [k : SUBSET P!Appended, v : SUBSET P!Appended] /\ stored'.k = stored.k
       /\ stored'.v = stored.v \cup p.rows
  BY <1>6, <1>8, PagesTypes
<1>11. PagesType'
  BY <1>8, <1>9, <1>10, PagesTypes, PagesTypeNext
<1>12. CursorInv'
  <2>1. qk # P!Idle /\ ~qk.stack[1].append => Cursor(qk, blockStartOffset.qk)
    BY DEF PagesInv, CursorInv
  <2>2. pv' # P!Idle => pv'.stack[1].append
    BY <1>1, <1>2, <1>8, <1>9
  <2>3. QED
    BY <1>8, <2>1, <2>2, CursorNext
<1>13. OrderInv'
  <2>1. /\ InOrder(todo)
        /\ todo # << >> => /\ qk = P!Idle => ResumesAt(todo[1], blockStartOffset.qk)
                           /\ qk # P!Idle => Follows(qk.stack[1], todo[1])
    BY DEF PagesInv, OrderInv, Resumes, ResumesAt
  <2>2. QED
    BY <1>8, <2>1, OrderNext
<1>14. RowsInv'
  <2>1. \A append, t, r : Left(pv, append, t, r)
          => \/ Left(pv', append, t, r)
             \/ /\ append = s.append /\ t = s.task
                /\ r \in FirstRow(s) + done .. FirstRow(s) + done + n - 1
    <3>1. PICK op2 : op2 = pv'
      OBVIOUS
    <3>2. /\ done + n <= s.tile
          /\ done + n = s.tile => op2 = P!Idle
          /\ done + n # s.tile => op2 \in Operations /\ op2.stack = pv.stack /\ op2.done = done + n
      BY <1>4, <1>7, <1>8, <1>9, <3>1
    <3>3. Shortens(pv, n, op2) /\ run \in Runs
      BY <1>1, <1>2, <3>2 DEF Shortens
    <3>4. \A append, t, r : Left(pv, append, t, r)
            => \/ Left(op2, append, t, r)
               \/ /\ append = s.append /\ t = s.task
                  /\ r \in FirstRow(s) + done .. FirstRow(s) + done + n - 1
      BY <1>1, <3>3, PieceLeaves
    <3>5. QED
      BY <3>1, <3>4
  <2>2. s.append = TRUE
    BY <1>2, <1>3, StackTypes
  <2>3. ASSUME NEW append, NEW t, NEW r
        PROVE  ComesK(append, t, r) => ComesKTo(append, t, r)
    BY <1>8 DEF ComesK, ComesKTo
  <2>4. ASSUME NEW t, NEW r
        PROVE  /\ ComesV(TRUE, t, r) => ComesVTo(TRUE, t, r) \/ NewRow(t, r) \in stored'.v
               /\ ComesV(FALSE, t, r) => ComesVTo(FALSE, t, r)
    BY <1>6, <1>7, <1>8, <1>10, <2>1, <2>2 DEF ComesV, ComesVTo
  <2>5. RowsInv
    BY DEF PagesInv
  <2>6. QED
    BY <1>8, <1>10, <2>3, <2>4, <2>5, RowsGoOn
<1>15. QED
  BY <1>11, <1>12, <1>13, <1>14 DEF PagesInv

LEMMA PagesInvStays ==
  ASSUME PagesInv, UNCHANGED pageVars
  PROVE  PagesInv'
<1> USE DEF pageVars
<1>1. PagesType'
  BY PagesTypes, PagesTypeNext
<1>2. CursorInv'
  BY CursorNext DEF PagesInv, CursorInv
<1>3. OrderInv'
  <2>1. /\ InOrder(todo)
        /\ todo # << >> => /\ qk = P!Idle => ResumesAt(todo[1], blockStartOffset.qk)
                           /\ qk # P!Idle => Follows(qk.stack[1], todo[1])
    BY DEF PagesInv, OrderInv, Resumes, ResumesAt
  <2>2. QED
    BY <2>1, OrderNext
<1>4. RowsInv'
  <2>1. RowsInv
    BY DEF PagesInv
  <2>2. \A append, t, r : /\ ComesK(append, t, r) => ComesKTo(append, t, r)
                          /\ ComesV(append, t, r) => ComesVTo(append, t, r)
    BY DEF ComesK, ComesV, ComesKTo, ComesVTo
  <2>3. QED
    BY <2>1, <2>2, RowsGoOn
<1>5. QED
  BY <1>1, <1>2, <1>3, <1>4 DEF PagesInv

LEMMA PagesInvStep ==
  ASSUME PagesInv, P!Next \/ UNCHANGED pageVars
  PROVE  PagesInv'
<1>1. CASE P!Terminated
  <2>1. UNCHANGED pageVars
    BY <1>1 DEF P!Terminated, P!vars, pageVars
  <2>2. QED
    BY <2>1, PagesInvStays
<1>2. QED
  BY <1>1, BeginQKKeeps, LoadKKeeps, StoreKKeeps, BeginPVKeeps, LoadVKeeps, StoreVKeeps, PagesInvStays
     DEF P!Next

-----------------------------------------------------------------------------
(* The theorems.                                                           *)

PartsInv == part = "pages" => PagesInv

(* Every behaviour of the five parts keeps the invariant of the pages.     *)
LEMMA PartsInvAlways == Spec => []PartsInv
<1>1. Init => PartsInv
  BY PagesInvInit DEF Init, PartsInv
<1>2. PartsInv /\ [Next]_vars => PartsInv'
  <2>1. SUFFICES ASSUME PartsInv, [Next]_vars, part' = "pages"
                 PROVE  PagesInv'
    BY DEF PartsInv
  <2>2. part = "pages" /\ (P!Next \/ UNCHANGED pageVars)
    BY <2>1 DEF Next, vars
  <2>3. QED
    BY <2>1, <2>2, PagesInvStep DEF PartsInv
<1>3. QED
  BY <1>1, <1>2, PTL DEF Spec

(* Keys and values of paged tasks are read from their rows of their pages, *)
(* every one of them, wherever stacks, chunks and pages end: the cursor    *)
(* that the QK operation carries from stack to stack (setBlockParam and    *)
(* resetBlockStart of qk_matmul.hpp) never goes astray.                    *)
THEOREM PagesRead == Spec => []RowsOfPages
<1>1. PartsInv => RowsOfPages
  BY PagesInvImplies DEF PartsInv, RowsOfPages
<1>2. QED
  BY <1>1, PartsInvAlways, PTL

(* New keys and values are stored where a later launch looks for them.     *)
THEOREM PagesWritten == Spec => []NewRowsInPlace
<1>1. PartsInv => NewRowsInPlace
  BY PagesInvImplies DEF PartsInv, NewRowsInPlace
<1>2. QED
  BY <1>1, PartsInvAlways, PTL

-----------------------------------------------------------------------------
(* The range of keys of a tile, and the masks of its blocks.               *)

(* Block k of the walk holds these keys, and the blocks before it these. *)
IsNew(k) == R!appendKVFlag /\ k >= R!kvSLoopNumTotalOld
BlockStart(k) == IF IsNew(k) THEN seq.kv + (k - R!kvSLoopNumTotalOld) * RANGE_STACK_LEN
                 ELSE k * RANGE_STACK_LEN
BlockEnd(k) == IF IsNew(k)
               THEN R!AtMost(R!kvSeqlen, seq.kv + (k + 1 - R!kvSLoopNumTotalOld) * RANGE_STACK_LEN)
               ELSE R!AtMost(R!OldEnd, (k + 1) * RANGE_STACK_LEN)
BlockKeys(k) == BlockStart(k) .. BlockEnd(k) - 1
WalkedTo(k) == UNION {BlockKeys(b) : b \in R!winKvStart .. k - 1}

(* The mask, as the kernel has it: which sides are open, and whether row r *)
(* sees key j.                                                             *)
RightOpen == R!maskType = 0 \/ (R!maskType = 2 /\ R!notNextMask)
LeftOpen == R!maskType # 2 \/ R!notPreMask
Sees(r, j) == /\ RightOpen \/ j <= r + R!diffS + R!Window.right
              /\ LeftOpen \/ j >= r + R!diffS - R!Window.left
ScoresOf(keys) == {x \in R!Tokens \X keys : Sees(R!Row(x[1]), x[2])}

(* The keys that the tile has walked by. *)
Behind == CASE pc = "begin" -> IF seq.decode THEN WalkedTo(st) ELSE {}
            [] pc = "walk" -> WalkedTo(kvSIdx)
            [] pc = "end" -> WalkedTo(R!kvEnd)
            [] pc = "done" -> {}

Placed ==
  /\ seq \in Ranges /\ cuts \subseteq 1 .. R!curKSBlockNum - 1
  /\ pc \in {"begin", "walk", "end", "done"}
  /\ rangeTile \in 0 .. R!curQSBlockNum /\ (pc = "done" <=> rangeTile = R!curQSBlockNum)
  /\ st \in Nat /\ (~seq.decode \/ pc = "done" => st = 0)
  /\ seq.decode /\ pc # "done" => st < R!curKSBlockNum \/ (st = 0 /\ R!curKSBlockNum = 0)
  /\ kvSIdx \in 0 .. R!curKSBlockNum
Walking ==
  /\ pc = "walk" => R!kvStart <= kvSIdx /\ kvSIdx < R!kvEnd
  /\ pc = "end" => R!kvStart < R!kvEnd
Scored == seen = Behind /\ scored = ScoresOf(seen)
CacheKept ==
  /\ read \subseteq 0 .. seq.kv - 1
  /\ cache \in [0 .. R!kvSeqlen - 1 -> (0 .. R!kvSeqlen - 1) \cup {Unset}]
  /\ \A r \in 0 .. R!kvSeqlen - 1 :
       \/ r < seq.kv
       \/ rangeTile > R!copybackBlockIdx
       \/ rangeTile = R!copybackBlockIdx /\ r \in seen
       => cache[r] = r
RowIsRight(r) == R!Visible(r) # {} \/ ~seq.decode => out[r] = R!Visible(r)
Written ==
  /\ DOMAIN out = 0 .. seq.q - 1
  /\ \A r \in 0 .. seq.q - 1 :
       /\ out[r] = Unset \/ out[r] \subseteq 0 .. R!kvSeqlen - 1
       /\ r < rangeTile * RANGE_TILE => RowIsRight(r)
RangeInv == Placed /\ Walking /\ Scored /\ CacheKept /\ Written

-----------------------------------------------------------------------------
(* What is known of a sequence, and of its mask. *)
LEMMA RSeq ==
  ASSUME seq \in Ranges
  PROVE  /\ seq.q \in Nat \ {0} /\ seq.kv \in Nat /\ seq.new \in Nat /\ seq.bIdx \in Nat
         /\ seq.maxQ \in Nat /\ seq.maxK \in Nat /\ seq.left \in Int /\ seq.right \in Int
         /\ seq.causal \in BOOLEAN /\ seq.decode \in BOOLEAN
         /\ seq.q <= seq.maxQ \/ seq.maxQ = 0
         /\ seq.kv + seq.new <= seq.maxK \/ seq.maxK = 0
         /\ seq.kv + seq.new < WORD
         /\ seq.new # 0 \/ seq.decode => ~R!isLocal(seq)
         /\ seq.decode => seq.q <= RANGE_TILE
         /\ RANGE_TILE \in Nat \ {0} /\ RANGE_STACK_LEN \in Nat \ {0} /\ WORD \in Nat \ {0}
         /\ R!kvSeqlen \in Nat /\ R!diffS \in Int
         /\ R!kvSeqlen = seq.kv + seq.new /\ R!diffS = R!kvSeqlen - seq.q
BY TilesAssumption DEF R!SequencesAssumption, R!kvSeqlen, R!diffS, R!qSeqlen

LEMMA RMask ==
  ASSUME seq \in Ranges
  PROVE  /\ R!Window.left \in Int /\ R!Window.right \in Int
         /\ R!Window.left >= -1 /\ R!Window.right >= -1
         /\ R!maskType \in {0, 1, 2}
         /\ R!maskType = 0 <=> R!Window.left < 0 /\ R!Window.right < 0
         /\ R!maskType = 1 <=> R!Window.left < 0 /\ R!Window.right = 0
         /\ seq.new # 0 \/ seq.decode => R!maskType # 2
         /\ ~RightOpen => R!Window.right >= 0
         /\ ~LeftOpen => R!Window.left >= 0
<1>1. PICK w : w = R!Window
  OBVIOUS
<1>2. /\ w.left = IF seq.left < 0 \/ (seq.maxK > 0 /\ seq.left >= seq.maxK - 1) THEN -1 ELSE seq.left
      /\ w.right = IF seq.causal THEN 0
             ELSE IF seq.right < 0 \/ (seq.maxQ > 0 /\ seq.right >= seq.maxQ - 1) THEN -1 ELSE seq.right
  BY <1>1 DEF R!Window, R!WindowOf
<1>3. w.left \in Int /\ w.right \in Int /\ w.left >= -1 /\ w.right >= -1
  BY <1>2, RSeq
<1>4. R!maskType = IF w.left < 0 /\ w.right = 0 THEN 1 ELSE IF w.left >= 0 \/ w.right >= 0 THEN 2 ELSE 0
  BY <1>1 DEF R!maskType
<1>5. seq.new # 0 \/ seq.decode => ~(w.left >= 0 \/ w.right > 0)
  BY <1>1, RSeq DEF R!isLocal, R!Window
<1>6. RightOpen <=> R!maskType = 0 \/ (R!maskType = 2 /\ (w.right < 0 \/ w.right >= seq.q - 1))
  BY <1>1 DEF RightOpen, R!notNextMask, R!qSeqlen
<1>7. LeftOpen <=> R!maskType # 2 \/ w.left < 0 \/ w.left >= R!kvSeqlen - 1
  BY <1>1 DEF LeftOpen, R!notPreMask
<1>8. QED
  BY <1>1, <1>3, <1>4, <1>5, <1>6, <1>7, RSeq

(* A row sees by the mask of the kernel what it is to see. *)
LEMMA RSees ==
  ASSUME seq \in Ranges, NEW r \in 0 .. seq.q - 1
  PROVE  R!Visible(r) = {j \in 0 .. R!kvSeqlen - 1 : Sees(r, j)}
<1>1. PICK w : w = R!Window
  OBVIOUS
<1>2. /\ w.left = IF seq.left < 0 \/ (seq.maxK > 0 /\ seq.left >= seq.maxK - 1) THEN -1 ELSE seq.left
      /\ w.right = IF seq.causal THEN 0
             ELSE IF seq.right < 0 \/ (seq.maxQ > 0 /\ seq.right >= seq.maxQ - 1) THEN -1 ELSE seq.right
  BY <1>1 DEF R!Window, R!WindowOf
<1>3. w.left \in Int /\ w.right \in Int
  BY <1>1, RMask
<1>4. R!maskType = IF w.left < 0 /\ w.right = 0 THEN 1 ELSE IF w.left >= 0 \/ w.right >= 0 THEN 2 ELSE 0
  BY <1>1 DEF R!maskType
<1>5. RightOpen <=> R!maskType = 0 \/ (R!maskType = 2 /\ (w.right < 0 \/ w.right >= seq.q - 1))
  BY <1>1 DEF RightOpen, R!notNextMask, R!qSeqlen
<1>6. LeftOpen <=> R!maskType # 2 \/ w.left < 0 \/ w.left >= R!kvSeqlen - 1
  BY <1>1 DEF LeftOpen, R!notPreMask
<1>7. ASSUME NEW j \in 0 .. R!kvSeqlen - 1
      PROVE  Sees(r, j) <=> /\ seq.causal => j <= r + R!diffS
                            /\ seq.left >= 0 => j >= r + R!diffS - seq.left
                            /\ seq.right >= 0 => j <= r + R!diffS + seq.right
  <2>1. PICK n \in Nat, q \in Nat, d \in Int : n = R!kvSeqlen /\ q = seq.q /\ d = R!diffS /\ d = n - q
    BY RSeq
  <2>2. j \in Int /\ j >= 0 /\ j < n /\ r \in Int /\ r >= 0 /\ r < q
    BY <2>1
  <2>3. n <= seq.maxK \/ seq.maxK = 0
    BY <2>1, RSeq
  <2>4. /\ q <= seq.maxQ \/ seq.maxQ = 0
        /\ seq.maxQ \in Nat /\ seq.maxK \in Nat /\ seq.left \in Int /\ seq.right \in Int
        /\ seq.causal \in BOOLEAN
    BY <2>1, RSeq
  <2>5. LeftOpen \/ j >= r + d - w.left <=> (seq.left >= 0 => j >= r + d - seq.left)
    BY <1>2, <1>3, <1>4, <1>6, <2>1, <2>2, <2>3, <2>4
  <2>6. RightOpen \/ j <= r + d + w.right <=>
          (seq.causal => j <= r + d) /\ (seq.right >= 0 => j <= r + d + seq.right)
    BY <1>2, <1>3, <1>4, <1>5, <2>1, <2>2, <2>4
  <2>7. QED
    BY <1>1, <2>1, <2>5, <2>6 DEF Sees
<1>8. QED
  BY <1>7 DEF R!Visible

-----------------------------------------------------------------------------
(* The tile and its rows. *)
RangeHere == seq \in Ranges /\ rangeTile \in 0 .. R!curQSBlockNum - 1

LEMMA RCeil ==
  ASSUME NEW a \in Nat, NEW n \in Nat \ {0}
  PROVE  /\ R!CeilDiv(a, n) \in Nat
         /\ \A i \in Int : i < R!CeilDiv(a, n) <=> i * n < a
<1>1. R!CeilDiv(a, n) = P!CeilDiv(a, n)
  BY DEF R!CeilDiv, P!CeilDiv
<1>2. R!CeilDiv(a, n) \in Int /\ \A i \in Int : i < R!CeilDiv(a, n) <=> i * n < a
  BY <1>1, CeilIs
<1>3. ASSUME R!CeilDiv(a, n) < 0
      PROVE  FALSE
  <2>1. -1 * n < a /\ -1 \in Int
    BY TimesGrows
  <2>2. ~(-1 < R!CeilDiv(a, n))
    BY <1>2, <1>3
  <2>3. QED
    BY <1>2, <2>1, <2>2
<1>4. QED
  BY <1>2, <1>3

LEMMA RTile ==
  ASSUME RangeHere
  PROVE  \E base \in Nat, size \in 1 .. RANGE_TILE :
           /\ base = R!qBlockBase /\ size = R!qSBlockSize /\ base = rangeTile * RANGE_TILE
           /\ (rangeTile + 1) * RANGE_TILE = base + RANGE_TILE
           /\ base + size <= seq.q
           /\ base + size = seq.q \/ size = RANGE_TILE
           /\ rangeTile = R!curQSBlockNum - 1 <=> base + RANGE_TILE >= seq.q
<1>1. seq.q \in Nat \ {0} /\ RANGE_TILE \in Nat \ {0} /\ R!curQSBlockNum = R!CeilDiv(seq.q, RANGE_TILE)
  BY RSeq DEF RangeHere, R!curQSBlockNum, R!qSeqlen
<1>2. PICK n \in Nat : n = R!curQSBlockNum /\ \A i \in Int : i < n <=> i * RANGE_TILE < seq.q
  BY <1>1, RCeil
<1>3. rangeTile \in Nat /\ rangeTile < n
  BY <1>2 DEF RangeHere
<1>4. PICK b \in Int : b = rangeTile * RANGE_TILE /\ (rangeTile + 1) * RANGE_TILE = b + RANGE_TILE
  BY <1>1, <1>3, NextTimes
<1>5. b >= 0
  BY <1>1, <1>3, <1>4, TimesGrows
<1>6. b < seq.q
  BY <1>2, <1>3, <1>4
<1>7. rangeTile = n - 1 <=> b + RANGE_TILE >= seq.q
  <2>1. rangeTile + 1 < n <=> (rangeTile + 1) * RANGE_TILE < seq.q
    BY <1>2, <1>3
  <2>2. rangeTile + 1 < n <=> b + RANGE_TILE < seq.q
    BY <1>4, <2>1
  <2>3. QED
    BY <1>1, <1>2, <1>3, <1>4, <2>2
<1>8. R!qSBlockSize = IF rangeTile = n - 1 THEN seq.q - b ELSE RANGE_TILE
  BY <1>2, <1>4 DEF R!qSBlockSize, R!qSeqlen, R!qBlockBase
<1>9. PICK s \in Int : s = R!qSBlockSize
  BY <1>1, <1>4, <1>8
<1>10. s \in 1 .. RANGE_TILE /\ b + s <= seq.q /\ (b + s = seq.q \/ s = RANGE_TILE)
  BY <1>1, <1>4, <1>6, <1>7, <1>8, <1>9
<1>11. b \in Nat /\ b = R!qBlockBase
  BY <1>4, <1>5 DEF R!qBlockBase
<1>12. QED
  BY <1>2, <1>4, <1>7, <1>9, <1>10, <1>11

(* The rows of the tile are those of its tokens. *)
LEMMA RRows ==
  ASSUME RangeHere
  PROVE  /\ \A t \in R!Tokens : /\ R!Row(t) \in 0 .. seq.q - 1 /\ R!Row(t) - R!qBlockBase = t
                                /\ t \in 0 .. RANGE_TILE - 1
                                /\ R!Row(t) >= rangeTile * RANGE_TILE
         /\ \A r \in 0 .. seq.q - 1 :
              (r - R!qBlockBase) \in R!Tokens <=>
                r >= rangeTile * RANGE_TILE /\ r < (rangeTile + 1) * RANGE_TILE
         /\ \A r \in 0 .. seq.q - 1 : R!Row(r - R!qBlockBase) = r
<1>1. PICK base \in Nat, size \in 1 .. RANGE_TILE :
           /\ base = R!qBlockBase /\ size = R!qSBlockSize /\ base = rangeTile * RANGE_TILE
           /\ (rangeTile + 1) * RANGE_TILE = base + RANGE_TILE
           /\ base + size <= seq.q
           /\ base + size = seq.q \/ size = RANGE_TILE
  BY RTile
<1>2. seq.q \in Nat \ {0} /\ RANGE_TILE \in Nat \ {0}
  BY RSeq DEF RangeHere
<1>3. R!Tokens = 0 .. size - 1 /\ \A t : R!Row(t) = base + t
  BY <1>1 DEF R!Tokens, R!Row
<1>4. ASSUME NEW t \in R!Tokens
      PROVE  /\ R!Row(t) \in 0 .. seq.q - 1 /\ R!Row(t) - base = t
             /\ t \in 0 .. RANGE_TILE - 1 /\ R!Row(t) >= base
  <2>1. t \in Int /\ t >= 0 /\ t < size /\ R!Row(t) = base + t
    BY <1>3
  <2>2. QED
    BY <1>1, <1>2, <2>1
<1>5. ASSUME NEW r \in 0 .. seq.q - 1
      PROVE  /\ (r - base) \in R!Tokens <=> r >= base /\ r < base + RANGE_TILE
             /\ R!Row(r - base) = r
  <2>1. r \in Int /\ r >= 0 /\ r < seq.q /\ R!Row(r - base) = base + (r - base)
    BY <1>2, <1>3
  <2>2. PICK t \in Int : t = r - base /\ r = base + t
    BY <1>1, <2>1
  <2>3. t \in R!Tokens <=> 0 <= t /\ t < size
    BY <1>1, <1>3
  <2>4. r < base + size <=> r < base + RANGE_TILE
    BY <1>1, <1>2, <2>1
  <2>5. QED
    BY <1>1, <1>2, <2>1, <2>2, <2>3, <2>4
<1>6. QED
  BY <1>1, <1>4, <1>5

-----------------------------------------------------------------------------
(* The range of keys. *)
LEMMA RClip ==
  ASSUME seq \in Ranges, NEW n \in Int
  PROVE  R!Clip(n) = IF n < 0 THEN 0 ELSE IF R!kvSeqlen < n THEN R!kvSeqlen ELSE n
BY RSeq DEF R!Clip, R!AtMost, R!AtLeast

LEMMA RNoSkip ==
  ASSUME RangeHere
  PROVE  /\ R!noSkipKvS \in 0 .. R!kvSeqlen
         /\ R!noSkipKvS =
              IF RightOpen THEN R!kvSeqlen
              ELSE R!Clip(R!qBlockBase + R!qSBlockSize + R!diffS + R!Window.right)
<1>1. PICK base \in Nat, size \in 1 .. RANGE_TILE :
           /\ base = R!qBlockBase /\ size = R!qSBlockSize
           /\ (rangeTile + 1) * RANGE_TILE = base + RANGE_TILE
           /\ base + size <= seq.q
           /\ base + size = seq.q \/ size = RANGE_TILE
  BY RTile
<1>2. PICK n \in Nat, d \in Int, w \in Int : n = R!kvSeqlen /\ d = R!diffS /\ w = R!Window.right /\ d = n - seq.q
  BY RSeq, RMask DEF RangeHere
<1>3. seq.q \in Nat \ {0} /\ RANGE_TILE \in Nat \ {0} /\ R!maskType \in {0, 1, 2}
      /\ (R!maskType = 1 => w = 0)
  BY <1>2, RSeq, RMask DEF RangeHere
<1>4. CASE R!maskType = 1
  <2>1. R!noSkipKvS = R!Clip(base + RANGE_TILE + d) /\ ~RightOpen
    BY <1>1, <1>2, <1>4 DEF R!noSkipKvS, RightOpen
  <2>2. /\ base + RANGE_TILE + d \in Int /\ base + size + d + w \in Int
        /\ \/ base + RANGE_TILE + d = base + size + d + w
           \/ base + RANGE_TILE + d >= n /\ base + size + d + w = n
    BY <1>1, <1>2, <1>3, <1>4
  <2>3. R!Clip(base + RANGE_TILE + d) = R!Clip(base + size + d + w) /\ R!Clip(base + RANGE_TILE + d) \in 0 .. n
    BY <1>2, <2>2, RClip DEF RangeHere
  <2>4. QED
    BY <1>1, <1>2, <2>1, <2>3
<1>5. CASE R!maskType = 2 /\ ~R!notNextMask
  <2>1. R!noSkipKvS = R!Clip(base + d + w + size) /\ ~RightOpen
    BY <1>1, <1>2, <1>5 DEF R!noSkipKvS, RightOpen, R!windowSizeRightEndLen, R!windowSizeRightStartLen
  <2>2. base + d + w + size = base + size + d + w /\ base + size + d + w \in Int
    BY <1>1, <1>2
  <2>3. R!Clip(base + d + w + size) \in 0 .. n
    BY <1>2, <2>2, RClip DEF RangeHere
  <2>4. QED
    BY <1>1, <1>2, <2>1, <2>2, <2>3
<1>6. CASE ~(R!maskType = 1) /\ ~(R!maskType = 2 /\ ~R!notNextMask)
  <2>1. R!noSkipKvS = R!kvSeqlen /\ RightOpen
    BY <1>3, <1>6 DEF R!noSkipKvS, RightOpen
  <2>2. QED
    BY <1>2, <2>1
<1>7. QED
  BY <1>4, <1>5, <1>6

LEMMA RWinStart ==
  ASSUME RangeHere
  PROVE  /\ R!winKvStart \in Nat
         /\ LeftOpen => R!winKvStart = 0
         /\ R!winKvStart * RANGE_STACK_LEN \in Int
         /\ ~LeftOpen => R!winKvStart * RANGE_STACK_LEN <=
                           R!Clip(R!qBlockBase + R!diffS - R!Window.left)
         /\ ~LeftOpen => (R!winKvStart + 1) * RANGE_STACK_LEN >
                           R!Clip(R!qBlockBase + R!diffS - R!Window.left)
<1>1. PICK base \in Nat : base = R!qBlockBase
  BY RTile
<1>2. PICK n \in Nat, d \in Int, w \in Int : n = R!kvSeqlen /\ d = R!diffS /\ w = R!Window.left
  BY RSeq, RMask DEF RangeHere
<1>3. RANGE_STACK_LEN \in Nat \ {0}
  BY RSeq DEF RangeHere
<1>4. CASE LeftOpen
  <2>1. R!winKvStart = 0
    BY <1>4 DEF LeftOpen, R!winKvStart
  <2>2. 0 * RANGE_STACK_LEN \in Int
    BY <1>3
  <2>3. QED
    BY <1>4, <2>1, <2>2
<1>5. CASE ~LeftOpen
  <2>1. R!winKvStart = R!Clip(base + d - w) \div RANGE_STACK_LEN
    BY <1>1, <1>2, <1>5 DEF LeftOpen, R!winKvStart, R!windowSizeLeftStartLen
  <2>2. PICK c \in Nat : c = R!Clip(base + d - w)
    BY <1>2, RClip DEF RangeHere
  <2>3. PICK k \in Int, m \in 0 .. RANGE_STACK_LEN - 1, u \in Int :
          c \div RANGE_STACK_LEN = k /\ c % RANGE_STACK_LEN = m /\ u = k * RANGE_STACK_LEN /\ c = u + m
    BY <1>3, DivPick
  <2>4. k \in Nat
    BY <1>3, <2>2, <2>3, QuotientNat
  <2>5. (k + 1) * RANGE_STACK_LEN = u + RANGE_STACK_LEN
    BY <1>3, <2>3, NextTimes
  <2>6. u <= c /\ u + RANGE_STACK_LEN > c
    BY <1>3, <2>3
  <2>7. k = R!winKvStart /\ c = R!Clip(R!qBlockBase + R!diffS - R!Window.left)
    BY <1>1, <1>2, <2>1, <2>2, <2>3
  <2>8. QED
    BY <1>5, <2>3, <2>4, <2>5, <2>6, <2>7
<1>6. QED
  BY <1>4, <1>5

(* The blocks: how many of the cache and how many of new keys. *)
LEMMA RBlocks ==
  ASSUME RangeHere
  PROVE  \E tot \in Nat, more \in Nat, old \in Nat :
           /\ tot = R!kvSLoopNumTotalOld /\ more = R!kvLoopNumTotalNew /\ old = R!OldEnd
           /\ old <= R!noSkipKvS /\ old <= seq.kv /\ (old = R!noSkipKvS \/ old = seq.kv)
           /\ \A i \in Int : i < tot <=> i * RANGE_STACK_LEN < old
           /\ \A i \in Int : i < more <=> i * RANGE_STACK_LEN < seq.new
           /\ seq.new = 0 => more = 0 /\ old = R!noSkipKvS
           /\ R!winKvEnd = tot + more
           /\ R!winKvEnd <= R!curKSBlockNum
           /\ R!noSkipKvS = R!kvSeqlen => R!winKvEnd = R!curKSBlockNum
           /\ R!curKSBlockNum \in Nat
           /\ R!kvStartOld = IF seq.new # 0 THEN tot ELSE 0
<1>1. /\ seq.kv \in Nat /\ seq.new \in Nat /\ RANGE_STACK_LEN \in Nat \ {0}
      /\ R!kvSeqlen = seq.kv + seq.new /\ R!kvSeqlenOld = seq.kv /\ (R!appendKVFlag <=> seq.new # 0)
  BY RSeq DEF RangeHere, R!kvSeqlenOld, R!appendKVFlag
<1>2. PICK e \in Nat : e = R!noSkipKvS /\ e <= R!kvSeqlen
  BY <1>1, RNoSkip
<1>3. PICK old \in Nat : old = R!OldEnd /\ old = IF e < seq.kv THEN e ELSE seq.kv
  BY <1>1, <1>2 DEF R!OldEnd, R!AtMost
<1>4. R!AtMost(R!noSkipKvS, R!kvSeqlenOld) = old
  BY <1>3 DEF R!OldEnd
<1>5. PICK tot \in Nat : tot = R!CeilDiv(old, RANGE_STACK_LEN)
                         /\ \A i \in Int : i < tot <=> i * RANGE_STACK_LEN < old
  BY <1>1, <1>3, RCeil
<1>6. PICK new \in Nat : new = R!CeilDiv(seq.new, RANGE_STACK_LEN)
                         /\ \A i \in Int : i < new <=> i * RANGE_STACK_LEN < seq.new
  BY <1>1, RCeil
<1>7. PICK all \in Nat : all = R!CeilDiv(seq.kv, RANGE_STACK_LEN)
                         /\ \A i \in Int : i < all <=> i * RANGE_STACK_LEN < seq.kv
  BY <1>1, RCeil
<1>8. seq.new = 0 => old = e
  BY <1>1, <1>2, <1>3
<1>9. tot = R!kvSLoopNumTotalOld
  BY <1>1, <1>2, <1>4, <1>5, <1>8 DEF R!kvSLoopNumTotalOld, R!kvBlocks
<1>10. tot <= all
  <2>1. tot - 1 < tot /\ tot - 1 \in Int
    OBVIOUS
  <2>2. PICK v \in Int : v = (tot - 1) * RANGE_STACK_LEN
    BY <1>1
  <2>3. v < old
    BY <1>5, <2>1, <2>2
  <2>4. v < seq.kv
    BY <1>1, <1>2, <1>3, <2>3
  <2>5. tot - 1 < all
    BY <1>7, <2>1, <2>2, <2>4
  <2>6. QED
    BY <2>5
<1>11. R!kvSLoopNumTotalOld = tot /\ R!kvLoopNumTotalNew = (IF seq.new # 0 THEN new ELSE 0)
       /\ R!curKSBlockNum = IF seq.new # 0 THEN all + new ELSE all
  <2>1. seq.new = 0 => R!kvSeqlen = seq.kv
    BY <1>1
  <2>2. QED
    BY <1>1, <1>6, <1>7, <1>9, <2>1 DEF R!kvLoopNumTotalNew, R!curKSBlockNum, R!kvBlocks
<1>12. e = R!kvSeqlen => tot = all
  BY <1>1, <1>3, <1>5, <1>7
<1>13. seq.new = 0 => \A i \in Int : i < 0 <=> i * RANGE_STACK_LEN < seq.new
  <2>1. ASSUME seq.new = 0, NEW i \in Int
        PROVE  i < 0 <=> i * RANGE_STACK_LEN < 0
    <3>1. 0 * RANGE_STACK_LEN = 0 /\ 0 \in Int
      BY <1>1
    <3>2. i < 0 => i + 1 <= 0 /\ i + 1 \in Int
      OBVIOUS
    <3>3. PICK v \in Int : v = i * RANGE_STACK_LEN /\ (i + 1) * RANGE_STACK_LEN = v + RANGE_STACK_LEN
      BY <1>1, NextTimes
    <3>4. i < 0 => v + RANGE_STACK_LEN <= 0
      BY <1>1, <3>1, <3>2, <3>3, TimesGrows
    <3>5. 0 <= i => 0 <= v
      BY <1>1, <3>1, <3>3, TimesGrows
    <3>6. QED
      BY <1>1, <3>3, <3>4, <3>5
  <2>2. QED
    BY <2>1
<1>14. PICK more \in Nat : more = IF seq.new # 0 THEN new ELSE 0
  OBVIOUS
<1>15. \A i \in Int : i < more <=> i * RANGE_STACK_LEN < seq.new
  BY <1>6, <1>13, <1>14
<1>16. R!winKvEnd = tot + more /\ R!kvStartOld = IF seq.new # 0 THEN tot ELSE 0
  BY <1>1, <1>11, <1>14 DEF R!winKvEnd, R!kvStartOld
<1>17. R!winKvEnd <= R!curKSBlockNum /\ R!curKSBlockNum \in Nat
       /\ (e = R!kvSeqlen => R!winKvEnd = R!curKSBlockNum)
  BY <1>10, <1>11, <1>12, <1>14, <1>16
<1>18. old <= e /\ old <= seq.kv /\ (old = e \/ old = seq.kv)
  BY <1>1, <1>2, <1>3
<1>19. QED
  BY <1>2, <1>3, <1>5, <1>8, <1>11, <1>14, <1>15, <1>16, <1>17, <1>18

(* What a task is to walk: all of the range or, with a plan, a slice of it *)
(* that is never empty.                                                    *)
LEMMA RSlice ==
  ASSUME RangeHere, st \in Nat, cuts \subseteq 1 .. R!curKSBlockNum - 1,
         ~seq.decode => st = 0,
         seq.decode => st < R!curKSBlockNum \/ (st = 0 /\ R!curKSBlockNum = 0)
  PROVE  /\ R!winKvEnd \in Nat /\ R!winKvEnd <= R!curKSBlockNum /\ R!curKSBlockNum \in Nat
         /\ R!kvStart \in Nat /\ R!kvEnd \in Nat /\ R!kvEnd <= R!winKvEnd
         /\ ~seq.decode => R!kvStart = R!winKvStart /\ R!kvEnd = R!winKvEnd /\ ~R!PartsLeft
         /\ seq.decode => /\ R!winKvStart = 0 /\ R!winKvEnd = R!curKSBlockNum
                          /\ R!kvStart = st /\ R!kvEnd = R!enS2IdxNow
                          /\ R!PartsLeft <=> R!enS2IdxNow < R!curKSBlockNum
                          /\ R!curKSBlockNum = 0 \/ R!enS2IdxNow > st
         /\ R!PartsLeft => R!enS2IdxNow \in Nat
         /\ R!isEmptyTask /\ R!isSplitKV => FALSE
         /\ R!isEmptyTask /\ seq.decode => R!curKSBlockNum = 0 /\ ~R!PartsLeft
         /\ \A k \in Nat : R!Jump(k) = k
<1>1. PICK tot \in Nat, more \in Nat, old \in Nat :
           /\ tot = R!kvSLoopNumTotalOld
           /\ seq.new = 0 => more = 0
           /\ R!winKvEnd = tot + more
           /\ R!winKvEnd <= R!curKSBlockNum
           /\ R!noSkipKvS = R!kvSeqlen => R!winKvEnd = R!curKSBlockNum
           /\ R!curKSBlockNum \in Nat
           /\ R!kvStartOld = IF seq.new # 0 THEN tot ELSE 0
  BY RBlocks
<1>2. PICK cur \in Nat, end \in Nat, ws \in Nat :
        cur = R!curKSBlockNum /\ end = R!winKvEnd /\ ws = R!winKvStart
  <2>1. tot + more \in Nat
    BY <1>1
  <2>2. R!curKSBlockNum \in Nat /\ R!winKvEnd \in Nat /\ R!winKvStart \in Nat
    BY <1>1, <2>1, RWinStart
  <2>3. QED
    BY <2>2
<1>3. seq.decode => ws = 0 /\ end = cur
  <2>1. ASSUME seq.decode
        PROVE  ws = 0 /\ R!noSkipKvS = R!kvSeqlen
    <3>1. R!maskType # 2 /\ seq.q <= RANGE_TILE
      BY <2>1, RMask, RSeq DEF RangeHere
    <3>2. LeftOpen
      BY <3>1 DEF LeftOpen
    <3>3. PICK base \in Nat, size \in 1 .. RANGE_TILE :
           /\ base = R!qBlockBase /\ size = R!qSBlockSize /\ base = rangeTile * RANGE_TILE
           /\ base + size <= seq.q
           /\ base + size = seq.q \/ size = RANGE_TILE
      BY RTile
    <3>4. base + size = seq.q
      <4>1. PICK q \in Nat, rows \in Nat : q = seq.q /\ rows = RANGE_TILE
        BY RSeq DEF RangeHere
      <4>2. QED
        BY <3>1, <3>3, <4>1
    <3>5. ~RightOpen => R!Window.right = 0
      BY <3>1, RMask DEF RightOpen, RangeHere
    <3>6. PICK n \in Nat, d \in Int : n = R!kvSeqlen /\ d = R!diffS /\ d = n - seq.q
      BY RSeq DEF RangeHere
    <3>7. seq.q + d + 0 = n
      BY <3>6, RSeq DEF RangeHere
    <3>8. ~RightOpen => R!noSkipKvS = R!Clip(n)
      BY <3>3, <3>4, <3>5, <3>6, <3>7, RNoSkip
    <3>9. R!Clip(n) = n
      BY <3>6, RClip DEF RangeHere
    <3>10. R!noSkipKvS = R!kvSeqlen
      BY <3>6, <3>8, <3>9, RNoSkip
    <3>11. QED
      BY <1>2, <3>2, <3>10, RWinStart
  <2>2. QED
    BY <1>1, <1>2, <2>1
<1>4. PICK en \in Nat : /\ en = R!enS2IdxNow /\ en <= cur
                        /\ cur = 0 \/ en > st \/ ~seq.decode
  <2>1. CASE {c \in cuts : c > st} = {}
    <3>1. R!enS2IdxNow = cur
      BY <1>2, <2>1 DEF R!enS2IdxNow
    <3>2. QED
      BY <1>2, <3>1
  <2>2. CASE {c \in cuts : c > st} # {}
    <3> DEFINE later == {c \in cuts : c > st}
    <3>1. \A c \in cuts : c \in Nat /\ c < cur
      BY <1>2
    <3>2. later \in SUBSET Nat
      BY <3>1
    <3>3. \E c \in later : \A d \in later : c <= d
      <4> HIDE DEF later
      <4>1. QED
        BY <2>2, <3>2, Least DEF later
    <3>4. R!enS2IdxNow \in later
      BY <2>2, <3>3 DEF R!enS2IdxNow
    <3>5. QED
      BY <3>1, <3>4
  <2>3. QED
    BY <2>1, <2>2
<1>5. PICK slice \in Nat : /\ slice = R!SliceEnd /\ slice <= end
                           /\ slice = IF seq.decode THEN en ELSE end
  BY <1>2, <1>3, <1>4 DEF R!SliceEnd, R!FLASH_DECODE_FLAG, R!AtMost
<1>6. R!kvEndOld = IF tot < slice THEN tot ELSE slice
  BY <1>1, <1>5 DEF R!kvEndOld, R!AtMost
<1>7. R!kvEnd = slice
  <2>1. PICK so \in Nat : so = R!kvStartOld /\ (seq.new # 0 => so = tot) /\ (seq.new = 0 => so = 0 /\ end = tot)
    BY <1>1, <1>2
  <2>2. R!kvEnd = IF slice <= so THEN (IF tot < slice THEN tot ELSE slice) ELSE slice
    BY <1>5, <1>6, <2>1 DEF R!kvEnd
  <2>3. QED
    BY <1>2, <1>5, <2>1, <2>2
<1>8. R!kvStart = IF seq.decode THEN st ELSE ws
  BY <1>2, <1>3 DEF R!kvStart, R!FLASH_DECODE_FLAG, R!AtLeast
<1>9. R!PartsLeft <=> seq.decode /\ en < cur
  BY <1>2, <1>4 DEF R!PartsLeft, R!FLASH_DECODE_FLAG
<1>10. R!isEmptyTask <=> R!kvStart >= slice
  BY <1>7 DEF R!isEmptyTask
<1>11. R!isSplitKV <=> seq.decode /\ en - st > 0 /\ en - st < cur
  BY <1>2, <1>4 DEF R!isSplitKV, R!FLASH_DECODE_FLAG
<1>12. R!isEmptyTask /\ seq.decode => cur = 0 /\ ~R!PartsLeft /\ ~R!isSplitKV
  BY <1>2, <1>4, <1>5, <1>8, <1>9, <1>10, <1>11
<1>13. ASSUME NEW k \in Nat
       PROVE  R!Jump(k) = k
  <2>1. PICK so \in Nat : so = R!kvStartOld /\ (seq.new # 0 => so = tot) /\ (seq.new = 0 => so = 0)
    BY <1>1
  <2>2. ~(k < slice /\ k >= (IF tot < slice THEN tot ELSE slice) /\ k < so)
    BY <1>5, <2>1
  <2>3. QED
    BY <1>6, <1>7, <2>1, <2>2 DEF R!Jump
<1>14. R!isEmptyTask /\ R!isSplitKV => FALSE
  BY <1>11, <1>12
<1>15. R!kvStart \in Nat /\ R!kvEnd \in Nat /\ R!kvEnd <= end
  BY <1>2, <1>5, <1>7, <1>8
<1>16. /\ ~seq.decode => R!kvStart = ws /\ R!kvEnd = end /\ ~R!PartsLeft
       /\ seq.decode => ws = 0 /\ end = cur /\ R!kvStart = st /\ R!kvEnd = en
       /\ R!PartsLeft <=> seq.decode /\ en < cur
  BY <1>3, <1>5, <1>7, <1>8, <1>9
<1>17. end <= cur
  BY <1>1, <1>2
<1>18. QED
  BY <1>2, <1>4, <1>12, <1>13, <1>14, <1>15, <1>16, <1>17

-----------------------------------------------------------------------------
(* The keys of a block. *)
LEMMA RBlock ==
  ASSUME RangeHere, NEW k \in Nat, k < R!winKvEnd
  PROVE  \E s \in Nat, e \in Nat :
           /\ s = BlockStart(k) /\ e = BlockEnd(k) /\ s < e /\ e <= s + RANGE_STACK_LEN
           /\ e <= R!kvSeqlen
           /\ IsNew(k) => s >= seq.kv
           /\ ~IsNew(k) => /\ e <= seq.kv /\ e <= R!noSkipKvS /\ s = k * RANGE_STACK_LEN
                           /\ k < R!kvSLoopNumTotalOld
                           /\ e = R!OldEnd \/ e = (k + 1) * RANGE_STACK_LEN
<1>1. PICK tot \in Nat, more \in Nat, old \in Nat :
           /\ tot = R!kvSLoopNumTotalOld /\ old = R!OldEnd
           /\ old <= R!noSkipKvS /\ old <= seq.kv
           /\ \A i \in Int : i < tot <=> i * RANGE_STACK_LEN < old
           /\ \A i \in Int : i < more <=> i * RANGE_STACK_LEN < seq.new
           /\ seq.new = 0 => more = 0
           /\ R!winKvEnd = tot + more
  BY RBlocks
<1>2. PICK m \in Nat \ {0}, kv \in Nat, new \in Nat :
        /\ m = RANGE_STACK_LEN /\ kv = seq.kv /\ new = seq.new /\ R!kvSeqlen = kv + new
        /\ (R!appendKVFlag <=> new # 0)
  BY RSeq DEF RangeHere, R!appendKVFlag
<1>3. PICK skip \in Nat : skip = R!noSkipKvS
  BY <1>2, RNoSkip
<1>4. CASE IsNew(k)
  <2>1. PICK i \in Nat : i = k - tot /\ i < more
    BY <1>1, <1>4 DEF IsNew
  <2>2. PICK u \in Int : u = i * m /\ (i + 1) * m = u + m
    BY <1>2, NextTimes
  <2>3. u >= 0 /\ u < new
    <3>1. 0 * m = 0 /\ 0 \in Int /\ i \in Int /\ 0 <= i
      BY <1>2
    <3>2. 0 <= u
      BY <1>2, <2>2, <3>1, TimesGrows
    <3>3. QED
      BY <1>1, <1>2, <2>1, <2>2, <3>2
  <2>4. BlockStart(k) = kv + u
    BY <1>1, <1>2, <1>4, <2>1, <2>2 DEF BlockStart
  <2>5. k + 1 - tot = i + 1
    BY <1>1, <2>1
  <2>6. BlockEnd(k) = IF kv + new < kv + (u + m) THEN kv + new ELSE kv + (u + m)
    BY <1>1, <1>2, <1>4, <2>2, <2>5 DEF BlockEnd, R!AtMost
  <2>7. QED
    BY <1>2, <1>4, <2>3, <2>4, <2>6
<1>5. CASE ~IsNew(k)
  <2>1. k < tot
    BY <1>1, <1>2, <1>5 DEF IsNew
  <2>2. PICK u \in Int : u = k * m /\ (k + 1) * m = u + m
    BY <1>2, NextTimes
  <2>3. u >= 0 /\ u < old
    <3>1. 0 * m = 0 /\ 0 \in Int /\ k \in Int /\ 0 <= k
      BY <1>2
    <3>2. 0 <= u
      BY <1>2, <2>2, <3>1, TimesGrows
    <3>3. QED
      BY <1>1, <1>2, <2>1, <2>2, <3>2
  <2>4. BlockStart(k) = u
    BY <1>2, <1>5, <2>2 DEF BlockStart
  <2>5. BlockEnd(k) = IF old < u + m THEN old ELSE u + m
    BY <1>1, <1>2, <1>5, <2>2 DEF BlockEnd, R!AtMost
  <2>6. PICK e \in Nat : e = BlockEnd(k) /\ u < e /\ e <= u + m /\ e <= old /\ (e = old \/ e = u + m)
    BY <1>1, <1>2, <2>3, <2>5
  <2>7. e <= kv /\ e <= skip /\ e <= R!kvSeqlen
    BY <1>1, <1>2, <1>3, <2>6
  <2>8. QED
    BY <1>1, <1>2, <1>3, <1>5, <2>1, <2>2, <2>3, <2>4, <2>6, <2>7
<1>6. QED
  BY <1>4, <1>5

LEMMA RU32 ==
  ASSUME seq \in Ranges, NEW n \in Nat, n < WORD
  PROVE  R!U32(n) = n
<1>1. WORD \in Nat \ {0}
  BY RSeq
<1>2. n = 0 * WORD + n /\ 0 \in Int /\ n \in Int /\ n \in 0 .. WORD - 1
  BY <1>1
<1>3. QED
  BY <1>1, <1>2, DivUnique DEF R!U32

(* The kernel's numbers for the block that the walk is at. *)
LEMMA RWalk ==
  ASSUME RangeHere, kvSIdx \in Nat, kvSIdx < R!winKvEnd
  PROVE  /\ R!isAppendBlock <=> IsNew(kvSIdx)
         /\ R!kvSStartIdx = BlockStart(kvSIdx) /\ R!kvSEndIdx = BlockEnd(kvSIdx)
         /\ R!Columns = 0 .. (BlockEnd(kvSIdx) - BlockStart(kvSIdx)) - 1
         /\ IsNew(kvSIdx) => \A c : R!NewKey(c) = BlockStart(kvSIdx) + c
<1>1. PICK tot \in Nat, more \in Nat, old \in Nat :
           /\ tot = R!kvSLoopNumTotalOld /\ more = R!kvLoopNumTotalNew /\ old = R!OldEnd
           /\ old <= R!noSkipKvS /\ old <= seq.kv
           /\ \A i \in Int : i < tot <=> i * RANGE_STACK_LEN < old
           /\ \A i \in Int : i < more <=> i * RANGE_STACK_LEN < seq.new
           /\ seq.new = 0 => more = 0
           /\ R!winKvEnd = tot + more
           /\ R!kvStartOld = IF seq.new # 0 THEN tot ELSE 0
  BY RBlocks
<1>2. PICK m \in Nat \ {0}, kv \in Nat, new \in Nat :
        /\ m = RANGE_STACK_LEN /\ kv = seq.kv /\ new = seq.new /\ R!kvSeqlen = kv + new
        /\ (R!appendKVFlag <=> new # 0) /\ R!kvSeqlenOld = kv /\ kv + new < WORD /\ WORD \in Nat
  BY RSeq DEF RangeHere, R!appendKVFlag, R!kvSeqlenOld
<1>3. PICK k \in Nat : k = kvSIdx /\ k < tot + more
  BY <1>1
<1>4. R!isAppendBlock <=> IsNew(k)
  BY <1>1, <1>2, <1>3 DEF R!isAppendBlock, IsNew
<1>5. CASE IsNew(k)
  <2>1. PICK i \in Nat : i = k - tot /\ i < more
    BY <1>1, <1>3, <1>5 DEF IsNew
  <2>2. PICK u \in Int : u = i * m /\ (i + 1) * m = u + m
    BY <1>2, NextTimes
  <2>3. PICK w \in Nat : w = BlockStart(k)
    BY <1>3, <1>1, RBlock
  <2>4. w = kv + u /\ k + 1 - tot = i + 1
    BY <1>1, <1>2, <1>5, <2>1, <2>2, <2>3 DEF BlockStart
  <2>5. BlockEnd(k) = IF kv + new < kv + (u + m) THEN kv + new ELSE kv + (u + m)
    BY <1>1, <1>2, <1>5, <2>2, <2>4 DEF BlockEnd, R!AtMost
  <2>6. u >= 0 /\ u < new
    <3>1. w >= kv
      BY <1>1, <1>2, <1>3, <1>5, <2>3, RBlock
    <3>2. QED
      BY <1>1, <1>2, <2>1, <2>2, <2>4, <3>1
  <2>7. R!kvSIdxLocal = i
    BY <1>1, <1>2, <1>3, <1>4, <1>5, <2>1 DEF R!kvSIdxLocal, R!kvSStartIdx, IsNew
  <2>8. R!GetStackSeqTile = IF i + 1 > more - 1 THEN new - u ELSE m
    BY <1>1, <1>2, <1>3, <1>4, <1>5, <2>2, <2>7 DEF R!GetStackSeqTile
  <2>9. i + 1 < more <=> u + m < new
    BY <1>1, <1>2, <2>1, <2>2
  <2>10. PICK n \in Nat : n = R!GetStackSeqTile /\ n < WORD /\ (IF m < n THEN m ELSE n) = (IF new - u < m THEN new - u ELSE m)
    BY <1>2, <2>1, <2>6, <2>8, <2>9, <1>1
  <2>11. R!stackSeqTile = IF m < n THEN m ELSE n
    BY <1>2, <2>10, RU32 DEF RangeHere, R!stackSeqTile, R!AtMost
  <2>12. R!stackSeqTile = IF new - u < m THEN new - u ELSE m
    BY <2>10, <2>11
  <2>13. R!kvSStartIdx = w
    BY <1>2, <1>3, <1>4, <1>5, <2>2, <2>4, <2>7 DEF R!kvSStartIdx
  <2>14. PICK e \in Int : e = BlockEnd(k) /\ R!stackSeqTile = e - w
    BY <1>2, <2>4, <2>5, <2>6, <2>12
  <2>15. R!kvSEndIdx = e
    BY <2>13, <2>14, <1>2 DEF R!kvSEndIdx
  <2>16. \A c : R!NewKey(c) = w + c
    BY <1>2, <2>2, <2>4, <2>7 DEF R!NewKey
  <2>17. R!Columns = 0 .. (e - w) - 1
    BY <2>14 DEF R!Columns
  <2>18. QED
    BY <1>3, <1>4, <2>3, <2>13, <2>14, <2>15, <2>16, <2>17
<1>6. CASE ~IsNew(k)
  <2>1. PICK s \in Nat, e \in Nat : /\ s = BlockStart(k) /\ e = BlockEnd(k) /\ s < e
                                    /\ s = k * m /\ k < tot
    BY <1>1, <1>2, <1>3, <1>6, RBlock
  <2>2. (k + 1) * m = s + m
    BY <1>2, <2>1, NextTimes
  <2>3. e = IF old < s + m THEN old ELSE s + m
    BY <1>1, <1>2, <1>6, <2>1, <2>2 DEF BlockEnd, R!AtMost
  <2>4. R!GetStackSeqTile = IF k + 1 > tot - 1 THEN old - s ELSE m
    BY <1>1, <1>2, <1>3, <1>4, <1>6, <2>1 DEF R!GetStackSeqTile
  <2>5. k + 1 < tot <=> s + m < old
    BY <1>1, <1>2, <2>1, <2>2
  <2>6. s < old /\ old < WORD
    BY <1>1, <1>2, <2>1, <2>3
  <2>7. PICK n \in Nat : n = R!GetStackSeqTile /\ n < WORD /\ (IF m < n THEN m ELSE n) = (IF old - s < m THEN old - s ELSE m)
    <3>1. PICK g : g = R!GetStackSeqTile
      OBVIOUS
    <3>2. CASE k + 1 < tot
      <4>1. s + m < old /\ g = m
        BY <1>1, <2>4, <2>5, <3>1, <3>2
      <4>2. QED
        BY <1>1, <1>2, <2>1, <2>6, <3>1, <4>1
    <3>3. CASE ~(k + 1 < tot)
      <4>1. ~(s + m < old) /\ g = old - s
        BY <1>1, <2>4, <2>5, <3>1, <3>3
      <4>2. QED
        BY <1>1, <1>2, <2>1, <2>6, <3>1, <4>1
    <3>4. QED
      BY <3>2, <3>3
  <2>8. R!stackSeqTile = IF m < n THEN m ELSE n
    BY <1>2, <2>7, RU32 DEF RangeHere, R!stackSeqTile, R!AtMost
  <2>9. R!stackSeqTile = e - s
    BY <1>1, <1>2, <2>1, <2>3, <2>6, <2>7, <2>8
  <2>10. R!kvSStartIdx = s
    BY <1>2, <1>3, <1>4, <1>6, <2>1 DEF R!kvSStartIdx
  <2>11. R!kvSEndIdx = e
    BY <2>1, <2>9, <2>10 DEF R!kvSEndIdx
  <2>12. R!Columns = 0 .. (e - s) - 1
    BY <2>9 DEF R!Columns
  <2>13. QED
    BY <1>3, <1>4, <1>6, <2>1, <2>10, <2>11, <2>12
<1>7. QED
  BY <1>5, <1>6

-----------------------------------------------------------------------------
(* The mask of a block. *)
LEMMA RKeeps ==
  ASSUME RangeHere, kvSIdx \in Nat, R!winKvStart <= kvSIdx, kvSIdx < R!winKvEnd,
         NEW t \in R!Tokens, NEW c \in R!Columns
  PROVE  R!Keeps(t, c) <=> Sees(R!Row(t), BlockStart(kvSIdx) + c)
<1>1. PICK s \in Nat, e \in Nat :
           /\ s = BlockStart(kvSIdx) /\ e = BlockEnd(kvSIdx) /\ s < e
           /\ e <= R!kvSeqlen
           /\ ~IsNew(kvSIdx) => /\ e <= R!noSkipKvS /\ s = kvSIdx * RANGE_STACK_LEN
                                /\ e = R!OldEnd \/ e = (kvSIdx + 1) * RANGE_STACK_LEN
  BY RBlock
<1>2. /\ R!kvSStartIdx = s /\ R!kvSEndIdx = e /\ R!Columns = 0 .. (e - s) - 1
  BY <1>1, RWalk
<1>3. PICK base \in Nat, size \in 1 .. RANGE_TILE :
           /\ base = R!qBlockBase /\ size = R!qSBlockSize
           /\ base + size <= seq.q
  BY RTile
<1>4. PICK n \in Nat, d \in Int, q \in Nat : n = R!kvSeqlen /\ d = R!diffS /\ q = seq.q /\ d = n - q
  BY RSeq DEF RangeHere
<1>5. PICK left \in Int, right \in Int :
        /\ left = R!Window.left /\ right = R!Window.right
        /\ R!maskType \in {0, 1, 2} /\ (R!maskType = 1 => right = 0)
        /\ ~RightOpen => right >= 0
        /\ ~LeftOpen => left >= 0
        /\ seq.new # 0 => R!maskType # 2
  BY RMask DEF RangeHere
<1>6. t \in Nat /\ t < size /\ R!Row(t) = base + t
  BY <1>3 DEF R!Tokens, R!Row
<1>7. PICK j \in Int : j = s + c /\ s <= j /\ j < e /\ c \in Int
  <2>1. c \in 0 .. (e - s) - 1
    BY <1>2
  <2>2. c \in Int /\ c >= 0 /\ c < e - s
    BY <1>1, <2>1
  <2>3. QED
    BY <1>1, <2>2
<1>8. PICK skip \in Nat : skip = R!noSkipKvS /\ skip <= n
  BY <1>4, RNoSkip
<1>9. ASSUME ~RightOpen
      PROVE  skip = LET m == base + size + d + right IN IF m < 0 THEN 0 ELSE IF n < m THEN n ELSE m
  BY <1>3, <1>4, <1>5, <1>8, <1>9, RNoSkip, RClip DEF RangeHere
<1>10. Sees(R!Row(t), j) <=> /\ RightOpen \/ j <= base + t + d + right
                             /\ LeftOpen \/ j >= base + t + d - left
  BY <1>4, <1>5, <1>6 DEF Sees
<1>11. CASE R!maskType = 0
  <2>1. R!Keeps(t, c) /\ RightOpen /\ LeftOpen
    BY <1>11 DEF R!Keeps, RightOpen, LeftOpen
  <2>2. QED
    BY <1>1, <1>7, <1>10, <2>1
<1>12. CASE R!maskType = 1
  <2>1. LeftOpen /\ ~RightOpen /\ right = 0
    BY <1>5, <1>12 DEF LeftOpen, RightOpen
  <2>2. R!Keeps(t, c) <=> (skip - size < e - 1 => c < (skip - size) - s + t + 1)
    BY <1>2, <1>3, <1>8, <1>12 DEF R!Keeps, R!doTriUMask, R!triUp
  <2>3. PICK m \in Int : m = base + size + d /\ m <= n
    BY <1>3, <1>4
  <2>4. skip = IF m < 0 THEN 0 ELSE m
    BY <1>3, <1>4, <1>5, <1>9, <2>1, <2>3
  <2>5. R!Keeps(t, c) <=> j <= base + t + d
    <3>1. CASE m < 0
      <4>1. ~(j <= base + t + d)
        BY <1>1, <1>3, <1>4, <1>6, <1>7, <2>3, <3>1
      <4>2. ~R!Keeps(t, c)
        BY <1>1, <1>3, <1>6, <1>7, <2>2, <2>4, <3>1
      <4>3. QED
        BY <4>1, <4>2
    <3>2. CASE ~(m < 0)
      <4>1. skip - size = base + d
        BY <1>3, <1>4, <2>3, <2>4, <3>2
      <4>2. R!Keeps(t, c) <=> (base + d < e - 1 => c < (base + d) - s + t + 1)
        BY <2>2, <4>1
      <4>3. QED
        BY <1>1, <1>3, <1>4, <1>6, <1>7, <4>2
    <3>3. QED
      BY <3>1, <3>2
  <2>6. QED
    BY <1>1, <1>3, <1>4, <1>6, <1>7, <1>10, <2>1, <2>5
<1>13. CASE R!maskType = 2
  <2>1. ~IsNew(kvSIdx)
    BY <1>5, <1>13 DEF IsNew, R!appendKVFlag
  <2>2. RightOpen <=> R!notNextMask
    BY <1>13 DEF RightOpen
  <2>3. LeftOpen <=> R!notPreMask
    BY <1>13 DEF LeftOpen
  <2>4. PICK rs \in Int : rs = R!windowSizeRightStartLen /\ rs = base + d + right
    BY <1>3, <1>4, <1>5 DEF R!windowSizeRightStartLen
  <2>5. PICK ls \in Int : ls = R!windowSizeLeftStartLen /\ ls = base + d - left
    BY <1>3, <1>4, <1>5 DEF R!windowSizeLeftStartLen
  <2>6. R!doTriUNextMask <=> ~RightOpen /\ (\/ rs >= s /\ rs < e
                                            \/ rs + size > s /\ rs + size <= e
                                            \/ rs <= s /\ rs + size >= e)
    BY <1>2, <1>3, <2>2, <2>4 DEF R!doTriUNextMask, R!Crosses, R!windowSizeRightEndLen
  <2>7. R!doTriUPreMask <=> ~LeftOpen /\ (\/ ls >= s /\ ls < e
                                          \/ ls + size > s /\ ls + size <= e
                                          \/ ls <= s /\ ls + size >= e)
    BY <1>2, <1>3, <2>3, <2>5 DEF R!doTriUPreMask, R!Crosses, R!windowSizeLeftEndLen
  <2>8. R!Keeps(t, c) <=> /\ R!doTriUNextMask => c < rs - s + t + 1
                          /\ R!doTriUPreMask => c >= ls - s + t
    BY <1>2, <1>13, <2>4, <2>5 DEF R!Keeps
  <2>9. ASSUME ~RightOpen
        PROVE  (R!doTriUNextMask => c < rs - s + t + 1) <=> j <= base + t + d + right
    <3>1. e <= skip
      BY <1>1, <1>8, <2>1
    <3>2. e <= rs + size
      BY <1>1, <1>3, <1>4, <1>5, <1>8, <1>9, <2>4, <2>9, <3>1
    <3>3. c < rs - s + t + 1 <=> j <= base + t + d + right
      BY <1>1, <1>3, <1>4, <1>5, <1>6, <1>7, <2>4
    <3>4. ~R!doTriUNextMask => rs >= e
      BY <1>1, <1>3, <2>6, <2>9, <3>2
    <3>5. rs >= e => j <= base + t + d + right
      BY <1>1, <1>3, <1>4, <1>5, <1>6, <1>7, <2>4
    <3>6. QED
      BY <3>3, <3>4, <3>5
  <2>10. ASSUME ~LeftOpen
         PROVE  (R!doTriUPreMask => c >= ls - s + t) <=> j >= base + t + d - left
    <3>1. ls < n
      BY <1>3, <1>4, <1>5, <2>5, <2>10
    <3>2. ls < skip
      <4>1. CASE RightOpen
        <5>1. skip = n
          BY <1>4, <1>8, <4>1, RNoSkip
        <5>2. QED
          BY <3>1, <5>1
      <4>2. CASE ~RightOpen
        BY <1>1, <1>3, <1>4, <1>5, <1>9, <2>1, <2>5, <2>10, <3>1, <4>2
      <4>3. QED
        BY <4>1, <4>2
    <3>3. ls < e
      <4>1. seq.new = 0
        BY <1>5, <1>13
      <4>2. R!OldEnd = skip
        BY <1>8, <4>1, RBlocks
      <4>3. CASE e = skip
        BY <3>2, <4>3
      <4>4. CASE e = (kvSIdx + 1) * RANGE_STACK_LEN
        <5>1. PICK ws \in Nat, m \in Nat \ {0} : ws = R!winKvStart /\ m = RANGE_STACK_LEN
          BY RWinStart, RSeq DEF RangeHere
        <5>2. (ws + 1) * m > R!Clip(ls)
          BY <1>3, <1>4, <1>5, <2>5, <2>10, <5>1, RWinStart
        <5>3. (ws + 1) * m <= (kvSIdx + 1) * m /\ (ws + 1) * m \in Int
          BY <5>1, TimesGrows
        <5>4. R!Clip(ls) \in Int /\ R!Clip(ls) >= ls
          BY <1>4, <2>5, <3>1, RClip DEF RangeHere
        <5>5. QED
          BY <2>5, <4>4, <5>1, <5>2, <5>3, <5>4
      <4>5. QED
        BY <1>1, <2>1, <4>2, <4>3, <4>4
    <3>4. c >= ls - s + t <=> j >= base + t + d - left
      BY <1>1, <1>3, <1>4, <1>5, <1>6, <1>7, <2>5
    <3>5. ~R!doTriUPreMask => ls + size <= s
      BY <1>1, <1>3, <2>5, <2>7, <2>10, <3>3
    <3>6. ls + size <= s => j >= base + t + d - left
      BY <1>1, <1>3, <1>4, <1>5, <1>6, <1>7, <2>5
    <3>7. QED
      BY <3>4, <3>5, <3>6
  <2>11. (R!doTriUNextMask => c < rs - s + t + 1) <=> RightOpen \/ j <= base + t + d + right
    BY <2>6, <2>9
  <2>12. (R!doTriUPreMask => c >= ls - s + t) <=> LeftOpen \/ j >= base + t + d - left
    BY <2>7, <2>10
  <2>13. R!Keeps(t, c) <=> Sees(R!Row(t), j)
    BY <1>10, <2>8, <2>11, <2>12
  <2>14. QED
    BY <1>1, <1>7, <2>13
<1>14. QED
  BY <1>5, <1>11, <1>12, <1>13

-----------------------------------------------------------------------------
(* The walk comes by every key that a row of the tile sees, and by every   *)
(* new key.                                                                *)
LEMMA ROldWalked ==
  ASSUME RangeHere, NEW j \in Nat, j < R!OldEnd,
         LeftOpen \/ j >= R!Clip(R!qBlockBase + R!diffS - R!Window.left)
  PROVE  j \in WalkedTo(R!winKvEnd)
<1>1. PICK tot \in Nat, more \in Nat, old \in Nat :
           /\ tot = R!kvSLoopNumTotalOld /\ old = R!OldEnd
           /\ \A i \in Int : i < tot <=> i * RANGE_STACK_LEN < old
           /\ R!winKvEnd = tot + more
  BY RBlocks
<1>2. PICK m \in Nat \ {0}, n \in Nat : m = RANGE_STACK_LEN /\ n = R!kvSeqlen
  BY RSeq DEF RangeHere
<1>3. PICK b \in Int, r \in 0 .. m - 1, u \in Int : j \div m = b /\ u = b * m /\ j = u + r
  BY <1>2, DivPick
<1>4. b \in Nat
  BY <1>2, <1>3, QuotientNat
<1>5. b < tot
  BY <1>1, <1>2, <1>3
<1>6. ~IsNew(b)
  BY <1>1, <1>4, <1>5 DEF IsNew
<1>7. BlockStart(b) = u
  BY <1>2, <1>3, <1>6 DEF BlockStart
<1>8. (b + 1) * m = u + m
  BY <1>2, <1>3, NextTimes
<1>9. BlockEnd(b) = IF old < u + m THEN old ELSE u + m
  BY <1>1, <1>2, <1>6, <1>8 DEF BlockEnd, R!AtMost
<1>10. j \in BlockKeys(b)
  BY <1>1, <1>2, <1>3, <1>7, <1>9 DEF BlockKeys
<1>11. PICK ws \in Nat : ws = R!winKvStart
  BY RWinStart
<1>12. ws <= b
  <2>1. CASE LeftOpen
    BY <1>4, <1>11, <2>1, RWinStart
  <2>2. CASE ~LeftOpen
    <3>1. PICK c \in Int, v \in Int : c = R!Clip(R!qBlockBase + R!diffS - R!Window.left)
                                      /\ v = ws * m /\ v <= c /\ c <= j
      <4>1. PICK base \in Nat : base = R!qBlockBase
        BY RTile
      <4>2. R!diffS \in Int /\ R!Window.left \in Int
        BY RSeq, RMask DEF RangeHere
      <4>3. base + R!diffS - R!Window.left \in Int
        BY <4>2
      <4>4. R!Clip(base + R!diffS - R!Window.left) \in Int
        BY <1>2, <4>3, RClip DEF RangeHere
      <4>5. ws * m \in Int /\ ws * m <= R!Clip(base + R!diffS - R!Window.left)
        BY <1>2, <1>11, <2>2, <4>1, RWinStart
      <4>6. QED
        BY <2>2, <4>1, <4>4, <4>5
    <3>2. v < u + m
      BY <1>2, <1>3, <3>1
    <3>3. ws * m < (b + 1) * m
      BY <1>8, <3>1, <3>2
    <3>4. ws < b + 1
      BY <1>2, <1>3, <3>3, TimesLess
    <3>5. QED
      BY <1>3, <3>4
  <2>3. QED
    BY <2>1, <2>2
<1>13. b \in R!winKvStart .. R!winKvEnd - 1
  BY <1>1, <1>4, <1>5, <1>11, <1>12
<1>14. QED
  BY <1>10, <1>13 DEF WalkedTo

LEMMA RNewWalked ==
  ASSUME RangeHere, NEW j \in Nat, seq.new # 0, seq.kv <= j, j < R!kvSeqlen
  PROVE  j \in WalkedTo(R!winKvEnd)
<1>1. PICK tot \in Nat, more \in Nat, old \in Nat :
           /\ tot = R!kvSLoopNumTotalOld /\ old = R!OldEnd
           /\ \A i \in Int : i < more <=> i * RANGE_STACK_LEN < seq.new
           /\ R!winKvEnd = tot + more
  BY RBlocks
<1>2. PICK m \in Nat \ {0}, kv \in Nat, new \in Nat :
        /\ m = RANGE_STACK_LEN /\ kv = seq.kv /\ new = seq.new /\ R!kvSeqlen = kv + new
        /\ R!appendKVFlag
  BY RSeq DEF RangeHere, R!appendKVFlag
<1>3. PICK x \in Nat : x = j - kv /\ x < new
  BY <1>2
<1>4. PICK b \in Int, r \in 0 .. m - 1, u \in Int : x \div m = b /\ u = b * m /\ x = u + r
  <2>1. x \in Int /\ m \in Nat \ {0}
    BY <1>2, <1>3
  <2>2. QED
    BY <2>1, DivPick
<1>5. b \in Nat
  BY <1>2, <1>3, <1>4, QuotientNat
<1>6. b < more
  <2>1. b * RANGE_STACK_LEN < seq.new
    BY <1>2, <1>3, <1>4
  <2>2. QED
    BY <1>1, <1>4, <2>1
<1>7. PICK k \in Nat : k = tot + b
  BY <1>1, <1>5
<1>8. IsNew(k) /\ k - tot = b /\ k + 1 - tot = b + 1
  BY <1>1, <1>2, <1>5, <1>7 DEF IsNew
<1>9. BlockStart(k) = kv + u
  BY <1>1, <1>2, <1>4, <1>8 DEF BlockStart
<1>10. (b + 1) * m = u + m
  BY <1>2, <1>4, NextTimes
<1>11. BlockEnd(k) = IF kv + new < kv + (u + m) THEN kv + new ELSE kv + (u + m)
  BY <1>1, <1>2, <1>8, <1>10 DEF BlockEnd, R!AtMost
<1>12. j \in BlockKeys(k)
  BY <1>2, <1>3, <1>4, <1>9, <1>11 DEF BlockKeys
<1>13. R!winKvStart = 0
  <2>1. R!maskType # 2
    BY RMask DEF RangeHere
  <2>2. QED
    BY <2>1, RWinStart DEF LeftOpen
<1>14. k \in R!winKvStart .. R!winKvEnd - 1
  BY <1>1, <1>6, <1>7, <1>13
<1>15. QED
  BY <1>12, <1>14 DEF WalkedTo

LEMMA RVisibleWalked ==
  ASSUME RangeHere, NEW t \in R!Tokens
  PROVE  R!Visible(R!Row(t)) \subseteq WalkedTo(R!winKvEnd)
<1>1. PICK base \in Nat, size \in 1 .. RANGE_TILE :
           /\ base = R!qBlockBase /\ size = R!qSBlockSize
           /\ base + size <= seq.q
  BY RTile
<1>2. PICK n \in Nat, d \in Int : n = R!kvSeqlen /\ d = R!diffS /\ d = n - seq.q
  BY RSeq DEF RangeHere
<1>3. PICK left \in Int, right \in Int :
        left = R!Window.left /\ right = R!Window.right /\ (~LeftOpen => left >= 0)
  BY RMask DEF RangeHere
<1>4. t \in Nat /\ t < size /\ R!Row(t) = base + t
  BY <1>1 DEF R!Tokens, R!Row
<1>5. R!Visible(R!Row(t)) = {j \in 0 .. n - 1 : Sees(R!Row(t), j)}
  BY <1>2, RRows, RSees DEF RangeHere
<1>6. ASSUME NEW j \in 0 .. n - 1, Sees(R!Row(t), j)
      PROVE  j \in WalkedTo(R!winKvEnd)
  <2>1. j \in Nat /\ j < n
    BY <1>2
  <2>2. RightOpen \/ j <= base + t + d + right
    BY <1>2, <1>3, <1>4, <1>6 DEF Sees
  <2>3. LeftOpen \/ j >= base + t + d - left
    BY <1>2, <1>3, <1>4, <1>6 DEF Sees
  <2>4. j < R!noSkipKvS
    <3>1. CASE RightOpen
      BY <1>2, <2>1, <3>1, RNoSkip
    <3>2. CASE ~RightOpen
      <4>1. PICK e \in Int : e = base + size + d + right /\ j < e
        BY <1>1, <1>2, <1>3, <1>4, <2>1, <2>2, <3>2
      <4>2. R!noSkipKvS = R!Clip(e)
        BY <1>1, <1>2, <1>3, <3>2, <4>1, RNoSkip
      <4>3. R!Clip(e) = IF e < 0 THEN 0 ELSE IF n < e THEN n ELSE e
        BY <1>2, RClip DEF RangeHere
      <4>4. QED
        BY <2>1, <4>1, <4>2, <4>3
    <3>3. QED
      BY <3>1, <3>2
  <2>5. LeftOpen \/ j >= R!Clip(R!qBlockBase + R!diffS - R!Window.left)
    <3>1. CASE ~LeftOpen
      <4>1. PICK ls \in Int : ls = base + d - left /\ j >= ls
        BY <1>2, <1>3, <1>4, <2>1, <2>3, <3>1
      <4>2. R!Clip(ls) = IF ls < 0 THEN 0 ELSE IF n < ls THEN n ELSE ls
        BY <1>2, RClip DEF RangeHere
      <4>3. QED
        BY <1>1, <1>2, <1>3, <2>1, <4>1, <4>2
    <3>2. QED
      BY <3>1
  <2>6. PICK old \in Nat : old = R!OldEnd /\ (old = R!noSkipKvS \/ old = seq.kv) /\ (seq.new = 0 => old = R!noSkipKvS)
    BY RBlocks
  <2>7. CASE j < old
    BY <2>1, <2>5, <2>6, <2>7, ROldWalked
  <2>8. CASE ~(j < old)
    <3>1. seq.new # 0 /\ seq.kv <= j
      BY <2>1, <2>4, <2>6, <2>8
    <3>2. QED
      BY <1>2, <2>1, <3>1, RNewWalked
  <2>9. QED
    BY <2>7, <2>8
<1>7. QED
  BY <1>5, <1>6

-----------------------------------------------------------------------------
(* The rows that see no key. *)
LEMMA RPrefix ==
  ASSUME RangeHere, NEW r \in 0 .. seq.q - 1, R!Cleared(r)
  PROVE  ~seq.decode /\ R!invalidPrefixEndRow # seq.q /\ r < R!invalidPrefixEndRow
<1>1. PICK base \in Nat, size \in 1 .. RANGE_TILE :
           /\ base = R!qBlockBase /\ size = R!qSBlockSize
           /\ base + size <= seq.q
  BY RTile
<1>2. PICK n \in Nat, d \in Int : n = R!kvSeqlen /\ d = R!diffS /\ d = n - seq.q
  BY RSeq DEF RangeHere
<1>3. PICK left \in Int : left = R!Window.left /\ (R!maskType = 2 /\ ~R!notPreMask => left >= 0)
  BY RMask DEF RangeHere, LeftOpen
<1>4. R!windowSizeLeftEndLen = base + d - left + size
  BY <1>1, <1>2, <1>3 DEF R!windowSizeLeftEndLen, R!windowSizeLeftStartLen
<1>5. ~(R!maskType = 2 /\ ~R!notPreMask /\ R!windowSizeLeftEndLen > R!kvSeqlen)
  BY <1>1, <1>2, <1>3, <1>4, RSeq DEF RangeHere
<1>6. R!invalidSuffixStartRow = 0
  BY <1>5 DEF R!invalidSuffixStartRow
<1>7. QED
  BY <1>6 DEF R!Cleared, R!FLASH_DECODE_FLAG, R!qSeqlen

LEMMA RClearedSees ==
  ASSUME RangeHere, NEW t \in R!Tokens, R!Cleared(R!Row(t))
  PROVE  R!Visible(R!Row(t)) = {} /\ ~seq.decode
<1>1. PICK r \in Nat : r = R!Row(t) /\ r \in 0 .. seq.q - 1
  BY RRows, RSeq DEF RangeHere
<1>2. PICK n \in Nat, d \in Int, q \in Nat, right \in Int :
        /\ n = R!kvSeqlen /\ d = R!diffS /\ q = seq.q /\ d = n - q /\ right = R!Window.right
        /\ (R!maskType = 1 => right = 0)
  BY RSeq, RMask DEF RangeHere
<1>3. ~seq.decode /\ R!invalidPrefixEndRow # q /\ r < R!invalidPrefixEndRow
  BY <1>1, <1>2, RPrefix
<1>4. ~RightOpen /\ r + d + right < 0
  <2>1. CASE R!maskType = 1 /\ R!qSeqlen > R!kvSeqlen
    <3>1. R!invalidPrefixEndRow = q - n
      BY <1>2, <2>1 DEF R!invalidPrefixEndRow, R!qSeqlen
    <3>2. QED
      BY <1>1, <1>2, <1>3, <2>1, <3>1 DEF RightOpen
  <2>2. CASE /\ ~(R!maskType = 1 /\ R!qSeqlen > R!kvSeqlen)
             /\ R!maskType = 2 /\ ~R!notNextMask /\ R!windowSizeRightStartLen < 0
    <3>1. R!invalidPrefixEndRow = R!AtMost(q, R!AtLeast(0, -(d + right)))
      BY <1>2, <2>2 DEF R!invalidPrefixEndRow, R!qSeqlen
    <3>2. PICK x \in Int : x = -(d + right)
      BY <1>2
    <3>3. r < x
      BY <1>1, <1>2, <1>3, <3>1, <3>2 DEF R!AtMost, R!AtLeast
    <3>4. QED
      BY <1>1, <1>2, <2>2, <3>2, <3>3 DEF RightOpen
  <2>3. CASE /\ ~(R!maskType = 1 /\ R!qSeqlen > R!kvSeqlen)
             /\ ~(R!maskType = 2 /\ ~R!notNextMask /\ R!windowSizeRightStartLen < 0)
    <3>1. R!invalidPrefixEndRow = q
      BY <1>2, <2>3 DEF R!invalidPrefixEndRow, R!qSeqlen
    <3>2. QED
      BY <1>3, <3>1
  <2>4. QED
    BY <2>1, <2>2, <2>3
<1>5. R!Visible(r) = {j \in 0 .. n - 1 : Sees(r, j)}
  BY <1>1, <1>2, RSees DEF RangeHere
<1>6. ASSUME NEW j \in 0 .. n - 1, Sees(r, j)
      PROVE  FALSE
  BY <1>1, <1>2, <1>4, <1>6 DEF Sees
<1>7. QED
  BY <1>1, <1>3, <1>5, <1>6

LEMMA REmptyIsCleared ==
  ASSUME RangeHere, NEW t \in R!Tokens, R!Visible(R!Row(t)) = {}, ~seq.decode,
         R!winKvStart < R!winKvEnd
  PROVE  R!Cleared(R!Row(t))
<1>1. PICK base \in Nat, size \in 1 .. RANGE_TILE :
           /\ base = R!qBlockBase /\ size = R!qSBlockSize
           /\ base + size <= seq.q
  BY RTile
<1>2. PICK n \in Nat, d \in Int, q \in Nat, left \in Int, right \in Int :
        /\ n = R!kvSeqlen /\ d = R!diffS /\ q = seq.q /\ d = n - q
        /\ right = R!Window.right /\ left = R!Window.left
        /\ (R!maskType = 1 => right = 0)
        /\ (R!maskType = 2 => seq.new = 0)
        /\ (~RightOpen => right >= 0) /\ (~LeftOpen => left >= 0)
        /\ R!maskType \in {0, 1, 2}
  BY RSeq, RMask DEF RangeHere
<1>3. PICK r \in Nat : r = R!Row(t) /\ r < q /\ r = base + t /\ t \in Nat
  <2>1. t \in Nat /\ R!Row(t) = base + t /\ t < size
    BY <1>1 DEF R!Tokens, R!Row
  <2>2. QED
    BY <1>1, <1>2, <2>1
<1>4. PICK tot \in Nat, more \in Nat, old \in Nat :
           /\ old = R!OldEnd
           /\ \A i \in Int : i < tot <=> i * RANGE_STACK_LEN < old
           /\ seq.new = 0 => more = 0 /\ old = R!noSkipKvS
           /\ R!winKvEnd = tot + more
  BY RBlocks
<1>5. n > 0
  <2>1. PICK k \in Nat : k = R!winKvStart
    BY RWinStart
  <2>2. PICK s \in Nat, e \in Nat : s < e /\ e <= R!kvSeqlen
    BY <2>1, RBlock
  <2>3. QED
    BY <1>2, <2>2
<1>6. R!Visible(r) = {j \in 0 .. n - 1 : Sees(r, j)}
  <2>1. r \in 0 .. seq.q - 1
    BY <1>2, <1>3
  <2>2. QED
    BY <1>2, <2>1, RSees DEF RangeHere
<1>7. \A j \in 0 .. n - 1 : ~(/\ RightOpen \/ j <= r + d + right
                              /\ LeftOpen \/ j >= r + d - left)
  BY <1>2, <1>3, <1>6 DEF Sees
<1>8. ~RightOpen /\ r + d + right < 0
  <2>1. r + d <= n - 1
    BY <1>2, <1>3
  <2>2. n - 1 \in 0 .. n - 1 /\ (LeftOpen \/ n - 1 >= r + d - left)
    BY <1>2, <1>3, <1>5, <2>1
  <2>3. ~RightOpen /\ ~(n - 1 <= r + d + right)
    BY <1>7, <2>2
  <2>4. ASSUME r + d + right >= 0
        PROVE  FALSE
    <3>1. PICK j \in Int : j = r + d + right
      BY <1>2, <1>3
    <3>2. j \in 0 .. n - 1 /\ j <= r + d + right /\ (LeftOpen \/ j >= r + d - left)
      BY <1>2, <1>3, <2>3, <2>4, <3>1
    <3>3. QED
      BY <1>7, <3>2
  <2>5. QED
    BY <1>2, <1>3, <2>3, <2>4
<1>9. R!invalidPrefixEndRow # q /\ r < R!invalidPrefixEndRow
  <2>1. CASE R!maskType = 1
    <3>1. q > n
      BY <1>2, <1>3, <1>8, <2>1
    <3>2. R!invalidPrefixEndRow = q - n
      BY <1>2, <2>1, <3>1 DEF R!invalidPrefixEndRow, R!qSeqlen
    <3>3. QED
      BY <1>2, <1>3, <1>5, <1>8, <2>1, <3>2
  <2>2. CASE R!maskType = 2
    <3>1. ~R!notNextMask
      BY <1>8, <2>2 DEF RightOpen
    <3>2. R!windowSizeRightStartLen = base + d + right
      BY <1>1, <1>2 DEF R!windowSizeRightStartLen
    <3>3. R!windowSizeRightStartLen < 0
      BY <1>1, <1>2, <1>3, <1>8, <3>2
    <3>4. R!invalidPrefixEndRow = R!AtMost(q, R!AtLeast(0, -(d + right)))
      BY <1>2, <2>2, <3>1, <3>3 DEF R!invalidPrefixEndRow, R!qSeqlen
    <3>5. PICK x \in Int : x = -(d + right) /\ r < x
      BY <1>2, <1>3, <1>8
    <3>6. x < q
      <4>1. ASSUME x >= q
            PROVE  FALSE
        <5>1. PICK e \in Int : e = base + size + d + right /\ e <= 0
          BY <1>1, <1>2, <3>5, <4>1
        <5>2. R!noSkipKvS = R!Clip(e)
          BY <1>1, <1>2, <1>8, <5>1, RNoSkip
        <5>3. R!Clip(e) = 0
          BY <1>2, <5>1, RClip DEF RangeHere
        <5>4. old = 0 /\ more = 0
          BY <1>2, <1>4, <2>2, <5>2, <5>3
        <5>5. 0 * RANGE_STACK_LEN = 0 /\ 0 \in Int
          BY RSeq DEF RangeHere
        <5>6. ~(0 < tot)
          BY <1>4, <5>4, <5>5
        <5>7. R!winKvEnd = 0
          BY <1>4, <5>4, <5>6
        <5>8. QED
          BY <5>7, RWinStart
      <4>2. QED
        BY <1>2, <3>5, <4>1
    <3>7. R!invalidPrefixEndRow = x
      BY <1>2, <1>3, <3>4, <3>5, <3>6 DEF R!AtMost, R!AtLeast
    <3>8. QED
      BY <1>2, <3>5, <3>6, <3>7
  <2>3. R!maskType # 0
    BY <1>8 DEF RightOpen
  <2>4. QED
    BY <1>2, <2>1, <2>2, <2>3
<1>10. R!invalidSuffixStartRow = 0
  <2>1. R!windowSizeLeftEndLen = base + d - left + size
    BY <1>1, <1>2 DEF R!windowSizeLeftEndLen, R!windowSizeLeftStartLen
  <2>2. ~(R!maskType = 2 /\ ~R!notPreMask /\ R!windowSizeLeftEndLen > R!kvSeqlen)
    BY <1>1, <1>2, <2>1 DEF LeftOpen
  <2>3. QED
    BY <2>2 DEF R!invalidSuffixStartRow
<1>11. QED
  BY <1>2, <1>3, <1>9, <1>10 DEF R!Cleared, R!FLASH_DECODE_FLAG, R!qSeqlen

(* What a task without blocks leaves out. *)
LEMMA RNothingToSee ==
  ASSUME RangeHere, R!winKvStart >= R!winKvEnd, NEW t \in R!Tokens
  PROVE  R!Visible(R!Row(t)) = {}
<1>1. R!winKvStart \in Nat /\ R!winKvEnd \in Nat
  <2>1. PICK tot \in Nat, more \in Nat : R!winKvEnd = tot + more
    BY RBlocks
  <2>2. QED
    BY <2>1, RWinStart
<1>2. R!winKvStart .. R!winKvEnd - 1 = {}
  BY <1>1
<1>3. WalkedTo(R!winKvEnd) = {}
  BY <1>2 DEF WalkedTo
<1>4. QED
  BY <1>3, RVisibleWalked

-----------------------------------------------------------------------------
(* Steps leave the sequence as it is, ... *)
LEMMA RSameSeq ==
  ASSUME seq' = seq
  PROVE  /\ R!kvSeqlen' = R!kvSeqlen /\ R!curKSBlockNum' = R!curKSBlockNum
         /\ R!curQSBlockNum' = R!curQSBlockNum /\ R!copybackBlockIdx' = R!copybackBlockIdx
         /\ \A r : R!Visible(r)' = R!Visible(r)
<1>1. /\ R!kvSeqlen' = R!kvSeqlen /\ R!qSeqlen' = R!qSeqlen /\ R!Window' = R!Window
      /\ R!kvSeqlenOld' = R!kvSeqlenOld /\ (R!appendKVFlag' <=> R!appendKVFlag)
      /\ R!curQSBlockNum' = R!curQSBlockNum
  BY DEF R!kvSeqlen, R!qSeqlen, R!Window, R!WindowOf, R!kvSeqlenOld, R!appendKVFlag, R!curQSBlockNum
<1>2. /\ R!maskType' = R!maskType /\ R!diffS' = R!diffS /\ R!curKSBlockNum' = R!curKSBlockNum
  BY <1>1 DEF R!maskType, R!diffS, R!curKSBlockNum
<1>3. R!copybackBlockIdx' = R!copybackBlockIdx
  BY <1>1, <1>2 DEF R!copybackBlockIdx
<1>4. \A r : R!Visible(r)' = R!Visible(r)
  BY <1>1, <1>2 DEF R!Visible
<1>5. QED
  BY <1>1, <1>2, <1>3, <1>4

(* ... and within a tile its range, ... *)
LEMMA RSame ==
  ASSUME seq' = seq, rangeTile' = rangeTile
  PROVE  /\ R!kvSeqlen' = R!kvSeqlen /\ R!curKSBlockNum' = R!curKSBlockNum
         /\ R!winKvStart' = R!winKvStart /\ R!winKvEnd' = R!winKvEnd
         /\ R!kvSLoopNumTotalOld' = R!kvSLoopNumTotalOld /\ R!kvStartOld' = R!kvStartOld
         /\ \A k : WalkedTo(k)' = WalkedTo(k)
         /\ \A keys : ScoresOf(keys)' = ScoresOf(keys)
<1>1. /\ R!kvSeqlen' = R!kvSeqlen /\ R!qSeqlen' = R!qSeqlen /\ R!Window' = R!Window
      /\ R!kvSeqlenOld' = R!kvSeqlenOld /\ (R!appendKVFlag' <=> R!appendKVFlag)
      /\ R!curQSBlockNum' = R!curQSBlockNum /\ R!qBlockBase' = R!qBlockBase
  BY DEF R!kvSeqlen, R!qSeqlen, R!Window, R!WindowOf, R!kvSeqlenOld, R!appendKVFlag, R!curQSBlockNum,
         R!qBlockBase
<1>2. /\ R!maskType' = R!maskType /\ R!diffS' = R!diffS /\ R!curKSBlockNum' = R!curKSBlockNum
      /\ R!qSBlockSize' = R!qSBlockSize
      /\ (R!notPreMask' <=> R!notPreMask) /\ (R!notNextMask' <=> R!notNextMask)
  BY <1>1 DEF R!maskType, R!diffS, R!curKSBlockNum, R!qSBlockSize, R!notPreMask, R!notNextMask
<1>3. /\ R!windowSizeLeftStartLen' = R!windowSizeLeftStartLen
      /\ R!windowSizeRightStartLen' = R!windowSizeRightStartLen
      /\ \A n : R!Clip(n)' = R!Clip(n)
  BY <1>1, <1>2 DEF R!windowSizeLeftStartLen, R!windowSizeRightStartLen, R!Clip
<1>4. R!windowSizeRightEndLen' = R!windowSizeRightEndLen
  BY <1>2, <1>3 DEF R!windowSizeRightEndLen
<1>5. R!noSkipKvS' = R!noSkipKvS
  BY <1>1, <1>2, <1>3, <1>4 DEF R!noSkipKvS, R!Clip
<1>6. R!winKvStart' = R!winKvStart
  BY <1>1, <1>2, <1>3 DEF R!winKvStart, R!Clip
<1>7. R!kvSLoopNumTotalOld' = R!kvSLoopNumTotalOld /\ R!kvLoopNumTotalNew' = R!kvLoopNumTotalNew
      /\ R!OldEnd' = R!OldEnd
  BY <1>1, <1>5 DEF R!kvSLoopNumTotalOld, R!kvLoopNumTotalNew, R!OldEnd
<1>8. R!kvStartOld' = R!kvStartOld /\ R!winKvEnd' = R!winKvEnd
  BY <1>1, <1>7 DEF R!kvStartOld, R!winKvEnd
<1>9. \A k : IsNew(k)' <=> IsNew(k)
  BY <1>1, <1>7 DEF IsNew
<1>10. \A k : BlockStart(k)' = BlockStart(k) /\ BlockEnd(k)' = BlockEnd(k)
  BY <1>1, <1>7, <1>9 DEF BlockStart, BlockEnd
<1>11. \A k : BlockKeys(k)' = BlockKeys(k)
  BY <1>10 DEF BlockKeys
<1>12. \A k : WalkedTo(k)' = WalkedTo(k)
  BY <1>6, <1>11 DEF WalkedTo
<1>13. \A r, j : Sees(r, j)' <=> Sees(r, j)
  BY <1>1, <1>2 DEF Sees, RightOpen, LeftOpen
<1>14. \A keys : ScoresOf(keys)' = ScoresOf(keys)
  BY <1>1, <1>2, <1>13 DEF ScoresOf, R!Tokens, R!Row
<1>15. QED
  BY <1>1, <1>2, <1>6, <1>7, <1>8, <1>12, <1>14

(* ... and within a task its slice. *)
LEMMA RSameTask ==
  ASSUME seq' = seq, rangeTile' = rangeTile, st' = st, cuts' = cuts
  PROVE  R!kvStart' = R!kvStart /\ R!kvEnd' = R!kvEnd
<1>1. R!enS2IdxNow' = R!enS2IdxNow
  BY RSame DEF R!enS2IdxNow
<1>2. R!SliceEnd' = R!SliceEnd
  BY <1>1, RSame DEF R!SliceEnd, R!FLASH_DECODE_FLAG
<1>3. R!kvEndOld' = R!kvEndOld /\ R!kvStart' = R!kvStart
  BY <1>2, RSame DEF R!kvEndOld, R!kvStart, R!FLASH_DECODE_FLAG
<1>4. QED
  BY <1>2, <1>3, RSame DEF R!kvEnd

LEMMA RangeInvInit == R!Init => RangeInv
<1> SUFFICES ASSUME R!Init
             PROVE  RangeInv
  OBVIOUS
<1>1. /\ seq \in Ranges /\ rangeTile = 0 /\ st = 0 /\ kvSIdx = 0 /\ seen = {} /\ scored = {}
      /\ read = {} /\ pc = "begin"
      /\ cuts \in IF seq.decode THEN SUBSET (1 .. R!curKSBlockNum - 1) ELSE {{}}
      /\ cache = [r \in 0 .. R!kvSeqlen - 1 |-> IF r < seq.kv THEN r ELSE Unset]
      /\ out = [r \in 0 .. seq.q - 1 |-> Unset]
  BY DEF R!Init, R!FLASH_DECODE_FLAG, R!kvSeqlenOld, R!qSeqlen
<1>2. PICK n \in Nat : n = R!curQSBlockNum /\ n > 0
  <2>1. seq.q \in Nat \ {0} /\ RANGE_TILE \in Nat \ {0} /\ R!curQSBlockNum = R!CeilDiv(seq.q, RANGE_TILE)
    BY <1>1, RSeq DEF R!curQSBlockNum, R!qSeqlen
  <2>2. R!curQSBlockNum \in Nat /\ \A i \in Int : i < R!curQSBlockNum <=> i * RANGE_TILE < seq.q
    BY <2>1, RCeil
  <2>3. 0 * RANGE_TILE < seq.q /\ 0 \in Int
    BY <2>1
  <2>4. QED
    BY <2>2, <2>3
<1>3. RangeHere
  BY <1>1, <1>2 DEF RangeHere
<1>4. R!curKSBlockNum \in Nat
  BY <1>3, RBlocks
<1>5. Placed
  BY <1>1, <1>2, <1>4 DEF Placed
<1>6. Walking
  BY <1>1 DEF Walking
<1>7. Scored
  <2>1. R!winKvStart .. 0 - 1 = {}
    BY <1>3, RWinStart
  <2>2. Behind = {}
    BY <1>1, <2>1 DEF Behind, WalkedTo
  <2>3. ScoresOf({}) = {}
    BY DEF ScoresOf
  <2>4. QED
    BY <1>1, <2>2, <2>3 DEF Scored
<1>8. CacheKept
  <2>1. R!copybackBlockIdx \in Int /\ R!copybackBlockIdx >= 0
    <3>1. seq.bIdx \in Nat /\ n \in Nat \ {0}
      BY <1>1, <1>2, RSeq
    <3>2. seq.bIdx % n \in 0 .. n - 1
      BY <3>1
    <3>3. QED
      BY <1>2, <3>1, <3>2 DEF R!copybackBlockIdx
  <2>2. \A r \in 0 .. R!kvSeqlen - 1 : r < seq.kv => cache[r] = r
    BY <1>1
  <2>3. QED
    BY <1>1, <2>1, <2>2 DEF CacheKept
<1>9. Written
  <2>1. 0 * RANGE_TILE = 0
    BY <1>1, RSeq
  <2>2. QED
    BY <1>1, <2>1 DEF Written
<1>10. QED
  BY <1>5, <1>6, <1>7, <1>8, <1>9 DEF RangeInv

LEMMA RHere ==
  ASSUME Placed, pc # "done"
  PROVE  /\ RangeHere /\ st \in Nat /\ cuts \subseteq 1 .. R!curKSBlockNum - 1
         /\ (~seq.decode => st = 0)
         /\ (seq.decode => st < R!curKSBlockNum \/ (st = 0 /\ R!curKSBlockNum = 0))
<1>1. R!curQSBlockNum \in Nat
  BY RSeq, RCeil DEF Placed, R!curQSBlockNum, R!qSeqlen
<1>2. QED
  BY <1>1 DEF Placed, RangeHere

(* On to the next tile, with the rows of this one written. *)
LEMMA RNextTile ==
  ASSUME Placed, CacheKept, Written, pc # "done", ~R!PartsLeft,
         NEW itsSeen, NEW itsScored, R!NextTask(itsSeen, itsScored),
         DOMAIN out' = DOMAIN out,
         \A r \in 0 .. seq.q - 1 :
           IF r - R!qBlockBase \in R!Tokens
           THEN /\ R!Visible(r) # {} \/ ~seq.decode => out'[r] = R!Visible(r)
                /\ out'[r] \subseteq 0 .. R!kvSeqlen - 1
           ELSE out'[r] = out[r],
         rangeTile = R!copybackBlockIdx =>
           \A r \in 0 .. R!kvSeqlen - 1 : r >= seq.kv => cache[r] = r
  PROVE  RangeInv'
<1>1. /\ seq' = seq /\ cuts' = cuts /\ kvSIdx' = kvSIdx /\ read' = read /\ cache' = cache
      /\ st' = 0 /\ rangeTile' = rangeTile + 1 /\ seen' = {} /\ scored' = {}
      /\ pc' = IF rangeTile + 1 < R!curQSBlockNum THEN "begin" ELSE "done"
  BY DEF R!NextTask
<1>2. RangeHere
  BY RHere
<1>3. PICK n \in Nat, i \in Nat : n = R!curQSBlockNum /\ i = rangeTile /\ i < n
  <2>1. R!curQSBlockNum \in Nat
    BY RSeq, RCeil DEF Placed, R!curQSBlockNum, R!qSeqlen
  <2>2. QED
    BY <1>2, <2>1 DEF RangeHere
<1>4. PICK q \in Nat \ {0}, rows \in Nat \ {0}, kv \in Nat, len \in Nat :
        q = seq.q /\ rows = RANGE_TILE /\ kv = seq.kv /\ len = R!kvSeqlen
  BY <1>2, RSeq DEF RangeHere
<1>5. /\ R!kvSeqlen' = len /\ R!curKSBlockNum' = R!curKSBlockNum /\ R!curQSBlockNum' = n
      /\ R!copybackBlockIdx' = R!copybackBlockIdx /\ \A r : R!Visible(r)' = R!Visible(r)
      /\ seq'.kv = kv /\ seq'.q = q /\ seq'.decode = seq.decode
  BY <1>1, <1>3, <1>4, RSameSeq
<1>6. R!curKSBlockNum \in Nat
  BY <1>2, RBlocks
<1>7. ASSUME seq.decode
      PROVE  pc' = "done"
  <2>1. PICK base \in Int : base = i * rows /\ base >= 0 /\ base < q
    <3>1. PICK base \in Nat, size \in 1 .. RANGE_TILE : base = rangeTile * RANGE_TILE /\ base + size <= seq.q
      BY <1>2, RTile
    <3>2. QED
      BY <1>3, <1>4, <3>1
  <2>2. q <= rows
    BY <1>2, <1>4, <1>7, RSeq DEF RangeHere
  <2>3. rangeTile = R!curQSBlockNum - 1
    <3>1. PICK b \in Nat : /\ b = rangeTile * RANGE_TILE
                           /\ rangeTile = R!curQSBlockNum - 1 <=> b + RANGE_TILE >= seq.q
      BY <1>2, RTile
    <3>2. QED
      BY <1>4, <2>2, <3>1
  <2>4. QED
    BY <1>1, <1>3, <2>3
<1>8. Placed'
  <2>1. i + 1 \in 0 .. n /\ (pc' = "done" <=> i + 1 = n) /\ pc' \in {"begin", "walk", "end", "done"}
    BY <1>1, <1>3
  <2>2. /\ seq' \in Ranges /\ cuts' \subseteq 1 .. R!curKSBlockNum - 1
        /\ kvSIdx' \in 0 .. R!curKSBlockNum
    BY <1>1 DEF Placed
  <2>3. st' \in Nat /\ st' = 0
    BY <1>1
  <2>4. QED
    BY <1>1, <1>3, <1>5, <1>7, <2>1, <2>2, <2>3 DEF Placed
<1>9. Walking'
  BY <1>1 DEF Walking
<1>10. Scored'
  <2>1. ScoresOf({})' = {}
    BY DEF ScoresOf
  <2>2. Behind' = {}
    BY <1>1, <1>5, <1>7 DEF Behind
  <2>3. QED
    BY <1>1, <2>1, <2>2 DEF Scored
<1>11. CacheKept'
  <2>1. PICK cb \in Nat : cb = R!copybackBlockIdx
    <3>1. seq.bIdx \in Nat /\ n \in Nat \ {0}
      BY <1>2, <1>3, RSeq DEF RangeHere
    <3>2. seq.bIdx % n \in 0 .. n - 1
      BY <3>1
    <3>3. QED
      BY <1>3, <3>1, <3>2 DEF R!copybackBlockIdx
  <2>2. ASSUME NEW r \in 0 .. len - 1,
               \/ r < kv
               \/ i + 1 > cb
        PROVE  cache[r] = r
    <3>1. CASE r < kv \/ i > cb
      BY <1>3, <1>4, <2>1, <3>1 DEF CacheKept
    <3>2. CASE ~(r < kv) /\ ~(i > cb)
      BY <1>3, <1>4, <2>1, <2>2, <3>2
    <3>3. QED
      BY <3>1, <3>2
  <2>3. /\ read' \subseteq 0 .. kv - 1
        /\ cache' \in [0 .. len - 1 -> (0 .. len - 1) \cup {Unset}]
    BY <1>1, <1>4 DEF CacheKept
  <2>4. ASSUME NEW r \in 0 .. len - 1,
               \/ r < kv
               \/ rangeTile' > cb
               \/ rangeTile' = cb /\ r \in seen'
        PROVE  cache'[r] = r
    BY <1>1, <1>3, <2>2, <2>4
  <2>5. QED
    BY <1>5, <2>1, <2>3, <2>4 DEF CacheKept
<1>12. Written'
  <2>1. DOMAIN out' = 0 .. q - 1
    BY <1>4 DEF Written
  <2>2. ASSUME NEW r \in 0 .. q - 1
        PROVE  out'[r] = Unset \/ out'[r] \subseteq 0 .. len - 1
    BY <1>4, <2>2 DEF Written
  <2>3. ASSUME NEW r \in 0 .. q - 1, r < (i + 1) * rows,
               R!Visible(r) # {} \/ ~seq.decode
        PROVE  out'[r] = R!Visible(r)
    <3>1. CASE r - R!qBlockBase \in R!Tokens
      BY <1>4, <2>3, <3>1
    <3>2. CASE r - R!qBlockBase \notin R!Tokens
      <4>1. out'[r] = out[r]
        BY <1>4, <3>2
      <4>2. PICK base \in Int, next \in Int : base = i * rows /\ next = (i + 1) * rows
        BY <1>3, <1>4
      <4>3. ~(r >= base /\ r < next)
        BY <1>2, <1>3, <1>4, <3>2, <4>2, RRows
      <4>4. r < rangeTile * RANGE_TILE
        BY <1>3, <1>4, <2>3, <4>2, <4>3
      <4>5. out[r] = R!Visible(r)
        BY <1>4, <2>3, <4>4 DEF Written, RowIsRight
      <4>6. QED
        BY <4>1, <4>5
    <3>3. QED
      BY <3>1, <3>2
  <2>4. \A r \in 0 .. q - 1 : r < rangeTile' * RANGE_TILE => RowIsRight(r)'
    BY <1>1, <1>3, <1>4, <1>5, <2>3 DEF RowIsRight
  <2>5. QED
    BY <1>5, <2>1, <2>2, <2>4 DEF Written
<1>13. QED
  BY <1>8, <1>9, <1>10, <1>11, <1>12 DEF RangeInv

LEMMA RBeginTask ==
  ASSUME RangeInv, R!BeginTask
  PROVE  RangeInv'
<1>1. Placed /\ Walking /\ Scored /\ CacheKept /\ Written
  BY DEF RangeInv
<1>2. /\ pc = "begin" /\ ~R!isEmptyTask /\ pc' = "walk" /\ kvSIdx' = R!Jump(R!kvStart)
      /\ UNCHANGED <<seq, cuts, rangeTile, st, seen, scored, read, cache, out>>
  BY DEF R!BeginTask
<1>3. RangeHere
  BY <1>1, <1>2, RHere
<1>4. PICK start \in Nat, end \in Nat :
        /\ start = R!kvStart /\ end = R!kvEnd /\ start < end /\ end <= R!curKSBlockNum
        /\ R!curKSBlockNum \in Nat /\ R!Jump(start) = start
        /\ start = IF seq.decode THEN st ELSE R!winKvStart
  <2>1. R!kvStart \in Nat /\ R!kvEnd \in Nat /\ R!kvEnd <= R!curKSBlockNum /\ R!curKSBlockNum \in Nat
        /\ R!kvStart = (IF seq.decode THEN st ELSE R!winKvStart) /\ R!Jump(R!kvStart) = R!kvStart
    BY <1>1, <1>2, RHere, RSlice
  <2>2. R!kvStart < R!kvEnd
    BY <1>2, <2>1 DEF R!isEmptyTask
  <2>3. QED
    BY <2>1, <2>2
<1>5. /\ R!kvSeqlen' = R!kvSeqlen /\ R!curKSBlockNum' = R!curKSBlockNum
      /\ R!curQSBlockNum' = R!curQSBlockNum /\ R!copybackBlockIdx' = R!copybackBlockIdx
      /\ \A r : R!Visible(r)' = R!Visible(r)
  BY <1>2, RSameSeq
<1>6. /\ \A k : WalkedTo(k)' = WalkedTo(k)
      /\ \A keys : ScoresOf(keys)' = ScoresOf(keys)
  BY <1>2, RSame
<1>7. R!kvStart' = start /\ R!kvEnd' = end
  BY <1>2, <1>4, RSameTask
<1>8. Placed'
  BY <1>1, <1>2, <1>4, <1>5 DEF Placed
<1>9. Walking'
  BY <1>2, <1>4, <1>7 DEF Walking
<1>10. Scored'
  <2>1. Behind = WalkedTo(start)
    <3>1. CASE seq.decode
      BY <1>2, <1>4, <3>1 DEF Behind
    <3>2. CASE ~seq.decode
      <4>1. R!winKvStart .. start - 1 = {}
        BY <1>4, <3>2
      <4>2. WalkedTo(start) = {}
        BY <4>1 DEF WalkedTo
      <4>3. QED
        BY <1>2, <3>2, <4>2 DEF Behind
    <3>3. QED
      BY <3>1, <3>2
  <2>2. Behind' = WalkedTo(start)
    <3>1. Behind' = WalkedTo(kvSIdx)'
      BY <1>2 DEF Behind
    <3>2. kvSIdx' = start
      BY <1>2, <1>4
    <3>3. WalkedTo(kvSIdx)' = WalkedTo(start)
      BY <1>2, <3>2, RSame DEF WalkedTo, BlockKeys, BlockStart, BlockEnd, IsNew
    <3>4. QED
      BY <3>1, <3>3
  <2>3. seen' = Behind'
    BY <1>1, <1>2, <2>1, <2>2 DEF Scored
  <2>4. scored' = ScoresOf(seen)
    BY <1>1, <1>2 DEF Scored
  <2>5. ScoresOf(seen)' = ScoresOf(seen)
    BY <1>2, <1>6 DEF ScoresOf
  <2>6. QED
    BY <2>3, <2>4, <2>5 DEF Scored
<1>11. CacheKept'
  BY <1>1, <1>2, <1>5 DEF CacheKept
<1>12. Written'
  BY <1>1, <1>2, <1>5 DEF Written, RowIsRight
<1>13. QED
  BY <1>8, <1>9, <1>10, <1>11, <1>12 DEF RangeInv

LEMMA RWalkedKeys ==
  ASSUME RangeHere, NEW n \in Nat, n <= R!winKvEnd
  PROVE  WalkedTo(n) \subseteq 0 .. R!kvSeqlen - 1
<1>1. ASSUME NEW b \in R!winKvStart .. n - 1
      PROVE  BlockKeys(b) \subseteq 0 .. R!kvSeqlen - 1
  <2>1. R!winKvEnd \in Nat /\ R!winKvStart \in Nat /\ R!kvSeqlen \in Nat
    <3>1. PICK tot \in Nat, more \in Nat : R!winKvEnd = tot + more
      BY RBlocks
    <3>2. QED
      BY <3>1, RWinStart, RSeq DEF RangeHere
  <2>2. b \in Nat /\ b < R!winKvEnd
    BY <2>1
  <2>3. PICK s \in Nat, e \in Nat : s = BlockStart(b) /\ e = BlockEnd(b) /\ e <= R!kvSeqlen
    BY <2>2, RBlock
  <2>4. QED
    BY <2>1, <2>3 DEF BlockKeys
<1>2. QED
  BY <1>1 DEF WalkedTo

(* A step of the walk adds the keys of its block. *)
LEMMA RWalksOn ==
  ASSUME RangeHere, NEW k \in Nat, R!winKvStart <= k
  PROVE  WalkedTo(k + 1) = WalkedTo(k) \cup BlockKeys(k)
<1>1. PICK ws \in Nat : ws = R!winKvStart /\ ws <= k
  BY RWinStart
<1>2. ws .. (k + 1) - 1 = (ws .. k - 1) \cup {k}
  BY <1>1
<1>3. QED
  BY <1>1, <1>2 DEF WalkedTo

LEMMA RInitOut ==
  ASSUME RangeInv, R!InitOut
  PROVE  RangeInv'
<1>1. Placed /\ Walking /\ Scored /\ CacheKept /\ Written
  BY DEF RangeInv
<1>2. pc = "begin" /\ R!isEmptyTask
  BY DEF R!InitOut
<1>3. RangeHere
  BY <1>1, <1>2, RHere
<1>4. ~R!isSplitKV /\ ~R!PartsLeft
  BY <1>1, <1>2, RHere, RSlice
<1>5. R!winKvStart >= R!winKvEnd
  <2>1. CASE seq.decode
    <3>1. R!curKSBlockNum = 0 /\ R!winKvStart = 0 /\ R!winKvEnd = R!curKSBlockNum
      BY <1>1, <1>2, <2>1, RHere, RSlice
    <3>2. QED
      BY <3>1
  <2>2. CASE ~seq.decode
    <3>1. R!kvStart = R!winKvStart /\ R!kvEnd = R!winKvEnd
      BY <1>1, <1>2, <2>2, RHere, RSlice
    <3>2. QED
      BY <1>2, <3>1 DEF R!isEmptyTask
  <2>3. QED
    BY <2>1, <2>2
<1>6. /\ out' = [r \in DOMAIN out |-> IF \E t \in R!Tokens : r = R!Row(t) THEN {} ELSE out[r]]
      /\ R!NextTask(seen, scored)
  BY <1>4 DEF R!InitOut
<1>7. DOMAIN out' = DOMAIN out
  BY <1>6
<1>8. ASSUME NEW r \in 0 .. seq.q - 1
      PROVE  IF r - R!qBlockBase \in R!Tokens
             THEN out'[r] = {} /\ R!Visible(r) = {}
             ELSE out'[r] = out[r]
  <2>1. out'[r] = IF \E t \in R!Tokens : r = R!Row(t) THEN {} ELSE out[r]
    BY <1>1, <1>6 DEF Written
  <2>2. CASE r - R!qBlockBase \in R!Tokens
    <3>1. r = R!Row(r - R!qBlockBase)
      BY <1>3, RRows
    <3>2. out'[r] = {}
      BY <2>1, <2>2, <3>1
    <3>3. R!Visible(R!Row(r - R!qBlockBase)) = {}
      BY <1>3, <1>5, <2>2, RNothingToSee
    <3>4. QED
      BY <2>2, <3>1, <3>2, <3>3
  <2>3. CASE r - R!qBlockBase \notin R!Tokens
    <3>1. \A t \in R!Tokens : r = R!Row(t) => r - R!qBlockBase = t
      BY <1>3, RRows
    <3>2. QED
      BY <2>1, <2>3, <3>1
  <2>4. QED
    BY <2>2, <2>3
<1>9. ASSUME NEW r \in 0 .. R!kvSeqlen - 1, r >= seq.kv
      PROVE  FALSE
  <2>1. r \in Nat /\ r < R!kvSeqlen /\ seq.new # 0 /\ seq.kv <= r
    BY <1>3, <1>9, RSeq DEF RangeHere
  <2>2. r \in WalkedTo(R!winKvEnd)
    BY <1>3, <2>1, RNewWalked
  <2>3. R!winKvStart \in Nat /\ R!winKvEnd \in Nat
    BY <1>1, <1>2, <1>3, RHere, RSlice, RWinStart
  <2>4. R!winKvStart .. R!winKvEnd - 1 = {}
    BY <1>5, <2>3
  <2>5. QED
    BY <2>2, <2>4 DEF WalkedTo
<1>10. QED
  <2>1. \A r \in 0 .. seq.q - 1 :
          IF r - R!qBlockBase \in R!Tokens
          THEN /\ R!Visible(r) # {} \/ ~seq.decode => out'[r] = R!Visible(r)
               /\ out'[r] \subseteq 0 .. R!kvSeqlen - 1
          ELSE out'[r] = out[r]
    BY <1>8
  <2>2. QED
    BY <1>1, <1>2, <1>4, <1>6, <1>7, <1>9, <2>1, RNextTile

(* What weighs in a row of a tile that has walked its range. *)
LEMMA RWeighs ==
  ASSUME RangeHere, seen = WalkedTo(R!winKvEnd), scored = ScoresOf(seen),
         seen \subseteq 0 .. R!kvSeqlen - 1, NEW t \in R!Tokens
  PROVE  /\ R!Weighs(t) \subseteq 0 .. R!kvSeqlen - 1
         /\ R!Visible(R!Row(t)) # {} => R!Weighs(t) = R!Visible(R!Row(t))
<1> DEFINE its == {x[2] : x \in {y \in scored : y[1] = t}}
<1>1. R!Weighs(t) = IF its = {} THEN seen ELSE its
  BY DEF R!Weighs
<1>2. its = {j \in seen : Sees(R!Row(t), j)}
  <2>1. ASSUME NEW j \in its
        PROVE  j \in seen /\ Sees(R!Row(t), j)
    <3>1. PICK x \in scored : x[1] = t /\ x[2] = j
      OBVIOUS
    <3>2. x \in R!Tokens \X seen /\ Sees(R!Row(x[1]), x[2])
      BY <3>1 DEF ScoresOf
    <3>3. QED
      BY <3>1, <3>2
  <2>2. ASSUME NEW j \in seen, Sees(R!Row(t), j)
        PROVE  j \in its
    <3>1. <<t, j>> \in R!Tokens \X seen /\ <<t, j>>[1] = t /\ <<t, j>>[2] = j
      OBVIOUS
    <3>2. <<t, j>> \in scored
      BY <2>2, <3>1 DEF ScoresOf
    <3>3. <<t, j>> \in {y \in scored : y[1] = t}
      BY <3>1, <3>2
    <3>4. QED
      BY <3>1, <3>3
  <2>3. QED
    BY <2>1, <2>2
<1> HIDE DEF its
<1>3. R!Row(t) \in 0 .. seq.q - 1
  BY RRows
<1>4. R!Visible(R!Row(t)) = {j \in 0 .. R!kvSeqlen - 1 : Sees(R!Row(t), j)}
  BY <1>3, RSees DEF RangeHere
<1>5. R!Visible(R!Row(t)) \subseteq seen
  BY RVisibleWalked
<1>6. its = R!Visible(R!Row(t))
  BY <1>2, <1>4, <1>5
<1>7. QED
  BY <1>1, <1>2, <1>6

LEMMA RFinish ==
  ASSUME RangeInv, R!Finish
  PROVE  RangeInv'
<1>1. Placed /\ Walking /\ Scored /\ CacheKept /\ Written
  BY DEF RangeInv
<1>2. pc = "end" /\ R!NextTask(seen, scored)
  BY DEF R!Finish
<1>3. RangeHere
  BY <1>1, <1>2, RHere
<1>4. PICK start \in Nat, end \in Nat, all \in Nat :
        start = R!kvStart /\ end = R!kvEnd /\ all = R!winKvEnd /\ start < end /\ end <= all
        /\ all <= R!curKSBlockNum /\ R!curKSBlockNum \in Nat
  <2>1. R!kvStart \in Nat /\ R!kvEnd \in Nat /\ R!winKvEnd \in Nat /\ R!kvEnd <= R!winKvEnd
        /\ R!winKvEnd <= R!curKSBlockNum /\ R!curKSBlockNum \in Nat
    BY <1>1, <1>2, RHere, RSlice
  <2>2. R!kvStart < R!kvEnd
    BY <1>1, <1>2 DEF Walking
  <2>3. QED
    BY <2>1, <2>2
<1>5. seen = WalkedTo(end) /\ scored = ScoresOf(seen)
  BY <1>1, <1>2, <1>4 DEF Scored, Behind
<1>6. CASE R!PartsLeft
  <2>1. /\ seq' = seq /\ cuts' = cuts /\ kvSIdx' = kvSIdx /\ read' = read /\ cache' = cache
        /\ st' = R!enS2IdxNow /\ rangeTile' = rangeTile /\ pc' = "begin"
        /\ seen' = seen /\ scored' = scored /\ out' = out
    BY <1>6 DEF R!Finish, R!NextTask
  <2>2. seq.decode /\ R!enS2IdxNow < R!curKSBlockNum
    BY <1>6 DEF R!PartsLeft, R!FLASH_DECODE_FLAG
  <2>3. R!kvEnd = R!enS2IdxNow
    BY <1>1, <1>2, <2>2, RHere, RSlice
  <2>4. st' = end /\ end < R!curKSBlockNum
    BY <1>4, <2>1, <2>2, <2>3
  <2>5. /\ R!kvSeqlen' = R!kvSeqlen /\ R!curKSBlockNum' = R!curKSBlockNum
        /\ R!curQSBlockNum' = R!curQSBlockNum /\ R!copybackBlockIdx' = R!copybackBlockIdx
        /\ \A r : R!Visible(r)' = R!Visible(r)
    BY <2>1, RSameSeq
  <2>6. Placed'
    BY <1>1, <1>2, <2>1, <2>2, <2>4, <2>5 DEF Placed
  <2>7. Walking'
    BY <2>1 DEF Walking
  <2>8. Scored'
    <3>1. Behind' = WalkedTo(st)'
      BY <2>1, <2>2 DEF Behind
    <3>2. WalkedTo(st)' = WalkedTo(end)
      BY <2>1, <2>4, RSame DEF WalkedTo, BlockKeys, BlockStart, BlockEnd, IsNew
    <3>3. ScoresOf(seen)' = ScoresOf(seen)
      BY <2>1, RSame DEF ScoresOf
    <3>4. QED
      BY <1>5, <2>1, <3>1, <3>2, <3>3 DEF Scored
  <2>9. CacheKept'
    BY <1>1, <2>1, <2>5 DEF CacheKept
  <2>10. Written'
    BY <1>1, <2>1, <2>5 DEF Written, RowIsRight
  <2>11. QED
    BY <2>6, <2>7, <2>8, <2>9, <2>10 DEF RangeInv
<1>7. CASE ~R!PartsLeft
  <2>1. end = all
    <3>1. CASE seq.decode
      <4>1. R!kvEnd = R!enS2IdxNow /\ ~(R!enS2IdxNow < R!curKSBlockNum)
        BY <1>1, <1>2, <1>7, <3>1, RHere, RSlice
      <4>2. QED
        BY <1>4, <4>1
    <3>2. CASE ~seq.decode
      BY <1>1, <1>2, <1>4, <3>2, RHere, RSlice
    <3>3. QED
      BY <3>1, <3>2
  <2>2. seen = WalkedTo(R!winKvEnd) /\ seen \subseteq 0 .. R!kvSeqlen - 1
    BY <1>3, <1>4, <1>5, <2>1, RWalkedKeys
  <2>3. out' = [r \in DOMAIN out |->
                  IF r - R!qBlockBase \notin R!Tokens THEN out[r]
                  ELSE IF R!Cleared(r) THEN {} ELSE R!Weighs(r - R!qBlockBase)]
    BY <1>7 DEF R!Finish
  <2>4. ASSUME NEW r \in 0 .. seq.q - 1, NEW t \in R!Tokens, t = r - R!qBlockBase
        PROVE  /\ R!Visible(r) # {} \/ ~seq.decode => out'[r] = R!Visible(r)
               /\ out'[r] \subseteq 0 .. R!kvSeqlen - 1
    <3>1. R!Row(t) = r
      BY <1>3, <2>4, RRows
    <3>2. out'[r] = IF R!Cleared(r) THEN {} ELSE R!Weighs(t)
      BY <1>1, <2>3, <2>4 DEF Written
    <3>3. /\ R!Weighs(t) \subseteq 0 .. R!kvSeqlen - 1
          /\ R!Visible(r) # {} => R!Weighs(t) = R!Visible(r)
      BY <1>3, <1>5, <2>2, <3>1, RWeighs
    <3>4. R!Cleared(r) => R!Visible(r) = {}
      BY <1>3, <3>1, RClearedSees
    <3>5. R!Visible(r) = {} /\ ~seq.decode => R!Cleared(r)
      <4>1. ~seq.decode => R!winKvStart < R!winKvEnd
        BY <1>1, <1>2, <1>4, RHere, RSlice
      <4>2. QED
        BY <1>3, <3>1, <4>1, REmptyIsCleared
    <3>6. QED
      BY <3>2, <3>3, <3>4, <3>5
  <2>5. \A r \in 0 .. seq.q - 1 :
          IF r - R!qBlockBase \in R!Tokens
          THEN /\ R!Visible(r) # {} \/ ~seq.decode => out'[r] = R!Visible(r)
               /\ out'[r] \subseteq 0 .. R!kvSeqlen - 1
          ELSE out'[r] = out[r]
    BY <1>1, <2>3, <2>4 DEF Written
  <2>6. ASSUME rangeTile = R!copybackBlockIdx, NEW r \in 0 .. R!kvSeqlen - 1, r >= seq.kv
        PROVE  cache[r] = r
    <3>1. r \in Nat /\ r < R!kvSeqlen /\ seq.new # 0 /\ seq.kv <= r
      BY <1>3, <2>6, RSeq DEF RangeHere
    <3>2. r \in seen
      BY <1>3, <2>2, <3>1, RNewWalked
    <3>3. QED
      BY <1>1, <2>6, <3>2 DEF CacheKept
  <2>7. DOMAIN out' = DOMAIN out
    BY <2>3
  <2>8. QED
    BY <1>1, <1>2, <1>7, <2>5, <2>6, <2>7, RNextTile
<1>8. QED
  BY <1>6, <1>7

LEMMA RRunStack ==
  ASSUME RangeInv, R!RunStack
  PROVE  RangeInv'
<1>1. Placed /\ Walking /\ Scored /\ CacheKept /\ Written
  BY DEF RangeInv
<1>2. /\ pc = "walk"
      /\ seen' = seen \cup {R!Key(c) : c \in R!Columns}
      /\ scored' = scored \cup {<<x[1], R!Key(x[2])>> :
                                  x \in {y \in R!Tokens \X R!Columns : R!Keeps(y[1], y[2])}}
      /\ read' = IF R!isAppendBlock THEN read ELSE read \cup {R!kvSStartIdx + c : c \in R!Columns}
      /\ cache' = [r \in DOMAIN cache |-> IF \E c \in R!Copyback : r = R!kvSStartIdx + c
                                           THEN R!NewKey(r - R!kvSStartIdx) ELSE cache[r]]
      /\ kvSIdx' = R!Jump(kvSIdx + 1)
      /\ pc' = IF kvSIdx + 1 >= R!kvEnd THEN "end" ELSE "walk"
      /\ seq' = seq /\ cuts' = cuts /\ rangeTile' = rangeTile /\ st' = st /\ out' = out
  BY DEF R!RunStack
<1>3. RangeHere
  BY <1>1, <1>2, RHere
<1>4. PICK k \in Nat, start \in Nat, end \in Nat :
        /\ k = kvSIdx /\ start = R!kvStart /\ end = R!kvEnd /\ start <= k /\ k < end
        /\ end <= R!winKvEnd /\ R!winKvEnd <= R!curKSBlockNum /\ R!curKSBlockNum \in Nat
        /\ R!winKvEnd \in Nat /\ R!Jump(k + 1) = k + 1 /\ R!winKvStart <= start
  <2>1. /\ R!kvStart \in Nat /\ R!kvEnd \in Nat /\ R!winKvEnd \in Nat /\ R!kvEnd <= R!winKvEnd
        /\ R!winKvEnd <= R!curKSBlockNum /\ R!curKSBlockNum \in Nat
        /\ \A i \in Nat : R!Jump(i) = i
        /\ R!winKvStart <= R!kvStart
    <3>1. CASE seq.decode
      <4>1. R!winKvStart = 0 /\ R!kvStart \in Nat
        BY <1>1, <1>2, <3>1, RHere, RSlice
      <4>2. QED
        BY <1>1, <1>2, <4>1, RHere, RSlice
    <3>2. CASE ~seq.decode
      BY <1>1, <1>2, <3>2, RHere, RSlice
    <3>3. QED
      BY <3>1, <3>2
  <2>2. R!kvStart <= kvSIdx /\ kvSIdx < R!kvEnd
    BY <1>1, <1>2 DEF Walking
  <2>3. kvSIdx \in Nat /\ kvSIdx + 1 \in Nat
    BY <1>1, <2>1 DEF Placed
  <2>4. QED
    BY <2>1, <2>2, <2>3
<1>5. PICK s \in Nat, e \in Nat :
           /\ s = BlockStart(k) /\ e = BlockEnd(k) /\ s < e /\ e <= R!kvSeqlen
           /\ IsNew(k) => s >= seq.kv
           /\ ~IsNew(k) => e <= seq.kv
  BY <1>3, <1>4, RBlock
<1>6. /\ R!isAppendBlock <=> IsNew(k)
      /\ R!kvSStartIdx = s
      /\ R!Columns = 0 .. (e - s) - 1
      /\ IsNew(k) => \A c : R!NewKey(c) = s + c
  BY <1>3, <1>4, <1>5, RWalk
<1>7. PICK len \in Nat, kv \in Nat : len = R!kvSeqlen /\ kv = seq.kv /\ kv <= len
  BY <1>3, RSeq DEF RangeHere
<1>8. \A c \in R!Columns : c \in Nat /\ s + c \in s .. e - 1
  BY <1>5, <1>6
<1>9. \A j \in s .. e - 1 : (j - s) \in R!Columns /\ s + (j - s) = j
  BY <1>5, <1>6
<1>10. \A c \in R!Columns : R!Key(c) = s + c
  <2>1. CASE IsNew(k)
    BY <1>6, <2>1 DEF R!Key
  <2>2. CASE ~IsNew(k)
    <3>1. ASSUME NEW c \in R!Columns
          PROVE  R!Key(c) = s + c
      <4>1. PICK j \in Int : j = s + c /\ j \in 0 .. len - 1 /\ j < kv
        BY <1>5, <1>7, <1>8, <2>2
      <4>2. j \in DOMAIN cache /\ cache[j] = j
        BY <1>1, <1>7, <4>1 DEF CacheKept
      <4>3. QED
        BY <1>6, <2>2, <4>1, <4>2 DEF R!Key
    <3>2. QED
      BY <3>1
  <2>3. QED
    BY <2>1, <2>2
<1>11. {R!Key(c) : c \in R!Columns} = BlockKeys(k)
  <2>1. BlockKeys(k) = s .. e - 1
    BY <1>5 DEF BlockKeys
  <2>2. \A c \in R!Columns : R!Key(c) \in s .. e - 1
    BY <1>8, <1>10
  <2>3. \A j \in s .. e - 1 : (j - s) \in R!Columns /\ R!Key(j - s) = j
    BY <1>9, <1>10
  <2>4. QED
    BY <2>1, <2>2, <2>3
<1>12. seen' = WalkedTo(k + 1)
  <2>1. seen = WalkedTo(k)
    BY <1>1, <1>2, <1>4 DEF Scored, Behind
  <2>2. WalkedTo(k + 1) = WalkedTo(k) \cup BlockKeys(k)
    <3>1. R!winKvStart <= k
      BY <1>3, <1>4, RWinStart
    <3>2. QED
      BY <1>3, <3>1, RWalksOn
  <2>3. QED
    BY <1>2, <1>11, <2>1, <2>2
<1>13. scored' = ScoresOf(seen')
  <2> DEFINE added == {<<x[1], R!Key(x[2])>> :
                         x \in {y \in R!Tokens \X R!Columns : R!Keeps(y[1], y[2])}}
  <2>1. scored = ScoresOf(seen) /\ seen' = seen \cup BlockKeys(k)
    BY <1>1, <1>2, <1>11 DEF Scored
  <2>2. ASSUME NEW t \in R!Tokens, NEW c \in R!Columns
        PROVE  R!Keeps(t, c) <=> Sees(R!Row(t), R!Key(c))
    <3>1. R!winKvStart <= k /\ k < R!winKvEnd
      BY <1>3, <1>4, RWinStart
    <3>2. R!Keeps(t, c) <=> Sees(R!Row(t), s + c)
      BY <1>3, <1>4, <1>5, <3>1, RKeeps
    <3>3. QED
      BY <1>10, <3>2
  <2>3. added = ScoresOf(BlockKeys(k))
    <3>1. ASSUME NEW z \in added
          PROVE  z \in ScoresOf(BlockKeys(k))
      <4>1. PICK x \in {y \in R!Tokens \X R!Columns : R!Keeps(y[1], y[2])} : z = <<x[1], R!Key(x[2])>>
        OBVIOUS
      <4>2. x[1] \in R!Tokens /\ x[2] \in R!Columns /\ R!Keeps(x[1], x[2])
        BY <4>1
      <4>3. R!Key(x[2]) \in BlockKeys(k) /\ Sees(R!Row(x[1]), R!Key(x[2]))
        BY <1>11, <2>2, <4>2
      <4>4. z \in R!Tokens \X BlockKeys(k) /\ z[1] = x[1] /\ z[2] = R!Key(x[2])
        BY <4>1, <4>2, <4>3
      <4>5. QED
        BY <4>3, <4>4 DEF ScoresOf
    <3>2. ASSUME NEW z \in ScoresOf(BlockKeys(k))
          PROVE  z \in added
      <4>1. z \in R!Tokens \X BlockKeys(k) /\ Sees(R!Row(z[1]), z[2])
        BY <3>2 DEF ScoresOf
      <4>2. PICK c \in R!Columns : R!Key(c) = z[2]
        BY <1>11, <4>1
      <4>3. R!Keeps(z[1], c)
        BY <2>2, <4>1, <4>2
      <4>4. PICK x : x = <<z[1], c>>
        OBVIOUS
      <4>5. x \in R!Tokens \X R!Columns /\ x[1] = z[1] /\ x[2] = c
        BY <4>1, <4>4
      <4>6. x \in {y \in R!Tokens \X R!Columns : R!Keeps(y[1], y[2])}
        BY <4>3, <4>5
      <4>7. z = <<x[1], R!Key(x[2])>>
        BY <4>1, <4>2, <4>5
      <4>8. QED
        BY <4>6, <4>7
    <3>3. QED
      BY <3>1, <3>2
  <2> HIDE DEF added
  <2>4. scored' = scored \cup added
    BY <1>2 DEF added
  <2>5. ScoresOf(seen \cup BlockKeys(k)) = ScoresOf(seen) \cup ScoresOf(BlockKeys(k))
    BY DEF ScoresOf
  <2>6. QED
    BY <2>1, <2>3, <2>4, <2>5
<1>14. /\ R!kvSeqlen' = R!kvSeqlen /\ R!curKSBlockNum' = R!curKSBlockNum
       /\ R!curQSBlockNum' = R!curQSBlockNum /\ R!copybackBlockIdx' = R!copybackBlockIdx
       /\ \A r : R!Visible(r)' = R!Visible(r)
  BY <1>2, RSameSeq
<1>15. kvSIdx' = k + 1 /\ k + 1 <= end /\ pc' = (IF k + 1 >= end THEN "end" ELSE "walk")
       /\ R!kvStart' = start /\ R!kvEnd' = end
  BY <1>2, <1>4, RSameTask
<1>16. Placed'
  BY <1>1, <1>2, <1>4, <1>14, <1>15 DEF Placed
<1>17. Walking'
  BY <1>4, <1>15 DEF Walking
<1>18. Scored'
  <2>1. Behind' = WalkedTo(k + 1)
    <3>1. CASE k + 1 >= end
      <4>1. k + 1 = end /\ pc' = "end"
        BY <1>4, <1>15, <3>1
      <4>2. Behind' = WalkedTo(R!kvEnd)'
        BY <4>1 DEF Behind
      <4>3. WalkedTo(R!kvEnd)' = WalkedTo(k + 1)
        BY <1>2, <1>15, <4>1, RSame DEF WalkedTo, BlockKeys, BlockStart, BlockEnd, IsNew
      <4>4. QED
        BY <4>2, <4>3
    <3>2. CASE ~(k + 1 >= end)
      <4>1. pc' = "walk"
        BY <1>15, <3>2
      <4>2. Behind' = WalkedTo(kvSIdx)'
        BY <4>1 DEF Behind
      <4>3. WalkedTo(kvSIdx)' = WalkedTo(k + 1)
        BY <1>2, <1>15, RSame DEF WalkedTo, BlockKeys, BlockStart, BlockEnd, IsNew
      <4>4. QED
        BY <4>2, <4>3
    <3>3. QED
      BY <3>1, <3>2
  <2>2. ScoresOf(seen)' = ScoresOf(seen')
    BY <1>2, RSame DEF ScoresOf
  <2>3. QED
    BY <1>12, <1>13, <2>1, <2>2 DEF Scored
<1>19. CacheKept'
  <2>1. read' \subseteq 0 .. kv - 1
    <3>1. CASE IsNew(k)
      BY <1>1, <1>2, <1>6, <1>7, <3>1 DEF CacheKept
    <3>2. CASE ~IsNew(k)
      <4>1. \A c \in R!Columns : R!kvSStartIdx + c \in 0 .. kv - 1
        <5>1. ASSUME NEW c \in R!Columns
              PROVE  R!kvSStartIdx + c \in 0 .. kv - 1
          <6>1. PICK j \in Int : j = R!kvSStartIdx + c /\ j \in s .. e - 1
            BY <1>5, <1>6, <1>8
          <6>2. e <= kv
            BY <1>5, <1>7, <3>2
          <6>3. QED
            BY <1>5, <1>7, <6>1, <6>2
        <5>2. QED
          BY <5>1
      <4>2. QED
        BY <1>1, <1>2, <1>6, <1>7, <3>2, <4>1 DEF CacheKept
    <3>3. QED
      BY <3>1, <3>2
  <2>2. ASSUME NEW r \in 0 .. len - 1
        PROVE  /\ cache'[r] = cache[r] \/ cache'[r] = r
               /\ rangeTile = R!copybackBlockIdx /\ r \in BlockKeys(k) /\ r >= kv => cache'[r] = r
               /\ r < kv => cache'[r] = r
    <3>1. cache'[r] = IF \E c \in R!Copyback : r = s + c
                      THEN R!NewKey(r - s) ELSE cache[r]
      BY <1>1, <1>2, <1>6, <1>7 DEF CacheKept
    <3>2. R!Copyback = IF IsNew(k) /\ rangeTile = R!copybackBlockIdx THEN R!Columns ELSE {}
      BY <1>6 DEF R!Copyback, R!doCopyback
    <3>3. CASE IsNew(k) /\ \E c \in R!Copyback : r = s + c
      <4>1. R!NewKey(r - s) = s + (r - s)
        BY <1>6, <3>3
      <4>2. r \in Int /\ s \in Int /\ s + (r - s) = r
        BY <1>5, <1>7
      <4>3. QED
        BY <3>1, <3>3, <4>1, <4>2
    <3>4. CASE ~(IsNew(k) /\ \E c \in R!Copyback : r = s + c)
      <4>1. cache'[r] = cache[r]
        BY <3>1, <3>2, <3>4
      <4>2. r < kv => cache[r] = r
        BY <1>1, <1>7 DEF CacheKept
      <4>3. ASSUME rangeTile = R!copybackBlockIdx, r \in BlockKeys(k), r >= kv
            PROVE  cache'[r] = r
        <5>1. r \in s .. e - 1
          BY <1>5, <4>3 DEF BlockKeys
        <5>2. IsNew(k)
          BY <1>5, <1>7, <4>3, <5>1
        <5>3. (r - s) \in R!Copyback /\ r = s + (r - s)
          BY <1>9, <3>2, <4>3, <5>1, <5>2
        <5>4. QED
          BY <3>4, <5>2, <5>3
      <4>4. QED
        BY <4>1, <4>2, <4>3
    <3>5. QED
      BY <3>3, <3>4
  <2>3. cache' \in [0 .. len - 1 -> (0 .. len - 1) \cup {Unset}]
    <3>1. DOMAIN cache' = 0 .. len - 1
      BY <1>1, <1>2, <1>7 DEF CacheKept
    <3>2. \A r \in 0 .. len - 1 : cache'[r] \in (0 .. len - 1) \cup {Unset}
      <4>1. \A r \in 0 .. len - 1 : cache[r] \in (0 .. len - 1) \cup {Unset}
        BY <1>1, <1>7 DEF CacheKept
      <4>2. QED
        BY <2>2, <4>1
    <3>3. cache' = [r \in DOMAIN cache' |-> cache'[r]]
      BY <1>2
    <3>4. QED
      BY <3>1, <3>2, <3>3
  <2>4. ASSUME NEW r \in 0 .. len - 1,
               \/ r < kv
               \/ rangeTile > R!copybackBlockIdx
               \/ rangeTile = R!copybackBlockIdx /\ r \in seen'
        PROVE  cache'[r] = r
    <3>1. CASE r < kv
      BY <2>2, <3>1
    <3>2. CASE rangeTile > R!copybackBlockIdx
      <4>1. cache[r] = r
        BY <1>1, <1>7, <3>2 DEF CacheKept
      <4>2. QED
        BY <2>2, <4>1
    <3>3. CASE rangeTile = R!copybackBlockIdx /\ r \in seen' /\ ~(r < kv)
      <4>1. r \in seen \/ r \in BlockKeys(k)
        BY <1>2, <1>11, <3>3
      <4>2. r \in seen => cache[r] = r
        BY <1>1, <1>7, <3>3 DEF CacheKept
      <4>3. r >= kv
        BY <1>7, <3>3
      <4>4. QED
        BY <2>2, <3>3, <4>1, <4>2, <4>3
    <3>4. QED
      BY <2>4, <3>1, <3>2, <3>3
  <2>5. seq'.kv = kv /\ R!kvSeqlen' = len
    BY <1>2, <1>7, <1>14
  <2>6. QED
    BY <1>2, <1>14, <2>1, <2>3, <2>4, <2>5 DEF CacheKept
<1>20. Written'
  BY <1>1, <1>2, <1>14 DEF Written, RowIsRight
<1>21. QED
  BY <1>16, <1>17, <1>18, <1>19, <1>20 DEF RangeInv

LEMMA RangeInvSame ==
  ASSUME RangeInv, UNCHANGED rangeVars
  PROVE  RangeInv'
<1>1. /\ seq' = seq /\ cuts' = cuts /\ pc' = pc /\ rangeTile' = rangeTile /\ st' = st /\ kvSIdx' = kvSIdx
      /\ seen' = seen /\ scored' = scored /\ read' = read /\ cache' = cache /\ out' = out
  BY DEF rangeVars
<1>2. /\ R!kvSeqlen' = R!kvSeqlen /\ R!curKSBlockNum' = R!curKSBlockNum
      /\ R!curQSBlockNum' = R!curQSBlockNum /\ R!copybackBlockIdx' = R!copybackBlockIdx
      /\ \A r : R!Visible(r)' = R!Visible(r)
  BY <1>1, RSameSeq
<1>3. R!kvStart' = R!kvStart /\ R!kvEnd' = R!kvEnd
  BY <1>1, RSameTask
<1>4. Placed /\ Walking /\ Scored /\ CacheKept /\ Written
  BY DEF RangeInv
<1>5. Placed'
  BY <1>1, <1>2, <1>4 DEF Placed
<1>6. Walking'
  BY <1>1, <1>3, <1>4 DEF Walking
<1>7. Scored'
  <2>1. ScoresOf(seen)' = ScoresOf(seen)
    BY <1>1, RSame DEF ScoresOf
  <2>2. WalkedTo(st)' = WalkedTo(st) /\ WalkedTo(kvSIdx)' = WalkedTo(kvSIdx)
        /\ WalkedTo(R!kvEnd)' = WalkedTo(R!kvEnd)
    BY <1>1, <1>3, RSame DEF WalkedTo, BlockKeys, BlockStart, BlockEnd, IsNew
  <2>3. Behind' = Behind
    BY <1>1, <2>2 DEF Behind
  <2>4. QED
    BY <1>1, <1>4, <2>1, <2>3 DEF Scored
<1>8. CacheKept' /\ Written'
  BY <1>1, <1>2, <1>4 DEF CacheKept, Written, RowIsRight
<1>9. QED
  BY <1>5, <1>6, <1>7, <1>8 DEF RangeInv

LEMMA RangeInvStep ==
  ASSUME RangeInv, R!Next \/ UNCHANGED rangeVars
  PROVE  RangeInv'
<1>1. CASE R!BeginTask
  BY <1>1, RBeginTask
<1>2. CASE R!InitOut
  BY <1>2, RInitOut
<1>3. CASE R!RunStack
  BY <1>3, RRunStack
<1>4. CASE R!Finish
  BY <1>4, RFinish
<1>5. CASE R!Done \/ UNCHANGED rangeVars
  BY <1>5, RangeInvSame DEF R!Done, R!vars, rangeVars
<1>6. QED
  BY <1>1, <1>2, <1>3, <1>4, <1>5 DEF R!Next

LEMMA RangeInvImplies ==
  ASSUME RangeInv
  PROVE  R!RowsRight /\ R!CacheUpdated /\ R!TypeOK /\ R!ReadsSettled
<1>1. Placed /\ Walking /\ Scored /\ CacheKept /\ Written
  BY DEF RangeInv
<1>2. PICK q \in Nat \ {0}, rows \in Nat \ {0}, kv \in Nat, len \in Nat :
        q = seq.q /\ rows = RANGE_TILE /\ kv = seq.kv /\ len = R!kvSeqlen
  BY <1>1, RSeq DEF Placed
<1>3. PICK n \in Nat : n = R!curQSBlockNum /\ \A i \in Int : i < n <=> i * rows < q
  BY <1>1, <1>2, RCeil DEF R!curQSBlockNum, R!qSeqlen
<1>4. PICK cb \in Int : cb = R!copybackBlockIdx /\ cb < n
  <2>1. 0 * rows < q /\ 0 \in Int
    BY <1>2
  <2>2. n \in Nat \ {0}
    BY <1>3, <2>1
  <2>3. seq.bIdx \in Nat
    BY <1>1, RSeq DEF Placed
  <2>4. seq.bIdx % n \in 0 .. n - 1
    BY <2>2, <2>3
  <2>5. QED
    BY <1>3, <2>2, <2>4 DEF R!copybackBlockIdx
<1>5. ASSUME pc = "done"
      PROVE  R!RowsRight /\ R!CacheUpdated
  <2>1. rangeTile = n
    BY <1>1, <1>3, <1>5 DEF Placed
  <2>2. q <= n * rows /\ n * rows \in Int
    <3>1. PICK v \in Int : v = n * rows
      BY <1>2, <1>3
    <3>2. ~(n < n)
      BY <1>3
    <3>3. ~(v < q)
      BY <1>3, <3>1, <3>2
    <3>4. QED
      BY <1>2, <3>1, <3>3
  <2>3. \A r \in 0 .. q - 1 : r < rangeTile * RANGE_TILE
    BY <1>2, <2>1, <2>2
  <2>4. R!RowsRight
    BY <1>1, <1>2, <2>3 DEF Written, RowIsRight, R!RowsRight, R!FLASH_DECODE_FLAG
  <2>5. R!CacheUpdated
    BY <1>1, <1>3, <1>4, <2>1 DEF CacheKept, R!CacheUpdated
  <2>6. QED
    BY <2>4, <2>5
<1>6. R!RowsRight /\ R!CacheUpdated
  BY <1>5 DEF R!RowsRight, R!CacheUpdated
<1>7. R!ReadsSettled
  <2>1. \A r \in read : r \in 0 .. kv - 1
    BY <1>1, <1>2 DEF CacheKept
  <2>2. QED
    BY <1>2, <2>1 DEF R!ReadsSettled, R!kvSeqlenOld
<1>8. R!TypeOK
  <2>1. PICK blocks \in Nat : blocks = R!curKSBlockNum
    <3>1. /\ seq.new \in Nat /\ RANGE_STACK_LEN \in Nat \ {0} /\ R!kvSeqlenOld = kv
      BY <1>1, <1>2, RSeq DEF Placed, R!kvSeqlenOld
    <3>2. R!kvBlocks(kv) \in Nat /\ R!kvBlocks(seq.new) \in Nat /\ R!kvBlocks(len) \in Nat
      BY <1>2, <3>1, RCeil DEF R!kvBlocks
    <3>3. QED
      BY <1>2, <3>1, <3>2 DEF R!curKSBlockNum
  <2>2. st \in 0 .. blocks
    BY <1>1, <2>1 DEF Placed
  <2>3. seen \subseteq 0 .. len - 1
    <3>1. CASE pc = "done"
      BY <1>1, <3>1 DEF Scored, Behind
    <3>2. CASE pc # "done"
      <4>1. RangeHere
        BY <1>1, <3>2, RHere
      <4>2. /\ R!kvEnd \in Nat /\ R!kvEnd <= R!winKvEnd /\ R!winKvEnd \in Nat
            /\ seq.decode => R!winKvEnd = R!curKSBlockNum
        BY <1>1, <3>2, RHere, RSlice
      <4>3. kvSIdx \in Nat /\ (pc = "walk" => kvSIdx <= R!winKvEnd)
        BY <1>1, <2>1, <4>2 DEF Placed, Walking
      <4>4. st \in Nat /\ (seq.decode => st <= R!winKvEnd)
        BY <2>1, <2>2, <4>2
      <4>5. pc \in {"begin", "walk", "end", "done"}
        BY <1>1 DEF Placed
      <4>6. Behind \subseteq 0 .. len - 1
        BY <1>2, <4>1, <4>2, <4>3, <4>4, <4>5, RWalkedKeys DEF Behind
      <4>7. QED
        BY <1>1, <4>6 DEF Scored
    <3>3. QED
      BY <3>1, <3>2
  <2>4. scored \subseteq (0 .. rows - 1) \X (0 .. len - 1)
    <3>1. CASE pc = "done"
      BY <1>1, <3>1 DEF Scored, Behind, ScoresOf
    <3>2. CASE pc # "done"
      <4>1. RangeHere
        BY <1>1, <3>2, RHere
      <4>2. R!Tokens \subseteq 0 .. rows - 1
        BY <1>2, <4>1, RRows
      <4>3. scored \subseteq R!Tokens \X seen
        BY <1>1 DEF Scored, ScoresOf
      <4>4. QED
        BY <2>3, <4>2, <4>3
    <3>3. QED
      BY <3>1, <3>2
  <2>5. read \subseteq 0 .. len - 1
    <3>1. kv <= len
      BY <1>1, <1>2, RSeq DEF Placed
    <3>2. \A r \in read : r \in 0 .. kv - 1
      BY <1>1, <1>2 DEF CacheKept
    <3>3. QED
      BY <1>2, <3>1, <3>2
  <2>6. /\ pc \in {"begin", "walk", "end", "done"} /\ rangeTile \in 0 .. R!curQSBlockNum
        /\ kvSIdx \in 0 .. R!curKSBlockNum
    BY <1>1 DEF Placed
  <2>7. cache \in [0 .. len - 1 -> (0 .. len - 1) \cup {Unset}]
    BY <1>1, <1>2 DEF CacheKept
  <2>8. /\ DOMAIN out = 0 .. q - 1
        /\ \A r \in DOMAIN out : out[r] = Unset \/ out[r] \subseteq 0 .. len - 1
    BY <1>1, <1>2 DEF Written
  <2>9. QED
    BY <1>2, <2>1, <2>2, <2>3, <2>4, <2>5, <2>6, <2>7, <2>8 DEF R!TypeOK, R!qSeqlen
<1>9. QED
  BY <1>6, <1>7, <1>8

-----------------------------------------------------------------------------
(* In the composition. *)
RangesInv == part = "range" => RangeInv

LEMMA RangesInvAlways == Spec => []RangesInv
<1>1. Init => RangesInv
  BY RangeInvInit DEF Init, RangesInv
<1>2. RangesInv /\ [Next]_vars => RangesInv'
  <2> SUFFICES ASSUME RangesInv, [Next]_vars, part' = "range"
               PROVE  RangeInv'
    BY DEF RangesInv
  <2>1. part = "range" /\ (R!Next \/ UNCHANGED rangeVars)
    BY DEF Next, vars
  <2>2. QED
    BY <2>1, RangeInvStep DEF RangesInv
<1>3. QED
  BY <1>1, <1>2, PTL DEF Spec

(* Whatever the lengths, the tiles, the mask and the slices of a plan,     *)
(* every row that sees a key is computed from exactly the keys it sees,    *)
(* and without a plan every other row is zero: the clipped range and the   *)
(* masks of its blocks (runMainLoop of mha_fwd_kvcache.cpp, ApplySwaArith- *)
(* Mask of online_softmax.hpp) leave out no key and let none slip in.      *)
THEOREM RowsSeeTheirKeys == Spec => []RowsRight
<1>1. RangesInv => RowsRight
  BY RangeInvImplies DEF RangesInv, RowsRight
<1>2. QED
  BY <1>1, RangesInvAlways, PTL

(* At the end of a launch every new key is in its row of the cache and     *)
(* every old one still in its own: the one tile that copies back walks     *)
(* all the blocks of new keys (doCopyback, qk_matmul.hpp).                 *)
THEOREM NewKeysReachCache == Spec => []CacheUpdated
<1>1. RangesInv => CacheUpdated
  BY RangeInvImplies DEF RangesInv, CacheUpdated
<1>2. QED
  BY <1>1, RangesInvAlways, PTL

(* A tile reads rows of the cache that are keys of its sequence and none   *)
(* that another tile of the launch may be writing.                         *)
THEOREM ReadsAreSettled == Spec => []ReadsSettled
<1>1. RangesInv => ReadsSettled
  BY RangeInvImplies DEF RangesInv, ReadsSettled
<1>2. QED
  BY <1>1, RangesInvAlways, PTL

-----------------------------------------------------------------------------
(* The places of the rows of a tile in the output.                         *)

(* Where the row of a head goes, and what is written there. *)
OAt(r) == r[2] * T!oStride + r[1]
LseAt(r) == r[1] * T!lseHeadStride + r[2] * T!lseTokenStride
RowWritten(r) == [row |-> r, zero |-> T!Invalid(T!qBlockStart + r[2])]

(* The rows of its share that a vector engine has written. *)
RowsDone(v) == {j \in 0 .. T!totalRowNum(v) - 1 : j < rowLoopIdx[v] * tile.rowNumTile}
LseDone(v) == {j \in 0 .. T!totalRowNum(v) - 1 : rowLoopIdx[v] = T!rowLoop(v)}

RowsTyped ==
  /\ tile \in Tiles /\ rowLoopIdx \in [T!Vectors -> Nat]
  /\ \A v \in T!Vectors : rowLoopIdx[v] <= T!rowLoop(v)
OutputRows ==
  /\ o = [p \in DOMAIN o |-> o[p]]
  /\ \A p : p \in DOMAIN o <=> \E v \in T!Vectors : \E j \in RowsDone(v) : p = OAt(T!RowOf(v, j))
  /\ \A p \in DOMAIN o : \E r \in T!Rows : p = OAt(r) /\ o[p] = RowWritten(r)
LseRows ==
  /\ \A p : p \in DOMAIN lse <=> \E v \in T!Vectors : \E j \in LseDone(v) : p = LseAt(T!RowOf(v, j))
  /\ \A p \in DOMAIN lse : \E r \in T!Rows : p = LseAt(r) /\ lse[p] = RowWritten(r)
RowsIInv == RowsTyped /\ OutputRows /\ LseRows

-----------------------------------------------------------------------------
(* What is known of a tile.                                                *)
LEMMA TTile ==
  ASSUME tile \in Tiles
  PROVE  /\ VECTOR_SIZE \in Nat \ {0} /\ tile.qSeqlen \in Nat \ {0} /\ tile.rowNumTile \in Nat \ {0}
         /\ T!n = tile.n /\ T!n \in Nat \ {0} /\ T!qSBlockSize \in Nat \ {0} /\ T!qBlockStart \in Nat
         /\ T!qBlockStart + T!qSBlockSize <= tile.qSeqlen
         /\ T!n > 1 => T!qBlockStart = 0 /\ T!qSBlockSize = tile.qSeqlen
         /\ tile.prefix \in Nat /\ tile.suffix \in Nat /\ tile.isSplitkv \in BOOLEAN
         /\ tile.suffix = 0 \/ tile.prefix = tile.qSeqlen
         /\ tile.isSplitkv => tile.suffix = 0 /\ tile.prefix = tile.qSeqlen
         /\ T!oStride \in Nat \ {0} /\ T!n <= T!oStride
         /\ T!lseTokenStride = IF tile.isSplitkv THEN T!n ELSE 1
         /\ T!lseHeadStride \in Nat \ {0}
         /\ IF tile.isSplitkv THEN T!lseHeadStride = 1 ELSE T!qSBlockSize <= T!lseHeadStride
<1>1. /\ VECTOR_SIZE \in Nat \ {0} /\ tile.qSeqlen \in Nat \ {0} /\ tile.n \in Nat \ {0}
      /\ tile.rowNumTile \in Nat \ {0} /\ tile.qSBlockIdx \in Nat /\ tile.prefix \in Nat /\ tile.suffix \in Nat
      /\ tile.qHeads \in Nat /\ tile.lseHeadStride \in Nat /\ tile.isSplitkv \in BOOLEAN
      /\ tile.qSBlockIdx * VECTOR_SIZE < tile.qSeqlen
      /\ tile.n > 1 => tile.qSBlockIdx = 0 /\ tile.qSeqlen <= VECTOR_SIZE
      /\ tile.n <= tile.qHeads /\ tile.qSeqlen <= tile.lseHeadStride
      /\ tile.suffix = 0 \/ tile.prefix = tile.qSeqlen
      /\ tile.isSplitkv => tile.suffix = 0 /\ tile.prefix = tile.qSeqlen
  BY TilesAssumption DEF T!RowsAssumption
<1>2. PICK b \in Nat : b = tile.qSBlockIdx * VECTOR_SIZE /\ b < tile.qSeqlen
  BY <1>1
<1>3. T!qBlockStart = b /\ T!n = tile.n
  BY <1>2 DEF T!qBlockStart, T!n
<1>4. tile.n > 1 => b = 0
  BY <1>1, <1>2
<1>5. /\ T!qSBlockSize \in Nat \ {0} /\ b + T!qSBlockSize <= tile.qSeqlen
      /\ tile.n > 1 => T!qSBlockSize = tile.qSeqlen
  <2>1. T!qSBlockSize = IF VECTOR_SIZE < tile.qSeqlen - b THEN VECTOR_SIZE ELSE tile.qSeqlen - b
    BY <1>3 DEF T!qSBlockSize, T!AtMost
  <2>2. PICK len \in Nat, w \in Nat \ {0}, x \in Nat \ {0} :
          len = tile.qSeqlen /\ w = VECTOR_SIZE /\ x = len - b
    <3>1. PICK len \in Nat : len = tile.qSeqlen /\ b < len
      BY <1>1, <1>2
    <3>2. len - b \in Nat \ {0}
      BY <1>2, <3>1
    <3>3. QED
      BY <1>1, <3>1, <3>2
  <2>3. T!qSBlockSize \in Nat \ {0} /\ b + T!qSBlockSize <= len
    BY <1>2, <2>1, <2>2
  <2>4. tile.n > 1 => T!qSBlockSize = len
    BY <1>1, <1>4, <2>1, <2>2
  <2>5. QED
    BY <2>2, <2>3, <2>4
<1>6. /\ T!oStride \in Nat \ {0} /\ T!n <= T!oStride
      /\ T!lseTokenStride = IF tile.isSplitkv THEN T!n ELSE 1
  BY <1>1, <1>3 DEF T!oStride, T!lseTokenStride
<1>7. /\ T!lseHeadStride \in Nat \ {0}
      /\ IF tile.isSplitkv THEN T!lseHeadStride = 1 ELSE T!qSBlockSize <= T!lseHeadStride
  BY <1>1, <1>3, <1>5 DEF T!lseHeadStride
<1>8. QED
  BY <1>1, <1>3, <1>4, <1>5, <1>6, <1>7

(* How a tile is shared between the two vector engines: by heads, or by    *)
(* query rows if it has one head.                                          *)
LEMMA TShare ==
  ASSUME tile \in Tiles, NEW v \in T!Vectors
  PROVE  /\ T!totalRowNum(v) \in Nat /\ T!inRowOffsetThisSubBlock(v) \in Nat
         /\ T!inRowOffsetThisSubBlock(0) = 0 /\ T!inRowOffsetThisSubBlock(1) = T!totalRowNum(0)
         /\ T!totalRowNum(0) + T!totalRowNum(1) = T!rowNum /\ T!rowNum = T!qSBlockSize * T!n
         /\ T!n = 1 => T!qSThisSubBlock(v) = T!totalRowNum(v) /\ T!rowNum = T!qSBlockSize
         /\ T!n # 1 => /\ T!qSThisSubBlock(v) = T!qSBlockSize
                       /\ v * T!qNSplitSubBlock \in Nat /\ T!qNThisSubBlock(v) \in Nat \ {0}
                       /\ T!inRowOffsetThisSubBlock(v) = (v * T!qNSplitSubBlock) * T!qSBlockSize
                       /\ T!totalRowNum(v) = T!qNThisSubBlock(v) * T!qSBlockSize
                       /\ v * T!qNSplitSubBlock + T!qNThisSubBlock(v) <= T!n
<1>1. PICK q \in Nat \ {0}, m \in Nat \ {0} : q = T!qSBlockSize /\ m = T!n
  BY TTile
<1>2. PICK h \in Nat : h = m \div 2 /\ h <= m /\ (m # 1 => 1 <= h /\ h < m)
  BY <1>1
<1>3. PICK a \in Nat, b \in Nat, c \in Nat : a = q * h /\ b = q * (m - h) /\ c = q * m /\ a + b = c
  BY <1>1, <1>2
<1>4. h * q = a /\ (m - h) * q = b
  BY <1>1, <1>2, <1>3
<1>5. v = 0 \/ v = 1
  BY DEF T!Vectors
<1>6. T!rowNum = c
  BY <1>1, <1>3 DEF T!rowNum
<1>7. CASE m = 1
  <2>1. PICK e \in Nat : e = q \div 2 /\ e <= q
    BY <1>1
  <2>2. c = q
    BY <1>1, <1>3, <1>7
  <2>3. T!inRowSplitSubBlock = e
    BY <1>1, <1>7, <2>1 DEF T!inRowSplitSubBlock
  <2>4. T!totalRowNum(0) = e /\ T!totalRowNum(1) = q - e
    BY <1>6, <2>2, <2>3 DEF T!totalRowNum
  <2>5. T!inRowOffsetThisSubBlock(0) = 0 /\ T!inRowOffsetThisSubBlock(1) = e
    BY <2>1, <2>3 DEF T!inRowOffsetThisSubBlock
  <2>6. T!qSThisSubBlock(v) = T!totalRowNum(v)
    BY <1>1, <1>7 DEF T!qSThisSubBlock
  <2>7. QED
    BY <1>1, <1>3, <1>5, <1>6, <1>7, <2>1, <2>2, <2>4, <2>5, <2>6
<1>8. CASE m # 1
  <2>1. T!qNSplitSubBlock = h
    BY <1>1, <1>2 DEF T!qNSplitSubBlock
  <2>2. T!inRowSplitSubBlock = a
    BY <1>1, <1>3, <1>8, <2>1 DEF T!inRowSplitSubBlock
  <2>3. T!totalRowNum(0) = a /\ T!totalRowNum(1) = b
    BY <1>3, <1>6, <2>2 DEF T!totalRowNum
  <2>4. T!inRowOffsetThisSubBlock(0) = 0 /\ T!inRowOffsetThisSubBlock(1) = a
    BY <1>3, <2>2 DEF T!inRowOffsetThisSubBlock
  <2>5. T!qSThisSubBlock(v) = q
    BY <1>1, <1>8 DEF T!qSThisSubBlock
  <2>6. T!qNThisSubBlock(0) = h /\ T!qNThisSubBlock(1) = m - h
    BY <1>1, <1>8, <2>1 DEF T!qNThisSubBlock
  <2>7. v * T!qNSplitSubBlock = IF v = 1 THEN h ELSE 0
    BY <1>2, <1>5, <2>1
  <2>8. T!qNThisSubBlock(v) \in Nat \ {0} /\ v * T!qNSplitSubBlock + T!qNThisSubBlock(v) <= m
    BY <1>2, <1>5, <1>8, <2>6, <2>7
  <2>9. (v * T!qNSplitSubBlock) * q = T!inRowOffsetThisSubBlock(v)
    BY <1>1, <1>4, <1>5, <2>4, <2>7
  <2>10. T!qNThisSubBlock(v) * q = T!totalRowNum(v)
    BY <1>4, <1>5, <2>3, <2>6
  <2>11. QED
    BY <1>1, <1>2, <1>3, <1>5, <1>6, <1>8, <2>3, <2>4, <2>5, <2>7, <2>8, <2>9, <2>10
<1>9. QED
  BY <1>7, <1>8

-----------------------------------------------------------------------------
(* The rows without a key among those from start on, as the log-sum-exp    *)
(* counts them and as the rows do.                                         *)
LseClears(p, x, len, start, total, i) ==
  IF p # len /\ p > start THEN i < T!AtMost(total, p - start)
  ELSE x > 0 /\ x < start + total /\ i >= T!AtLeast(0, x - start)
RowClears(p, x, len, row) == IF x > 0 THEN row >= x ELSE p # len /\ row < p

LEMMA ClearedAre ==
  ASSUME NEW p \in Nat, NEW x \in Nat, NEW len \in Nat, NEW start \in Nat, NEW total \in Nat,
         NEW i \in Nat, i < total, x = 0 \/ p = len
  PROVE  LseClears(p, x, len, start, total, i) <=> RowClears(p, x, len, start + i)
<1> USE DEF LseClears, RowClears
<1>1. CASE p # len /\ p > start
  <2>1. T!AtMost(total, p - start) = IF total < p - start THEN total ELSE p - start
    BY DEF T!AtMost
  <2>2. i < T!AtMost(total, p - start) <=> start + i < p
    BY <1>1, <2>1
  <2>3. QED
    BY <1>1, <2>2
<1>2. CASE p # len /\ ~(p > start)
  BY <1>2
<1>3. CASE p = len
  <2>1. T!AtLeast(0, x - start) = IF 0 < x - start THEN x - start ELSE 0
    BY DEF T!AtLeast
  <2>2. x < start + total /\ i >= T!AtLeast(0, x - start) <=> start + i >= x
    BY <2>1
  <2>3. QED
    BY <1>3, <2>2
<1>4. QED
  BY <1>1, <1>2, <1>3

(* Rows of a share: a row is in one of the shares and is there row j % Q   *)
(* of the share's head j \div Q, where Q is how many of a head there are;  *)
(* and its places and what is cleared follow from that.                    *)
LEMMA TRowOf ==
  ASSUME tile \in Tiles, NEW v \in T!Vectors, NEW j \in 0 .. T!totalRowNum(v) - 1
  PROVE  /\ T!qSThisSubBlock(v) \in Nat \ {0}
         /\ T!RowOf(v, j) \in T!Rows
         /\ T!oBase(v) + (j \div T!qSThisSubBlock(v)) + (j % T!qSThisSubBlock(v)) * T!oStride
              = OAt(T!RowOf(v, j))
         /\ T!LsePlace(v, j) = LseAt(T!RowOf(v, j))
         /\ T!LseCleared(v, j) = T!Invalid(T!qBlockStart + T!RowOf(v, j)[2])
         /\ T!RowOf(v, j)[2] = IF T!n = 1 THEN T!inRowOffsetThisSubBlock(v) + j ELSE j % T!qSThisSubBlock(v)
<1>1. PICK q \in Nat \ {0}, m \in Nat \ {0}, base \in Nat, len \in Nat, S \in Nat, H \in Nat, K \in Nat :
        /\ q = T!qSBlockSize /\ m = T!n /\ base = T!qBlockStart /\ len = tile.qSeqlen
        /\ S = T!oStride /\ H = T!lseHeadStride /\ K = T!lseTokenStride /\ base + q <= len
        /\ tile.isSplitkv \/ K = 1
        /\ tile.prefix \in Nat /\ tile.suffix \in Nat /\ (tile.suffix = 0 \/ tile.prefix = len)
        /\ tile.isSplitkv => K = m
  <2>1. /\ T!qSBlockSize \in Nat \ {0} /\ T!n \in Nat \ {0} /\ T!qBlockStart \in Nat /\ tile.qSeqlen \in Nat
        /\ T!qBlockStart + T!qSBlockSize <= tile.qSeqlen
        /\ T!oStride \in Nat /\ T!lseHeadStride \in Nat
        /\ T!lseTokenStride = IF tile.isSplitkv THEN T!n ELSE 1
        /\ tile.prefix \in Nat /\ tile.suffix \in Nat
        /\ tile.suffix = 0 \/ tile.prefix = tile.qSeqlen
    BY TTile
  <2>2. T!lseTokenStride \in Nat
    BY <2>1
  <2>3. QED
    BY <2>1, <2>2
<1>2. PICK total \in Nat, off \in Nat :
        total = T!totalRowNum(v) /\ off = T!inRowOffsetThisSubBlock(v)
  BY TShare
<1>3. j \in Nat /\ j < total
  BY <1>2
<1>4. v \in {0, 1}
  BY DEF T!Vectors
<1>5. CASE m = 1
  <2>1. T!qSThisSubBlock(v) = total /\ off + total <= q
    <3>1. /\ T!totalRowNum(0) \in Nat /\ T!totalRowNum(1) \in Nat /\ T!inRowOffsetThisSubBlock(0) = 0
          /\ T!inRowOffsetThisSubBlock(1) = T!totalRowNum(0)
          /\ T!totalRowNum(0) + T!totalRowNum(1) = q
      BY <1>1, <1>5, TShare DEF T!Vectors
    <3>2. off + total <= q
      BY <1>1, <1>2, <1>4, <3>1
    <3>3. QED
      BY <1>1, <1>2, <1>5, <3>2, TShare
  <2>2. PICK r \in Nat : r = off + j /\ r < q
    BY <1>2, <1>3, <2>1
  <2>3. r \div q = 0 /\ r % q = r /\ j \div total = 0 /\ j % total = j
    <3>1. r \in 0 .. q - 1 /\ r = 0 * q + r /\ r \in Int /\ 0 \in Int
      BY <1>1, <2>2
    <3>2. j \in 0 .. total - 1 /\ j = 0 * total + j /\ j \in Int /\ total \in Nat \ {0}
      BY <1>2, <1>3
    <3>3. r \div q = 0 /\ r % q = r
      <4>1. q \in Nat \ {0}
        BY <1>1
      <4>2. QED
        BY <3>1, <4>1, DivUnique
    <3>4. j \div total = 0 /\ j % total = j
      BY <3>2, DivUnique
    <3>5. QED
      BY <3>3, <3>4
  <2>4. T!RowOf(v, j) = <<0, r>>
    BY <1>1, <1>2, <2>2, <2>3 DEF T!RowOf
  <2>5. T!RowOf(v, j) \in T!Rows
    BY <1>1, <1>5, <2>2, <2>4 DEF T!Rows
  <2>6. T!oBase(v) = off * S /\ T!lseBase(v) = off * K
    BY <1>1, <1>2, <1>5 DEF T!oBase, T!lseBase
  <2>7. off * S \in Int /\ j * S \in Int /\ off * S + j * S = r * S
    BY <1>1, <1>2, <1>3, <2>2, TimesSum
  <2>8. off * K \in Int /\ j * K \in Int /\ off * K + j * K = r * K /\ (K = 1 => off * K = off /\ j * K = j)
    BY <1>1, <1>2, <1>3, <2>2, TimesSum
  <2>9. OAt(T!RowOf(v, j)) = r * S + 0 /\ LseAt(T!RowOf(v, j)) = r * K
    <3>1. 0 * H = 0 /\ r * K \in Int
      BY <1>1, <2>2
    <3>2. QED
      BY <1>1, <2>4, <3>1 DEF OAt, LseAt
  <2>10. T!oBase(v) + (j \div total) + (j % total) * S = OAt(T!RowOf(v, j))
    BY <2>3, <2>6, <2>7, <2>9
  <2>11. T!LsePlace(v, j) = LseAt(T!RowOf(v, j))
    <3>1. CASE ~tile.isSplitkv
      <4>1. T!LsePlace(v, j) = off * K + j
        BY <1>1, <1>5, <2>6, <3>1 DEF T!LsePlace
      <4>2. QED
        BY <1>1, <2>8, <2>9, <3>1, <4>1
    <3>2. CASE tile.isSplitkv
      <4>1. T!LsePlace(v, j) = off * K + (j \div total) * H + (j % total) * K
        BY <1>1, <1>2, <1>5, <2>6, <3>2 DEF T!LsePlace
      <4>2. 0 * H = 0
        BY <1>1
      <4>3. QED
        BY <2>3, <2>8, <2>9, <4>1, <4>2
    <3>3. QED
      BY <3>1, <3>2
  <2>12. T!LseCleared(v, j) = T!Invalid(base + r)
    <3>1. T!tokenStart(v) = base + off
      BY <1>1, <1>2, <1>5 DEF T!tokenStart
    <3>2. T!LseCleared(v, j) <=> LseClears(tile.prefix, tile.suffix, len, base + off, total, j)
      BY <1>1, <1>2, <1>5, <2>3, <3>1 DEF T!LseCleared, LseClears
    <3>3. T!Invalid(base + r) <=> RowClears(tile.prefix, tile.suffix, len, base + r)
      BY <1>1 DEF T!Invalid, RowClears
    <3>4. PICK start \in Nat : start = base + off /\ start + j = base + r /\ j \in Nat /\ j < total
      BY <1>1, <1>2, <1>3, <2>2
    <3>5. LseClears(tile.prefix, tile.suffix, len, start, total, j)
          <=> RowClears(tile.prefix, tile.suffix, len, start + j)
      BY <1>1, <1>2, <3>4, ClearedAre
    <3>6. T!LseCleared(v, j) <=> T!Invalid(base + r)
      BY <3>2, <3>3, <3>4, <3>5
    <3>7. T!LseCleared(v, j) = TRUE \/ T!LseCleared(v, j) = FALSE
      BY DEF T!LseCleared
    <3>8. T!Invalid(base + r) = TRUE \/ T!Invalid(base + r) = FALSE
      BY DEF T!Invalid
    <3>9. QED
      <4>1. CASE T!Invalid(base + r)
        <5>1. T!Invalid(base + r) = TRUE
          BY <3>8, <4>1
        <5>2. T!LseCleared(v, j) = TRUE
          BY <3>6, <3>7, <4>1
        <5>3. QED
          BY <5>1, <5>2
      <4>2. CASE ~T!Invalid(base + r)
        <5>1. T!Invalid(base + r) = FALSE
          BY <3>8, <4>2
        <5>2. T!LseCleared(v, j) = FALSE
          BY <3>6, <3>7, <4>2
        <5>3. QED
          BY <5>1, <5>2
      <4>3. QED
        BY <4>1, <4>2
  <2>13. QED
    BY <1>1, <1>2, <1>3, <1>5, <2>1, <2>2, <2>4, <2>5, <2>10, <2>11, <2>12
<1>6. CASE m # 1
  <2>1. PICK heads \in Nat \ {0}, first \in Nat :
          /\ heads = T!qNThisSubBlock(v) /\ first = v * T!qNSplitSubBlock
          /\ off = first * q /\ total = heads * q /\ first + heads <= m
          /\ T!qSThisSubBlock(v) = q
    BY <1>1, <1>2, <1>6, TShare
  <2>2. PICK d \in Int, t \in 0 .. q - 1, u \in Int : j \div q = d /\ j % q = t /\ u = d * q /\ j = u + t
    <3>1. j \in Int
      BY <1>3
    <3>2. QED
      BY <1>1, <3>1, DivPick
  <2>3. d \in 0 .. heads - 1
    <3>1. d \in Nat
      BY <1>1, <1>3, <2>2, QuotientNat
    <3>2. u < total
      BY <1>3, <2>2
    <3>3. d < heads
      BY <1>1, <2>1, <2>2, <3>1, <3>2, TimesLess
    <3>4. QED
      BY <2>1, <3>1, <3>3
  <2>4. PICK h \in Nat, r \in Nat : h = first + d /\ r = off + j /\ h < m
    BY <1>2, <1>3, <2>1, <2>3
  <2>5. r \div q = h /\ r % q = t
    <3>1. off + u = h * q /\ h * q \in Int
      BY <1>1, <2>1, <2>2, <2>3, <2>4, TimesSum
    <3>2. r = h * q + t
      BY <1>2, <2>2, <2>4, <3>1
    <3>3. r \in Int /\ h \in Int
      BY <2>4
    <3>4. QED
      BY <1>1, <2>2, <3>2, <3>3, DivUnique
  <2>6. T!RowOf(v, j) = <<h, t>>
    BY <1>1, <1>2, <2>4, <2>5 DEF T!RowOf
  <2>7. T!RowOf(v, j) \in T!Rows
    BY <1>1, <2>2, <2>4, <2>6 DEF T!Rows
  <2>8. T!oBase(v) = first /\ T!lseBase(v) = first * H
    BY <1>1, <1>6, <2>1 DEF T!oBase, T!lseBase
  <2>9. t * S \in Int /\ t * K \in Int /\ first * H \in Int /\ d * H \in Int /\ h * H = first * H + d * H
    BY <1>1, <2>1, <2>2, <2>3, <2>4, TimesSum
  <2>10. OAt(T!RowOf(v, j)) = t * S + h /\ LseAt(T!RowOf(v, j)) = h * H + t * K
    BY <1>1, <2>6 DEF OAt, LseAt
  <2>11. T!oBase(v) + d + t * S = OAt(T!RowOf(v, j))
    BY <2>1, <2>2, <2>3, <2>4, <2>8, <2>9, <2>10
  <2>12. T!LsePlace(v, j) = LseAt(T!RowOf(v, j))
    <3>1. CASE ~tile.isSplitkv /\ (heads = 1 \/ H = q)
      <4>1. T!LsePlace(v, j) = first * H + j
        BY <1>1, <1>6, <2>1, <2>8, <3>1 DEF T!LsePlace
      <4>2. t * K = t /\ K = 1
        BY <1>1, <2>2, <3>1
      <4>3. d * H = u
        <5>1. CASE heads = 1
          BY <1>1, <2>1, <2>2, <2>3, <5>1
        <5>2. QED
          BY <2>2, <3>1, <5>1
      <4>4. QED
        BY <2>2, <2>9, <2>10, <4>1, <4>2, <4>3
    <3>2. CASE ~(~tile.isSplitkv /\ (heads = 1 \/ H = q))
      <4>1. T!LsePlace(v, j) = first * H + d * H + t * K
        BY <1>1, <1>6, <2>1, <2>2, <2>8, <3>2 DEF T!LsePlace
      <4>2. QED
        BY <2>9, <2>10, <4>1
    <3>3. QED
      BY <3>1, <3>2
  <2>13. T!LseCleared(v, j) = T!Invalid(base + t)
    <3>1. T!tokenStart(v) = base
      BY <1>1, <1>6 DEF T!tokenStart
    <3>2. T!LseCleared(v, j) <=> LseClears(tile.prefix, tile.suffix, len, base, q, t)
      BY <1>1, <1>6, <2>1, <2>2, <3>1 DEF T!LseCleared, LseClears
    <3>3. T!Invalid(base + t) <=> RowClears(tile.prefix, tile.suffix, len, base + t)
      BY <1>1 DEF T!Invalid, RowClears
    <3>4. PICK start \in Nat : start = base /\ start + t = base + t /\ t \in Nat /\ t < q
      BY <1>1, <2>2
    <3>5. LseClears(tile.prefix, tile.suffix, len, start, q, t)
          <=> RowClears(tile.prefix, tile.suffix, len, start + t)
      BY <1>1, <1>2, <3>4, ClearedAre
    <3>6. T!LseCleared(v, j) <=> T!Invalid(base + t)
      BY <3>2, <3>3, <3>4, <3>5
    <3>7. T!LseCleared(v, j) = TRUE \/ T!LseCleared(v, j) = FALSE
      BY DEF T!LseCleared
    <3>8. T!Invalid(base + t) = TRUE \/ T!Invalid(base + t) = FALSE
      BY DEF T!Invalid
    <3>9. QED
      <4>1. CASE T!Invalid(base + t)
        <5>1. T!Invalid(base + t) = TRUE
          BY <3>8, <4>1
        <5>2. T!LseCleared(v, j) = TRUE
          BY <3>6, <3>7, <4>1
        <5>3. QED
          BY <5>1, <5>2
      <4>2. CASE ~T!Invalid(base + t)
        <5>1. T!Invalid(base + t) = FALSE
          BY <3>8, <4>2
        <5>2. T!LseCleared(v, j) = FALSE
          BY <3>6, <3>7, <4>2
        <5>3. QED
          BY <5>1, <5>2
      <4>3. QED
        BY <4>1, <4>2
  <2>14. T!RowOf(v, j)[2] = t /\ j % T!qSThisSubBlock(v) = t /\ j \div T!qSThisSubBlock(v) = d
    BY <2>1, <2>2, <2>6
  <2>15. T!qSThisSubBlock(v) \in Nat \ {0}
    BY <1>1, <2>1
  <2>16. T!oBase(v) + (j \div T!qSThisSubBlock(v)) + (j % T!qSThisSubBlock(v)) * T!oStride
           = OAt(T!RowOf(v, j))
    BY <1>1, <2>11, <2>14
  <2>17. T!LseCleared(v, j) = T!Invalid(T!qBlockStart + T!RowOf(v, j)[2])
    BY <1>1, <2>13, <2>14
  <2>18. QED
    BY <1>1, <1>6, <2>7, <2>12, <2>14, <2>15, <2>16, <2>17
<1>7. QED
  BY <1>5, <1>6

(* Every row of the tile is in one of the shares. *)
LEMMA TCovers ==
  ASSUME tile \in Tiles, NEW r \in T!Rows
  PROVE  \E v \in T!Vectors : \E j \in 0 .. T!totalRowNum(v) - 1 : T!RowOf(v, j) = r
<1>1. PICK q \in Nat \ {0}, m \in Nat \ {0} : q = T!qSBlockSize /\ m = T!n
  BY TTile
<1>2. PICK h \in 0 .. m - 1, t \in 0 .. q - 1 : r = <<h, t>>
  BY <1>1 DEF T!Rows
<1>3. PICK a \in Nat, b \in Nat :
        /\ a = T!totalRowNum(0) /\ b = T!totalRowNum(1) /\ a + b = q * m
        /\ T!inRowOffsetThisSubBlock(0) = 0 /\ T!inRowOffsetThisSubBlock(1) = a
  BY <1>1, TShare DEF T!Vectors
<1>4. PICK x \in Nat : x = h * q + t /\ x < a + b
  <2>1. h * q \in Nat /\ (h + 1) * q = h * q + q
    BY <1>1, <1>2
  <2>2. (h + 1) * q <= m * q
    <3>1. h + 1 \in Int /\ m \in Int /\ h + 1 <= m
      BY <1>1, <1>2
    <3>2. QED
      BY <1>1, <3>1, TimesGrows
  <2>3. m * q = q * m
    BY <1>1
  <2>4. QED
    BY <1>1, <1>2, <1>3, <2>1, <2>2, <2>3
<1>5. x \div q = h /\ x % q = t
  BY <1>1, <1>2, <1>4, DivUnique
<1>6. CASE x < a
  <2>1. T!RowOf(0, x) = r
    BY <1>1, <1>2, <1>3, <1>4, <1>5 DEF T!RowOf
  <2>2. QED
    BY <1>3, <1>4, <1>6, <2>1 DEF T!Vectors
<1>7. CASE ~(x < a)
  <2>1. PICK y \in Nat : y = x - a /\ y < b /\ a + y = x
    BY <1>3, <1>4, <1>7
  <2>2. T!RowOf(1, y) = r
    BY <1>1, <1>2, <1>3, <1>4, <1>5, <2>1 DEF T!RowOf
  <2>3. QED
    BY <1>3, <2>1, <2>2 DEF T!Vectors
<1>8. QED
  BY <1>6, <1>7

-----------------------------------------------------------------------------
(* A loop of cur rows from row off of the share on, with Q rows to a head: *)
(* pro rows end the head it begins in, then come whole heads and epi rows. *)
Falls(Q, off, cur, pro, integral) ==
  /\ pro \in 0 .. Q - 1 /\ pro <= cur /\ integral \in Nat
  /\ integral * Q \in Nat /\ cur - pro - integral * Q \in 0 .. Q - 1
  /\ off % Q \in 0 .. Q - 1 /\ off \div Q \in Nat
  /\ \A i \in Nat : i < pro => (off + i) \div Q = off \div Q /\ (off + i) % Q = (off % Q) + i
  /\ \A k \in Nat, i \in 0 .. Q - 1 :
       pro + k * Q + i < cur =>
         /\ (off + (pro + k * Q + i)) \div Q = (off \div Q) + (IF pro # 0 THEN 1 ELSE 0) + k
         /\ (off + (pro + k * Q + i)) % Q = i
LEMMA LoopFalls ==
  ASSUME NEW Q \in Nat \ {0}, NEW off \in Nat, NEW cur \in Nat \ {0}, NEW pro, NEW integral,
         pro = T!AtMost(cur, Q - (off % Q)) % Q, integral = (cur - pro) \div Q
  PROVE  Falls(Q, off, cur, pro, integral)
<1>1. PICK d \in Nat, t \in 0 .. Q - 1, u \in Nat : d = off \div Q /\ t = off % Q /\ u = d * Q /\ off = u + t
  <2>1. PICK d \in Int, t \in 0 .. Q - 1, u \in Int : off \div Q = d /\ off % Q = t /\ u = d * Q /\ off = u + t
    <3>1. off \in Int
      OBVIOUS
    <3>2. QED
      BY <3>1, DivPick
  <2>2. d \in Nat
    BY <2>1, QuotientNat
  <2>3. u \in Nat
    BY <2>1, <2>2
  <2>4. QED
    BY <2>1, <2>2, <2>3
<1>0. t \in Nat /\ t < Q /\ Q \in Nat /\ 1 <= Q /\ off = u + t /\ d \in Int
  BY <1>1
<1>2. PICK a \in Nat : a = T!AtMost(cur, Q - t) /\ a <= cur /\ a <= Q - t /\ (a = cur \/ a = Q - t) /\ 1 <= a
  <2>1. PICK x \in Nat : x = Q - t /\ 1 <= x
    BY <1>0
  <2>2. T!AtMost(cur, Q - t) = IF cur < x THEN cur ELSE x
    BY <1>1, <2>1 DEF T!AtMost
  <2>3. QED
    BY <2>1, <2>2
<1>3. (a = Q /\ t = 0 /\ Q <= cur /\ pro = 0) \/ (a < Q /\ pro = a)
  <2>1. pro = a % Q
    BY <1>1, <1>2
  <2>2. CASE a < Q
    <3>1. a \in 0 .. Q - 1 /\ a = 0 * Q + a /\ a \in Int /\ 0 \in Int
      BY <1>2, <2>2
    <3>2. a % Q = a
      BY <3>1, DivUnique
    <3>3. QED
      BY <2>1, <2>2, <3>2
  <2>3. CASE ~(a < Q)
    <3>1. a = Q /\ t = 0 /\ Q <= cur
      BY <1>0, <1>2, <2>3
    <3>2. 0 \in 0 .. Q - 1 /\ Q = 1 * Q + 0 /\ Q \in Int /\ 1 \in Int
      OBVIOUS
    <3>3. Q % Q = 0
      BY <3>2, DivUnique
    <3>4. pro = 0
      BY <2>1, <3>1, <3>3
    <3>5. QED
      BY <3>1, <3>4
  <2>4. QED
    BY <2>2, <2>3
<1>4. pro \in 0 .. Q - 1 /\ pro <= cur /\ pro \in Nat
  BY <1>2, <1>3
<1>5. PICK x \in Nat : x = cur - pro
  BY <1>4
<1>6. PICK e \in Int, r \in 0 .. Q - 1, w \in Int : x \div Q = e /\ x % Q = r /\ w = e * Q /\ x = w + r
  <2>1. x \in Int
    BY <1>5
  <2>2. QED
    BY <2>1, DivPick
<1>7. e \in Nat /\ w \in Nat /\ integral = e
  <2>1. e \in Nat
    BY <1>5, <1>6, QuotientNat
  <2>2. w \in Nat
    BY <1>6, <2>1
  <2>3. QED
    BY <1>5, <1>6, <2>1, <2>2
<1>8. integral * Q = w /\ cur - pro - integral * Q = r
  BY <1>4, <1>5, <1>6, <1>7
<1>9. ASSUME NEW i \in Nat, i < pro
      PROVE  (off + i) \div Q = d /\ (off + i) % Q = t + i
  <2>1. t + i \in 0 .. Q - 1
    BY <1>1, <1>2, <1>3, <1>4, <1>9
  <2>2. off + i \in Int /\ off + i = d * Q + (t + i) /\ d \in Int
    <3>1. off + i = u + (t + i) /\ off + i \in Int
      BY <1>0, <1>1, <1>9
    <3>2. QED
      BY <1>0, <1>1, <3>1
  <2>3. QED
    BY <2>1, <2>2, DivUnique
<1>10. ASSUME NEW k \in Nat, NEW i \in 0 .. Q - 1, pro + k * Q + i < cur
       PROVE  /\ (off + (pro + k * Q + i)) \div Q = d + (IF pro # 0 THEN 1 ELSE 0) + k
              /\ (off + (pro + k * Q + i)) % Q = i
  <2>1. PICK b \in Nat, c \in Nat, y \in Int :
          b = (IF pro # 0 THEN 1 ELSE 0) /\ c = k * Q /\ y = off + (pro + k * Q + i)
    <3>1. PICK c \in Nat : c = k * Q
      OBVIOUS
    <3>2. pro + c + i \in Int /\ off + (pro + c + i) \in Int
      BY <1>4
    <3>3. QED
      BY <3>1, <3>2
  <2>2. pro < cur
    BY <1>4, <1>10, <2>1
  <2>3. t + pro = b * Q /\ b * Q \in Int
    <3>1. CASE pro = 0
      <4>1. t = 0
        BY <1>2, <1>3, <3>1
      <4>2. QED
        BY <2>1, <3>1, <4>1
    <3>2. CASE pro # 0
      <4>1. pro = a /\ a # cur /\ a = Q - t
        BY <1>2, <1>3, <2>2, <3>2
      <4>2. QED
        BY <1>1, <2>1, <3>2, <4>1
    <3>3. QED
      BY <3>1, <3>2
  <2>4. PICK z \in Int, h \in Int : h = d + b + k /\ z = h * Q /\ z = u + b * Q + c
    <3>1. d + b \in Int /\ (d + b) * Q = d * Q + b * Q /\ (d + b) * Q \in Int
      BY <1>1, <2>1, TimesSum
    <3>2. ((d + b) + k) * Q = (d + b) * Q + k * Q
      BY <3>1, TimesSum
    <3>3. QED
      BY <1>1, <2>1, <3>1, <3>2
  <2>5. y = h * Q + i
    <3>1. PICK bq \in Int : bq = b * Q /\ t + pro = bq /\ z = u + bq + c
      BY <2>3, <2>4
    <3>2. y = off + (pro + c + i)
      BY <2>1
    <3>3. i \in Int
      OBVIOUS
    <3>4. y = z + i
      <4>1. z \in Int /\ c \in Int /\ bq \in Int /\ pro \in Int /\ u \in Int /\ t \in Int
        <5>1. z \in Int /\ c \in Int /\ bq \in Int
          BY <2>1, <2>4, <3>1
        <5>2. pro \in Int /\ u \in Int /\ t \in Int
          BY <1>0, <1>4
        <5>3. QED
          BY <5>1, <5>2
      <4>2. t + pro = bq /\ z = u + bq + c /\ off = u + t
        BY <1>0, <3>1
      <4>3. off + pro = u + bq
        BY <4>1, <4>2
      <4>4. y = (off + pro) + c + i
        BY <3>2, <3>3, <4>1
      <4>5. QED
        BY <3>3, <4>1, <4>2, <4>3, <4>4
    <3>5. QED
      BY <2>4, <3>4
  <2>6. y \div Q = h /\ y % Q = i
    <3>1. y \in Int /\ h \in Int
      BY <2>1, <2>4
    <3>2. QED
      BY <2>5, <3>1, DivUnique
  <2>7. QED
    BY <2>1, <2>4, <2>6
<1>11. QED
  BY <1>1, <1>4, <1>7, <1>8, <1>9, <1>10 DEF Falls

(* The loop a vector engine is at. *)
LEMMA TLoop ==
  ASSUME RowsTyped, NEW v \in T!Vectors, rowLoopIdx[v] < T!rowLoop(v)
  PROVE  /\ T!rowOffsetLoop(v) \in Nat /\ T!curRowNum(v) \in Nat \ {0}
         /\ T!rowOffsetLoop(v) + T!curRowNum(v) <= T!totalRowNum(v)
         /\ T!rowOffsetLoop(v) = rowLoopIdx[v] * tile.rowNumTile
         /\ \A j \in 0 .. T!totalRowNum(v) - 1 :
              j < (rowLoopIdx[v] + 1) * tile.rowNumTile <=> j < T!rowOffsetLoop(v) + T!curRowNum(v)
<1>1. PICK total \in Nat, w \in Nat \ {0}, i \in Nat, c \in Int :
        /\ total = T!totalRowNum(v) /\ w = tile.rowNumTile /\ i = rowLoopIdx[v] /\ c = T!rowLoop(v)
        /\ i < c /\ \A k \in Int : k < c <=> k * w < total
  <2>1. T!totalRowNum(v) \in Nat /\ tile.rowNumTile \in Nat \ {0} /\ rowLoopIdx[v] \in Nat
    BY TTile, TShare DEF RowsTyped
  <2>2. T!rowLoop(v) = P!CeilDiv(T!totalRowNum(v), tile.rowNumTile)
    BY DEF T!rowLoop, T!CeilDiv, P!CeilDiv
  <2>3. /\ T!rowLoop(v) \in Int
        /\ \A k \in Int : k < T!rowLoop(v) <=> k * tile.rowNumTile < T!totalRowNum(v)
    BY <2>1, <2>2, CeilIs
  <2>4. QED
    BY <2>1, <2>3
<1>2. PICK f \in Nat : f = i * w /\ (i + 1) * w = f + w /\ f < total
  BY <1>1, NextTimes
<1>3. T!rowOffsetLoop(v) = f
  BY <1>1, <1>2 DEF T!rowOffsetLoop
<1>4. PICK cur \in Int : cur = T!curRowNum(v) /\ cur = IF i = c - 1 THEN total - f ELSE w
  BY <1>1, <1>2, <1>3 DEF T!curRowNum
<1>5. i + 1 < c <=> f + w < total
  BY <1>1, <1>2
<1>6. /\ cur \in Nat \ {0} /\ f + cur <= total
      /\ \A j \in 0 .. total - 1 : j < f + w <=> j < f + cur
  <2>1. CASE i = c - 1
    <3>1. cur = total - f /\ total <= f + w
      BY <1>1, <1>2, <1>4, <1>5, <2>1
    <3>2. QED
      BY <1>1, <1>2, <3>1
  <2>2. CASE i # c - 1
    <3>1. cur = w /\ f + w < total
      BY <1>1, <1>4, <1>5, <2>2
    <3>2. QED
      BY <1>1, <1>2, <3>1
  <2>3. QED
    BY <2>1, <2>2
<1>7. QED
  BY <1>1, <1>2, <1>3, <1>4, <1>6

(* Every row of the loop is in one of its segments, and each of those puts *)
(* it where it belongs, and clears it if it sees no key.                   *)
LEMMA TSegments ==
  ASSUME RowsTyped, NEW v \in T!Vectors, rowLoopIdx[v] < T!rowLoop(v)
  PROVE  /\ \A s \in T!Segments(v) : \A i \in 0 .. s.rows - 1 :
              /\ s.src + i \in 0 .. T!curRowNum(v) - 1
              /\ T!loopBase(v) + s.at + i * T!oStride
                   = OAt(T!RowOf(v, T!rowOffsetLoop(v) + (s.src + i)))
         /\ \A m \in 0 .. T!curRowNum(v) - 1 :
              \E s \in T!Segments(v) : \E i \in 0 .. s.rows - 1 : s.src + i = m
         /\ \A s \in T!Segments(v) : s.rows \in Nat /\ s.src \in Nat /\ s.at \in Nat
<1>1. PICK total \in Nat, off \in Nat, cur \in Nat \ {0}, S \in Nat :
        /\ total = T!totalRowNum(v) /\ off = T!rowOffsetLoop(v) /\ cur = T!curRowNum(v) /\ S = T!oStride
        /\ off + cur <= total
  BY TTile, TShare, TLoop DEF RowsTyped
<1>2. PICK Q \in Nat \ {0} : Q = T!qSThisSubBlock(v)
  <2>1. 0 \in 0 .. total - 1
    BY <1>1
  <2>2. QED
    BY <1>1, <2>1, TRowOf DEF RowsTyped
<1>11. /\ T!proTokenIdx(v) = off % Q
       /\ T!proTokenNum(v) = T!AtMost(cur, Q - (off % Q)) % Q
       /\ T!integralHeadNum(v) = (cur - T!proTokenNum(v)) \div Q
       /\ T!epiTokenNum(v) = cur - T!proTokenNum(v) - T!integralHeadNum(v) * Q
  <2>1. T!proTokenIdx(v) = off % Q
    BY <1>1, <1>2 DEF T!proTokenIdx
  <2>2. T!proTokenNum(v) = T!AtMost(cur, Q - (off % Q)) % Q
    BY <1>1, <1>2, <2>1 DEF T!proTokenNum
  <2>3. T!integralHeadNum(v) = (cur - T!proTokenNum(v)) \div Q
    BY <1>1, <1>2 DEF T!integralHeadNum
  <2>4. T!epiTokenNum(v) = cur - T!proTokenNum(v) - T!integralHeadNum(v) * Q
    BY <1>1, <1>2 DEF T!epiTokenNum
  <2>5. QED
    BY <2>1, <2>2, <2>3, <2>4
<1>12. PICK pro, integral : pro = T!proTokenNum(v) /\ integral = T!integralHeadNum(v)
  OBVIOUS
<1>13. Falls(Q, off, cur, pro, integral)
  <2>1. Q \in Nat \ {0} /\ off \in Nat /\ cur \in Nat \ {0}
    BY <1>1, <1>2
  <2>2. pro = T!AtMost(cur, Q - (off % Q)) % Q /\ integral = (cur - pro) \div Q
    BY <1>11, <1>12
  <2>3. QED
    BY <2>1, <2>2, LoopFalls
<1>14. PICK wq \in Nat, epi \in 0 .. Q - 1 :
         wq = integral * Q /\ epi = T!epiTokenNum(v) /\ pro + wq + epi = cur
  <2>1. /\ pro \in 0 .. Q - 1 /\ integral * Q \in Nat /\ cur - pro - integral * Q \in 0 .. Q - 1
    BY <1>13 DEF Falls
  <2>2. T!epiTokenNum(v) = cur - pro - integral * Q
    BY <1>11, <1>12
  <2>3. QED
    BY <1>1, <1>2, <2>1, <2>2
<1>15. PICK b \in Nat : b = (IF pro # 0 THEN 1 ELSE 0) /\ b = T!HeadsBefore(v)
  BY <1>12 DEF T!HeadsBefore
<1>16. PICK d \in Nat, t \in 0 .. Q - 1 : d = off \div Q /\ t = off % Q
  BY <1>13 DEF Falls
<1>3. /\ pro \in 0 .. Q - 1 /\ integral \in Nat
      /\ pro = T!proTokenNum(v) /\ integral = T!integralHeadNum(v) /\ epi = T!epiTokenNum(v)
      /\ wq = integral * Q /\ pro + wq + epi = cur
      /\ d = off \div Q /\ t = off % Q /\ t = T!proTokenIdx(v) /\ b = T!HeadsBefore(v)
      /\ \A i \in Nat : i < pro => (off + i) \div Q = d /\ (off + i) % Q = t + i
      /\ \A k \in Nat, i \in 0 .. Q - 1 :
           pro + k * Q + i < cur => /\ (off + (pro + k * Q + i)) \div Q = d + b + k
                                    /\ (off + (pro + k * Q + i)) % Q = i
  <2>1. /\ pro \in 0 .. Q - 1 /\ integral \in Nat
        /\ pro = T!proTokenNum(v) /\ integral = T!integralHeadNum(v) /\ epi = T!epiTokenNum(v)
        /\ wq = integral * Q /\ pro + wq + epi = cur
        /\ d = off \div Q /\ t = off % Q /\ t = T!proTokenIdx(v) /\ b = T!HeadsBefore(v)
    BY <1>11, <1>12, <1>13, <1>14, <1>15, <1>16 DEF Falls
  <2>2. \A i \in Nat : i < pro => (off + i) \div Q = d /\ (off + i) % Q = t + i
    BY <1>13, <1>16 DEF Falls
  <2>3. \A k \in Nat, i \in 0 .. Q - 1 :
          pro + k * Q + i < cur => /\ (off + (pro + k * Q + i)) \div Q = d + b + k
                                   /\ (off + (pro + k * Q + i)) % Q = i
    BY <1>13, <1>15, <1>16 DEF Falls
  <2>4. QED
    BY <2>1, <2>2, <2>3
<1>0. /\ pro \in Nat /\ pro < Q /\ wq \in Nat /\ epi \in Nat /\ epi < Q /\ d \in Int /\ b \in Nat
      /\ pro + wq + epi = cur /\ Q \in Nat /\ integral \in Nat /\ cur \in Nat
  BY <1>1, <1>2, <1>3, <1>14, <1>15, <1>16
<1>4. PICK ob \in Int : ob = T!oBase(v)
  <2>1. T!oBase(v) \in Int
    <3>1. CASE T!n = 1
      BY <1>1, <3>1, TShare DEF T!oBase, RowsTyped
    <3>2. CASE T!n # 1
      BY <3>2, TShare DEF T!oBase, RowsTyped
    <3>3. QED
      BY <3>1, <3>2
  <2>2. QED
    BY <2>1
<1>5. T!loopBase(v) = ob + d
  BY <1>1, <1>2, <1>3, <1>4 DEF T!loopBase
<1>6. ASSUME NEW m \in 0 .. cur - 1
      PROVE  ob + ((off + m) \div Q) + ((off + m) % Q) * S = OAt(T!RowOf(v, off + m))
  <2>1. off + m \in 0 .. total - 1
    BY <1>1
  <2>2. QED
    BY <1>1, <1>2, <1>4, <2>1, TRowOf DEF RowsTyped
<1>7. \A s : s \in T!Segments(v) <=>
        /\ s.rows # 0
        /\ \/ s = [src |-> 0, rows |-> pro, at |-> t * S]
           \/ \E k \in 0 .. integral - 1 : s = [src |-> pro + k * Q, rows |-> Q, at |-> b + k]
           \/ s = [src |-> pro + wq, rows |-> epi, at |-> b + integral]
  BY <1>1, <1>2, <1>3 DEF T!Segments
<1>8. ASSUME NEW s \in T!Segments(v)
      PROVE  /\ s.rows \in Nat /\ s.src \in Nat /\ s.at \in Nat
             /\ \A i \in 0 .. s.rows - 1 :
                  /\ s.src + i \in 0 .. cur - 1
                  /\ T!loopBase(v) + s.at + i * S = OAt(T!RowOf(v, off + (s.src + i)))
  <2>1. CASE s = [src |-> 0, rows |-> pro, at |-> t * S]
    <3>1. t * S \in Nat
      BY <1>1
    <3>2. ASSUME NEW i \in 0 .. pro - 1
          PROVE  i \in 0 .. cur - 1 /\ ob + d + t * S + i * S = OAt(T!RowOf(v, off + i))
      <4>1. i \in Nat /\ i < pro /\ i \in 0 .. cur - 1
        BY <1>3
      <4>2. (off + i) \div Q = d /\ (off + i) % Q = t + i
        BY <1>3, <4>1
      <4>3. i * S \in Int /\ (t + i) * S = t * S + i * S
        BY <1>1, <4>1, TimesSum
      <4>4. ob + d + (t + i) * S = OAt(T!RowOf(v, off + i))
        BY <1>6, <4>1, <4>2
      <4>5. QED
        BY <1>3, <1>4, <3>1, <4>1, <4>3, <4>4
    <3>3. s.rows = pro /\ s.src = 0 /\ s.at = t * S
      BY <2>1
    <3>4. \A i \in 0 .. pro - 1 : 0 + i = i
      OBVIOUS
    <3>5. QED
      BY <1>0, <1>5, <3>1, <3>2, <3>3, <3>4
  <2>2. ASSUME NEW k \in Nat, NEW rows \in Nat, rows <= Q, pro + k * Q + rows <= cur,
               s = [src |-> pro + k * Q, rows |-> rows, at |-> b + k]
        PROVE  /\ s.rows \in Nat /\ s.src \in Nat /\ s.at \in Nat
               /\ \A i \in 0 .. s.rows - 1 :
                    /\ s.src + i \in 0 .. cur - 1
                    /\ T!loopBase(v) + s.at + i * S = OAt(T!RowOf(v, off + (s.src + i)))
    <3>1. PICK c \in Nat : c = k * Q
      BY <2>2
    <3>2. ASSUME NEW i \in 0 .. rows - 1
          PROVE  /\ pro + c + i \in 0 .. cur - 1
                 /\ ob + d + (b + k) + i * S = OAt(T!RowOf(v, off + (pro + c + i)))
      <4>1. i \in 0 .. Q - 1 /\ pro + c + i \in 0 .. cur - 1 /\ pro + c + i < cur
        <5>1. i \in Int /\ 0 <= i /\ i < rows /\ pro + c + rows <= cur
          BY <2>2, <3>1
        <5>2. QED
          BY <1>0, <2>2, <3>1, <5>1
      <4>2. (off + (pro + c + i)) \div Q = d + b + k /\ (off + (pro + c + i)) % Q = i
        <5>1. pro + k * Q + i < cur
          BY <3>1, <4>1
        <5>2. /\ (off + (pro + k * Q + i)) \div Q = d + b + k
              /\ (off + (pro + k * Q + i)) % Q = i
          BY <1>3, <2>2, <4>1, <5>1
        <5>3. QED
          BY <3>1, <5>2
      <4>3. ob + (d + b + k) + i * S = OAt(T!RowOf(v, off + (pro + c + i)))
        BY <1>6, <4>1, <4>2
      <4>4. ob + (d + b + k) = ob + d + (b + k)
        BY <1>0, <1>4, <2>2
      <4>5. QED
        BY <4>1, <4>3, <4>4
    <3>3. s.rows = rows /\ s.src = pro + c /\ s.at = b + k
      BY <2>2, <3>1
    <3>4. s.src \in Nat /\ s.at \in Nat
      BY <1>0, <2>2, <3>1, <3>3
    <3>5. QED
      BY <1>5, <2>2, <3>2, <3>3, <3>4
  <2>3. ASSUME NEW k \in 0 .. integral - 1, s = [src |-> pro + k * Q, rows |-> Q, at |-> b + k]
        PROVE  /\ s.rows \in Nat /\ s.src \in Nat /\ s.at \in Nat
               /\ \A i \in 0 .. s.rows - 1 :
                    /\ s.src + i \in 0 .. cur - 1
                    /\ T!loopBase(v) + s.at + i * S = OAt(T!RowOf(v, off + (s.src + i)))
    <3>1. k \in Nat /\ k + 1 \in Int /\ integral \in Int /\ k + 1 <= integral
      BY <1>3
    <3>2. k * Q \in Int /\ (k + 1) * Q = k * Q + Q /\ (k + 1) * Q <= wq
      <4>1. k \in Int /\ Q \in Nat /\ k + 1 \in Int
        BY <1>0, <3>1
      <4>2. k * Q \in Int /\ (k + 1) * Q = k * Q + Q
        BY <4>1, NextTimes
      <4>3. (k + 1) * Q <= integral * Q
        BY <3>1, <4>1, TimesGrows
      <4>4. QED
        BY <1>3, <4>2, <4>3
    <3>3. Q \in Nat /\ Q <= Q /\ pro + k * Q + Q <= cur
      <4>1. PICK c \in Int : c = k * Q /\ c + Q <= wq
        BY <3>2
      <4>2. QED
        BY <1>0, <4>1
    <3>4. QED
      BY <2>2, <2>3, <3>1, <3>3
  <2>4. CASE s = [src |-> pro + wq, rows |-> epi, at |-> b + integral]
    <3>1. epi \in Nat /\ epi <= Q /\ pro + integral * Q + epi <= cur
      BY <1>3
    <3>2. QED
      BY <1>3, <2>2, <2>4, <3>1
  <2>5. QED
    BY <1>7, <2>1, <2>3, <2>4
<1>9. ASSUME NEW m \in 0 .. cur - 1
      PROVE  \E s \in T!Segments(v) : \E i \in 0 .. s.rows - 1 : s.src + i = m
  <2>1. CASE m < pro
    <3> DEFINE s == [src |-> 0, rows |-> pro, at |-> t * S]
    <3>1. s.rows = pro /\ s.src = 0 /\ pro # 0
      BY <1>3, <2>1
    <3>2. s \in T!Segments(v)
      BY <1>7, <3>1
    <3>3. m \in 0 .. s.rows - 1 /\ s.src + m = m
      BY <1>3, <2>1, <3>1
    <3>4. QED
      BY <3>2, <3>3
  <2>2. CASE ~(m < pro)
    <3>1. PICK x \in Int : x = m - pro /\ 0 <= x /\ x < cur - pro
      BY <1>0, <2>2
    <3>2. PICK k \in Int, i \in 0 .. Q - 1, u \in Int : x \div Q = k /\ x % Q = i /\ u = k * Q /\ x = u + i
      BY <3>1, DivPick
    <3>3. k \in Nat
      <4>1. x \in Nat
        BY <3>1
      <4>2. QED
        BY <3>2, <4>1, QuotientNat
    <3>4. CASE k < integral
      <4> DEFINE s == [src |-> pro + k * Q, rows |-> Q, at |-> b + k]
      <4>1. s.rows = Q /\ s.src = pro + k * Q
        OBVIOUS
      <4>2. s \in T!Segments(v)
        <5>1. k \in 0 .. integral - 1 /\ s.rows # 0
          BY <1>3, <3>3, <3>4, <4>1
        <5>2. QED
          BY <1>7, <5>1
      <4>3. i \in 0 .. s.rows - 1 /\ s.src + i = m
        <5>1. u \in Int /\ i \in Int /\ x = u + i /\ m \in Int
          BY <3>2
        <5>2. pro + u + i = m
          BY <1>0, <3>1, <5>1
        <5>3. QED
          BY <3>2, <4>1, <5>2
      <4>4. QED
        BY <4>2, <4>3
    <3>5. CASE ~(k < integral)
      <4>1. wq <= u
        BY <1>3, <3>2, <3>3, <3>5, TimesGrows
      <4>2. PICK j \in Int : j = x - wq /\ 0 <= j /\ j < epi
        <5>1. u \in Int /\ i \in Int /\ 0 <= i /\ x = u + i
          BY <3>2
        <5>2. QED
          BY <1>0, <3>1, <4>1, <5>1
      <4> DEFINE s == [src |-> pro + wq, rows |-> epi, at |-> b + integral]
      <4>3. s.rows = epi /\ s.src = pro + wq /\ epi # 0
        BY <1>3, <4>2
      <4>4. s \in T!Segments(v)
        BY <1>7, <4>3
      <4>5. j \in 0 .. s.rows - 1 /\ s.src + j = m
        BY <1>3, <3>1, <4>2, <4>3
      <4>6. QED
        BY <4>4, <4>5
    <3>6. QED
      BY <3>4, <3>5
  <2>3. QED
    BY <2>1, <2>2
<1>10. QED
  BY <1>1, <1>8, <1>9

(* Invalid is a truth value, and FALSE if the tile has no rows to clear.   *)
LEMMA TInvalid ==
  ASSUME NEW x
  PROVE  /\ T!Invalid(x) = TRUE \/ T!Invalid(x) = FALSE
         /\ ~T!HasInvalidRows => T!Invalid(x) = FALSE
<1>1. T!Invalid(x) = TRUE \/ T!Invalid(x) = FALSE
  BY DEF T!Invalid
<1>2. ~T!HasInvalidRows => ~T!Invalid(x)
  BY DEF T!Invalid, T!HasInvalidRows
<1>3. QED
  BY <1>1, <1>2

(* The row that the clearing takes a row of the loop for is the one it is. *)
LEMMA TToken ==
  ASSUME RowsTyped, NEW v \in T!Vectors, rowLoopIdx[v] < T!rowLoop(v), NEW m \in 0 .. T!curRowNum(v) - 1
  PROVE  T!TokenOf(v, m) = T!qBlockStart + T!RowOf(v, T!rowOffsetLoop(v) + m)[2]
<1>1. PICK total \in Nat, off \in Nat, cur \in Nat \ {0}, io \in Nat :
        /\ total = T!totalRowNum(v) /\ off = T!rowOffsetLoop(v) /\ cur = T!curRowNum(v)
        /\ io = T!inRowOffsetThisSubBlock(v) /\ off + cur <= total
  BY TShare, TLoop DEF RowsTyped
<1>2. m \in Nat /\ m < cur /\ off + m \in 0 .. total - 1
  BY <1>1
<1>3. PICK Q \in Nat \ {0} :
        /\ Q = T!qSThisSubBlock(v)
        /\ T!RowOf(v, off + m)[2] = IF T!n = 1 THEN io + (off + m) ELSE (off + m) % Q
  BY <1>1, <1>2, TRowOf DEF RowsTyped
<1>4. PICK base \in Nat : base = T!qBlockStart
  BY TTile DEF RowsTyped
<1>5. T!rowStart(v) = base + io + off
  BY <1>1, <1>4 DEF T!rowStart
<1>6. CASE T!n = 1
  <2>1. T!TokenOf(v, m) = (base + io + off) + m
    BY <1>5, <1>6 DEF T!TokenOf
  <2>2. QED
    BY <1>1, <1>2, <1>3, <1>4, <1>6, <2>1
<1>7. CASE T!n # 1
  <2>1. PICK first \in Nat, fq \in Nat : fq = first * Q /\ io = fq
    <3>1. v * T!qNSplitSubBlock \in Nat /\ T!qSThisSubBlock(v) = T!qSBlockSize
          /\ T!inRowOffsetThisSubBlock(v) = (v * T!qNSplitSubBlock) * T!qSBlockSize
      BY <1>7, TShare DEF RowsTyped
    <3>2. (v * T!qNSplitSubBlock) * Q \in Nat
      BY <3>1
    <3>3. QED
      BY <1>1, <1>3, <3>1, <3>2
  <2>2. base = 0 /\ Q = tile.qSeqlen
    <3>1. T!n > 1
      BY <1>7, TTile DEF RowsTyped
    <3>2. QED
      BY <1>3, <1>4, <1>7, <3>1, TTile, TShare DEF RowsTyped
  <2>3. PICK d \in Int, t \in 0 .. Q - 1, u \in Int : off \div Q = d /\ off % Q = t /\ u = d * Q /\ off = u + t
    <3>1. off \in Int
      BY <1>1
    <3>2. QED
      BY <3>1, DivPick
  <2>4. (fq + off) % Q = t
    <3>1. PICK w \in Int, e \in Int : e = first + d /\ w = e * Q /\ w = fq + u
      <4>1. first \in Int /\ d \in Int /\ Q \in Nat
        BY <1>3, <2>1, <2>3
      <4>2. (first + d) * Q = first * Q + d * Q /\ (first + d) * Q \in Int
        BY <4>1, TimesSum
      <4>3. QED
        BY <2>1, <2>3, <4>1, <4>2
    <3>2. PICK z \in Int : z = fq + off /\ z = w + t
      BY <1>1, <2>1, <2>3, <3>1
    <3>3. z = e * Q + t /\ t \in 0 .. Q - 1 /\ Q \in Nat \ {0}
      BY <1>3, <2>3, <3>1, <3>2
    <3>4. z % Q = t
      BY <3>3, DivUnique
    <3>5. QED
      BY <3>2, <3>4
  <2>5. PICK pro, integral : pro = T!proTokenNum(v) /\ integral = T!integralHeadNum(v)
    OBVIOUS
  <2>6. Falls(Q, off, cur, pro, integral)
    <3>1. T!proTokenIdx(v) = off % Q
      BY <1>1, <1>3 DEF T!proTokenIdx
    <3>2. pro = T!AtMost(cur, Q - (off % Q)) % Q
      BY <1>1, <1>3, <2>5, <3>1 DEF T!proTokenNum
    <3>3. integral = (cur - pro) \div Q
      BY <1>1, <1>3, <2>5 DEF T!integralHeadNum
    <3>4. QED
      BY <1>1, <1>3, <3>2, <3>3, LoopFalls
  <2>7. T!subBlockStart(v) = t
    <3>1. T!rowStart(v) = fq + off /\ fq + off \in Nat
      BY <1>1, <1>5, <2>1, <2>2
    <3>2. CASE fq + off >= Q
      BY <2>2, <2>4, <3>1, <3>2 DEF T!subBlockStart
    <3>3. CASE ~(fq + off >= Q)
      <4>1. fq + off \in 0 .. Q - 1 /\ fq + off = 0 * Q + (fq + off) /\ fq + off \in Int /\ 0 \in Int
        BY <1>3, <3>1, <3>3
      <4>2. (fq + off) % Q = fq + off
        BY <1>3, <4>1, DivUnique
      <4>3. QED
        BY <2>2, <2>4, <3>1, <3>3, <4>2 DEF T!subBlockStart
    <3>4. QED
      BY <3>2, <3>3
  <2>8. CASE m < pro
    <3>1. (off + m) % Q = t + m
      BY <1>2, <2>3, <2>6, <2>8 DEF Falls
    <3>2. T!TokenOf(v, m) = t + m
      BY <1>7, <2>5, <2>7, <2>8 DEF T!TokenOf
    <3>3. QED
      BY <1>1, <1>2, <1>3, <1>4, <1>7, <2>2, <2>3, <3>1, <3>2
  <2>9. CASE ~(m < pro)
    <3>1. pro \in Nat
      BY <1>3, <2>6 DEF Falls
    <3>2. PICK x \in Nat : x = m - pro
      BY <1>2, <2>9, <3>1
    <3>3. PICK k \in Int, i \in 0 .. Q - 1, w \in Int : x \div Q = k /\ x % Q = i /\ w = k * Q /\ x = w + i
      <4>1. x \in Int
        BY <3>2
      <4>2. QED
        BY <4>1, DivPick
    <3>4. k \in Nat
      BY <3>2, <3>3, QuotientNat
    <3>5. pro + k * Q + i = m
      BY <1>2, <3>1, <3>2, <3>3
    <3>6. (off + (pro + k * Q + i)) % Q = i
      BY <1>2, <2>6, <3>3, <3>4, <3>5 DEF Falls
    <3>7. T!TokenOf(v, m) = base + (x % Q)
      BY <1>3, <1>4, <1>7, <2>5, <2>9, <3>2 DEF T!TokenOf
    <3>8. QED
      BY <1>1, <1>3, <1>4, <1>7, <3>3, <3>5, <3>6, <3>7
  <2>10. QED
    BY <2>8, <2>9
<1>8. QED
  BY <1>6, <1>7

LEMMA TCleared ==
  ASSUME RowsTyped, NEW v \in T!Vectors, rowLoopIdx[v] < T!rowLoop(v), NEW m \in 0 .. T!curRowNum(v) - 1
  PROVE  T!Cleared(v, m) = T!Invalid(T!qBlockStart + T!RowOf(v, T!rowOffsetLoop(v) + m)[2])
<1>1. PICK x : x = T!TokenOf(v, m) /\ x = T!qBlockStart + T!RowOf(v, T!rowOffsetLoop(v) + m)[2]
  BY TToken
<1>2. T!Cleared(v, m) = (~tile.isSplitkv /\ T!HasInvalidRows /\ T!Invalid(x))
  BY <1>1 DEF T!Cleared
<1>3. tile.isSplitkv => ~T!HasInvalidRows
  BY TTile DEF RowsTyped, T!HasInvalidRows
<1>4. CASE tile.isSplitkv \/ ~T!HasInvalidRows
  BY <1>1, <1>2, <1>3, <1>4, TInvalid
<1>5. CASE ~tile.isSplitkv /\ T!HasInvalidRows
  BY <1>1, <1>2, <1>5, TInvalid
<1>6. QED
  BY <1>4, <1>5

(* Writing over places: what holds of all that is there and all that is    *)
(* written holds of all that is there afterwards.                          *)
LEMMA WriteIs ==
  ASSUME NEW p, NEW w
  PROVE  /\ T!Write(p, w) = [x \in DOMAIN T!Write(p, w) |-> T!Write(p, w)[x]]
         /\ \A x : x \in DOMAIN T!Write(p, w) <=> x \in DOMAIN p \/ \E y \in w : y.at = x
         /\ \A x \in DOMAIN T!Write(p, w) :
              \/ x \in DOMAIN p /\ T!Write(p, w)[x] = p[x]
              \/ \E y \in w : y.at = x /\ T!Write(p, w)[x] = [row |-> y.row, zero |-> y.zero]
<1> DEFINE g(x) == IF \E y \in w : y.at = x
                   THEN LET y == CHOOSE y \in w : y.at = x IN [row |-> y.row, zero |-> y.zero]
                   ELSE p[x]
<1> DEFINE D == DOMAIN p \cup {y.at : y \in w}
<1>1. T!Write(p, w) = [x \in D |-> g(x)]
  BY DEF T!Write
<1>2. ASSUME NEW x \in D
      PROVE  \/ x \in DOMAIN p /\ g(x) = p[x]
             \/ \E z \in w : z.at = x /\ g(x) = [row |-> z.row, zero |-> z.zero]
  <2>1. CASE \E y \in w : y.at = x
    <3> DEFINE y == CHOOSE y \in w : y.at = x
    <3>1. y \in w /\ y.at = x
      BY <2>1
    <3>2. g(x) = [row |-> y.row, zero |-> y.zero]
      BY <2>1
    <3>3. QED
      BY <3>1, <3>2
  <2>2. CASE ~\E y \in w : y.at = x
    BY <2>2
  <2>3. QED
    BY <2>1, <2>2
<1> HIDE DEF g, D
<1>3. DOMAIN T!Write(p, w) = D /\ \A x \in D : T!Write(p, w)[x] = g(x)
  BY <1>1
<1>4. T!Write(p, w) = [x \in DOMAIN T!Write(p, w) |-> T!Write(p, w)[x]]
  BY <1>1
<1>5. QED
  BY <1>2, <1>3, <1>4 DEF D

-----------------------------------------------------------------------------
(* What a loop writes of the output, and the last one of the log-sum-exp.  *)
RowWrites(v) ==
  UNION {{[at |-> T!loopBase(v) + s.at + i * T!oStride,
           row |-> T!RowOf(v, T!rowOffsetLoop(v) + s.src + i),
           zero |-> T!Cleared(v, s.src + i)] : i \in 0 .. s.rows - 1} : s \in T!Segments(v)}
LseWrites(v) ==
  {[at |-> T!LsePlace(v, j), row |-> T!RowOf(v, j), zero |-> T!LseCleared(v, j)] :
     j \in 0 .. T!totalRowNum(v) - 1}

LEMMA TSpan ==
  ASSUME tile \in Tiles, NEW v \in T!Vectors
  PROVE  /\ T!rowLoop(v) \in Nat /\ T!totalRowNum(v) \in Nat /\ tile.rowNumTile \in Nat \ {0}
         /\ \A k \in Int : k < T!rowLoop(v) <=> k * tile.rowNumTile < T!totalRowNum(v)
<1>1. PICK total \in Nat, w \in Nat \ {0} : total = T!totalRowNum(v) /\ w = tile.rowNumTile
  BY TTile, TShare
<1>2. T!rowLoop(v) = P!CeilDiv(total, w)
  BY <1>1 DEF T!rowLoop, T!CeilDiv, P!CeilDiv
<1>3. T!rowLoop(v) \in Int /\ \A k \in Int : k < T!rowLoop(v) <=> k * w < total
  BY <1>2, CeilIs
<1>4. -1 < T!rowLoop(v)
  <2>1. -1 \in Int /\ (-1) * w < total
    BY <1>1
  <2>2. QED
    BY <1>3, <2>1
<1>5. QED
  BY <1>1, <1>3, <1>4

LEMMA TSame ==
  ASSUME tile' = tile
  PROVE  /\ T!Rows' = T!Rows
         /\ \A v : T!totalRowNum(v)' = T!totalRowNum(v) /\ T!rowLoop(v)' = T!rowLoop(v)
         /\ \A v, j : T!RowOf(v, j)' = T!RowOf(v, j)
         /\ \A r : OAt(r)' = OAt(r) /\ LseAt(r)' = LseAt(r) /\ RowWritten(r)' = RowWritten(r)
<1>1. T!n' = T!n /\ T!qBlockStart' = T!qBlockStart /\ T!oStride' = T!oStride
      /\ T!lseTokenStride' = T!lseTokenStride /\ T!lseHeadStride' = T!lseHeadStride
  BY DEF T!n, T!qBlockStart, T!oStride, T!lseTokenStride, T!lseHeadStride
<1>2. T!qSBlockSize' = T!qSBlockSize
  BY <1>1 DEF T!qSBlockSize
<1>3. T!rowNum' = T!rowNum /\ T!inRowSplitSubBlock' = T!inRowSplitSubBlock
  BY <1>1, <1>2 DEF T!rowNum, T!inRowSplitSubBlock, T!qNSplitSubBlock
<1>4. \A v : T!totalRowNum(v)' = T!totalRowNum(v)
  BY <1>3 DEF T!totalRowNum
<1>5. \A v : T!rowLoop(v)' = T!rowLoop(v)
  BY <1>4 DEF T!rowLoop
<1>6. \A v, j : T!RowOf(v, j)' = T!RowOf(v, j)
  BY <1>2, <1>3 DEF T!RowOf, T!inRowOffsetThisSubBlock
<1>7. \A r : OAt(r)' = OAt(r) /\ LseAt(r)' = LseAt(r)
  BY <1>1 DEF OAt, LseAt
<1>8. \A r : RowWritten(r)' = RowWritten(r)
  BY <1>1 DEF RowWritten, T!Invalid
<1>9. T!Rows' = T!Rows
  BY <1>1, <1>2 DEF T!Rows
<1>10. QED
  BY <1>4, <1>5, <1>6, <1>7, <1>8, <1>9

LEMMA RowWritesAre ==
  ASSUME RowsTyped, NEW v \in T!Vectors, rowLoopIdx[v] < T!rowLoop(v)
  PROVE  /\ \A y \in RowWrites(v) : \E m \in 0 .. T!curRowNum(v) - 1 :
              /\ y.at = OAt(T!RowOf(v, T!rowOffsetLoop(v) + m))
              /\ [row |-> y.row, zero |-> y.zero] = RowWritten(T!RowOf(v, T!rowOffsetLoop(v) + m))
         /\ \A m \in 0 .. T!curRowNum(v) - 1 : \E y \in RowWrites(v) :
              y.at = OAt(T!RowOf(v, T!rowOffsetLoop(v) + m))
<1>1. PICK off \in Nat : off = T!rowOffsetLoop(v)
  BY TLoop
<1>2. ASSUME NEW s \in T!Segments(v), NEW i \in 0 .. s.rows - 1, NEW y,
             y = [at |-> T!loopBase(v) + s.at + i * T!oStride, row |-> T!RowOf(v, off + s.src + i),
                  zero |-> T!Cleared(v, s.src + i)]
      PROVE  /\ s.src + i \in 0 .. T!curRowNum(v) - 1
             /\ y.at = OAt(T!RowOf(v, off + (s.src + i)))
             /\ [row |-> y.row, zero |-> y.zero] = RowWritten(T!RowOf(v, off + (s.src + i)))
  <2>1. PICK m \in 0 .. T!curRowNum(v) - 1 : m = s.src + i /\ off + s.src + i = off + m
    <3>1. s.src + i \in 0 .. T!curRowNum(v) - 1 /\ s.src \in Nat /\ s.rows \in Nat
      BY TSegments
    <3>2. off + s.src + i = off + (s.src + i)
      BY <3>1
    <3>3. QED
      BY <3>1, <3>2
  <2>2. y.at = OAt(T!RowOf(v, off + m))
    <3>1. T!loopBase(v) + s.at + i * T!oStride = OAt(T!RowOf(v, T!rowOffsetLoop(v) + (s.src + i)))
      BY TSegments
    <3>2. QED
      BY <1>1, <1>2, <2>1, <3>1
  <2>3. y.row = T!RowOf(v, off + m) /\ y.zero = T!Cleared(v, m)
    BY <1>2, <2>1
  <2>4. T!Cleared(v, m) = T!Invalid(T!qBlockStart + T!RowOf(v, off + m)[2])
    BY <1>1, <2>1, TCleared
  <2>5. QED
    BY <2>1, <2>2, <2>3, <2>4 DEF RowWritten
<1>3. ASSUME NEW y \in RowWrites(v)
      PROVE  \E m \in 0 .. T!curRowNum(v) - 1 :
               /\ y.at = OAt(T!RowOf(v, off + m))
               /\ [row |-> y.row, zero |-> y.zero] = RowWritten(T!RowOf(v, off + m))
  <2>1. PICK s \in T!Segments(v) : \E i \in 0 .. s.rows - 1 :
          y = [at |-> T!loopBase(v) + s.at + i * T!oStride, row |-> T!RowOf(v, off + s.src + i),
               zero |-> T!Cleared(v, s.src + i)]
    BY <1>1 DEF RowWrites
  <2>2. QED
    BY <1>2, <2>1
<1>4. ASSUME NEW m \in 0 .. T!curRowNum(v) - 1
      PROVE  \E y \in RowWrites(v) : y.at = OAt(T!RowOf(v, off + m))
  <2>1. PICK s \in T!Segments(v) : \E i \in 0 .. s.rows - 1 : s.src + i = m
    BY TSegments
  <2>2. PICK i \in 0 .. s.rows - 1 : s.src + i = m
    BY <2>1
  <2>3. PICK y : y = [at |-> T!loopBase(v) + s.at + i * T!oStride, row |-> T!RowOf(v, off + s.src + i),
                      zero |-> T!Cleared(v, s.src + i)]
    OBVIOUS
  <2>4. y \in RowWrites(v)
    BY <1>1, <2>3 DEF RowWrites
  <2>5. QED
    BY <1>2, <2>2, <2>3, <2>4
<1>5. QED
  BY <1>1, <1>3, <1>4

LEMMA LseWritesAre ==
  ASSUME RowsTyped, NEW v \in T!Vectors
  PROVE  /\ \A y \in LseWrites(v) : \E j \in 0 .. T!totalRowNum(v) - 1 :
              y.at = LseAt(T!RowOf(v, j)) /\ [row |-> y.row, zero |-> y.zero] = RowWritten(T!RowOf(v, j))
         /\ \A j \in 0 .. T!totalRowNum(v) - 1 : \E y \in LseWrites(v) : y.at = LseAt(T!RowOf(v, j))
<1>1. ASSUME NEW j \in 0 .. T!totalRowNum(v) - 1, NEW y,
             y = [at |-> T!LsePlace(v, j), row |-> T!RowOf(v, j), zero |-> T!LseCleared(v, j)]
      PROVE  y.at = LseAt(T!RowOf(v, j)) /\ [row |-> y.row, zero |-> y.zero] = RowWritten(T!RowOf(v, j))
  <2>1. /\ T!LsePlace(v, j) = LseAt(T!RowOf(v, j))
        /\ T!LseCleared(v, j) = T!Invalid(T!qBlockStart + T!RowOf(v, j)[2])
    BY TRowOf DEF RowsTyped
  <2>2. QED
    BY <1>1, <2>1 DEF RowWritten
<1>2. ASSUME NEW j \in 0 .. T!totalRowNum(v) - 1
      PROVE  \E y \in LseWrites(v) : y.at = LseAt(T!RowOf(v, j))
  <2>1. PICK y : y = [at |-> T!LsePlace(v, j), row |-> T!RowOf(v, j), zero |-> T!LseCleared(v, j)]
    OBVIOUS
  <2>2. y \in LseWrites(v)
    BY <2>1 DEF LseWrites
  <2>3. QED
    BY <1>1, <2>1, <2>2
<1>3. QED
  BY <1>1, <1>2 DEF LseWrites

-----------------------------------------------------------------------------
LEMMA RowsIInvInit == TilesAssumption /\ T!Init => RowsIInv
<1>1. SUFFICES ASSUME T!Init PROVE RowsIInv
  OBVIOUS
<1>2. tile \in Tiles /\ rowLoopIdx = [v \in T!Vectors |-> 0] /\ o = << >> /\ lse = << >>
  BY <1>1 DEF T!Init
<1>3. RowsTyped
  BY <1>2, TSpan DEF RowsTyped
<1>4. ASSUME NEW v \in T!Vectors
      PROVE  RowsDone(v) = {} /\ LseDone(v) = {}
  <2>1. PICK total \in Nat, w \in Nat \ {0}, c \in Nat :
          /\ total = T!totalRowNum(v) /\ w = tile.rowNumTile /\ c = T!rowLoop(v)
          /\ \A k \in Int : k < c <=> k * w < total
    BY <1>2, TSpan
  <2>2. 0 * w = 0 /\ 0 \in Int
    BY <2>1
  <2>3. RowsDone(v) = {}
    BY <1>2, <2>1, <2>2 DEF RowsDone
  <2>4. c = 0 => ~(0 < total)
    BY <2>1, <2>2
  <2>5. c = 0 => total = 0
    BY <2>1, <2>4
  <2>6. LseDone(v) = {}
    <3>1. CASE c = 0
      BY <2>1, <2>5, <3>1 DEF LseDone
    <3>2. CASE c # 0
      BY <1>2, <2>1, <3>2 DEF LseDone
    <3>3. QED
      BY <3>1, <3>2
  <2>7. QED
    BY <2>3, <2>6
<1>5. DOMAIN o = {} /\ DOMAIN lse = {} /\ o = [p \in DOMAIN o |-> o[p]]
  <2>1. \A s : s = << >> => DOMAIN s = {} /\ s = [p \in DOMAIN s |-> s[p]]
    OBVIOUS
  <2>2. QED
    BY <1>2, <2>1
<1>6. OutputRows
  BY <1>4, <1>5 DEF OutputRows
<1>7. LseRows
  BY <1>4, <1>5 DEF LseRows
<1>8. QED
  BY <1>3, <1>6, <1>7 DEF RowsIInv

(* A loop does the rows that follow on those done, and the last one the    *)
(* log-sum-exp.                                                            *)
LEMMA DoneGrows ==
  ASSUME RowsTyped, NEW v \in T!Vectors, T!RowLoop(v)
  PROVE  /\ RowsTyped'
         /\ \A j : j \in RowsDone(v)' <=>
              j \in RowsDone(v) \/ \E m \in 0 .. T!curRowNum(v) - 1 : j = T!rowOffsetLoop(v) + m
         /\ \A u \in T!Vectors : u # v => RowsDone(u)' = RowsDone(u) /\ LseDone(u)' = LseDone(u)
         /\ IF rowLoopIdx[v] = T!rowLoop(v) - 1 THEN LseDone(v)' = 0 .. T!totalRowNum(v) - 1
            ELSE LseDone(v)' = LseDone(v)
<1>1. /\ rowLoopIdx[v] < T!rowLoop(v) /\ tile' = tile
      /\ rowLoopIdx' = [rowLoopIdx EXCEPT ![v] = rowLoopIdx[v] + 1]
  BY DEF T!RowLoop
<1>2. PICK total \in Nat, w \in Nat \ {0}, c \in Nat, i \in Nat, off \in Nat, cur \in Nat \ {0} :
        /\ total = T!totalRowNum(v) /\ w = tile.rowNumTile /\ c = T!rowLoop(v) /\ i = rowLoopIdx[v]
        /\ off = T!rowOffsetLoop(v) /\ cur = T!curRowNum(v)
        /\ off + cur <= total /\ off = i * w
        /\ \A j \in 0 .. total - 1 : j < (i + 1) * w <=> j < off + cur
  BY <1>1, TSpan, TLoop DEF RowsTyped
<1>3. i < c
  BY <1>1, <1>2
<1>4. /\ rowLoopIdx'[v] = i + 1 /\ rowLoopIdx' \in [T!Vectors -> Nat]
      /\ \A u \in T!Vectors : u # v => rowLoopIdx'[u] = rowLoopIdx[u]
  BY <1>1, <1>2 DEF RowsTyped
<1>5. /\ \A u : T!totalRowNum(u)' = T!totalRowNum(u) /\ T!rowLoop(u)' = T!rowLoop(u)
  BY <1>1, TSame
<1>6. RowsTyped'
  <2>1. tile' \in Tiles
    BY <1>1 DEF RowsTyped
  <2>2. ASSUME NEW u \in T!Vectors PROVE rowLoopIdx'[u] <= T!rowLoop(u)'
    <3>1. CASE u = v
      BY <1>2, <1>3, <1>4, <1>5, <3>1
    <3>2. CASE u # v
      BY <1>4, <1>5, <3>2 DEF RowsTyped
    <3>3. QED
      BY <3>1, <3>2
  <2>3. QED
    BY <1>4, <2>1, <2>2 DEF RowsTyped, T!Vectors
<1>7. ASSUME NEW j
      PROVE  j \in RowsDone(v)' <=>
               j \in RowsDone(v) \/ \E m \in 0 .. T!curRowNum(v) - 1 : j = T!rowOffsetLoop(v) + m
  <2>1. j \in RowsDone(v)' <=> j \in 0 .. total - 1 /\ j < (i + 1) * w
    BY <1>1, <1>2, <1>4, <1>5 DEF RowsDone
  <2>2. j \in RowsDone(v) <=> j \in 0 .. total - 1 /\ j < off
    BY <1>2 DEF RowsDone
  <2>3. j \in RowsDone(v)' <=> j \in 0 .. total - 1 /\ j < off + cur
    BY <1>2, <2>1
  <2>4. ASSUME j \in 0 .. total - 1, j < off + cur, ~(j < off)
        PROVE  \E m \in 0 .. cur - 1 : j = off + m
    <3>1. j - off \in 0 .. cur - 1 /\ j = off + (j - off)
      BY <1>2, <2>4
    <3>2. QED
      BY <3>1
  <2>5. ASSUME NEW m \in 0 .. cur - 1, j = off + m
        PROVE  j \in 0 .. total - 1 /\ j < off + cur
    BY <1>2, <2>5
  <2>6. (j \in 0 .. total - 1 /\ j < off) => j < off + cur
    BY <1>2
  <2>7. QED
    BY <1>2, <2>2, <2>3, <2>4, <2>5, <2>6
<1>8. ASSUME NEW u \in T!Vectors, u # v
      PROVE  RowsDone(u)' = RowsDone(u) /\ LseDone(u)' = LseDone(u)
  BY <1>1, <1>4, <1>5, <1>8 DEF RowsDone, LseDone
<1>9. IF rowLoopIdx[v] = T!rowLoop(v) - 1 THEN LseDone(v)' = 0 .. T!totalRowNum(v) - 1
      ELSE LseDone(v)' = LseDone(v)
  <2>1. LseDone(v)' = {j \in 0 .. total - 1 : i + 1 = c}
    BY <1>1, <1>2, <1>4, <1>5 DEF LseDone
  <2>2. LseDone(v) = {j \in 0 .. total - 1 : i = c}
    BY <1>2 DEF LseDone
  <2>3. i # c /\ (i + 1 = c <=> i = c - 1)
    BY <1>2, <1>3
  <2>4. QED
    BY <1>2, <2>1, <2>2, <2>3
<1>10. QED
  BY <1>6, <1>7, <1>8, <1>9

LEMMA RowLoopKeeps ==
  ASSUME RowsIInv, NEW v \in T!Vectors, T!RowLoop(v)
  PROVE  RowsIInv'
<1>0. RowsTyped /\ OutputRows /\ LseRows
  BY DEF RowsIInv
<1>1. /\ rowLoopIdx[v] < T!rowLoop(v) /\ tile' = tile
      /\ o' = T!Write(o, RowWrites(v))
      /\ lse' = IF rowLoopIdx[v] = T!rowLoop(v) - 1 THEN T!Write(lse, LseWrites(v)) ELSE lse
  BY DEF T!RowLoop, RowWrites, LseWrites
<1>2. /\ T!Rows' = T!Rows
      /\ \A u, j : T!RowOf(u, j)' = T!RowOf(u, j)
      /\ \A r : OAt(r)' = OAt(r) /\ LseAt(r)' = LseAt(r) /\ RowWritten(r)' = RowWritten(r)
  BY <1>1, TSame
<1>3. PICK off \in Nat, cur \in Nat \ {0} :
        /\ off = T!rowOffsetLoop(v) /\ cur = T!curRowNum(v) /\ off + cur <= T!totalRowNum(v)
        /\ T!totalRowNum(v) \in Nat
  BY <1>0, <1>1, TLoop, TSpan DEF RowsTyped
<1>4. \A m \in 0 .. cur - 1 : T!RowOf(v, off + m) \in T!Rows
  <2>1. \A m \in 0 .. cur - 1 : off + m \in 0 .. T!totalRowNum(v) - 1
    BY <1>3
  <2>2. QED
    BY <1>0, <2>1, TRowOf DEF RowsTyped
<1>5. OutputRows'
  <2>1. /\ o' = [p \in DOMAIN o' |-> o'[p]]
        /\ \A p : p \in DOMAIN o' <=> p \in DOMAIN o \/ \E y \in RowWrites(v) : y.at = p
        /\ \A p \in DOMAIN o' :
             \/ p \in DOMAIN o /\ o'[p] = o[p]
             \/ \E y \in RowWrites(v) : y.at = p /\ o'[p] = [row |-> y.row, zero |-> y.zero]
    <3>1. PICK p, w : p = o /\ w = RowWrites(v) /\ o' = T!Write(p, w)
      BY <1>1
    <3>2. /\ T!Write(p, w) = [x \in DOMAIN T!Write(p, w) |-> T!Write(p, w)[x]]
          /\ \A x : x \in DOMAIN T!Write(p, w) <=> x \in DOMAIN p \/ \E y \in w : y.at = x
          /\ \A x \in DOMAIN T!Write(p, w) :
               \/ x \in DOMAIN p /\ T!Write(p, w)[x] = p[x]
               \/ \E y \in w : y.at = x /\ T!Write(p, w)[x] = [row |-> y.row, zero |-> y.zero]
      BY WriteIs
    <3>3. QED
      BY <3>1, <3>2
  <2>2. /\ \A y \in RowWrites(v) : \E m \in 0 .. cur - 1 :
             /\ y.at = OAt(T!RowOf(v, off + m))
             /\ [row |-> y.row, zero |-> y.zero] = RowWritten(T!RowOf(v, off + m))
        /\ \A m \in 0 .. cur - 1 : \E y \in RowWrites(v) : y.at = OAt(T!RowOf(v, off + m))
    BY <1>0, <1>1, <1>3, RowWritesAre
  <2>3. ASSUME NEW p \in DOMAIN o'
        PROVE  \E r \in T!Rows : p = OAt(r) /\ o'[p] = RowWritten(r)
    <3>1. CASE p \in DOMAIN o /\ o'[p] = o[p]
      BY <1>0, <3>1 DEF OutputRows
    <3>2. CASE \E y \in RowWrites(v) : y.at = p /\ o'[p] = [row |-> y.row, zero |-> y.zero]
      BY <1>4, <2>2, <3>2
    <3>3. QED
      BY <2>1, <3>1, <3>2
  <2>4. ASSUME NEW p
        PROVE  p \in DOMAIN o' <=> \E u \in T!Vectors : \E j \in RowsDone(u)' : p = OAt(T!RowOf(u, j))
    <3>1. p \in DOMAIN o <=> \E u \in T!Vectors : \E j \in RowsDone(u) : p = OAt(T!RowOf(u, j))
      BY <1>0 DEF OutputRows
    <3>2. (\E y \in RowWrites(v) : y.at = p) <=> \E m \in 0 .. cur - 1 : p = OAt(T!RowOf(v, off + m))
      BY <2>2
    <3>3. p \in DOMAIN o' <=> p \in DOMAIN o \/ \E y \in RowWrites(v) : y.at = p
      BY <2>1
    <3>4. \A j : j \in RowsDone(v)' <=> j \in RowsDone(v) \/ \E m \in 0 .. cur - 1 : j = off + m
      BY <1>0, <1>3, DoneGrows
    <3>5. \A u \in T!Vectors : u # v => RowsDone(u)' = RowsDone(u)
      BY <1>0, DoneGrows
    <3>6. ASSUME p \in DOMAIN o'
          PROVE  \E u \in T!Vectors : \E j \in RowsDone(u)' : p = OAt(T!RowOf(u, j))
      <4>1. CASE \E u \in T!Vectors : \E j \in RowsDone(u) : p = OAt(T!RowOf(u, j))
        <5>1. PICK u \in T!Vectors : \E j \in RowsDone(u) : p = OAt(T!RowOf(u, j))
          BY <4>1
        <5>2. PICK j \in RowsDone(u) : p = OAt(T!RowOf(u, j))
          BY <5>1
        <5>3. j \in RowsDone(u)'
          BY <3>4, <3>5
        <5>4. QED
          BY <5>2, <5>3
      <4>2. CASE \E m \in 0 .. cur - 1 : p = OAt(T!RowOf(v, off + m))
        BY <3>4, <4>2
      <4>3. QED
        BY <3>1, <3>2, <3>3, <3>6, <4>1, <4>2
    <3>7. ASSUME NEW u \in T!Vectors, NEW j \in RowsDone(u)', p = OAt(T!RowOf(u, j))
          PROVE  p \in DOMAIN o'
      <4>1. CASE j \in RowsDone(u)
        BY <3>1, <3>3, <3>7, <4>1
      <4>2. CASE ~(j \in RowsDone(u))
        <5>1. u = v
          BY <3>5, <4>2
        <5>2. \E m \in 0 .. cur - 1 : j = off + m
          BY <3>4, <4>2, <5>1
        <5>3. QED
          BY <3>2, <3>3, <3>7, <5>1, <5>2
      <4>3. QED
        BY <4>1, <4>2
    <3>8. QED
      BY <3>6, <3>7
  <2>5. QED
    BY <1>2, <2>1, <2>3, <2>4 DEF OutputRows, T!Vectors
<1>6. LseRows'
  <2>1. /\ \A y \in LseWrites(v) : \E j \in 0 .. T!totalRowNum(v) - 1 :
             y.at = LseAt(T!RowOf(v, j)) /\ [row |-> y.row, zero |-> y.zero] = RowWritten(T!RowOf(v, j))
        /\ \A j \in 0 .. T!totalRowNum(v) - 1 : \E y \in LseWrites(v) : y.at = LseAt(T!RowOf(v, j))
    BY <1>0, LseWritesAre
  <2>2. \A j \in 0 .. T!totalRowNum(v) - 1 : T!RowOf(v, j) \in T!Rows
    BY <1>0, TRowOf DEF RowsTyped
  <2>3. \A u \in T!Vectors : u # v => LseDone(u)' = LseDone(u)
    BY <1>0, DoneGrows
  <2>4. CASE rowLoopIdx[v] = T!rowLoop(v) - 1
    <3>1. /\ \A p : p \in DOMAIN lse' <=> p \in DOMAIN lse \/ \E y \in LseWrites(v) : y.at = p
          /\ \A p \in DOMAIN lse' :
               \/ p \in DOMAIN lse /\ lse'[p] = lse[p]
               \/ \E y \in LseWrites(v) : y.at = p /\ lse'[p] = [row |-> y.row, zero |-> y.zero]
      <4>1. PICK p, w : p = lse /\ w = LseWrites(v) /\ lse' = T!Write(p, w)
        BY <1>1, <2>4
      <4>2. /\ \A x : x \in DOMAIN T!Write(p, w) <=> x \in DOMAIN p \/ \E y \in w : y.at = x
            /\ \A x \in DOMAIN T!Write(p, w) :
                 \/ x \in DOMAIN p /\ T!Write(p, w)[x] = p[x]
                 \/ \E y \in w : y.at = x /\ T!Write(p, w)[x] = [row |-> y.row, zero |-> y.zero]
        BY WriteIs
      <4>3. QED
        BY <4>1, <4>2
    <3>2. ASSUME NEW p \in DOMAIN lse'
          PROVE  \E r \in T!Rows : p = LseAt(r) /\ lse'[p] = RowWritten(r)
      <4>1. CASE p \in DOMAIN lse /\ lse'[p] = lse[p]
        BY <1>0, <4>1 DEF LseRows
      <4>2. CASE \E y \in LseWrites(v) : y.at = p /\ lse'[p] = [row |-> y.row, zero |-> y.zero]
        BY <2>1, <2>2, <4>2
      <4>3. QED
        BY <3>1, <4>1, <4>2
    <3>3. LseDone(v)' = 0 .. T!totalRowNum(v) - 1 /\ LseDone(v) \subseteq 0 .. T!totalRowNum(v) - 1
      BY <1>0, <2>4, DoneGrows DEF LseDone
    <3>4. ASSUME NEW p
          PROVE  p \in DOMAIN lse' <=> \E u \in T!Vectors : \E j \in LseDone(u)' : p = LseAt(T!RowOf(u, j))
      <4>1. p \in DOMAIN lse <=> \E u \in T!Vectors : \E j \in LseDone(u) : p = LseAt(T!RowOf(u, j))
        BY <1>0 DEF LseRows
      <4>2. (\E y \in LseWrites(v) : y.at = p)
            <=> \E j \in 0 .. T!totalRowNum(v) - 1 : p = LseAt(T!RowOf(v, j))
        BY <2>1
      <4>3. p \in DOMAIN lse' <=> p \in DOMAIN lse \/ \E y \in LseWrites(v) : y.at = p
        BY <3>1
      <4>4. QED
        BY <2>3, <3>3, <4>1, <4>2, <4>3
    <3>5. QED
      BY <1>2, <3>2, <3>4 DEF LseRows, T!Vectors
  <2>5. CASE rowLoopIdx[v] # T!rowLoop(v) - 1
    <3>1. lse' = lse /\ \A u \in T!Vectors : LseDone(u)' = LseDone(u)
      BY <1>0, <1>1, <2>3, <2>5, DoneGrows
    <3>2. QED
      BY <1>0, <1>2, <3>1 DEF LseRows, T!Vectors
  <2>6. QED
    BY <2>4, <2>5
<1>7. RowsTyped'
  BY <1>0, DoneGrows
<1>8. QED
  BY <1>5, <1>6, <1>7 DEF RowsIInv

LEMMA RowsIInvSame ==
  ASSUME RowsIInv, UNCHANGED rowVars
  PROVE  RowsIInv'
<1>1. tile' = tile /\ rowLoopIdx' = rowLoopIdx /\ o' = o /\ lse' = lse
  BY DEF rowVars
<1>2. /\ T!Rows' = T!Rows
      /\ \A u : T!totalRowNum(u)' = T!totalRowNum(u) /\ T!rowLoop(u)' = T!rowLoop(u)
      /\ \A u, j : T!RowOf(u, j)' = T!RowOf(u, j)
      /\ \A r : OAt(r)' = OAt(r) /\ LseAt(r)' = LseAt(r) /\ RowWritten(r)' = RowWritten(r)
  BY <1>1, TSame
<1>3. \A u : RowsDone(u)' = RowsDone(u) /\ LseDone(u)' = LseDone(u)
  BY <1>1, <1>2 DEF RowsDone, LseDone
<1>4. RowsTyped'
  BY <1>1, <1>2 DEF RowsIInv, RowsTyped, T!Vectors
<1>5. OutputRows'
  BY <1>1, <1>2, <1>3 DEF RowsIInv, OutputRows, T!Vectors
<1>6. LseRows'
  BY <1>1, <1>2, <1>3 DEF RowsIInv, LseRows, T!Vectors
<1>7. QED
  BY <1>4, <1>5, <1>6 DEF RowsIInv

LEMMA RowsIInvStep ==
  ASSUME RowsIInv, T!Next \/ UNCHANGED rowVars
  PROVE  RowsIInv'
<1>1. CASE \E v \in T!Vectors : T!RowLoop(v)
  BY <1>1, RowLoopKeeps
<1>2. CASE T!Terminated \/ UNCHANGED rowVars
  <2>1. UNCHANGED rowVars
    BY <1>2 DEF T!Terminated, T!vars, rowVars
  <2>2. QED
    BY <2>1, RowsIInvSame
<1>3. QED
  BY <1>1, <1>2 DEF T!Next

(* Rows go to places of their own. *)
LEMMA OAtIs ==
  ASSUME tile \in Tiles, NEW r \in T!Rows
  PROVE  r = <<r[1], r[2]>> /\ OAt(r) % T!oStride = r[1] /\ OAt(r) \div T!oStride = r[2]
<1>1. PICK m \in Nat \ {0}, q \in Nat \ {0}, S \in Nat \ {0} :
        m = T!n /\ q = T!qSBlockSize /\ S = T!oStride /\ m <= S
  BY TTile
<1>2. PICK h \in 0 .. m - 1, t \in 0 .. q - 1 : r = <<h, t>>
  BY <1>1 DEF T!Rows
<1>3. PICK x \in Int : x = t * S + h
  BY <1>1, <1>2
<1>4. h \in 0 .. S - 1 /\ t \in Int
  BY <1>1, <1>2
<1>5. x \div S = t /\ x % S = h
  BY <1>1, <1>3, <1>4, DivUnique
<1>6. OAt(r) = x
  BY <1>1, <1>2, <1>3 DEF OAt
<1>7. QED
  BY <1>1, <1>2, <1>5, <1>6

LEMMA LseAtOnce ==
  ASSUME tile \in Tiles, NEW r \in T!Rows, NEW s \in T!Rows, LseAt(r) = LseAt(s)
  PROVE  r = s
<1>1. PICK m \in Nat \ {0}, q \in Nat \ {0}, H \in Nat \ {0}, K \in Nat \ {0} :
        /\ m = T!n /\ q = T!qSBlockSize /\ H = T!lseHeadStride /\ K = T!lseTokenStride
        /\ (H = 1 /\ K = m) \/ (K = 1 /\ q <= H)
  BY TTile
<1>2. PICK h \in 0 .. m - 1, t \in 0 .. q - 1, i \in 0 .. m - 1, j \in 0 .. q - 1 :
        r = <<h, t>> /\ s = <<i, j>>
  BY <1>1 DEF T!Rows
<1>3. h * H + t * K = i * H + j * K
  BY <1>1, <1>2 DEF LseAt
<1>4. CASE H = 1 /\ K = m
  <2>1. PICK x \in Int, y \in Int : x = t * m /\ y = j * m
    BY <1>1, <1>2
  <2>2. h * H = h /\ i * H = i
    BY <1>2, <1>4
  <2>3. h + x = i + y
    BY <1>3, <1>4, <2>1, <2>2
  <2>4. PICK z \in Int : z = x + h /\ z = y + i
    BY <1>2, <2>1, <2>3
  <2>5. z % m = h /\ z \div m = t
    <3>1. z = t * m + h /\ t \in Int /\ h \in 0 .. m - 1 /\ m \in Nat \ {0}
      BY <1>1, <1>2, <2>1, <2>4
    <3>2. QED
      BY <3>1, DivUnique
  <2>6. z % m = i /\ z \div m = j
    <3>1. z = j * m + i /\ j \in Int /\ i \in 0 .. m - 1 /\ m \in Nat \ {0}
      BY <1>1, <1>2, <2>1, <2>4
    <3>2. QED
      BY <3>1, DivUnique
  <2>7. QED
    BY <1>2, <2>5, <2>6
<1>5. CASE K = 1 /\ q <= H
  <2>1. PICK x \in Int, y \in Int : x = h * H /\ y = i * H
    BY <1>1, <1>2
  <2>2. t * K = t /\ j * K = j
    BY <1>2, <1>5
  <2>3. x + t = y + j
    BY <1>3, <2>1, <2>2
  <2>4. x + t \in Int /\ x + t = h * H + t /\ x + t = i * H + j /\ h \in Int /\ i \in Int
    BY <1>2, <2>1, <2>3
  <2>5. t \in 0 .. H - 1 /\ j \in 0 .. H - 1
    BY <1>1, <1>2, <1>5
  <2>6. (x + t) % H = t /\ (x + t) \div H = h
    BY <1>1, <2>4, <2>5, DivUnique
  <2>7. (x + t) % H = j /\ (x + t) \div H = i
    BY <1>1, <2>4, <2>5, DivUnique
  <2>8. QED
    BY <1>2, <2>6, <2>7
<1>6. QED
  BY <1>1, <1>4, <1>5

LEMMA RowsIInvImplies ==
  ASSUME RowsIInv
  PROVE  T!RowsInPlace /\ T!LseInPlace
<1>1. SUFFICES ASSUME T!AllDone
               PROVE  /\ o = [p \in {r[2] * T!oStride + r[1] : r \in T!Rows} |->
                                [row |-> <<p % T!oStride, p \div T!oStride>>,
                                 zero |-> T!Invalid(T!qBlockStart + p \div T!oStride)]]
                      /\ DOMAIN lse = {r[1] * T!lseHeadStride + r[2] * T!lseTokenStride : r \in T!Rows}
                      /\ \A r \in T!Rows : lse[r[1] * T!lseHeadStride + r[2] * T!lseTokenStride] =
                                             [row |-> r, zero |-> T!Invalid(T!qBlockStart + r[2])]
  BY DEF T!RowsInPlace, T!LseInPlace
<1>2. RowsTyped /\ OutputRows /\ LseRows /\ tile \in Tiles
  BY DEF RowsIInv, RowsTyped
<1>3. ASSUME NEW v \in T!Vectors, NEW j \in 0 .. T!totalRowNum(v) - 1
      PROVE  j \in RowsDone(v) /\ j \in LseDone(v)
  <2>1. PICK total \in Nat, w \in Nat \ {0}, c \in Nat :
          /\ total = T!totalRowNum(v) /\ w = tile.rowNumTile /\ c = T!rowLoop(v)
          /\ \A k \in Int : k < c <=> k * w < total
    BY <1>2, TSpan
  <2>2. rowLoopIdx[v] = c
    BY <1>1, <2>1 DEF T!AllDone
  <2>3. PICK x \in Nat : x = c * w
    BY <2>1
  <2>4. total <= x
    BY <2>1, <2>3
  <2>5. j < x
    BY <2>1, <2>3, <2>4
  <2>6. QED
    BY <2>1, <2>2, <2>3, <2>5 DEF RowsDone, LseDone
<1>4. \A r \in T!Rows : \E v \in T!Vectors : \E j \in RowsDone(v) : r = T!RowOf(v, j)
  BY <1>2, <1>3, TCovers
<1>5. \A r \in T!Rows : \E v \in T!Vectors : \E j \in LseDone(v) : r = T!RowOf(v, j)
  BY <1>2, <1>3, TCovers
<1>6. DOMAIN o = {r[2] * T!oStride + r[1] : r \in T!Rows}
  <2>1. \A r \in T!Rows : OAt(r) \in DOMAIN o
    BY <1>2, <1>4 DEF OutputRows
  <2>2. \A p \in DOMAIN o : \E r \in T!Rows : p = OAt(r)
    BY <1>2 DEF OutputRows
  <2>3. QED
    BY <2>1, <2>2 DEF OAt
<1>7. ASSUME NEW p \in DOMAIN o
      PROVE  o[p] = [row |-> <<p % T!oStride, p \div T!oStride>>,
                     zero |-> T!Invalid(T!qBlockStart + p \div T!oStride)]
  <2>1. PICK r \in T!Rows : p = OAt(r) /\ o[p] = RowWritten(r)
    BY <1>2 DEF OutputRows
  <2>2. r = <<r[1], r[2]>> /\ p % T!oStride = r[1] /\ p \div T!oStride = r[2]
    BY <1>2, <2>1, OAtIs
  <2>3. QED
    BY <2>1, <2>2 DEF RowWritten
<1>8. o = [p \in {r[2] * T!oStride + r[1] : r \in T!Rows} |->
             [row |-> <<p % T!oStride, p \div T!oStride>>,
              zero |-> T!Invalid(T!qBlockStart + p \div T!oStride)]]
  BY <1>2, <1>6, <1>7 DEF OutputRows
<1>9. ASSUME NEW r \in T!Rows
      PROVE  LseAt(r) \in DOMAIN lse /\ lse[LseAt(r)] = RowWritten(r)
  <2>1. LseAt(r) \in DOMAIN lse
    BY <1>2, <1>5 DEF LseRows
  <2>2. PICK s \in T!Rows : LseAt(r) = LseAt(s) /\ lse[LseAt(r)] = RowWritten(s)
    BY <1>2, <2>1 DEF LseRows
  <2>3. r = s
    BY <1>2, <2>2, LseAtOnce
  <2>4. QED
    BY <2>1, <2>2, <2>3
<1>10. DOMAIN lse = {r[1] * T!lseHeadStride + r[2] * T!lseTokenStride : r \in T!Rows}
  <2>1. \A p \in DOMAIN lse : \E r \in T!Rows : p = LseAt(r)
    BY <1>2 DEF LseRows
  <2>2. QED
    BY <1>9, <2>1 DEF LseAt
<1>11. QED
  BY <1>8, <1>9, <1>10 DEF LseAt, RowWritten

-----------------------------------------------------------------------------
(* In the composition. *)
OutputsInv == part = "rows" => RowsIInv

(* Every row of a tile ends up where the output, or the combine step of a  *)
(* cut tile, wants it, with its log-sum-exp, and is zero exactly if it is  *)
(* to be cleared: for any number of heads and rows, wherever the loops of  *)
(* a vector engine end, and with nothing written elsewhere (CopyOToGm,     *)
(* CopyLseToGm and the clearing of rows of rescale_o.hpp).                 *)
THEOREM RowsReachTheirPlaces == Spec => []RowsInPlace
<1>1. Init => OutputsInv
  BY TilesAssumption, RowsIInvInit DEF Init, OutputsInv
<1>2. OutputsInv /\ [Next]_vars => OutputsInv'
  <2> SUFFICES ASSUME OutputsInv, [Next]_vars, part' = "rows"
               PROVE  RowsIInv'
    BY DEF OutputsInv
  <2>1. part = "rows" /\ (T!Next \/ UNCHANGED rowVars)
    BY DEF Next, vars
  <2>2. QED
    BY <2>1, RowsIInvStep DEF OutputsInv
<1>3. OutputsInv => RowsInPlace
  BY RowsIInvImplies DEF OutputsInv, RowsInPlace
<1>4. QED
  BY <1>1, <1>2, <1>3, PTL DEF Spec
=============================================================================
