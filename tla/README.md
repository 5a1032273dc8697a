# flash-attention-npu: TLA+ models, checks and proofs

This directory holds TLA+ specifications of the parts of flash-attention-npu
that are concurrent, that must agree with one another across a host/device
boundary, or that cut work into pieces: the places where a unit test of the
result reaches a few shapes and a specification reaches all orders.

## 1. The system

FlashAttention for Ascend NPUs.  A Python interface per API generation
(`src/flash_attn_npu`, `_3`, `_4`) checks and reshapes its arguments and calls a
C++ operator (`flash_api.cpp`).  The host code computes a *tiling* (sizes, and
for flash-decode a split of the work over the cores), allocates workspace and
launches a kernel on every core.  On the 910 a core is one cube engine (AIC, the
matrix unit) and two vector engines (AIV); each has its own scalar unit, which
walks the same control flow and issues operations to in-order pipes (MTE1, MTE2,
MTE3, M, FIX, V) synchronised by counting flags: *hard events* between the pipes
of one engine, *cross-core flags* between the engines of a core, and `SyncAll`
between cores.  The 950 has the same engines with transfers between their
on-chip buffers.  Versions v2, v3 and v4 of the API have kernels of their own.

| component | source | state it keeps | operations | what is hard | modules |
|---|---|---|---|---|---|
| forward kernel pipeline (910, v3) | `csrc/ascend910/flash_attn_npu_3/mha_fwd_kvcache.cpp` and its block operations | per engine: stack counter, descriptor ring, task-context ring; per core: workspace slots S, P, OTmp; three flag counters | begin task, issue and complete QK, softmax, PV, rescale, drain | three engines that never see each other's state, run-ahead across task boundaries, empty tasks | `FwdPipeline`, `TileOutputs` |
| K/V range of a tile, masks, append | same file, `online_softmax.hpp` | none (pure) | range under causal, window, append and split limits | off-by-one at clipped edges | `KvRange` |
| tasks without split (v3; fused tasks of v2) | `operator()`, `flash_api.cpp`, `fused_task.h` | cursor per core | next task | host and every core count alike | `TaskWalk`, `FusedTasks` |
| flash-decode split (host and AICPU) | `fa_split.h`, `fa_metadata.aicpu` | per core: range, offsets; cut tiles | greedy, forced and plain split | budgets rounded, plan must agree with the walk of the kernel | `FaSplit` |
| flash-decode walk and combine | `mha_fwd_kvcache.cpp`, `combine_scale.hpp` | partial results and their offsets | write partials, `SyncAll`, combine | offsets computed twice, by host and device | `FlashDecode`, `RowOutputs` |
| paged cache cursors | `qk_matmul.hpp`, `pv_matmul.hpp` | page and row of the cursor | next stack, write back new rows | a cursor kept over stacks, reset per task, one two stacks behind the other | `PagedKv` |
| rows of a tile in the output | `rescale_o.hpp` | none | place rows, clear rows | rows cut by engine, loop and head at once | `TileRows` |
| pipes inside the block operations | all block operations, 910 and 950 | hard-event counters, ping-pong buffers | copy in, compute, copy out | a missing or surplus flag between two turns of a loop | `PipeCode`, `NpuPipes` and the `...Code...` modules |
| backward kernel (910) | `fag_kernel.cpp`, `fag_tiling.cpp`, `fag_epilogue_op.hpp` | plan of rounds; double buffers, three flags | scores, softmax gradient, dQ/dK/dV, deterministic add | every engine repeats the plan; two-deep pipeline of cube and vectors | `FagBlocks`, `BwdPipeline` |
| backward kernel for packed sequences (v2) | `mha_varlen_bwd.cpp`, `fag_common/*_addr.h` | cursor, segments | next segment | four counts of the same blocks | `FagV2Segments` |
| deterministic backward schedule (950) | `fag_det_schedule*.hpp`, `fag_kernel.cpp` | per core: round, buffers of dk and dv, flags | a tile per round, publish, store | order of additions, disjointness within a round | `DetSchedule`, `DetRounds` |
| CATLASS DSL back end (950, v4) | `flash_attn_npu_4/catlass_dsl` | cache of normalised block lists, compiled kernels | look up, compute, launch, check | asynchronous streams and an allocator that reuses memory | `SparseCache` |
| golden cache of the tests | `tests/common/golden_cache.py` | files and locks | get or compute, store, evict | processes that die, files that vanish | `GoldenCache` |
| Python interfaces | `flash_attn_npu*/flash_attn_npu_interface*.py` | none | check, pad, dispatch | argument combinations | - |
| CI scripts | `ci/*.sh` | device locks, containers | acquire, run, release | external tools | - |

### How the parts interact

    Python interface -> flash_api.cpp (host)          sizes, tiling, workspace, number of cores
                          |  task counts                   | fa_split.h: plan per core, cut tiles
                          v                                v   (or from the AICPU, or from metadata)
    every core: operator(): task cursor            or  range of the plan
                          |  tile <<batch, heads, rows>>
                          v
                runMainLoop: K/V blocks of the tile -> stacks, three engines, two stacks of run-ahead
                          |  page cursor per stack (cache, write-back of new keys)
                          v
                rescale_o: rows -> output, log-sum-exp, or partial results
                          |  SyncAll (flash-decode)
                          v
                combine_scale: partial results of the cut tiles -> output

    backward (910): every engine repeats CalcValidBlock, the walk over the blocks of
    the score matrices, and gets a round at a time: a block for each core.
          |  round t: block of core c
          v
    cube: scores of block t, gradients of block t - 1   <- flags ->   vectors: softmax gradient of block t - 1
          |  products                                                     |  deterministic mode: SyncAll, products
          v                                                               v  of round t - 2 added by group
    sums of dq, dk and dv in the workspace          ->          post step: scaled, converted, stored

The specifications follow the same seams, and each takes as its constants what
the one before it produces:

  - `TaskWalk` yields, for every core, its list of tiles, each marked whether it
    drains (`DrainsLast`); such a list is what `FwdPipeline` runs (`work`, with
    `Drain` true of its last task), and `RowsFit` is the assumption `TileRows`
    makes about tiles of several heads. `FusedTasks` is the same for v2.
  - `FaSplit` yields the ranges and the table of cut tiles; `FlashDecode`
    extends it and runs the plan on all cores.
  - `KvRange` says how many stacks a tile has and which keys weigh in. The number
    (zero included) is `stacks` of a task of `FwdPipeline`, whose abstract
    specification, `TileOutputs`, says that exactly those stacks reach the
    output, in order.
  - `KvRange` takes a block for rows `kvSStartIdx ...` of a flat cache;
    `PagedKv` shows the page cursors implement that flat view.
  - `FlashDecode` writes the rows of a tile in one step, in the order `RowAt`;
    `TileRows` shows that the engines, row loops and heads produce that order.
  - `FagBlocks` yields the rounds of a backward launch; `BwdPipeline` extends it and
    runs them on all cores. `DetSchedule` and `DetRounds` do the same for the
    deterministic pass of the 950.
  - An operation that is one step (or an issue and a completion) of these modules is a
    program of pipe instructions in the `...Code...` modules, which `NpuPipes` runs.

## 2. The modules

Slots, flags, cursors and helpers keep the names they have in the code. A
definition called `Slip...` is a wrong variant of the definition after it, used
only to see that a property can fail.

### FwdPipeline, TileOutputs (abstract)

`mha_fwd_kvcache.cpp` 624-1097 and the flags inside the four block operations.
The cube and each vector engine run the same control flow on their own: per
engine `pc`, `task`, `kv` (`kvSIdx`), `issued` (`issuedStackCount`), `taskSeq`
(`taskStateSequence`), `desc` (`descriptors`), `ctx` (`taskContexts`). Issuing
and running an operation are two steps, because the scalar unit only queues it:
`front`/`delayed` are the operations issued, `frontDone`/`delayedDone` how many
have completed, in issue order. A buffer that an operation in flight writes is
`Busy`.

| action | code |
|---|---|
| `BeginTask` | prologue of `runMainLoop`: records the context, or initialises the rows of an empty task and returns early unless it drains |
| `IssueQK`, `CompleteQK` | first half of an iteration on the cube: `blockMmadQK`, flag `qkReady` set behind it (`PIPE_FIX`) |
| `IssueSM`, `CompleteSM` | first half on a vector engine: wait for `qkReady`, online softmax, flag `softmaxReady` |
| `IssuePV`, `CompletePV` | second half on the cube, of the stack `PRE_LAUNCH` before: wait for `softmaxReady` of both vector engines, `blockMmadPV`, flag `pvReady` |
| `IssueRS`, `CompleteRS` | second half on a vector engine: wait for `pvReady`, rescale and accumulate; the last stack of a task divides and writes |
| `SkipDelayed` | iterations in which nothing is old enough to finish |

An output is not a number but the list of the stacks it was computed from, each
with the stack whose factor rescaled it, and the stacks that were summed for its
norm: what any mix-up of slots, contexts or factors changes. `TileOutputs` is
the promise: every owned row of every task written once, from exactly its own
stacks in order, nonempty tasks in their order; `TilesSpec` is its specification
under the identity mapping of `work` and `out`.

### TaskWalk, FusedTasks

`operator()` 494-563 of the same file and the task counts of `flash_api.cpp`; for
v2 `fused_task.h`, in which the rows left over at the end of a sequence share a
tile with those of other heads, of one K/V head or of several. Per core:
`taskIdx` and the cursor (`curBatch`, `preTotal`, `curTotal`, and the cached
lengths or shape). `NextBatch` is one round of the `while` that advances the
cursor, `RunTask` the rest of an iteration: refresh of what is cached, division of
the number into a tile.

### KvRange

The pure part of `runMainLoop`, the masks of `online_softmax.hpp` and the clearing
of `rescale_o.hpp`, for one sequence. `BeginTask`/`InitOut`/`RunStack`/`Finish`
are one task: the jump over the gap between cached and new blocks, one stack
(loads, masks, write-back of new keys), the clearing at the end. A flash-decode
launch (`seq.decode`) cuts the range at an arbitrary set of blocks (`cuts`), which
includes every cut `FaSplit` can make.

### PagedKv

The page cursors of `qk_matmul.hpp` and `pv_matmul.hpp` and the write-back of new
rows, `tasks` one after the other, PV `PRE_LAUNCH` stacks behind QK. Every
stack walks chunks and pages; `resetBlockStart` and `PVStart` say where the
cursor starts.

### TileRows

The output side of `rescale_o.hpp`: how the rows of a tile fall into two vector
engines, row loops and heads, as places in the output and the log-sum-exp or in
the partial results, and which rows are cleared.

### FaSplit

`fa_split.h` loop by loop, in 32-bit arithmetic (`U32`, `I32`): `Dispatch` chooses
between the forced split, whole tiles and the greedy split, whose nested loops
are the actions `OpenCore`, `TakeBlock`, `LeaveFirst`, `TakeWhole`, `LeaveBatch`,
`LeaveHead`, `LeaveRow`, `LeaveBlock`, `Flush`; then the pass that numbers the cut
tiles and places their parts. The forced and the plain split have no state
between their iterations and are functions.

### FlashDecode, RowOutputs (abstract)

Extends `FaSplit` with the launch: `Launch` (cores needed, or all of them with a
precomputed plan), `RunTile` (a whole tile writes the output, a part writes partial
rows at the offset its core has worked out), `Combine` (half a cut tile by a vector
core, after `SyncAll`). `RowOutputs` is the promise: every row written once, from
all blocks of its sequence, and none left when the launch has `ended`.

### PipeCode, NpuPipes and the programs

`NpuPipes` is the machine: the scalar unit of an engine hands instructions in
program order to the queues of its pipes, a pipe works its queue off in order, and
only `SetFlag`/`WaitFlag`, `PipeBarrier` and the cross-core flags order the pipes. A
step is a turn of one pipe. `PipeCode` is the vocabulary in which the block
operations are written: `Op` on buffers, `Set`, `Wait`, ping-pong counters by name.
The programs follow the source file by file:

| module | code |
|---|---|
| `CubeCode910`, `VecCode910`, `FwdCode910` | forward v3 (910): the matrix products, softmax and rescale, the combine step, the main loop |
| `FwdCode910V2`, `FwdCode910V4` | the same of v2 (fused tiles, biases, dropout) and v4 (raised maximum, skipped rescale, sink) |
| `BwdCubeCode910`, `BwdVecCode910`, `BwdCode910` | backward v3 (910), and of v4 and general v2, whose kernels are the same but for a few lines |
| `BwdCode910V2` | backward of v2 for packed sequences |
| `FwdCode950`, `BwdCode950` | forward and backward of the 950 |

Assumed of the hardware: an event is a counter, a pipe is in order, one of the two
vector engines of a core stands for both, the unit flag of M and FIX orders a product
and its store, the constructor of `Arch::Resource` ends with a barrier, `SyncAll` of
engines of one kind is locally a barrier of all pipes (and `SyncAll<false>` also a flag
in each direction), and consecutive vector functions of the 950 are ordered.

### FagBlocks, BwdPipeline

The backward kernel (`fag_kernel.cpp`, v3). `FagBlocks` is `CalcValidBlock` and
`UpdateIndex` with the tokens that `fag_tiling.cpp` computes from the mask:
`SkipColumn` steps over a column of blocks without anything visible, `DealBlocks`
deals the visible blocks of a column to the cores still without one,
`EndOfBlocks` marks the cores that go without. Every engine of every core repeats
this walk and keeps its own entry, so the model walks once: `hand` is the entry of
`dbParams` being filled (a ring of three, whose old values are kept where the code
does not overwrite them), `rounds` what the walk has dealt. In deterministic
mode (`dtm`) a round also carries the groups of blocks whose products the
vectors add up.

`BwdPipeline` works the rounds off: task t is the round of that number. Issuing an
operation and finishing it are two steps, in order (`pipe`); the three
products of a block are one operation.

| action | code |
|---|---|
| `CubeFirst` | `ComputeMM1` of the first block, before the loop |
| `CubeGradients` | `ComputeMMDqkv` or `DTMComputeMMDqkv` of the block before, behind flag `V1_C2`; then, or after `CubeSync`, the next round: `ComputeMM1` of its block, or the end of the loop |
| `CubePipe` | the oldest operation is done: scores in the workspace and flag `C1_V1`, or products added or stored and, if `Told`, flag `C2_V1` |
| `VecPre` | the pre step: clears the sums, computes the row products |
| `VecBlock`, `VecIdle` | `epilogueFAGSabVec` of the block of the round before, behind flag `C1_V1`; or a round without a block |
| `VecPipe` | that operation is done: workspace `mul` (and `drop`) filled, flag `V1_C2` |
| `VecLastWait` | not deterministic: after the last block of the core, wait for flag `C2_V1` |
| `VecAddWait`, `VecAdd` | deterministic: wait for the products of two rounds before and, between two `SyncAll`, `epilogueFAGDtmAdd` |
| `CubeSync`, `VecSync` | `SyncAll` of the engines of one kind (external: each waits for its own pipes, then for all others) |
| `VecPost` | the post step |

Workspaces and flags alternate by the parity of the task (`PingPong`). Scores and the
gradients made of them share a workspace, `ws`, which is why its content has a `kind`.
A sum is the list of the blocks added to it. The engines that add the rows
of one gradient do the same to different rows, so the first of them stands for all.

### FagV2Segments

`addr_mapping` of the v2 kernel for packed sequences: the walk that cuts the blocks of
all sequences into rectangles of up to `LIMIT` blocks and deals them in turn, and the
four ways in which the three products and the vector engine count to the place of a
block. The walk of every engine takes the same steps, so one walk records for all.
Lengths are in blocks; `RowsFill` (a segment of more than two block rows) never bites.

### DetSchedule, DetRounds

`DetSchedule` is `fag_det_schedule.hpp`: which tile a core takes in which round, for
batches of one length (dense, folded triangles, groups) and of several, and how the
host chooses a schedule and counts its rounds. `DetRounds` runs it: `step` of each
core, the flags between its matrix and its vector engine, the barrier after each
round, private buffers of dk and dv that are published when a column is complete.
A round of the matrix engine is one step; the slots of L1 and UB that the two engines
exchange are in `BwdCode950`. Left out: the post pass, the two schedules the host
never picks, and the shape for which `CalVirtualIndex` divides by zero (a hazard).

### SparseCache

`block_sparsity.py` with the launches that read it. Threads, each with a current
stream; a call looks the normalised lists up, computes them on its stream or waits
for the event of another's (`Lookup`, `Save`, `Insert`, `Launch`), and a kernel reads
them when its queue gets there. PyTorch's streams, events and caching allocator are
external: a block freed on the host goes to the next tensor of its stream at once
unless `record_stream` told of another stream. One list; the user orders changes with
the streams; the allocator takes the first free block.

### GoldenCache

`golden_cache.py`: processes, the lock of a case and the lock of the directory, files
by name. A process may die at every step and be replaced; `flock` is released then.
A temporary file is made with a name of its own, partial, is filled, and gives its
content to the case when it is renamed (`MakeTemp`, `WriteTemp`, `Replace`); a write that
fails removes it as far as it got, or cannot (`WriteFails`), and a process that is killed
leaves it in the directory (`Crash`). `Temps` is how many the disk has room for: when all
are left over, writes fail, as on a full disk. An eviction that fails removes nothing, and
a month, after which a file is too old, is longer than the minute between two evictions.

### MC modules

`MCFwdPipeline` and `MCBwdPipeline` give one module its bounds; `MCSchedules`,
`MCTiles`, `MCNpuPipes` and `MCCaches` put several modules that share no state side by
side (`part`, or the kernel), so that states add up and do not multiply.

## 3. The runs

| run | states | what it asks, and the bounds |
|---|---|---|
| `fwd_pipeline` | 79 363 | every interleaving of one cube and two vector engines with the code's run-ahead of 2, over 11 task lists in two variants of who owns rows. The lists hold tasks shorter and longer than the pipeline, three tasks inside its run-ahead, and empty tasks first, between and last. A ring of 3 wraps after 3 stacks and the lists have up to 5, so every slot is reused; the proofs cover the other lists |
| `schedules` | 145 766 | *FaSplit* in the constants of the code (128 rows, 512 keys, 25 entries): small launches for every way of splitting, and launches that pass the host's gate, on 20 and 24 cores (`WORD` is 2^30, as TLC's integers have 32 bits themselves; no launch gets near either limit). *FlashDecode*: every interleaving of the cores, tiles of 8 rows, blocks of 2 keys, 3 or 5 cores: a tile in up to 5 parts, halves of unequal rows, idle cores. *DetRounds*: tiles of 2 rows, 2 to 4 cores in every interleaving, dense, causal, windowed and ragged launches with fewer and more columns than cores. *FagV2Segments*: up to 18 columns, so that rows are cut into segments of 16, one to three cores, sequences without blocks |
| `tiles` | 239 441 | *TaskWalk*: tiles of 12 rows, sequences of none, less than one and several tiles, groups that the head blocks do not divide, more and fewer cores than tasks. *FusedTasks*: tiles of 16 rows in blocks of 2, every length beside the tile. *KvRange*: tiles of 2 rows, blocks of 3 keys: every sequence of up to 5 rows and 8 keys under every window that can reach inside it, causal or not, up to 4 new keys, every set of cuts. *PagedKv*: stacks of 6 rows in chunks of 4, pages of 10 sizes from 1 to 16, two tasks. *TileRows*: tiles of 8 rows, every number of heads and rows that fits, loops of 1 to 4 rows, every prefix or suffix of rows without keys |
| `bwd_pipeline` | 116 382 | blocks of 4 rows and 4 keys, edges rounded to 2. About 360 launches are only planned: a sequence of 1 to 9 rows and 1 to 10 keys under five masks, and several sequences with empty ones. Eight launches run on two cores in every interleaving: no block, one, odd numbers of blocks so that a core has none in the last round, and in deterministic mode groups of heads, of columns and across rounds |
| `pipes` | 469 380 | twenty-four kernels at every pace of their pipes, each with few turns of every loop, so that first, middle and last turns occur, and between them the options of the code: masks, softcap, biases, dropout, compact and sliced tiles, split tasks, the combine step, deterministic mode |
| `caches` | 538 741 | *SparseCache*: two threads on two streams, three calls, one change of the lists, two blocks of memory to a stream. *GoldenCache*: two processes, two cases and room for one, two temporary files (one may be left over while the next is written; both, and the disk is full), deaths at every step |

Six more runs look for one violation each; section 7.

The unchanged sizes (`Q_TILE_CEIL`, `MAX_KV_STACK_LEN`, slots of a ring) are
constants of the modules; where a run makes them small, the code uses them only
through comparison, division and remainder, so that what happens around a
multiple of 128 happens around one of 2 or 12.

Deadlock is checked everywhere: a module whose system ends has an explicit
last stuttering step (`Terminating`, `Finished`, `Rest`, ...), so that stopping
anywhere else is an error.

Some properties have several parts: `MCSchedules.EveryBlockOnce` contains that no core
visits a tile it has no block of, `WithinReservation` that partial results are where
the plan puts them, `MCTiles.ReadsSettled` that the indices of a range stay in it,
`RowsInPlace` the places of the log-sum-exp, `GroupsSound` that a block's number finds
its tile.

## 4. Liveness and fairness

`Finishes` of `FwdPipeline` assumes weak fairness of each scalar unit and of each pipe
of each engine: they are separate hardware that executes its next instruction when it
can, and a wait for a flag is a condition of the step. No fairness is assumed between
the engines, and none that would make a flag arrive.

`Finishes` of `BwdPipeline` assumes the same of all its engines and pipes together
(`WF_vars(Next)`). Each does a bounded number of steps and waits only for flags
and `SyncAll`, so that a launch ends unless all wait.

`Returns` of `GoldenCache` assumes that a process that is not dead goes on, and that
one which waits for a lock gets it if it is released again and again (`SF`): `flock`
serves its waiters in turn.

`RowsSpec` and `TilesSpec` are safety. That a flash-decode launch leaves no row behind
is part of it: when no core can go on (`ended`) nothing is pending; nothing waits there
but `SyncAll`, and a deadlock would be reported.

## 5. What is proved

Every theorem holds for every value of the constants that satisfies the named
assumptions; TLC evaluates those on the runs.

| module | theorem | says |
|---|---|---|
| `FwdPipelineProofs` | `TypeCorrect`, `RaceFreedom`, `DelayedContext`, `FlagBalance` | `Spec => []TypeOK`, `[]NoSlotRace`, `[]DelayedContextIntact`, `[]FlagsBalanced`, for every set of vector engines, run-ahead and list of tasks |
| | `Implements` | `Spec => TilesSpec`: the pipeline implements `TileOutputs` |
| `FagBlocksProofs` | `BlocksFit`, `PairsInOneBlock`, `GroupsAreSound` | `BlocksSpec => []BlocksTypeOK`, `[]EveryPairOnce`, `[]GroupsSound`, for any number of cores, sizes of blocks and launches |
| `BwdPipelineProofs` | `BwdTypeCorrect`, `WorkspacesKept`, `FlagsSpent`, `TasksCoverPairs`, `TasksKeepGroups` | `Spec => []TypeOK`, `[]WorkspaceIntact`, `[]FlagsBalanced`, `[]EveryPairOnce`, `[]GroupsSound`, for any number of cores and launches |
| `WalkProofs` | `EveryRowIsRunOnce`, `CursorAlwaysRight`, `DrainsOnlyLast`, `TilesFit` | `Spec => []EveryRowOnce`, `[]CursorRight`, `[]DrainsLast`, `[]RowsFit`, of v3 (`TaskWalk`) and of v2 (`FusedTasks`), for any number of cores, sizes of tiles and launches |
| `TilesProofs` | `PagesRead`, `PagesWritten` | `Spec => []RowsOfPages`, `[]NewRowsInPlace`, for any sizes of pages, chunks and stacks, any run-ahead and any list of tasks |
| | `RowsSeeTheirKeys`, `NewKeysReachCache`, `ReadsAreSettled` | `Spec => []RowsRight`, `[]CacheUpdated`, `[]ReadsSettled`, for any sizes of tiles and blocks, any lengths, window, mask and cuts of a plan |
| | `RowsReachTheirPlaces` | `Spec => []RowsInPlace`, for any numbers of heads and rows, sizes of loops and rows to clear |
| `RoundsProofs` | `SharesAddedByRounds` | `Spec => []AddedByRounds`, for any number of cores and rounds and any launches with a schedule fit for the barrier |
| `CachesProofs` (with `SparseCacheProofs`) | `ListsRead`, `MemoryKept`, `WholeFiles`, `WorkOnce` | `Spec => []ReadsItsLists`, `[]NotRecycled`, `[]NoTornFile`, `[]NoDuplicateWork`, for any number of threads, streams, lists, blocks, processes, cases and temporary files |

**The forward pipeline.** Assumptions: `PRE_LAUNCH` is a positive number, the cube is
no vector engine, tasks have a number of stacks and owners. None of the properties is
inductive: that a slot is not overwritten follows from how far the engines can be
apart, which follows from the flags, which are balanced only because each engine's walk
issues the right number of operations, also across empty tasks and in the drain. The
invariant `IInv` therefore has three layers:

  1. `LocalInv(e)`, about one engine: `CountInv` (how many operations the walk has
     issued at each `pc`), `OpsInv` (they are those of stacks 0, 1, 2, ... in
     order), `DescInv` (the last `STACK_SLOTS` descriptors are still in the ring),
     `CtxInv` (so are the contexts of all stacks to be finished: a task
     without stacks does not advance `taskSeq`, so contexts are recycled no
     faster than descriptors). `Frame` carries it over the steps of other engines.
  2. `FlagInv`: each flag count is the number of completions that set it less the
     number of operations that consumed it. With layer 1 it gives `Chain`: the
     front of a vector engine is at most as far as the completed QKs, PV at most
     as far as the completed softmaxes, a rescale at most as far as the completed
     PVs, and each engine's own front at most `STACK_SLOTS` ahead of its back.
  3. `DataInv`: what has been written to S, P and OTmp and may still be read is
     intact. Its step uses `Chain` and `ModUnique` (numbers less than
     `STACK_SLOTS` apart have different slots).

`DelayedContext` is `CtxInv`; `FlagBalance` is `FlagInv` with the counts of
`Terminated`. For `Implements`, the module adds to `IInv` where each engine is in
the list of tasks: `PlaceInv` (the stack numbered n is stack `kv` of its task, by the
sums `Start` and `Rank` over the tasks before) and what the accumulators and factors of
an engine hold on the way. The sums need induction on the list; it is obtained from the
first-order theorem that `<` on the naturals is well-founded.

**The backward plan.** Assumptions: `BlocksAssumption` (sizes are positive, 8 divides
the keys of a block; a launch has as many lengths of queries as of keys, at least one
sequence and one head, no length beyond `INT32_MAX`, and any window). The invariant `BlocksInv` says where the walk is
(`WalkSound`: within the heads and columns of a sequence, or behind the last sequence),
that the blocks dealt in this round fit their sequences, and of the rounds kept that the
blocks of all cores fit up to the first core without one. Behind that core `dbParams`
holds what an earlier round left there, which is why `RoundSound` is about the first
hole and `Numbered` keeps holes out of rounds that are reused. That a block is not empty
is arithmetic (`ColumnIs`, `ExtentsFit`): the shifted window, divisions that round
toward zero, and the right edge rounded up and cut off again.

`EveryPairOnce` counts blocks at the end of a plan, so it needs to be said of the middle of
one. A *cell* is a block of rows of a head on a column of keys; `WalkedBy(w, cell)` says that
the walk w has it behind itself (an earlier sequence, head or column, or a row of the column
the walk is in that lies before its own). `PairsInv` adds to `BlocksInv` that every block
dealt, in a kept round or in the round being dealt, is whole and behind the walk
(`WholeBlocks`), that no two are of the same cell (`Apart`), and that a cell behind the walk
that some pair needs (`Needed`) is one of them (`NoneLost`). A step deals a stretch of a
column and moves the walk behind it (`DealGrows`, for rounds that are filled up and for
columns that are spread over two rounds), or passes columns and rows the mask hides
(`SkipPairs`); `UpdateIndex` moves on without passing anything needed (`PassedUpdate`). At
the end everything is behind the walk, and a pair is in the one block of its cell
(`PairsInvImplies`).

`GroupsSound`, of deterministic mode, is about three accounts that the walk keeps by counting
and its readers take apart by dividing: the number of a block, the group it adds to, and the
tile of each core (`outArr`). `Number` is a block's number worked out from the sequences and
lines before it; within a sequence it is a number in mixed bases, so it is that of one block
(`NumberOrders`), and the blocks of a tile come in a known order (`DqFirst`, `KvFirst`).
`GroupsInv` adds to `PairsInv` that a block dealt bears its `Number` and all of them lie below
the walk's (`Counted`), that numbers grow from core to core and from round to round
(`InOrder`), and that a block which is not the first of its tile names a core of its round, at
or before its own, with a block of that tile, the same one as the others of the tile do
(`Linked`). For the round being dealt it also says which tile each entry of `outArr` is
(`OutsAt`), since that is where the next block looks for its group. A step that deals
keeps all of this (`DealKeepsGroups`), and one that passes hidden columns moves the number on
by as many blocks (`SkipGroups`). That the leader is found by its number, that a group of the
reduction ends before the first hole and that one which is not direct has room in the
workspace follow (`GroupsInvImplies`).

**The backward pipeline.** The invariant `BwdInv` is `BlocksInv`, `PipesInv`, and that
no engine has begun before the plan is there. `PipesInv` is written for a core, its cube
k and one of its engines v at a time: `Ordered` (scores are done of what v has begun, v
is done with what k has taken on, and gradients are done of what v has waited for),
`FlagsRight` (a flag is 1 if some task of its parity has been ended by one side and not
yet been waited for by the other), `Held` (what the workspaces hold in between).
`DueNear` is the heart: by `Ordered`, the tasks a flag can stand for are two that follow
each other, so each parity has at most one, a flag never counts to 2, and two workspaces
are enough. In deterministic mode the products are read by engines of other cores;
`Together` (all engines have passed the same number of barriers) puts those in the same
round. `FlagsSpent` needs that the task an engine waits for last is one whose gradients
the cube was told to announce (`Told`), which both sides work out from the plan.

**The tasks of the cores.** Assumptions: those of `TilesAssumption` that concern them (sizes
are positive, tiles are of an even number of rows, `BLOCK` divides `FUSED_ROWS`: 128 and 16
in the code) with the `LaunchesAssumption` of both modules (at least one sequence, head,
group and core, lengths of keys for all; unpacked sequences of one length). `WInv` says of
every core that what it has run are the tiles of its numbers c, c + coreNum, ..., each of
the sequence whose stretch of numbers it falls in, and that its cursor is at or before the
sequence of the next number: `preTotal` and `curTotal` are the totals around that sequence,
and the lengths kept are its own whenever `cachedBatch` says so. Skipping a sequence keeps
this (`WNextBatchKeeps`), since the next number is not below `curTotal`. The rest is
arithmetic about the launch: the numbers are cut into stretches (`OneStretch`), a number
within a stretch has two or three digits (`DigitsAre`: block of rows, K/V head, block of
heads), a row of a head determines them (`WHolder`), and each number is of one core and one
place in its list (`NumberOf`). So a row is in one task, and no two tasks share one. `TilesFit`
is that `GetQNBlockTile` heads of a tile, made even, fit it by halves.

`FInv` is the same for v2, with the shape of a sequence instead of its lengths. What is
harder there is the shape. A tail tile takes several heads, whole groups or a part that
divides one (`FSegments`): segments of one size, each with one K/V head (`FSegmentHead`); that they
fit the tile in whole blocks and by halves is `FFits`, that evening them out costs no task
`FNoMoreTasks`. And every core needs the total the host counts: `FTotalTasks` shows
that it is right also when the host multiplies the tasks of one sequence, because rows that
add up to as many times the largest length leave no shorter sequence (`LargestSum`).

**Paged tasks.** Assumptions: `TilesAssumption` (sizes are positive, the run-ahead is a
number) with `RunsAssumption` (pages have rows; a task begins at some stack, and has
numbers of rows and of new rows). `TilesProofs` is about the composition `MCTiles`, whose
behaviours are each of one part. `PagesInv` has three parts besides types. `CursorInv`: an
operation in progress is at the row that its page and offset stand for, from the first row
of its stack on, and only the last page ends before its end (`PieceAt`). `OrderInv`: the
stacks still to begin, together with the one in progress, follow each other, so that the
offset QK has left behind is the one the next stack begins at, unless that stack is the
first of a task or of the new rows, which reset it (`setBlockParam`). `RowsInv`: no row is
forgotten; each is loaded or stored already, or of a stack that waits, or still to come of
the operation in progress. A step reads one piece, which ends at a chunk, a page or the
stack, whichever is first (`PieceFits`): its rows are the wanted ones at their places
(`OldPiece`, `NewPiece`, by the uniqueness of quotient and remainder), and what it leaves
is an operation of the same kind (`PieceLeaves`, `ChunkGoesOn`).

**The range of keys of a tile.** Assumptions: `SequencesAssumption` of `KvRange`, which is
what the host sees to before it launches: a sequence with query rows, whose lengths are
below the bounds the window is normalised with (where it knows them) and below 2^32
together; no window with new keys (`flash_api.cpp:586`); a plan only without a window and
for at most a tile of rows (475-512). Without the rule for windows the theorem is false: TLC finds one
query, one cached and one new key and a left window of 0, where the row gets both keys, and
with a precomputed plan nothing in the host rejects such a call (section 7). `RangeInv` says
where the walk is (`Placed`, `Walking`), that the keys seen so far are those of the blocks
behind it, and the pairs scored those of them the mask shows (`Scored`), that the cache is
old where old keys are, and new where the tile that copies back has been (`CacheKept`), and
that every row of a finished tile is right (`Written`). A step of the walk keeps it because
the mask a block gets is the one its rows want although three kinds of edge decide
separately whether it is built at all (`RKeeps`), and one block follows the other without
gap or overlap, over the jump from cached to new blocks too (`ROldWalked`, `RNewWalked`).
At the end of a tile three facts meet: what a row may see is walked by (`RVisibleWalked`:
the clipped range, whose ends are rounded to blocks in wrapping 32-bit numbers), the kernel's
mask is the interface's (`RSees`), and the rows it clears as empty are the ones that see
nothing (`RClearedSees`, `REmptyIsCleared`).

**The places of the rows.** Assumptions: `RowsAssumption` of `TileRows`, which is what the
kernel passes to `rescale_o.hpp`: several heads in a tile only when it holds the whole
sequence (`GetQNBlockTile`), heads and tokens of the output at least as far apart as there
are of the others, rows to clear at one end of the sequence only, and none with
flash-decode (`mha_fwd_kvcache.cpp:1080` passes zeros). `RowsIInv` says that the rows written
are those of the loops run so far (`OutputRows`), the log-sum-exp that of the engines that
have ended (`LseRows`), and each in its place. The work is in what one loop writes: a row of
an engine's share is row `j % Q` of head `j \div Q`, and the loop, which begins and ends
inside heads, counts neither; that the rest of a head, the whole heads and the beginning of
one put each row where these two numbers say (`LoopFalls`, `TSegments`), that the clearing,
which takes the row from a third count, means the same row (`TToken`), and that the
log-sum-exp, written at once with two ways to number it, agrees (`TRowOf`). At the end the
loops have covered the shares (`TSpan`), the shares the tile (`TCovers`), and no two rows
have one place (`OAtIs`, `LseAtOnce`).

**The deterministic rounds.** Assumption: `RoundsAssumption` of `DetRounds`: the number of
rounds is one, and in a round no two cores have a tile in the same row of dq or, if dk and dv
are added by all cores, in the same column (`MeetsNobody`). It is about the pure functions of
`DetSchedule` alone; what they compute for every launch is arithmetic the prover was not
given, and TLC evaluates it on all launches of `schedules`. What is proved is that the kernel
needs no more. `BarrierCounts` gives both flags of a core, as sent and as consumed, by the
round it is in, so that whoever is let through into a round finds all others there (`Passed`),
although a flag is used again every other round and the cores without a tile signal too.
`SharesOf` says of every share in a gradient that all cores have reached the round after it
and the core that added it has left that round. A share of the same round as the next one
would therefore be from another core in the same row (`SharesAdd`), which the schedule
excludes. Shares in a core's own buffers are in order because a core's rounds are, and a
column takes a buffer's contents whole (`OwnShares`).

**The caches.** `SparseCacheProofs` assumes only `ListsAssumption` (each block has an
owner, each thread a current stream, `MAX_ENTRIES` is a number). A block that a
call, an entry or a kernel still queued refers to is `Live`: it is written behind
what wrote it before, read behind its own write and not given away before its readers
on other streams are recorded; the parts of the invariant say so of entries, of calls
and of the queues. Of the golden cache (`CachesProofs`) the invariant is that the locks
exclude, so that nobody else fills the temporary file of a writer, that a process is about to
rename only a file that is complete (`Filled`), whatever is left over beside it, and that
nothing partial bears the name of a case.

## 6. What is model-checked only

  - Liveness under fairness (`Finishes`, `Returns`): out of the prover's reach.
  - Properties of definitions by recursion or of whole plans: `EveryBlockOnce`,
    `NodesComplete`, `WithinReservation`, `EvenLoad` (nested loops and 32-bit sums of `fa_split.h`),
    `EveryTileOnce`; what rests on them: `RowsSpec`. Of the backward pipeline
    `GradientsComplete` and `AddedInOrder`, which count what many engines have added.
  - The programs of the pipes (`pipes`): each kernel is one program, and TLC runs it at
    every pace.

## 7. Disagreements between the code and its documents

Each is the only property of a run that ends with a counterexample, and an entry
of `findings` in PROJECT.json.

  - `empty_batches` (`EmptyTilesInitialised`): a flash-decode launch with a batch
    that has no keys. With `num_splits` given the batch gets no segment
    (`fa_split.h:415`); in the greedy split a range that ends exactly before it
    steps over its head blocks in `advanceCounters` (`fa_split.h:191`). Nothing
    writes its rows, which `mha_fwd_kvcache.cpp:70` says are initialised.
  - `combine_buffers` (`CombineFits`): three query rows of 40 heads give the second
    half of a cut tile 80 rows; with 24 parts the combine step's buffer of
    24 * 64 numbers (`combine_scale.hpp:34`) does not hold them.
  - `empty_rows_decode` (`EveryEmptyRowZero`): with flash-decode and a causal mask
    the rows that see no key are not cleared (`mha_fwd_kvcache.cpp:1080`), where
    the interface says they are zero.
  - `append_without_queries` (`CacheUpdatedByEvery`): a sequence without query rows
    has no tile, so nothing stores its new keys (`mha_fwd_kvcache.cpp:929`), where
    the interface says the caches are updated in place.
  - `softcap_snapshot` (`OrderKept`): with softcap the backward epilogue keeps a copy of
    the scores "before SubGrapA(i+1) MTE overwrites" them (`fag_epilogue_op.hpp:845`), but
    no event orders the copy (V) before that load (MTE2). v2's epilogue for packed
    sequences has the same.
  - `square_causal` (`EveryTileOnce`): the 950 takes the schedule of folded triangles for
    every causal launch with as many tiles of queries as of keys
    (`fag_det_schedule_host.hpp:108`); with more keys than queries in them, tiles that the
    mask (aligned to the bottom right) lets be seen are computed by nobody.

Observations without a text they disagree with:

  - Three orders the pipes of the v4 forward kernel do not keep; their kernels are left
    out of `pipes`, which runs v4 with head dimensions above 256 in several stacks and
    with smaller ones in one. (1) For two stacks, the scalar unit reads the result of
    `ReduceMin` behind a fence of the vector pipe alone (`rescale_o.hpp:340`;
    `combine_kernel.cpp:183` uses V_S). (2) With a sink and two rows or more, the scalar
    unit writes `lo` (`rescale_o.hpp:686`) while V may still read it. (3) With softcap
    and three stacks, the constant in `lo` (`online_softmax.hpp:84`) is not ordered behind
    the rescale's load.
  - The backward kernel of the 950 in deterministic mode does not wait for
    `castMte3ToMte2_` in `WaitVecEvents` (`fag_kernel.cpp:1334`); its program is left out.
    A core whose last round has no tile leaves one `SYNC_DQ_ROUND` flag.
  - New keys with a window are rejected where the host makes the plan itself
    (`flash_api.cpp:586`), not where a plan is given (453) or made for later
    (`get_scheduler_metadata`); rows then get keys from outside their window.
  - v2's plan from metadata leaves `kvNewSeqlen` at 0 (`fa_metadata.aicpu:153`): new keys
    are ignored with a precomputed plan.
  - A wait that v2 dropped (`MTE3_V` 2) is redundant; the second loop of `HeadTile` in
    `FusedTasks` never bites with 128 rows in blocks of 16; one check of saved versions in
    `block_sparsity.py` matters only if normalised tensors are changed in place.
  - The tiling takes deterministic mode back when one block covers a sequence, and reserves
    no workspace (`fag_tiling.cpp:63`), but the host still launches the deterministic
    kernel (`flash_api.cpp:1192`); `GroupsSound` shows that such a launch stores every
    product directly.
  - The greedy split charges the last, smaller head block of a group like the others
    (`fa_split.h:143`); `EvenLoad` is about launches whose head blocks are equal.
  - An entry of the metadata of the golden cache that is overwritten keeps its place in
    the order of eviction; a death leaves `.case-*` files that nothing removes.

## 8. What is not modelled

| part | why |
|---|---|
| numbers: scores, exponentials, data types, rounding | a weight is zero or not, a value is the stack it comes from |
| in-core layout (L1 tiles, fractal formats, copy shapes) | address arithmetic of single copies, no choice or order |
| paged variants that slice the head dimension or decode a compact tile (`copyKHeadDimSliceToL1`, `copyVHeadDimSliceToL1`) | they work out each place from the start, without a cursor |
| checks of shapes and types, strides and allocations of `flash_api.cpp`, the Python interfaces | no state between calls; the conditions that decide which launches exist are in the MC modules' launches |
| backward kernel: the adding of products by all engines when there are too few for thirds; row products and scaling | single operations and numbers. Deterministic mode with `seqused` is rejected by the host (`flash_api.cpp:1009`) |
| host side of v4 and of the general v2 backward kernel; the separate combine launch of v4; v4 kernels of the 950 | the split is v3's, the kernels v3's but for a few lines |
| which tiles and keys the kernels of the 950 and of v4 work on | they follow the 910 kernels of v3 (`TaskWalk`, `KvRange`, `FaSplit`) |
| DSL back end: cache of compiled kernels and registry of callbacks (one lock each), graph operators, lists of the backward pass | sequential under a lock |
| golden cache: caching turned off, a directory that cannot be locked, values kept for a retry | no other process is involved |
| CI scripts | calls of external tools |

The map names 21,949 of the implementation's 70,592 lines (31 %). Buffers, events and
one-instruction helpers of the code modules have no row of their own: their lines are
those of the operations that use them.

## 9. Plan

Done: the forward pipeline with its proofs and its refinement; the tiles, ranges, pages
and rows; flash-decode; the backward kernel of the 910, plan and pipeline, with proofs;
the pipes of 24 kernels; the deterministic schedule of the 950; the segments of v2; the
two caches with their proofs; proofs about the tasks of the cores, paged tasks, the range of keys,
the places of the rows, the deterministic rounds and the groups of the 910's deterministic mode.

Left: that the schedules of `DetSchedule` are fit for the barrier for every launch
(`MeetsNobody`), and the order of additions in the backward pipeline of the 910 (`AddedInOrder`).

## 10. Running

    tlc -config FwdPipeline.cfg MCFwdPipeline      (and so on: PROJECT.json lists
    tlapm FwdPipelineProofs.tla                     runs, modules and properties)

The proofs of a module take between ten seconds and seven minutes from nothing. A leaf
that needs more than the prover's usual time names its prover and a limit (`SMTT(30)`).
