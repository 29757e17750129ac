# A TLA+ project for Microprocessor-Architecture

The repository holds the simulators of a computer-architecture course: a cache
hierarchy (Project01), branch predictors (Project02), an out-of-order pipeline
(Project03), an ILP limit study (Project04) and the register renamer of a
cycle-level superscalar simulator (Project05). All are single-threaded programs.
What makes them hard is not concurrency of threads but the concurrency they
simulate: many instructions in flight, each in its own stage, that share tables
whose entries are used again and again, and that are killed, replayed and
retired in orders no test enumerates.

This project models the renamer, the out-of-order pipeline, the cache hierarchy, the
branch predictors and the loops that read their traces, checks them with TLC on small
machines, and proves with TLAPS, for machines of every size, the safety of the ring
structures, of the renamer, of the out-of-order pipeline and its report, of the cache
hierarchy, of the predictors and of the reading loops, and that the free list, the
renamer and the pipeline implement their abstract specifications.

## 1. Inventory

### Project05: register renaming

| part | state | operations | used by |
|---|---|---|---|
| `Queue<T>` (queue.h) | `queue[]`, `__front__`, `__rear__`; n+1 slots, one always unused | `IsFull`, `IsFull(n)`, `IsEmpty`, `IsEmpty(n)`, `Add`, `Delete`, `GetHead`, `Find` | the two lists |
| `FreeList` (FreeList.h) | a Queue of physical registers | `GetFreeReg`, `ReturnFreeReg`, `Checkpoint`, `Restore` (front), `Squash` | renamer |
| `ActiveList` (ActiveList.h) | a Queue of instructions in flight | `Add`, `Retire`, `GetHead`, `Restore` (rear), `Squash` | renamer |
| `renamer` (renamer.cc) | RMT, AMT, FL, AL, PRF, PRF_rdy, GBM, BRCP | `stall_reg`, `stall_branch`, `rename_rsrc`, `rename_rdst`, `checkpoint`, `dispatch_inst`, ready bits, `write`, `set_complete`, `resolve`, `precommit`, `commit`, `squash`, mark setters | the 721sim pipeline through glue.cc |
| pipeline (lib721sim.a) | latches, instructions in flight | rename2, dispatch, writeback, resolve, retire | a library without source |

Interaction: direct calls. One simulated cycle calls the stages one after the
other; a bundle in rename or dispatch runs to its end before any other call.

Hard: a misprediction restores one end of a ring to a remembered index although
the other end has moved; branch IDs, checkpoints, registers and list slots are
all used again; stall queries are asked once for a bundle; a squash rebuilds the
free list from one index; ready bits outlive their register's use.

Correct means: every physical register has exactly one holder; the maps say what
program order says, after any recovery; no assertion of the class fails; the
committed registers behave like a machine without renaming; stalls end.

### Project03: dynamic instruction scheduling

| part | state | operations |
|---|---|---|
| `ROB` (sim_proc.h) | `cqueue`, `Head`, `Tail`, `Full` | `Allocate`, `SetRdy`, `GetRdy`, `Retire`, `RobIsFull` |
| `IQ` (sim_proc.h) | `queue`, `cnt`, `seq_max` | `FindInv`, `FindRdy`, `SetIq`, `Invalidation`, `Update`, `IqIsFull` |
| `EXC_LIST` (sim_proc.h) | `fu` | `FindEmpty`, `Add`, `DecCnt` |
| `CPU_OOO` (cpu.cc) | latches De, Rn, Rr, Di, map Rmt, Wb, flags Avail, `info` table | Retire, Writeback, Execute, Issue, Dispatch, RegRead, Rename, Decode, Fetch, UpdInfo, UpdPrintFetch, Advance_Cycle |
| `main` (sim_proc.cc) | trace position, `last`, `inst_input` | reads a bundle, runs cycles, drains |

Interaction: `main` calls the stages from the last to the first in each cycle;
they communicate through latches, the flags Avail, the three queues and Wb.

Hard: a tag is an index of the reorder buffer and is used again while consumers
still carry it; a finished instruction is announced in one cycle only, while
consumers move between latch and queue; stages stall by flags set before; the
end of the run is decided by a flag that says "the buffer was seen empty".

Correct means: no wake-up is lost or taken from a stranger; instructions start
only with their operands and retire in order, each once; queues and units never
run out where the code does not look; the simulation ends with all retired; the
report names the right instruction and cycle.

### Project01, Project02, Project04

* Caches: `Cache` with `Regular_Cache::request` (LRU lists, write-back and
  write-allocate), `Victim_Cache::swap_request`, `CACHE_SYSTEM::func0..func3`.
  Hard: `swap_request` reads what the *last* L1 eviction left behind
  (victim_cache.h:30-32); the scan relies on invalid blocks being last
  (regular_cache.h:31); dirtiness has to survive swaps. Correct means: a block is
  in at most one of L1 and VC, a written block is dirty somewhere until written
  back, the traffic totals count real transfers.
* Predictors: 2-bit counter tables, global history, a chooser. Sequential; the
  edges are the shifts for N = 0 and N > M1, and the order of predicting, training,
  history and choice inside one call. Correct means: the index follows the history,
  every counter learns from its own branches, the chooser from the contests only.
* Trace readers: the loops of `main` in sim_cache.cc:68, sim_bp.cc:111 and
  sim_proc.cc:57-71. Each calls `fscanf` into variables that outlive the turn, until
  EOF; the number of fields read is not looked at. Hard: a line cut short, a letter
  where a number is wanted, the end of the file in the middle of a bundle. Correct
  means: each line is handed on once, with its own fields; the loop ends.
* ILP limit study: a binary, checkpoints and result files, no source.

## 2. Plan

Order: the structure with the most dangerous recoveries first.

1. `Queue`, `Renamer`, `RenamerPipeline`, `PreciseCore` and their properties. *Done.*
2. `FreeList` as a component of its own, refining `UndoFifo`; proofs. *Done.*
3. `OutOfOrderCpu` over `ReorderBuffer`, `IssueQueue`, `ExecuteList`; refines
   `DataflowCore`; `OutOfOrderTiming` on top; machines of every size, those too small
   for a bundle included. *Done.*
4. `RenamerProofs`: the inductive invariant `IInv` of `RenamerInductive` for every
   number of registers and checkpoints, and from it `TypeOK`, `OneHolder`,
   `MapsExact`, `CheckpointsExact`, `MasksExact`, `ActiveListExact` as theorems.
   Then `OperandInv`, and from it `AssertsHold`,
   `OperandsExact` and the refinement `PreciseSpec`. *Done.*
5. `Cache` and `CacheSystem`: L1, victim cache and L2 in the four configurations, with
   a history of where each block's newest version is in place of data; then
   `CacheInductive` and `CacheProofs`: all their properties, for every geometry and
   every set of blocks. *Done.*
6. `Predictor`: bimodal, gshare and hybrid, against what the trace says they were
   told; `PredictorProofs`: its properties for every table size, history length and set
   of addresses. *Done.*
7. `TraceReader`: the three reading loops; `TraceReaderProofs`: their safety for every
   file. *Done.*
8. `OutOfOrderInductive` and `OutOfOrderProofs`: the pipeline's invariant for every
   size, width and trace, and from it all safety properties of `OutOfOrderProps` and the
   refinement `DataflowSpec`. *Done.*
9. `OutOfOrderTimingProofs`: `RowComplete` and `TotalsExact` for every machine and trace,
   which need what each row says of its instruction beside `CoreInv`. *Done.*

## 3. Modules

### Renamer

* `Queue` (queue.h, FreeList.h, ActiveList.h): a ring as a record
  `[front, rear, slot]`, the methods as operators. `Dist(q, i)`, how far slot i lies
  behind the unused slot, is not in the code; it is the measure all reasoning about
  the ring uses.
* `Renamer` (renamer.h, renamer.cc): one operator per method. Assertions are
  conjuncts of the action; `RenamerProps!AssertsHold` says separately that they never
  fail, so that nothing is hidden by a guard. `commit` is split into `CommittedAMT`
  and `CommittedFL` because the retire stage may call `squash` right after it, in
  the same step. GBM and the checkpointed masks are sets of bit numbers; toggling a
  bit stays a toggle (`Xor`). Uninitialised words (slot 0 of the free list, the ready
  bits of free registers, the masks of unused checkpoints) start with any value.
* `RenamerPipeline`: the caller. `win` is the list of instructions in flight with
  what the renamer told the pipeline about each: physical names, mask, branch ID,
  active list index. The stages' order inside a cycle is left open except that a
  bundle runs to its end. The guards are the duties renamer.h states (asking the
  stall queries for the whole bundle, clearing the ready bit at dispatch, completing
  a branch after it resolved, examining `precommit` before `commit`). All its
  definitions are marked external: the library has no source.
* `RenamerProps`: the properties. `PreciseCore`: what renaming promises, a machine
  with one register per name; the renamer implements it under the mapping
  `arch[l] = PRF[AMT[l]]`.
* `RenamerInductive`: the invariants strong enough to be inductive. `MCRenamer`: a
  view that forgets what the class never clears but always writes before reading.
* `FreeList`: the free list with any caller that keeps its assertions, one action per
  method, with `UndoFifo` as its specification.

### Out-of-order pipeline

* `ReorderBuffer`, `IssueQueue`, `ExecuteList`: the three classes as operators.
* `OutOfOrderCpu`: `stage` is the call `main` is at and `slot` the index of the loop
  inside it; a stage is an action, and a stage whose loop reads what an earlier turn
  wrote takes one action per turn. Sizes and trace are not constants: the variable
  `params` is any member of `Params`, and `ReadTrace` chooses the next bundle, so all
  traces up to `MaxTrace` instructions are covered, the empty one too. Register values
  do not exist in the code and not in the model.
* `OutOfOrderProps`, `DataflowCore`: properties, and the abstract machine in which
  instructions start when their operands are done, and retire in order.
* `OutOfOrderInductive`: the invariant strong enough to be inductive.
* `OutOfOrderTiming`: the statistics as actions conjoined to the stages. A row
  keeps the sequence number and, for each stage, the begin cycle and the duration, as
  `UpdInfo` writes them; `Enters` says who is found in a stage for the first time.
  The empty trace is left out here: its cycles have no end. `OutOfOrderTimingProofs`:
  section 6.

### Caches

* `Cache` (basic_cache.h, regular_cache.h, victim_cache.h): a cache is a record, a set
  a sequence of blocks, most recently used first. `Requested` is `request` on a
  regular cache and `Returned` what it answers; `Swapped` and `SwappedL1` are what
  `swap_request` does to the victim cache and to L1. `Renew` is the pair insert at the
  front and erase that every path ends with. `blk_v` and `addr_evict` are kept because
  `swap_request` reads them after `request` has returned. An address is a block number:
  the offset is cut off first by every method. The number of sets is taken as a power
  of two, as the masks require.
* `CacheSystem` (cache_system.h): `func0` .. `func3` and the trace loop, whose next
  request is any read or write of any block. The program stores no data, so two history
  variables say what it should keep: `fresh`, which copies of a block are its newest
  version, moved along with the blocks by the meaning of write-back and write-allocate,
  and `recent`, the order of use, as the set of pairs of a block and one used before
  it. No action reads them.
* `CacheInductive` and `CacheProofs` are about every geometry (section 6).
* `MCCacheSystem`: the geometries, and the view without counters.

### Branch predictors

* `Predictor` (pred.h, pred.cc): the tables as functions to 0..3 and one action for the
  `next_pc_outcome` of each class; `trace`, which no action reads, keeps the branches
  with what was predicted and by whom. A word is the set of the positions of its one
  bits, so that the mask of `get_gbh`, the shifts and the exclusive or are the code's and
  the provers can reason about them. With `N` = 0 the shift by `N - 1` is undefined, so
  the new history word is any of two values.
* `MCPredictor`: table sizes and history lengths. `PredictorProofs`: section 6.

### Trace readers

* `TraceReader`: a file is a sequence of tokens, a number or a letter, and what a field
  holds is the place of the token it was read from, 0 if none was. `Scan` is `fscanf` as
  the loops use it: it converts the fields that fit, leaves the first token that does
  not in the file, and leaves the other variables as they are. `ReadLine` is a turn in
  sim_cache.cc and sim_bp.cc, `ReadSlot` one in sim_proc.cc; `given` lists what was
  handed on, and `RunCycles` stands for the pipeline, where `OutOfOrderCpu!ReadTrace`
  takes over. A word that was never written counts as either a letter or not one.
* `TraceReaderProofs` is about every file (section 6).

## 4. Runs

| run | machine | shows |
|---|---|---|
| freelist | ring of 4, three items | `StallCountsExact`, `UndoFifoSpec`: moving the front back undoes exactly the open loans, whatever was returned meanwhile |
| maps | 2 logical, 4 physical registers, 1 checkpoint, bundles of 2 | `OneHolder`, `MapsExact`: with two logical registers a write to one must leave the other alone through recoveries |
| ring | 1 logical, 4 physical, 2 checkpoints, bundles of 2 | nested branches, killed branches, IDs and slots used again: `CheckpointsExact`, `MasksExact`, `ActiveListExact`, `AssertsHold` |
| values | 1 logical, 3 physical, two values, early wake-up, serialising instructions, load violations, deferred mispredictions | operands, and squash and commit-then-squash: `OneHolder`, `OperandsExact`, `PreciseSpec` |
| live | 1 logical, 3 physical, 1 checkpoint, fairness | `RenameStallEnds`, `LatchDrains` |
| ctor | the constructor's first states | a violation, see Findings |
| ooo_cycles | (reorder buffer, issue queue, width) = (3,2,1) and (4,2,2), with the cycle counter and the timing table; traces up to 6 on one register | `RmtExact`, `WakeupNotLost`, `RowComplete`, `TotalsExact` |
| ooo_ends | (4,2,2), (2,2,2), (4,1,2), (1,2,2); traces up to 5 on two registers; fairness | `OnePlace`, `QueuesSuffice`, `DataflowSpec`, `DrainedAtEnd`, and `SimulationEnds` for all but the starved, `StarvedForever` for those |
| ooo_early | (2,2,2), traces up to 5 | a violation, see Findings |
| caches | four blocks; L1 of two blocks as two sets or two ways; victim cache of 0, 1 or 2 blocks; L2 absent, or of two blocks as two ways or two sets: ten geometries | `ListsSound`, `NewestFound`, `LruExact`, `TrafficExact` |
| predictors | two branches, every trace of 7; bimodal with 1 and 2 entries, gshare with 4 entries and a history of 0, 1, 2, hybrid in two sizes | `IndexExact`, `CountersLearn`, `ChooserLearns`, `MistakesBounded` |
| readers | every file of up to 11 tokens, for each of the three loops; bundles of 2 | `LinesExact`, `EveryRequestServed`, `BundlesExact`, `EndsIfReadable` |

Each property comes with a mutation of the code (operators marked "mutant") under
which TLC finds it violated, so no property is true of every program.

Why the bounds are enough. Renamer: two or three free registers and the ring's
unused slot are enough for both ends to wrap independently; two checkpoints give
nesting, killing and reuse of IDs; the window is unbounded except by the machine's
own sizes, so there is no depth bound. Values are only copied: two suffice to tell
a register from another, and symmetry over them is sound because no action compares
them. Pipeline: a trace longer than the reorder buffer reuses every tag; latencies 1,
2 and 5 are those of the code; width 2 gives bundles that are partly full. The only
artificial bound is `MaxTrace`. The table of (3,2,1) has 5 rows, so it is used again by
6 instructions; that of (4,2,2) has 8, and the mutant that removes a bundle's rows shows
that all are needed. The four machines of `ooo_ends` have room for two bundles, for one,
and for none in the one or the other queue.
Caches: four blocks are one more than L1 and the victim cache of one hold, so every
level evicts clean and dirty blocks; the state space is finite without a bound once
the counters, which no method reads, are left out of the view (`TrafficExact` compares
their growth in one step, which does not depend on them).

Predictors: `MaxTrace` = 7 bounds the trace; four contests for one chooser entry, the
most a property speaks of, fit into it, and two branches share an entry or not
depending on the table's size.

Readers: 11 tokens are two lines of sim_proc.cc and the start of a third, and five lines
of the other two; `MaxGiven` is larger than the number of turns any file of that length
takes before its reader ends or repeats itself, and only stops the counting of turns
in the loops that do not end.

Views. `LiveView` drops unused active-list slots, the free list's unused slot,
checkpoints of free IDs, value and ready bit of registers nobody can read before
they are written, and those marks of an entry that can no longer change how it retires
(any offending mark leads to the same squash). `TimedView` drops
retired instructions from the trace, idle units and past write-backs, and replaces
cycles by how long ago they were, since the code only subtracts them. `CacheView` drops the
counters. None is used with a liveness property.

Deadlock is checked except in `maps` and `live`, where a bundle with more branches
than the machine has checkpoints stalls forever, as the code does, and in
`predictors` and `readers`, where the trace ends.

### Fairness

The simulator is a loop that calls every stage in every cycle.

* `live`: weak fairness of the rename, dispatch and retire stages, and of writing,
  resolving and completing the *oldest* instruction: the oldest one waits for nobody,
  so a stage that is called again and again gets to it. Nothing is assumed of the
  arrival of bundles or of younger instructions.
* `ooo_ends` and `readers`: weak fairness of `Next`: one thread takes every step it can.

## 5. Findings

`ctor`: renamer.cc:26-27 asserts of each register that exactly one of RMT and the free
list has it. `Find` (queue.h:115-120) looks at all n+1 slots of the array, but the
constructor of the free list fills slots 1..n only (queue.h:94, FreeList.h:27-28);
slot 0 comes from `new T[]` uninitialised. If the word there happens to name a logical
register, the assertion fails although the renamer is right. The state itself is never
harmed: the slot is the unused one.

`ooo_early`: cpu.cc:413 prints `last_seq` as "# Dynamic Instruction Count". It is set
when a retirement empties the reorder buffer (cpu.cc:271-274). Every retirement writes
`done_flag`, true if it emptied the buffer and false if not (cpu.cc:267), and the drain
loop of `main` tests the flag at the end of each turn (sim_proc.cc:111). So the flag says
that the buffer is empty, not that the trace is done. With (2,2,2) and three
instructions the counterexample is this: the trace is read in cycles 0 and 1 and the
drain loop starts with the flag false. The first bundle fills the reorder buffer, so the
third instruction waits in the latch in front of Rename. In cycle 8, the seventh turn of
the drain loop, both instructions of the bundle retire and the second one empties the
buffer: the flag becomes true. The third instruction is renamed later in the same turn,
but the loop ends with that turn; it never retires, and the report counts two. From two
bundles on this does not happen (`DrainedAtEnd`, `TotalsExact`).

Behaviour a user would not expect, stated by properties that hold:

* rob_size < width or iq_size < width: the queue is full when it is empty and the
  simulator loops forever (`StarvedForever`). So it does for an empty trace, which never
  sets `done_flag`.
* A last line that is cut short is handed on, completed by the line before
  (`LinesExact`).
* A letter where sim_bp.cc or sim_proc.cc wants a number is never taken out of the file:
  the loop goes on forever with the old values (`EndsIfReadable`). sim_cache.cc finds
  its place again (`EveryRequestServed`).

Boundaries of the code seen while modelling, excluded by assumptions:

* A renamer bundle with more destinations than free registers can ever exist, more
  branches than checkpoints, or longer than the active list stalls forever.
* A gshare history longer than the index (N > M1) makes the shift `M1 - N` wrap around;
  pred.h:17 excludes it ("max n == m"), and so does `PredictorAssumption`.
* An operation outside 0..2 in a trace of Project03 makes `EXC_LIST::Add` print an error
  and leave the program (`exit(1)`, sim_proc.h:189); `InstrAssumption` excludes it.
* `%s` reads the letter of a line into `char str[2]` (sim_cache.cc:66, sim_bp.cc:109), which
  holds a word of one character; a longer one overruns it. A token of `TraceReader` that
  is no number is of one character.
* `n_branches` > 64 overruns BRCP before the assertion that rejects it.
* An address of more than 32 bits: `TAG_MASK` cuts it in L1 and L2 and nothing cuts it
  in the victim cache (`uint32` is `unsigned long`), so the same block would have two
  tags. Traces have 32-bit addresses, and block numbers in the model are small.

## 6. Proofs

Everything is checked by TLAPS (SMT, Zenon, LS4) for all values of the constants,
from the named assumptions only: `MaxAssumption` (the ring has at least one item),
`RenamerAssumption` (more physical than logical registers, 1 to 64 checkpoints, `None`
is no number), `PipelineAssumption`, and for Project03 `CpuAssumption` (sizes are numbers,
a bundle and a reorder buffer have at least one place) and `InstrAssumption`, for Project01
`CacheAssumption` (L1 has a set and a block, blocks are numbers), for Project02
`PredictorAssumption` (addresses are words, no history is longer than the index), and
for the loops `ReaderAssumption` (a bundle has at least one place). `MaxTrace`, `MaxTokens`
and `MaxGiven` are constants like the others, so what is proved of the pipeline, of the
predictors and of the loops holds of traces of any length; the numbers of sets need not be
powers of two.

* `QueueProofs`: indices wrap once (`Wrap`, `SuccIs`); `Dist` numbers the slots from
  the unused one, is injective, moves by one with `Succ`, and shifts by one when an item
  is added (`DistRange`, `DistInjective`, `DistSucc`, `DistAdd`); and the two theorems
  `IsEmptyForCounts`, `IsFullForCounts`: the loops behind `stall_reg` and
  `stall_dispatch` count exactly.
* `FreeListProofs`: `FreeListTyped`, `StallCounts`, and `FreeListIsUndoFifo`, the
  refinement. The mapping reads the ring from the unused slot on; adding shifts the
  sequence by one (`BehindGap`), everything else leaves it as it is (`SameOrder`).
* `RenamerProofs`: the renamer's invariant `IInv` (`RenamerInductive`) holds in every
  reachable state (`Inductive`), and `Typed`, `EveryRegisterHasOneHolder`,
  `MapsAreExact`, `CheckpointsAreExact`, `MasksAreExact` and `ActiveListIsExact` follow
  from it. Lemmas about rings, masks, checkpoints and maps come first, then the actions.
  Then `IInv` together with `OperandInv` is inductive (`OperandsInductive`), and from it
  come `NoAssertFails`, `OperandsAreExact`, and `RenamerIsPrecise`, the refinement of the
  machine with one register per name.
* `OutOfOrderProofs`: the pipeline's invariant `CoreInv` (`OutOfOrderInductive`) holds in
  every reachable state (`CoreInductive`), and every safety property of `OutOfOrderProps`
  follows from it: `CpuTypesKept`, `MapNamesYoungest` (`RmtExact`), `NoWakeupIsLost`,
  `InstructionInOnePlace`, `QueuesAlwaysSuffice`, `EndsDrained`, `StarvedNeverEnds`; so
  does `CoreIsDataflow`, the refinement of the abstract machine.
* `OutOfOrderTimingProofs`: the invariant `TimedInv` of the report holds in every
  reachable state (`TimedInductive`), and with `CoreInv` it gives `RowsComplete`
  (`RowComplete`) and `TotalsAreExact` (`TotalsExact`).
* `CacheProofs`: the cache system's invariant `CacheInv` (`CacheInductive`) holds in every
  reachable state (`CachesInductive`), and with it `CacheTypesKept`, `ListsStaySound`,
  `NoWriteIsLost` (`NewestFound`) and `LeastRecentIsReplaced` (`LruExact`);
  `ReportIsExact` is the action property `TrafficExact`.
* `PredictorProofs`: the invariant `PredInv` (`PredictorInductive`), and from it
  `PredictorTypes`, `PredictorIndex` (`IndexExact`), `PredictorCounters` (`CountersLearn`),
  `PredictorChooser` (`ChooserLearns`) and `PredictorMistakes` (`MistakesBounded`).
* `TraceReaderProofs`: the invariant `ReaderInv` (`ReaderInductive`), and from it
  `ReaderLines` (`LinesExact`), `ReaderServes` (`EveryRequestServed`), `ReaderBundles`
  (`BundlesExact`) and `ReaderEnds`, the safety half of `EndsIfReadable`.

### The renamer

Why the properties are not inductive as they stand: a misprediction moves the free
list's front back to an index remembered long ago. `OneHolder` survives that only if
the slots between the remembered front and the present one hold exactly the registers
of the instructions that are killed. So `IInv` says who owns *every* slot:

* `RingOf`: seen from the unused slot, first come the slots of the writers in flight,
  in program order, then the free items. The history field `slot` of an instruction
  names its place, and the checkpoint of a branch remembers that place (`CkptOf`).
* `HeldOf`: the slots other than the unused one and the committed map share out the
  physical registers, each register once. No rename or recovery changes either; a
  commit swaps one register between them.
* `ListOf`: entry k of the active list lies k slots behind its front and was made for
  instruction k; an entry is complete only if its instruction is no unresolved branch.
* `MaskOf`: bits, branch IDs and masks, bit by bit. From it follows that who survives
  a misprediction is a prefix of the window (`SurvivorsArePrefix`).
* `MapsOf`: the rename map, each instruction's sources and each live checkpoint are the
  committed map overlaid by the writers up to their point.

The twelve actions that touch these tables do one of six things to the window: append
(rename), replace fields (wake-up, write, complete, mark, resolve as predicted),
dispatch, truncate (misprediction), take the head off (commit), empty (squash). For
each part of `IInv` there is one lemma per thing (`RingAppend`, `RingTruncate`,
`RingCommit`, `MapsAppend`, ...), about any window and any tables; `RenamerProofs` has
one lemma per action, which only says which of them apply.

Operands, assertions and results need four facts more (`OperandInv`):

* `CommittedReady`: a committed register is ready, or an instruction that reads it would
  wait for a result nobody will write.
* `ResultsOf`: the ready bit and the value of a register in flight are those its own
  writer announced and wrote; the register had other writers before, whose bit and
  value are still there when it is taken from the free list.
* `DoneOf`: what is marked complete has its result in place, so what commits is a value.
* `PromiseOf`: what `stall_reg`, `stall_branch` and `stall_dispatch` promised once still
  covers what is left of the bundle. `AssertsHold` is this part, read at the assertions.

For `RenamerIsPrecise` each action is one step of the abstract machine or none: a rename
enters an instruction, a write gives a result, a misprediction cuts the queue behind the
branch, and only a commit, alone or with the squash of the same step, changes `arch`. That
no write reaches a committed register, and that the oldest instruction's register holds its
result, are `HeldOf` and `ResultsOf`.

### The pipeline

`RmtExact`, `WakeupNotLost` and `QueuesSuffice` speak of one table each, but a step keeps
them only because of where all the other instructions are. `CoreInv` says so with four
numbers of the trace, `rd`, `rn`, `de` and `fe`: the first instruction that is not yet
behind `Rr`, `Rn`, `De` and `inst_input`.

* `LatchesInOrder`: each latch holds the instructions between two of these numbers,
  then bubbles, from the slot on that its stage has come to. A latch that was handed on and
  not yet overwritten still holds them; `HandedOn` says that they are copies.
* `NoGaps`: the front of the pipeline never carries an empty bundle in front of a full
  one. Without it `Retire` could take an empty reorder buffer for the end.
* `RobInOrder`, `RobHasRoom`: the buffer holds the instructions up to `rn`, entry by entry,
  and what was not dispatched is not ready. `RobRunsEmpty`: when it may be empty, stage
  by stage; `Retire` reads the head without asking.
* `Refilled`: with room for two bundles the buffer is not empty while there is
  something to rename. It separates the machines of which `EndsDrained` speaks from those
  that stop early (Findings).
* `MapExact`: the map names the youngest writer by distance from the head.
* `LatchesOK`: a source that is awaited names its producer (`Producer`), by program
  order and not by tag. The producer may have *retired*, its tag being free, as long as
  Dispatch or RegRead is still to look at the consumer: the ready bit of a retired entry
  stays set until the entry is used again, and that cannot happen before they look.
* `BackEndOK`: in the issue queue, the units and `Wb` each instruction has its own tag; an
  awaited tag there is held and not announced, which is why an announcement in one cycle
  only is enough; and nothing dispatched is lost.
* `IqHasRoom` and `UnitsSuffice`: the room the flags promised, slot by slot, and that units
  with k cycles left were given work in the last 5 - k cycles. `Allocate`, `SetIq` and
  `FindEmpty` do not look; these two say they need not.

The tags are one table, `Tags`, and the parts of `CoreInv` are operators on it, so that
there are five lemmas about what changes the table (an entry is allocated, removed, made
ready, stands in `Wb`, or nothing) and one lemma per stage that says which applies.
`CoreIsDataflow` reads the abstract machine's state off the queues: what is in a unit is
being executed, what is ready or in `Wb` is done, what is older than all others is next to
retire. The units that count down to zero in one `Execute` are one abstract step.

### The timing report

`UpdInfo` runs once a cycle, before the stages, and finds each instruction where it stands
then; the row it writes is only complete if no instruction can pass two columns between two
calls and no row is shared. The actions of `OutOfOrderTiming` are those of the pipeline with
conjuncts for the table, so `TimedSpec` implies `Spec` (`TimedIsCore`) and `CoreInv` can be
used in every step. `TimedInv` adds to it:

* `RowsFollow`: of an instruction in the stage of column n, the columns up to n have begun,
  each where the one before ended, and the others are empty (`Begun`, `FilledRow`); or it
  came there in this cycle and the row is one column behind (`Entered`). Which stages have
  moved in a cycle is a matter of the stage `main` is at (`Moved`). What is ready to
  retire was in write-back at the last `UpdInfo`, or it could retire with an empty column.
* `CyclesLeft`: what a unit has left to count is the latency less the cycles since the
  column EX began. From it the printed duration of EX is the latency.
* `OthersBlank`: the rows of no instruction under way are blank, since `UpdInfo` writes a
  begin cycle only into an empty field.
* `OpsKept`: an instruction keeps its kind, and with it its latency, through the latches.
* `TotalsKept`: with room for two bundles, once `done_flag` is set the totals are those of
  the whole trace and of the cycle that ends.

`RowsAreOwn` is why the table has `2 * width + rob_size` rows: all instructions under way,
from the oldest in the reorder buffer to the youngest in the latch De, are less than that
many numbers apart, so no two have the same index (`LiveIs`, `ModApart`). There is one lemma
about the rows for `UpdInfo` (`UpdInfoKeeps`), which fills every column but the first, and
one lemma per stage that says who moves on; Fetch begins a row and Retire blanks it.

### The caches

What a cache does is first put in terms of the blocks it holds: `RequestedIs` and
`SwappedIs` say that a request adds the block asked for and takes away at most one,
with its dirty bit, provided that the lists are sound. That rests on two facts about the
lists (`RenewIs`, `RenewLists`) and on the arithmetic of index and tag (`AddressIs`).
`ListsSound` is not inductive. `CacheInv` adds to the properties:

* `VictimsOfFullSets`: the set of L1 to which a block of the victim cache belongs is
  full. A miss that evicts nothing does not ask the victim cache; that is right because
  the block cannot be there, or it would be in both afterwards.
* `UnusedClean`: an invalid block of the victim cache is not dirty. `swap_request` evicts
  its last block without looking at the valid bit, and `func3` would write to L2 a block
  that never was.
* `FromTrace`, `LeftOutEmpty`: nothing else is in a cache, and nothing at all in one that
  is left out.

`TopStepIs` treats L1 and the victim cache as one: what is in either, and dirty in
either, loses the block that leaves and gains the one asked for (`TopAfter`), whether the
victim cache is there, hits, evicts or is not full yet. The four functions are then one
step (`RequestNames`). `NewestFound` is carried through that step in the order of the
code, the block that leaves, the one that comes, the write (`FreshLeft`, `FreshFetched`,
`FreshUsed`), each allocating in L2 as the code does; `LruExact` follows from the order of
one list (`LruStep`), since a swap changes nothing of L1 but a dirty bit (`SwappedL1Is`).
For `TrafficExact` the counters are compared with the sets of blocks that come and leave
(`TopTraffic`, `MovesAre`, `L2Traffic`).

### The predictors

`PredInv` says of every register and table what it knows of the trace.

* `HistoryExact`: the history register holds the outcomes of the last N branches and no
  bit above them. The mask of `get_gbh` would hide such a bit, but the next shift would
  bring it down.
* `Knows`: what a counter that started at `first` has come to, by the last outcomes its
  entry was told. `Learns`, the property, speaks of two and of four outcomes; between them
  the counter must be known to be at its end after three equal ones, and at its distance
  from the middle after one (`CountersKnow`, `ChooserKnows`). `KnowsMore` is one call of
  `update_pt`, for any counter and any set of branches; each table is touched at one
  entry, and the others were told nothing new.
* `MistakesPlaced`: a misprediction is the first thing an entry is told, or a change, or
  comes right after a change. `MistakesBounded` follows because what comes right after a
  change determines it (an injection of the latter kind into the changes).

### The trace readers

`ConvertedIs` says of `Scan`, as `fscanf` is used, what it converts: the fields up to the
first that does not fit. `ReaderInv` adds to that:

* `InLines`: in a file that starts with lines the reader is between two of them, its
  fields those of the line before (`Between`), and after a last line that is cut short it
  has seen the end (`Cut` is what it hands on).
* `Served`: sim_cache has served the letters below its position, and no others; a turn
  passes one letter and the numbers around it.
* `BundleFilled`: the part of the bundle below `k`, and that `last` was written by the
  slot before and not by an older one, so an empty slot is never followed by a full one.
* `ReadSoFar`: a letter that was passed was in a place where one is wanted.

### What was checked first

TLC checked the parts of the invariants as invariants of runs before they were proved:
`OperandInv` on the machines of `ring` and `values` (637968 and 545892 states), `CoreInv`
on six pipelines, (reorder buffer, issue queue, width) = (4,2,2), (2,2,2), (3,2,2), (3,2,1),
(4,1,2) and (1,2,2), with traces up to 4 on two registers (308221 states), `TimedInv` on
(3,2,1), (4,2,2), (2,2,2), (3,2,2) and (1,1,1), with traces up to 5 on one register (365337
states), `CacheInv` on the ten geometries of `caches` (53962 states), `PredInv` on those of
`predictors` with traces of 5 (10919 states), `ReaderInv` on all files of up to 9 tokens
(37619 states).

### What stays with TLC

Liveness under fairness and anything with ENABLED (`RenameStallEnds`, `LatchDrains`,
`SimulationEnds`, `EndsIfReadable` but for its safety half), which the provers cannot do.
Every invariant and every action property that a run checks, and every refinement, is also
a theorem.

## 7. Not modelled

Printing, command lines (the check of argc, `strtoul`, `fopen`), floating-point rates,
how `fscanf` splits a file into tokens; glue.cc, which forwards
calls; the 721sim library beyond its use of the renamer; test/queue.cc, which is
disabled by its own #ifdef; the PC, load, store and branch fields of an active list
entry, which the renamer only passes on; Project04.
