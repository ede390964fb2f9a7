# TLA+ models of cuTile Python

cuTile Python compiles Python functions to GPU kernels and launches them. This directory models
the parts of it where correctness depends on the order in which things happen: the verifier of
warp-specialised schedules (`src/experimental/task_scheduling`), the order of memory operations
the compiler fixes (`token_order.py`), concurrent launches of one kernel and the staging memory
they share with the GPU (`src/cext`), the table of data types threads share without a lock, the
disk cache that several compiling processes share (`src/src/cutile_cache`), and the autotuner with
its worker processes (`src/src/cuda/tile/tune`). TLC checks the models on small instances; TLAPS
proves the most important invariants for every instance. `PROJECT.json` maps each definition to the
lines it models and lists runs, mutants, findings, hazards and theorems.

## 1. Inventory

### Components, their state and their operations

**Task scheduling: schedule capture** (`schedule_builder.py`, `enums.py`). *State:* a stack of
open blocks, the tree captured so far, three flags. *Operations:* `open_scope`, `close_scope`,
`record_step`, `break_loop`, the end of `while_true_loop`, `finalize`; a block out of place raises
`ScheduleError`. *Correct when* what is accepted is what the later stages can interpret.

**Task scheduling: expansion** (`exhaustive_checker.py`). Flattens each captured schedule under
values of its opaque (runtime) conditions, and chooses which values to check: one assignment per
class that no guard can tell apart, and for a `while_true_loop()` histories of retry rounds that
end in a break. *Correct when* every execution has a representative that is checked.

**Task scheduling: barrier model and search** (`exhaustive_checker.py`). From flat schedules
`_build_model` derives ring stages, arrival counts and operand reads; `check_all_interleavings`
searches all interleavings breadth first. *State:* a cursor per task, full and empty barrier
(phase bit and arrivals) per ring stage, accesses held; queue, visited keys, limit, verdict.
*Correct when* "safe" means that no interleaving deadlocks or races.

**Staging memory** (`stream_buffer.cpp`, used by `tile_kernel.cpp`). *State:* per CUDA stream a
list of chunks, a free list, a capacity that grows; at most one open transaction (the global lock
is held); on the other side the GPU's pending copies, kernels and events. *Correct when* memory is
never reused while the GPU still reads it.

**Disk cache** (`_cache.py`, used by `_compile.py`). *State:* an SQLite file (rows with size and
access time), per process a connection and an operation in progress. *Operations:* lookup, store,
LRU eviction, paged listing, opening with removal of a damaged file. *Correct when* concurrent
operations do not disturb each other, eviction removes the right entries, requests end.

**Memory-token ordering** (`_passes/token_order.py`). The compiler gives every memory operation an
input token, the set of operations it waits for, and threads tokens through loops and branches.
*State:* a map from alias sets to tokens at every point of the program; in the model, their values
in a run. *Correct when* every conflict, acquire and release of the program keeps its order.

**Kernel dispatch** (`tile_kernel.cpp`, `launch_helper.h`) on an **open-addressing hash map**
(`hash_map.h`). *State:* a tree of argument types, per family of arguments a map from constants to
compiled kernels, launch helpers with a free list, and pointers into the maps that a launch holds
while Python code, and with it other launches, runs. *Operations:* classify, extract, look up,
compile, insert (the map may grow and move its items), finalize. *Correct when* one kernel is kept
for the constants of each family and every launch runs it.

**Table of derived data types** (`dtype.cpp`, `paged_table.h`, `atomics.h`). *State:* tables in
pages that are allocated at first use, a counter of types under a mutex, a counter of names moved
by compare and exchange. *Operations:* `pointer_dtype`, `foreign_pointer_dtype`, `dtype_name`.
*Correct when* a type has one number for all threads, and names exist below the counter.

**Autotuner: timed benchmarks** (`_tune_utils.py`, `_benchmark_worker.py`). *State:* the worker
process stored for the next benchmark, its connection, requests and answers under way, signals.
*Operations:* start, accept, send, receive, timeout, terminate, kill, exit. *Correct when* a
benchmark gets its own answer or an exception, ends, and leaves no process behind.

**Autotuner: search and selection** (`_tune.py`, `_autotune.py`). *State:* timings and sets of
candidates of a search in three phases; a cache of selections under a lock. *Correct when* every
configuration is reported once, the best have been timed long enough, a selection stays.

**Not modelled** (reasons in `PROJECT.json`): argument conversion, the JAX interface, the driver
loader, the compiler's front end, IR, other passes and bytecode, the tile mutex, the compiler
driver with the launch cache of `_backends/_custom.py`, CPU and MLIR back ends, the task manager's
code generation, the device side of pipelines, cuda-lang, tile_preview. Most of the repository's
lines are here: generated bindings, stubs, and sequential translations of one program text into
another, whose correctness is about the semantics of two languages and not about order.

### Interaction

```
@schedule function --capture--> tree --expansion--> flat ops --model--> search --> verdict
                                  (per assignment or history; first unsafe one stops)
launch --global lock--> dispatch --miss--> compile (lock released, other launches run) --> insert
launch --global lock--> transaction on stream_buffer --copy, kernel, event--> GPU (concurrent)
compile --tokens--> order of memory operations
compile --lookup / store / evict--> cache.db <--lookup / store / evict, list-- other processes
call --_select, lock--> search --benchmark (in the host, no timeout, may hang)
search --timed benchmark--> worker process (hangs, crashes, is killed)
threads --numbers and names--> data type table (no lock on the fast path)
```

### What is hard here

Interleavings of tasks, of host and GPU, of threads and of processes; barriers that keep a phase
bit and no count; a search that prunes by a key and stops at a limit; memory handed on by polling
events; pointers kept across a call into Python; memory published to threads that take no lock; a
timeout that races an answer, an interruption that leaves one on its way; lock timeouts, crashes
between statements, and a database file that is unlinked while others have it open; a paged
listing overtaken by updates; equivalence classes that must not lose a case; a token that must
find its way out of a loop through a break. Each is a hazard in `PROJECT.json`, at its line, with
the properties that would catch it, or a note why none does. Known and without a property: a
lookup that sets an access time back (`_cache.py:167`), an intact database that is unlinked after
a lock timeout (`_cache.py:65`), a kernel that hangs while it is autotuned (`_autotune.py:270`),
an autotuned object called from its own factory (`_autotune.py:140`), the `OSError` of an eviction
(`_cache.py:282`), a callable loop start (`exhaustive_checker.py:508`), the exit handler that ends
a worker in use (`_tune_utils.py:179`), two launches that miss in the launch cache of `_custom.py`
(`:320`).

## 2. Modules

| module | models | composed of |
|---|---|---|
| `BarrierModel` | `_build_model`, `_precompute_steps`: what is derived from a program before the search | |
| `PipelineSteps` | `_step_enabled`, `_arrive`, `_apply_step`: one step of one task; the models considered and what is assumed of them | `BarrierModel` |
| `PipelineMachine` | the transition system the search explores, one action per stage kind | `PipelineSteps` |
| `PipelineMachineProofs` | proofs about the machine and about the search | `PipelineMachine`, `CheckerReference` |
| `ExhaustiveChecker` | `check_all_interleavings`, one action per way an iteration of its loop can go | `PipelineSteps` |
| `VerifiedProgram` | `_run_check` with `_verify_all_interleavings`: the search, then the program it was about | `PipelineMachine`, `CheckerReference` |
| `CheckerReference` | what its verdict has to mean: all reachable states, computed level by level without queue, key or limit | `ExhaustiveChecker` |
| `SamplePrograms` | small programs in the shape of the package's tests | `BarrierModel` |
| `ScheduleBuilder` | capture: one action per builder operation | |
| `ScheduleExpansion` | `expand_task`, `opaque_assignment_sequences` over the captured tree | `ScheduleBuilder` |
| `StreamBufferPool` | `StreamBufferPool`, its transactions, and the GPU | |
| `StreamBufferPoolProofs` | proofs | `StreamBufferPool` |
| `CompilationCache` | processes on one cache database | |
| `CompilationCacheProofs` | proofs | `CompilationCache` |
| `TokenOrder` | `token_order_pass`, over the runs of a rewritten kernel | |
| `TokenOrderProofs` | proofs | `TokenOrder` |
| `HashMap` | `find`, `insert`, `rehash` with the addresses of items | |
| `KernelDispatch` | concurrent launches, from one call into Python to the next | `HashMap` |
| `KernelService` | abstract: one kernel per key, every launch runs it | refined by `KernelDispatch` |
| `KernelDispatchProofs` | proofs | `KernelDispatch`, `HashMap` |
| `DTypeTable` | numbering and naming of derived types, one shared access per step | |
| `InternTable` | abstract: one number per type, for every caller | refined by `DTypeTable` |
| `DTypeTableProofs` | proofs | `DTypeTable` |
| `TimedBenchmark` | `_TimedBenchmarkRunner` and its worker processes | |
| `BenchmarkService` | abstract: a task is answered with its own measurement or refused | refined by `TimedBenchmark` |
| `TimedBenchmarkProofs` | proofs | `TimedBenchmark` |
| `ExhaustiveSearch` | `exhaustive_search`, its three phases | |
| `Autotuned` | `_select` called by several threads | `ExhaustiveSearch` |
| `AutotunedProofs` | proofs | `Autotuned`, `ExhaustiveSearch` |
| `MC_*` | instances for TLC | the module of that name |

A definition whose comment begins "A mistake:" is a plausible bug. It is used by no specification;
substituted for the definition after it, it must make a property fail (`mutants` in
`PROJECT.json`), which shows that the property depends on the code being right.

**Correspondence.** Data the properties do not tell apart is abstracted: a resource, key or stream
is a model value or number, payloads do not exist, text output is left out. Control is kept:

* *Barrier machine.* `barriers[<<rid, slot>>]` is a pair of `_INITIAL_RECORD`s; `held` is the set
  of `HeldEntry`s, each with the index of the step that took it (`at`), which stands for its place
  in the code's list. `ProducerAcquire` ... `Passive` are the branches of `_apply_step`.
* *Search.* `SkipVisited`, `ExploreComplete`, `ExploreRaceExit`, `ExploreSuccessors` and
  `ExploreDeadlock` are the ways through one iteration of the loop, `Finish` is what follows it;
  `SearchSpec` is the whole. Machine and search share `model`, the model under exploration;
  `VerifiedProgram` lets the machine run when the search has returned.
* *Capture.* `stack` is the builder's stack. A block's node is appended to its parent when it
  closes rather than when it opens; nothing reads the parent in between. `status = "rejected"` is
  a `ScheduleError`, after which the capture is over.
* *Expansion.* `Emit` is the nested `emit`, with the local variable `count` in its result because
  the code overwrites it; errors raised by `emit_while` are in the result's `error`.
* *Staging memory.* `pool` has the fields of `StreamBufferPool`; `fresh`, `staged` and `launched`
  follow the transaction through `stage_list_args_on_stream` and `launch`; `gpu[s]` is what the
  stream has not completed. `size_t` has `Bits` bits and wraps.
* *Cache.* `files` are database files, `path` the one under the cache's name, so that a process
  can hold a connection to an unlinked file. The process that lists may be one of those that
  compile (it does one thing at a time); a listing that fails or is given up is forgotten
  (`Abandoned`). A process is between two SQL statements, or between a statement and its commit,
  in every state; `Crash` may happen in each. `Tick` is `time.time()`.

* *Token order.* A token is the set of executed operations it stands for; `tok` holds the values of
  the variables in the pass's `token_map` at the point the run has reached. A loop carries what
  `_get_block_memory_effects` says its body may change (`Carried`); a break, a continue and the end
  of a branch hand over the tokens the pass makes them yield.
* *Dispatch.* `pc` is the point at which a thread runs Python code, the only time another thread
  can launch. `item` is an address in a map; `insert` may move the items, and a launch that reads
  an address whose item has moved, or a profile that nothing keeps alive, ends as `Undefined`. The
  GPU side of a launch is
  `StreamBufferPool`.
* *Data types.* `mem` holds the elements that have been set, by table, page and offset, so that a
  wrong page computation would make elements collide. Loads whose outcome no other thread can change
  any more (a page that is there, an element behind a published number) are part of the step that
  follows. All shared accesses are acquire and release, so interleaving is exact for them; the
  build without a global interpreter lock is modelled, the other has fewer interleavings.
* *Timed benchmark.* `pc` is where the host is, under `_timed_benchmark_lock`; every wait of it
  can time out or be interrupted (a send that is interrupted has used up its task number), every
  worker can hang, answer, crash or die slowly. `inbox` and `outbox` are the two directions of a
  connection. `Collected` is the garbage collection of a connection that an interrupted start has
  left open.
* *Autotuned search.* `hung` is a benchmark that does not return; the thread in it keeps the lock.
* *Search.* A timing is a number of samples, a mean and a margin; a batch may bring any mean and
  margin of small sets. The heaps are sets from which the least is taken.

Where several invariants of a module are about one thing they are checked as one conjunction of
named parts (`DispatchInv`, `TableInv`, `RunnerInv`, ...), which includes the module's `TypeOK`.

## 3. Runs

| run | instance | distinct states |
|---|---|---|
| `verified_program` | 13 programs (safe, deadlocking, racing, two accumulators; up to three tasks and four ring uses) x limits x early exit x visited key | 11,815 |
| `default_key` | two accumulators, the default key; a violation, section 6 | |
| `stream_buffer` | two streams, two chunks, sizes below, at and above the ratio and near 2^Bits, three queued operations | 636,160 |
| `cache` | two compilers, one of which also lists; two keys, two files, clock 0..1, batch of one | 633,994 |
| `schedule` | all schedules of up to five nodes over five guards, tiles skipped and not | 1,267,206 |
| `token_order` | 16,384 kernels: four shapes of control flow filled with eight operations, two iterations | 589,824 |
| `token_alias` | loops of weak loads and stores only; a violation, section 6 | |
| `dispatch` | two threads, two argument shapes, three keys that collide in four and in eight buckets | 291,337 |
| `dispatch_race` | the same; a violation, section 6 | |
| `dtype_table` | two threads, three requests, any number of names, pages of 1, 1, 2 elements | 122,860 |
| `timed_benchmark` | three tasks, two worker processes | 319,041 |
| `autotune` | two threads, four configurations, best two, up to five samples | 1,521,943 |

**verified_program.** *The search*, compared with the set of all reachable states:
`SafeMeansEveryInterleaving` (even when the limit cut the search short), `WitnessesAreReal`,
`NothingMissedWithoutEarlyExit`, `SearchInv` (bookkeeping, and `CursorsDetermineState`: explored
states with the same cursors have the same barriers and, with one accumulator, the same holds).
What the three say of deadlocks they say of every program and key; what they say of races they say
where `KeyIsExact`, under the full key or with one accumulator. The limits include values just
below, at and above the number of states of some of the programs. *The run of the program* that
follows: `BarriersFollowCursors`, `AccessInv` (`HeldFollowsCursors`, `StageExclusive`): barriers and
held accesses, which the code maintains incrementally, equal what the executed prefixes alone
determine (`BarriersOf`, `HeldOf`); this is the argument the code gives for keying visited states
by cursors. The code accepts a task that commits two completion resources for the same operands;
there the held accesses depend on more than the cursors, so `AccessInv` says of such models only
that what is held is what the cursors allow at most, and equality of the others (`OneAccumulator`
is the hypothesis, inside the property). `StageExclusive`: the race check skips the resource being
stepped on, and the barriers alone keep its writer and readers apart. `EnabledPersists`: no arrival
disables a wait that has been satisfied (a phase bit cannot tell two flips from none).
`SafeProgramsComplete` joins the two: the search returns, and a program it calls safe runs to its
end in every interleaving.

**default_key.** `DefaultKeyIsExact`: under the default key, without the condition `KeyIsExact`, a
safe verdict means that nothing races. Violated by the program with two accumulators; see section 6.

**stream_buffer.** `PendingWorkKeepsItsChunks`: a chunk that pending work uses stays in its
stream's list, whatever reclaiming, growth and failing launches do. `FreshRegionsAreIdle`: what
the host is about to fill overlaps nothing the GPU still reads. `PlacementInv`: a chunk is in one
place, and a free one has the current capacity (so the `CHECK` in `allocate_chunk` cannot fail).
`NewChunkOnlyWhenBusy` (memory is requested only when no completed chunk would do).

**cache.** `CommitsAreConfined`: a lookup never resurrects an entry evicted after it was read, a store
adds its own entry only, an eviction only removes. `EvictsOldestFirst`, `EvictsWhatItMust`: over any
number of DELETE rounds an eviction takes the oldest, nothing while the cache is within the limit,
and leaves entries that would be below the limit without the oldest of them. `ListingInv`
(`ListingInOrder`, `ListingSkipsNothing`): the cursor loses no entry that stayed as it was, although
every batch reads the table anew. `EveryRequestEnds`: through timeouts, damaged files, unlinking and
re-creation; a listing is a request too.

**schedule.** `EveryExecutionIsRepresented`: for every assignment (or history) of the opaque
conditions some checked one makes all tasks perform the same operations.
`HistoriesEndWithTheirBreak`: the exit formula, computed from the tree, agrees with running the
body. `ExpansionInv` has two parts. `LoopsLeaveNothingBehind`: `emit` leaves the trip count of a
finished loop in `count`; the capture rules keep later guards from seeing it.
`UnknownLoopsAreExplored`: a loop with an unknown end has at least one iteration.

**token_order.** `TokenInv` (`ConflictsOrdered`): two operations that may touch the same memory, one
of them writing, stay in program order through every nesting of loops, branches, breaks and
continues. `AcquireOrdered`, `ReleaseOrdered`: what `MemoryOrder` promises, also for an acquire of an
earlier iteration or of a branch. `ParallelStoresIndependent`: a parallelised store is really
parallel, so the other properties do not hold because everything is ordered.

**dispatch.** `ImplementsService` is the refinement to `KernelService`: racing compilations keep one
kernel per key, and a launch runs the one that is kept. `DispatchInv`: the map answers lookups
exactly whatever was inserted in whatever order (`TablesAreExact`), and the constants a launch
extracted are still in its helper after other launches have run (`HelpersAreOwn`). A launch that
has read freed memory (`Undefined`) is promised nothing by `KernelService`.

**dispatch_race.** `NoLaunchReadsFreedMemory`: there is no such launch. Violated; see section 6.

**dtype_table.** `ImplementsInternTable` is the refinement to `InternTable`. `TableInv`: a number a
thread can see leads back to its type (`NumbersDescribeTheirTypes`), all names below the counter
exist and are right, also when a thread ran out of memory half way (`NamesAreComplete`), and no
`CHECK` fails (`NoCheckFails`). `EveryCallReturns`: no thread is kept in the loop over names.

**timed_benchmark.** `ImplementsBenchmarkService` is the refinement to `BenchmarkService`: no answer
is taken for another task's, although an interrupted benchmark leaves its worker, and an answer,
behind. `RunnerInv` (`ErrorsDropTheWorker`): after an error the next benchmark starts afresh.
`EveryRunEnds`, `StrayWorkersGoAway`: with kernels that hang for ever. `EveryRunEnds` excepts a
host that is blocked in a send (`SendBlocked`, section 6).

**autotune.** `AutotuneInv`: every configuration is a result or a failure, once, although a
benchmark may fail in any phase (`EveryConfigReportedOnce`); the best have converged
(`TopKHaveConverged`). `SelectionIsKept`. `EveryCallReturns`: unless a benchmark hangs, since
`_autotune.py` gives its search no timeout and keeps the lock.

### Bounds and why they are enough

*Programs:* one ring stage and two, one and several producers and consumers, a wait ahead of its
release, and wrap-around of every ring: a phase bit repeats after two rounds, and rings are used
up to four times. *Chunks and streams:* two of each give a chunk that is free, one in use, one
that moves between streams, and growth with an old chunk still busy; the proofs remove the bound.
*Cache:* two processes are every pair of operations; two files allow the file to be replaced under
a process once; two keys and a batch of one make a second batch and a tie of time stamps across
the boundary, and a first DELETE that removes all it could and calls for another. The proofs have
any number of keys, rows and rounds. `MaxClock`, `MaxFiles` are ends of the world: at them time
stands still or no file can be created, which the code sees as an error it handles. *Schedules:*
five nodes nest a guarded break in a guarded block in a loop in the tile loop; guards depend on a
condition, on the iteration, and on both; loops have one and three iterations, while loops one and
two rounds. The body of a tile loop is expanded both ways, with the tile skipped and not
(`Skips`).

*Kernels:* the four shapes have each construct the pass treats differently, alone and around each
other once; two iterations are an earlier and a later one. *Dispatch:* two threads are every pair of
launches; the third key makes the map grow, and the hashes make probes collide and wrap around
before and after. *Data types:* three requests are a race for one type, a pointer to a pointer, and
a page shared by two names. *Benchmarks:* one interrupted, one that meets what it left, one after
that; two workers are one in use and one given up. *Search:* phase 2 begins with as many candidates
as are wanted or more; a limit on samples that is no multiple of a batch.

`CHECK_DEADLOCK FALSE` is used where the system may stop: `schedule` (a capture ends),
`token_order` and `token_alias` (a kernel ends), `timed_benchmark` (the host
exits) and `autotune` (the threads have made their calls, or wait for one whose benchmark hangs).

### Fairness

`VerifiedProgram!VerifiedSpec`: the search goes on, and after it some enabled task steps (warp
groups keep running); used for `SafeProgramsComplete`. `DTypeTable!Spec`: a thread in a call goes
on. Weak fairness is enough for the mutex since requests are bounded; with endless requests
`PyMutex`, which hands itself over to a thread that has waited long, would be needed.
`TimedBenchmark!Spec`: the host's own steps, a worker that reads or finds its connection closed,
and the end of a process that was killed or is exiting, and the collection of a connection nothing
refers to any more (`Collected`; the program drops the exceptions it catches); nothing for
kernels, crashes or interruptions. That `SIGTERM` ends a process it is sent to is part of this.
`Autotuned!Spec`: a search goes on as long as its benchmark has not hung, and the thread that is
next gets the lock; any benchmark may hang (`_autotune.py:270` and `:403` pass `benchmark_fn`,
which excludes a timeout, `_tune.py:261`), and errors are not forced. `CompilationCache!Spec`:
weak fairness of each process's own steps, and nothing for crashes, damage, ticks or new requests.
Waiting for a lock ends because the code sets a timeout of 5 s: a process that finds the file
locked may give up, and SQLite's busy handler sees to it that it eventually does. Weak fairness
suffices since giving up stays possible as long as the lock is held.

## 4. Proofs

All proofs are checked by TLAPS with SMT (Z3), Zenon and LS4; 15,189 obligations in eight modules.
Each theorem holds for every value of the constants that satisfies the named assumptions, which
TLC evaluates on the instances. Every inductive invariant was checked by TLC on the instance of
the module's run before it was proved.

| theorem | states |
|---|---|
| `PipelineMachineProofs!TypeCorrect`, `BarriersAreCursorFunctions`, `AccessFollowsCursors`, `EnabledStepsPersist` | of the machine: `[]TypeOK`, `[]BarriersFollowCursors`, `[]AccessInv`, `EnabledPersists` |
| `PipelineMachineProofs!SearchIsConsistent`, `SafeVerdictsAreSound`, `VerdictsHaveWitnesses`, `FullSearchMissesNothing` | of the search: `[]SearchInv`, `[]SafeMeansEveryInterleaving`, `[]WitnessesAreReal`, `[]NothingMissedWithoutEarlyExit` |
| `StreamBufferPoolProofs!PoolTypeCorrect`, `PendingWorkIsSafe`, `HostWritesAreSafe`, `ChunksAreWellPlaced`, `ReclaimIsComplete` | `[]TypeOK`, `[]PendingWorkKeepsItsChunks`, `[]FreshRegionsAreIdle`, `[]PlacementInv`, `NewChunkOnlyWhenBusy` |
| `CompilationCacheProofs!ListingIsRight`, `CommitsConfined`, `EvictionIsLRU`, `EvictionGoesFarEnough` | `[]ListingInv`, `CommitsAreConfined`, `EvictsOldestFirst`, `EvictsWhatItMust` |
| `TokenOrderProofs!ConflictsAreOrdered`, `AcquiresAreOrdered`, `ReleasesAreOrdered`, `ParallelStoresDoNotWait` | `[]TokenInv`, `[]AcquireOrdered`, `[]ReleaseOrdered`, `[]ParallelStoresIndependent` |
| `KernelDispatchProofs!DispatchIsConsistent`, `DispatchServes` | `[]DispatchInv`, the refinement of `KernelService` |
| `DTypeTableProofs!TableIsConsistent`, `TableInterns` | `[]TableInv`, the refinement of `InternTable` |
| `TimedBenchmarkProofs!RunnerIsRight`, `RunnerServes` | `[]RunnerInv`, the refinement of `BenchmarkService` |
| `AutotunedProofs!SearchIsSound`, `ConfigurationIsKept` | `[]AutotuneInv`, `SelectionIsKept` |

**`PipelineMachineProofs`.** *Assumptions on the models* (in `PipelineSteps`, of programs of any
size): `ModelsAssumption`, models are well formed, as `_build_model` makes them;
`ProtocolAssumption`, slots, phases and generations are those `_precompute_steps` assigns
(`Precomputed`), a commit closes an open acquire and a release an open wait, and each side of a
ring has at most as many tasks as its barrier expects (`Bracketed`). `TypeCorrect` and
`BarriersAreCursorFunctions` need the first only. That no operand read is covered by the commits of
two resources (`OneAccumulator`) is not assumed, since the code accepts other programs. Where the
held accesses have to follow from the cursors it is a hypothesis in the property, and everything
else is proved without it: barriers, exclusive ring stages, lasting enabledness, and all that the
search says of deadlocks, with either key; races too, under the full key.
`_verify_bracketing` (`task_manager.py:378-427`) checks the bracketing, and `_build_model` counts
the participants, on captured schedules; the theorems assume it of the expanded ones, so a guard
that drops an acquire and keeps its commit is outside their reach. A guard that drops operations
in pairs, or makes a program deadlock, is within it.

*Machine.* In every interleaving the phase and arrival count of each barrier are the quotient and
the remainder of the number of arrivals executed (`SuccDivMod`, `ArriveCounts`, `CountStep`). The
other properties are not inductive: a barrier keeps a bit, and what a wait has seen says nothing
unless the rounds that produced the bit are known. The invariant `InLockstep` supplies them. A ring
stage has been emptied e and filled f times, e <= f <= e + 1; its producers have committed f or
f + 1 rounds and acquired at most e + 1, its consumers have released e or e + 1 and waited for at
most f; the barriers count who is a round ahead. A phase then stands for one round
(`NextRound`), so a satisfied wait stays satisfied (`EnabledStays`), and writer and readers of
a stage exclude each other (`Exclusive`). `HeldOf` says which accesses are open from the
prefixes alone; with two accumulators a wait may have ended some of the reads in it, so the
invariant is about `HeldBut`: `HeldOf` less a set of completed reads, which with one accumulator is
all of them. Each branch of `_apply_step` has a lemma that its update of the list gives `HeldBut` of
the new cursors, which depends on there being one entry to remove (`OneToClose`) and on the tags
naming commits (`TagAfter`). `RingCompare` is the
arithmetic under it all: counts on a ring and counts on one of its stages compare alike.

*Search.* `Sound` states are those the machine can be in. Their cursors determine the barriers, and
with one accumulator the whole state (`CursorsDetermine`), so where `KeyIsExact` the visited key
stands for it. Steps and whether they are enabled depend on cursors and barriers alone, so what
the search says of deadlocks is argued with states up to their holds. The invariant `SearchIInv` adds:
the queue is ordered by depth and spans at most two levels (`LevelOrdered`); the start and all
successors of explored states are explored or queued (`Covered`); what has been recorded is exactly
what the explored states show. When the queue is empty the explored states are closed under steps,
hence all (`Closure`). A complete state lies on the last level, so when it is taken from the queue
every other state has been explored, which is why a safe verdict needs no full search
(`LevelsExplored`). An unsafe verdict below the limit has a witness since without a deadlock
some interleaving completes (`SomeComplete`). `Reachable` is a recursive function of the level;
its unfolding (`LevelsExist`) and the closure arguments are inductions by least counterexample
(`LeastNat`).

**`StreamBufferPoolProofs`** (assuming `PoolAssumption`: positive alignment, capacity, ratio and
width). `PoolInvariant` is `Spec => []IInv`. That reclaiming a chunk is safe depends on its event
standing behind all work that uses it in the stream's queue; that holds only from the close of the
transaction on, before which the transaction head protects the chunk; and a chunk's carved regions
lie below what is still available. `IInv` says these things together. The proof has a lemma per
operation on the pool (`ReclaimKeepsInv`, `GrowKeepsInv`, `LinkKeepsInv`, `CarveKeepsInv`,
`CloseKeepsInv`, `WorkKeepsInv`, `GpuStepKeepsInv`, `OpenKeepsInv`) and composes them per action.
That `poll_events` may stop at the first chunk of a list whose event is pending
(`ReclaimIsComplete`) needs a second invariant, `EventsInOrder`: while the event of a chunk is
pending, so is a later one of each chunk behind it, unless the open transaction still has to
record it. Events are recorded again for a chunk that is used again, so the order is one of
positions in the queue rather than one event per chunk.

**`CompilationCacheProofs`** (assuming `CacheAssumption`: finitely many keys with positive sizes,
positive batch sizes). A commit is judged by what the file held when it commits, so the invariant
keeps, for each open transaction, what it has done so far to a file nobody else can write
(`TxnInv`, `OneWriter`): its rows are confined to its operation, an eviction has taken the oldest
so far and not too many, and one that is ready to commit has taken enough. `EvictableCorrect`
shows that the rows one `DELETE` takes are a run of the oldest; `BytesSplit` and the lemmas before
it are what the sum of sizes needs, from its recursive function. For listings the invariant adds
that the cursor is the last row listed and that watched rows are still there (`CursorInv`); the
step that reads a batch (`PageKeepsListing`) is where the keyset condition in the query is used.

**`TokenOrderProofs`** (assuming `TokenOrderAssumption`: finitely many alias groups, and
`KernelsAssumption`: blocks nest, a `break` is in a loop, a fence has every alias bit and no
memory order, a store cannot acquire, as `TileStore.VALID_MEMORY_ORDERS` says). The theorems hold
for kernels of any length and nesting. The invariant says that the tokens stand for every
operation executed (`Covered`), that the frames are the blocks around the program point, and that
a token the effects of a block do not name is the one from before the block (`Unaffected`). The
last part makes the key lemma `CarriedIsCurrent` true: what a loop or branch carries out, by
`_get_block_memory_effects`, together with what it leaves alone, is the current tokens. For
parallel stores the invariant relates what was executed since a loop was entered to the activation
of the loop (`Since`).

**`KernelDispatchProofs`** (assuming `HashMapAssumption`, `DispatchAssumption`: finitely many
threads and keys, any hash function, and a kernel is known by its constants and the thread that
compiled it). A map is good when lookups are exact and it has been through no more arrays than it
has items; then there is always a free bucket, so a probe ends (`ProbeReaches`, `LookupEnds`), an
insertion keeps every other key where a probe finds it (`PutKeepsPlaces`), and a rehash keeps all
of them (`RehashedFacts`). Helpers are owned by one launch or free. The refinement maps the first
kernel found for a key to the one the service keeps.

**`DTypeTableProofs`** (assuming `DTypeAssumption`). Pages of doubling sizes do not overlap
(`CellInjective`, from `FloorLog2Correct`), so elements never collide. The invariant adds what a
thread may rely on at each of its places (`ThreadInv`), that slots and elements agree (`SlotInv`,
`ElementInv`), that a name was made from a name that stays (`NameInv`), and that each type was
created by a request of its own (`CountInv`), which keeps the numbers within the bound on
requests.

**`TimedBenchmarkProofs`** (assuming `BenchmarkAssumption`). The invariant adds to `RunnerInv`
which worker is stored at each wait of the host, what it will raise afterwards, and that there is
a number for the task in progress. The refinement shows that a measurement is returned for the
task it was made for.

**`AutotunedProofs`** (assuming `SearchAssumption`, `AutotunedAssumption`: at least one
configuration and key, `_MIN_REPEATS` at most `_MAX_REPEATS`). The invariant adds that candidates
given up by phase 2 are no better than the cutoff, and that at least `TopK` converged candidates
are as good as the cutoff (`CutoffInv`, from `CutoffCorrect`: what the k-th smallest mean is); and
that the key of the thread that tunes has no configuration (`LockInv`).

*Powers of two.* No installed prover knows `^`, and what a recursive definition computes cannot be
proved by induction here. `DTypeTable` and `HashMap` therefore state the defining equations of
`2^k`, for the exponents that can occur, as `ASSUME PowersOfTwo`, which TLC evaluates; they are
true of every value of the constants.

**Only model-checked:**

* liveness: `SafeProgramsComplete`, `EveryRequestEnds`, `EveryRunEnds`, `StrayWorkersGoAway`,
  `EveryCallReturns` (fairness and `ENABLED` are out of the prover's reach);
* `ScheduleExpansion` over `ScheduleBuilder`: `ExpansionInv`, `EveryExecutionIsRepresented`,
  `HistoriesEndWithTheirBreak`. `Emit` and the exit formulas are recursive operators over trees, and
  what they compute for every tree would need induction over data;
* the properties of section 6, which are false.

## 5. Left out of the modelled parts

Values routed between steps and their scopes, resolution of guards from work-method outputs, and
carried values of loops (capture); more than one task with a while loop, bounds given as
callables, negative loop steps (expansion); verbose reports (search); recycling of `StreamBuffer`
objects and a failing `cuEventRecord`, which aborts the process (staging); metadata columns, their
migration, and the hash of the key (cache); the dataflow analysis that finds alias sets, and the
test for an injective index (token order); host programs and constness annotations (dispatch);
`dtype_to_pyobject`, which caches one object per type the way a name is cached, and the overflow
check of the counter (data types); the export of a payload and the benchmark in the host (timed
benchmark); `best_config`, injectors and key construction (autotuner). SQLite, the CUDA driver and
the GPU are external and modelled from their use.

## 6. Findings

Each of these is a run whose property, taken from the text quoted in `PROJECT.json`, is violated.

* `default_key` (`exhaustive_checker.py:1174`): a completion wait ends every read whose tag is its own
  generation, and the tag is the generation of a commit, whichever resource that was made on. With
  two accumulators in one task a wait on the first also ends reads only a commit of the second
  covers, contrary to `:828-831`. The held accesses then depend on the order of that wait and that
  commit, so the cursors do not determine them, contrary to the docstring at `:1242-1247`, and with
  the default key the search calls a program safe in which a write races with an operand read.
  Nothing refuses such a schedule.
* `token_alias` (`token_order.py:597`): a store that is taken out of its loop's token chain waits for
  the operations before the loop on exactly its own alias set, and not for those on an overlapping
  one, as every other store does. With a store to an array in the groups {a, b} before a loop whose
  only operation is a store to an array in the group {a}, the stores of the loop do not wait for it.
* `dispatch_race` (`tile_kernel.cpp:3899`): of two launches that classify the same new argument
  types at the same time, the second to insert goes on with a profile that has been freed with the
  function's last reference to it. `test_concurrent_launch.py` demands that concurrent launches
  succeed. The same window is open at `:3976` (the item found before `compile()`) and `:4002` (the
  item after a finalizer has run Python), the first for launches that capture the kernel image.

Other disagreements met while modelling, described here and kept out of the runs, whose properties
are stated so that they hold beside them:

* `_cache.py:276`: an eviction stops before the entry that would bring the cache to the limit or
  below, so it may stay above `CUDA_TILE_CACHE_SIZE`, which `docs/source/debugging.rst:62-64` calls
  the maximum size, by less than one entry. `EvictsWhatItMust` bounds what is left and does not say
  that it is within the limit: with a limit of 2 bytes and an entry of 2 older than one of 1, nothing
  is evicted.
* `_tune_utils.py:53`: the timeout, called enforced in `_tune.py:161-162`, does not cover `conn.send`;
  a worker that still runs an interrupted, hanging kernel stops a host whose request exceeds the
  connection's buffer (`SendBlocked`, the exception in `TimedBenchmark!EveryRunEnds`).
* `_autotune.py:270`, `:403`: a benchmark runs under the lock and without a timeout; a kernel that
  hangs keeps every later call of the autotuned object waiting (`Hangs`, the exception in
  `Autotuned!EveryCallReturns`).
* `exhaustive_checker.py:1379`: `hit_state_limit` is set although every reachable state was explored,
  when the queue holds only duplicates.
* `exhaustive_checker.py:435`: `verify_num_fires` counts a round in which the guards hold but an
  earlier `break_loop()` keeps the block from running.
* `_cache.py:65`: a lock timeout is taken for corruption and the intact database is unlinked.
* `_memory_model.py:46-49` says that prior reads and writes are not reordered after a release; a
  parallelised release store (`token_order.py:579-621`) waits for its own alias set only
  (`ReleaseOrdered` excepts it).

## 7. Plan

Done: the barrier machine and search first (the core of the verifier, and what its users rely
on), then staging memory, disk cache, capture and expansion; then token order, dispatch with its
hash map, data types, timed benchmarks, search and selection, with three abstract specifications;
proofs of the safety properties of all of these except capture and expansion, and of the three
refinements. Next, in this order:

1. `_verify_bracketing` and the task manager's lowering of guards and loops, compared with
   `ScheduleExpansion`, which would turn `ProtocolAssumption` into a result about captured
   schedules; several tasks with while loops; callable bounds.
2. The launch cache of `_backends/_custom.py`, whose two looks around a compilation follow the
   pattern of `DTypeTable`, over `CompilationCache`.
3. Refinement: `CompilationCache` implements an atomic cache per commit.
