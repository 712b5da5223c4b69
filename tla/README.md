# Verification of numba-cuda-mlir

TLA+ models of numba-cuda-mlir from `kernel[grid, block](args)` to the calls of
the CUDA driver. Three kinds of code are hard to test there:

- the machinery around the compiler: one dispatcher object per kernel, used by
  several threads, with caches on four levels that `recompile()`, literal requests
  and changes of extensions invalidate while compilations are in flight, and files
  shared with other processes;
- what owns resources of the driver: memory whose finalizers run in any thread at
  any time, the stack of contexts of each thread, the native launcher that calls
  back into Python while it holds references into its tables;
- the graph algorithms the compiler relies on: dominators, loops, SSA
  reconstruction and the lifetimes of variables, whose results depend on the
  iteration order of sets.

Typing, lowering and optimisation are translations from one program text to another
and are not modelled.

Paths below are relative to the repository; `descriptor.py` and `caching.py`
without a directory are in `src/numba_cuda_mlir/`, `core/...` and `cudadrv/...` are
in `src/numba_cuda_mlir/numba_cuda/`, `kernel.cpp` is `cext/launcher/kernel.cpp`.

## The system

| Part | State | Operations | Hard behaviour | What makes it correct |
|---|---|---|---|---|
| Dispatcher state (`MLIRDispatcher`) | generation, generic native dispatcher `_c`, LRU registry of launch-keyed native dispatchers, launch-keyed overloads, literal positions, `_requires_launch_config` | look up, insert and evict a native dispatcher, invalidate everything | call sites all over the class under one lock, values built outside it | a registered dispatcher is always of the current generation and has the current literal flags; all that is made for one launch key shares one dispatcher |
| `configure()` | LRU cache of marshallers, in-flight table of events | hit, wait, build, publish, retry, give up; `cache_clear()` | single flight with invalidation: an owner can be overtaken or fail, waiters have no timeout | nothing stale is cached, nobody is stranded, one live builder per key, callers see a memo table |
| Launch and compile (`_ArgMarshaller`, `_prepare_for_launch`, `_compile_impl`, `recompile`) | binding of each marshaller, generic overloads, locals of each launch, two locks | check the binding, compile, rebind, call the native launcher, recompile | with the GIL launches and `recompile()` interleave anywhere; shared marshallers are rebound field by field; three reasons to start a compilation again | a launch runs code for its own configuration and literals, not older than the last `recompile()`, and fails only for a reason |
| Native launcher (`cext/launcher`) | argument profiles, kernel families, kernels by constants, free list of helpers with their record copies | classify, extract, switch context, find, compile, emplace, run the post-load callback, launch | Python code runs between find and insert, and between insert and the end of the setup callbacks; helpers are reused | a kernel runs where its arrays are; each callback once and in order; one owner for each copy; whatever fails, the context stack is what it was |
| Disk cache (`core/caching.py`, `caching.py`) | one index file and numbered data files per kernel, a source stamp per process | load, save, flush | processes without a lock, a crash between two writes, an edited source | what is loaded was compiled for these types from this source; what was saved is found |
| Memory (`cudadrv/driver.py`) | allocations, reference counts, the queue of pending deallocations, a count of deferrals | allocate (and retry), view, drop, finalise, add, clear, defer, reset | finalizers at any point of any thread; two threads flush one queue; destructors fail; reset under all that | what is held is live; every block is freed once or still can be; the queue is flushed when it must and only when it may |
| Contexts (`cudadrv/devices.py`) | stack of each thread, prepared contexts, cached active context | select, enter, exit, ensure, reset, close | failures between push and prepare, caches over the driver's state | each thread's stack is what it pushed; the context used is the one the driver has |
| NRT (`memory_management/rtsys.py`) | module and statistics per context | load lazily, close with the context | reset while handles are in use | no handle outlives its context |
| Planner registry | list of planner classes | register, apply | held while modules are imported | no deadlock with import locks |
| CFG, SSA, lifetimes (`core/controlflow.py`, `core/ssa.py`, `core/analysis.py`, `core/postproc.py`) | graph, results cached when first asked for; definitions and phi nodes; live and dead maps | search, sweep, find definitions, strip phi nodes, insert Dels | results depend on the order of sets; several roots, unreachable and endless parts | equal to their textbook definitions; a read finds its value, and finds it undeleted |
| Type conversion (`typeconv/`) | graph of casts and the table kept from it | insert a rule, propagate, select an overload | the table is written through callbacks | equal to the closure of the rules |

How they interact: `configure()` fills a marshaller with a native dispatcher
taken from the dispatcher state; a launch compares the marshaller's binding with
that state, compiles (under `global_compiler_lock`) if it must, consults the
disk cache inside the compilation and hands the result to the native launcher,
which may call back into `_compile`. `recompile()` flushes the disk cache, clears
the overloads, the registry and the configure cache, and advances the
generation. In a free-threaded build (`_PY_GIL_DISABLED`) every launch and every
`recompile()` holds the dispatcher's `_launch_lock`; in a build with the GIL there
is no such lock. The native launcher asks the contexts for one that is current, runs a
module's callbacks, and leaves references to them with the context, which drops them
when it is reset. The memory manager of a context and its queue are used by every
thread that lets go of an array. Within a compilation, the graph of a function is
built anew by each pass and its analyses are computed when first asked for.

`PROJECT.json` lists every component with its status and every hazard with its
line.

## The modules

```
DispatcherRegistry          what _launch_config_lock protects
  ConfigureCache            configure(), thread by thread      --implements--> MemoisedConfigure
  KernelLaunch              launches, compilation, recompile()
KernelDiskCache             processes that share the files of one kernel
CudaContexts                the context stack of each thread
  NativeLauncher            launch() of one native dispatcher, module callbacks
DeviceMemory                memory of one context, the queue of pending deallocations
ControlFlow                 CFGraph, step by step
  SsaReconstruction         SSA form of one variable, run along every path
  VariableLifetimes         Dels of one variable, run along every path
    FunctionAnalyses        the graph with both users

DispatcherRegistryProofs    lemmas on the registry's operators
  ConfigureCacheProofs      configure(), and that it implements MemoisedConfigure
  KernelLaunchProofs        launches
DeviceMemoryProofs, NativeLauncherProofs, KernelDiskCacheProofs
ControlFlowProofs           the analyses of a graph
  FunctionAnalysesProofs    SSA form and lifetimes
```

**DispatcherRegistry** holds the variables of the dispatcher and one operator per
section of code that holds `_launch_config_lock` and changes them:
`TouchDispatcher`, `InsertDispatcher` (with its eviction, which drops the
overloads of the evicted configuration and retains the old dispatcher) and
`AdvanceGeneration`. It has no processes. A native dispatcher is its identity, the
literal flags it was built with and the generation its builder saw; the last is a
history field no guard reads. The `OrderedDict` of the code is a function with the
sequence of its keys; every operator changes both together, and that they agree
(`RegistryInv`) is a lemma of the proofs, not a claim about the code.

**ConfigureCache** has one action per atomic section of `configure()`,
`_configure_cached` and the functions they call. What the code reads without the
lock is an action of its own (`ConstructDispatcher` reads the literal positions,
`ReadGeneric` and `Recheck` read the extensions a second time). A cache key says
whether launch metadata was in use when the call began, and for which
configuration. `Recompile`, `RecordLiterals`, `CacheClear`,
`MarkRequiresLaunchConfig` and `ChangeExtensions` come from other threads at any
moment. An event is a member of `Events`, reused when nobody holds it.

**MemoisedConfigure** is what a caller may rely on: a call answers with the
remembered marshaller, or remembers and answers with a new one of the current
generation; entries may be forgotten at any time and are never replaced. Under
the refinement mapping a marshaller is its generation and its builder, and a
thread wants a key until its call ends.

**KernelLaunch** follows one launch through `__call__`, `_launch`,
`_get_ready_launch`, `_prepare_for_launch`, `_compile_impl` and the native
`launch()`/`compile()`, with labels named for what the thread does next. A
kernel's globals are a version number, `world`; a result remembers the version it
was compiled from, and `recompile()` raises `floor` to the present one when it
returns. `ClearOverloads` and `FinishRecompile` are the two halves of
`recompile()`, between which launches run if the build has the GIL. `configure()`
is a single step here. Argument types are reduced to the positions that may be
literal; `NeedsLiteral` and `NeedsLaunch` say what typing and planners will ask
for; a planner that asks for launch metadata is registered before the first
launch, as `register_planner` demands, any other one may be registered at any time.

**KernelDiskCache** has one action per file operation of `save()` and `load()`:
reading the index, reading the data, replacing the index, replacing the data. A
file is replaced at once, as `os.replace` does. A process can exit, be killed
between any two steps, or fail to write; the source can be edited, and a process
imports the code and stamps its cache in two steps. A compilation is one step
whose result is named by its key, the version of the source and whether it needs
a cooperative launch. Within a process one operation runs at a time, which
`global_compiler_lock` (`descriptor.py:2947`, `2773`) ensures, except
`recompile()`, which does not take that lock and may come between any two steps.
The history variable `disturbed` becomes true when a save overlaps another
operation on the files, when a process ends between the two writes of a save, or
when the source changes between import and stamp.

**CudaContexts** is the stack of contexts that the driver keeps for each thread, and
the operations of `devices.py` on it: `SelectDevice`, `EnterBlock` and `ExitBlock`
(`with gpus[d]`), and `WithContext`/`Prepare` for whoever needs a current context.
`prepare_for_use()` may fail after the push. A context is named by its device. Two
history variables say what a thread has pushed for good and whether a block of its
failed to start, so that `Balanced` can compare the stack with what it should be.

**NativeLauncher** extends it with `launch()` in `kernel.cpp`: `Begin` (helper from the
free list, lookup of the argument types, classification), `Classified`, `Extract`,
`Ensure` or `Switch` (of contexts) with the lookup of the kernel, `Compiled` or
`CompileFails`, `SetUp` or `SetupFails` (the post-load callback), and whatever ends a
launch gives the helper back and unwinds the context guard. The interpreter has a GIL,
and an action is the code between two calls of Python. Whether classifying a type runs
Python code is a constant of the instance, since the code decides it by type. A family
has one kernel here; how constants select among several is in `KernelLaunch`.
Addresses of record copies are given out again once freed, so that a copy freed
twice or used after its end would show.

**DeviceMemory** has the default memory manager of one context. A block is an address
with the way it is allocated. `Allocate`, `Attempt`, `OutOfMemory`, `AllocationFails`,
`Register` and `Own` are the steps of `memalloc` and its siblings; `View` and `Drop`
change the reference count; `Finalize` is a finalizer's `core()`; `AddItem`, `ReadSize`
and `CheckLimits` are `add_item()`, `Clear`, `Loop`, `PopLeft`, `Destroy` and
`DestroyFails` are `clear()`; `Reset`, `ResetFinalizes` and `ResetFlushes` are `reset()`.
A thread can be switched at a call or at the end of a loop's body, not between. The
steps of `self._size += int(size)` are two, since `int()` is called after `_size` was
read. A finalizer run by the garbage collector in the middle of another function is, to
the shared state, another thread that runs it.

**ControlFlow** computes the analyses of `CFGraph` by steps: `Process` drops dead blocks,
`Visit` and `Leave` are a depth-first search that takes successors in any order, `Sweep`
gives one node its immediate dominator. One search serves back edges, topological order,
dominators and post-dominators, as they visit nodes alike; `Requests` lists which results
are computed in which order, as the cached properties pull them. `Body`, `Chain` and
`Frontier` read loops, dominator sets and frontiers off the results.

**SsaReconstruction** takes the dominators and some variable that violates SSA form (any
sets of blocks that assign it and that read it first), finds the definition for each
read and each input of a phi node, inserts phi nodes as needed, and then runs the
function with phi nodes stripped: the state holds which of the new variables have the
value that the original variable has. `Exports` and `ExportedLast` are where
`_strip_phi_nodes` places the assignments that replace phi nodes.

**VariableLifetimes** gives each block statements that read, assign or update one
variable, computes use and definition maps, the live map and the dead maps, places
Dels as `_patch_var_dels` does, and runs the result. Sets of variables per block become,
for one variable, sets of blocks. All analyses here treat variables independently, except
that the check of completeness raises for any of them.

**FunctionAnalyses** joins the graph and its two users; a behaviour computes one request
and goes on with the user that asked for it.

The `MC...` modules add the symmetry sets and the functions from configurations to
launch keys that a configuration file cannot write.

## The runs

| Run | Instance | What it asks |
|---|---|---|
| `configure_safety` | 2 threads, 2 configurations with 2 launch keys, both caches of one entry, 1 invalidation, changing extensions, 2 calls | Is anything that `configure()` caches stale (`DispatchersCurrent`, `CacheFresh`)? Is it a memo table (`ImplementsMemo`)? |
| `configure_shared` | 3 threads, 2 configurations of one launch key, room for both, 1 invalidation, 3 calls, builds that raise | Can a waiter be stranded (`WaitersHaveOwner`)? Can two live builds of one key run (`OneLiveBuilder`)? Is an entry ever replaced in place (`EntryKept`)? Is a native dispatcher used that lost the insertion race (`OneDispatcherPerKey`)? |
| `configure_liveness` | 2 threads, 2 invalidations, retry limit 2 | Does every call return (`CallsReturn`)? Is "invalidated repeatedly" raised only after that many invalidations (`InvalidatedIsEarned`)? |
| `launch_free` | free-threaded, 2 threads, 2 marshallers of one key, a literal argument with 2 values, a planner registered at some time, 3 launches, 1 `recompile()` | Does a launch run the code for its own literals (`RunsOwnLiterals`), not older than `recompile()` (`FreshAfterRecompile`)? Is a compiled overload found again (`PreparedIsFound`)? Are the fields of a marshaller consistent between launches (`BoundTogether`)? |
| `launch_gil` | GIL, 2 threads, 2 configurations for one registry entry, changing extensions, 2 launches, 1 `recompile()` | Does launch-specialised code run for another configuration (`RunsOwnConfig`)? Does an obsolete specialised overload survive (`SpecialisedFresh`)? Is one overload compiled twice (`NoWastedCompile`)? |
| `launch_liveness` | GIL, a planner that asks for launch metadata, a literal request, no retry left, 1 `recompile()` | Does a launch fail only if `recompile()` overlapped it (`FailureIsEarned`)? Does every launch end and give its locks back (`LaunchesFinish`)? |
| `disk_cache` | 2 processes, 2 signatures, 1 edit, 1 death or failed write, 1 `recompile()` | Do entries share a data file (`NamesDistinct`)? Undisturbed, is what is loaded right (`UndisturbedIsRight`) and what was saved found (`SavedIsFound`)? |
| `memory` | 2 threads, 4 blocks (one of each kind), 3 allocations, 2 references to a block, 2 deferrals, 1 reset, 1 failing destructor, a queue of one block | Can a held pointer lose its memory (`HeldIsLive`)? Can a block be freed twice or be handed out while something still names it (`OneOwner`), or be lost (`NothingLost`)? Does the queue grow (`BacklogBounded`)? Does an allocation fail although waiting blocks could have been freed (`OomIsEarned`)? Does a flush ignore a deferral (`DeferralHonoured`)? |
| `native` | 2 threads, 2 devices, profiles with scalars, an array and a record, 3 launches, blocks of depth 1, 1 incident (selection, failed preparation or reset) | Is the stack of contexts what the thread pushed (`StackBalanced`)? Does a kernel run where its arrays are (`RunsWithItsArrays`)? Are callbacks called once (`SetupOnce`) and in order (`CallbacksInOrder`)? Has each record copy one owner (`CopiesOwned`)? When does the process abort (`AbortIsEarned`)? |
| `analyses` | all graphs of 4 blocks with 2 targets each, 7 bodies of a block | Do the analyses equal their definitions (`AnalysesRight`)? Does a read find the value of the original variable on every path (`SsaFaithful`)? Does a read find its variable deleted, is one kept that nothing reads, and does the analysis give up where it should not (`LifetimesRight`)? |
| `launch_inflight`, `lifetimes_missing` | see below | Each shows a statement of the code or its comments that the code does not keep. |

### Bounds, and why they are enough

- *Threads and processes.* Two threads suffice for every race between an operation
  and an invalidation. Three in `configure_shared` give an overtaken owner, its
  successor and a waiter at once. The disk cache races are between two processes.
- *Caches of one entry* make every insertion an eviction; two keys make them
  compete. The real sizes, 128 and 256, differ only in how long eviction takes
  to begin. The theorems below hold for all sizes. `configure_shared` has room for all
  that is made: its questions are about what is lost or replaced without any eviction.
- *Generations.* One invalidation separates "before", "during" and "after";
  `configure_liveness` has as many as its retry limit, so that giving up happens.
- `MaxCalls`, `MaxLaunches`, `MaxRecompiles`, `MaxGeneration`, `MaxEdits` and
  `MaxDeaths` bound how often something is started. They appear only in guards of
  actions that begin something new; nothing that has begun is ever held up by
  one. Two launches after each other in each of two threads are enough to meet the
  kernels the first ones left. A second edit or a second death repeats the
  situation of the first for every property here, since all of them speak of the
  latest stamp only.
- *Literals.* One position with two values: the races are about whether the value
  is part of the type, not about which positions.
- *Memory.* One block of each kind, since the finalizers differ by kind; two threads, so
  that one flushes, resets or defers under the other. With a limit of one block every
  second drop flushes. `MaxRefs`, `MaxDefers` (two, so that deferrals nest and overlap),
  `MaxResets` and `MaxFailures` bound what is begun.
- *Launcher.* Three launches let two race and a third meet what they left; two devices
  make every context either the right or a wrong one.
- *Graphs.* Four blocks are enough for nested loops, irreducible loops, endless loops
  next to exits, and a frontier that has to be iterated. The graph part was also
  run with five blocks once. The first block is no jump target, as the bytecode of a
  function has it; dead blocks occur.
- A version of the globals is a number that grows with `recompile()`; an edit
  keeps the index key (a changed constant is not in the bytecode hash).

Deadlock is checked in the runs of the dispatcher and the disk cache; in `memory`,
`native`, `analyses` and `lifetimes_missing` it is not, because those really stop: when
the bounds are used up, when the process aborts, when a function has returned or its
analysis has raised. `KernelLaunch` has an action `Finished` that
stutters when the bound on launches is used up and all threads are idle, so a
deadlock inside a launch is still one.

### Fairness

`ConfigureCache!FairSpec` has weak fairness of the steps of each thread inside
`configure()`, `KernelLaunch!FairSpec` of each thread inside a launch and of a
`recompile()` that has begun: the operating system runs threads that can run, and
the locks are held for bounded sections. Nothing forces a thread to call, a build
to raise, or an invalidation to come. Weak fairness suffices although both locks
can be contended, because the number of launches is finite in the instance and a
waiting thread is therefore eventually the only one; starvation on an unfair lock
under endless contention is not excluded by the model, nor by the code.

## What is proved

Every safety property of a passing run is a theorem, and so is the refinement.
The theorems hold for any number of threads,
processes, devices, configurations, blocks of memory, signatures and positions, any
finite number of blocks of a function, any cache
sizes of at least one and any bounds; `PROJECT.json` lists them with the
property each one states.

Assumed is what the modules assume of their constants: sizes and bounds are numbers,
each configuration has a launch key, `None` is none of the values it stands beside
(`NoneAssumption`, `ConfigureNoneAssumption`, `LaunchNoneAssumption`,
`KernelAssumption`, `GraphAssumption`, `UndefinedAssumption`), threads, keys or
blocks are finitely many where the code counts or searches them (`MemoryAssumption`,
`LauncherAssumption`, `DiskCacheAssumption`, `GraphAssumption`), and a block is
statements, of whatever number, and then a terminator (`BodiesAssumption`). A theorem
that needs more than that says so; the hypotheses are explained below, and each of them
is the border of a departure described in the next section.

Each proof module names an invariant for the types and local variables of its
component (`IInv`, `ShapeInv` or `Base`), has one lemma per action that says what
the action leaves of it, and adds what a property needs as an invariant of its own on top
of that. Most invariants say, per label of a thread, what the thread's locals
know of the shared state, and a lemma on the steps of the other threads
keeps that.

**`configure()`** (`ConfigureCacheProofs`).

- *Freshness.* `CacheFresh` is not inductive: it says nothing of a marshaller a thread is
  still building. `LocalOK` does: a generation a thread has read is at most the current
  one, and *if it still is the current one* then the native dispatcher in its locals has
  the current generation and flags. That is why comparing generations at
  publication is enough although the dispatcher was built without the lock: the flags
  only change together with the generation. `Lists(seq, set)`, that a sequence lists
  a set without repetition, says that what is evicted is an entry.
- *Events.* `EventInv`: an event has one owner at most; an event that is not set has
  one; the event in flight for a key is not set and its owner builds for
  that key; who waits for an event that is not set wants the key its owner builds for.
  From this follow `WaitersAreWoken`, `SingleFlight` and `EntriesAreKept`.
- *One dispatcher for a launch key.* `DispatchersAreShared`: a cached marshaller, the
  result of a call and what a thread is about to publish use the dispatcher that is
  registered for their launch key, if they were made in the current generation
  (`SharedInv`). A result has to be followed with its generation, since `cache_clear()`
  forgets marshallers that are still in use, and a call can return one from before an
  invalidation. A registered dispatcher stays registered until the generation
  advances (`RegisteredStays`), since a build that lost the insertion race adopts it and
  nothing is evicted. That is the hypothesis `NoEvictions`: the registry has
  room for every launch key.
- *Retries.* `GivingUpIsEarned` has the hypothesis that the extensions do not change at
  run time; a call whose extensions change gives up without any invalidation.
- *Refinement.* `Implements`: hits and publications that lose a race map to
  `AnswerRemembered`, publications (with the eviction they make) to `AnswerNew`,
  invalidations to `Forget`, everything else to a stutter or to the begin or the end of
  a call. The mapping needs `CallMaps`: a thread wants
  nothing exactly while it is idle, and is told nothing until its call ends.

**Launches** (`KernelLaunchProofs`). In `Base` every native dispatcher that a table, a
marshaller or a thread refers to is `Placed`: it is of the current generation exactly if
it was built no earlier than the present generic one, `_c`, and then it has the
literal flags in force. Types and `SpecialisedIsFresh` follow. On top of it:

- `FailsOnlyIfOverlapped` and `PreparedLaunchesSucceed` (`FailInv`): as long as no
  `recompile()` comes between, a compilation's generation stays the current one, since
  literal requests and promotions happen under the compiler lock, and the result a
  thread looks up after precompiling is there. The hypothesis `NoEvictions`, that the
  registry has room for all configurations, excludes evictions in that gap.
- `NothingCompiledTwice` (`WasteInv`): from its second look at the tables until it
  publishes, a compilation finds nothing there for its types and configuration. The
  hypothesis `OneReason` is that planners asking for metadata and extensions that
  change do not come together.
- `MarshallersStayTogether`, `LaunchRunsItsLiterals`, `LaunchRunsFreshCode`
  (`LockInv`, with `GilDisabled`): the thread that has `_launch_lock` is the only one in a
  launch. So marshallers are bound together between launches, every kernel loaded by a
  dispatcher of the current generation is of the types it is filed under and not older
  than `recompile()`, and the locals of that one thread agree with the tables. Freshness
  needs a literal argument or a planner that asks for metadata: without
  either, a kept marshaller is not compared with the generation.
- `LaunchRunsItsConfiguration` (`OwnInv`): there is a function from native dispatchers
  to launch configurations, or to none for the generic ones, such that the
  registry, the kernels loaded, each binding with a generation and each
  launcher a thread is about to call agree with it. It extends by one value
  whenever a dispatcher is built and never changes otherwise. The hypothesis `OneOwner`
  excludes the one way to call a dispatcher that is not the marshaller's own.

**Memory** (`DeviceMemoryProofs`). `HeldBlocksAreLive`, `BlocksHaveOneOwner` and
`NoBlockIsLost` rest on `OwnInv`: a block is in exactly one place of a pointer's user, a
thread's frame or hands, what a reset has left to finalise, and the queue; and the
references counted are those held.
`DeferralIsHonoured`, `OutOfMemoryIsEarned` and `BacklogIsBounded` compare what a thread
remembers of the queue or the deferrals with what has been done to them since; for the
last, each item beyond the limit belongs to a thread that is still in `add_item()` or
flushing. `MemoryTypes` is
the type invariant with its counters not below zero.

**Native launcher** (`NativeLauncherProofs`). `ContextsAreRestored`: the stack of a thread
is what it pushed itself, under what its guard has still to pop.
`CopiesHaveOneOwner`: no address is in two helpers, a helper is used by one
thread, and there is always a free address left for the next copy. `AbortsAreEarned`,
`KernelsAreSetUpOnce`, `CallbacksComeInOrder`, `KernelsRunWithTheirArrays` follow from
what a launch knows of its profile and its family at each label.

**Disk cache** (`KernelDiskCacheProofs`). `EntriesHaveTheirOwnFiles`: the name
chosen for a new data file is free in the index it is chosen from, which is also the one
that is written. `KernelsAreRight` and `SavesAreFound` are about `Inv`: unless
`disturbed`, entries of the index have files with the kernel of their own signature and
source, except for the one a save is about to write.

**Analyses of a graph** (`ControlFlowProofs`). `AnalysesAreRight` holds of every finite graph
and in whatever order sets are gone through. The definitions with a loop in them
(`Reach`, `Body`, `Chain`, `Climb`, `Meet`) are recursive functions. `Grows` says when a
function grows a set until nothing is added, and `GrowsToLeast`, by the measure of
what is missing, that it ends at the least set that is closed (`Least`), so that every
later proof speaks of least closed sets instead of paths.

- *Search* (`SearchInv`). Path and post-order list live nodes once (`Listed`); the path
  follows edges from a root (`Tracks`); whatever a node in the post-order leads to is on
  the path or before it in the order (`Ordered`). Hence an edge is backward exactly if it
  is collected, provided that the graph is reducible: else a walk along the others
  would return to where it began, and the rank in the post-order excludes that.
- *Loops.* In a reducible graph a header dominates its body, two bodies
  that meet have one header dominating the other, and the smaller body lacks the other
  one's header.
- *Dominators* (`TreeInv`). Three statements hold while a node is swept: the tree
  hangs together and climbs in the order (`Hung`), what a node cannot be reached without
  is on its way up (`Upheld`), and behind the sweep nodes have the place they would be
  given again unless something has changed (`Swept`). `Meet` returns the lowest common
  ancestor. After a sweep without changes, `Hung` and `Swept` give that all
  ancestors dominate, and `Upheld` that all that dominate are ancestors.
- *Frontiers.* The climb from a predecessor to the immediate dominator passes exactly the
  nodes that dominate the predecessor and not strictly the node itself.
- *Post-dominators.* The same invariant with edges reversed and several roots. In a
  reducible graph the roots are exactly the nodes that no walk leaves for good
  (`PostRootsAreSettled`): a settled component that is not an exit has one header, and its
  body has no exit.

**SSA form** (`FunctionAnalysesProofs`). `_walk_def_chain` returns the definition of the
nearest dominator that has one or is to have a phi node (`Found`, `FromBottomIs`). The places of
phi nodes contain the frontiers of all of these (`Joined`), so at a block without a phi node
every predecessor finds what the immediate dominator finds (`TopIsBottom`). The invariant
`SsaInv` says that reads and phi inputs that are done have what the walk finds, that a phi
node so named has been inserted (`Fixed`, `Wired`, `Kept`), and, of a run that enters
a block (`Holding`), that what the block's top finds has the present value and that the
exports that come first in the block have put it where its successors look for it.
The theorem is `SsaIsFaithful`.

**Lifetimes** (`FunctionAnalysesProofs`). `LifeInv` says, of a run that enters a
block: the variable has a value only where the definitions lead (`Flows`); where it is live
and has a value, it has not been deleted; and it is handed on only where the dead maps
have it. In a block, `Carried` describes what a Del between statements leaves. For
`RejectionIsEarned`, a variable that no block lets go of is present all around some
component that no walk leaves; were it not mentioned there, the live map without that
component would be closed, and it is the least one that is.

Only model-checked is liveness (`CallsReturn`, `LaunchesFinish`): fairness and `ENABLED` are
out of the proof system's reach. No module uses a recursive operator.

## Where the code departs from what it says

Two of these have a run of their own, whose counterexample is a behaviour of the code.

1. `launch_inflight` (`descriptor.py:3228`). With the GIL, a generic compilation
   that read the old globals is stored after `recompile()` cleared the overloads.
   Later launches reuse it, although "the next launch will trigger a fresh compile".
   The launch-specialised branch compares generations; this one does not.
2. `lifetimes_missing` (`core/analysis.py:211`). A function that can end, and has a loop
   without an exit elsewhere, is rejected with "liveness info missing for vars" if a
   variable lives around that loop: `if flag: return`, `x = 0`, `while True: x += 1`.
   The variable never dies, so no dead map has it, and the check of completeness is only
   skipped for functions with no exit at all. `RejectionIsEarned` shows that nothing
   else is rejected.

The following were found with the same modules, by other constants or with a property
that no run checks; each can be reproduced by a configuration that names them.

*Launching and the disk cache*

- `RunsOwnLiterals` fails with the GIL, two first launches and `NeedsLiteral`
  (`kernel.cpp:2016`): both compile before the literal is part of the constants, and
  `emplace` keeps the first kernel for both values, against the comment on "racing
  threads that compile the same kernel".
- `PreparedIsFound` fails with two configurations for one registry entry
  (`descriptor.py:2824`): one evicts the other between publication and the second
  lookup, and the launch raises "precompilation completed without publishing a matching
  overload".
- `RightKernel` of `KernelDiskCache` fails with the constants of `disk_cache`
  (`core/caching.py:112`): two processes save different signatures, choose the same data
  file, and one of them later loads the other's kernel, since the loaded result is stored
  for the requested types without a look at its signature.
- `CooperativeKept` fails with one process (`caching.py:55`): `use_cooperative` is not
  written to disk, so a kernel that synchronises a grid is launched as an ordinary one
  when it comes from the cache, although "Numba CUDA MLIR automatically determines
  whether a cooperative launch is required" (`docs/source/user/cooperative_groups.rst:42`).
- `FreshAfterRecompile` also fails with one thread, the GIL, no planners, no
  launch metadata and no literals: a marshaller kept from before `recompile()` goes
  straight to its old native dispatcher (`descriptor.py:643-648`). That happens without
  the GIL as well, which is why `LaunchRunsFreshCode` asks for a literal argument or a
  planner that wants metadata. And it fails with
  `NeedsLaunch`, planners, the GIL and three launches: `_launch` reads the launcher
  (line 632) before another thread rebinds the marshaller (lines 701-704) and the
  dispatcher after.
- `RunsOwnConfig` fails with the GIL, `NeedsLaunch`, two marshallers of different
  configurations that threads share, and four launches, for the same reason: when
  `_launch` compares (line 677) the marshaller has been rebound already, sees no change
  and calls the launcher read before, which is the generic native dispatcher. Specialised
  kernels of two configurations end up in it, and one runs the other's, against the
  comment that specialisations are kept separate so that their users "never observe stale
  launch configuration values from a previous same-signature launch"
  (`descriptor.py:3021`).
- `NoWastedCompile` fails with `NeedsLaunch`, changing extensions and two marshallers of
  one configuration: the first was compiled for as specialised while the second's
  compilation was typing without metadata; promoted after that, it finds the result in
  the table only when it publishes, and drops its own.
- `InvalidatedIsEarned` fails with one thread, no `recompile()` and changing
  extensions: the key says that launch metadata is used, the second read says it
  is not, and the generation `None` then looks stale until the retries are used up
  (`descriptor.py:1838`).
- A hit in the configure cache does not touch the registry, so a configuration
  kept by hits can lose its native dispatcher first, against the comment at
  `descriptor.py:346`. The next launch restores it. `OneDispatcherPerKey` fails in that case,
  hence the hypothesis `NoEvictions` of `DispatchersAreShared`.
- An overload published after its configuration was evicted stays in the table
  until the next invalidation (`descriptor.py:3205`), against the comment at
  line 2322.
- `RightKernel` fails with a single process, too: a save that fails between index
  and data file leaves an entry that names a data file of another signature, left
  from before a flush; and an edit between import and `enable_caching()` files old
  code under the new stamp. `disturbed` sets these cases apart, and
  `UndisturbedIsRight` shows that there are no others.

*Contexts and the native launcher*

- `SelectedDevice` fails: a kernel without array arguments is launched in the context
  where its library was first loaded (`kernel.cpp:1989`, `2028`), whatever `with gpus[d]`
  selected; the documentation says that the block ensures execution on the selected GPU
  (`docs/source/user/device-management.rst:68`). With arrays it holds, as
  `RunsWithItsArrays` shows.
- A setup callback that raises leaves the kernel in the map with its teardown callbacks
  run; later launches run it. The same after the reset of a context, whose kernels stay
  in the map of the dispatcher. And a second thread may launch a kernel whose setup
  callbacks another is still running, which `CallbacksInOrder` allows for.
- A record as an argument, in a thread that has no context yet, fails: its device copy is
  allocated (`kernel.cpp:1336`) before `ensure_numba_context` is called. Two first launches
  with argument types whose classification runs Python code abort the process
  (`CHECK(inserted)`, `kernel.cpp:1566`) if the interpreter switches threads there;
  `AbortIsEarned` shows that nothing else does.

*Memory*

- `PendingBytesBounded` fails with two threads: `_size` is read before and stored after a
  call, so one of two concurrent additions is lost, or set to zero, and the queue keeps more
  bytes than its limit until the next flush (`docs/source/user/memory.rst`, section on
  deallocation behaviour). The number of items stays bounded.
- The finalizer of mapped memory raises `KeyError` when a reset has emptied the allocations
  and another thread has made new ones (`driver.py:1296`, `1319`): the block is then never
  released. `NothingLost` excepts mapped memory after a reset for that.
- When a destructor fails, "the remaining pending deallocations are cancelled"
  (`docs/source/user/memory.rst:342`); in the code they stay in the queue and the next
  flush goes on with them (`driver.py:994`), which `NothingLost` relies on.
- `reset()` of the memory manager clears "all host memory (mapped and/or pinned)" according
  to its docstring (`driver.py:822`), but unmapped pinned memory is in no table, and it is
  released when its object dies.

*Analyses of a function*

- The back edges of an irreducible graph depend on the order in which a set is iterated,
  against "if and only if *dest* dominates *src*" (`core/controlflow.py:572`); the
  post-dominators and the backbone of such a graph may miss paths through an endless
  loop with two entries. `Reducible` in the properties sets these graphs apart.
  Dominators and frontiers are right in every graph.
- The frontier leaves out an entry node that is a loop header. A function's first
  block is none, so this is assumed of the graphs.
- `in_loops()` goes from the inner loop to the outer one; the comment at line 700 says
  the opposite.

## What is left out

Where an action is simpler than the code it stands for:

- `KernelLaunch`: `_launch` reads the fields of a marshaller again for
  `_prepare_for_launch`; `Prepare` uses what was read before. The four assignments of a
  rebinding are two steps: launcher and configuration, then dispatcher and generation.
  The interpreter switches threads between plain stores only if one of them runs a
  finalizer. A compilation fails in the ways `Errors` lists; any other failure, such as
  an error in the kernel, ends the launch like these, and `FailureIsEarned` does not
  speak of it.
- `NativeLauncher`: the only failure of `Extract` is a record in a thread without a context.
  `Emplace` counts the setup when the kernel enters the map, immediately before the
  callback begins, with no Python code between the two.
- `DispatcherRegistry`: an `OrderedDict` is a function and the sequence of its keys.
- `SsaReconstruction`: the assignments of a block are one, and its reads before it are one,
  since a read after an assignment in the same block finds that assignment.
- `VariableLifetimes`: Dels are placed after the last use; with `extend_lifetimes`, which
  debug builds use, they would come at the end of the block, later than here.
- `DeviceMemory`: a failing allocation of registered memory is either retried after a
  flush or raised at once: `_attempt_allocation` decides that by the driver's error code.

Whole operations and parts:

- Inside the launch: dynamic shared memory and the adjusted launcher, launch
  callbacks and copies of host arrays, `specialize()`, `disable_compile()`,
  `compile(sig)`, nested launches from callbacks, hit counters.
- Of the native launcher: extraction of arrays and scalars, TMA descriptors, limits of
  shared memory, the error check of debug kernels, free-threaded builds.
- Of contexts: what `require_context` caches per thread, contexts of other libraries,
  `close()`, the reset of a device, modules loaded by the driver module.
- Of memory: `mempin()` without mapping, plugins, what else enters the queue (streams,
  events, modules), IPC, free-threaded builds.
- Of the analyses: descendants, generators, every pass that only uses their results.
- In the disk cache: the choice of a directory, `enable()` and `disable()`, Windows'
  forgiven permission errors, global variables (so what `recompile()` is for).
- NRT, type conversion, the order of locks: planned, below.
- The compiler proper, linker, device arrays, math libraries: sequential
  translations, thin wrappers or declarations without a protocol of their own. They are
  most of the repository's lines.

## Plan

Done: the dispatcher state, `configure()` with its abstract specification, launches
and compilation, the disk cache, the native launcher with contexts, memory, the graph
analyses; all safety properties of these proved, and the refinement of `configure()`.

To be modelled: the conversion graph of types and the table it keeps (`insert_rule`
calls back with a rule even where the graph keeps a stricter one, so the table could
come to differ; with the rules of `typeconv/rules.py` it does not); NRT and the cached
contexts with `close()`; planner registry, compiler lock, launch lock and import locks as
an order; `recompile()` composed with a failing flush of the disk cache.

## Running

```
tlc -config configure_safety.cfg MCConfigureCache.tla
tlc -config launch_gil.cfg MCKernelLaunch.tla
tlc -config disk_cache.cfg MCKernelDiskCache.tla
tlc -config memory.cfg MCDeviceMemory.tla
tlc -config native.cfg MCNativeLauncher.tla
tlc -config analyses.cfg MCAnalyses.tla
for m in DispatcherRegistry ConfigureCache KernelLaunch KernelDiskCache DeviceMemory \
         NativeLauncher ControlFlow FunctionAnalyses; do tlapm ${m}Proofs.tla; done
```
