---------------------------- MODULE DeviceMemory ----------------------------
(***************************************************************************)
(* Memory of one CUDA context (numba_cuda/cudadrv/driver.py): the default  *)
(* memory manager, its reference-counted pointers and _PendingDeallocs,    *)
(* the queue that freed blocks wait in.  Several threads allocate, share   *)
(* and drop pointers, defer clean-up and reset the context.                *)
(*                                                                         *)
(* The interpreter is one with a GIL: an action is the code between two    *)
(* places where a thread can be switched (a call, a loop's back edge).  A  *)
(* finaliser that the garbage collector runs at such a place behaves as    *)
(* another thread that runs there to its end.                              *)
(***************************************************************************)
EXTENDS Integers, FiniteSets, Sequences

CONSTANTS
    Threads,
    Blocks,             \* addresses the driver can hand out
    KindOf,             \* how each is allocated
    MaxCount,           \* config.CUDA_DEALLOCS_COUNT
    MaxPendingBytes,    \* _max_pending_bytes, in blocks
    MaxAllocs,          \* bound: allocations
    MaxRefs,            \* bound: OwnedPointers to one block
    MaxDefers,          \* bound: entries of defer_cleanup
    MaxResets,          \* bound: resets
    MaxFailures,        \* bound: destructor calls that fail
    None

(* memalloc and memallocmanaged; memhostalloc(mapped=True); memhostalloc;  *)
(* mempin(mapped=True)                                                     *)
Kinds == {"device", "mapped", "pinned", "registered"}

ASSUME MemoryAssumption ==
    /\ IsFiniteSet(Threads)
    /\ KindOf \in [Blocks -> Kinds]
    /\ {MaxCount, MaxPendingBytes, MaxAllocs, MaxRefs, MaxDefers, MaxResets,
        MaxFailures} \subseteq Nat
    /\ None \notin Blocks \cup Kinds

VARIABLES
    device,         \* the driver: blocks that are allocated
    allocations,    \* allocations: blocks whose pointer object it keeps alive
    alive,          \* blocks whose finalizer has not run
    refct,          \* refct of each pointer object
    held,           \* OwnedPointers (or PinnedMemory objects) the user holds
    cons,           \* _cons
    size,           \* _size
    disableCount,   \* _disable_count
    defers,         \* how many defer_cleanup blocks each thread is in
    pc, loc,        \* where each thread is, its local variables
    failed,         \* history: blocks whose destructor raised
    excused,        \* history: the queue may be over its limit
    allocs, entries, resets     \* how often each has happened

vars == << device, allocations, alive, refct, held, cons, size, disableCount, defers,
           pc, loc, failed, excused, allocs, entries, resets >>

manager == << allocations, alive, refct, held >>
queue   == << cons, size >>
deferring == << disableCount, defers, entries >>

(* block: the one in hand; bytes: _size as add_item has read it; after:    *)
(* where the thread goes on when add_item or clear returns; todo: what     *)
(* allocations.clear() has yet to finalise; queued: what was pending when  *)
(* an allocation ran out of memory and has not been freed since; ignored:  *)
(* who was deferring when clear() looked at is_disabled.                   *)
Locals == [kind : Kinds \cup {None}, block : Blocks \cup {None}, bytes : Int,
           after : {"idle", "retry", "reset"}, todo : SUBSET Blocks,
           queued : SUBSET Blocks, deferred : BOOLEAN, ignored : SUBSET Threads]

NoLocals == [kind |-> None, block |-> None, bytes |-> 0, after |-> "idle", todo |-> {},
             queued |-> {}, deferred |-> FALSE, ignored |-> {}]

Places == {"idle", "allocate", "retry", "register", "own", "finalize", "append", "add",
           "count", "clear", "loop", "pop", "destroy", "reset"}

Init ==
    /\ device = {} /\ allocations = {} /\ alive = {}
    /\ refct = [b \in Blocks |-> 0] /\ held = [b \in Blocks |-> 0]
    /\ cons = << >> /\ size = 0
    /\ disableCount = 0 /\ defers = [t \in Threads |-> 0]
    /\ pc = [t \in Threads |-> "idle"] /\ loc = [t \in Threads |-> NoLocals]
    /\ failed = {} /\ excused = FALSE
    /\ allocs = 0 /\ entries = 0 /\ resets = 0

-----------------------------------------------------------------------------
(* The bytes a block counts for in the queue: none when they are not known *)
Bytes(b) == IF KindOf[b] = "pinned" THEN 0 ELSE 1

Pending == {cons[i] : i \in DOMAIN cons}

is_disabled == disableCount > 0

Goto(t, place) == pc' = [pc EXCEPT ![t] = place]

Finish(t) == Goto(t, "idle") /\ loc' = [loc EXCEPT ![t] = NoLocals]

(* add_item or clear returns to its caller.                                *)
Return(t) == IF loc[t].after = "idle" THEN Finish(t)
             ELSE Goto(t, loc[t].after) /\ UNCHANGED loc

(* An exception leaves them.  It ends the operation, but a finaliser that  *)
(* allocations.clear() runs cannot stop it.                                *)
Raise(t) == IF loc[t].after = "reset" THEN Goto(t, "reset") /\ UNCHANGED loc
            ELSE Finish(t)

(* Blocks whose pointer object a thread's frame keeps alive.               *)
InFrames == {loc[t].block : t \in {u \in Threads : pc[u] \in {"own", "finalize"}}}

Available(kind) == {b \in Blocks \ device : KindOf[b] = kind}

-----------------------------------------------------------------------------
(* Allocation                                                              *)

(* memalloc, memallocmanaged, memhostalloc, mempin                         *)
Allocate(t) ==
    /\ pc[t] = "idle" /\ allocs < MaxAllocs
    /\ \E kind \in {KindOf[b] : b \in Blocks} :
         loc' = [loc EXCEPT ![t] = [NoLocals EXCEPT !.kind = kind]]
    /\ allocs' = allocs + 1
    /\ Goto(t, "allocate")
    /\ UNCHANGED << device, manager, queue, deferring, failed, excused, resets >>

(* The driver gives a block that nobody has.                               *)
Granted(t) ==
    /\ \E b \in Available(loc[t].kind) :
         /\ device' = device \cup {b}
         /\ loc' = [loc EXCEPT ![t] = [NoLocals EXCEPT !.block = b]]
    /\ Goto(t, "register")
    /\ UNCHANGED << manager, queue, deferring, failed, excused, allocs, resets >>

(* Mutated form: the retry does not flush the queue.                       *)
MutantOutOfMemory(t) ==
    /\ pc[t] = "allocate" /\ Available(loc[t].kind) = {}
    /\ loc' = [loc EXCEPT ![t].queued = Pending, ![t].after = "retry"]
    /\ Goto(t, "retry")
    /\ UNCHANGED << device, manager, queue, deferring, failed, excused, allocs, resets >>

(* _attempt_allocation: an allocation that runs out of memory flushes the  *)
(* queue and tries again.  Unmapped host memory is allocated without it,   *)
(* and what is not out of memory, as memory that has been registered       *)
(* before, raises at once.                                                 *)
OutOfMemory(t) ==
    /\ pc[t] = "allocate" /\ Available(loc[t].kind) = {}
    /\ \/ /\ loc[t].kind # "pinned"
          /\ loc' = [loc EXCEPT ![t].queued = Pending, ![t].after = "retry"]
          /\ Goto(t, "clear")
       \/ /\ loc[t].kind \in {"pinned", "registered"}
          /\ Finish(t)
    /\ UNCHANGED << device, manager, queue, deferring, failed, excused, allocs, resets >>

Attempt(t) == pc[t] \in {"allocate", "retry"} /\ Granted(t)

(* The second attempt fails too: the error is raised.                      *)
AllocationFails(t) ==
    /\ pc[t] = "retry" /\ Available(loc[t].kind) = {}
    /\ Finish(t)
    /\ UNCHANGED << device, manager, queue, deferring, failed, excused, allocs, resets >>

(* The pointer object is made and, but for unmapped host memory, entered   *)
(* in allocations.                                                         *)
Register(t) ==
    /\ pc[t] = "register"
    /\ LET b == loc[t].block
       IN  /\ alive' = alive \cup {b}
           /\ IF KindOf[b] = "pinned"
              THEN /\ held' = [held EXCEPT ![b] = 1]
                   /\ Finish(t)
                   /\ UNCHANGED << allocations, refct >>
              ELSE /\ allocations' = allocations \cup {b}
                   /\ refct' = [refct EXCEPT ![b] = 0]
                   /\ Goto(t, "own")
                   /\ UNCHANGED << held, loc >>
    /\ UNCHANGED << device, queue, deferring, failed, excused, allocs, resets >>

(* mem.own(), and mem goes out of scope: when a reset has dropped it from  *)
(* allocations meanwhile, it dies here and is finalised.                   *)
Own(t) ==
    /\ pc[t] = "own"
    /\ LET b == loc[t].block
       IN  IF b \in allocations
           THEN /\ refct' = [refct EXCEPT ![b] = refct[b] + 1]
                /\ held' = [held EXCEPT ![b] = held[b] + 1]
                /\ Finish(t)
           ELSE /\ Goto(t, "finalize")
                /\ UNCHANGED << refct, held, loc >>
    /\ UNCHANGED << device, allocations, alive, queue, deferring, failed, excused, allocs,
                    resets >>
-----------------------------------------------------------------------------
(* Sharing and dropping pointers                                           *)

(* Mutated form: a view does not take a reference.                         *)
MutantView(t) ==
    /\ pc[t] = "idle"
    /\ \E b \in Blocks :
         /\ KindOf[b] # "pinned"
         /\ held[b] \in 1 .. MaxRefs - 1
         /\ held' = [held EXCEPT ![b] = held[b] + 1]
    /\ UNCHANGED << device, allocations, alive, refct, queue, deferring, pc, loc, failed,
                    excused, allocs, resets >>

(* view(): another OwnedPointer of the same block.                         *)
View(t) ==
    /\ pc[t] = "idle"
    /\ \E b \in Blocks :
         /\ KindOf[b] # "pinned"
         /\ held[b] \in 1 .. MaxRefs - 1
         /\ held' = [held EXCEPT ![b] = held[b] + 1]
         /\ refct' = [refct EXCEPT ![b] = refct[b] + 1]
    /\ UNCHANGED << device, allocations, alive, queue, deferring, pc, loc, failed,
                    excused, allocs, resets >>

(* The last reference to an OwnedPointer goes (deref): the last one of the *)
(* block frees it.  A PinnedMemory object is finalised itself.             *)
Drop(t) ==
    /\ pc[t] = "idle"
    /\ \E b \in Blocks :
         /\ held[b] > 0
         /\ held' = [held EXCEPT ![b] = held[b] - 1]
         /\ IF KindOf[b] = "pinned" THEN UNCHANGED refct
            ELSE refct' = [refct EXCEPT ![b] = refct[b] - 1]
         /\ IF KindOf[b] = "pinned" \/ refct'[b] = 0
            THEN /\ loc' = [loc EXCEPT ![t] = [NoLocals EXCEPT !.block = b]]
                 /\ Goto(t, "finalize")
            ELSE UNCHANGED << pc, loc >>
    /\ UNCHANGED << device, allocations, alive, queue, deferring, failed, excused, allocs,
                    resets >>

(* Mutated form: every finaliser deletes its key as those of mapped memory *)
(* do.                                                                     *)
MutantRunFinalizer(t, b) ==
    /\ alive' = alive \ {b}
    /\ allocations' = allocations \ {b}
    /\ IF KindOf[b] # "pinned" /\ allocations # {} /\ b \notin allocations
       THEN Raise(t) /\ UNCHANGED device
       ELSE IF KindOf[b] = "registered"
       THEN device' = device \ {b} /\ Return(t)
       ELSE Goto(t, "append") /\ loc' = [loc EXCEPT ![t].block = b] /\ UNCHANGED device

(* core of _alloc_finalizer, _hostalloc_finalizer and _pin_finalizer.  The *)
(* latter two delete their key when there are allocations at all, which    *)
(* raises KeyError if theirs is not one; registered memory is released at  *)
(* once.                                                                   *)
RunFinalizer(t, b) ==
    /\ alive' = alive \ {b}
    /\ allocations' = allocations \ {b}
    /\ IF KindOf[b] \in {"mapped", "registered"} /\ allocations # {} /\ b \notin allocations
       THEN Raise(t) /\ UNCHANGED device
       ELSE IF KindOf[b] = "registered"
       THEN device' = device \ {b} /\ Return(t)
       ELSE Goto(t, "append") /\ loc' = [loc EXCEPT ![t].block = b] /\ UNCHANGED device

Finalize(t) ==
    /\ pc[t] = "finalize"
    /\ RunFinalizer(t, loc[t].block)
    /\ UNCHANGED << refct, held, queue, deferring, failed, excused, allocs, resets >>

-----------------------------------------------------------------------------
(* _PendingDeallocs                                                        *)

AddItem(t) ==
    /\ pc[t] = "append"
    /\ cons' = Append(cons, loc[t].block)
    /\ Goto(t, "add")
    /\ UNCHANGED << device, manager, size, deferring, loc, failed, excused, allocs, resets >>

(* self._size += int(size) reads _size before int() is called ...          *)
ReadSize(t) ==
    /\ pc[t] = "add"
    /\ loc' = [loc EXCEPT ![t].bytes = size + Bytes(loc[t].block)]
    /\ Goto(t, "count")
    /\ UNCHANGED << device, manager, queue, deferring, failed, excused, allocs, resets >>

(* Mutated form: the number of items is not looked at.                     *)
MutantOverLimit(bytes) == bytes > MaxPendingBytes

OverLimit(bytes) == Len(cons) > MaxCount \/ bytes > MaxPendingBytes

(* ... and stores it after.                                                *)
CheckLimits(t) ==
    /\ pc[t] = "count"
    /\ size' = loc[t].bytes
    /\ IF OverLimit(loc[t].bytes)
       THEN Goto(t, "clear") /\ loc' = [loc EXCEPT ![t].block = None]
       ELSE Return(t)
    /\ UNCHANGED << device, manager, cons, deferring, failed, excused, allocs, resets >>

(* The test of the loop in clear()                                         *)
LoopTest(t) ==
    IF cons = << >>
    THEN size' = 0 /\ excused' = FALSE /\ Return(t)
    ELSE Goto(t, "pop") /\ UNCHANGED << size, excused, loc >>

Deferring == {t \in Threads : defers[t] > 0}

Clear(t) ==
    /\ pc[t] = "clear"
    /\ IF is_disabled
       THEN /\ excused' = TRUE
            /\ IF loc[t].after = "retry"
               THEN Goto(t, "retry") /\ loc' = [loc EXCEPT ![t].deferred = TRUE]
               ELSE Return(t)
            /\ UNCHANGED size
       ELSE IF cons = << >> THEN LoopTest(t)
       ELSE /\ Goto(t, "pop")
            /\ loc' = [loc EXCEPT ![t].ignored = Deferring]
            /\ UNCHANGED << size, excused >>
    /\ UNCHANGED << device, manager, cons, deferring, failed, allocs, resets >>

Loop(t) ==
    /\ pc[t] = "loop"
    /\ LoopTest(t)
    /\ UNCHANGED << device, manager, cons, deferring, failed, allocs, resets >>

(* Mutated form: the item stays in the queue until it has been destroyed.  *)
MutantPopLeft(t) ==
    /\ pc[t] = "pop"
    /\ IF cons = << >>
       THEN Raise(t)
       ELSE /\ loc' = [loc EXCEPT ![t].block = Head(cons)]
            /\ Goto(t, "destroy")
    /\ UNCHANGED << device, manager, cons, size, deferring, failed, excused, allocs, resets >>

(* popleft() raises IndexError when another thread has emptied the queue.  *)
PopLeft(t) ==
    /\ pc[t] = "pop"
    /\ IF cons = << >>
       THEN Raise(t) /\ UNCHANGED cons
       ELSE /\ cons' = Tail(cons)
            /\ loc' = [loc EXCEPT ![t].block = Head(cons)]
            /\ Goto(t, "destroy")
    /\ UNCHANGED << device, manager, size, deferring, failed, excused, allocs, resets >>

(* dtor(handle)                                                            *)
Destroy(t) ==
    /\ pc[t] = "destroy"
    /\ device' = device \ {loc[t].block}
    /\ loc' = [u \in Threads |->
                 [loc[u] EXCEPT !.queued = @ \ {loc[t].block},
                                !.block = IF u = t THEN None ELSE @]]
    /\ Goto(t, "loop")
    /\ UNCHANGED << manager, queue, deferring, failed, excused, allocs, resets >>

(* It raises: the rest of the queue is left as it is, _size too.           *)
DestroyFails(t) ==
    /\ pc[t] = "destroy" /\ Cardinality(failed) < MaxFailures
    /\ failed' = failed \cup {loc[t].block}
    /\ excused' = TRUE
    /\ Raise(t)
    /\ UNCHANGED << device, manager, queue, deferring, allocs, resets >>

-----------------------------------------------------------------------------
(* Deferring and resetting                                                 *)

DeferEnter(t) ==
    /\ pc[t] = "idle" /\ entries < MaxDefers
    /\ entries' = entries + 1
    /\ disableCount' = disableCount + 1
    /\ defers' = [defers EXCEPT ![t] = defers[t] + 1]
    /\ UNCHANGED << device, manager, queue, pc, loc, failed, excused, allocs, resets >>

(* Mutated form: leaving the inner block enables the queue again.          *)
MutantDeferExit(t) ==
    /\ pc[t] = "idle" /\ defers[t] > 0
    /\ disableCount' = 0
    /\ defers' = [defers EXCEPT ![t] = defers[t] - 1]
    /\ UNCHANGED << device, manager, queue, entries, pc, loc, failed, excused, allocs,
                    resets >>

DeferExit(t) ==
    /\ pc[t] = "idle" /\ defers[t] > 0
    /\ disableCount' = disableCount - 1
    /\ defers' = [defers EXCEPT ![t] = defers[t] - 1]
    /\ UNCHANGED << device, manager, queue, entries, pc, loc, failed, excused, allocs,
                    resets >>

(* reset() of the memory manager: allocations.clear() empties the dict and *)
(* then lets go of the pointer objects, which are finalised one by one.    *)
(* The proxies in OwnedPointers are dead from then on.                     *)
Reset(t) ==
    /\ pc[t] = "idle" /\ resets < MaxResets
    /\ resets' = resets + 1
    /\ loc' = [loc EXCEPT ![t] = [NoLocals EXCEPT !.todo = allocations \ InFrames,
                                                  !.after = "reset"]]
    /\ allocations' = {}
    /\ held' = [b \in Blocks |-> IF b \in allocations THEN 0 ELSE held[b]]
    /\ Goto(t, "reset")
    /\ UNCHANGED << device, alive, refct, queue, deferring, failed, excused, allocs >>

ResetFinalizes(t) ==
    /\ pc[t] = "reset"
    /\ \E b \in loc[t].todo :
         loc' = [loc EXCEPT ![t].todo = @ \ {b}, ![t].block = b]
    /\ Goto(t, "finalize")
    /\ UNCHANGED << device, manager, queue, deferring, failed, excused, allocs, resets >>

(* Then the queue is flushed.                                              *)
ResetFlushes(t) ==
    /\ pc[t] = "reset" /\ loc[t].todo = {}
    /\ Goto(t, "clear")
    /\ loc' = [loc EXCEPT ![t] = NoLocals]
    /\ UNCHANGED << device, manager, queue, deferring, failed, excused, allocs, resets >>

Next == \E t \in Threads :
    \/ Allocate(t) \/ Attempt(t) \/ OutOfMemory(t) \/ AllocationFails(t)
    \/ Register(t) \/ Own(t)
    \/ View(t) \/ Drop(t) \/ Finalize(t)
    \/ AddItem(t) \/ ReadSize(t) \/ CheckLimits(t)
    \/ Clear(t) \/ Loop(t) \/ PopLeft(t) \/ Destroy(t) \/ DestroyFails(t)
    \/ DeferEnter(t) \/ DeferExit(t)
    \/ Reset(t) \/ ResetFinalizes(t) \/ ResetFlushes(t)

Spec == Init /\ [][Next]_vars

-----------------------------------------------------------------------------
(* Properties                                                              *)

InHands(b) == \E t \in Threads :
    loc[t].block = b /\ pc[t] \in {"register", "append", "destroy"}

(* The variables have their types.                                         *)
TypeOK ==
    /\ device \in SUBSET Blocks /\ allocations \in SUBSET Blocks
    /\ alive \in SUBSET Blocks /\ failed \in SUBSET Blocks
    /\ refct \in [Blocks -> Nat] /\ held \in [Blocks -> Nat]
    /\ cons \in Seq(Blocks) /\ size \in Int
    /\ disableCount \in Nat /\ defers \in [Threads -> Nat]
    /\ pc \in [Threads -> Places] /\ loc \in [Threads -> Locals]
    /\ excused \in BOOLEAN
    /\ {allocs, entries, resets} \subseteq Nat

(* A pointer that the user holds points to memory that is allocated and    *)
(* that nobody has begun to free, whatever other threads do to the other   *)
(* pointers to it; a reset ends the pointers it knows of first.            *)
HeldIsLive == \A b \in Blocks : held[b] > 0 => b \in alive /\ b \in device

(* A block is in one place: waiting for its finaliser, waiting in the      *)
(* queue once, or in the hands of one thread.  So it is destroyed once,    *)
(* however many threads flush the queue, and the driver cannot give it out *)
(* again while it is a key of allocations, where the new pointer's key     *)
(* would be refused (UniqueDict).                                          *)
OneOwner ==
    /\ \A i, j \in DOMAIN cons : cons[i] = cons[j] => i = j
    /\ \A b \in Pending : b \in device /\ b \notin alive /\ ~InHands(b)
    /\ \A t \in Threads : pc[t] \in {"register", "append", "destroy"} =>
         /\ loc[t].block \in device \ (alive \cup allocations)
         /\ \A u \in Threads \ {t} :
              pc[u] \in {"register", "append", "destroy"} => loc[u].block # loc[t].block

(* No memory is lost: an allocated block can still be freed, unless its    *)
(* destructor raised, or it is mapped memory whose finaliser a reset ran   *)
(* while another thread allocated.                                         *)
NothingLost == \A b \in device :
    \/ b \in alive \/ b \in Pending \/ InHands(b) \/ b \in failed
    \/ KindOf[b] \in {"mapped", "registered"} /\ resets > 0

(* The queue holds at most MaxCount items and one for each thread that is  *)
(* adding or flushing, but after a flush that was deferred or failed.      *)
BacklogBounded ==
    \/ excused
    \/ Len(cons) <= MaxCount + Cardinality({t \in Threads :
                       pc[t] \in {"add", "count", "clear", "loop", "pop", "destroy"}})

(* An allocation runs out of memory only when what was waiting in the      *)
(* queue at its first attempt has been freed, or is being freed by another *)
(* thread, or when clean-up is deferred.                                   *)
OomIsEarned == \A t \in Threads :
    pc[t] = "retry" => loc[t].deferred \/ loc[t].queued \cap Pending = {}

(* What is flushed while a thread defers clean-up, only a flush frees that *)
(* began before the thread's outermost defer_cleanup block was entered.    *)
DeferralHonoured == \A t \in Threads :
    pc[t] \in {"pop", "destroy", "loop"} => loc[t].ignored = {}

(* memory.rst: the queue is flushed as soon as the bytes pending reach     *)
(* their limit.                                                            *)
PendingBytesBounded ==
    (\A t \in Threads : pc[t] = "idle") /\ ~excused =>
        Cardinality({i \in DOMAIN cons : Bytes(cons[i]) > 0}) <= MaxPendingBytes
=============================================================================
