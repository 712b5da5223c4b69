-------------------------- MODULE DeviceMemoryProofs --------------------------
(***************************************************************************)
(* Memory of a context: who owns a block, what is lost, what a flush may   *)
(* ignore and how long the queue gets, proved for any number of threads    *)
(* and blocks and any bounds.                                              *)
(***************************************************************************)
EXTENDS DeviceMemory, SequenceTheorems, FiniteSetTheorems, TLAPS

-----------------------------------------------------------------------------
(* Types                                                                   *)

(* TypeOK, where the counters may still be negative.                       *)
Typed ==
    /\ device \in SUBSET Blocks /\ allocations \in SUBSET Blocks
    /\ alive \in SUBSET Blocks /\ failed \in SUBSET Blocks
    /\ refct \in [Blocks -> Int] /\ held \in [Blocks -> Int]
    /\ cons \in Seq(Blocks) /\ size \in Int
    /\ disableCount \in Int /\ defers \in [Threads -> Nat]
    /\ pc \in [Threads -> Places] /\ loc \in [Threads -> Locals]
    /\ excused \in BOOLEAN
    /\ allocs \in Nat /\ entries \in Nat /\ resets \in Nat

WithBlock == {"register", "own", "finalize", "append", "add", "count", "destroy"}

(* What the locals of a thread say at the places it can be in: a finaliser *)
(* never returns to an allocation, and only a reset has blocks to finalise.*)
Shape(t) ==
    /\ pc[t] \in WithBlock => loc[t].block \in Blocks
    /\ pc[t] \in {"idle", "allocate", "register", "own"} => loc[t].after = "idle"
    /\ pc[t] \in {"finalize", "append", "add", "count"} => loc[t].after # "retry"
    /\ pc[t] = "reset" => loc[t].after = "reset"
    /\ loc[t].todo # {} => loc[t].after = "reset"

ShapeInv == Typed /\ \A t \in Threads : Shape(t)

(* The other threads stay where they are.                                  *)
OthersStay(t) == \A u \in Threads : u # t =>
    /\ pc'[u] = pc[u]
    /\ loc'[u].block = loc[u].block /\ loc'[u].after = loc[u].after
    /\ loc'[u].todo = loc[u].todo /\ loc'[u].ignored = loc[u].ignored
    /\ loc'[u].deferred = loc[u].deferred
    /\ loc'[u].queued \subseteq loc[u].queued

(* What a thread is left with when its operation ends.                     *)
LEMMA NoLocalsType ==
  /\ NoLocals \in Locals
  /\ NoLocals.block = None /\ NoLocals.after = "idle" /\ NoLocals.todo = {}
  /\ NoLocals.queued = {} /\ NoLocals.ignored = {} /\ NoLocals.deferred = FALSE
BY DEF NoLocals, Locals

(* Locals with one field changed are locals.                               *)
LEMMA LocalsUpdate ==
  ASSUME NEW r \in Locals
  PROVE  /\ \A kind \in Kinds : [r EXCEPT !.kind = kind] \in Locals
         /\ \A b \in Blocks \cup {None} : [r EXCEPT !.block = b] \in Locals
         /\ \A i \in Int : [r EXCEPT !.bytes = i] \in Locals
         /\ \A S \in SUBSET Blocks, after \in {"idle", "retry", "reset"} :
              /\ [r EXCEPT !.queued = S, !.after = after] \in Locals
              /\ [r EXCEPT !.todo = S, !.after = after] \in Locals
         /\ \A S \in SUBSET Blocks, b \in Blocks \cup {None} :
              /\ [r EXCEPT !.todo = S, !.block = b] \in Locals
              /\ [r EXCEPT !.queued = S, !.block = b] \in Locals
         /\ [r EXCEPT !.deferred = TRUE] \in Locals
         /\ \A T \in SUBSET Threads : [r EXCEPT !.ignored = T] \in Locals
BY DEF Locals

(* One thread moves, and its locals are well formed where it gets.         *)
LEMMA ShapeStep ==
  ASSUME ShapeInv, Typed', NEW t \in Threads, OthersStay(t), Shape(t)'
  PROVE  ShapeInv'
<1>1. ASSUME NEW u \in Threads
      PROVE  Shape(u)'
  BY DEF ShapeInv, Shape, OthersStay
<1> QED  BY <1>1 DEF ShapeInv

(* Nothing has happened.                                                   *)
LEMMA ShapeInit == Init => ShapeInv
<1> SUFFICES ASSUME Init PROVE ShapeInv
  OBVIOUS
<1>1. Typed
  <2>1. /\ device \in SUBSET Blocks /\ allocations \in SUBSET Blocks
        /\ alive \in SUBSET Blocks /\ failed \in SUBSET Blocks
        /\ refct \in [Blocks -> Int] /\ held \in [Blocks -> Int]
        /\ size \in Int
    BY DEF Init
  <2>4. /\ disableCount \in Int /\ defers \in [Threads -> Nat]
        /\ allocs \in Nat /\ entries \in Nat /\ resets \in Nat
    BY DEF Init
  <2>5. excused \in BOOLEAN
    BY DEF Init
  <2>2. pc \in [Threads -> Places] /\ loc \in [Threads -> Locals]
    BY NoLocalsType DEF Init, Places
  <2>3. cons \in Seq(Blocks)
    BY DEF Init
  <2> QED  BY <2>1, <2>2, <2>3, <2>4, <2>5 DEF Typed
<1>2. \A t \in Threads : Shape(t)
  BY NoLocalsType DEF Init, Shape, WithBlock
<1> QED  BY <1>1, <1>2 DEF ShapeInv

(* An operation ends, is interrupted, or returns to its caller.            *)
LEMMA FinishLocals ==
  ASSUME ShapeInv, NEW t \in Threads, Finish(t)
  PROVE  /\ pc' \in [Threads -> Places] /\ loc' \in [Threads -> Locals]
         /\ pc'[t] = "idle" /\ loc'[t] = NoLocals
         /\ OthersStay(t)
BY NoLocalsType DEF ShapeInv, Typed, Finish, Goto, Places, OthersStay

(* After a return the thread is where its caller continues.                *)
LEMMA ReturnLocals ==
  ASSUME ShapeInv, NEW t \in Threads, Return(t)
  PROVE  /\ pc' \in [Threads -> Places] /\ loc' \in [Threads -> Locals]
         /\ OthersStay(t)
         /\ \/ pc'[t] = "idle" /\ loc'[t] = NoLocals
            \/ /\ pc'[t] = loc[t].after /\ loc[t].after \in {"retry", "reset"}
               /\ loc' = loc
<1>1. loc[t].after \in {"idle", "retry", "reset"}
  BY DEF ShapeInv, Typed, Locals
<1>2. CASE loc[t].after = "idle"
  BY <1>2, FinishLocals DEF Return
<1>3. CASE loc[t].after # "idle"
  BY <1>1, <1>3 DEF Return, Goto, ShapeInv, Typed, Places, OthersStay
<1> QED  BY <1>2, <1>3

(* An exception ends the operation or is swallowed by a reset.             *)
LEMMA RaiseLocals ==
  ASSUME ShapeInv, NEW t \in Threads, Raise(t)
  PROVE  /\ pc' \in [Threads -> Places] /\ loc' \in [Threads -> Locals]
         /\ OthersStay(t)
         /\ \/ pc'[t] = "idle" /\ loc'[t] = NoLocals
            \/ pc'[t] = "reset" /\ loc[t].after = "reset" /\ loc' = loc
<1>1. CASE loc[t].after = "reset"
  BY <1>1 DEF Raise, Goto, ShapeInv, Typed, Places, OthersStay
<1>2. CASE loc[t].after # "reset"
  BY <1>2, FinishLocals DEF Raise
<1> QED  BY <1>1, <1>2

(* What each operation does to the thread that takes it.                   *)
LEMMA AllocateStep ==
  ASSUME ShapeInv, NEW t \in Threads, Allocate(t)
  PROVE  /\ ShapeInv' /\ OthersStay(t)
         /\ pc'[t] = "allocate"
         /\ loc'[t].todo = {} /\ loc'[t].queued = {} /\ loc'[t].ignored = {}
<1>1. PICK kind \in {KindOf[b] : b \in Blocks} :
        loc' = [loc EXCEPT ![t] = [NoLocals EXCEPT !.kind = kind]]
  BY DEF Allocate
<1>2. kind \in Kinds
  BY MemoryAssumption
<1>3. /\ [NoLocals EXCEPT !.kind = kind] \in Locals
      /\ [NoLocals EXCEPT !.kind = kind].after = "idle"
      /\ [NoLocals EXCEPT !.kind = kind].todo = {}
      /\ [NoLocals EXCEPT !.kind = kind].queued = {}
      /\ [NoLocals EXCEPT !.kind = kind].ignored = {}
  BY <1>2, NoLocalsType, LocalsUpdate DEF NoLocals
<1>4. /\ pc'[t] = "allocate" /\ loc'[t] = [NoLocals EXCEPT !.kind = kind]
      /\ OthersStay(t)
  BY <1>1 DEF Allocate, Goto, ShapeInv, Typed, OthersStay
<1>7. pc' \in [Threads -> Places] /\ loc' \in [Threads -> Locals]
  BY <1>1, <1>3 DEF Allocate, Goto, ShapeInv, Typed, Places
<1>8. allocs \in Nat /\ allocs' = allocs + 1
  BY DEF Allocate, ShapeInv, Typed
<1>9. allocs' \in Nat
  BY <1>8
<1>5. Typed'
  BY <1>7, <1>9 DEF Allocate, ShapeInv, Typed, manager, queue, deferring
<1>6. Shape(t)'
  BY <1>3, <1>4 DEF Shape, WithBlock
<1> QED  BY <1>3, <1>4, <1>5, <1>6, ShapeStep

LEMMA AttemptStep ==
  ASSUME ShapeInv, NEW t \in Threads, Attempt(t)
  PROVE  /\ ShapeInv' /\ OthersStay(t)
         /\ pc'[t] = "register"
         /\ loc'[t].todo = {} /\ loc'[t].queued = {} /\ loc'[t].ignored = {}
         /\ loc'[t].block \in Blocks \ device /\ device' = device \cup {loc'[t].block}
<1>1. PICK b \in Available(loc[t].kind) :
        /\ device' = device \cup {b}
        /\ loc' = [loc EXCEPT ![t] = [NoLocals EXCEPT !.block = b]]
  BY DEF Attempt, Granted
<1>2. b \in Blocks \ device
  BY DEF Available
<1>3. /\ [NoLocals EXCEPT !.block = b] \in Locals
      /\ [NoLocals EXCEPT !.block = b].block = b
      /\ [NoLocals EXCEPT !.block = b].after = "idle"
      /\ [NoLocals EXCEPT !.block = b].todo = {}
      /\ [NoLocals EXCEPT !.block = b].queued = {}
      /\ [NoLocals EXCEPT !.block = b].ignored = {}
  BY <1>2, NoLocalsType, LocalsUpdate DEF NoLocals
<1>4. /\ pc'[t] = "register" /\ loc'[t] = [NoLocals EXCEPT !.block = b]
      /\ OthersStay(t)
  BY <1>1 DEF Attempt, Granted, Goto, ShapeInv, Typed, OthersStay
<1>5. Typed'
  BY <1>1, <1>2, <1>3
     DEF Attempt, Granted, Goto, ShapeInv, Typed, Places, manager, queue, deferring
<1>6. Shape(t)'
  BY <1>2, <1>3, <1>4 DEF Shape, WithBlock
<1> QED  BY <1>1, <1>2, <1>3, <1>4, <1>5, <1>6, ShapeStep

LEMMA OutOfMemoryStep ==
  ASSUME ShapeInv, NEW t \in Threads, OutOfMemory(t)
  PROVE  /\ ShapeInv' /\ OthersStay(t)
         /\ \/ pc'[t] = "idle" /\ loc'[t] = NoLocals
            \/ /\ pc'[t] = "clear"
               /\ loc'[t].todo = loc[t].todo /\ loc'[t].queued = Pending
               /\ loc'[t].deferred = loc[t].deferred
               /\ loc'[t].ignored = loc[t].ignored
<1>1. CASE /\ loc' = [loc EXCEPT ![t].queued = Pending, ![t].after = "retry"]
           /\ Goto(t, "clear")
  <2>1. Pending \subseteq Blocks
    BY DEF ShapeInv, Typed, Pending
  <2>2. /\ pc'[t] = "clear" /\ OthersStay(t)
        /\ loc'[t] = [[loc[t] EXCEPT !.queued = Pending] EXCEPT !.after = "retry"]
    BY <1>1 DEF OutOfMemory, Goto, ShapeInv, Typed, OthersStay, Locals
  <2>4. loc[t] \in Locals /\ loc[t].todo = {}
    BY DEF ShapeInv, Typed, Shape, OutOfMemory
  <2>7. [[loc[t] EXCEPT !.queued = Pending] EXCEPT !.after = "retry"] \in Locals
    BY <2>1, <2>4 DEF Locals
  <2>9. /\ loc \in [Threads -> Locals]
        /\ loc' = [loc EXCEPT ![t].queued = Pending, ![t].after = "retry"]
    BY <1>1 DEF OutOfMemory, ShapeInv, Typed
  <2>10. loc' = [loc EXCEPT ![t] = [[loc[t] EXCEPT !.queued = Pending]
                                      EXCEPT !.after = "retry"]]
    BY <2>9
  <2>11. loc' \in [Threads -> Locals]
    BY <2>7, <2>9, <2>10
  <2>8. pc' \in [Threads -> Places] /\ loc' \in [Threads -> Locals]
    BY <1>1, <2>11 DEF OutOfMemory, Goto, ShapeInv, Typed, Places
  <2>3. Typed'
    BY <2>8 DEF OutOfMemory, ShapeInv, Typed, manager, queue, deferring
  <2>5. /\ loc'[t].todo = loc[t].todo /\ loc'[t].queued = Pending
        /\ loc'[t].deferred = loc[t].deferred /\ loc'[t].ignored = loc[t].ignored
    BY <2>2, <2>4 DEF Locals
  <2>6. Shape(t)'
    BY <2>2, <2>4, <2>5 DEF Shape, WithBlock
  <2> QED  BY <2>2, <2>3, <2>5, <2>6, ShapeStep
<1>2. CASE Finish(t)
  <2>2. Typed'
    BY <1>2, FinishLocals
       DEF OutOfMemory, ShapeInv, Typed, manager, queue, deferring
  <2>3. Shape(t)'
    BY <1>2, FinishLocals, NoLocalsType DEF Shape, WithBlock
  <2> QED  BY <1>2, <2>2, <2>3, FinishLocals, ShapeStep
<1> QED  BY <1>1, <1>2 DEF OutOfMemory

LEMMA AllocationFailsStep ==
  ASSUME ShapeInv, NEW t \in Threads, AllocationFails(t)
  PROVE  /\ ShapeInv' /\ OthersStay(t)
         /\ pc'[t] = "idle" /\ loc'[t] = NoLocals
<1>1. Finish(t)
  BY DEF AllocationFails
<1>2. Typed'
  BY <1>1, FinishLocals DEF AllocationFails, ShapeInv, Typed, manager, queue, deferring
<1>3. Shape(t)'
  BY <1>1, FinishLocals, NoLocalsType DEF Shape, WithBlock
<1> QED  BY <1>1, <1>2, <1>3, FinishLocals, ShapeStep

(* A thread moves to a place with given locals.                            *)
LEMMA MoveLocals ==
  ASSUME ShapeInv, NEW t \in Threads, NEW p \in Places, NEW r \in Locals,
         Goto(t, p), loc' = [loc EXCEPT ![t] = r]
  PROVE  /\ pc' \in [Threads -> Places] /\ loc' \in [Threads -> Locals]
         /\ pc'[t] = p /\ loc'[t] = r /\ OthersStay(t)
BY DEF ShapeInv, Typed, Goto, OthersStay

LEMMA GotoLocals ==
  ASSUME ShapeInv, NEW t \in Threads, NEW p \in Places, Goto(t, p), UNCHANGED loc
  PROVE  /\ pc' \in [Threads -> Places] /\ loc' \in [Threads -> Locals]
         /\ pc'[t] = p /\ OthersStay(t)
BY DEF ShapeInv, Typed, Goto, OthersStay

LEMMA RegisterStep ==
  ASSUME ShapeInv, NEW t \in Threads, Register(t)
  PROVE  /\ ShapeInv' /\ OthersStay(t) /\ loc[t].block \in Blocks
         /\ IF KindOf[loc[t].block] = "pinned" THEN pc'[t] = "idle" /\ loc'[t] = NoLocals
            ELSE pc'[t] = "own" /\ loc' = loc
<1>1. loc[t].block \in Blocks /\ loc[t].after = "idle" /\ loc[t].todo = {}
  BY DEF ShapeInv, Shape, WithBlock, Register
<1>2. CASE KindOf[loc[t].block] = "pinned"
  <2>1. Finish(t)
    BY <1>2 DEF Register
  <2>2. Typed'
    BY <1>1, <1>2, <2>1, FinishLocals DEF Register, ShapeInv, Typed, queue, deferring
  <2>3. Shape(t)'
    BY <2>1, FinishLocals, NoLocalsType DEF Shape, WithBlock
  <2> QED  BY <1>1, <1>2, <2>1, <2>2, <2>3, FinishLocals, ShapeStep
<1>3. CASE KindOf[loc[t].block] # "pinned"
  <2>1. Goto(t, "own") /\ UNCHANGED loc
    BY <1>3 DEF Register
  <2>2. /\ pc' \in [Threads -> Places] /\ loc' \in [Threads -> Locals]
        /\ pc'[t] = "own" /\ OthersStay(t)
    BY <2>1, GotoLocals DEF Places
  <2>3. Typed'
    BY <1>1, <1>3, <2>2 DEF Register, ShapeInv, Typed, queue, deferring
  <2>4. Shape(t)'
    BY <1>1, <2>1, <2>2 DEF Shape, WithBlock
  <2> QED  BY <1>1, <1>3, <2>1, <2>2, <2>3, <2>4, ShapeStep
<1> QED  BY <1>2, <1>3

LEMMA OwnStep ==
  ASSUME ShapeInv, NEW t \in Threads, Own(t)
  PROVE  /\ ShapeInv' /\ OthersStay(t) /\ loc[t].block \in Blocks
         /\ IF loc[t].block \in allocations THEN pc'[t] = "idle" /\ loc'[t] = NoLocals
            ELSE pc'[t] = "finalize" /\ loc' = loc
<1>1. loc[t].block \in Blocks /\ loc[t].after = "idle" /\ loc[t].todo = {}
  BY DEF ShapeInv, Shape, WithBlock, Own
<1>2. CASE loc[t].block \in allocations
  <2>1. Finish(t)
    BY <1>2 DEF Own
  <2>2. Typed'
    BY <1>1, <1>2, <2>1, FinishLocals DEF Own, ShapeInv, Typed, queue, deferring
  <2>3. Shape(t)'
    BY <2>1, FinishLocals, NoLocalsType DEF Shape, WithBlock
  <2> QED  BY <1>1, <1>2, <2>1, <2>2, <2>3, FinishLocals, ShapeStep
<1>3. CASE loc[t].block \notin allocations
  <2>1. Goto(t, "finalize") /\ UNCHANGED loc
    BY <1>3 DEF Own
  <2>2. /\ pc' \in [Threads -> Places] /\ loc' \in [Threads -> Locals]
        /\ pc'[t] = "finalize" /\ OthersStay(t)
    BY <2>1, GotoLocals DEF Places
  <2>3. Typed'
    BY <1>1, <1>3, <2>2 DEF Own, ShapeInv, Typed, queue, deferring
  <2>4. Shape(t)'
    BY <1>1, <2>1, <2>2 DEF Shape, WithBlock
  <2> QED  BY <1>1, <1>3, <2>1, <2>2, <2>3, <2>4, ShapeStep
<1> QED  BY <1>2, <1>3

LEMMA ViewStep ==
  ASSUME ShapeInv, NEW t \in Threads, View(t)
  PROVE  ShapeInv' /\ OthersStay(t)
<1>1. Typed'
  BY DEF View, ShapeInv, Typed, queue, deferring
<1>2. Shape(t)' /\ OthersStay(t)
  BY DEF View, ShapeInv, Shape, WithBlock, OthersStay
<1> QED  BY <1>1, <1>2, ShapeStep

(* The user drops a pointer to block b.                                    *)
Dropped(t, b) ==
    /\ held[b] > 0
    /\ held' = [held EXCEPT ![b] = held[b] - 1]
    /\ IF KindOf[b] = "pinned" THEN UNCHANGED refct
       ELSE refct' = [refct EXCEPT ![b] = refct[b] - 1]
    /\ IF KindOf[b] = "pinned" \/ refct'[b] = 0
       THEN /\ pc'[t] = "finalize" /\ loc'[t].block = b
            /\ loc'[t].todo = {} /\ loc'[t].queued = {} /\ loc'[t].ignored = {}
       ELSE UNCHANGED << pc, loc >>

LEMMA DropStep ==
  ASSUME ShapeInv, NEW t \in Threads, Drop(t)
  PROVE  ShapeInv' /\ OthersStay(t) /\ \E b \in Blocks : Dropped(t, b)
<1>1. PICK b \in Blocks :
         /\ held[b] > 0
         /\ held' = [held EXCEPT ![b] = held[b] - 1]
         /\ IF KindOf[b] = "pinned" THEN UNCHANGED refct
            ELSE refct' = [refct EXCEPT ![b] = refct[b] - 1]
         /\ IF KindOf[b] = "pinned" \/ refct'[b] = 0
            THEN /\ loc' = [loc EXCEPT ![t] = [NoLocals EXCEPT !.block = b]]
                 /\ Goto(t, "finalize")
            ELSE UNCHANGED << pc, loc >>
  BY DEF Drop
<1>2. refct' \in [Blocks -> Int] /\ held' \in [Blocks -> Int]
  BY <1>1 DEF ShapeInv, Typed
<1>3. CASE KindOf[b] = "pinned" \/ refct'[b] = 0
  <2>1. /\ [NoLocals EXCEPT !.block = b] \in Locals
        /\ [NoLocals EXCEPT !.block = b].block = b
        /\ [NoLocals EXCEPT !.block = b].after = "idle"
        /\ [NoLocals EXCEPT !.block = b].todo = {}
        /\ [NoLocals EXCEPT !.block = b].queued = {}
        /\ [NoLocals EXCEPT !.block = b].ignored = {}
    BY NoLocalsType, LocalsUpdate DEF NoLocals
  <2>2. "finalize" \in Places
    BY DEF Places
  <2>3. /\ pc' \in [Threads -> Places] /\ loc' \in [Threads -> Locals]
        /\ pc'[t] = "finalize" /\ loc'[t] = [NoLocals EXCEPT !.block = b]
        /\ OthersStay(t)
    BY <1>1, <1>3, <2>1, <2>2, MoveLocals
  <2>4. Typed'
    BY <1>2, <2>3 DEF Drop, ShapeInv, Typed, queue, deferring
  <2>5. Shape(t)'
    BY <2>1, <2>3 DEF Shape, WithBlock
  <2>6. Dropped(t, b)
    BY <1>1, <1>3, <2>1, <2>3 DEF Dropped
  <2> QED  BY <2>3, <2>4, <2>5, <2>6, ShapeStep
<1>4. CASE ~(KindOf[b] = "pinned" \/ refct'[b] = 0)
  <2>1. Typed'
    BY <1>1, <1>2, <1>4 DEF Drop, ShapeInv, Typed, queue, deferring
  <2>2. Shape(t)' /\ OthersStay(t)
    BY <1>1, <1>4 DEF ShapeInv, Shape, OthersStay
  <2>3. Dropped(t, b)
    BY <1>1, <1>4 DEF Dropped
  <2> QED  BY <2>1, <2>2, <2>3, ShapeStep
<1> QED  BY <1>3, <1>4

(* The operation has ended; the thread has returned to its caller; an      *)
(* exception has left the operation.                                       *)
Ended(t) == pc'[t] = "idle" /\ loc'[t] = NoLocals

Returned(t) ==
    \/ Ended(t)
    \/ pc'[t] = loc[t].after /\ loc[t].after \in {"retry", "reset"} /\ loc' = loc

Raised(t) ==
    \/ Ended(t)
    \/ pc'[t] = "reset" /\ loc[t].after = "reset" /\ loc' = loc

(* After either the thread's locals still have their shape.                *)
LEMMA ReturnShape ==
  ASSUME ShapeInv, NEW t \in Threads, Returned(t)
  PROVE  Shape(t)'
<1>1. CASE Ended(t)
  BY <1>1, NoLocalsType DEF Ended, Shape, WithBlock
<1>2. CASE pc'[t] = loc[t].after /\ loc[t].after \in {"retry", "reset"} /\ loc' = loc
  BY <1>2 DEF ShapeInv, Shape, WithBlock
<1> QED  BY <1>1, <1>2 DEF Returned

LEMMA RaiseShape ==
  ASSUME ShapeInv, NEW t \in Threads, Raised(t)
  PROVE  Shape(t)'
<1>1. CASE Ended(t)
  BY <1>1, NoLocalsType DEF Ended, Shape, WithBlock
<1>2. CASE pc'[t] = "reset" /\ loc[t].after = "reset" /\ loc' = loc
  BY <1>2 DEF ShapeInv, Shape, WithBlock
<1> QED  BY <1>1, <1>2 DEF Raised

(* The two ways a finaliser fails to reach the queue.                      *)
KeyMissing(b) ==
    KindOf[b] \in {"mapped", "registered"} /\ allocations # {} /\ b \notin allocations

LEMMA FinalizeStep ==
  ASSUME ShapeInv, NEW t \in Threads, Finalize(t)
  PROVE  /\ ShapeInv' /\ OthersStay(t) /\ loc[t].block \in Blocks
         /\ \/ KeyMissing(loc[t].block) /\ Raised(t) /\ device' = device
            \/ /\ KindOf[loc[t].block] = "registered" /\ Returned(t)
               /\ device' = device \ {loc[t].block}
            \/ pc'[t] = "append" /\ loc' = loc /\ device' = device
<1> DEFINE b == loc[t].block
<1>1. b \in Blocks /\ loc[t].after # "retry" /\ pc[t] = "finalize"
  BY DEF ShapeInv, Shape, WithBlock, Finalize
<1>2. CASE KeyMissing(b)
  <2>1. Raise(t) /\ device' = device
    BY <1>2 DEF Finalize, RunFinalizer, KeyMissing
  <2>2. Raised(t)
    BY <2>1, RaiseLocals DEF Raised, Ended
  <2>3. Typed'
    BY <2>1, RaiseLocals DEF Finalize, RunFinalizer, ShapeInv, Typed, queue, deferring
  <2> QED  BY <1>1, <1>2, <2>1, <2>2, <2>3, RaiseLocals, RaiseShape, ShapeStep
<1>3. CASE ~KeyMissing(b) /\ KindOf[b] = "registered"
  <2>1. Return(t) /\ device' = device \ {b}
    BY <1>3 DEF Finalize, RunFinalizer, KeyMissing
  <2>2. Returned(t)
    BY <2>1, ReturnLocals DEF Returned, Ended
  <2>3. Typed'
    BY <2>1, ReturnLocals DEF Finalize, RunFinalizer, ShapeInv, Typed, queue, deferring
  <2> QED  BY <1>1, <1>3, <2>1, <2>2, <2>3, ReturnLocals, ReturnShape, ShapeStep
<1>4. CASE ~KeyMissing(b) /\ KindOf[b] # "registered"
  <2>1. /\ Goto(t, "append") /\ loc' = [loc EXCEPT ![t].block = b]
        /\ device' = device
    BY <1>4 DEF Finalize, RunFinalizer, KeyMissing
  <2>2. loc' = loc
    BY <2>1 DEF ShapeInv, Typed, Locals
  <2>3. /\ pc' \in [Threads -> Places] /\ loc' \in [Threads -> Locals]
        /\ pc'[t] = "append" /\ OthersStay(t)
    BY <2>1, <2>2, GotoLocals DEF Places
  <2>4. Typed'
    BY <2>1, <2>3 DEF Finalize, RunFinalizer, ShapeInv, Typed, queue, deferring
  <2>5. Shape(t)'
    BY <1>1, <2>2, <2>3 DEF ShapeInv, Shape, WithBlock
  <2> QED  BY <1>1, <2>1, <2>2, <2>3, <2>4, <2>5, ShapeStep
<1> QED  BY <1>2, <1>3, <1>4

LEMMA AddItemStep ==
  ASSUME ShapeInv, NEW t \in Threads, AddItem(t)
  PROVE  /\ ShapeInv' /\ OthersStay(t) /\ loc[t].block \in Blocks
         /\ pc'[t] = "add" /\ loc' = loc
<1>1. loc[t].block \in Blocks /\ Goto(t, "add") /\ loc' = loc
  BY DEF ShapeInv, Shape, WithBlock, AddItem
<1>2. /\ pc' \in [Threads -> Places] /\ loc' \in [Threads -> Locals]
      /\ pc'[t] = "add" /\ OthersStay(t)
  BY <1>1, GotoLocals DEF Places
<1>3. cons' \in Seq(Blocks)
  BY <1>1 DEF ShapeInv, Typed, AddItem
<1>4. Typed'
  BY <1>2, <1>3 DEF AddItem, ShapeInv, Typed, manager, deferring
<1>5. Shape(t)'
  BY <1>1, <1>2 DEF ShapeInv, Shape, WithBlock, AddItem
<1> QED  BY <1>1, <1>2, <1>4, <1>5, ShapeStep

(* What the thread still has to do, and has seen, is as it was.            *)
Keeps(t) ==
    /\ loc'[t].todo = loc[t].todo /\ loc'[t].queued = loc[t].queued
    /\ loc'[t].ignored = loc[t].ignored /\ loc'[t].deferred = loc[t].deferred

LEMMA ReadSizeStep ==
  ASSUME ShapeInv, NEW t \in Threads, ReadSize(t)
  PROVE  ShapeInv' /\ OthersStay(t) /\ pc'[t] = "count" /\ Keeps(t)
<1> DEFINE i == size + Bytes(loc[t].block)
           r == [loc[t] EXCEPT !.bytes = i]
<1>1. loc[t] \in Locals /\ i \in Int /\ pc[t] = "add"
  BY DEF ShapeInv, Typed, Bytes, ReadSize
<1>2. /\ r \in Locals /\ r.block = loc[t].block /\ r.after = loc[t].after
      /\ r.todo = loc[t].todo /\ r.queued = loc[t].queued
      /\ r.ignored = loc[t].ignored /\ r.deferred = loc[t].deferred
  BY <1>1 DEF Locals
<1>3. Goto(t, "count") /\ loc' = [loc EXCEPT ![t] = r]
  BY DEF ReadSize, ShapeInv, Typed
<1>4. /\ pc' \in [Threads -> Places] /\ loc' \in [Threads -> Locals]
      /\ pc'[t] = "count" /\ loc'[t] = r /\ OthersStay(t)
  <2> HIDE DEF r
  <2> QED  BY <1>2, <1>3, MoveLocals DEF Places
<1>5. Typed'
  BY <1>4 DEF ReadSize, ShapeInv, Typed, manager, queue, deferring
<1>6. Shape(t)'
  <2> HIDE DEF r
  <2> QED  BY <1>1, <1>2, <1>4 DEF ShapeInv, Shape, WithBlock
<1> QED  BY <1>2, <1>4, <1>5, <1>6, ShapeStep DEF Keeps

LEMMA CheckLimitsStep ==
  ASSUME ShapeInv, NEW t \in Threads, CheckLimits(t)
  PROVE  /\ ShapeInv' /\ OthersStay(t)
         /\ IF OverLimit(loc[t].bytes) THEN pc'[t] = "clear" /\ Keeps(t)
            ELSE Returned(t)
<1>1. /\ loc[t] \in Locals /\ size' \in Int /\ pc[t] = "count"
      /\ loc[t].after # "retry"
  BY DEF ShapeInv, Typed, CheckLimits, Locals, Shape
<1>2. CASE OverLimit(loc[t].bytes)
  <2> DEFINE r == [loc[t] EXCEPT !.block = None]
  <2>1. /\ r \in Locals /\ r.after = loc[t].after
        /\ r.todo = loc[t].todo /\ r.queued = loc[t].queued
        /\ r.ignored = loc[t].ignored /\ r.deferred = loc[t].deferred
    BY <1>1 DEF Locals
  <2>2. Goto(t, "clear") /\ loc' = [loc EXCEPT ![t] = r]
    BY <1>2 DEF CheckLimits, ShapeInv, Typed
  <2> HIDE DEF r
  <2>3. /\ pc' \in [Threads -> Places] /\ loc' \in [Threads -> Locals]
        /\ pc'[t] = "clear" /\ loc'[t] = r /\ OthersStay(t)
    BY <2>1, <2>2, MoveLocals DEF Places
  <2>4. Typed'
    BY <1>1, <2>3 DEF CheckLimits, ShapeInv, Typed, manager, deferring
  <2>5. Shape(t)'
    BY <1>1, <2>1, <2>3 DEF ShapeInv, Shape, WithBlock
  <2> QED  BY <1>2, <2>1, <2>3, <2>4, <2>5, ShapeStep DEF Keeps
<1>3. CASE ~OverLimit(loc[t].bytes)
  <2>1. Return(t)
    BY <1>3 DEF CheckLimits
  <2>2. Returned(t)
    BY <2>1, ReturnLocals DEF Returned, Ended
  <2>3. Typed'
    BY <1>1, <2>1, ReturnLocals DEF CheckLimits, ShapeInv, Typed, manager, deferring
  <2> QED  BY <1>3, <2>1, <2>2, <2>3, ReturnLocals, ReturnShape, ShapeStep
<1> QED  BY <1>2, <1>3

(* A thread that finds the queue empty returns; or it goes on to flush it. *)
LEMMA LoopTestStep ==
  ASSUME ShapeInv, NEW t \in Threads, LoopTest(t)
  PROVE  /\ pc' \in [Threads -> Places] /\ loc' \in [Threads -> Locals]
         /\ size' \in Int /\ excused' \in BOOLEAN
         /\ OthersStay(t)
         /\ IF cons = << >> THEN Returned(t) /\ excused' = FALSE
            ELSE pc'[t] = "pop" /\ loc' = loc /\ excused' = excused
<1>1. CASE cons = << >>
  <2>1. Return(t) /\ size' = 0 /\ excused' = FALSE
    BY <1>1 DEF LoopTest
  <2>2. Returned(t)
    BY <2>1, ReturnLocals DEF Returned, Ended
  <2>3. size' \in Int
    BY <2>1
  <2>4. excused' \in BOOLEAN
    BY <2>1
  <2> QED  BY <1>1, <2>1, <2>2, <2>3, <2>4, ReturnLocals
<1>2. CASE cons # << >>
  <2>1. Goto(t, "pop") /\ UNCHANGED << size, excused, loc >>
    BY <1>2 DEF LoopTest
  <2> QED  BY <1>2, <2>1, GotoLocals DEF Places, ShapeInv, Typed
<1> QED  BY <1>1, <1>2

LEMMA LoopStep ==
  ASSUME ShapeInv, NEW t \in Threads, Loop(t)
  PROVE  /\ ShapeInv' /\ OthersStay(t)
         /\ IF cons = << >> THEN Returned(t) /\ excused' = FALSE
            ELSE pc'[t] = "pop" /\ loc' = loc /\ excused' = excused
<1>1. LoopTest(t) /\ pc[t] = "loop"
  BY DEF Loop
<1>2. Typed'
  BY <1>1, LoopTestStep DEF Loop, ShapeInv, Typed, manager, deferring
<1>3. Shape(t)'
  <2>1. CASE cons = << >>
    BY <1>1, <2>1, LoopTestStep, ReturnShape
  <2>2. CASE cons # << >>
    BY <1>1, <2>2, LoopTestStep DEF ShapeInv, Shape, WithBlock
  <2> QED  BY <2>1, <2>2
<1> QED  BY <1>1, <1>2, <1>3, LoopTestStep, ShapeStep

LEMMA ClearStep ==
  ASSUME ShapeInv, NEW t \in Threads, Clear(t)
  PROVE  /\ ShapeInv' /\ OthersStay(t)
         /\ IF is_disabled
            THEN /\ excused' = TRUE
                 /\ \/ Returned(t) /\ loc[t].after # "retry"
                    \/ /\ pc'[t] = "retry" /\ loc'[t].deferred = TRUE
                       /\ loc'[t].todo = loc[t].todo /\ loc'[t].queued = loc[t].queued
                       /\ loc'[t].ignored = loc[t].ignored
            ELSE IF cons = << >> THEN Returned(t) /\ excused' = FALSE
            ELSE /\ pc'[t] = "pop" /\ excused' = excused
                 /\ loc'[t].todo = loc[t].todo /\ loc'[t].queued = loc[t].queued
                 /\ loc'[t].ignored = Deferring /\ loc'[t].deferred = loc[t].deferred
<1>1. pc[t] = "clear" /\ loc[t] \in Locals
  BY DEF Clear, ShapeInv, Typed
<1>2. CASE is_disabled /\ loc[t].after = "retry"
  <2> DEFINE r == [loc[t] EXCEPT !.deferred = TRUE]
  <2>1. /\ r \in Locals /\ r.after = loc[t].after /\ r.deferred = TRUE
        /\ r.todo = loc[t].todo /\ r.queued = loc[t].queued
        /\ r.ignored = loc[t].ignored
    BY <1>1 DEF Locals
  <2>2. Goto(t, "retry") /\ loc' = [loc EXCEPT ![t] = r] /\ excused' = TRUE
    BY <1>2 DEF Clear, ShapeInv, Typed
  <2> HIDE DEF r
  <2>3. /\ pc' \in [Threads -> Places] /\ loc' \in [Threads -> Locals]
        /\ pc'[t] = "retry" /\ loc'[t] = r /\ OthersStay(t)
    BY <2>1, <2>2, MoveLocals DEF Places
  <2>4. excused' \in BOOLEAN /\ size' \in Int
    BY <1>2, <2>2 DEF Clear, ShapeInv, Typed
  <2>5. Typed'
    BY <2>3, <2>4 DEF Clear, ShapeInv, Typed, manager, deferring
  <2>6. Shape(t)'
    BY <1>1, <2>1, <2>3 DEF ShapeInv, Shape, WithBlock
  <2> QED  BY <1>2, <2>1, <2>2, <2>3, <2>5, <2>6, ShapeStep
<1>3. CASE is_disabled /\ loc[t].after # "retry"
  <2>1. Return(t) /\ excused' = TRUE
    BY <1>3 DEF Clear
  <2>2. Returned(t)
    BY <2>1, ReturnLocals DEF Returned, Ended
  <2>3. excused' \in BOOLEAN /\ size' \in Int
    BY <1>3, <2>1 DEF Clear, ShapeInv, Typed
  <2>4. Typed'
    BY <2>1, <2>3, ReturnLocals DEF Clear, ShapeInv, Typed, manager, deferring
  <2> QED  BY <1>3, <2>1, <2>2, <2>4, ReturnLocals, ReturnShape, ShapeStep
<1>4. CASE ~is_disabled /\ cons = << >>
  <2>1. LoopTest(t)
    BY <1>4 DEF Clear
  <2>2. Typed'
    BY <2>1, LoopTestStep DEF Clear, ShapeInv, Typed, manager, deferring
  <2> QED  BY <1>4, <2>1, <2>2, LoopTestStep, ReturnShape, ShapeStep
<1>5. CASE ~is_disabled /\ cons # << >>
  <2> DEFINE r == [loc[t] EXCEPT !.ignored = Deferring]
  <2>1. /\ r \in Locals /\ r.after = loc[t].after /\ r.deferred = loc[t].deferred
        /\ r.todo = loc[t].todo /\ r.queued = loc[t].queued
        /\ r.ignored = Deferring
    BY <1>1 DEF Locals, Deferring
  <2>2. /\ Goto(t, "pop") /\ loc' = [loc EXCEPT ![t] = r]
        /\ UNCHANGED << size, excused >>
    BY <1>5 DEF Clear, ShapeInv, Typed
  <2> HIDE DEF r
  <2>3. /\ pc' \in [Threads -> Places] /\ loc' \in [Threads -> Locals]
        /\ pc'[t] = "pop" /\ loc'[t] = r /\ OthersStay(t)
    BY <2>1, <2>2, MoveLocals DEF Places
  <2>5. Typed'
    BY <2>2, <2>3 DEF Clear, ShapeInv, Typed, manager, deferring
  <2>6. Shape(t)'
    BY <1>1, <2>1, <2>3 DEF ShapeInv, Shape, WithBlock
  <2> QED  BY <1>5, <2>1, <2>2, <2>3, <2>5, <2>6, ShapeStep
<1> QED  BY <1>2, <1>3, <1>4, <1>5

LEMMA PopLeftStep ==
  ASSUME ShapeInv, NEW t \in Threads, PopLeft(t)
  PROVE  /\ ShapeInv' /\ OthersStay(t)
         /\ IF cons = << >> THEN Raised(t) /\ cons' = cons
            ELSE /\ pc'[t] = "destroy" /\ Keeps(t)
                 /\ loc'[t].block = Head(cons) /\ cons' = Tail(cons)
<1>1. pc[t] = "pop" /\ loc[t] \in Locals
  BY DEF PopLeft, ShapeInv, Typed
<1>2. CASE cons = << >>
  <2>1. Raise(t) /\ cons' = cons
    BY <1>2 DEF PopLeft
  <2>2. /\ pc' \in [Threads -> Places] /\ loc' \in [Threads -> Locals]
        /\ OthersStay(t) /\ Raised(t)
    BY <2>1, RaiseLocals DEF Raised, Ended
  <2>3. Typed'
    BY <2>1, <2>2 DEF PopLeft, ShapeInv, Typed, manager, deferring
  <2> QED  BY <1>2, <2>1, <2>2, <2>3, RaiseShape, ShapeStep
<1>3. CASE cons # << >>
  <2> DEFINE r == [loc[t] EXCEPT !.block = Head(cons)]
  <2>0. Head(cons) \in Blocks /\ Tail(cons) \in Seq(Blocks)
    BY <1>3, HeadTailProperties DEF ShapeInv, Typed
  <2>1. /\ r \in Locals /\ r.after = loc[t].after /\ r.block = Head(cons)
        /\ r.todo = loc[t].todo /\ r.queued = loc[t].queued
        /\ r.ignored = loc[t].ignored /\ r.deferred = loc[t].deferred
    BY <1>1, <2>0 DEF Locals
  <2>2. /\ Goto(t, "destroy") /\ loc' = [loc EXCEPT ![t] = r] /\ cons' = Tail(cons)
    BY <1>3 DEF PopLeft, ShapeInv, Typed
  <2> HIDE DEF r
  <2>3. /\ pc' \in [Threads -> Places] /\ loc' \in [Threads -> Locals]
        /\ pc'[t] = "destroy" /\ loc'[t] = r /\ OthersStay(t)
    BY <2>1, <2>2, MoveLocals DEF Places
  <2>4. Typed'
    BY <2>0, <2>2, <2>3 DEF PopLeft, ShapeInv, Typed, manager, deferring
  <2>5. Shape(t)'
    BY <1>1, <2>0, <2>1, <2>3 DEF ShapeInv, Shape, WithBlock
  <2> QED  BY <1>3, <2>1, <2>2, <2>3, <2>4, <2>5, ShapeStep DEF Keeps
<1> QED  BY <1>2, <1>3

LEMMA DestroyStep ==
  ASSUME ShapeInv, NEW t \in Threads, Destroy(t)
  PROVE  /\ ShapeInv' /\ OthersStay(t) /\ loc[t].block \in Blocks
         /\ pc'[t] = "loop" /\ loc'[t].todo = loc[t].todo
         /\ loc'[t].ignored = loc[t].ignored
         /\ \A u \in Threads : loc'[u].queued = loc[u].queued \ {loc[t].block}
<1> DEFINE r(u) == [loc[u] EXCEPT !.queued = @ \ {loc[t].block},
                                  !.block = IF u = t THEN None ELSE @]
<1>1. /\ pc[t] = "destroy" /\ loc[t].block \in Blocks
      /\ \A u \in Threads : loc[u] \in Locals
  BY DEF Destroy, ShapeInv, Typed, Shape, WithBlock
<1>2. loc' = [u \in Threads |-> r(u)] /\ Goto(t, "loop")
  BY DEF Destroy
<1>3. \A u \in Threads :
        /\ r(u) \in Locals /\ r(u).after = loc[u].after
        /\ r(u).block = IF u = t THEN None ELSE loc[u].block
        /\ r(u).todo = loc[u].todo /\ r(u).queued = loc[u].queued \ {loc[t].block}
        /\ r(u).ignored = loc[u].ignored /\ r(u).deferred = loc[u].deferred
  <2> TAKE u \in Threads
  <2> DEFINE b == IF u = t THEN None ELSE loc[u].block
             S == loc[u].queued \ {loc[t].block}
  <2>1. loc[u] \in Locals /\ b \in Blocks \cup {None} /\ S \in SUBSET Blocks
    BY <1>1 DEF Locals
  <2>2. r(u) = [loc[u] EXCEPT !.queued = S, !.block = b]
    OBVIOUS
  <2> HIDE DEF r, b, S
  <2>3. r(u) \in Locals
    BY <2>1, <2>2 DEF Locals
  <2>4. /\ r(u).after = loc[u].after /\ r(u).block = b /\ r(u).todo = loc[u].todo
        /\ r(u).queued = S /\ r(u).ignored = loc[u].ignored
        /\ r(u).deferred = loc[u].deferred
    BY <2>1, <2>2 DEF Locals
  <2> QED  BY <2>3, <2>4 DEF b, S
<1> HIDE DEF r
<1>4. /\ pc' \in [Threads -> Places] /\ pc'[t] = "loop"
      /\ \A u \in Threads : u # t => pc'[u] = pc[u]
  BY <1>2 DEF Goto, ShapeInv, Typed, Places
<1>5. /\ loc' \in [Threads -> Locals]
      /\ \A u \in Threads : loc'[u] = r(u)
  BY <1>2, <1>3
<1>6. OthersStay(t)
  BY <1>3, <1>4, <1>5 DEF OthersStay
<1>7. Typed'
  BY <1>4, <1>5 DEF Destroy, ShapeInv, Typed, manager, queue, deferring
<1>8. Shape(t)'
  BY <1>1, <1>3, <1>4, <1>5 DEF ShapeInv, Shape, WithBlock
<1> QED  BY <1>1, <1>3, <1>4, <1>5, <1>6, <1>7, <1>8, ShapeStep

LEMMA DestroyFailsStep ==
  ASSUME ShapeInv, NEW t \in Threads, DestroyFails(t)
  PROVE  ShapeInv' /\ OthersStay(t) /\ loc[t].block \in Blocks /\ Raised(t)
<1>1. Raise(t) /\ loc[t].block \in Blocks /\ excused' = TRUE
  BY DEF DestroyFails, ShapeInv, Shape, WithBlock
<1>2. /\ pc' \in [Threads -> Places] /\ loc' \in [Threads -> Locals]
      /\ OthersStay(t) /\ Raised(t)
  BY <1>1, RaiseLocals DEF Raised, Ended
<1>3. excused' \in BOOLEAN
  BY <1>1
<1>4. Typed'
  BY <1>1, <1>2, <1>3 DEF DestroyFails, ShapeInv, Typed, manager, queue, deferring
<1> QED  BY <1>1, <1>2, <1>4, RaiseShape, ShapeStep

LEMMA DeferEnterStep ==
  ASSUME ShapeInv, NEW t \in Threads, DeferEnter(t)
  PROVE  ShapeInv' /\ OthersStay(t)
<1>1. /\ entries \in Nat /\ entries' = entries + 1
      /\ disableCount \in Int /\ disableCount' = disableCount + 1
  BY DEF DeferEnter, ShapeInv, Typed
<1>2. entries' \in Nat /\ disableCount' \in Int
  BY <1>1
<1>3. defers' \in [Threads -> Nat]
  BY DEF DeferEnter, ShapeInv, Typed
<1>4. Typed'
  BY <1>2, <1>3 DEF DeferEnter, ShapeInv, Typed, manager, queue
<1>5. Shape(t)' /\ OthersStay(t)
  BY DEF DeferEnter, ShapeInv, Shape, OthersStay
<1> QED  BY <1>4, <1>5, ShapeStep

LEMMA DeferExitStep ==
  ASSUME ShapeInv, NEW t \in Threads, DeferExit(t)
  PROVE  ShapeInv' /\ OthersStay(t)
<1>1. disableCount' \in Int
  BY DEF DeferExit, ShapeInv, Typed
<1>3. defers' \in [Threads -> Nat]
  BY DEF DeferExit, ShapeInv, Typed
<1>4. Typed'
  BY <1>1, <1>3 DEF DeferExit, ShapeInv, Typed, manager, queue
<1>5. Shape(t)' /\ OthersStay(t)
  BY DEF DeferExit, ShapeInv, Shape, OthersStay
<1> QED  BY <1>4, <1>5, ShapeStep

LEMMA ResetStep ==
  ASSUME ShapeInv, NEW t \in Threads, Reset(t)
  PROVE  /\ ShapeInv' /\ OthersStay(t) /\ pc'[t] = "reset"
         /\ loc'[t].todo = allocations \ InFrames
         /\ loc'[t].queued = {} /\ loc'[t].ignored = {}
<1> DEFINE S == allocations \ InFrames
           r == [NoLocals EXCEPT !.todo = S, !.after = "reset"]
<1>1. S \in SUBSET Blocks
  BY DEF ShapeInv, Typed
<1>2. /\ r \in Locals /\ r.after = "reset" /\ r.todo = S
      /\ r.queued = {} /\ r.ignored = {}
  <2> HIDE DEF S
  <2>1. /\ r \in Locals
    BY <1>1, NoLocalsType, LocalsUpdate
  <2>2. /\ r.after = "reset" /\ r.todo = S /\ r.queued = {} /\ r.ignored = {}
    BY DEF NoLocals
  <2> QED  BY <2>1, <2>2
<1>3. Goto(t, "reset") /\ loc' = [loc EXCEPT ![t] = r]
  BY DEF Reset
<1> HIDE DEF r
<1>4. /\ pc' \in [Threads -> Places] /\ loc' \in [Threads -> Locals]
      /\ pc'[t] = "reset" /\ loc'[t] = r /\ OthersStay(t)
  BY <1>2, <1>3, MoveLocals DEF Places
<1>5. held' \in [Blocks -> Int] /\ allocations' \in SUBSET Blocks
  BY DEF Reset, ShapeInv, Typed
<1>6. resets \in Nat /\ resets' = resets + 1
  BY DEF Reset, ShapeInv, Typed
<1>7. resets' \in Nat
  BY <1>6
<1>8. Typed'
  BY <1>4, <1>5, <1>7 DEF Reset, ShapeInv, Typed, queue, deferring
<1>9. Shape(t)'
  BY <1>2, <1>4 DEF Shape, WithBlock
<1> QED  BY <1>2, <1>4, <1>8, <1>9, ShapeStep

LEMMA ResetFinalizesStep ==
  ASSUME ShapeInv, NEW t \in Threads, ResetFinalizes(t)
  PROVE  /\ ShapeInv' /\ OthersStay(t) /\ pc'[t] = "finalize"
         /\ loc'[t].block \in loc[t].todo
         /\ loc'[t].todo = loc[t].todo \ {loc'[t].block}
         /\ loc'[t].queued = loc[t].queued /\ loc'[t].ignored = loc[t].ignored
<1>1. PICK b \in loc[t].todo :
        loc' = [loc EXCEPT ![t].todo = @ \ {b}, ![t].block = b]
  BY DEF ResetFinalizes
<1>2. loc[t] \in Locals /\ pc[t] = "reset" /\ loc[t].after = "reset"
  BY DEF ResetFinalizes, ShapeInv, Typed, Shape
<1>3. b \in Blocks /\ loc[t].todo \in SUBSET Blocks
  BY <1>2 DEF Locals
<1> DEFINE r == [loc[t] EXCEPT !.todo = @ \ {b}, !.block = b]
<1>4. /\ r \in Locals /\ r.after = "reset" /\ r.block = b
      /\ r.todo = loc[t].todo \ {b} /\ r.queued = loc[t].queued
      /\ r.ignored = loc[t].ignored
  BY <1>2, <1>3 DEF Locals
<1>5. loc' = [loc EXCEPT ![t] = r]
  BY <1>1 DEF ShapeInv, Typed
<1>6. Goto(t, "finalize")
  BY DEF ResetFinalizes
<1> HIDE DEF r
<1>7. /\ pc' \in [Threads -> Places] /\ loc' \in [Threads -> Locals]
      /\ pc'[t] = "finalize" /\ loc'[t] = r /\ OthersStay(t)
  BY <1>4, <1>5, <1>6, MoveLocals DEF Places
<1>8. Typed'
  BY <1>7 DEF ResetFinalizes, ShapeInv, Typed, manager, queue, deferring
<1>9. Shape(t)'
  BY <1>3, <1>4, <1>7 DEF Shape, WithBlock
<1> QED  BY <1>4, <1>7, <1>8, <1>9, ShapeStep

LEMMA ResetFlushesStep ==
  ASSUME ShapeInv, NEW t \in Threads, ResetFlushes(t)
  PROVE  ShapeInv' /\ OthersStay(t) /\ pc'[t] = "clear" /\ loc'[t] = NoLocals
<1>1. Goto(t, "clear") /\ loc' = [loc EXCEPT ![t] = NoLocals]
  BY DEF ResetFlushes
<1>2. /\ pc' \in [Threads -> Places] /\ loc' \in [Threads -> Locals]
      /\ pc'[t] = "clear" /\ loc'[t] = NoLocals /\ OthersStay(t)
  BY <1>1, NoLocalsType, MoveLocals DEF Places
<1>3. Typed'
  BY <1>2 DEF ResetFlushes, ShapeInv, Typed, manager, queue, deferring
<1>4. Shape(t)'
  BY <1>2, NoLocalsType DEF Shape, WithBlock
<1> QED  BY <1>2, <1>3, <1>4, ShapeStep

(* Every step keeps the types and shapes.                                  *)
LEMMA ShapeNext == ShapeInv /\ [Next]_vars => ShapeInv'
<1> SUFFICES ASSUME ShapeInv, [Next]_vars PROVE ShapeInv'
  OBVIOUS
<1>1. CASE UNCHANGED vars
  BY <1>1 DEF vars, ShapeInv, Typed, Shape
<1>2. ASSUME NEW t \in Threads,
             \/ Allocate(t) \/ Attempt(t) \/ OutOfMemory(t) \/ AllocationFails(t)
             \/ Register(t) \/ Own(t) \/ View(t) \/ Drop(t) \/ Finalize(t)
             \/ AddItem(t) \/ ReadSize(t) \/ CheckLimits(t) \/ Clear(t) \/ Loop(t)
             \/ PopLeft(t) \/ Destroy(t) \/ DestroyFails(t) \/ DeferEnter(t)
             \/ DeferExit(t) \/ Reset(t) \/ ResetFinalizes(t) \/ ResetFlushes(t)
      PROVE  ShapeInv'
  BY <1>2, AllocateStep, AttemptStep, OutOfMemoryStep, AllocationFailsStep, RegisterStep,
     OwnStep, ViewStep, DropStep, FinalizeStep, AddItemStep, ReadSizeStep,
     CheckLimitsStep, ClearStep, LoopStep, PopLeftStep, DestroyStep, DestroyFailsStep,
     DeferEnterStep, DeferExitStep, ResetStep, ResetFinalizesStep, ResetFlushesStep
<1> QED  BY <1>1, <1>2 DEF Next

-----------------------------------------------------------------------------
(* Who owns a block                                                        *)

Frames == {"own", "finalize"}

Hands == {"register", "append", "destroy"}

(* The pointers the user holds to a block are those its pointer object     *)
(* counts, as long as allocations keeps the object alive.                  *)
Counted == \A b \in Blocks :
    /\ held[b] >= 0 /\ refct[b] >= 0
    /\ held[b] > 0 => b \in alive
    /\ KindOf[b] = "pinned" => held[b] <= 1 /\ b \notin allocations
    /\ KindOf[b] # "pinned" =>
         IF b \in allocations THEN refct[b] = held[b] ELSE held[b] = 0

(* An object that allocations does not know any more, a reset has dropped. *)
Known ==
    /\ allocations \subseteq alive /\ alive \subseteq device
    /\ \A b \in alive : KindOf[b] # "pinned" /\ b \notin allocations => resets > 0

(* A pointer object in a thread's frame, or left to a reset to finalise,   *)
(* is that thread's alone and the user holds no pointer to it.             *)
FramesOwn == \A t \in Threads : pc[t] \in Frames =>
    /\ loc[t].block \in alive /\ held[loc[t].block] = 0
    /\ \A u \in Threads : u # t /\ pc[u] \in Frames => loc[u].block # loc[t].block
    /\ \A u \in Threads : loc[t].block \notin loc[u].todo

TodoOwn == \A t \in Threads :
    /\ \A b \in loc[t].todo : b \in alive \ allocations /\ held[b] = 0
    /\ \A u \in Threads : u # t => loc[u].todo \cap loc[t].todo = {}

ManagerInv == Counted /\ Known /\ FramesOwn /\ TodoOwn

(* A block whose finaliser has run is in the queue, once, or in the hands  *)
(* of one thread, and the driver still counts it as allocated.             *)
HandsOwn == \A t \in Threads : pc[t] \in Hands =>
    /\ loc[t].block \in device \ alive
    /\ loc[t].block \notin Pending
    /\ \A u \in Threads : u # t /\ pc[u] \in Hands => loc[u].block # loc[t].block

QueueOwn ==
    /\ Pending \subseteq device \ alive
    /\ \A i, j \in DOMAIN cons : cons[i] = cons[j] => i = j

OwnInv == ManagerInv /\ HandsOwn /\ QueueOwn


(* A step that leaves the pointer objects alone.                           *)
LEMMA ManagerQuiet ==
  ASSUME ShapeInv, ManagerInv, NEW t \in Threads, OthersStay(t),
         UNCHANGED << manager, resets >>, alive \subseteq device',
         pc'[t] \in Frames => pc[t] \in Frames /\ loc'[t].block = loc[t].block,
         loc'[t].todo \subseteq loc[t].todo
  PROVE  ManagerInv'
<1>1. Counted' /\ Known'
  BY DEF ManagerInv, Counted, Known, manager
<1>2. \A u \in Threads : pc'[u] \in Frames => pc[u] \in Frames /\ loc'[u].block = loc[u].block
  BY DEF OthersStay
<1>3. \A u \in Threads : loc'[u].todo \subseteq loc[u].todo
  BY DEF OthersStay
<1>4. FramesOwn'
  BY <1>2, <1>3 DEF ManagerInv, FramesOwn, manager
<1>5. TodoOwn'
  BY <1>3 DEF ManagerInv, TodoOwn, manager
<1> QED  BY <1>1, <1>4, <1>5 DEF ManagerInv

(* A step that leaves the queue alone, and the blocks on their way to it.  *)
LEMMA QueueQuiet ==
  ASSUME ShapeInv, HandsOwn, QueueOwn, NEW t \in Threads, OthersStay(t),
         UNCHANGED cons, device \ alive \subseteq device', alive' \subseteq alive,
         pc'[t] \in Hands => pc[t] \in Hands /\ loc'[t].block = loc[t].block
  PROVE  HandsOwn' /\ QueueOwn'
<1>1. \A u \in Threads : pc'[u] \in Hands => pc[u] \in Hands /\ loc'[u].block = loc[u].block
  BY DEF OthersStay
<1>2. Pending' = Pending
  BY DEF Pending
<1>3. HandsOwn'
  BY <1>1, <1>2 DEF HandsOwn
<1>4. QueueOwn'
  BY <1>2 DEF QueueOwn
<1> QED  BY <1>3, <1>4

(* What append and popleft do to the queue.                                *)
LEMMA PendingAppend ==
  ASSUME cons \in Seq(Blocks), NEW b \in Blocks, cons' = Append(cons, b)
  PROVE  /\ Pending' = Pending \cup {b}
         /\ (\A i, j \in DOMAIN cons : cons[i] = cons[j] => i = j) /\ b \notin Pending
              => \A i, j \in DOMAIN cons' : cons'[i] = cons'[j] => i = j
<1>1. /\ cons' \in Seq(Blocks) /\ Len(cons') = Len(cons) + 1
      /\ \A i \in 1 .. Len(cons) : cons'[i] = cons[i]
      /\ cons'[Len(cons) + 1] = b
  BY AppendProperties
<1>2. DOMAIN cons = 1 .. Len(cons) /\ DOMAIN cons' = 1 .. Len(cons) + 1 /\ Len(cons) \in Nat
  BY <1>1, LenProperties
<1>3. Pending' = Pending \cup {b}
  BY <1>1, <1>2 DEF Pending
<1>4. ASSUME \A i, j \in DOMAIN cons : cons[i] = cons[j] => i = j, b \notin Pending,
             NEW i \in DOMAIN cons', NEW j \in DOMAIN cons', cons'[i] = cons'[j]
      PROVE  i = j
  BY <1>1, <1>2, <1>4 DEF Pending
<1> QED  BY <1>3, <1>4

LEMMA PendingTail ==
  ASSUME cons \in Seq(Blocks), cons # << >>, cons' = Tail(cons),
         \A i, j \in DOMAIN cons : cons[i] = cons[j] => i = j
  PROVE  /\ Head(cons) \in Pending /\ Pending' = Pending \ {Head(cons)}
         /\ \A i, j \in DOMAIN cons' : cons'[i] = cons'[j] => i = j
<1>1. /\ Head(cons) = cons[1] /\ cons' \in Seq(Blocks) /\ Len(cons') = Len(cons) - 1
      /\ \A i \in 1 .. Len(cons') : cons'[i] = cons[i + 1]
  BY HeadTailProperties
<1>2. /\ DOMAIN cons = 1 .. Len(cons) /\ DOMAIN cons' = 1 .. Len(cons) - 1
      /\ Len(cons) \in Nat /\ Len(cons) # 0
  BY <1>1, LenProperties, EmptySeq
<1>3. Head(cons) \in Pending
  BY <1>1, <1>2 DEF Pending
<1>4. Pending' \subseteq Pending \ {Head(cons)}
  BY <1>1, <1>2 DEF Pending
<1>5. ASSUME NEW b \in Pending \ {Head(cons)}
      PROVE  b \in Pending'
  <2>1. PICK i \in 1 .. Len(cons) : cons[i] = b
    BY <1>2 DEF Pending
  <2>2. i # 1 /\ i - 1 \in 1 .. Len(cons')
    BY <1>1, <1>2, <2>1
  <2>3. cons'[i - 1] = b
    BY <1>1, <1>2, <2>1, <2>2
  <2> QED  BY <1>1, <1>2, <2>2, <2>3 DEF Pending
<1>6. \A i, j \in DOMAIN cons' : cons'[i] = cons'[j] => i = j
  BY <1>1, <1>2
<1> QED  BY <1>3, <1>4, <1>5, <1>6

(* The end of an operation leaves nothing in the thread's hands.           *)
LEMMA EndedOwns ==
  ASSUME NEW t \in Threads, Returned(t) \/ Raised(t)
  PROVE  /\ pc'[t] \notin Frames \cup Hands
         /\ loc'[t].todo \subseteq loc[t].todo
BY NoLocalsType DEF Returned, Raised, Ended, Frames, Hands

(* A new pointer object: the block was in nobody's frame.                  *)
LEMMA ManagerRegister ==
  ASSUME ShapeInv, OwnInv, NEW t \in Threads, Register(t)
  PROVE  ManagerInv'
<1> DEFINE b == loc[t].block
<1>1. /\ b \in Blocks /\ OthersStay(t) /\ pc[t] = "register"
      /\ loc'[t].todo \subseteq loc[t].todo
      /\ pc'[t] \in Frames => KindOf[b] # "pinned" /\ loc'[t].block = b
  BY RegisterStep, NoLocalsType DEF Register, Frames
<1>2. b \in device \ alive /\ b \notin allocations /\ held[b] = 0
  BY <1>1 DEF OwnInv, HandsOwn, Hands, ManagerInv, Known, Counted, ShapeInv, Typed
<1>3. /\ alive' = alive \cup {b} /\ device' = device /\ resets' = resets
      /\ IF KindOf[b] = "pinned"
         THEN held' = [held EXCEPT ![b] = 1] /\ UNCHANGED << allocations, refct >>
         ELSE /\ allocations' = allocations \cup {b}
              /\ refct' = [refct EXCEPT ![b] = 0] /\ held' = held
  BY DEF Register
<1>4. /\ \A c \in Blocks \ {b} : held'[c] = held[c] /\ refct'[c] = refct[c]
      /\ KindOf[b] = "pinned" => held'[b] = 1 /\ refct'[b] = refct[b]
      /\ KindOf[b] # "pinned" => held'[b] = 0 /\ refct'[b] = 0
  BY <1>2, <1>3 DEF ShapeInv, Typed
<1>5. Counted'
  BY <1>1, <1>2, <1>3, <1>4 DEF OwnInv, ManagerInv, Counted
<1>6. Known'
  BY <1>1, <1>2, <1>3 DEF OwnInv, ManagerInv, Known
<1>7. \A u \in Threads : pc[u] \in Frames => loc[u].block # b
  BY <1>2 DEF OwnInv, ManagerInv, FramesOwn
<1>8. \A u \in Threads : b \notin loc[u].todo
  BY <1>2 DEF OwnInv, ManagerInv, TodoOwn
<1>9. \A u \in Threads : loc'[u].todo \subseteq loc[u].todo
  BY <1>1 DEF OthersStay
<1>10. \A u \in Threads : u # t => pc'[u] = pc[u] /\ loc'[u].block = loc[u].block
  BY <1>1 DEF OthersStay
<1>11. ASSUME NEW u \in Threads, pc'[u] \in Frames
       PROVE  /\ loc'[u].block \in alive' /\ held'[loc'[u].block] = 0
              /\ \A v \in Threads : v # u /\ pc'[v] \in Frames => loc'[v].block # loc'[u].block
              /\ \A v \in Threads : loc'[u].block \notin loc'[v].todo
  <2>1. CASE u = t
    BY <1>1, <1>3, <1>4, <1>7, <1>8, <1>9, <1>10, <1>11, <2>1
  <2>2. CASE u # t
    <3>1. /\ pc[u] \in Frames /\ loc'[u].block = loc[u].block /\ loc[u].block # b
          /\ loc[u].block \in alive /\ held[loc[u].block] = 0 /\ loc[u].block \in Blocks
      BY <1>7, <1>10, <1>11, <2>2 DEF OwnInv, ManagerInv, FramesOwn, ShapeInv, Typed
    <3> QED  BY <1>1, <1>3, <1>4, <1>9, <1>10, <2>2, <3>1 DEF OwnInv, ManagerInv, FramesOwn
  <2> QED  BY <2>1, <2>2
<1>12. FramesOwn'
  BY <1>11 DEF FramesOwn
<1>13. TodoOwn'
  BY <1>3, <1>4, <1>8, <1>9 DEF OwnInv, ManagerInv, TodoOwn, ShapeInv, Typed
<1> QED  BY <1>5, <1>6, <1>12, <1>13 DEF ManagerInv

(* The pointers to one block that is in nobody's frame change; allocations *)
(* and alive do not.                                                       *)
LEMMA ManagerCounts ==
  ASSUME ShapeInv, ManagerInv, NEW t \in Threads, OthersStay(t), Counted',
         UNCHANGED << device, allocations, alive, resets >>, NEW b \in Blocks,
         \A c \in Blocks \ {b} : held'[c] = held[c],
         \A u \in Threads \ {t} : pc[u] \in Frames => loc[u].block # b,
         \A u \in Threads : b \notin loc[u].todo,
         loc'[t].todo \subseteq loc[t].todo,
         \/ pc'[t] \notin Frames
         \/ loc'[t].block = b /\ b \in alive /\ held'[b] = 0
  PROVE  ManagerInv'
<1>1. Known'
  BY DEF ManagerInv, Known
<1>2. \A u \in Threads : loc'[u].todo \subseteq loc[u].todo
  BY DEF OthersStay
<1>3. \A u \in Threads : u # t => pc'[u] = pc[u] /\ loc'[u].block = loc[u].block
  BY DEF OthersStay
<1>4. TodoOwn'
  <2>1. \A u \in Threads : \A c \in loc'[u].todo :
          c \in Blocks \ {b} /\ c \in alive \ allocations /\ held[c] = 0
    <3>1. alive \subseteq Blocks
      BY DEF ShapeInv, Typed
    <3>2. \A u \in Threads : \A c \in loc[u].todo : c # b
      OBVIOUS
    <3> QED  BY <1>2, <3>1, <3>2 DEF ManagerInv, TodoOwn
  <2> QED  BY <1>2, <2>1 DEF ManagerInv, TodoOwn
<1>5. ASSUME NEW u \in Threads, pc'[u] \in Frames
       PROVE  /\ loc'[u].block \in alive' /\ held'[loc'[u].block] = 0
              /\ \A v \in Threads : v # u /\ pc'[v] \in Frames => loc'[v].block # loc'[u].block
              /\ \A v \in Threads : loc'[u].block \notin loc'[v].todo
  <2>1. CASE u = t
    BY <1>2, <1>3, <1>5, <2>1
  <2>2. CASE u # t
    <3>1. /\ pc[u] \in Frames /\ loc'[u].block = loc[u].block /\ loc[u].block # b
          /\ loc[u].block \in alive /\ held[loc[u].block] = 0 /\ loc[u].block \in Blocks
      BY <1>3, <1>5, <2>2 DEF ManagerInv, FramesOwn, ShapeInv, Typed
    <3> QED  BY <1>2, <1>3, <2>2, <3>1 DEF ManagerInv, FramesOwn
  <2> QED  BY <2>1, <2>2
<1>6. FramesOwn'
  BY <1>5 DEF FramesOwn
<1> QED  BY <1>1, <1>4, <1>6 DEF ManagerInv

LEMMA ManagerOwn ==
  ASSUME ShapeInv, OwnInv, NEW t \in Threads, Own(t)
  PROVE  ManagerInv'
<1> DEFINE b == loc[t].block
<1>1. b \in Blocks /\ OthersStay(t) /\ pc[t] = "own"
  BY OwnStep DEF Own
<1>2. CASE b \in allocations
  <2>1. /\ UNCHANGED << device, allocations, alive, resets >>
        /\ refct' = [refct EXCEPT ![b] = refct[b] + 1]
        /\ held' = [held EXCEPT ![b] = held[b] + 1]
    BY <1>2 DEF Own
  <2>2. pc'[t] = "idle" /\ loc'[t].todo = {}
    BY <1>2, OwnStep, NoLocalsType
  <2>3. /\ b \in alive /\ KindOf[b] # "pinned" /\ held[b] = 0 /\ refct[b] = 0
        /\ \A u \in Threads \ {t} : pc[u] \in Frames => loc[u].block # b
        /\ \A u \in Threads : b \notin loc[u].todo
    BY <1>1, <1>2 DEF OwnInv, ManagerInv, FramesOwn, Frames, Counted
  <2>5. \A c \in Blocks \ {b} : held'[c] = held[c] /\ refct'[c] = refct[c]
    BY <2>1 DEF ShapeInv, Typed
  <2>6. held'[b] = 1 /\ refct'[b] = 1
    BY <1>1, <2>1, <2>3 DEF ShapeInv, Typed
  <2> HIDE DEF b
  <2>4. Counted'
    BY <1>1, <1>2, <2>1, <2>3, <2>5, <2>6 DEF OwnInv, ManagerInv, Counted
  <2> QED  BY <1>1, <2>1, <2>2, <2>3, <2>4, <2>5, ManagerCounts DEF OwnInv, Frames
<1>3. CASE b \notin allocations
  <2>1. UNCHANGED << manager, device, resets >>
    BY <1>3 DEF Own, manager
  <2>2. pc'[t] = "finalize" /\ loc' = loc
    BY <1>3, OwnStep
  <2> QED  BY <1>1, <2>1, <2>2, ManagerQuiet DEF OwnInv, ManagerInv, Known, Frames
<1> QED  BY <1>2, <1>3

LEMMA ManagerView ==
  ASSUME ShapeInv, OwnInv, NEW t \in Threads, View(t)
  PROVE  ManagerInv'
<1>1. PICK b \in Blocks :
         /\ KindOf[b] # "pinned" /\ held[b] \in 1 .. MaxRefs - 1
         /\ held' = [held EXCEPT ![b] = held[b] + 1]
         /\ refct' = [refct EXCEPT ![b] = refct[b] + 1]
  BY DEF View
<1>2. /\ UNCHANGED << device, allocations, alive, resets, pc, loc >>
      /\ pc[t] \notin Frames /\ OthersStay(t)
  BY ViewStep DEF View, Frames
<1>3. held[b] > 0
  BY <1>1, MemoryAssumption DEF ShapeInv, Typed
<1>4. /\ b \in alive /\ b \in allocations /\ refct[b] = held[b]
      /\ \A u \in Threads : pc[u] \in Frames => loc[u].block # b
      /\ \A u \in Threads : b \notin loc[u].todo
  BY <1>1, <1>3 DEF OwnInv, ManagerInv, Counted, FramesOwn, TodoOwn
<1>5. Counted'
  BY <1>1, <1>2, <1>3, <1>4 DEF OwnInv, ManagerInv, Counted, ShapeInv, Typed
<1>6. \A c \in Blocks \ {b} : held'[c] = held[c]
  BY <1>1 DEF ShapeInv, Typed
<1> QED  BY <1>1, <1>2, <1>4, <1>5, <1>6, ManagerCounts DEF OwnInv

LEMMA ManagerDrop ==
  ASSUME ShapeInv, OwnInv, NEW t \in Threads, Drop(t)
  PROVE  ManagerInv'
<1>1. PICK b \in Blocks : Dropped(t, b)
  BY DropStep
<1>2. /\ UNCHANGED << device, allocations, alive, resets >>
      /\ pc[t] = "idle" /\ OthersStay(t)
  BY DropStep DEF Drop
<1>3. /\ held[b] > 0 /\ b \in alive
      /\ \A u \in Threads : pc[u] \in Frames => loc[u].block # b
      /\ \A u \in Threads : b \notin loc[u].todo
  BY <1>1 DEF Dropped, OwnInv, ManagerInv, Counted, FramesOwn, TodoOwn
<1>4. \A c \in Blocks \ {b} : held'[c] = held[c] /\ refct'[c] = refct[c]
  BY <1>1 DEF Dropped, ShapeInv, Typed
<1>5. held'[b] = held[b] - 1
  BY <1>1 DEF Dropped, ShapeInv, Typed
<1>6. IF KindOf[b] = "pinned" THEN refct'[b] = refct[b] /\ held[b] = 1
      ELSE refct'[b] = refct[b] - 1 /\ b \in allocations /\ refct[b] = held[b]
  BY <1>1, <1>3 DEF Dropped, OwnInv, ManagerInv, Counted, ShapeInv, Typed
<1>7. held[b] \in Int /\ refct[b] \in Int
  BY DEF ShapeInv, Typed
<1>8. Counted'
  BY <1>2, <1>3, <1>4, <1>5, <1>6, <1>7 DEF OwnInv, ManagerInv, Counted
<1>9. \/ pc'[t] = "finalize" /\ loc'[t].block = b /\ loc'[t].todo = {} /\ held'[b] = 0
      \/ pc' = pc /\ loc' = loc
  <2>1. CASE KindOf[b] = "pinned" \/ refct'[b] = 0
    BY <1>1, <1>5, <1>6, <1>7, <2>1 DEF Dropped
  <2>2. CASE ~(KindOf[b] = "pinned" \/ refct'[b] = 0)
    BY <1>1, <2>2 DEF Dropped
  <2> QED  BY <2>1, <2>2
<1>10. \/ pc'[t] \notin Frames
       \/ loc'[t].block = b /\ b \in alive /\ held'[b] = 0
  BY <1>2, <1>3, <1>9 DEF Frames
<1>11. loc'[t].todo \subseteq loc[t].todo
  BY <1>9
<1> QED  BY <1>2, <1>3, <1>4, <1>8, <1>10, <1>11, ManagerCounts DEF OwnInv

LEMMA ManagerFinalize ==
  ASSUME ShapeInv, OwnInv, NEW t \in Threads, Finalize(t)
  PROVE  ManagerInv'
<1> DEFINE b == loc[t].block
<1>1. /\ b \in Blocks /\ OthersStay(t) /\ pc[t] = "finalize"
      /\ loc'[t].todo \subseteq loc[t].todo /\ pc'[t] \notin Frames
      /\ device \ {b} \subseteq device'
  BY FinalizeStep, EndedOwns DEF Finalize, Frames
<1>2. /\ alive' = alive \ {b} /\ allocations' = allocations \ {b}
      /\ held' = held /\ refct' = refct /\ resets' = resets
  BY DEF Finalize, RunFinalizer
<1>3. /\ held[b] = 0
      /\ \A u \in Threads : u # t /\ pc[u] \in Frames => loc[u].block # b
      /\ \A u \in Threads : b \notin loc[u].todo
  BY <1>1 DEF OwnInv, ManagerInv, FramesOwn, Frames
<1> HIDE DEF b
<1>4. Counted'
  BY <1>1, <1>2, <1>3 DEF OwnInv, ManagerInv, Counted
<1>5. Known'
  BY <1>1, <1>2 DEF OwnInv, ManagerInv, Known
<1>6. \A u \in Threads : loc'[u].todo \subseteq loc[u].todo
  BY <1>1 DEF OthersStay
<1>7. \A u \in Threads : pc'[u] \in Frames =>
        u # t /\ pc[u] \in Frames /\ loc'[u].block = loc[u].block
  BY <1>1 DEF OthersStay
<1>8. FramesOwn'
  BY <1>2, <1>3, <1>6, <1>7 DEF OwnInv, ManagerInv, FramesOwn
<1>9. TodoOwn'
  BY <1>2, <1>3, <1>6 DEF OwnInv, ManagerInv, TodoOwn
<1> QED  BY <1>4, <1>5, <1>8, <1>9 DEF ManagerInv

LEMMA ManagerReset ==
  ASSUME ShapeInv, OwnInv, NEW t \in Threads, Reset(t)
  PROVE  ManagerInv'
<1>1. /\ OthersStay(t) /\ pc[t] = "idle" /\ pc'[t] = "reset"
      /\ loc'[t].todo = allocations \ InFrames
  BY ResetStep DEF Reset
<1>2. /\ allocations' = {} /\ UNCHANGED << device, alive, refct >>
      /\ \A b \in Blocks : held'[b] = IF b \in allocations THEN 0 ELSE held[b]
  BY DEF Reset
<1>3. resets' > 0
  BY DEF Reset, ShapeInv, Typed
<1>4. alive \subseteq Blocks
  BY DEF ShapeInv, Typed
<1>5. Counted'
  BY <1>2 DEF OwnInv, ManagerInv, Counted
<1>6. Known'
  BY <1>2, <1>3 DEF OwnInv, ManagerInv, Known
<1>7. \A u \in Threads : pc'[u] \in Frames =>
        u # t /\ pc[u] \in Frames /\ loc'[u].block = loc[u].block
  BY <1>1 DEF OthersStay, Frames
<1>8. \A u \in Threads : u # t => loc'[u].todo = loc[u].todo
  BY <1>1 DEF OthersStay
<1>9. \A u \in Threads : pc[u] \in Frames => loc[u].block \in InFrames
  BY DEF Frames, InFrames
<1>10. FramesOwn'
  <2>1. ASSUME NEW u \in Threads, pc'[u] \in Frames
        PROVE  /\ loc'[u].block \in alive' /\ held'[loc'[u].block] = 0
               /\ \A v \in Threads : loc'[u].block \notin loc'[v].todo
    BY <1>1, <1>2, <1>4, <1>7, <1>8, <1>9, <2>1 DEF OwnInv, ManagerInv, FramesOwn
  <2> QED  BY <1>7, <2>1 DEF OwnInv, ManagerInv, FramesOwn
<1>11. TodoOwn'
  <2>1. ASSUME NEW u \in Threads
        PROVE  /\ \A b \in loc'[u].todo : b \in alive' \ allocations' /\ held'[b] = 0
               /\ \A v \in Threads : v # u => loc'[v].todo \cap loc'[u].todo = {}
    <3>1. \A b \in loc'[u].todo : b \in alive /\ (b \in allocations \/ held[b] = 0)
      BY <1>1, <1>8 DEF OwnInv, ManagerInv, TodoOwn, Known
    <3>2. \A v \in Threads : v # u => loc'[v].todo \cap loc'[u].todo = {}
      BY <1>1, <1>8 DEF OwnInv, ManagerInv, TodoOwn
    <3> QED  BY <1>2, <1>4, <3>1, <3>2
  <2> QED  BY <2>1 DEF TodoOwn
<1> QED  BY <1>5, <1>6, <1>10, <1>11 DEF ManagerInv

LEMMA ManagerResetFinalizes ==
  ASSUME ShapeInv, OwnInv, NEW t \in Threads, ResetFinalizes(t)
  PROVE  ManagerInv'
<1>1. PICK b \in loc[t].todo : loc'[t].block = b /\ loc'[t].todo = loc[t].todo \ {b}
  BY ResetFinalizesStep
<1>2. OthersStay(t) /\ pc[t] = "reset"
  BY ResetFinalizesStep DEF ResetFinalizes
<1>3. UNCHANGED << device, allocations, alive, refct, held, resets >>
  BY DEF ResetFinalizes, manager
<1>4. b \in alive /\ held[b] = 0
  BY DEF OwnInv, ManagerInv, TodoOwn
<1>5. /\ \A u \in Threads : pc[u] \in Frames => loc[u].block # b
      /\ \A u \in Threads : u # t => b \notin loc[u].todo
  BY DEF OwnInv, ManagerInv, FramesOwn, TodoOwn
<1>6. Counted' /\ Known'
  BY <1>3 DEF OwnInv, ManagerInv, Counted, Known
<1>7. \A u \in Threads : u # t => /\ pc'[u] = pc[u] /\ loc'[u].block = loc[u].block
                                 /\ loc'[u].todo = loc[u].todo
  BY <1>2 DEF OthersStay
<1>8. \A u \in Threads : loc'[u].todo \subseteq loc[u].todo /\ b \notin loc'[u].todo
  BY <1>1, <1>5, <1>7
<1>9. ASSUME NEW u \in Threads, pc'[u] \in Frames
      PROVE  /\ loc'[u].block \in alive' /\ held'[loc'[u].block] = 0
             /\ \A v \in Threads : v # u /\ pc'[v] \in Frames => loc'[v].block # loc'[u].block
             /\ \A v \in Threads : loc'[u].block \notin loc'[v].todo
  <2>1. CASE u = t
    BY <1>1, <1>3, <1>4, <1>5, <1>7, <1>8, <2>1
  <2>2. CASE u # t
    BY <1>1, <1>3, <1>5, <1>7, <1>8, <1>9, <2>2 DEF OwnInv, ManagerInv, FramesOwn
  <2> QED  BY <2>1, <2>2
<1>10. FramesOwn'
  BY <1>9 DEF FramesOwn
<1>11. TodoOwn'
  BY <1>3, <1>8 DEF OwnInv, ManagerInv, TodoOwn
<1> QED  BY <1>6, <1>10, <1>11 DEF ManagerInv

(* The steps of the queue, and those that only move a thread.              *)
LEMMA ManagerSteps ==
  ASSUME ShapeInv, OwnInv, NEW t \in Threads,
         \/ Allocate(t) \/ Attempt(t) \/ OutOfMemory(t) \/ AllocationFails(t)
         \/ AddItem(t) \/ ReadSize(t) \/ CheckLimits(t) \/ Clear(t) \/ Loop(t)
         \/ PopLeft(t) \/ Destroy(t) \/ DestroyFails(t) \/ DeferEnter(t)
         \/ DeferExit(t) \/ ResetFlushes(t)
  PROVE  ManagerInv'
<1>1. alive \subseteq device
  BY DEF OwnInv, ManagerInv, Known
<1>2. CASE Allocate(t)
  BY <1>1, <1>2, AllocateStep, ManagerQuiet DEF Allocate, OwnInv, Frames
<1>3. CASE Attempt(t)
  BY <1>1, <1>3, AttemptStep, ManagerQuiet DEF Attempt, Granted, OwnInv, Frames
<1>4. CASE OutOfMemory(t)
  BY <1>1, <1>4, OutOfMemoryStep, NoLocalsType, ManagerQuiet
     DEF OutOfMemory, OwnInv, Frames
<1>5. CASE AllocationFails(t)
  BY <1>1, <1>5, AllocationFailsStep, NoLocalsType, ManagerQuiet
     DEF AllocationFails, OwnInv, Frames
<1>6. CASE AddItem(t)
  BY <1>1, <1>6, AddItemStep, ManagerQuiet DEF AddItem, OwnInv, Frames
<1>7. CASE ReadSize(t)
  BY <1>1, <1>7, ReadSizeStep, ManagerQuiet DEF ReadSize, Keeps, OwnInv, Frames
<1>8. CASE CheckLimits(t)
  BY <1>1, <1>8, CheckLimitsStep, EndedOwns, ManagerQuiet
     DEF CheckLimits, Keeps, OwnInv, Frames
<1>9. CASE Clear(t)
  <2>1. pc'[t] \notin Frames /\ loc'[t].todo \subseteq loc[t].todo /\ OthersStay(t)
    BY <1>9, ClearStep, EndedOwns DEF Frames
  <2> QED  BY <1>1, <1>9, <2>1, ManagerQuiet DEF Clear, OwnInv
<1>10. CASE Loop(t)
  <2>1. pc'[t] \notin Frames /\ loc'[t].todo \subseteq loc[t].todo /\ OthersStay(t)
    BY <1>10, LoopStep, EndedOwns DEF Frames
  <2> QED  BY <1>1, <1>10, <2>1, ManagerQuiet DEF Loop, OwnInv
<1>11. CASE PopLeft(t)
  <2>1. pc'[t] \notin Frames /\ loc'[t].todo \subseteq loc[t].todo /\ OthersStay(t)
    BY <1>11, PopLeftStep, EndedOwns DEF Frames, Keeps
  <2> QED  BY <1>1, <1>11, <2>1, ManagerQuiet DEF PopLeft, OwnInv
<1>12. CASE Destroy(t)
  <2>1. loc[t].block \notin alive
    BY <1>12 DEF Destroy, OwnInv, HandsOwn, Hands
  <2> QED  BY <1>1, <1>12, <2>1, DestroyStep, ManagerQuiet DEF Destroy, OwnInv, Frames
<1>13. CASE DestroyFails(t)
  BY <1>1, <1>13, DestroyFailsStep, EndedOwns, ManagerQuiet
     DEF DestroyFails, OwnInv, Frames
<1>14. CASE DeferEnter(t)
  BY <1>1, <1>14, DeferEnterStep, ManagerQuiet DEF DeferEnter, OwnInv, Frames
<1>15. CASE DeferExit(t)
  BY <1>1, <1>15, DeferExitStep, ManagerQuiet DEF DeferExit, OwnInv, Frames
<1>16. CASE ResetFlushes(t)
  BY <1>1, <1>16, ResetFlushesStep, NoLocalsType, ManagerQuiet
     DEF ResetFlushes, OwnInv, Frames
<1> QED  BY <1>2, <1>3, <1>4, <1>5, <1>6, <1>7, <1>8, <1>9, <1>10, <1>11, <1>12,
            <1>13, <1>14, <1>15, <1>16

(* The steps that give a block to a thread, or take it from one.           *)
LEMMA QueueAttempt ==
  ASSUME ShapeInv, OwnInv, NEW t \in Threads, Attempt(t)
  PROVE  HandsOwn' /\ QueueOwn'
<1> DEFINE b == loc'[t].block
<1>1. /\ OthersStay(t) /\ pc'[t] = "register" /\ b \in Blocks \ device
      /\ device' = device \cup {b}
  BY AttemptStep
<1>2. UNCHANGED << allocations, alive, cons >>
  BY DEF Attempt, Granted, manager, queue
<1>3. alive \subseteq device /\ Pending \subseteq device \ alive
  BY DEF OwnInv, ManagerInv, Known, QueueOwn
<1>4. Pending' = Pending
  BY <1>2 DEF Pending
<1>5. \A u \in Threads : u # t => pc'[u] = pc[u] /\ loc'[u].block = loc[u].block
  BY <1>1 DEF OthersStay
<1>6. \A u \in Threads : pc[u] \in Hands => loc[u].block # b
  BY <1>1 DEF OwnInv, HandsOwn
<1> HIDE DEF b
<1>7. HandsOwn'
  BY <1>1, <1>2, <1>3, <1>4, <1>5, <1>6 DEF OwnInv, HandsOwn, b
<1>8. QueueOwn'
  BY <1>1, <1>2, <1>3, <1>4 DEF OwnInv, QueueOwn
<1> QED  BY <1>7, <1>8

(* The block leaves its thread's hands, for alive or the queue.            *)
LEMMA QueueRegister ==
  ASSUME ShapeInv, OwnInv, NEW t \in Threads, Register(t)
  PROVE  HandsOwn' /\ QueueOwn'
<1> DEFINE b == loc[t].block
<1>1. /\ OthersStay(t) /\ b \in Blocks /\ pc'[t] \notin Hands
      /\ alive' = alive \cup {b} /\ UNCHANGED << device, cons >>
  BY RegisterStep DEF Register, queue, Hands
<1>2. /\ b \notin Pending
      /\ \A u \in Threads : u # t /\ pc[u] \in Hands => loc[u].block # b
  BY DEF Register, OwnInv, HandsOwn, Hands
<1>3. \A u \in Threads : pc'[u] \in Hands =>
        u # t /\ pc[u] \in Hands /\ loc'[u].block = loc[u].block
  BY <1>1 DEF OthersStay
<1>4. Pending' = Pending
  BY <1>1 DEF Pending
<1> HIDE DEF b
<1>5. HandsOwn'
  BY <1>1, <1>2, <1>3, <1>4 DEF OwnInv, HandsOwn
<1>6. QueueOwn'
  BY <1>1, <1>2, <1>4 DEF OwnInv, QueueOwn
<1> QED  BY <1>5, <1>6

LEMMA QueueAddItem ==
  ASSUME ShapeInv, OwnInv, NEW t \in Threads, AddItem(t)
  PROVE  HandsOwn' /\ QueueOwn'
<1> DEFINE b == loc[t].block
<1>1. /\ OthersStay(t) /\ b \in Blocks /\ pc'[t] \notin Hands
      /\ cons' = Append(cons, b) /\ UNCHANGED << device, alive >>
  BY AddItemStep DEF AddItem, manager, Hands
<1>2. /\ b \in device \ alive /\ b \notin Pending
      /\ \A u \in Threads : u # t /\ pc[u] \in Hands => loc[u].block # b
  BY DEF AddItem, OwnInv, HandsOwn, Hands
<1>3. \A u \in Threads : pc'[u] \in Hands =>
        u # t /\ pc[u] \in Hands /\ loc'[u].block = loc[u].block
  BY <1>1 DEF OthersStay
<1> HIDE DEF b
<1>4. /\ Pending' = Pending \cup {b}
      /\ \A i, j \in DOMAIN cons' : cons'[i] = cons'[j] => i = j
  BY <1>1, <1>2, PendingAppend DEF OwnInv, QueueOwn, ShapeInv, Typed
<1>5. HandsOwn'
  BY <1>1, <1>2, <1>3, <1>4 DEF OwnInv, HandsOwn
<1>6. QueueOwn'
  BY <1>1, <1>2, <1>4 DEF OwnInv, QueueOwn
<1> QED  BY <1>5, <1>6

LEMMA QueuePopLeft ==
  ASSUME ShapeInv, OwnInv, NEW t \in Threads, PopLeft(t)
  PROVE  HandsOwn' /\ QueueOwn'
<1>1. OthersStay(t) /\ UNCHANGED << device, alive >>
  BY PopLeftStep DEF PopLeft, manager
<1>2. CASE cons = << >>
  BY <1>1, <1>2, PopLeftStep, EndedOwns, QueueQuiet DEF OwnInv
<1>3. CASE cons # << >>
  <2> DEFINE b == Head(cons)
  <2>1. pc'[t] = "destroy" /\ loc'[t].block = b /\ cons' = Tail(cons)
    BY <1>3, PopLeftStep
  <2> HIDE DEF b
  <2>2. /\ b \in Pending /\ Pending' = Pending \ {b}
        /\ \A i, j \in DOMAIN cons' : cons'[i] = cons'[j] => i = j
    BY <1>3, <2>1, PendingTail DEF b, OwnInv, QueueOwn, ShapeInv, Typed
  <2>3. /\ b \in device \ alive
        /\ \A u \in Threads : pc[u] \in Hands => loc[u].block # b
    BY <2>2 DEF OwnInv, HandsOwn, QueueOwn
  <2>4. \A u \in Threads : u # t => pc'[u] = pc[u] /\ loc'[u].block = loc[u].block
    BY <1>1 DEF OthersStay
  <2>5. HandsOwn'
    BY <1>1, <2>1, <2>2, <2>3, <2>4 DEF OwnInv, HandsOwn
  <2>6. QueueOwn'
    BY <1>1, <2>2 DEF OwnInv, QueueOwn
  <2> QED  BY <2>5, <2>6
<1> QED  BY <1>2, <1>3

LEMMA QueueFinalize ==
  ASSUME ShapeInv, OwnInv, NEW t \in Threads, Finalize(t)
  PROVE  HandsOwn' /\ QueueOwn'
<1> DEFINE b == loc[t].block
<1>1. /\ OthersStay(t) /\ b \in alive /\ alive' = alive \ {b} /\ cons' = cons
      /\ alive \subseteq device
  BY FinalizeStep DEF Finalize, RunFinalizer, queue, OwnInv, ManagerInv, FramesOwn,
     Known, Frames
<1>2. /\ device \ alive \subseteq device'
      /\ \/ pc'[t] \notin Hands
         \/ pc'[t] = "append" /\ loc' = loc /\ device' = device
  BY <1>1, FinalizeStep, EndedOwns
<1>3. Pending' = Pending /\ b \notin Pending
  BY <1>1 DEF Pending, OwnInv, QueueOwn
<1>4. QueueOwn'
  BY <1>1, <1>2, <1>3 DEF OwnInv, QueueOwn
<1>5. \A u \in Threads : pc[u] \in Hands => loc[u].block # b
  BY <1>1 DEF OwnInv, HandsOwn
<1>6. \A u \in Threads : u # t => pc'[u] = pc[u] /\ loc'[u].block = loc[u].block
  BY <1>1 DEF OthersStay
<1> HIDE DEF b
<1>7. HandsOwn'
  BY <1>1, <1>2, <1>3, <1>5, <1>6 DEF OwnInv, HandsOwn, b
<1> QED  BY <1>4, <1>7

LEMMA QueueDestroy ==
  ASSUME ShapeInv, OwnInv, NEW t \in Threads, Destroy(t)
  PROVE  HandsOwn' /\ QueueOwn'
<1> DEFINE b == loc[t].block
<1>1. /\ OthersStay(t) /\ pc'[t] \notin Hands /\ device' = device \ {b}
      /\ UNCHANGED << alive, cons >>
  BY DestroyStep DEF Destroy, manager, queue, Hands
<1>2. /\ b \notin Pending
      /\ \A u \in Threads : u # t /\ pc[u] \in Hands => loc[u].block # b
  BY DEF Destroy, OwnInv, HandsOwn, Hands
<1>3. \A u \in Threads : pc'[u] \in Hands =>
        u # t /\ pc[u] \in Hands /\ loc'[u].block = loc[u].block
  BY <1>1 DEF OthersStay
<1>4. Pending' = Pending
  BY <1>1 DEF Pending
<1> HIDE DEF b
<1>5. HandsOwn'
  BY <1>1, <1>2, <1>3, <1>4 DEF OwnInv, HandsOwn
<1>6. QueueOwn'
  BY <1>1, <1>2, <1>4 DEF OwnInv, QueueOwn
<1> QED  BY <1>5, <1>6

(* The other steps.                                                        *)
LEMMA QueueSteps ==
  ASSUME ShapeInv, OwnInv, NEW t \in Threads,
         \/ Allocate(t) \/ OutOfMemory(t) \/ AllocationFails(t) \/ Own(t) \/ View(t)
         \/ Drop(t) \/ ReadSize(t) \/ CheckLimits(t) \/ Clear(t) \/ Loop(t)
         \/ DestroyFails(t) \/ DeferEnter(t) \/ DeferExit(t)
         \/ Reset(t) \/ ResetFinalizes(t) \/ ResetFlushes(t)
  PROVE  HandsOwn' /\ QueueOwn'
<1> USE QueueQuiet DEF OwnInv, Hands, manager, queue
<1>1. CASE Allocate(t)
  BY <1>1, AllocateStep DEF Allocate
<1>2. CASE OutOfMemory(t)
  BY <1>2, OutOfMemoryStep DEF OutOfMemory
<1>3. CASE AllocationFails(t)
  BY <1>3, AllocationFailsStep DEF AllocationFails
<1>4. CASE Own(t)
  BY <1>4, OwnStep DEF Own
<1>5. CASE View(t)
  BY <1>5, ViewStep DEF View
<1>6. CASE Drop(t)
  BY <1>6, DropStep DEF Drop, Dropped
<1>7. CASE ReadSize(t)
  BY <1>7, ReadSizeStep DEF ReadSize
<1>8. CASE CheckLimits(t)
  BY <1>8, CheckLimitsStep, EndedOwns DEF CheckLimits
<1>9. CASE Clear(t)
  BY <1>9, ClearStep, EndedOwns DEF Clear
<1>10. CASE Loop(t)
  BY <1>10, LoopStep, EndedOwns DEF Loop
<1>11. CASE DestroyFails(t)
  BY <1>11, DestroyFailsStep, EndedOwns DEF DestroyFails
<1>12. CASE DeferEnter(t)
  BY <1>12, DeferEnterStep DEF DeferEnter
<1>13. CASE DeferExit(t)
  BY <1>13, DeferExitStep DEF DeferExit
<1>14. CASE Reset(t)
  BY <1>14, ResetStep DEF Reset
<1>15. CASE ResetFinalizes(t)
  BY <1>15, ResetFinalizesStep DEF ResetFinalizes
<1>16. CASE ResetFlushes(t)
  BY <1>16, ResetFlushesStep DEF ResetFlushes
<1> QED  BY <1>1, <1>2, <1>3, <1>4, <1>5, <1>6, <1>7, <1>8, <1>9, <1>10, <1>11, <1>12,
            <1>13, <1>14, <1>15, <1>16

(* Ownership holds from the start and every step keeps it.                 *)
LEMMA OwnInit == Init => OwnInv
<1> SUFFICES ASSUME Init PROVE OwnInv
  OBVIOUS
<1>1. Counted
  BY DEF Init, Counted
<1>2. Known
  BY DEF Init, Known
<1>3. /\ \A t \in Threads : pc[t] = "idle" /\ loc[t].todo = {}
      /\ Pending = {} /\ DOMAIN cons = {}
  BY NoLocalsType DEF Init, Pending
<1>4. FramesOwn /\ TodoOwn
  BY <1>3 DEF FramesOwn, TodoOwn, Frames
<1>5. HandsOwn /\ QueueOwn
  BY <1>3 DEF HandsOwn, QueueOwn, Hands
<1> QED  BY <1>1, <1>2, <1>4, <1>5 DEF OwnInv, ManagerInv

LEMMA OwnNext == ShapeInv /\ OwnInv /\ [Next]_vars => OwnInv'
<1> SUFFICES ASSUME ShapeInv, OwnInv, [Next]_vars PROVE OwnInv'
  OBVIOUS
<1>1. CASE UNCHANGED vars
  <2>1. Counted' /\ Known' /\ FramesOwn' /\ TodoOwn'
    BY <1>1 DEF vars, OwnInv, ManagerInv, Counted, Known, FramesOwn, TodoOwn
  <2>2. Pending' = Pending
    BY <1>1 DEF vars, Pending
  <2>3. HandsOwn' /\ QueueOwn'
    BY <1>1, <2>2 DEF vars, OwnInv, HandsOwn, QueueOwn
  <2> QED  BY <2>1, <2>3 DEF OwnInv, ManagerInv
<1>2. ASSUME NEW t \in Threads,
             \/ Allocate(t) \/ Attempt(t) \/ OutOfMemory(t) \/ AllocationFails(t)
             \/ Register(t) \/ Own(t) \/ View(t) \/ Drop(t) \/ Finalize(t)
             \/ AddItem(t) \/ ReadSize(t) \/ CheckLimits(t) \/ Clear(t) \/ Loop(t)
             \/ PopLeft(t) \/ Destroy(t) \/ DestroyFails(t) \/ DeferEnter(t)
             \/ DeferExit(t) \/ Reset(t) \/ ResetFinalizes(t) \/ ResetFlushes(t)
      PROVE  OwnInv'
  <2>1. ManagerInv'
    BY <1>2, ManagerRegister, ManagerOwn, ManagerView, ManagerDrop, ManagerFinalize,
       ManagerReset, ManagerResetFinalizes, ManagerSteps
  <2>2. HandsOwn' /\ QueueOwn'
    BY <1>2, QueueAttempt, QueueRegister, QueueAddItem, QueuePopLeft, QueueFinalize,
       QueueDestroy, QueueSteps
  <2> QED  BY <2>1, <2>2 DEF OwnInv
<1> QED  BY <1>1, <1>2 DEF Next

LEMMA Ownership == Spec => [](ShapeInv /\ OwnInv)
<1>1. Init => ShapeInv /\ OwnInv
  BY ShapeInit, OwnInit
<1>2. ShapeInv /\ OwnInv /\ [Next]_vars => (ShapeInv /\ OwnInv)'
  BY ShapeNext, OwnNext
<1> QED  BY <1>1, <1>2, PTL DEF Spec

(* No pointer is stale: what the user holds is allocated, and nobody has   *)
(* begun to free it, for any number of threads, blocks, views and resets.  *)
THEOREM HeldBlocksAreLive == Spec => []HeldIsLive
<1>1. ShapeInv /\ OwnInv => HeldIsLive
  BY DEF OwnInv, ManagerInv, Counted, Known, HeldIsLive
<1> QED  BY <1>1, Ownership, PTL

(* A block is freed once: it waits in the queue once, or one thread has it,*)
(* and its address is not given out before.                                *)
THEOREM BlocksHaveOneOwner == Spec => []OneOwner
<1>1. ShapeInv /\ OwnInv => OneOwner
  <2> SUFFICES ASSUME ShapeInv, OwnInv PROVE OneOwner
    OBVIOUS
  <2>1. allocations \subseteq alive
    BY DEF OwnInv, ManagerInv, Known
  <2>2. \A b \in Pending : b \in device /\ b \notin alive /\ ~InHands(b)
    BY DEF OwnInv, QueueOwn, HandsOwn, Hands, InHands
  <2>3. \A t \in Threads : pc[t] \in {"register", "append", "destroy"} =>
         /\ loc[t].block \in device \ (alive \cup allocations)
         /\ \A u \in Threads \ {t} :
              pc[u] \in {"register", "append", "destroy"} => loc[u].block # loc[t].block
    BY <2>1 DEF OwnInv, HandsOwn, Hands
  <2> QED  BY <2>2, <2>3 DEF OneOwner, OwnInv, QueueOwn
<1> QED  BY <1>1, Ownership, PTL

-----------------------------------------------------------------------------
(* No memory is lost                                                       *)

(* Where a block that is still allocated can be.                           *)
Reachable(b) ==
    \/ b \in alive \/ b \in Pending \/ InHands(b) \/ b \in failed
    \/ KindOf[b] \in {"mapped", "registered"} /\ resets > 0

(* A step that moves one block, B, and leaves it somewhere.                *)
LEMMA LostStep ==
  ASSUME ShapeInv, NothingLost, NEW t \in Threads, OthersStay(t), NEW B,
         failed \subseteq failed', resets' \in Nat, resets' >= resets,
         device' \ {B} \subseteq device, alive \ {B} \subseteq alive',
         Pending \ {B} \subseteq Pending',
         pc[t] \in Hands => loc[t].block = B,
         B \in device' => Reachable(B)'
  PROVE  NothingLost'
<1> SUFFICES ASSUME NEW b \in device', b # B PROVE Reachable(b)'
  BY DEF NothingLost, Reachable
<1>1. b \in device
  OBVIOUS
<1>2. resets \in Nat
  BY DEF ShapeInv, Typed
<1>3. CASE InHands(b)
  <2>1. PICK u \in Threads : loc[u].block = b /\ pc[u] \in Hands
    BY <1>3 DEF InHands, Hands
  <2>2. u # t
    BY <2>1
  <2>3. loc'[u].block = b /\ pc'[u] \in Hands
    BY <2>1, <2>2 DEF OthersStay
  <2> QED  BY <2>3 DEF Reachable, InHands, Hands
<1>4. CASE b \in alive \/ b \in Pending \/ b \in failed
  BY <1>4 DEF Reachable
<1>5. CASE KindOf[b] \in {"mapped", "registered"} /\ resets > 0
  BY <1>2, <1>5 DEF Reachable
<1> QED  BY <1>1, <1>3, <1>4, <1>5 DEF NothingLost

LEMMA LostSteps ==
  ASSUME ShapeInv, OwnInv, NothingLost, NEW t \in Threads,
         \/ Allocate(t) \/ OutOfMemory(t) \/ AllocationFails(t) \/ Own(t) \/ View(t)
         \/ Drop(t) \/ ReadSize(t) \/ CheckLimits(t) \/ Clear(t) \/ Loop(t)
         \/ DeferEnter(t) \/ DeferExit(t)
         \/ Reset(t) \/ ResetFinalizes(t) \/ ResetFlushes(t)
  PROVE  NothingLost'
<1>1. pc[t] \notin Hands
  BY DEF Allocate, OutOfMemory, AllocationFails, Own, View, Drop, ReadSize, CheckLimits,
         Clear, Loop, DeferEnter, DeferExit, Reset, ResetFinalizes, ResetFlushes, Hands
<1>2. UNCHANGED << device, alive, cons, failed >>
  BY DEF Allocate, OutOfMemory, AllocationFails, Own, View, Drop, ReadSize, CheckLimits,
         Clear, Loop, DeferEnter, DeferExit, Reset, ResetFinalizes, ResetFlushes,
         manager, queue
<1>3. resets \in Nat /\ resets' \in Nat /\ resets' >= resets
  <2>1. resets \in Nat /\ (resets' = resets \/ resets' = resets + 1)
    BY DEF Allocate, OutOfMemory, AllocationFails, Own, View, Drop, ReadSize,
           CheckLimits, Clear, Loop, DeferEnter, DeferExit, Reset, ResetFinalizes,
           ResetFlushes, ShapeInv, Typed
  <2> QED  BY <2>1
<1>4. OthersStay(t)
  BY AllocateStep, OutOfMemoryStep, AllocationFailsStep, OwnStep, ViewStep, DropStep,
     ReadSizeStep, CheckLimitsStep, ClearStep, LoopStep, DeferEnterStep, DeferExitStep,
     ResetStep, ResetFinalizesStep, ResetFlushesStep
<1>5. None \notin device' /\ Pending' = Pending
  BY <1>2, MemoryAssumption DEF ShapeInv, Typed, Pending
<1> QED  BY <1>1, <1>2, <1>3, <1>4, <1>5, LostStep

(* A block that changes hands is not dropped on the way.                   *)
LEMMA LostMoves ==
  ASSUME ShapeInv, OwnInv, NothingLost, NEW t \in Threads,
         \/ Attempt(t) \/ Register(t) \/ Finalize(t) \/ AddItem(t) \/ PopLeft(t)
         \/ Destroy(t) \/ DestroyFails(t)
  PROVE  NothingLost'
<1>1. resets \in Nat /\ resets' \in Nat /\ resets' >= resets
  <2>1. resets' = resets
    BY DEF Attempt, Granted, Register, Finalize, AddItem, PopLeft, Destroy, DestroyFails
  <2> QED  BY <2>1 DEF ShapeInv, Typed
<1>2. CASE Attempt(t)
  <2>0. PICK b : b = loc'[t].block
    OBVIOUS
  <2>1. /\ OthersStay(t) /\ pc'[t] = "register" /\ device' = device \cup {b}
        /\ UNCHANGED << alive, failed, cons >> /\ pc[t] \notin Hands
    BY <1>2, <2>0, AttemptStep DEF Attempt, Granted, manager, queue, Hands
  <2>2. Reachable(b)' /\ Pending' = Pending
    BY <2>0, <2>1 DEF Reachable, InHands, Pending
  <2> QED  BY <1>1, <2>1, <2>2, <2>0, LostStep
<1>3. CASE Register(t)
  <2>0. PICK b : b = loc[t].block
    OBVIOUS
  <2>1. /\ OthersStay(t) /\ alive' = alive \cup {b}
        /\ UNCHANGED << device, failed, cons >>
    BY <1>3, <2>0, RegisterStep DEF Register, queue
  <2>2. Reachable(b)' /\ Pending' = Pending
    BY <2>1 DEF Reachable, Pending
  <2> QED  BY <1>1, <2>1, <2>2, <2>0, LostStep
<1>4. CASE Finalize(t)
  <2>0. PICK b : b = loc[t].block
    OBVIOUS
  <2>1. /\ OthersStay(t) /\ alive' = alive \ {b} /\ pc[t] \notin Hands
        /\ UNCHANGED << failed, cons, resets >> /\ b \in alive
    BY <1>4, <2>0, FinalizeStep DEF Finalize, RunFinalizer, queue, Hands, OwnInv, ManagerInv,
       FramesOwn, Frames
  <2>2. Pending' = Pending
    BY <2>1 DEF Pending
  <2>3. CASE KeyMissing(b) /\ device' = device
    <3>1. resets > 0
      BY <2>1, <2>3 DEF KeyMissing, OwnInv, ManagerInv, Known
    <3>2. Reachable(b)'
      BY <2>1, <2>3, <3>1 DEF Reachable, KeyMissing
    <3> QED  BY <1>1, <2>1, <2>2, <2>3, <3>2, <2>0, LostStep
  <2>4. CASE device' = device \ {b}
    BY <1>1, <2>1, <2>2, <2>4, <2>0, LostStep
  <2>5. CASE pc'[t] = "append" /\ loc' = loc /\ device' = device
    <3>1. Reachable(b)'
      BY <2>0, <2>1, <2>5 DEF Reachable, InHands
    <3> QED  BY <1>1, <2>1, <2>2, <2>5, <3>1, <2>0, LostStep
  <2> QED  BY <1>4, <2>0, <2>3, <2>4, <2>5, FinalizeStep
<1>5. CASE AddItem(t)
  <2>0. PICK b : b = loc[t].block
    OBVIOUS
  <2>1. /\ OthersStay(t) /\ cons' = Append(cons, b) /\ b \in Blocks
        /\ UNCHANGED << device, alive, failed >>
    BY <1>5, <2>0, AddItemStep DEF AddItem, manager
  <2>2. Pending' = Pending \cup {b}
    BY <2>0, <2>1, PendingAppend DEF ShapeInv, Typed
  <2>3. Reachable(b)'
    BY <2>2 DEF Reachable
  <2> QED  BY <1>1, <2>1, <2>2, <2>3, <2>0, LostStep
<1>6. CASE PopLeft(t) /\ cons = << >>
  <2>1. /\ OthersStay(t) /\ cons' = cons /\ pc[t] \notin Hands
        /\ UNCHANGED << device, alive, failed >>
    BY <1>6, PopLeftStep DEF PopLeft, manager, Hands
  <2>2. None \notin device' /\ Pending' = Pending
    BY <2>1, MemoryAssumption DEF ShapeInv, Typed, Pending
  <2> QED  BY <1>1, <2>1, <2>2, LostStep
<1>7. CASE PopLeft(t) /\ cons # << >>
  <2>0. PICK b : b = Head(cons)
    OBVIOUS
  <2>1. /\ OthersStay(t) /\ cons' = Tail(cons) /\ pc[t] \notin Hands
        /\ pc'[t] = "destroy" /\ loc'[t].block = b
        /\ UNCHANGED << device, alive, failed >>
    BY <1>7, <2>0, PopLeftStep DEF PopLeft, manager, Hands
  <2>2. Pending' = Pending \ {b}
    BY <1>7, <2>0, <2>1, PendingTail DEF ShapeInv, Typed, OwnInv, QueueOwn
  <2>3. Reachable(b)'
    BY <2>0, <2>1 DEF Reachable, InHands
  <2> QED  BY <1>1, <2>1, <2>2, <2>3, <2>0, LostStep
<1>8. CASE Destroy(t)
  <2>0. PICK b : b = loc[t].block
    OBVIOUS
  <2>1. /\ OthersStay(t) /\ device' = device \ {b}
        /\ UNCHANGED << alive, failed, cons >>
    BY <1>8, <2>0, DestroyStep DEF Destroy, manager, queue
  <2>2. Pending' = Pending
    BY <2>1 DEF Pending
  <2> QED  BY <1>1, <2>1, <2>2, <2>0, LostStep
<1>9. CASE DestroyFails(t)
  <2>0. PICK b : b = loc[t].block
    OBVIOUS
  <2>1. /\ OthersStay(t) /\ failed' = failed \cup {b}
        /\ UNCHANGED << device, alive, cons >>
    BY <1>9, <2>0, DestroyFailsStep DEF DestroyFails, manager, queue
  <2>2. Pending' = Pending /\ Reachable(b)'
    BY <2>1 DEF Pending, Reachable
  <2> QED  BY <1>1, <2>1, <2>2, <2>0, LostStep
<1> QED  BY <1>2, <1>3, <1>4, <1>5, <1>6, <1>7, <1>8, <1>9

(* Whatever is interrupted, an allocated block keeps a way to be freed,    *)
(* unless its destructor raised or a reset came between.                   *)
THEOREM NoBlockIsLost == Spec => []NothingLost
<1>1. Init => NothingLost
  BY DEF Init, NothingLost
<1>2. ShapeInv /\ OwnInv /\ NothingLost /\ [Next]_vars => NothingLost'
  <2> SUFFICES ASSUME ShapeInv, OwnInv, NothingLost, [Next]_vars PROVE NothingLost'
    OBVIOUS
  <2>1. CASE UNCHANGED vars
    BY <2>1 DEF vars, NothingLost, Pending, InHands
  <2>2. ASSUME NEW t \in Threads,
               \/ Allocate(t) \/ Attempt(t) \/ OutOfMemory(t) \/ AllocationFails(t)
               \/ Register(t) \/ Own(t) \/ View(t) \/ Drop(t) \/ Finalize(t)
               \/ AddItem(t) \/ ReadSize(t) \/ CheckLimits(t) \/ Clear(t) \/ Loop(t)
               \/ PopLeft(t) \/ Destroy(t) \/ DestroyFails(t) \/ DeferEnter(t)
               \/ DeferExit(t) \/ Reset(t) \/ ResetFinalizes(t) \/ ResetFlushes(t)
        PROVE  NothingLost'
    BY <2>2, LostSteps, LostMoves
  <2> QED  BY <2>1, <2>2 DEF Next
<1> QED  BY <1>1, <1>2, Ownership, PTL DEF Spec

-----------------------------------------------------------------------------
(* Deferred clean-up                                                       *)

(* The blocks of defer_cleanup that are entered, numbered in each thread.  *)
Entered == {p \in Threads \X Nat : p[2] \in 1 .. defers[p[1]]}

(* The shared counter counts them all, so a flush that finds it zero skips *)
(* nobody.                                                                 *)
DeferInv ==
    /\ IsFiniteSet(Entered) /\ disableCount = Cardinality(Entered)
    /\ \A t \in Threads : loc[t].ignored = {}

(* A flush starts only when nobody defers.                                 *)
LEMMA NobodyDefers ==
  ASSUME ShapeInv, DeferInv, ~is_disabled
  PROVE  Deferring = {}
<1>1. Cardinality(Entered) = 0
  <2>1. Cardinality(Entered) \in Nat
    BY FS_CardinalityType DEF DeferInv
  <2> QED  BY <2>1 DEF DeferInv, is_disabled
<1>2. Entered = {}
  BY <1>1, FS_EmptySet DEF DeferInv
<1>3. ASSUME NEW t \in Threads, defers[t] > 0
      PROVE  FALSE
  <2>1. << t, 1 >> \in Entered
    BY <1>3 DEF Entered, ShapeInv, Typed
  <2> QED  BY <1>2, <2>1
<1> QED  BY <1>3 DEF Deferring

LEMMA DeferInit == Init => DeferInv
<1> SUFFICES ASSUME Init PROVE DeferInv
  OBVIOUS
<1>1. Entered = {}
  BY DEF Init, Entered
<1>2. \A t \in Threads : loc[t].ignored = {}
  BY NoLocalsType DEF Init
<1> QED  BY <1>1, <1>2, FS_EmptySet DEF Init, DeferInv

LEMMA DeferNext == ShapeInv /\ DeferInv /\ [Next]_vars => DeferInv'
<1> SUFFICES ASSUME ShapeInv, DeferInv, [Next]_vars PROVE DeferInv'
  OBVIOUS
<1>1. CASE UNCHANGED vars
  BY <1>1 DEF vars, DeferInv, Entered
<1>2. ASSUME NEW t \in Threads, DeferEnter(t)
      PROVE  DeferInv'
  <2> DEFINE n == defers[t] + 1
  <2>1. /\ defers' = [defers EXCEPT ![t] = n] /\ disableCount' = disableCount + 1
        /\ loc' = loc /\ n \in Nat /\ defers \in [Threads -> Nat]
    BY <1>2 DEF DeferEnter, ShapeInv, Typed
  <2>2. Entered' = Entered \cup {<< t, n >>} /\ << t, n >> \notin Entered
    BY <2>1 DEF Entered
  <2>3. IsFiniteSet(Entered') /\ Cardinality(Entered') = Cardinality(Entered) + 1
    BY <2>2, FS_AddElement DEF DeferInv
  <2> QED  BY <2>1, <2>3 DEF DeferInv
<1>3. ASSUME NEW t \in Threads, DeferExit(t)
      PROVE  DeferInv'
  <2> DEFINE n == defers[t]
  <2>1. /\ defers' = [defers EXCEPT ![t] = n - 1] /\ disableCount' = disableCount - 1
        /\ loc' = loc /\ n \in Nat /\ n > 0 /\ defers \in [Threads -> Nat]
    BY <1>3 DEF DeferExit, ShapeInv, Typed
  <2>2. Entered' = Entered \ {<< t, n >>} /\ << t, n >> \in Entered
    BY <2>1 DEF Entered
  <2>3. IsFiniteSet(Entered') /\ Cardinality(Entered') = Cardinality(Entered) - 1
    BY <2>2, FS_RemoveElement DEF DeferInv
  <2> QED  BY <2>1, <2>3 DEF DeferInv
<1>4. ASSUME NEW t \in Threads,
             \/ Allocate(t) \/ Attempt(t) \/ OutOfMemory(t) \/ AllocationFails(t)
             \/ Register(t) \/ Own(t) \/ View(t) \/ Drop(t) \/ Finalize(t)
             \/ AddItem(t) \/ ReadSize(t) \/ CheckLimits(t) \/ Clear(t) \/ Loop(t)
             \/ PopLeft(t) \/ Destroy(t) \/ DestroyFails(t)
             \/ Reset(t) \/ ResetFinalizes(t) \/ ResetFlushes(t)
      PROVE  DeferInv'
  <2>1. UNCHANGED << disableCount, defers >>
    BY <1>4 DEF Allocate, Attempt, Granted, OutOfMemory, AllocationFails, Register, Own,
       View, Drop, Finalize, AddItem, ReadSize, CheckLimits, Clear, Loop, PopLeft, Destroy,
       DestroyFails, Reset, ResetFinalizes, ResetFlushes, deferring
  <2>2. Entered' = Entered
    BY <2>1 DEF Entered
  <2>3. OthersStay(t)
    BY <1>4, AllocateStep, AttemptStep, OutOfMemoryStep, AllocationFailsStep,
       RegisterStep, OwnStep, ViewStep, DropStep, FinalizeStep, AddItemStep, ReadSizeStep,
       CheckLimitsStep, ClearStep, LoopStep, PopLeftStep, DestroyStep, DestroyFailsStep,
       ResetStep, ResetFinalizesStep, ResetFlushesStep
  <2>4. loc[t].ignored = {}
    BY DEF DeferInv
  <2>5. Returned(t) \/ Raised(t) => loc'[t].ignored = {}
    BY <2>4, NoLocalsType DEF Returned, Raised, Ended
  <2>6. CASE Clear(t)
    <3>1. loc'[t].ignored = {}
      <4>1. CASE is_disabled
        BY <2>4, <2>5, <2>6, <4>1, ClearStep
      <4>2. CASE ~is_disabled
        BY <2>5, <2>6, <4>2, ClearStep, NobodyDefers
      <4> QED  BY <4>1, <4>2
    <3> QED  BY <2>1, <2>2, <2>3, <3>1 DEF DeferInv, OthersStay
  <2>7. CASE Loop(t) \/ PopLeft(t) \/ CheckLimits(t) \/ Finalize(t) \/ DestroyFails(t)
    <3>1. loc'[t].ignored = {}
      BY <2>4, <2>5, <2>7, LoopStep, PopLeftStep, CheckLimitsStep, FinalizeStep,
         DestroyFailsStep DEF Keeps
    <3> QED  BY <2>1, <2>2, <2>3, <3>1 DEF DeferInv, OthersStay
  <2>8. CASE \/ Allocate(t) \/ Attempt(t) \/ OutOfMemory(t) \/ AllocationFails(t)
             \/ Register(t) \/ Own(t) \/ View(t) \/ Drop(t) \/ AddItem(t)
             \/ ReadSize(t) \/ Destroy(t)
             \/ Reset(t) \/ ResetFinalizes(t) \/ ResetFlushes(t)
    <3>1. View(t) => loc' = loc
      BY DEF View
    <3>2. loc'[t].ignored = {}
      BY <2>4, <2>8, <3>1, NoLocalsType, AllocateStep, AttemptStep, OutOfMemoryStep,
         AllocationFailsStep, RegisterStep, OwnStep, DropStep, AddItemStep, ReadSizeStep,
         DestroyStep, ResetStep, ResetFinalizesStep, ResetFlushesStep DEF Keeps, Dropped
    <3> QED  BY <2>1, <2>2, <2>3, <3>2 DEF DeferInv, OthersStay
  <2> QED  BY <1>4, <2>6, <2>7, <2>8
<1> QED  BY <1>1, <1>2, <1>3, <1>4 DEF Next

LEMMA Deferral == Spec => [](ShapeInv /\ DeferInv)
<1>1. Init => ShapeInv /\ DeferInv
  BY ShapeInit, DeferInit
<1>2. ShapeInv /\ DeferInv /\ [Next]_vars => (ShapeInv /\ DeferInv)'
  BY ShapeNext, DeferNext
<1> QED  BY <1>1, <1>2, PTL DEF Spec

(* No flush that begins while a thread defers clean-up frees anything,     *)
(* however the threads' defer_cleanup blocks are nested and interleaved.   *)
THEOREM DeferralIsHonoured == Spec => []DeferralHonoured
<1>1. DeferInv => DeferralHonoured
  BY DEF DeferInv, DeferralHonoured
<1> QED  BY <1>1, Deferral, PTL

(* The variables have their types; no counter of pointers, references or   *)
(* deferrals goes below zero.                                              *)
THEOREM MemoryTypes == Spec => []TypeOK
<1>1. ShapeInv /\ OwnInv /\ DeferInv => TypeOK
  <2> SUFFICES ASSUME ShapeInv, OwnInv, DeferInv PROVE TypeOK
    OBVIOUS
  <2>1. Typed
    BY DEF ShapeInv
  <2>2. refct \in [Blocks -> Nat] /\ held \in [Blocks -> Nat]
    BY <2>1 DEF Typed, OwnInv, ManagerInv, Counted
  <2>3. disableCount \in Nat
    BY FS_CardinalityType DEF DeferInv
  <2>4. {allocs, entries, resets} \subseteq Nat
    BY <2>1 DEF Typed
  <2> QED  BY <2>1, <2>2, <2>3, <2>4 DEF Typed, TypeOK
<1> QED  BY <1>1, Ownership, Deferral, PTL

-----------------------------------------------------------------------------
(* Running out of memory                                                   *)

(* What an allocation waits for is still allocated and cannot come back to *)
(* the queue; when it tries again, none of it is in the queue.             *)
QueuedInv == \A t \in Threads :
    /\ \A b \in loc[t].queued :
         /\ b \in device \ alive
         /\ \A u \in Threads : loc[u].block = b => pc[u] \notin {"register", "append"}
    /\ pc[t] = "retry" => loc[t].deferred \/ loc[t].queued \cap Pending = {}

(* A step after which nobody waits for more.                               *)
LEMMA QueuedStep ==
  ASSUME ShapeInv, QueuedInv, NEW t \in Threads, OthersStay(t),
         loc'[t].queued \subseteq loc[t].queued,
         \A u \in Threads : loc'[u].queued \subseteq device' \ alive',
         pc'[t] \in {"register", "append"} =>
            \A u \in Threads : loc'[t].block \notin loc'[u].queued,
         \A u \in Threads : loc[u].queued \cap Pending' \subseteq Pending,
         pc'[t] = "retry" => loc'[t].deferred \/ loc'[t].queued \cap Pending' = {}
  PROVE  QueuedInv'
<1>1. \A u \in Threads : loc'[u].queued \subseteq loc[u].queued
  BY DEF OthersStay
<1>2. \A u \in Threads : u # t =>
        pc'[u] = pc[u] /\ loc'[u].block = loc[u].block /\ loc'[u].deferred = loc[u].deferred
  BY DEF OthersStay
<1>3. ASSUME NEW u \in Threads, NEW b \in loc'[u].queued, NEW v \in Threads,
             loc'[v].block = b
      PROVE  pc'[v] \notin {"register", "append"}
  <2>1. CASE v = t
    BY <1>3, <2>1
  <2>2. CASE v # t
    BY <1>1, <1>2, <1>3, <2>2 DEF QueuedInv
  <2> QED  BY <2>1, <2>2
<1>4. ASSUME NEW u \in Threads, pc'[u] = "retry"
      PROVE  loc'[u].deferred \/ loc'[u].queued \cap Pending' = {}
  <2>1. CASE u = t
    BY <1>4, <2>1
  <2>2. CASE u # t
    BY <1>1, <1>2, <1>4, <2>2 DEF QueuedInv
  <2> QED  BY <2>1, <2>2
<1> QED  BY <1>3, <1>4 DEF QueuedInv

(* An allocation fails: it waits for what is in the queue.                 *)
LEMMA QueuedOutOfMemory ==
  ASSUME ShapeInv, OwnInv, QueuedInv, NEW t \in Threads, OutOfMemory(t)
  PROVE  QueuedInv'
<1>1. OthersStay(t) /\ UNCHANGED << device, alive, cons >> /\ Pending' = Pending
  BY OutOfMemoryStep DEF OutOfMemory, manager, queue, Pending
<1>2. CASE pc'[t] = "idle" /\ loc'[t] = NoLocals
  <2>1. loc'[t].queued = {}
    BY <1>2, NoLocalsType
  <2>2. \A u \in Threads : loc'[u].queued \subseteq loc[u].queued
    BY <1>1, <2>1 DEF OthersStay
  <2>3. \A u \in Threads : loc'[u].queued \subseteq device' \ alive'
    BY <1>1, <2>2 DEF QueuedInv
  <2> QED  BY <1>1, <1>2, <2>1, <2>3, QueuedStep
<1>3. CASE pc'[t] = "clear" /\ loc'[t].queued = Pending
  <2>1. /\ Pending \subseteq device \ alive
        /\ \A b \in Pending, u \in Threads :
             loc[u].block = b => pc[u] \notin {"register", "append"}
    BY DEF OwnInv, QueueOwn, HandsOwn, Hands
  <2>2. \A u \in Threads : u # t =>
        /\ pc'[u] = pc[u] /\ loc'[u].block = loc[u].block
        /\ loc'[u].deferred = loc[u].deferred /\ loc'[u].queued \subseteq loc[u].queued
    BY <1>1 DEF OthersStay
  <2>3. ASSUME NEW u \in Threads, NEW b \in loc'[u].queued, NEW v \in Threads
        PROVE  /\ b \in device' \ alive'
               /\ loc'[v].block = b => pc'[v] \notin {"register", "append"}
    <3>1. /\ b \in device \ alive
          /\ loc[v].block = b => pc[v] \notin {"register", "append"}
      BY <1>3, <2>1, <2>2 DEF QueuedInv
    <3> QED  BY <1>1, <1>3, <2>2, <3>1
  <2>4. \A u \in Threads : pc'[u] = "retry" =>
          loc'[u].deferred \/ loc'[u].queued \cap Pending' = {}
    BY <1>1, <1>3, <2>2 DEF QueuedInv
  <2> QED  BY <2>3, <2>4 DEF QueuedInv
<1> QED  BY <1>2, <1>3, OutOfMemoryStep

(* The steps that move blocks.                                             *)
LEMMA QueuedMoves ==
  ASSUME ShapeInv, OwnInv, QueuedInv, NEW t \in Threads,
         \/ Attempt(t) \/ Register(t) \/ Finalize(t) \/ AddItem(t) \/ PopLeft(t)
         \/ Destroy(t)
  PROVE  QueuedInv'
<1>1. \A u \in Threads : loc[u].queued \subseteq device \ alive
  BY DEF QueuedInv
<1>2. CASE Attempt(t)
  <2>1. /\ OthersStay(t) /\ pc'[t] = "register" /\ loc'[t].queued = {}
        /\ loc'[t].block \notin device /\ device' = device \cup {loc'[t].block}
        /\ UNCHANGED << alive, cons >>
    BY <1>2, AttemptStep DEF Attempt, Granted, manager, queue
  <2>2. Pending' = Pending
    BY <2>1 DEF Pending
  <2>3. \A u \in Threads : loc'[u].queued \subseteq loc[u].queued
    BY <2>1 DEF OthersStay
  <2> QED  BY <1>1, <2>1, <2>2, <2>3, QueuedStep
<1>3. CASE Register(t)
  <2>1. /\ OthersStay(t) /\ pc[t] = "register" /\ pc'[t] \in {"idle", "own"}
        /\ loc'[t].queued \subseteq loc[t].queued /\ alive' = alive \cup {loc[t].block}
        /\ UNCHANGED << device, cons >>
    BY <1>3, RegisterStep, NoLocalsType DEF Register, queue
  <2>2. Pending' = Pending
    BY <2>1 DEF Pending
  <2>3. \A u \in Threads : loc'[u].queued \subseteq loc[u].queued
    BY <2>1 DEF OthersStay
  <2>4. \A u \in Threads : loc[t].block \notin loc[u].queued
    BY <2>1 DEF QueuedInv
  <2> QED  BY <1>1, <2>1, <2>2, <2>3, <2>4, QueuedStep
<1>4. CASE Finalize(t)
  <2>1. /\ OthersStay(t) /\ pc[t] = "finalize" /\ alive' = alive \ {loc[t].block}
        /\ cons' = cons /\ device \ {loc[t].block} \subseteq device'
        /\ loc[t].block \in alive /\ loc[t].after # "retry"
    BY <1>4, FinalizeStep DEF Finalize, RunFinalizer, queue, OwnInv, ManagerInv,
       FramesOwn, Frames, ShapeInv, Shape
  <2>2. /\ pc'[t] # "retry" /\ pc'[t] # "register"
        /\ pc'[t] = "append" => loc' = loc
        /\ loc'[t].queued \subseteq loc[t].queued
    BY <1>4, <2>1, FinalizeStep, NoLocalsType DEF Returned, Raised, Ended
  <2>3. \A u \in Threads : loc'[u].queued \subseteq loc[u].queued
    BY <2>1, <2>2 DEF OthersStay
  <2>4. Pending' = Pending
    BY <2>1 DEF Pending
  <2>5. \A u \in Threads : loc[t].block \notin loc[u].queued
    BY <1>1, <2>1
  <2>6. \A u \in Threads : loc'[u].queued \subseteq device' \ alive'
    BY <1>1, <2>1, <2>3, <2>5
  <2> QED  BY <2>1, <2>2, <2>3, <2>4, <2>5, <2>6, QueuedStep
<1>5. CASE AddItem(t)
  <2>1. /\ OthersStay(t) /\ pc[t] = "append" /\ pc'[t] = "add" /\ loc' = loc
        /\ cons' = Append(cons, loc[t].block) /\ loc[t].block \in Blocks
        /\ UNCHANGED << device, alive >>
    BY <1>5, AddItemStep DEF AddItem, manager
  <2>2. Pending' = Pending \cup {loc[t].block}
    BY <2>1, PendingAppend DEF ShapeInv, Typed
  <2>3. \A u \in Threads : loc[t].block \notin loc[u].queued
    BY <2>1 DEF QueuedInv
  <2> QED  BY <1>1, <2>1, <2>2, <2>3, QueuedStep
<1>6. CASE PopLeft(t)
  <2>1. /\ OthersStay(t) /\ UNCHANGED << device, alive >>
        /\ pc'[t] \notin {"retry", "register", "append"}
        /\ loc'[t].queued \subseteq loc[t].queued
    BY <1>6, PopLeftStep, NoLocalsType DEF PopLeft, manager, Raised, Ended, Keeps
  <2>2. Pending' \subseteq Pending
    <3>1. CASE cons = << >>
      BY <1>6, <3>1, PopLeftStep DEF Pending
    <3>2. CASE cons # << >>
      BY <1>6, <3>2, PopLeftStep, PendingTail DEF ShapeInv, Typed, OwnInv, QueueOwn
    <3> QED  BY <3>1, <3>2
  <2>3. \A u \in Threads : loc'[u].queued \subseteq loc[u].queued
    BY <2>1 DEF OthersStay
  <2> QED  BY <1>1, <2>1, <2>2, <2>3, QueuedStep
<1>7. CASE Destroy(t)
  <2>1. /\ OthersStay(t) /\ UNCHANGED << alive, cons >> /\ pc'[t] = "loop"
        /\ device' = device \ {loc[t].block}
        /\ \A u \in Threads : loc'[u].queued = loc[u].queued \ {loc[t].block}
    BY <1>7, DestroyStep DEF Destroy, manager, queue
  <2>2. Pending' = Pending
    BY <2>1 DEF Pending
  <2> QED  BY <1>1, <2>1, <2>2, QueuedStep
<1> QED  BY <1>2, <1>3, <1>4, <1>5, <1>6, <1>7

(* The others: a thread that finds the queue empty, or clean-up deferred,  *)
(* goes back to its allocation.                                            *)
LEMMA QueuedSteps ==
  ASSUME ShapeInv, OwnInv, QueuedInv, NEW t \in Threads,
         \/ Allocate(t) \/ AllocationFails(t) \/ Own(t) \/ View(t)
         \/ Drop(t) \/ ReadSize(t) \/ CheckLimits(t) \/ Clear(t) \/ Loop(t)
         \/ DestroyFails(t) \/ DeferEnter(t) \/ DeferExit(t)
         \/ Reset(t) \/ ResetFinalizes(t) \/ ResetFlushes(t)
  PROVE  QueuedInv'
<1>1. UNCHANGED << device, alive, cons >>
  BY DEF Allocate, AllocationFails, Own, View, Drop, ReadSize, CheckLimits, Clear, Loop,
     DestroyFails, DeferEnter, DeferExit, Reset, ResetFinalizes, ResetFlushes, manager, queue
<1>2. Pending' = Pending
  BY <1>1 DEF Pending
<1>3. OthersStay(t)
  BY AllocateStep, AllocationFailsStep, OwnStep, ViewStep, DropStep,
     ReadSizeStep, CheckLimitsStep, ClearStep, LoopStep, DestroyFailsStep, DeferEnterStep,
     DeferExitStep, ResetStep, ResetFinalizesStep, ResetFlushesStep
<1>4. Returned(t) \/ Raised(t) =>
        /\ loc'[t].queued \subseteq loc[t].queued
        /\ pc'[t] \in {"idle", "retry", "reset"}
        /\ pc'[t] = "retry" => Returned(t) /\ loc[t].after = "retry"
  BY NoLocalsType DEF Returned, Raised, Ended
<1>5. /\ loc'[t].queued \subseteq loc[t].queued
      /\ pc'[t] \notin {"register", "append"}
      /\ pc'[t] = "retry" => loc'[t].deferred \/ loc'[t].queued \cap Pending' = {}
  <2>1. CASE Allocate(t) \/ AllocationFails(t) \/ ReadSize(t)
    BY <2>1, NoLocalsType, AllocateStep, AllocationFailsStep, ReadSizeStep DEF Keeps
  <2>2. CASE Own(t) \/ Drop(t)
    <3>1. Drop(t) => pc[t] = "idle"
      BY DEF Drop
    <3> QED  BY <2>2, <3>1, NoLocalsType, OwnStep, DropStep DEF Dropped
  <2>3. CASE View(t) \/ DeferEnter(t) \/ DeferExit(t)
    BY <2>3 DEF View, DeferEnter, DeferExit
  <2>4. CASE CheckLimits(t)
    <3>1. loc[t].after # "retry"
      BY <2>4 DEF CheckLimits, ShapeInv, Shape
    <3> QED  BY <1>4, <2>4, <3>1, CheckLimitsStep DEF Keeps
  <2>5. CASE Clear(t)
    <3>1. CASE is_disabled
      BY <1>4, <2>5, <3>1, ClearStep
    <3>2. CASE ~is_disabled /\ cons = << >>
      <4>1. Pending' = {}
        BY <1>2, <3>2 DEF Pending
      <4> QED  BY <1>4, <2>5, <3>2, <4>1, ClearStep
    <3>3. CASE ~is_disabled /\ cons # << >>
      BY <2>5, <3>3, ClearStep
    <3> QED  BY <3>1, <3>2, <3>3
  <2>6. CASE Loop(t)
    <3>1. CASE cons = << >>
      <4>1. Pending' = {}
        BY <1>2, <3>1 DEF Pending
      <4> QED  BY <1>4, <2>6, <3>1, <4>1, LoopStep
    <3>2. CASE cons # << >>
      BY <2>6, <3>2, LoopStep
    <3> QED  BY <3>1, <3>2
  <2>7. CASE DestroyFails(t)
    BY <2>7, NoLocalsType, DestroyFailsStep DEF Raised, Ended
  <2>8. CASE Reset(t) \/ ResetFinalizes(t) \/ ResetFlushes(t)
    BY <2>8, NoLocalsType, ResetStep, ResetFinalizesStep, ResetFlushesStep
  <2> QED  BY <2>1, <2>2, <2>3, <2>4, <2>5, <2>6, <2>7, <2>8
<1>6. \A u \in Threads : loc'[u].queued \subseteq device' \ alive'
  BY <1>1, <1>3, <1>5 DEF QueuedInv, OthersStay
<1> QED  BY <1>2, <1>3, <1>5, <1>6, QueuedStep

(* An allocation gives up only when what it found in the queue is gone, or *)
(* clean-up is deferred, however flushes and other allocations interleave. *)
THEOREM OutOfMemoryIsEarned == Spec => []OomIsEarned
<1>1. Init => QueuedInv
  BY NoLocalsType DEF Init, QueuedInv
<1>2. ShapeInv /\ OwnInv /\ QueuedInv /\ [Next]_vars => QueuedInv'
  <2> SUFFICES ASSUME ShapeInv, OwnInv, QueuedInv, [Next]_vars PROVE QueuedInv'
    OBVIOUS
  <2>1. CASE UNCHANGED vars
    BY <2>1 DEF vars, QueuedInv, Pending
  <2>2. ASSUME NEW t \in Threads,
               \/ Allocate(t) \/ Attempt(t) \/ OutOfMemory(t) \/ AllocationFails(t)
               \/ Register(t) \/ Own(t) \/ View(t) \/ Drop(t) \/ Finalize(t)
               \/ AddItem(t) \/ ReadSize(t) \/ CheckLimits(t) \/ Clear(t) \/ Loop(t)
               \/ PopLeft(t) \/ Destroy(t) \/ DestroyFails(t) \/ DeferEnter(t)
               \/ DeferExit(t) \/ Reset(t) \/ ResetFinalizes(t) \/ ResetFlushes(t)
        PROVE  QueuedInv'
    BY <2>2, QueuedOutOfMemory, QueuedMoves, QueuedSteps
  <2> QED  BY <2>1, <2>2 DEF Next
<1>3. QueuedInv => OomIsEarned
  BY DEF QueuedInv, OomIsEarned
<1> QED  BY <1>1, <1>2, <1>3, Ownership, PTL DEF Spec

-----------------------------------------------------------------------------
(* The length of the queue                                                 *)

Working == {"add", "count", "clear", "loop", "pop", "destroy"}

Busy == {t \in Threads : pc[t] \in Working}

(* The queue does not grow and no thread that works on it stops.           *)
LEMMA BacklogQuiet ==
  ASSUME ShapeInv, BacklogBounded, NEW t \in Threads, OthersStay(t),
         excused' = excused, cons' \in Seq(Blocks), Len(cons') <= Len(cons),
         pc[t] \in Working => pc'[t] \in Working
  PROVE  BacklogBounded'
<1>1. Busy \subseteq Busy'
  BY DEF Busy, OthersStay
<1>2. IsFiniteSet(Busy')
  BY MemoryAssumption, FS_Subset DEF Busy
<1>3. /\ Cardinality(Busy) <= Cardinality(Busy')
      /\ Cardinality(Busy) \in Nat /\ Cardinality(Busy') \in Nat
  BY <1>1, <1>2, FS_Subset, FS_CardinalityType
<1>4. Len(cons) \in Nat /\ Len(cons') \in Nat /\ MaxCount \in Nat
  BY MemoryAssumption DEF ShapeInv, Typed
<1> QED  BY <1>3, <1>4 DEF BacklogBounded, Busy, Working

(* The queue is within its limit.                                          *)
LEMMA BacklogShort ==
  ASSUME cons' \in Seq(Blocks), Len(cons') <= MaxCount
  PROVE  BacklogBounded'
<1>1. IsFiniteSet(Busy')
  BY MemoryAssumption, FS_Subset DEF Busy
<1>2. Cardinality(Busy') \in Nat
  BY <1>1, FS_CardinalityType
<1> QED  BY <1>2, MemoryAssumption DEF BacklogBounded, Busy, Working

(* A thread that adds an item is one more that works on the queue.         *)
LEMMA BacklogAddItem ==
  ASSUME ShapeInv, BacklogBounded, NEW t \in Threads, AddItem(t)
  PROVE  BacklogBounded'
<1>1. /\ OthersStay(t) /\ pc[t] = "append" /\ pc'[t] = "add" /\ excused' = excused
      /\ cons' = Append(cons, loc[t].block) /\ loc[t].block \in Blocks
  BY AddItemStep DEF AddItem
<1>2. Busy' = Busy \cup {t} /\ t \notin Busy
  BY <1>1 DEF Busy, Working, OthersStay
<1>3. IsFiniteSet(Busy)
  BY MemoryAssumption, FS_Subset DEF Busy
<1>4. Cardinality(Busy') = Cardinality(Busy) + 1 /\ Cardinality(Busy) \in Nat
  BY <1>2, <1>3, FS_AddElement, FS_CardinalityType
<1>5. Len(cons') = Len(cons) + 1 /\ Len(cons) \in Nat /\ MaxCount \in Nat
  BY <1>1, MemoryAssumption DEF ShapeInv, Typed
<1> QED  BY <1>1, <1>4, <1>5 DEF BacklogBounded, Busy, Working

(* A thread leaves the queue when it is within its limit, or is excused.   *)
LEMMA BacklogSteps ==
  ASSUME ShapeInv, BacklogBounded, NEW t \in Threads,
         \/ CheckLimits(t) \/ Clear(t) \/ Loop(t) \/ PopLeft(t) \/ DestroyFails(t)
  PROVE  BacklogBounded'
<1>1. ShapeInv' /\ OthersStay(t)
  BY CheckLimitsStep, ClearStep, LoopStep, PopLeftStep, DestroyFailsStep
<1>2. /\ cons \in Seq(Blocks) /\ cons' \in Seq(Blocks)
      /\ Len(cons) \in Nat /\ Len(cons') \in Nat /\ MaxCount \in Nat
  BY <1>1, MemoryAssumption DEF ShapeInv, Typed
<1>3. CASE CheckLimits(t)
  <2>1. cons' = cons /\ excused' = excused
    BY <1>3 DEF CheckLimits
  <2>2. CASE OverLimit(loc[t].bytes)
    BY <1>1, <1>2, <1>3, <2>1, <2>2, CheckLimitsStep, BacklogQuiet DEF Working
  <2>3. CASE ~OverLimit(loc[t].bytes)
    BY <1>2, <2>1, <2>3, BacklogShort DEF OverLimit
  <2> QED  BY <2>2, <2>3
<1>4. CASE Clear(t) \/ Loop(t)
  <2>1. cons' = cons
    BY <1>4 DEF Clear, Loop
  <2>2. CASE cons = << >>
    BY <1>2, <2>1, <2>2, BacklogShort
  <2>3. CASE excused' = TRUE
    BY <2>3 DEF BacklogBounded
  <2>4. CASE cons # << >> /\ excused' # TRUE
    <3>1. pc'[t] = "pop" /\ excused' = excused
      BY <1>4, <2>4, ClearStep, LoopStep
    <3> QED  BY <1>1, <1>2, <2>1, <3>1, BacklogQuiet DEF Working
  <2> QED  BY <2>2, <2>3, <2>4
<1>5. CASE PopLeft(t)
  <2>1. excused' = excused
    BY <1>5 DEF PopLeft
  <2>2. CASE cons = << >>
    BY <1>2, <1>5, <2>2, PopLeftStep, BacklogShort
  <2>3. CASE cons # << >>
    <3>1. pc'[t] = "destroy" /\ cons' = Tail(cons)
      BY <1>5, <2>3, PopLeftStep
    <3>2. Len(cons') <= Len(cons)
      BY <1>2, <2>3, <3>1
    <3> QED  BY <1>1, <1>2, <2>1, <3>1, <3>2, BacklogQuiet DEF Working
  <2> QED  BY <2>2, <2>3
<1>6. CASE DestroyFails(t)
  BY <1>6 DEF DestroyFails, BacklogBounded
<1> QED  BY <1>3, <1>4, <1>5, <1>6

(* The queue is never longer than its limit and the threads that work on   *)
(* it, unless a flush was deferred or failed since it was last empty.      *)
THEOREM BacklogIsBounded == Spec => []BacklogBounded
<1>1. Init => BacklogBounded
  <2> SUFFICES ASSUME Init PROVE BacklogBounded
    OBVIOUS
  <2>1. IsFiniteSet(Busy)
    BY MemoryAssumption, FS_Subset DEF Busy
  <2>2. Cardinality(Busy) \in Nat /\ MaxCount \in Nat /\ Len(cons) = 0
    BY <2>1, FS_CardinalityType, MemoryAssumption DEF Init
  <2> QED  BY <2>2 DEF BacklogBounded, Busy, Working
<1>2. ShapeInv /\ BacklogBounded /\ [Next]_vars => BacklogBounded'
  <2> SUFFICES ASSUME ShapeInv, BacklogBounded, [Next]_vars PROVE BacklogBounded'
    OBVIOUS
  <2>1. CASE UNCHANGED vars
    BY <2>1 DEF vars, BacklogBounded
  <2>2. ASSUME NEW t \in Threads,
               \/ Allocate(t) \/ Attempt(t) \/ OutOfMemory(t) \/ AllocationFails(t)
               \/ Register(t) \/ Own(t) \/ View(t) \/ Drop(t) \/ Finalize(t)
               \/ ReadSize(t) \/ Destroy(t) \/ DeferEnter(t) \/ DeferExit(t)
               \/ Reset(t) \/ ResetFinalizes(t) \/ ResetFlushes(t)
        PROVE  BacklogBounded'
    <3>1. cons' = cons /\ excused' = excused
      BY <2>2 DEF Allocate, Attempt, Granted, OutOfMemory, AllocationFails, Register, Own,
         View, Drop, Finalize, ReadSize, Destroy, DeferEnter, DeferExit, Reset,
         ResetFinalizes, ResetFlushes, queue
    <3>2. OthersStay(t)
      BY <2>2, AllocateStep, AttemptStep, OutOfMemoryStep, AllocationFailsStep,
         RegisterStep, OwnStep, ViewStep, DropStep, FinalizeStep, ReadSizeStep,
         DestroyStep, DeferEnterStep, DeferExitStep, ResetStep, ResetFinalizesStep,
         ResetFlushesStep
    <3>3. pc[t] \in Working => ReadSize(t) \/ Destroy(t)
      BY <2>2 DEF Allocate, Attempt, OutOfMemory, AllocationFails, Register, Own,
         View, Drop, Finalize, DeferEnter, DeferExit, Reset,
         ResetFinalizes, ResetFlushes, Working
    <3>4. pc[t] \in Working => pc'[t] \in Working
      BY <3>3, ReadSizeStep, DestroyStep DEF Working
    <3>5. cons' \in Seq(Blocks) /\ Len(cons') <= Len(cons)
      BY <3>1 DEF ShapeInv, Typed
    <3> QED  BY <3>1, <3>2, <3>4, <3>5, BacklogQuiet
  <2>3. ASSUME NEW t \in Threads,
               \/ AddItem(t) \/ CheckLimits(t) \/ Clear(t) \/ Loop(t) \/ PopLeft(t)
               \/ DestroyFails(t)
        PROVE  BacklogBounded'
    BY <2>3, BacklogAddItem, BacklogSteps
  <2> QED  BY <2>1, <2>2, <2>3 DEF Next
<1> QED  BY <1>1, <1>2, Ownership, PTL DEF Spec
=============================================================================
