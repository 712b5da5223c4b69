---------------------------- MODULE CudaContexts ----------------------------
(***************************************************************************)
(* Devices and contexts (numba_cuda/cudadrv/devices.py, Device and Context *)
(* of driver.py).  The CUDA driver keeps a stack of contexts per thread;   *)
(* `with gpus[d]` pushes the primary context of device d and pops it, and  *)
(* whatever needs a context pushes that of device 0 when there is none.    *)
(*                                                                         *)
(* Only primary contexts occur, so a context is named by its device, and   *)
(* the runtime's lock makes each operation here one step.  Other libraries *)
(* do not touch the stack.                                                 *)
(***************************************************************************)
EXTENDS Integers, FiniteSets, Sequences, SequencesExt

CONSTANTS
    Threads,
    Devices,
    MaxBlocks,      \* bound: depth of `with gpus[d]` in a thread
    MaxIncidents    \* bound: select_device calls, failures of prepare_for_use
                    \* and resets of a context, together

ASSUME ContextAssumption ==
    /\ Devices \subseteq Nat /\ 0 \in Devices
    /\ MaxBlocks \in Nat /\ MaxIncidents \in Nat

VARIABLES
    stack,          \* the driver's context stack of each thread
    prepared,       \* contexts whose memory manager is initialised
    blocks,         \* the `with gpus[d]` blocks each thread is in
    kept,           \* history: contexts pushed for good
    strayed,        \* history: threads whose `with gpus[d]` failed to start
    incidents       \* how many have happened

contextVars == << stack, prepared, blocks, kept, strayed, incidents >>

ContextInit ==
    /\ stack = [t \in Threads |-> << >>]
    /\ prepared = {}
    /\ blocks = [t \in Threads |-> << >>]
    /\ kept = [t \in Threads |-> << >>]
    /\ strayed = {}
    /\ incidents = 0

Current(t) == Last(stack[t])

Incident == incidents < MaxIncidents /\ incidents' = incidents + 1

(* prepare_for_use(): NumbaCUDAMemoryManager.initialize() asks the driver  *)
(* for the memory size the first time, which may fail.                     *)
Prepare(d, ok) ==
    /\ d \in prepared => ok
    /\ IF ok THEN prepared' = prepared \cup {d} ELSE UNCHANGED prepared

(* _activate_context_for: pushed first, prepared after.                    *)
Activate(t, d, ok) ==
    /\ stack' = [stack EXCEPT ![t] = Append(@, d)]
    /\ Prepare(d, ok)

(* get_or_create_context(None): the current context, or that of device 0,  *)
(* which is then pushed; the stack it leaves.                              *)
WithContext(t) == IF stack[t] = << >> THEN << 0 >> ELSE stack[t]

KeepDefault(t) == kept' = [kept EXCEPT ![t] = IF stack[t] = << >> THEN << 0 >> ELSE @]

(* select_device(d), which nothing undoes.  It is called as the            *)
(* documentation asks, before a thread uses any CUDA feature.              *)
SelectDevice(t) ==
    /\ stack[t] = << >>
    /\ Incident
    /\ \E d \in Devices, ok \in BOOLEAN :
         /\ Activate(t, d, ok)
         /\ kept' = [kept EXCEPT ![t] = Append(@, d)]
    /\ UNCHANGED << blocks, strayed >>

(* __enter__ of _DeviceContextManager; when it raises the block is not     *)
(* entered and the context stays.                                          *)
EnterBlock(t) ==
    /\ Len(blocks[t]) < MaxBlocks
    /\ \E d \in Devices, ok \in BOOLEAN :
         /\ Activate(t, d, ok)
         /\ IF ok
            THEN blocks' = [blocks EXCEPT ![t] = Append(@, d)] /\ UNCHANGED << strayed, incidents >>
            ELSE strayed' = strayed \cup {t} /\ Incident /\ UNCHANGED blocks
    /\ UNCHANGED kept

(* __exit__: pops whatever is on top and then asserts that it was its own. *)
ExitBlock(t) ==
    /\ blocks[t] # << >>
    /\ blocks' = [blocks EXCEPT ![t] = Front(@)]
    /\ stack' = [stack EXCEPT ![t] = Front(@)]
    /\ UNCHANGED << prepared, kept, strayed, incidents >>

ContextTypeOK ==
    /\ stack \in [Threads -> Seq(Devices)] /\ blocks \in [Threads -> Seq(Devices)]
    /\ kept \in [Threads -> Seq(Devices)]
    /\ prepared \in SUBSET Devices /\ strayed \in SUBSET Threads
    /\ incidents \in Nat

(* Where no `with gpus[d]` has failed to start, a thread's stack is what   *)
(* has been pushed for good and the blocks it is in: the assertion of      *)
(* Context.pop() holds at the end of each block.                           *)
Balanced(t) == t \in strayed \/ stack[t] = kept[t] \o blocks[t]
=============================================================================
