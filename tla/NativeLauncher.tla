--------------------------- MODULE NativeLauncher ---------------------------
(***************************************************************************)
(* launch() of one KernelDispatcher (cext/launcher/kernel.cpp): argument   *)
(* profiles, kernel families, the kernel map with its post-load callback,  *)
(* reusable launch helpers and the switch of contexts; with the module     *)
(* callbacks of descriptor.py that the post-load callback runs.            *)
(*                                                                         *)
(* The interpreter has a GIL, and launch() gives it up only where it calls *)
(* Python: to classify or read some arguments, for the context, to compile *)
(* and for the callback.  An action is the code between two such calls.    *)
(* A kernel family has one kernel: KernelLaunch models the constants.      *)
(***************************************************************************)
EXTENDS CudaContexts

CONSTANTS
    Profiles,       \* tuples of argument types
    KindOf,         \* what each needs: scalars only, an array, a host record
    FamilyOf,       \* the kernel family it belongs to
    ByPython,       \* those whose classification runs Python code
    MaxLaunches,    \* bound: launches
    None

Families == {FamilyOf[p] : p \in Profiles}
Helpers  == 1 .. Cardinality(Threads)

ASSUME LauncherAssumption ==
    /\ IsFiniteSet(Threads)
    /\ DOMAIN FamilyOf = Profiles
    /\ KindOf \in [Profiles -> {"scalar", "array", "record"}]
    /\ ByPython \subseteq Profiles
    /\ MaxLaunches \in Nat
    /\ None \notin Devices \cup Profiles \cup Helpers

VARIABLES
    profiles,       \* arg_profiles
    kernels,        \* kernels_by_constants of each family
    modules,        \* Context.modules: whose callback reference each keeps
    free,           \* g_helper_freelist, the top last
    copies,         \* record_copies of each helper, by device address
    allocated,      \* addresses of record copies the driver has allocated
    pc, loc,        \* where each launch is, its local variables
    ran,            \* history: what the last step launched, or None
    aborted,        \* CHECK has failed
    launches

launcher == << profiles, kernels, modules, copies, allocated, aborted, launches >>
vars == << contextVars, launcher, free, pc, loc, ran >>

otherContext == << blocks, strayed >>

(* One address more than there are helpers, so that there is always one.   *)
Addresses == 0 .. Cardinality(Threads)

(* setup: the module's setup callbacks; torn: its teardown callbacks have  *)
(* run; setups: how many times the former were called.                     *)
Kernels == [ctx : Devices, setup : {"running", "done", "failed"}, torn : BOOLEAN,
            setups : Nat]

ASSUME KernelAssumption == None \notin Kernels

(* guard: whether ContextGuard has to pop; raced: whether another launch   *)
(* classifies the same types meanwhile.                                    *)
NoLocals == [profile |-> None, helper |-> None, array |-> None, guard |-> FALSE,
             raced |-> FALSE]

Init ==
    /\ ContextInit
    /\ profiles = {}
    /\ kernels = [f \in Families |-> None]
    /\ modules = [d \in Devices |-> {}]
    /\ free = << >>
    /\ copies = [h \in Helpers |-> {}]
    /\ allocated = {}
    /\ pc = [t \in Threads |-> "idle"] /\ loc = [t \in Threads |-> NoLocals]
    /\ ran = None
    /\ aborted = FALSE
    /\ launches = 0

Goto(t, place) == pc' = [pc EXCEPT ![t] = place]
Family(t) == FamilyOf[loc[t].profile]
Kind(t)   == KindOf[loc[t].profile]

-----------------------------------------------------------------------------
(* Helpers and argument profiles                                           *)

InUse == {loc[t].helper : t \in Threads}

(* launch_helper_get                                                       *)
TakenHelper == IF free # << >> THEN Last(free)
               ELSE CHOOSE h \in Helpers : h \notin InUse

(* The launch ends, s being the context stack: the helper goes back to the *)
(* free list with its record copies.                                       *)
Finish(t, s) ==
    /\ stack' = [stack EXCEPT ![t] = s]
    /\ free' = Append(free, loc[t].helper)
    /\ loc' = [loc EXCEPT ![t] = NoLocals]
    /\ Goto(t, "idle")

(* ~ContextGuard()                                                         *)
Unguarded(t) == IF loc[t].guard THEN Front(stack[t]) ELSE stack[t]

(* Mutated form: the profile is not looked up.                             *)
MutantKnown(p) == FALSE

Known(p) == p \in profiles

(* The types are looked up; on a miss the arguments are classified and the *)
(* profile is inserted, at once if no Python code is involved.             *)
Begin(t) ==
    /\ pc[t] = "idle" /\ launches < MaxLaunches
    /\ launches' = launches + 1
    /\ free' = IF free = << >> THEN free ELSE Front(free)
    /\ \E p \in Profiles :
         LET others == {u \in Threads : pc[u] = "classify" /\ loc[u].profile = p}
         IN  /\ loc' = [u \in Threads |->
                   IF u = t THEN [NoLocals EXCEPT !.profile = p, !.helper = TakenHelper,
                                                  !.raced = others # {}]
                   ELSE [loc[u] EXCEPT !.raced = @ \/ u \in others]]
             /\ IF Known(p) \/ p \notin ByPython
                THEN Goto(t, "extract") /\ profiles' = profiles \cup {p}
                ELSE Goto(t, "classify") /\ UNCHANGED profiles
    /\ ran' = None
    /\ UNCHANGED << contextVars, kernels, modules, copies, allocated, aborted >>

(* ProfileMap::insert, with its CHECK(inserted)                            *)
Classified(t) ==
    /\ pc[t] = "classify"
    /\ aborted' = (loc[t].profile \in profiles)
    /\ profiles' = profiles \cup {loc[t].profile}
    /\ Goto(t, "extract")
    /\ ran' = None
    /\ UNCHANGED << contextVars, kernels, modules, free, copies, allocated, loc, launches >>

(* Mutated form: the fast path frees the old record copies and leaves them *)
(* in the helper.                                                          *)
MutantKeepsNone(kind) == kind # "scalar"

(* Whether record_copies is emptied once the copies in it have been freed  *)
KeepsNone(kind) == TRUE

(* extract_cuda_args, or the fast path's loop: the record copies of the    *)
(* helper's last launch are freed; an array tells its context; a record is *)
(* copied to new device memory, for which there must be a context.         *)
Extract(t) ==
    /\ pc[t] = "extract"
    /\ LET h   == loc[t].helper
           old == IF KeepsNone(Kind(t)) THEN {} ELSE copies[h]
           left == allocated \ copies[h]
           new == CHOOSE a \in Addresses : a \notin left
       IN  IF Kind(t) = "record" /\ stack[t] # << >>
           THEN /\ copies' = [copies EXCEPT ![h] = old \cup {new}]
                /\ allocated' = left \cup {new}
           ELSE /\ copies' = [copies EXCEPT ![h] = old]
                /\ allocated' = left
    /\ IF Kind(t) = "record" /\ stack[t] = << >>
       THEN Finish(t, stack[t])
       ELSE /\ \E d \in IF Kind(t) = "array" THEN Devices ELSE {None} :
                 loc' = [loc EXCEPT ![t].array = d, ![t].raced = FALSE]
            /\ Goto(t, "context")
            /\ UNCHANGED << stack, free >>
    /\ ran' = None
    /\ UNCHANGED << prepared, kept, incidents, otherContext, profiles, kernels, modules,
                    aborted, launches >>

-----------------------------------------------------------------------------
(* Contexts and kernels                                                    *)

(* Mutated form: the kernel's context is switched to in any case.          *)
MutantRunsOn(t, s, k) == k.ctx

(* The context the kernel is launched in: that of the arrays, which is     *)
(* current by now, or else the one it was loaded in.                       *)
RunsOn(t, s, k) == IF loc[t].array # None THEN Last(s) ELSE k.ctx

(* Kernel k is launched, s being the thread's stack and left the stack on  *)
(* return: a switch to the kernel's own context is undone.                 *)
Execute(t, s, left, k) ==
    /\ ran' = [on |-> RunsOn(t, s, k), array |-> loc[t].array,
               selected |-> IF left = << >> THEN None ELSE Last(left),
               setup |-> k.setup,
               overlap |-> \E u \in Threads \ {t} :
                               pc[u] = "setup" /\ Family(u) = Family(t)]
    /\ Finish(t, left)

(* With the stack s the kernel is looked up, and launched at once when the *)
(* family has one; left is the stack that the guard restores.              *)
Lookup(t, s, left) ==
    IF kernels[Family(t)] # None
    THEN Execute(t, s, left, kernels[Family(t)])
    ELSE /\ Goto(t, "compile")
         /\ stack' = [stack EXCEPT ![t] = s]
         /\ loc' = [loc EXCEPT ![t].guard = (s # left)]
         /\ ran' = None
         /\ UNCHANGED free

(* ensure_numba_context, when no argument is an array                      *)
Ensure(t) ==
    /\ pc[t] = "context" /\ loc[t].array = None
    /\ LET s == WithContext(t)
       IN  \E ok \in BOOLEAN :
             /\ Prepare(Last(s), ok)
             /\ KeepDefault(t)
             /\ IF ok THEN Lookup(t, s, s) /\ UNCHANGED incidents
                ELSE Finish(t, s) /\ ran' = None /\ Incident
    /\ UNCHANGED << otherContext, launcher >>

(* maybe_switch_context to the context of the arrays                       *)
Switch(t) ==
    /\ pc[t] = "context" /\ loc[t].array # None
    /\ IF stack[t] # << >> /\ Current(t) = loc[t].array
       THEN Lookup(t, stack[t], stack[t])
       ELSE Lookup(t, Append(stack[t], loc[t].array), stack[t])
    /\ UNCHANGED << prepared, kept, incidents, otherContext, launcher >>

(* Mutated form: each launch that compiled runs the callback.              *)
MutantEmplace(f, d) ==
    IF kernels[f] = None THEN [ctx |-> d, setup |-> "running", torn |-> FALSE, setups |-> 1]
    ELSE [kernels[f] EXCEPT !.setups = @ + 1]

(* kernel_map.emplace: the first kernel stays; only the launch that put it *)
(* there runs the callback.                                                *)
Emplace(f, d) ==
    IF kernels[f] = None THEN [ctx |-> d, setup |-> "running", torn |-> FALSE, setups |-> 1]
    ELSE kernels[f]

(* Mutated form: the context keeps the reference before the setup          *)
(* callbacks run.                                                          *)
MutantKept(f, d) == IF kernels[f] = None THEN [modules EXCEPT ![d] = @ \cup {f}] ELSE modules

(* The references the context keeps when a kernel has just been emplaced   *)
Kept(f, d) == modules

(* compile() returns with a kernel that it has loaded in the current       *)
(* context.                                                                *)
Compiled(t) ==
    /\ pc[t] = "compile"
    /\ LET f == Family(t)
           k == Emplace(f, Current(t))
       IN  /\ kernels' = [kernels EXCEPT ![f] = k]
           /\ modules' = Kept(f, Current(t))
           /\ IF kernels[f] = None
              THEN Goto(t, "setup") /\ ran' = None /\ UNCHANGED << stack, free, loc >>
              ELSE Execute(t, stack[t], Unguarded(t), k)
    /\ UNCHANGED << prepared, kept, incidents, otherContext, profiles, copies, allocated,
                    aborted, launches >>

(* Mutated form: an error leaves the context of the arrays current.        *)
MutantCompileFails(t) ==
    /\ pc[t] = "compile"
    /\ Finish(t, stack[t])
    /\ ran' = None
    /\ UNCHANGED << prepared, kept, incidents, otherContext, launcher >>

CompileFails(t) ==
    /\ pc[t] = "compile"
    /\ Finish(t, Unguarded(t))
    /\ ran' = None
    /\ UNCHANGED << prepared, kept, incidents, otherContext, launcher >>

(* post_load: the setup callbacks have run; the context that is current    *)
(* keeps the reference whose end runs the teardown callbacks.              *)
SetUp(t) ==
    /\ pc[t] = "setup"
    /\ LET f == Family(t)
           k == [kernels[f] EXCEPT !.setup = "done"]
       IN  /\ kernels' = [kernels EXCEPT ![f] = k]
           /\ modules' = [modules EXCEPT ![Current(t)] = @ \cup {f}]
           /\ Execute(t, stack[t], Unguarded(t), k)
    /\ UNCHANGED << prepared, kept, incidents, otherContext, profiles, copies, allocated,
                    aborted, launches >>

(* A setup callback raises: the reference is dropped, which runs the       *)
(* teardown callbacks, and the launch fails; the kernel stays in the map.  *)
SetupFails(t) ==
    /\ pc[t] = "setup"
    /\ kernels' = [kernels EXCEPT ![Family(t)] = [@ EXCEPT !.setup = "failed", !.torn = TRUE]]
    /\ Finish(t, Unguarded(t))
    /\ ran' = None
    /\ UNCHANGED << prepared, kept, incidents, otherContext, profiles, modules, copies,
                    allocated, aborted, launches >>

(* Context.reset() of the current context: modules.clear() runs the        *)
(* teardown callbacks of what was loaded in it.                            *)
ResetContext(t) ==
    /\ pc[t] = "idle" /\ stack[t] # << >>
    /\ Incident
    /\ modules' = [modules EXCEPT ![Current(t)] = {}]
    /\ kernels' = [f \in Families |->
                     IF f \in modules[Current(t)] THEN [kernels[f] EXCEPT !.torn = TRUE]
                     ELSE kernels[f]]
    /\ ran' = None
    /\ UNCHANGED << stack, prepared, kept, otherContext, profiles, free, copies, allocated,
                    pc, loc, aborted, launches >>

ContextStep(t) ==
    /\ pc[t] = "idle"
    /\ SelectDevice(t) \/ EnterBlock(t) \/ ExitBlock(t)
    /\ ran' = None
    /\ UNCHANGED << launcher, free, pc, loc >>

(* check_failed() ends the process.                                        *)
Next == ~aborted /\ \E t \in Threads :
    \/ Begin(t) \/ Classified(t) \/ Extract(t) \/ Ensure(t) \/ Switch(t)
    \/ Compiled(t) \/ CompileFails(t) \/ SetUp(t) \/ SetupFails(t)
    \/ ResetContext(t) \/ ContextStep(t)

Spec == Init /\ [][Next]_vars

-----------------------------------------------------------------------------
(* Properties                                                              *)

(* The variables have their types.                                         *)
TypeOK ==
    /\ ContextTypeOK
    /\ profiles \in SUBSET Profiles
    /\ kernels \in [Families -> Kernels \cup {None}]
    /\ modules \in [Devices -> SUBSET Families]
    /\ free \in Seq(Helpers)
    /\ copies \in [Helpers -> SUBSET Addresses] /\ allocated \in SUBSET Addresses
    /\ pc \in [Threads -> {"idle", "classify", "extract", "context", "compile", "setup"}]
    /\ loc \in [Threads -> [profile : Profiles \cup {None}, helper : Helpers \cup {None},
                            array : Devices \cup {None}, guard : BOOLEAN, raced : BOOLEAN]]
    /\ aborted \in BOOLEAN /\ launches \in Nat

(* Outside launches the context stack of a thread is what it has pushed    *)
(* itself: however a launch ends it leaves no context behind but that of   *)
(* device 0 when there was none, and `with gpus[d]` pops its own.          *)
StackBalanced == \A t \in Threads : pc[t] = "idle" => Balanced(t)

(* A kernel that is given arrays is launched in their context, wherever    *)
(* the kernel was loaded and whatever context is current.                  *)
RunsWithItsArrays == ran # None /\ ran.array # None => ran.on = ran.array

(* cuda_ffi.rst: "For each module, the setup callback is invoked once      *)
(* only": several launches may compile, one of them calls it.              *)
SetupOnce == \A f \in Families : kernels[f] # None => kernels[f].setups = 1

(* A module is launched before its setup callback has finished only while  *)
(* another launch is running it.                                           *)
SetupFirst == ran # None => ran.setup # "running" \/ ran.overlap

(* The teardown callbacks of a module never run while its setup callbacks  *)
(* do, even if another thread resets the context meanwhile.                *)
TeardownAfterSetup == \A f \in Families :
    kernels[f] # None /\ kernels[f].torn => kernels[f].setup # "running"

(* A module's setup, launches and teardown come in this order.             *)
CallbacksInOrder == SetupFirst /\ TeardownAfterSetup

(* Every record copy is in one helper's list and is allocated: it is freed *)
(* once, and neither a kernel that uses it nor the copy back finds it      *)
(* freed.                                                                  *)
CopiesOwned ==
    /\ \A h \in Helpers : copies[h] \subseteq allocated
    /\ \A g, h \in Helpers : g # h => copies[g] \cap copies[h] = {}
    /\ \A a \in allocated : \E h \in Helpers : a \in copies[h]

(* CHECK(inserted) fails only between launches that classified the same    *)
(* new argument types at the same time, with Python code.                  *)
AbortIsEarned == aborted => \E t \in Threads : loc[t].raced

(* device-management.rst: `with gpus[d]` "ensures execution on the         *)
(* selected GPU".                                                          *)
SelectedDevice == ran # None /\ ran.array = None => ran.on = ran.selected
=============================================================================
