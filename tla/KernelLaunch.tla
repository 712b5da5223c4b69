---------------------------- MODULE KernelLaunch ----------------------------
(***************************************************************************)
(* Launching a kernel: _ArgMarshaller.__call__ down to the native launcher *)
(* (descriptor.py, cext/launcher/kernel.cpp).  A launch checks that its    *)
(* marshaller is current, if need be compiles the kernel for the argument  *)
(* types and rebinds the marshaller, and then calls the native launcher,   *)
(* which looks the kernel up in its own cache and compiles on a miss.      *)
(* Several threads launch, through shared or separate marshallers, while   *)
(* recompile() invalidates what has been compiled.                         *)
(*                                                                         *)
(* configure() is one step here: ConfigureCache models it in detail.       *)
(***************************************************************************)
EXTENDS DispatcherRegistry

CONSTANTS
    Objects,            \* _ArgMarshaller objects
    KeyOf,              \* the launch-config key of each
    GilDisabled,        \* _PY_GIL_DISABLED: there is a _launch_lock
    HasPlanners,        \* a whole-function planner is registered at some time
    NeedsLiteral,       \* positions for which typing raises ForceLiteralArg
    NeedsLaunch,        \* a planner asks for the launch metadata
    RetryBudget,        \* launch_config_retry_budget of the first attempt
    MaxLaunches,        \* bound: launches
    MaxRecompiles,      \* bound: recompile() calls
    OptInMayChange      \* whether dispatcher.extensions is changed at run time

ASSUME LaunchAssumption ==
    /\ KeyOf \in [Objects -> LcKeys]
    /\ NeedsLiteral \subseteq Positions
    /\ {GilDisabled, HasPlanners, NeedsLaunch, OptInMayChange} \subseteq BOOLEAN
    /\ NeedsLaunch => HasPlanners
    /\ RetryBudget \in Nat /\ MaxLaunches \in Nat /\ MaxRecompiles \in Nat

VARIABLES
    overloads,      \* overloads: generic compile results
    natives,        \* the kernels each native dispatcher has loaded
    marshaller,     \* the marshaller objects, None before configure()
    planners,       \* whether a planner is registered
    world,          \* version of the globals the kernel captures
    floor,          \* their version at the last recompile() that returned
    recompiling,    \* where recompile() is
    launchLock,     \* _launch_lock: its owner, or None
    compilerLock,   \* global_compiler_lock: its owner, or None
    pc,             \* where each thread is in its launch
    loc,            \* its local variables
    launches        \* how many launches have been made

launchVars == << overloads, natives, marshaller, planners, world, floor, recompiling,
                 launchLock, compilerLock, pc, loc, launches >>
vars == << registryVars, launchVars >>

-----------------------------------------------------------------------------

(* What a marshaller is bound to: _launch_config (TRUE: its own), the      *)
(* native dispatcher and the generation.                                   *)
Bindings == [lc : BOOLEAN, kd : NativeDispatcher, gen : Nat \cup {None}]

(* launcher is the native dispatcher its LaunchConfiguration calls, optIn  *)
(* whether its extension snapshot uses launch metadata.                    *)
MarshallerStates == [bound : Bindings, launcher : NativeDispatcher, optIn : BOOLEAN]

(* An entry of kernels_by_constants of a native dispatcher.                *)
LoadedKernels == [in : Nat, constants : Sigs, kernel : CompileResults]

ASSUME LaunchNoneAssumption ==
    /\ None \notin Nat \cup Threads \cup Objects \cup LcKeys \cup Sigs \cup CompileResults
                    \cup [Positions -> Values] \cup Bindings \cup MarshallerStates
    /\ "recompile" \notin Threads \cup {None}

(* literalize_argtypes                                                     *)
Literalized(args, lits) == [p \in Positions |-> IF p \in lits THEN args[p] ELSE NotLiteral]

GenericFor(sig) == {r \in overloads : r.sig = sig}

(* Mutated form: an overload of any launch configuration will do.          *)
MutantSpecialisedFor(sig, key) == {r \in lcOverloads : r.sig = sig}

SpecialisedFor(sig, key) == {r \in lcOverloads : r.sig = sig /\ r.key = key}

Found(results) == CHOOSE r \in results : TRUE

(* _compile_result_for                                                     *)
CompileResultsFor(sig, lc, key) == IF lc THEN SpecialisedFor(sig, key) ELSE GenericFor(sig)

NoBinding == [lc |-> FALSE, kd |-> None, gen |-> None]

NoLocals == [m |-> None, args |-> None, sig |-> None, active |-> NoBinding,
             conf |-> NoBinding, launcher |-> None, caller |-> None, lits |-> {},
             key |-> None, gen |-> None, read |-> 0, budget |-> 0,
             kernel |-> None, error |-> None, since |-> 0]

Init ==
    /\ RegistryInit
    /\ overloads = {}
    /\ natives = {}
    /\ marshaller = [m \in Objects |-> None]
    /\ planners = NeedsLaunch
    /\ world = 0 /\ floor = 0
    /\ recompiling = "idle"
    /\ launchLock = None /\ compilerLock = None
    /\ pc = [t \in Threads |-> "idle"]
    /\ loc = [t \in Threads |-> NoLocals]
    /\ launches = 0

Goto(t, label) == pc' = [pc EXCEPT ![t] = label]
Key(t)  == KeyOf[loc[t].m]
Mine(t) == marshaller[loc[t].m]

(* active_launch_config() of _prepare_for_launch                           *)
UsesLaunchConfig(t) == requires \/ loc[t].conf.lc

Raise(t, error) ==
    /\ Goto(t, "failed")
    /\ loc' = [loc EXCEPT ![t].error = error]

sharedVars == << overloads, natives, marshaller, planners, world, floor, recompiling,
                 launches >>

(* _get_launch_config_dispatcher_and_generation, as it takes effect: the   *)
(* registered dispatcher, or a new one that is registered.                 *)
Obtained(k) == IF dispatchers[k] # None THEN dispatchers[k]
               ELSE NewKernelDispatcher(generation, literals)

GetLaunchDispatcher(k) ==
    IF dispatchers[k] # None
    THEN TouchDispatcher(k)
    ELSE InsertDispatcher(k, Obtained(k)) /\ made' = made + 1

-----------------------------------------------------------------------------
(* configure() and the start of a launch                                   *)

Configure(m) ==
    /\ marshaller[m] = None
    /\ LET bound == IF LaunchConfigEnabled
                    THEN [lc |-> TRUE, kd |-> Obtained(KeyOf[m]), gen |-> generation]
                    ELSE [lc |-> FALSE, kd |-> c, gen |-> None]
       IN  marshaller' = [marshaller EXCEPT ![m] =
               [bound |-> bound, launcher |-> bound.kd, optIn |-> optIn]]
    /\ IF LaunchConfigEnabled
       THEN GetLaunchDispatcher(KeyOf[m])
       ELSE UNCHANGED registryVars
    /\ UNCHANGED << overloads, natives, world, planners, floor, recompiling,
                    launchLock, compilerLock, pc, loc, launches >>

Launch(t) ==
    /\ pc[t] = "idle"
    /\ launches < MaxLaunches
    /\ launches' = launches + 1
    /\ \E m \in {o \in Objects : marshaller[o] # None}, args \in [Positions -> Values] :
         loc' = [loc EXCEPT ![t] = [NoLocals EXCEPT !.m = m, !.args = args, !.since = floor]]
    /\ Goto(t, IF GilDisabled THEN "call" ELSE "snapshot")
    /\ UNCHANGED << registryVars, overloads, natives, marshaller, world, planners, floor,
                    recompiling, launchLock, compilerLock >>

(* Mutated form: the launch does not take _launch_lock.                    *)
MutantTakeLaunchLock(t) ==
    /\ pc[t] = "call"
    /\ Goto(t, "snapshot")
    /\ UNCHANGED << registryVars, sharedVars, launchLock, compilerLock, loc >>

TakeLaunchLock(t) ==
    /\ pc[t] = "call"
    /\ launchLock = None
    /\ launchLock' = t
    /\ Goto(t, "snapshot")
    /\ UNCHANGED << registryVars, sharedVars, compilerLock, loc >>

(* _launch copies what the marshaller is bound to, and then its launcher.  *)
Snapshot(t) ==
    /\ pc[t] = "snapshot"
    /\ loc' = [loc EXCEPT ![t].active = Mine(t).bound]
    /\ Goto(t, "launcher")
    /\ UNCHANGED << registryVars, sharedVars, launchLock, compilerLock >>

ReadLauncher(t) ==
    /\ pc[t] = "launcher"
    /\ loc' = [loc EXCEPT ![t].launcher = Mine(t).launcher]
    /\ Goto(t, "decide")
    /\ UNCHANGED << registryVars, sharedVars, launchLock, compilerLock >>

(* Mutated form: literal arguments never make a launch look again.         *)
MutantNeedsPrelaunch(t) == FALSE

(* _literal_dispatcher_needs_prelaunch                                     *)
NeedsPrelaunch(t) ==
    LET a == loc[t].active IN
    /\ literals # {}
    /\ IF a.lc
       THEN a.gen # generation \/ dispatchers[Key(t)] # a.kd
       ELSE a.kd # c

(* Does this launch look at the dispatcher, or go to the native launcher   *)
(* straight away?                                                          *)
Decide(t) ==
    /\ pc[t] = "decide"
    /\ Goto(t, IF planners \/ requires \/ Mine(t).bound.lc \/ NeedsPrelaunch(t)
               THEN "configured" ELSE "go")
    /\ UNCHANGED << registryVars, sharedVars, launchLock, compilerLock, loc >>

-----------------------------------------------------------------------------
(* _get_ready_launch: is what the marshaller is bound to still current?    *)

(* The arguments of the call are read from the marshaller.                 *)
ReadConfigured(t) ==
    /\ pc[t] = "configured"
    /\ loc' = [loc EXCEPT ![t].sig = Literalized(loc[t].args, literals),
                          ![t].conf = Mine(t).bound]
    /\ Goto(t, IF Mine(t).bound.lc \/ requires THEN "ready" ELSE "readyGeneric")
    /\ UNCHANGED << registryVars, sharedVars, launchLock, compilerLock >>

ReadyForGeneric(t) ==
    /\ loc[t].conf.kd = c
    /\ loc[t].conf.gen = None
    /\ GenericFor(loc[t].sig) # {}

(* The generic overloads are looked up without the lock ...                *)
ReadyGeneric(t) ==
    /\ pc[t] = "readyGeneric"
    /\ Goto(t, IF ReadyForGeneric(t) THEN "recheck" ELSE "prepare")
    /\ UNCHANGED << registryVars, sharedVars, launchLock, compilerLock, loc >>

(* ... so what may have changed meanwhile is read a second time.           *)
Recheck(t) ==
    /\ pc[t] = "recheck"
    /\ IF requires \/ c # loc[t].conf.kd
       THEN Goto(t, "prepare") /\ UNCHANGED loc
       ELSE /\ Goto(t, "rebind")
            /\ loc' = [loc EXCEPT ![t].active = [lc |-> FALSE, kd |-> c, gen |-> None]]
    /\ UNCHANGED << registryVars, sharedVars, launchLock, compilerLock >>

ReadyForLaunchConfig(t) ==
    /\ SpecialisedFor(loc[t].sig, Key(t)) # {}
    /\ loc[t].conf.gen = generation
    /\ dispatchers[Key(t)] = loc[t].conf.kd

Ready(t) ==
    /\ pc[t] = "ready"
    /\ IF ReadyForLaunchConfig(t)
       THEN /\ TouchDispatcher(Key(t))
            /\ loc' = [loc EXCEPT ![t].active = [@ EXCEPT !.lc = TRUE, !.kd = loc[t].conf.kd,
                                                          !.gen = loc[t].conf.gen]]
            /\ Goto(t, "rebind")
       ELSE /\ Goto(t, "prepare")
            /\ UNCHANGED << registryVars, loc >>
    /\ UNCHANGED << sharedVars, launchLock, compilerLock >>

-----------------------------------------------------------------------------
(* _prepare_for_launch, under the global compiler lock                     *)

(* Mutated form: _prepare_for_launch without the compiler lock.            *)
MutantPrepare(t) ==
    /\ pc[t] = "prepare"
    /\ loc' = [loc EXCEPT ![t].sig = Literalized(loc[t].args, literals)]
    /\ Goto(t, "prepared")
    /\ UNCHANGED << registryVars, sharedVars, launchLock, compilerLock >>

Prepare(t) ==
    /\ pc[t] = "prepare"
    /\ compilerLock = None
    /\ compilerLock' = t
    /\ loc' = [loc EXCEPT ![t].sig = Literalized(loc[t].args, literals)]
    /\ Goto(t, "prepared")
    /\ UNCHANGED << registryVars, sharedVars, launchLock >>

(* Another thread may have prepared the same launch meanwhile.             *)
ReadyAfterAll(t) ==
    LET lc == UsesLaunchConfig(t) IN
    /\ pc[t] = "prepared"
    /\ IF lc THEN ReadyForLaunchConfig(t) ELSE ReadyForGeneric(t)
    /\ IF lc THEN TouchDispatcher(Key(t)) ELSE UNCHANGED registryVars
    /\ loc' = [loc EXCEPT ![t].active = [loc[t].conf EXCEPT !.lc = lc]]
    /\ compilerLock' = None
    /\ Goto(t, "rebind")
    /\ UNCHANGED << sharedVars, launchLock >>

NotReady(t) ==
    /\ pc[t] = "prepared"
    /\ ~ IF UsesLaunchConfig(t) THEN ReadyForLaunchConfig(t) ELSE ReadyForGeneric(t)
    /\ Goto(t, "find")
    /\ UNCHANGED << registryVars, sharedVars, launchLock, compilerLock, loc >>

(* _compile_result_for: without a result, restore an evicted dispatcher of *)
(* the current generation and compile.                                     *)
FindCompiled(t) ==
    LET lc   == UsesLaunchConfig(t)
        conf == loc[t].conf
    IN
    /\ pc[t] = "find"
    /\ IF CompileResultsFor(loc[t].sig, lc, Key(t)) # {}
       THEN /\ loc' = [loc EXCEPT ![t].active.lc = lc]
            /\ Goto(t, "select")
       ELSE /\ loc' = [loc EXCEPT ![t].caller = "prepare", ![t].budget = RetryBudget]
            /\ Goto(t, IF conf.lc /\ ~ requires /\ conf.gen # None
                       THEN "remember" ELSE "compile")
    /\ UNCHANGED << registryVars, sharedVars, launchLock, compilerLock >>

(* _remember_kernel_dispatcher(..., replace_existing=False)                *)
RememberRetained(t) ==
    LET conf == loc[t].conf IN
    /\ pc[t] = "remember"
    /\ \/ /\ conf.gen = generation
          /\ dispatchers[Key(t)] = None
          /\ InsertDispatcher(Key(t), conf.kd)
          /\ UNCHANGED made
       \/ /\ conf.gen = generation
          /\ dispatchers[Key(t)] = conf.kd
          /\ TouchDispatcher(Key(t))
       \/ /\ conf.gen # generation \/ dispatchers[Key(t)] \notin {None, conf.kd}
          /\ UNCHANGED registryVars
    /\ Goto(t, "compile")
    /\ UNCHANGED << sharedVars, launchLock, compilerLock, loc >>

-----------------------------------------------------------------------------
(* _compile_impl, called by _prepare_for_launch or, through _compile, by   *)
(* the native launcher; the caller holds the compiler lock                 *)

CompileEnter(t) ==
    /\ pc[t] = "compile"
    /\ loc' = [loc EXCEPT ![t].lits = literals,
                          ![t].sig = Literalized(loc[t].args, literals)]
    /\ Goto(t, "mode")
    /\ UNCHANGED << registryVars, sharedVars, launchLock, compilerLock >>

CompileMode(t) ==
    /\ pc[t] = "mode"
    /\ loc' = [loc EXCEPT ![t].key = IF requires \/ Mine(t).optIn THEN Key(t) ELSE None,
                          ![t].gen = generation]
    /\ Goto(t, "reuse")
    /\ UNCHANGED << registryVars, sharedVars, launchLock, compilerLock >>

AfterCompile(t) == IF loc[t].caller = "prepare" THEN "relookup" ELSE "compiled"

Reuse(t) ==
    LET found == CompileResultsFor(loc[t].sig, loc[t].key # None, loc[t].key) IN
    /\ pc[t] = "reuse"
    /\ IF found # {}
       THEN /\ loc' = [loc EXCEPT ![t].kernel = Found(found)]
            /\ Goto(t, AfterCompile(t))
       ELSE /\ Goto(t, "read") /\ UNCHANGED loc
    /\ UNCHANGED << registryVars, sharedVars, launchLock, compilerLock >>

(* The compiler reads the globals the kernel captures.                     *)
ReadGlobals(t) ==
    /\ pc[t] = "read"
    /\ loc' = [loc EXCEPT ![t].read = world]
    /\ Goto(t, "typed")
    /\ UNCHANGED << registryVars, sharedVars, launchLock, compilerLock >>

(* Typing raised ForceLiteralArg: record the positions, and start again if *)
(* that changed anything for this attempt.                                 *)
ForceLiteralArg(t) ==
    /\ pc[t] = "typed"
    /\ ~ (NeedsLiteral \subseteq loc[t].lits)
    /\ IF NeedsLiteral \subseteq literals
       THEN UNCHANGED << generation, c, literals, optIn, dispatchers, dispatcherLru,
                         old, lcOverloads, made, overloads >>
       ELSE AdvanceGeneration(literals \cup NeedsLiteral) /\ overloads' = {}
    /\ IF literals' # loc[t].lits
       THEN /\ Goto(t, "compile")
            /\ UNCHANGED loc
            /\ \E asked \in {FALSE, NeedsLaunch} :
                 requires' = (requires \/ (loc[t].key = None /\ asked))
       ELSE Raise(t, "repeated literal request") /\ UNCHANGED requires
    /\ UNCHANGED << natives, marshaller, world, planners, floor, recompiling, launches,
                    launchLock, compilerLock >>

(* Mutated form: only later compilations are specialised.                  *)
MutantPromote(t) ==
    /\ pc[t] = "typed"
    /\ NeedsLiteral \subseteq loc[t].lits
    /\ NeedsLaunch /\ loc[t].key = None
    /\ requires' = TRUE
    /\ Goto(t, "publish")
    /\ UNCHANGED << generation, c, literals, optIn, dispatchers, dispatcherLru, old,
                    lcOverloads, made, sharedVars, launchLock, compilerLock, loc >>

(* A generic compile found out that it needs the launch metadata.          *)
Promote(t) ==
    /\ pc[t] = "typed"
    /\ NeedsLiteral \subseteq loc[t].lits
    /\ NeedsLaunch /\ loc[t].key = None
    /\ loc' = [loc EXCEPT ![t].key = Key(t)]
    /\ requires' = TRUE
    /\ Goto(t, "publish")
    /\ UNCHANGED << generation, c, literals, optIn, dispatchers, dispatcherLru, old,
                    lcOverloads, made, sharedVars, launchLock, compilerLock >>

NoPromotion(t) ==
    /\ pc[t] = "typed"
    /\ NeedsLiteral \subseteq loc[t].lits
    /\ ~ (NeedsLaunch /\ loc[t].key = None)
    /\ Goto(t, "publish")
    /\ UNCHANGED << registryVars, sharedVars, launchLock, compilerLock, loc >>

Compiled(t) == [sig |-> loc[t].sig, key |-> loc[t].key, world |-> loc[t].read]

(* Mutated form: the generation is not compared.                           *)
MutantOvertaken(t) == FALSE

(* An invalidation came while the result was being compiled.               *)
Overtaken(t) == loc[t].gen # generation

(* A specialised result is published under the lock, and only in the       *)
(* generation its compilation started in.                                  *)
PublishSpecialised(t) ==
    LET existing == SpecialisedFor(loc[t].sig, loc[t].key) IN
    /\ pc[t] = "publish"
    /\ loc[t].key # None
    /\ IF Overtaken(t)
       THEN /\ UNCHANGED lcOverloads
            /\ IF loc[t].budget = 0
               THEN Raise(t, "invalidated repeatedly")
               ELSE /\ loc' = [loc EXCEPT ![t].budget = @ - 1]
                    /\ Goto(t, "compile")
       ELSE /\ loc' = [loc EXCEPT ![t].kernel =
                         IF existing # {} THEN Found(existing) ELSE Compiled(t)]
            /\ lcOverloads' = IF existing # {} THEN lcOverloads
                              ELSE lcOverloads \cup {Compiled(t)}
            /\ Goto(t, AfterCompile(t))
    /\ UNCHANGED << generation, c, literals, requires, optIn, dispatchers, dispatcherLru,
                    old, made, sharedVars, launchLock, compilerLock >>

(* A generic result is stored without the lock, whatever has happened.     *)
PublishGeneric(t) ==
    /\ pc[t] = "publish"
    /\ loc[t].key = None
    /\ loc' = [loc EXCEPT ![t].kernel = Compiled(t)]
    /\ overloads' = (overloads \ GenericFor(loc[t].sig)) \cup {Compiled(t)}
    /\ Goto(t, AfterCompile(t))
    /\ UNCHANGED << registryVars, natives, marshaller, world, planners, floor, recompiling,
                    launches, launchLock, compilerLock >>

-----------------------------------------------------------------------------
(* _prepare_for_launch goes on                                             *)

Relookup(t) ==
    LET lc  == UsesLaunchConfig(t)
        sig == Literalized(loc[t].args, literals)
    IN
    /\ pc[t] = "relookup"
    /\ IF CompileResultsFor(sig, lc, Key(t)) # {}
       THEN /\ loc' = [loc EXCEPT ![t].sig = sig, ![t].active.lc = lc]
            /\ Goto(t, "select")
       ELSE Raise(t, "no matching overload")
    /\ UNCHANGED << registryVars, sharedVars, launchLock, compilerLock >>

(* Which native dispatcher runs the launch; _prepare_for_launch returns.   *)
Select(t) ==
    LET conf == loc[t].conf IN
    /\ pc[t] = "select"
    /\ \/ /\ ~ loc[t].active.lc
          /\ loc' = [loc EXCEPT ![t].active = [lc |-> FALSE, kd |-> c, gen |-> None]]
          /\ UNCHANGED registryVars
       \/ /\ loc[t].active.lc
          /\ ~ requires /\ conf.gen = generation /\ dispatchers[Key(t)] = conf.kd
          /\ loc' = [loc EXCEPT ![t].active = conf]
          /\ UNCHANGED registryVars
       \/ /\ loc[t].active.lc
          /\ requires \/ conf.gen # generation \/ dispatchers[Key(t)] # conf.kd
          /\ loc' = [loc EXCEPT ![t].active = [lc |-> TRUE, kd |-> Obtained(Key(t)),
                                               gen |-> generation]]
          /\ GetLaunchDispatcher(Key(t))
    /\ compilerLock' = None
    /\ Goto(t, "rebind")
    /\ UNCHANGED << sharedVars, launchLock >>

-----------------------------------------------------------------------------
(* _launch goes on: rebind the marshaller if it is not current, field by   *)
(* field, and call the native launcher                                     *)

Rebind(t) ==
    LET a == loc[t].active
        m == loc[t].m
    IN
    /\ pc[t] = "rebind"
    /\ IF a.kd # Mine(t).bound.kd \/ a.lc # Mine(t).bound.lc
       THEN /\ loc' = [loc EXCEPT ![t].launcher = a.kd]
            /\ marshaller' = [marshaller EXCEPT ![m] =
                              [@ EXCEPT !.launcher = a.kd, !.bound.lc = a.lc]]
            /\ Goto(t, "rebound")
       ELSE /\ Goto(t, "go")
            /\ UNCHANGED << loc, marshaller >>
    /\ UNCHANGED << registryVars, overloads, natives, world, planners, floor, recompiling, launches,
                    launchLock, compilerLock >>

(* Mutated form: the generation is stored, the native dispatcher is not.   *)
MutantRebound(t) ==
    /\ pc[t] = "rebound"
    /\ marshaller' = [marshaller EXCEPT ![loc[t].m].bound.gen = loc[t].active.gen]
    /\ Goto(t, "go")
    /\ UNCHANGED << registryVars, overloads, natives, world, planners, floor, recompiling, launches,
                    launchLock, compilerLock, loc >>

Rebound(t) ==
    LET a == loc[t].active
        m == loc[t].m
    IN
    /\ pc[t] = "rebound"
    /\ marshaller' = [marshaller EXCEPT ![m] = [@ EXCEPT !.bound.kd = a.kd, !.bound.gen = a.gen]]
    /\ Goto(t, "go")
    /\ UNCHANGED << registryVars, overloads, natives, world, planners, floor, recompiling, launches,
                    launchLock, compilerLock, loc >>

(* kernels_by_constants of a native dispatcher: the constants are those at *)
(* the positions it was built with.                                        *)
LoadedIn(d, args) ==
    {n \in natives : n.in = d.id /\ n.constants = Literalized(args, d.lits)}

Go(t) ==
    LET loaded == LoadedIn(loc[t].launcher, loc[t].args) IN
    /\ pc[t] = "go"
    /\ IF loaded # {}
       THEN /\ loc' = [loc EXCEPT ![t].kernel = Found(loaded).kernel]
            /\ Goto(t, "ran")
       ELSE /\ loc' = [loc EXCEPT ![t].kernel = None]
            /\ Goto(t, "miss")
    /\ UNCHANGED << registryVars, sharedVars, launchLock, compilerLock >>

(* _compile takes the compiler lock.                                       *)
Miss(t) ==
    /\ pc[t] = "miss"
    /\ compilerLock = None
    /\ compilerLock' = t
    /\ loc' = [loc EXCEPT ![t].caller = "native", ![t].budget = RetryBudget]
    /\ Goto(t, "compile")
    /\ UNCHANGED << registryVars, sharedVars, launchLock >>

CompileReturns(t) ==
    /\ pc[t] = "compiled"
    /\ compilerLock' = None
    /\ Goto(t, "emplace")
    /\ UNCHANGED << registryVars, sharedVars, launchLock, loc >>

(* kernel_map.emplace keeps the kernel that is already there, and the      *)
(* launch uses it.                                                         *)
Emplace(t) ==
    LET d      == loc[t].launcher
        loaded == LoadedIn(d, loc[t].args)
    IN
    /\ pc[t] = "emplace"
    /\ natives' = IF loaded # {} THEN natives
                  ELSE natives \cup {[in |-> d.id, kernel |-> loc[t].kernel,
                                      constants |-> Literalized(loc[t].args, d.lits)]}
    /\ loc' = IF loaded # {}
              THEN [loc EXCEPT ![t].kernel = Found(loaded).kernel] ELSE loc
    /\ Goto(t, "ran")
    /\ UNCHANGED << registryVars, overloads, marshaller, world, planners, floor, recompiling,
                    launches, launchLock, compilerLock >>

(* Mutated form: an exception leaves the compiler lock held.               *)
MutantLeave(t) ==
    /\ pc[t] \in {"ran", "failed"}
    /\ launchLock' = IF launchLock = t THEN None ELSE launchLock
    /\ loc' = [loc EXCEPT ![t] = NoLocals]
    /\ Goto(t, "idle")
    /\ UNCHANGED << registryVars, sharedVars, compilerLock >>

Leave(t) ==
    /\ pc[t] \in {"ran", "failed"}
    /\ launchLock' = IF launchLock = t THEN None ELSE launchLock
    /\ compilerLock' = IF compilerLock = t THEN None ELSE compilerLock
    /\ loc' = [loc EXCEPT ![t] = NoLocals]
    /\ Goto(t, "idle")
    /\ UNCHANGED << registryVars, sharedVars >>

-----------------------------------------------------------------------------
(* recompile(), and the program around it                                  *)

(* The program changes what the kernel captures and calls recompile().     *)
ChangeGlobals ==
    /\ recompiling = "idle"
    /\ world < MaxRecompiles
    /\ world' = world + 1
    /\ recompiling' = "called"
    /\ UNCHANGED << registryVars, overloads, natives, marshaller, planners, floor, launches,
                    launchLock, compilerLock, pc, loc >>

(* Mutated form: the generic overloads survive.                            *)
MutantClearOverloads ==
    /\ recompiling = "called"
    /\ GilDisabled => launchLock = None
    /\ launchLock' = IF GilDisabled THEN "recompile" ELSE launchLock
    /\ recompiling' = "cleared"
    /\ UNCHANGED << registryVars, overloads, natives, marshaller, world, planners, floor, launches,
                    compilerLock, pc, loc >>

(* self.overloads.clear(), outside _launch_config_lock                     *)
ClearOverloads ==
    /\ recompiling = "called"
    /\ GilDisabled => launchLock = None
    /\ launchLock' = IF GilDisabled THEN "recompile" ELSE launchLock
    /\ overloads' = {}
    /\ recompiling' = "cleared"
    /\ UNCHANGED << registryVars, natives, marshaller, world, planners, floor, launches,
                    compilerLock, pc, loc >>

FinishRecompile ==
    /\ recompiling = "cleared"
    /\ AdvanceGeneration(literals)
    /\ floor' = world
    /\ launchLock' = IF GilDisabled THEN None ELSE launchLock
    /\ recompiling' = "idle"
    /\ UNCHANGED << requires, overloads, natives, marshaller, world, planners, launches,
                    compilerLock, pc, loc >>

ChangeExtensions ==
    /\ OptInMayChange
    /\ optIn' = ~ optIn
    /\ UNCHANGED << generation, c, literals, requires, dispatchers, dispatcherLru, old,
                    lcOverloads, made, launchVars >>

(* register_planner(): it does not touch the overloads there are.          *)
RegisterPlanner ==
    /\ HasPlanners /\ ~ planners
    /\ planners' = TRUE
    /\ UNCHANGED << registryVars, overloads, natives, marshaller, world, floor, recompiling,
                    launchLock, compilerLock, pc, loc, launches >>

LaunchStep(t) ==
    \/ TakeLaunchLock(t) \/ Snapshot(t) \/ ReadLauncher(t) \/ Decide(t)
    \/ ReadConfigured(t) \/ ReadyGeneric(t) \/ Recheck(t) \/ Ready(t)
    \/ Prepare(t) \/ ReadyAfterAll(t) \/ NotReady(t) \/ FindCompiled(t)
    \/ RememberRetained(t) \/ Relookup(t) \/ Select(t)
    \/ CompileEnter(t) \/ CompileMode(t) \/ Reuse(t) \/ ReadGlobals(t)
    \/ ForceLiteralArg(t) \/ Promote(t) \/ NoPromotion(t)
    \/ PublishSpecialised(t) \/ PublishGeneric(t)
    \/ Rebind(t) \/ Rebound(t) \/ Go(t) \/ Miss(t) \/ CompileReturns(t) \/ Emplace(t)
    \/ Leave(t)

RecompileStep == ClearOverloads \/ FinishRecompile

(* Everything has been launched and nothing is going on.                   *)
Finished ==
    /\ launches = MaxLaunches
    /\ \A t \in Threads : pc[t] = "idle"
    /\ UNCHANGED vars

Next ==
    \/ \E m \in Objects : Configure(m)
    \/ \E t \in Threads : Launch(t) \/ LaunchStep(t)
    \/ ChangeGlobals \/ RecompileStep \/ ChangeExtensions \/ RegisterPlanner
    \/ Finished

Spec == Init /\ [][Next]_vars

(* Threads inside a launch or a recompile keep running.                    *)
FairSpec == Spec /\ WF_vars(RecompileStep) /\ \A t \in Threads : WF_vars(LaunchStep(t))

-----------------------------------------------------------------------------
(* Types                                                                   *)

Labels == {"idle", "call", "snapshot", "launcher", "decide", "configured", "readyGeneric",
           "recheck", "ready", "prepare", "prepared", "find", "remember", "compile", "mode",
           "reuse", "read", "typed", "publish", "relookup", "select", "rebind", "rebound",
           "go", "miss", "compiled", "emplace", "ran", "failed"}

Errors == {"repeated literal request", "invalidated repeatedly", "no matching overload"}

Locals == [m : Objects \cup {None}, args : [Positions -> Values] \cup {None},
           sig : Sigs \cup {None},
           active : Bindings \cup {NoBinding}, conf : Bindings \cup {NoBinding},
           launcher : NativeDispatcher \cup {None},
           caller : {"prepare", "native", None}, lits : SUBSET Positions,
           key : LcKeys \cup {None}, gen : Nat \cup {None}, read : Nat, budget : Nat,
           kernel : CompileResults \cup {None}, error : Errors \cup {None}, since : Nat]

(* TypeOK: the tables, the marshallers and the locals of a launch have the *)
(* types the code gives them.                                              *)
TypeOK ==
    /\ RegistryTypeOK
    /\ overloads \in SUBSET CompileResults
    /\ natives \in SUBSET LoadedKernels
    /\ marshaller \in [Objects -> MarshallerStates \cup {None}]
    /\ planners \in BOOLEAN
    /\ world \in Nat /\ floor \in 0..world
    /\ recompiling \in {"idle", "called", "cleared"}
    /\ launchLock \in Threads \cup {None, "recompile"}
    /\ compilerLock \in Threads \cup {None}
    /\ pc \in [Threads -> Labels]
    /\ loc \in [Threads -> Locals]
    /\ launches \in 0..MaxLaunches

-----------------------------------------------------------------------------
(* Safety                                                                  *)

Ran(t) == pc[t] = "ran"

(* RunsOwnLiterals: the kernel a launch runs was compiled for the values   *)
(* of its own literal arguments, not for those of another launch that used *)
(* the same native dispatcher ("racing threads that compile the same       *)
(* kernel", kernel.cpp).                                                   *)
RunsOwnLiterals ==
    \A t \in Threads : Ran(t) =>
        \A p \in Positions : loc[t].kernel.sig[p] \in {NotLiteral, loc[t].args[p]}

(* RunsOwnConfig: a kernel that was specialised for a launch configuration *)
(* only ever runs with that one, and a launch whose extensions or planners *)
(* use launch metadata runs a kernel specialised for its own ("never       *)
(* observe stale launch configuration values from a previous same-         *)
(* signature launch", descriptor.py).                                      *)
RunsOwnConfig ==
    \A t \in Threads : Ran(t) =>
        /\ loc[t].kernel.key \in {None, Key(t)}
        /\ Mine(t).optIn \/ NeedsLaunch => loc[t].kernel.key = Key(t)

(* FreshAfterRecompile: a launch that starts after recompile() returned    *)
(* runs code compiled from the globals as recompile() found them, or from  *)
(* newer ones ("the next launch will trigger a fresh compile").            *)
FreshAfterRecompile ==
    \A t \in Threads : Ran(t) => loc[t].kernel.world >= loc[t].since

(* SpecialisedFresh: outside recompile() the launch-config overload table  *)
(* holds nothing that was compiled from globals recompile() has replaced.  *)
SpecialisedFresh ==
    \A r \in lcOverloads : r.world >= floor

(* NoWastedCompile: _compile_impl never finishes compiling what somebody   *)
(* else has compiled meanwhile for the same types and configuration: the   *)
(* global compiler lock makes the second thread wait for, and reuse, the   *)
(* result of the first.                                                    *)
NoWastedCompile ==
    \A t \in Threads : pc[t] = "publish" =>
        IF loc[t].key = None
        THEN GenericFor(loc[t].sig) = {}
        ELSE SpecialisedFor(loc[t].sig, loc[t].key) = {}

(* PreparedIsFound: precompilation never completes "without publishing a   *)
(* matching overload", the error _prepare_for_launch keeps for that case.  *)
PreparedIsFound ==
    \A t \in Threads : pc[t] = "failed" => loc[t].error # "no matching overload"

(* FailureIsEarned: without evictions a launch only raises because a       *)
(* recompile() has overlapped it, never because of another launch, of a    *)
(* literal request or of the move to launch-specialised compilation.       *)
FailureIsEarned ==
    \A t \in Threads : pc[t] = "failed" =>
        floor # loc[t].since \/ recompiling = "cleared"

(* BoundTogether: between launches a marshaller is consistent: its native  *)
(* launcher calls the dispatcher it says it is bound to.                   *)
BoundTogether ==
    \A m \in Objects :
        ( /\ marshaller[m] # None
          /\ \A t \in Threads : loc[t].m # m ) =>
            marshaller[m].launcher = marshaller[m].bound.kd

(* LaunchesFinish: every launch comes to an end.                           *)
LaunchesFinish == \A t \in Threads : pc[t] # "idle" ~> pc[t] = "idle"
=============================================================================
