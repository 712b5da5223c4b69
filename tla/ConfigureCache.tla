--------------------------- MODULE ConfigureCache ---------------------------
(***************************************************************************)
(* MLIRDispatcher.configure(): several threads ask one dispatcher for the  *)
(* marshaller of a launch configuration.  The first to miss builds it      *)
(* outside _launch_config_lock, the others wait on its event; recompile(), *)
(* literal requests, cache_clear() and extension changes come in between.  *)
(*                                                                         *)
(* One action is one section of code under _launch_config_lock, or one     *)
(* read of shared state outside it.                                        *)
(***************************************************************************)
EXTENDS DispatcherRegistry

CONSTANTS
    Configs,            \* arguments of configure(), with the extension snapshot
    LcKeyOf,            \* _launch_config_key of each configuration
    ConfigureCacheSize, \* _CONFIGURE_CACHE_SIZE
    StaleRetryLimit,    \* _CONFIGURE_CACHE_STALE_RETRY_LIMIT
    Events,             \* threading.Event objects
    MaxGeneration,      \* bound: invalidations the environment performs
    MaxCalls,           \* bound: configure() calls
    OptInMayChange      \* whether dispatcher.extensions is changed at run time

ASSUME ConfigureAssumption ==
    /\ LcKeyOf \in [Configs -> LcKeys]
    /\ ConfigureCacheSize \in Nat \ {0}
    /\ StaleRetryLimit \in Nat \ {0}
    /\ MaxGeneration \in Nat
    /\ MaxCalls \in Nat
    /\ OptInMayChange \in BOOLEAN

VARIABLES
    cache,      \* _configure_cache, None where there is no entry
    cacheLru,   \* its keys, least recently used first
    inflight,   \* _configure_cache_inflight, None where there is no entry
    unset,      \* the events that nobody has set yet
    pc,         \* where each thread is in configure()
    call,       \* its local variables
    result,     \* the marshaller its last call returned, or None
    calls       \* how many calls have been made

vars == << registryVars, cache, cacheLru, inflight, unset,
           pc, call, result, calls >>

-----------------------------------------------------------------------------

(* cache_key: the flag read on entry, and the arguments.                   *)
CacheKeys == [enabled : BOOLEAN, config : Configs]

(* The fields of an _ArgMarshaller that configure() looks at.              *)
Marshallers == [kd : NativeDispatcher, gen : Nat \cup {None}, by : Threads]

ASSUME ConfigureNoneAssumption ==
    /\ None \notin Nat /\ None \notin Events /\ None \notin Marshallers
    /\ None \notin CacheKeys /\ None \notin [gen : Nat, by : Threads]

Locals == [key     : CacheKeys \cup {None},
           event   : Events \cup {None},             \* inflight
           kd      : NativeDispatcher \cup {None},   \* kernel_dispatcher
           gen     : Nat \cup {None},                \* launch_config_generation
           retries : Nat,                            \* stale_retries
           since   : Nat]                            \* generation when called (history)

NoLocals == [key |-> None, event |-> None, kd |-> None, gen |-> None,
             retries |-> 0, since |-> 0]

Building  == {"readGeneric", "recheck", "find", "construct", "insert", "publish"}
Labels    == {"idle", "lookup", "wait", "invalidated"} \cup Building

Owner(t)  == pc[t] \in Building

Init ==
    /\ RegistryInit
    /\ cache = [k \in CacheKeys |-> None]
    /\ cacheLru = << >>
    /\ inflight = [k \in CacheKeys |-> None]
    /\ unset = {}
    /\ pc = [t \in Threads |-> "idle"]
    /\ call = [t \in Threads |-> NoLocals]
    /\ result = [t \in Threads |-> None]
    /\ calls = 0

-----------------------------------------------------------------------------
(* Helpers.                                                                *)

Goto(t, label) == pc' = [pc EXCEPT ![t] = label]

Return(t, value) ==
    /\ Goto(t, "idle")
    /\ call' = [call EXCEPT ![t] = NoLocals]
    /\ result' = [result EXCEPT ![t] = value]

(* An event no variable of the program refers to any more, or a new one.   *)
Fresh(e) == /\ \A k \in CacheKeys : inflight[k] # e
            /\ \A t \in Threads : call[t].event # e

(* Mutated form: nothing is ever found to be stale.                        *)
MutantStale(key, kd, gen) == FALSE

(* _configure_marshaller_stale_locked                                      *)
Stale(key, kd, gen) ==
    IF key.enabled THEN gen # generation ELSE kd # c

(* Mutated form: the event is removed but nobody is woken.                 *)
MutantReleaseSilently(t) ==
    /\ inflight' = [inflight EXCEPT ![call[t].key] = None]
    /\ UNCHANGED unset

(* Mutated form: whatever event is there is removed.                       *)
MutantReleaseAny(t) ==
    /\ inflight' = [inflight EXCEPT ![call[t].key] = None]
    /\ unset' = unset \ {call[t].event}

(* The owner removes its own event, if an invalidation has not already     *)
(* removed or replaced it, and wakes the waiters.                          *)
ReleaseInflight(t) ==
    LET key == call[t].key
        ev  == call[t].event
    IN  /\ inflight' = IF inflight[key] = ev
                       THEN [inflight EXCEPT ![key] = None] ELSE inflight
        /\ unset' = unset \ {ev}

(* Invalidation drops every in-flight event and wakes its waiters.         *)
ClearConfigureCache ==
    /\ cache' = [k \in CacheKeys |-> None]
    /\ cacheLru' = << >>
    /\ inflight' = [k \in CacheKeys |-> None]
    /\ unset' = unset \ {inflight[k] : k \in CacheKeys}

-----------------------------------------------------------------------------
(* configure()                                                             *)

Call(t) ==
    /\ pc[t] = "idle"
    /\ calls < MaxCalls
    /\ calls' = calls + 1
    /\ Goto(t, "lookup")
    /\ \E cfg \in Configs :
         call' = [call EXCEPT ![t] =
                    [NoLocals EXCEPT !.key = [enabled |-> LaunchConfigEnabled, config |-> cfg],
                                     !.since = generation]]
    /\ result' = [result EXCEPT ![t] = None]
    /\ UNCHANGED << registryVars, cache, cacheLru, inflight, unset >>

Hit(t) ==
    LET key == call[t].key IN
    /\ pc[t] = "lookup"
    /\ cache[key] # None
    /\ cacheLru' = MoveToEnd(cacheLru, key)
    /\ Return(t, cache[key])
    /\ UNCHANGED << registryVars, cache, inflight, unset, calls >>

JoinInflight(t) ==
    LET key == call[t].key IN
    /\ pc[t] = "lookup"
    /\ cache[key] = None
    /\ inflight[key] # None
    /\ call' = [call EXCEPT ![t].event = inflight[key]]
    /\ Goto(t, "wait")
    /\ UNCHANGED << registryVars, cache, cacheLru, inflight, unset, result, calls >>

OwnInflight(t) ==
    LET key == call[t].key IN
    /\ pc[t] = "lookup"
    /\ cache[key] = None
    /\ inflight[key] = None
    /\ \E e \in Events :
         /\ Fresh(e)
         /\ inflight' = [inflight EXCEPT ![key] = e]
         /\ unset' = unset \cup {e}
         /\ call' = [call EXCEPT ![t].event = e]
    /\ Goto(t, "readGeneric")
    /\ UNCHANGED << registryVars, cache, cacheLru, result, calls >>

Wake(t) ==
    /\ pc[t] = "wait"
    /\ call[t].event \notin unset
    /\ call' = [call EXCEPT ![t].event = None]
    /\ Goto(t, "lookup")
    /\ UNCHANGED << registryVars, cache, cacheLru, inflight, unset, result, calls >>

-----------------------------------------------------------------------------
(* _configure_cached(), by the owner of the event, outside the lock        *)

(* kernel_dispatcher = self._c                                             *)
ReadGeneric(t) ==
    /\ pc[t] = "readGeneric"
    /\ call' = [call EXCEPT ![t].kd = c, ![t].gen = None]
    /\ Goto(t, IF call[t].key.enabled THEN "recheck" ELSE "publish")
    /\ UNCHANGED << registryVars, cache, cacheLru, inflight, unset, result, calls >>

(* _get_kernel_dispatcher_and_generation reads the flag a second time: the *)
(* extensions may have changed since the cache key was formed.             *)
Recheck(t) ==
    /\ pc[t] = "recheck"
    /\ IF LaunchConfigEnabled
       THEN Goto(t, "find") /\ UNCHANGED call
       ELSE Goto(t, "publish") /\ call' = [call EXCEPT ![t].kd = c, ![t].gen = None]
    /\ UNCHANGED << registryVars, cache, cacheLru, inflight, unset, result, calls >>

FindDispatcher(t) ==
    LET k == LcKeyOf[call[t].key.config] IN
    /\ pc[t] = "find"
    /\ IF dispatchers[k] # None
       THEN /\ TouchDispatcher(k)
            /\ call' = [call EXCEPT ![t].kd = dispatchers[k], ![t].gen = generation]
            /\ Goto(t, "publish")
       ELSE /\ call' = [call EXCEPT ![t].gen = generation]
            /\ Goto(t, "construct")
            /\ UNCHANGED registryVars
    /\ UNCHANGED << cache, cacheLru, inflight, unset, result, calls >>

(* _new_kernel_dispatcher() reads the literal positions without the lock.  *)
ConstructDispatcher(t) ==
    /\ pc[t] = "construct"
    /\ call' = [call EXCEPT ![t].kd = NewKernelDispatcher(call[t].gen, literals)]
    /\ made' = made + 1
    /\ Goto(t, "insert")
    /\ UNCHANGED << generation, c, literals, requires, optIn, dispatchers, dispatcherLru,
                    old, lcOverloads, cache, cacheLru, inflight, unset, result, calls >>

(* Mutated form: the generation is not compared.                           *)
MutantOvertaken(t) == FALSE

(* An invalidation came between the two sections under the lock.           *)
Overtaken(t) == call[t].gen # generation

(* Mutated form: without the second look the thread's own dispatcher takes *)
(* the place of the registered one (replace_existing is true by default).  *)
MutantAdoptRegistered(t, k) ==
    /\ dispatchers[k] # None
    /\ dispatchers' = [dispatchers EXCEPT ![k] = call[t].kd]
    /\ dispatcherLru' = MoveToEnd(dispatcherLru, k)
    /\ old' = RetainOld(<< dispatchers[k] >>)
    /\ UNCHANGED << generation, c, literals, requires, optIn, lcOverloads, made, call >>

(* Another thread won the insertion race: its dispatcher is used and the   *)
(* one just built is dropped.                                              *)
AdoptRegistered(t, k) ==
    /\ dispatchers[k] # None
    /\ TouchDispatcher(k)
    /\ call' = [call EXCEPT ![t].kd = dispatchers[k]]

RememberDispatcher(t) ==
    LET k == LcKeyOf[call[t].key.config] IN
    /\ pc[t] = "insert"
    /\ \/ /\ Overtaken(t)
          /\ Goto(t, "find")
          /\ UNCHANGED << registryVars, call >>
       \/ /\ ~ Overtaken(t)
          /\ AdoptRegistered(t, k)
          /\ Goto(t, "publish")
       \/ /\ ~ Overtaken(t)
          /\ dispatchers[k] = None
          /\ InsertDispatcher(k, call[t].kd)
          /\ Goto(t, "publish")
          /\ UNCHANGED << made, call >>
    /\ UNCHANGED << cache, cacheLru, inflight, unset, result, calls >>

(* Any step of the build may raise: a warning turned into an error, a      *)
(* literal position outside the signature, an interrupt.                   *)
BuildRaises(t) ==
    /\ pc[t] \in Building \ {"publish"}
    /\ ReleaseInflight(t)
    /\ Return(t, None)
    /\ UNCHANGED << registryVars, cache, cacheLru, calls >>

-----------------------------------------------------------------------------
(* The owner's second section under the lock                               *)

(* Mutated form: the marshaller of the other owner is replaced.            *)
MutantPublishLoses(t) ==
    LET key == call[t].key
        m   == [kd |-> call[t].kd, gen |-> call[t].gen, by |-> t]
    IN
    /\ pc[t] = "publish"
    /\ cache[key] # None
    /\ ~ Stale(key, call[t].kd, call[t].gen)
    /\ cache' = [cache EXCEPT ![key] = m]
    /\ Return(t, m)
    /\ ReleaseInflight(t)
    /\ UNCHANGED << registryVars, cacheLru, calls >>

PublishLoses(t) ==
    LET key == call[t].key IN
    /\ pc[t] = "publish"
    /\ cache[key] # None
    /\ cacheLru' = MoveToEnd(cacheLru, key)
    /\ Return(t, cache[key])
    /\ ReleaseInflight(t)
    /\ UNCHANGED << registryVars, cache, calls >>

(* Mutated form: off by one.                                               *)
MutantGivesUp(retries) == retries + 1 >= StaleRetryLimit

GivesUp(retries) == retries >= StaleRetryLimit

PublishStale(t) ==
    LET key == call[t].key IN
    /\ pc[t] = "publish"
    /\ cache[key] = None
    /\ Stale(key, call[t].kd, call[t].gen)
    /\ IF GivesUp(call[t].retries + 1)
       THEN \* RuntimeError
            /\ Goto(t, "invalidated")
            /\ call' = [call EXCEPT ![t].event = None, ![t].retries = @ + 1]
       ELSE /\ Goto(t, "lookup")
            /\ call' = [call EXCEPT ![t].event = None, ![t].kd = None, ![t].gen = None,
                                    ![t].retries = @ + 1]
    /\ ReleaseInflight(t)
    /\ UNCHANGED << registryVars, cache, cacheLru, result, calls >>

PublishInserts(t) ==
    LET key == call[t].key
        m   == [kd |-> call[t].kd, gen |-> call[t].gen, by |-> t]
    IN
    /\ pc[t] = "publish"
    /\ cache[key] = None
    /\ ~ Stale(key, call[t].kd, call[t].gen)
    /\ IF Len(cacheLru) < ConfigureCacheSize
       THEN /\ cache' = [cache EXCEPT ![key] = m]
            /\ cacheLru' = Append(cacheLru, key)
       ELSE /\ cache' = [cache EXCEPT ![key] = m, ![Head(cacheLru)] = None]
            /\ cacheLru' = Append(Tail(cacheLru), key)
    /\ Return(t, m)
    /\ ReleaseInflight(t)
    /\ UNCHANGED << registryVars, calls >>

(* The error leaves configure(); the thread may call it again.             *)
RaiseInvalidated(t) ==
    /\ pc[t] = "invalidated"
    /\ Return(t, None)
    /\ UNCHANGED << registryVars, cache, cacheLru, inflight, unset, calls >>

-----------------------------------------------------------------------------
(* What else happens to the dispatcher                                     *)

(* recompile(), its section under the lock                                 *)
Recompile ==
    /\ generation < MaxGeneration
    /\ AdvanceGeneration(literals)
    /\ ClearConfigureCache
    /\ UNCHANGED << requires, pc, call, result, calls >>

(* _record_literal_arg_positions with at least one new position            *)
RecordLiterals ==
    /\ generation < MaxGeneration
    /\ \E ps \in (SUBSET (Positions \ literals)) \ {{}} : AdvanceGeneration(literals \cup ps)
    /\ ClearConfigureCache
    /\ UNCHANGED << requires, pc, call, result, calls >>

(* dispatcher.configure.cache_clear()                                      *)
CacheClear ==
    /\ ClearConfigureCache
    /\ UNCHANGED << registryVars, pc, call, result, calls >>

(* _mark_requires_launch_config, when a planner asks for launch metadata   *)
MarkRequiresLaunchConfig ==
    /\ ~ requires
    /\ requires' = TRUE
    /\ UNCHANGED << generation, c, literals, optIn, dispatchers, dispatcherLru, old,
                    lcOverloads, made, cache, cacheLru, inflight, unset, pc, call, result, calls >>

(* The program replaces or mutates dispatcher.extensions.                  *)
ChangeExtensions ==
    /\ OptInMayChange
    /\ optIn' = ~ optIn
    /\ UNCHANGED << generation, c, literals, requires, dispatchers, dispatcherLru, old,
                    lcOverloads, made, cache, cacheLru, inflight, unset, pc, call, result, calls >>

Configure(t) ==
    \/ Hit(t) \/ JoinInflight(t) \/ OwnInflight(t) \/ Wake(t)
    \/ ReadGeneric(t) \/ Recheck(t) \/ FindDispatcher(t)
    \/ ConstructDispatcher(t) \/ RememberDispatcher(t)
    \/ PublishLoses(t) \/ PublishStale(t) \/ PublishInserts(t) \/ RaiseInvalidated(t)

Environment ==
    Recompile \/ RecordLiterals \/ CacheClear \/ MarkRequiresLaunchConfig \/ ChangeExtensions

Next ==
    \/ \E t \in Threads : Call(t) \/ Configure(t) \/ BuildRaises(t)
    \/ Environment

Spec == Init /\ [][Next]_vars

(* A thread that is inside configure() keeps running: the operating system *)
(* schedules it, and the lock it waits for is only held for short sections.*)
FairSpec == Spec /\ \A t \in Threads : WF_vars(Configure(t))

-----------------------------------------------------------------------------
(* Types                                                                   *)

(* TypeOK: every variable of the dispatcher and every local of a thread    *)
(* inside configure() has the type the code gives it.                      *)
TypeOK ==
    /\ RegistryTypeOK
    /\ cache \in [CacheKeys -> Marshallers \cup {None}]
    /\ cacheLru \in Seq(CacheKeys)
    /\ inflight \in [CacheKeys -> Events \cup {None}]
    /\ unset \in SUBSET Events
    /\ pc \in [Threads -> Labels]
    /\ call \in [Threads -> Locals]
    /\ result \in [Threads -> Marshallers \cup {None}]
    /\ calls \in 0..MaxCalls

-----------------------------------------------------------------------------
(* Safety                                                                  *)

(* CacheFresh: a marshaller that configure() can hand out from its cache   *)
(* is never stale, and its native dispatcher has the current flags: one    *)
(* that was built while an invalidation went by is never inserted.         *)
CacheFresh ==
    \A key \in CacheKeys : cache[key] # None =>
        /\ ~ Stale(key, cache[key].kd, cache[key].gen)
        /\ cache[key].kd.gen = generation
        /\ cache[key].kd.lits = literals

(* OneDispatcherPerKey: while the registry has room for every launch key,  *)
(* a marshaller of the current generation uses a registered dispatcher,    *)
(* and one that is remembered, for whatever stream, the one registered for *)
(* its launch key: a dispatcher that lost the insertion race "is discarded *)
(* without ever launching", also across cache_clear().                     *)
OneDispatcherPerKey ==
    /\ \A key \in CacheKeys :
         cache[key] # None /\ key.enabled =>
             cache[key].kd = dispatchers[LcKeyOf[key.config]]
    /\ \A t \in Threads :
         result[t] # None /\ result[t].gen = generation =>
             \E k \in Registered : result[t].kd = dispatchers[k]

(* WaitersHaveOwner: a thread blocked in inflight.wait() waits either on   *)
(* an event that is already set or on the event of an owner that is still  *)
(* building for the same key, so no invalidation, error or lost race       *)
(* strands a waiter or makes it wait for somebody else's key.              *)
WaitersHaveOwner ==
    \A t \in Threads : pc[t] = "wait" =>
        \/ call[t].event \notin unset
        \/ \E o \in Threads : /\ Owner(o)
                              /\ call[o].event = call[t].event
                              /\ call[o].key = call[t].key

(* OneLiveBuilder: of the threads that are building a marshaller for one   *)
(* cache key at most one still holds an event that has not been set; the   *)
(* others were overtaken by an invalidation.                               *)
OneLiveBuilder ==
    \A t, u \in Threads :
        ( /\ Owner(t) /\ Owner(u)
          /\ call[t].key = call[u].key
          /\ call[t].event \in unset /\ call[u].event \in unset ) => t = u

(* InvalidatedIsEarned: configure() gives up with "Kernel launch           *)
(* configuration was invalidated repeatedly ... retry after concurrent     *)
(* recompile() calls finish" only after the generation has advanced at     *)
(* least _CONFIGURE_CACHE_STALE_RETRY_LIMIT times since it was called.     *)
InvalidatedIsEarned ==
    \A t \in Threads :
        pc[t] = "invalidated" => generation - call[t].since >= StaleRetryLimit

(* EntryKept: a remembered marshaller is never replaced in place: launches *)
(* through one configuration share its caches until it is dropped.         *)
EntryKept ==
    [][\A key \in CacheKeys :
         cache[key] # None /\ cache'[key] # None => cache'[key] = cache[key]]_vars

-----------------------------------------------------------------------------
(* Liveness                                                                *)

(* CallsReturn: every configure() call comes to an end, with a marshaller  *)
(* or with an error, whatever invalidations overtake it.                   *)
CallsReturn == \A t \in Threads : pc[t] # "idle" ~> pc[t] = "idle"

-----------------------------------------------------------------------------
(* What it implements                                                      *)

Seen(m) == IF m = None THEN None ELSE [gen |-> m.kd.gen, by |-> m.by]

Memo == INSTANCE MemoisedConfigure WITH
    Keys   <- CacheKeys,
    memo   <- [key \in CacheKeys |-> Seen(cache[key])],
    wants  <- [t \in Threads |-> call[t].key],
    result <- [t \in Threads |-> Seen(result[t])]

(* ImplementsMemo: seen from its callers, configure() is a memo table that *)
(* invalidations empty: each call takes effect at once, when it returns.   *)
ImplementsMemo == Memo!Spec
=============================================================================
