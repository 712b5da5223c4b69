------------------------- MODULE ConfigureCacheProofs -------------------------
(***************************************************************************)
(* Type correctness, freshness of both caches of configure(), its events,  *)
(* one dispatcher for each launch key, and its refinement of               *)
(* MemoisedConfigure, proved for any number of threads, keys and           *)
(* generations.                                                            *)
(***************************************************************************)
EXTENDS ConfigureCache, DispatcherRegistryProofs

-----------------------------------------------------------------------------
(* The inductive invariant                                                 *)

Remembered == {key \in CacheKeys : cache[key] # None}

(* The configure cache: typed, bounded, listed, and fresh.                 *)
CacheInv ==
    /\ cache \in [CacheKeys -> Marshallers \cup {None}]
    /\ Lists(cacheLru, Remembered)
    /\ Len(cacheLru) <= ConfigureCacheSize
    /\ CacheFresh

(* What a thread at label has in its locals: a generation it has read is   *)
(* no later than the current one, and if it is still the current one, the  *)
(* native dispatcher it goes with is current.                              *)
LocalOK(label, v) ==
    /\ label # "idle" => v.key \in CacheKeys
    /\ v.gen \in Nat => v.gen <= generation
    /\ label \in {"construct", "insert"} => v.gen \in Nat
    /\ label \in {"insert", "publish"} =>
         /\ v.kd \in NativeDispatcher
         /\ v.gen = generation => v.kd.gen = generation /\ v.kd.lits = literals

LocalsInv ==
    /\ pc \in [Threads -> Labels]
    /\ call \in [Threads -> Locals]
    /\ \A t \in Threads : LocalOK(pc[t], call[t])

EventsTypeOK ==
    /\ inflight \in [CacheKeys -> Events \cup {None}]
    /\ unset \in SUBSET Events

ResultsTypeOK ==
    /\ result \in [Threads -> Marshallers \cup {None}]
    /\ calls \in 0..MaxCalls

IInv == RegistryInv /\ CacheInv /\ LocalsInv /\ EventsTypeOK /\ ResultsTypeOK

-----------------------------------------------------------------------------
(* Frame lemmas: what each part of the invariant depends on                *)

(* The registry does not depend on the threads or on the configure cache.  *)
LEMMA RegistryFrame ==
  ASSUME RegistryInv, UNCHANGED registryVars
  PROVE  RegistryInv'
BY DEF RegistryInv, RegistryTypeOK, DispatchersCurrent, Registered, registryVars

(* The configure cache stays fresh while the generation, the literal flags *)
(* and the generic dispatcher stay what they are.                          *)
LEMMA CacheFrame ==
  ASSUME CacheInv, UNCHANGED << cache, cacheLru, generation, literals, c >>
  PROVE  CacheInv'
BY DEF CacheInv, Remembered, CacheFresh, Stale

(* A step of one thread that leaves the generation and the flags alone.    *)
LEMMA LocalsStep ==
  ASSUME LocalsInv, NEW t \in Threads, NEW label \in Labels, NEW v \in Locals,
         pc' = [pc EXCEPT ![t] = label], call' = [call EXCEPT ![t] = v],
         generation' = generation, literals' = literals,
         LocalOK(label, v)
  PROVE  LocalsInv'
<1>1. pc' \in [Threads -> Labels] /\ call' \in [Threads -> Locals]
  BY DEF LocalsInv
<1>2. ASSUME NEW u \in Threads
      PROVE  LocalOK(pc[u], call[u])'
  <2>1. CASE u = t
    BY <2>1 DEF LocalsInv, LocalOK
  <2>2. CASE u # t
    BY <2>2 DEF LocalsInv, LocalOK
  <2> QED  BY <2>1, <2>2
<1> QED  BY <1>1, <1>2 DEF LocalsInv

(* The threads do not depend on anything else.                             *)
LEMMA LocalsFrame ==
  ASSUME LocalsInv, UNCHANGED << pc, call, generation, literals >>
  PROVE  LocalsInv'
BY DEF LocalsInv, LocalOK

(* A hit moves an entry to the recently used end.                          *)
LEMMA CacheTouch ==
  ASSUME CacheInv, NEW key \in CacheKeys, cache[key] # None,
         cacheLru' = MoveToEnd(cacheLru, key),
         UNCHANGED << cache, generation, literals, c >>
  PROVE  CacheInv'
<1>1. key \in Remembered /\ Remembered' = Remembered
  BY DEF Remembered
<1>2. Lists(cacheLru', Remembered') /\ Len(cacheLru') = Len(cacheLru)
  BY <1>1, ListsMoveToEnd DEF CacheInv
<1> QED  BY <1>2 DEF CacheInv, CacheFresh, Stale

(* Invalidation and cache_clear() leave an empty cache.                    *)
LEMMA CacheCleared ==
  ASSUME ClearConfigureCache, EventsTypeOK
  PROVE  CacheInv' /\ EventsTypeOK'
<1>1. cache' = [k \in CacheKeys |-> None] /\ cacheLru' = << >>
  BY DEF ClearConfigureCache
<1>2. Remembered' = {}
  BY <1>1 DEF Remembered
<1>3. Lists(cacheLru', Remembered')
  BY <1>1, <1>2, ListsEmpty
<1>4. (Len(cacheLru) <= ConfigureCacheSize)'
  BY <1>1, EmptySeq, ConfigureAssumption
<1>5. CacheFresh'
  BY <1>1 DEF CacheFresh
<1>6. EventsTypeOK'
  BY DEF ClearConfigureCache, EventsTypeOK
<1> QED  BY <1>1, <1>3, <1>4, <1>5, <1>6 DEF CacheInv

(* An insertion, with the eviction it may cause, of a marshaller that is   *)
(* not stale and whose native dispatcher is current.                       *)
LEMMA CacheInsert ==
  ASSUME CacheInv, NEW key \in CacheKeys, cache[key] = None,
         NEW m \in Marshallers,
         ~ Stale(key, m.kd, m.gen), m.kd.gen = generation, m.kd.lits = literals,
         UNCHANGED << generation, literals, c >>,
         IF Len(cacheLru) < ConfigureCacheSize
         THEN /\ cache' = [cache EXCEPT ![key] = m]
              /\ cacheLru' = Append(cacheLru, key)
         ELSE /\ cache' = [cache EXCEPT ![key] = m, ![Head(cacheLru)] = None]
              /\ cacheLru' = Append(Tail(cacheLru), key)
  PROVE  CacheInv'
<1>1. m # None
  BY ConfigureNoneAssumption
<1>2. ConfigureCacheSize \in Nat \ {0}
  BY ConfigureAssumption
<1>3. key \notin Remembered
  BY DEF Remembered
<1>4. /\ Lists(cacheLru, Remembered)
      /\ Len(cacheLru) \in Nat
      /\ cache \in [CacheKeys -> Marshallers \cup {None}]
  BY LenProperties DEF CacheInv, Lists
<1>5. \A k \in CacheKeys : cache'[k] # None => cache'[k] = cache[k] \/ (k = key /\ cache'[k] = m)
  BY <1>4
<1>6. CacheFresh'
  <2> SUFFICES ASSUME NEW k \in CacheKeys, cache'[k] # None
               PROVE  (/\ ~ Stale(k, cache[k].kd, cache[k].gen)
                       /\ cache[k].kd.gen = generation
                       /\ cache[k].kd.lits = literals)'
    BY DEF CacheFresh
  <2>1. CASE k = key /\ cache'[k] = m
    BY <2>1 DEF Stale
  <2>2. CASE cache'[k] = cache[k]
    BY <2>2 DEF CacheInv, CacheFresh, Stale
  <2> QED  BY <1>5, <2>1, <2>2
<1>7. CASE Len(cacheLru) < ConfigureCacheSize
  <2>1. cache' = [cache EXCEPT ![key] = m] /\ cacheLru' = Append(cacheLru, key)
    BY <1>7
  <2>2. Remembered' = Remembered \cup {key}
    BY <2>1, <1>1, <1>4 DEF Remembered
  <2>3. Lists(Append(cacheLru, key), Remembered \cup {key})
        /\ Len(Append(cacheLru, key)) = Len(cacheLru) + 1
    BY <1>3, <1>4, ListsAppend
  <2>4. Lists(cacheLru', Remembered') /\ Len(cacheLru') = Len(cacheLru) + 1
    BY <2>1, <2>2, <2>3
  <2>5. (Len(cacheLru) <= ConfigureCacheSize)'
    BY <2>4, <1>2, <1>4, <1>7
  <2>6. cache' \in [CacheKeys -> Marshallers \cup {None}]
    BY <2>1, <1>4
  <2> QED  BY <2>4, <2>5, <2>6, <1>6 DEF CacheInv
<1>8. CASE ~ (Len(cacheLru) < ConfigureCacheSize)
  <2> DEFINE victim == Head(cacheLru)
             rest   == Remembered \ {victim}
  <2>1. Len(cacheLru) > 0
    BY <1>2, <1>4, <1>8
  <2>2. /\ victim \in Remembered
        /\ Lists(Tail(cacheLru), rest)
        /\ Len(Tail(cacheLru)) = Len(cacheLru) - 1
    BY <1>4, <2>1, ListsTail
  <2>3. /\ cache' = [cache EXCEPT ![key] = m, ![victim] = None]
        /\ cacheLru' = Append(Tail(cacheLru), key)
    BY <1>8
  <2> HIDE DEF victim
  <2>4. victim \in CacheKeys /\ victim # key
    BY <2>2, <1>3 DEF Remembered
  <2>5. Remembered' = rest \cup {key}
    BY <2>3, <2>4, <1>1, <1>4 DEF Remembered
  <2>6. key \notin rest
    BY <1>3
  <2> HIDE DEF rest
  <2>7. Lists(Append(Tail(cacheLru), key), rest \cup {key})
        /\ Len(Append(Tail(cacheLru), key)) = Len(Tail(cacheLru)) + 1
    BY <2>2, <2>6, ListsAppend
  <2>8. Lists(cacheLru', Remembered') /\ Len(cacheLru') = Len(cacheLru)
    BY <2>2, <2>3, <2>5, <2>7, <1>4
  <2>9. (Len(cacheLru) <= ConfigureCacheSize)'
    BY <2>8 DEF CacheInv
  <2>10. cache' \in [CacheKeys -> Marshallers \cup {None}]
    BY <2>3, <1>4
  <2> QED  BY <2>8, <2>9, <2>10, <1>6 DEF CacheInv
<1> QED  BY <1>7, <1>8

(* The owner's finally clause.                                             *)
LEMMA ReleaseInflightType ==
  ASSUME EventsTypeOK, NEW t \in Threads, ReleaseInflight(t)
  PROVE  EventsTypeOK'
BY DEF EventsTypeOK, ReleaseInflight

(* A call ends, with a marshaller or without one.                          *)
LEMMA ReturnInv ==
  ASSUME LocalsInv, ResultsTypeOK, NEW t \in Threads,
         NEW value \in Marshallers \cup {None}, Return(t, value),
         UNCHANGED << generation, literals, calls >>
  PROVE  LocalsInv' /\ ResultsTypeOK'
<1>1. NoLocals \in Locals /\ NoLocals.gen = None
  BY DEF NoLocals, Locals
<1>2. "idle" \in Labels
  BY DEF Labels
<1>3. LocalOK("idle", NoLocals)
  BY <1>1, ConfigureNoneAssumption DEF LocalOK
<1>4. pc' = [pc EXCEPT ![t] = "idle"] /\ call' = [call EXCEPT ![t] = NoLocals]
  BY DEF Return, Goto
<1> HIDE DEF NoLocals
<1>5. LocalsInv'
  BY <1>1, <1>2, <1>3, <1>4, LocalsStep
<1>6. ResultsTypeOK'
  BY DEF ResultsTypeOK, Return
<1> QED  BY <1>5, <1>6

(* A step that only moves a thread, or an event.                           *)
LEMMA ThreadFrame ==
  ASSUME IInv, LocalsInv', EventsTypeOK',
         UNCHANGED << registryVars, cache, cacheLru, result, calls >>
  PROVE  IInv'
<1>1. RegistryInv'
  BY RegistryFrame DEF IInv
<1>2. CacheInv'
  BY CacheFrame DEF IInv, registryVars
<1>3. ResultsTypeOK'
  BY DEF IInv, ResultsTypeOK
<1> QED  BY <1>1, <1>2, <1>3 DEF IInv

-----------------------------------------------------------------------------
(* configure(), the steps outside _configure_cached                        *)

(* A call reads the state of the extensions once and forms its key from it.*)
LEMMA CallInv == ASSUME IInv, NEW t \in Threads, Call(t) PROVE IInv'
<1>1. PICK cfg \in Configs :
        call' = [call EXCEPT ![t] =
                   [NoLocals EXCEPT !.key = [enabled |-> LaunchConfigEnabled, config |-> cfg],
                                    !.since = generation]]
  BY DEF Call
<1> DEFINE v == [NoLocals EXCEPT !.key = [enabled |-> LaunchConfigEnabled, config |-> cfg],
                                 !.since = generation]
<1>2. generation \in Nat /\ requires \in BOOLEAN /\ optIn \in BOOLEAN
  BY DEF IInv, RegistryInv, RegistryTypeOK
<1>3. [enabled |-> LaunchConfigEnabled, config |-> cfg] \in CacheKeys
  BY <1>2 DEF CacheKeys, LaunchConfigEnabled
<1>4. v \in Locals /\ v.key \in CacheKeys /\ v.gen = None
  BY <1>2, <1>3 DEF NoLocals, Locals
<1> HIDE DEF v
<1>5. LocalOK("lookup", v)
  BY <1>4, ConfigureNoneAssumption DEF LocalOK
<1>6. /\ call' = [call EXCEPT ![t] = v] /\ pc' = [pc EXCEPT ![t] = "lookup"]
      /\ calls < MaxCalls /\ calls' = calls + 1
      /\ result' = [result EXCEPT ![t] = None]
      /\ UNCHANGED << registryVars, cache, cacheLru, inflight, unset >>
  BY <1>1 DEF Call, Goto, v
<1>7. LocalsInv'
  BY <1>4, <1>5, <1>6, LocalsStep DEF IInv, Labels, registryVars
<1>8. RegistryInv' /\ CacheInv'
  BY <1>6, RegistryFrame, CacheFrame DEF IInv, registryVars
<1>9. EventsTypeOK' /\ ResultsTypeOK'
  BY <1>6, ConfigureAssumption DEF IInv, EventsTypeOK, ResultsTypeOK
<1> QED  BY <1>7, <1>8, <1>9 DEF IInv

(* The first look under the lock finds the marshaller.                     *)
LEMMA HitInv == ASSUME IInv, NEW t \in Threads, Hit(t) PROVE IInv'
<1> DEFINE key == call[t].key
<1>1. key \in CacheKeys /\ cache[key] # None /\ cache[key] \in Marshallers
  BY DEF Hit, IInv, LocalsInv, LocalOK, CacheInv
<1>2. CacheInv'
  BY <1>1, CacheTouch DEF Hit, IInv, registryVars
<1>3. LocalsInv' /\ ResultsTypeOK'
  BY <1>1, ReturnInv DEF Hit, IInv, registryVars
<1>4. RegistryInv' /\ EventsTypeOK'
  BY RegistryFrame DEF Hit, IInv, EventsTypeOK
<1> QED  BY <1>2, <1>3, <1>4 DEF IInv

(* Nothing remembered, somebody is building: wait for his event.           *)
LEMMA JoinInflightInv == ASSUME IInv, NEW t \in Threads, JoinInflight(t) PROVE IInv'
<1> DEFINE v == [call[t] EXCEPT !.event = inflight[call[t].key]]
<1>1. /\ call[t] \in Locals /\ call[t].key \in CacheKeys
      /\ LocalOK("lookup", call[t])
  BY DEF JoinInflight, IInv, LocalsInv, LocalOK
<1>2. v \in Locals /\ LocalOK("wait", v)
  BY <1>1 DEF IInv, EventsTypeOK, Locals, LocalOK
<1>3. call' = [call EXCEPT ![t] = v] /\ pc' = [pc EXCEPT ![t] = "wait"]
  BY DEF JoinInflight, Goto
<1> HIDE DEF v
<1>4. LocalsInv'
  BY <1>2, <1>3, LocalsStep DEF JoinInflight, IInv, Labels, registryVars
<1>5. EventsTypeOK'
  BY DEF JoinInflight, IInv, EventsTypeOK
<1> QED  BY <1>4, <1>5, ThreadFrame DEF JoinInflight

(* Nobody is building: this thread registers an event of its own.          *)
LEMMA OwnInflightInv == ASSUME IInv, NEW t \in Threads, OwnInflight(t) PROVE IInv'
<1>1. PICK e \in Events :
        /\ inflight' = [inflight EXCEPT ![call[t].key] = e]
        /\ unset' = unset \cup {e}
        /\ call' = [call EXCEPT ![t].event = e]
  BY DEF OwnInflight
<1> DEFINE v == [call[t] EXCEPT !.event = e]
<1>2. /\ call[t] \in Locals /\ call[t].key \in CacheKeys
      /\ LocalOK("lookup", call[t])
  BY DEF OwnInflight, IInv, LocalsInv, LocalOK
<1>3. v \in Locals /\ LocalOK("readGeneric", v)
  BY <1>2 DEF Locals, LocalOK
<1>4. call' = [call EXCEPT ![t] = v] /\ pc' = [pc EXCEPT ![t] = "readGeneric"]
  BY <1>1 DEF OwnInflight, Goto
<1> HIDE DEF v
<1>5. LocalsInv'
  BY <1>3, <1>4, LocalsStep DEF OwnInflight, IInv, Labels, Building, registryVars
<1>6. EventsTypeOK'
  BY <1>1 DEF IInv, EventsTypeOK
<1> QED  BY <1>5, <1>6, ThreadFrame DEF OwnInflight

(* The event was set: look again.                                          *)
LEMMA WakeInv == ASSUME IInv, NEW t \in Threads, Wake(t) PROVE IInv'
<1> DEFINE v == [call[t] EXCEPT !.event = None]
<1>1. call[t] \in Locals /\ LocalOK("wait", call[t])
  BY DEF Wake, IInv, LocalsInv
<1>2. v \in Locals /\ LocalOK("lookup", v)
  BY <1>1 DEF Locals, LocalOK
<1>3. call' = [call EXCEPT ![t] = v] /\ pc' = [pc EXCEPT ![t] = "lookup"]
  BY DEF Wake, Goto
<1> HIDE DEF v
<1>4. LocalsInv'
  BY <1>2, <1>3, LocalsStep DEF Wake, IInv, Labels, registryVars
<1>5. EventsTypeOK'
  BY DEF Wake, IInv, EventsTypeOK
<1> QED  BY <1>4, <1>5, ThreadFrame DEF Wake

-----------------------------------------------------------------------------
(* The steps of the build                                                  *)

(* The launch-config key of the configuration a thread asks for.           *)
LEMMA LcKeyOfCall ==
  ASSUME IInv, NEW t \in Threads, pc[t] # "idle"
  PROVE  LcKeyOf[call[t].key.config] \in LcKeys
<1>1. call[t].key \in CacheKeys
  BY DEF IInv, LocalsInv, LocalOK
<1> QED  BY <1>1, ConfigureAssumption DEF CacheKeys

(* A step of the build that reads the generic dispatcher.                  *)
LEMMA GenericIsCurrent ==
  ASSUME RegistryInv
  PROVE  c \in NativeDispatcher /\ c.gen = generation /\ c.lits = literals
BY DEF RegistryInv, RegistryTypeOK, DispatchersCurrent

(* _configure_cached takes the generic dispatcher or goes to the registry. *)
LEMMA ReadGenericInv == ASSUME IInv, NEW t \in Threads, ReadGeneric(t) PROVE IInv'
<1> DEFINE v     == [call[t] EXCEPT !.kd = c, !.gen = None]
           label == IF call[t].key.enabled THEN "recheck" ELSE "publish"
<1>1. call[t] \in Locals /\ call[t].key \in CacheKeys
  BY DEF ReadGeneric, IInv, LocalsInv, LocalOK
<1>2. c \in NativeDispatcher /\ c.gen = generation /\ c.lits = literals
  BY GenericIsCurrent DEF IInv
<1>3. v \in Locals /\ v.key \in CacheKeys /\ v.kd = c /\ v.gen = None
  BY <1>1, <1>2 DEF Locals
<1>4. call' = [call EXCEPT ![t] = v] /\ pc' = [pc EXCEPT ![t] = label]
  BY DEF ReadGeneric, Goto
<1>5. label \in Labels
  BY DEF Labels, Building
<1> HIDE DEF v
<1>6. LocalOK(label, v)
  BY <1>2, <1>3, ConfigureNoneAssumption DEF LocalOK
<1> HIDE DEF label
<1>7. LocalsInv'
  BY <1>3, <1>4, <1>5, <1>6, LocalsStep DEF ReadGeneric, IInv, registryVars
<1>8. EventsTypeOK'
  BY DEF ReadGeneric, IInv, EventsTypeOK
<1> QED  BY <1>7, <1>8, ThreadFrame DEF ReadGeneric

(* The second read of the extensions may disagree with the key.            *)
LEMMA RecheckInv == ASSUME IInv, NEW t \in Threads, Recheck(t) PROVE IInv'
<1>1. /\ call[t] \in Locals /\ call[t].key \in CacheKeys
      /\ call \in [Threads -> Locals] /\ LocalOK("recheck", call[t])
  BY DEF Recheck, IInv, LocalsInv, LocalOK
<1>2. EventsTypeOK'
  BY DEF Recheck, IInv, EventsTypeOK
<1>3. CASE LaunchConfigEnabled
  <2>1. call' = [call EXCEPT ![t] = call[t]] /\ pc' = [pc EXCEPT ![t] = "find"]
    BY <1>1, <1>3 DEF Recheck, Goto
  <2>2. LocalOK("find", call[t])
    BY <1>1 DEF LocalOK
  <2>3. LocalsInv'
    BY <1>1, <2>1, <2>2, LocalsStep DEF Recheck, IInv, Labels, Building, registryVars
  <2> QED  BY <2>3, <1>2, ThreadFrame DEF Recheck
<1>4. CASE ~ LaunchConfigEnabled
  <2> DEFINE v == [call[t] EXCEPT !.kd = c, !.gen = None]
  <2>1. c \in NativeDispatcher /\ c.gen = generation /\ c.lits = literals
    BY GenericIsCurrent DEF IInv
  <2>2. v \in Locals /\ v.key \in CacheKeys /\ v.kd = c /\ v.gen = None
    BY <1>1, <2>1 DEF Locals
  <2>3. call' = [call EXCEPT ![t] = v] /\ pc' = [pc EXCEPT ![t] = "publish"]
    BY <1>4 DEF Recheck, Goto
  <2> HIDE DEF v
  <2>4. LocalOK("publish", v)
    BY <2>1, <2>2, ConfigureNoneAssumption DEF LocalOK
  <2>5. LocalsInv'
    BY <2>2, <2>3, <2>4, LocalsStep DEF Recheck, IInv, Labels, Building, registryVars
  <2> QED  BY <2>5, <1>2, ThreadFrame DEF Recheck
<1> QED  BY <1>3, <1>4

(* A registered dispatcher is current, by DispatchersCurrent.              *)
LEMMA FindDispatcherInv == ASSUME IInv, NEW t \in Threads, FindDispatcher(t) PROVE IInv'
<1> DEFINE k == LcKeyOf[call[t].key.config]
<1>1. /\ call[t] \in Locals /\ call[t].key \in CacheKeys
      /\ generation \in Nat
  BY DEF FindDispatcher, IInv, LocalsInv, LocalOK, RegistryInv, RegistryTypeOK
<1>2. k \in LcKeys
  BY LcKeyOfCall DEF FindDispatcher
<1> HIDE DEF k
<1>3. /\ UNCHANGED << cache, cacheLru, inflight, unset, result, calls >>
      /\ UNCHANGED << generation, literals, c >>
  BY DEF FindDispatcher, TouchDispatcher, registryVars
<1>4. CacheInv' /\ EventsTypeOK' /\ ResultsTypeOK'
  BY <1>3, CacheFrame DEF IInv, EventsTypeOK, ResultsTypeOK
<1>5. CASE dispatchers[k] # None
  <2> DEFINE v == [call[t] EXCEPT !.kd = dispatchers[k], !.gen = generation]
  <2>1. /\ TouchDispatcher(k)
        /\ call' = [call EXCEPT ![t] = v] /\ pc' = [pc EXCEPT ![t] = "publish"]
    BY <1>5 DEF FindDispatcher, Goto, k
  <2>2. /\ dispatchers[k] \in NativeDispatcher
        /\ dispatchers[k].gen = generation /\ dispatchers[k].lits = literals
    BY <1>2, <1>5, RegisteredIsCurrent DEF IInv
  <2>3. /\ v \in Locals /\ v.key \in CacheKeys
        /\ v.kd = dispatchers[k] /\ v.gen = generation
    BY <1>1, <2>2 DEF Locals
  <2> HIDE DEF v
  <2>4. LocalOK("publish", v)
    BY <1>1, <2>2, <2>3 DEF LocalOK
  <2>5. LocalsInv'
    BY <1>3, <2>1, <2>3, <2>4, LocalsStep DEF IInv, Labels, Building
  <2>6. RegistryInv'
    BY <1>2, <1>5, <2>1, TouchDispatcherInv DEF IInv
  <2> QED  BY <1>4, <2>5, <2>6 DEF IInv
<1>6. CASE dispatchers[k] = None
  <2> DEFINE v == [call[t] EXCEPT !.gen = generation]
  <2>1. /\ UNCHANGED registryVars
        /\ call' = [call EXCEPT ![t] = v] /\ pc' = [pc EXCEPT ![t] = "construct"]
    BY <1>6 DEF FindDispatcher, Goto, k
  <2>2. v \in Locals /\ v.key \in CacheKeys /\ v.gen = generation
    BY <1>1 DEF Locals
  <2> HIDE DEF v
  <2>3. LocalOK("construct", v)
    BY <1>1, <2>2 DEF LocalOK
  <2>4. LocalsInv'
    BY <1>3, <2>1, <2>2, <2>3, LocalsStep DEF IInv, Labels, Building
  <2> QED  BY <1>4, <2>1, <2>4, RegistryFrame DEF IInv
<1> QED  BY <1>5, <1>6

(* The new dispatcher has the generation and flags it was built from.      *)
LEMMA ConstructDispatcherInv ==
  ASSUME IInv, NEW t \in Threads, ConstructDispatcher(t) PROVE IInv'
<1> DEFINE d == NewKernelDispatcher(call[t].gen, literals)
           v == [call[t] EXCEPT !.kd = d]
<1>1. /\ call[t] \in Locals /\ LocalOK("construct", call[t])
      /\ RegistryTypeOK
  BY DEF ConstructDispatcher, IInv, LocalsInv, RegistryInv
<1>2. call[t].gen \in Nat /\ made \in Nat /\ literals \in SUBSET Positions
  BY <1>1 DEF LocalOK, RegistryTypeOK
<1>3. d \in NativeDispatcher /\ d.gen = call[t].gen /\ d.lits = literals
  BY <1>2, NewKernelDispatcherType
<1> HIDE DEF d
<1>4. v \in Locals /\ v.key = call[t].key /\ v.gen = call[t].gen /\ v.kd = d
  BY <1>1, <1>3 DEF Locals
<1>5. call' = [call EXCEPT ![t] = v] /\ pc' = [pc EXCEPT ![t] = "insert"]
  BY DEF ConstructDispatcher, Goto, d
<1> HIDE DEF v
<1>6. LocalOK("insert", v)
  BY <1>1, <1>3, <1>4 DEF LocalOK
<1>7. LocalsInv'
  BY <1>4, <1>5, <1>6, LocalsStep DEF ConstructDispatcher, IInv, Labels, Building
<1>8. RegistryInv'
  BY <1>2 DEF ConstructDispatcher, IInv, RegistryInv, RegistryTypeOK,
              DispatchersCurrent, Registered
<1>9. CacheInv' /\ EventsTypeOK' /\ ResultsTypeOK'
  BY CacheFrame DEF ConstructDispatcher, IInv, EventsTypeOK, ResultsTypeOK
<1> QED  BY <1>7, <1>8, <1>9 DEF IInv

(* It is registered only if the generation is still the one it was built in.*)
LEMMA RememberDispatcherInv ==
  ASSUME IInv, NEW t \in Threads, RememberDispatcher(t) PROVE IInv'
<1> DEFINE k == LcKeyOf[call[t].key.config]
<1>1. /\ call \in [Threads -> Locals] /\ call[t] \in Locals
      /\ call[t].key \in CacheKeys /\ LocalOK("insert", call[t])
  BY DEF RememberDispatcher, IInv, LocalsInv, LocalOK
<1>2. k \in LcKeys
  BY LcKeyOfCall DEF RememberDispatcher
<1> HIDE DEF k
<1>3. /\ UNCHANGED << cache, cacheLru, inflight, unset, result, calls >>
      /\ UNCHANGED << generation, literals, c >>
  BY DEF RememberDispatcher, AdoptRegistered, TouchDispatcher, InsertDispatcher, registryVars
<1>4. CacheInv' /\ EventsTypeOK' /\ ResultsTypeOK'
  BY <1>3, CacheFrame DEF IInv, EventsTypeOK, ResultsTypeOK
<1>5. CASE call[t].gen # generation /\ UNCHANGED << registryVars, call >>
           /\ pc' = [pc EXCEPT ![t] = "find"]
  <2>1. LocalOK("find", call[t]) /\ call' = [call EXCEPT ![t] = call[t]]
    BY <1>1, <1>5 DEF LocalOK
  <2>2. LocalsInv'
    BY <1>1, <1>3, <1>5, <2>1, LocalsStep DEF IInv, Labels, Building
  <2> QED  BY <1>4, <1>5, <2>2, RegistryFrame DEF IInv
<1>6. CASE /\ call[t].gen = generation /\ dispatchers[k] # None /\ TouchDispatcher(k)
           /\ call' = [call EXCEPT ![t].kd = dispatchers[k]]
           /\ pc' = [pc EXCEPT ![t] = "publish"]
  <2> DEFINE v == [call[t] EXCEPT !.kd = dispatchers[k]]
  <2>1. /\ dispatchers[k] \in NativeDispatcher
        /\ dispatchers[k].gen = generation /\ dispatchers[k].lits = literals
    BY <1>2, <1>6, RegisteredIsCurrent DEF IInv
  <2>2. v \in Locals /\ v.key = call[t].key /\ v.gen = call[t].gen /\ v.kd = dispatchers[k]
    BY <1>1, <2>1 DEF Locals
  <2>3. call' = [call EXCEPT ![t] = v]
    BY <1>6
  <2> HIDE DEF v
  <2>4. LocalOK("publish", v)
    BY <1>1, <2>1, <2>2 DEF LocalOK
  <2>5. LocalsInv'
    BY <1>3, <1>6, <2>2, <2>3, <2>4, LocalsStep DEF IInv, Labels, Building
  <2>6. RegistryInv'
    BY <1>2, <1>6, TouchDispatcherInv DEF IInv
  <2> QED  BY <1>4, <2>5, <2>6 DEF IInv
<1>7. CASE /\ call[t].gen = generation /\ dispatchers[k] = None
           /\ InsertDispatcher(k, call[t].kd) /\ UNCHANGED << made, call >>
           /\ pc' = [pc EXCEPT ![t] = "publish"]
  <2>1. /\ call[t].kd \in NativeDispatcher
        /\ call[t].kd.gen = generation /\ call[t].kd.lits = literals
    BY <1>1, <1>7 DEF LocalOK
  <2>2. LocalOK("publish", call[t]) /\ call' = [call EXCEPT ![t] = call[t]]
    BY <1>1, <1>7 DEF LocalOK
  <2>3. LocalsInv'
    BY <1>1, <1>3, <1>7, <2>2, LocalsStep DEF IInv, Labels, Building
  <2>4. made' \in Nat
    BY <1>7 DEF IInv, RegistryInv, RegistryTypeOK
  <2>5. RegistryInv'
    BY <1>2, <1>7, <2>1, <2>4, InsertDispatcherInv DEF IInv
  <2> QED  BY <1>4, <2>3, <2>5 DEF IInv
<1> QED  BY <1>5, <1>6, <1>7 DEF RememberDispatcher, AdoptRegistered, Overtaken, Goto, k

(* The build raised: the owner gives up its event and the error leaves.    *)
LEMMA BuildRaisesInv == ASSUME IInv, NEW t \in Threads, BuildRaises(t) PROVE IInv'
<1>1. EventsTypeOK'
  BY ReleaseInflightType DEF BuildRaises, IInv
<1>2. LocalsInv' /\ ResultsTypeOK'
  BY ReturnInv DEF BuildRaises, IInv, registryVars
<1>3. RegistryInv' /\ CacheInv'
  BY RegistryFrame, CacheFrame DEF BuildRaises, IInv, registryVars
<1> QED  BY <1>1, <1>2, <1>3 DEF IInv

-----------------------------------------------------------------------------
(* The owner's second section under the lock                               *)

(* Another owner has published: its marshaller is current, by CacheFresh.  *)
LEMMA PublishLosesInv == ASSUME IInv, NEW t \in Threads, PublishLoses(t) PROVE IInv'
<1> DEFINE key == call[t].key
<1>1. key \in CacheKeys /\ cache[key] # None /\ cache[key] \in Marshallers
  BY DEF PublishLoses, IInv, LocalsInv, LocalOK, CacheInv
<1>2. CacheInv'
  BY <1>1, CacheTouch DEF PublishLoses, IInv, registryVars
<1>3. LocalsInv' /\ ResultsTypeOK'
  BY <1>1, ReturnInv DEF PublishLoses, IInv, registryVars
<1>4. RegistryInv' /\ EventsTypeOK'
  BY RegistryFrame, ReleaseInflightType DEF PublishLoses, IInv
<1> QED  BY <1>2, <1>3, <1>4 DEF IInv

(* An invalidation overtook the build: try again or give up.               *)
LEMMA PublishStaleInv == ASSUME IInv, NEW t \in Threads, PublishStale(t) PROVE IInv'
<1> DEFINE n == call[t].retries + 1
<1>1. call[t] \in Locals /\ call[t].key \in CacheKeys /\ LocalOK("publish", call[t])
  BY DEF PublishStale, IInv, LocalsInv, LocalOK
<1>2. EventsTypeOK'
  BY ReleaseInflightType DEF PublishStale, IInv
<1>3. n \in Nat
  BY <1>1 DEF Locals
<1>4. /\ PublishStale(t)
      /\ pc' = [pc EXCEPT ![t] = IF GivesUp(n) THEN "invalidated" ELSE "lookup"]
      /\ call' = [call EXCEPT ![t] =
                    IF GivesUp(n) THEN [@ EXCEPT !.event = None, !.retries = n]
                    ELSE [@ EXCEPT !.event = None, !.kd = None, !.gen = None, !.retries = n]]
  BY DEF PublishStale, Goto
<1> HIDE DEF n
<1>5. CASE GivesUp(n)
  <2> DEFINE v == [call[t] EXCEPT !.event = None, !.retries = n]
  <2>1. v \in Locals /\ v.key = call[t].key /\ v.gen = call[t].gen
    BY <1>1, <1>3 DEF Locals
  <2>2. call' = [call EXCEPT ![t] = v] /\ pc' = [pc EXCEPT ![t] = "invalidated"]
    BY <1>5, <1>4
  <2> HIDE DEF v
  <2>3. LocalOK("invalidated", v)
    BY <1>1, <2>1 DEF LocalOK
  <2>4. LocalsInv'
    BY <2>1, <2>2, <2>3, LocalsStep DEF PublishStale, IInv, Labels, registryVars
  <2> QED  BY <1>2, <2>4, ThreadFrame DEF PublishStale
<1>6. CASE ~ GivesUp(n)
  <2> DEFINE v == [call[t] EXCEPT !.event = None, !.kd = None, !.gen = None, !.retries = n]
  <2>1. v \in Locals /\ v.key = call[t].key /\ v.gen = None
    BY <1>1, <1>3 DEF Locals
  <2>2. call' = [call EXCEPT ![t] = v] /\ pc' = [pc EXCEPT ![t] = "lookup"]
    BY <1>6, <1>4
  <2> HIDE DEF v
  <2>3. LocalOK("lookup", v)
    BY <1>1, <2>1, ConfigureNoneAssumption DEF LocalOK
  <2>4. LocalsInv'
    BY <2>1, <2>2, <2>3, LocalsStep DEF PublishStale, IInv, Labels, registryVars
  <2> QED  BY <1>2, <2>4, ThreadFrame DEF PublishStale
<1> QED  BY <1>5, <1>6

(* The marshaller is not stale, so what it holds is current (LocalOK).     *)
LEMMA PublishInsertsInv == ASSUME IInv, NEW t \in Threads, PublishInserts(t) PROVE IInv'
<1> DEFINE key == call[t].key
           m   == [kd |-> call[t].kd, gen |-> call[t].gen, by |-> t]
<1>1. call[t] \in Locals /\ key \in CacheKeys /\ LocalOK("publish", call[t])
  BY DEF PublishInserts, IInv, LocalsInv, LocalOK
<1>2. /\ cache[key] = None /\ ~ Stale(key, m.kd, m.gen)
      /\ Return(t, m) /\ ReleaseInflight(t)
      /\ UNCHANGED << registryVars, calls >>
      /\ IF Len(cacheLru) < ConfigureCacheSize
         THEN /\ cache' = [cache EXCEPT ![key] = m]
              /\ cacheLru' = Append(cacheLru, key)
         ELSE /\ cache' = [cache EXCEPT ![key] = m, ![Head(cacheLru)] = None]
              /\ cacheLru' = Append(Tail(cacheLru), key)
  BY DEF PublishInserts
<1>3. m \in Marshallers
  BY <1>1 DEF LocalOK, Locals, Marshallers
<1>4. m.kd.gen = generation /\ m.kd.lits = literals
  <2>1. CASE key.enabled
    BY <2>1, <1>1, <1>2 DEF LocalOK, Stale
  <2>2. CASE ~ key.enabled
    BY <2>2, <1>2, GenericIsCurrent DEF Stale, IInv
  <2> QED  BY <2>1, <2>2
<1> HIDE DEF key, m
<1>5. CacheInv'
  BY <1>1, <1>2, <1>3, <1>4, CacheInsert DEF IInv, registryVars
<1>6. LocalsInv' /\ ResultsTypeOK'
  BY <1>2, <1>3, ReturnInv DEF IInv, registryVars
<1>7. RegistryInv' /\ EventsTypeOK'
  BY <1>2, RegistryFrame, ReleaseInflightType DEF IInv
<1> QED  BY <1>5, <1>6, <1>7 DEF IInv

(* Giving up changes nothing but the locals of the thread.                 *)
LEMMA RaiseInvalidatedInv ==
  ASSUME IInv, NEW t \in Threads, RaiseInvalidated(t) PROVE IInv'
<1>1. LocalsInv' /\ ResultsTypeOK'
  BY ReturnInv DEF RaiseInvalidated, IInv, registryVars
<1>2. RegistryInv' /\ CacheInv' /\ EventsTypeOK'
  BY RegistryFrame, CacheFrame DEF RaiseInvalidated, IInv, registryVars, EventsTypeOK
<1> QED  BY <1>1, <1>2 DEF IInv

-----------------------------------------------------------------------------
(* The environment                                                         *)

(* recompile() and a literal request: whatever generation a thread has     *)
(* read, it is now an old one.                                             *)
LEMMA InvalidationInv ==
  ASSUME IInv, NEW lits \in SUBSET Positions, AdvanceGeneration(lits),
         ClearConfigureCache, UNCHANGED << requires, pc, call, result, calls >>
  PROVE  IInv'
<1>1. RegistryInv'
  BY AdvanceGenerationInv DEF IInv, RegistryInv, RegistryTypeOK
<1>2. CacheInv' /\ EventsTypeOK'
  BY CacheCleared DEF IInv
<1>3. LocalsInv'
  <2>1. generation \in Nat /\ generation' = generation + 1
    BY DEF IInv, RegistryInv, RegistryTypeOK, AdvanceGeneration
  <2>2. ASSUME NEW t \in Threads
        PROVE  LocalOK(pc[t], call[t])'
    <3>1. LocalOK(pc[t], call[t])
      BY DEF IInv, LocalsInv
    <3>2. call[t].gen \in Nat => call[t].gen <= generation' /\ call[t].gen # generation'
      BY <2>1, <3>1 DEF LocalOK
    <3>3. call[t].gen # generation'
      BY <2>1, <3>2
    <3> QED  BY <3>1, <3>2, <3>3 DEF LocalOK
  <2> QED  BY <2>2 DEF IInv, LocalsInv
<1>4. ResultsTypeOK'
  BY DEF IInv, ResultsTypeOK
<1> QED  BY <1>1, <1>2, <1>3, <1>4 DEF IInv

(* recompile(), literal requests, cache_clear() and changed extensions.    *)
LEMMA EnvironmentInv == ASSUME IInv, Environment PROVE IInv'
<1>1. literals \in SUBSET Positions /\ requires \in BOOLEAN /\ optIn \in BOOLEAN
  BY DEF IInv, RegistryInv, RegistryTypeOK
<1>2. CASE Recompile
  BY <1>1, <1>2, InvalidationInv DEF Recompile
<1>3. CASE RecordLiterals
  <2>1. PICK ps \in (SUBSET (Positions \ literals)) \ {{}} : AdvanceGeneration(literals \cup ps)
    BY <1>3 DEF RecordLiterals
  <2>2. literals \cup ps \in SUBSET Positions
    BY <1>1
  <2> QED  BY <1>3, <2>1, <2>2, InvalidationInv DEF RecordLiterals
<1>4. CASE CacheClear
  <2>1. RegistryInv' /\ LocalsInv'
    BY <1>4, RegistryFrame, LocalsFrame DEF CacheClear, IInv, registryVars
  <2>2. CacheInv' /\ EventsTypeOK'
    BY <1>4, CacheCleared DEF CacheClear, IInv
  <2>3. ResultsTypeOK'
    BY <1>4 DEF CacheClear, IInv, ResultsTypeOK
  <2> QED  BY <2>1, <2>2, <2>3 DEF IInv
<1>5. CASE MarkRequiresLaunchConfig \/ ChangeExtensions
  <2>1. /\ UNCHANGED << generation, c, literals, dispatchers, dispatcherLru, old,
                        lcOverloads, made, cache, cacheLru, inflight, unset,
                        pc, call, result, calls >>
        /\ requires' \in BOOLEAN /\ optIn' \in BOOLEAN
    BY <1>1, <1>5 DEF MarkRequiresLaunchConfig, ChangeExtensions
  <2>2. RegistryInv'
    BY <2>1 DEF IInv, RegistryInv, RegistryTypeOK, DispatchersCurrent, Registered
  <2>3. CacheInv' /\ LocalsInv'
    BY <2>1, CacheFrame, LocalsFrame DEF IInv
  <2>4. EventsTypeOK' /\ ResultsTypeOK'
    BY <2>1 DEF IInv, EventsTypeOK, ResultsTypeOK
  <2> QED  BY <2>2, <2>3, <2>4 DEF IInv
<1> QED  BY <1>2, <1>3, <1>4, <1>5 DEF Environment

-----------------------------------------------------------------------------
(* The invariant holds                                                     *)

(* A fresh dispatcher satisfies the invariant.                             *)
LEMMA InitInv == Init => IInv
<1> SUFFICES ASSUME Init PROVE IInv
  OBVIOUS
<1>1. RegistryInv
  BY RegistryInitInv DEF Init
<1>2. CacheInv
  <2>1. Remembered = {}
    BY DEF Init, Remembered
  <2>2. Lists(cacheLru, Remembered) /\ Len(cacheLru) <= ConfigureCacheSize
    BY <2>1, ListsEmpty, EmptySeq, ConfigureAssumption DEF Init
  <2> QED  BY <2>2 DEF Init, CacheInv, CacheFresh
<1>3. LocalsInv
  <2>1. NoLocals \in Locals /\ "idle" \in Labels
    BY DEF NoLocals, Locals, Labels
  <2>2. LocalOK("idle", NoLocals)
    BY ConfigureNoneAssumption DEF LocalOK, NoLocals
  <2> QED  BY <2>1, <2>2 DEF Init, LocalsInv
<1>4. EventsTypeOK /\ ResultsTypeOK
  BY ConfigureAssumption DEF Init, EventsTypeOK, ResultsTypeOK
<1> QED  BY <1>1, <1>2, <1>3, <1>4 DEF IInv

(* Every step of configure() and of its surroundings preserves it.         *)
LEMMA StepInv == IInv /\ [Next]_vars => IInv'
<1> SUFFICES ASSUME IInv, [Next]_vars PROVE IInv'
  OBVIOUS
<1>1. ASSUME NEW t \in Threads, Configure(t)
      PROVE  IInv'
  BY <1>1, HitInv, JoinInflightInv, OwnInflightInv, WakeInv, ReadGenericInv,
     RecheckInv, FindDispatcherInv, ConstructDispatcherInv, RememberDispatcherInv,
     PublishLosesInv, PublishStaleInv, PublishInsertsInv, RaiseInvalidatedInv
     DEF Configure
<1>2. ASSUME NEW t \in Threads, Call(t) \/ BuildRaises(t)
      PROVE  IInv'
  BY <1>2, CallInv, BuildRaisesInv
<1>3. CASE Environment
  BY <1>3, EnvironmentInv
<1>4. CASE UNCHANGED vars
  BY <1>4, RegistryFrame, CacheFrame, LocalsFrame
     DEF vars, registryVars, IInv, EventsTypeOK, ResultsTypeOK
<1> QED  BY <1>1, <1>2, <1>3, <1>4 DEF Next

(* The strengthened invariant holds in every state of configure().         *)
THEOREM Invariant == Spec => []IInv
  BY InitInv, StepInv, PTL DEF Spec

(* Every variable keeps its type, for any number of threads and keys.      *)
THEOREM TypeCorrect == Spec => []TypeOK
<1>1. IInv => TypeOK
  <2>1. Remembered \subseteq CacheKeys
    BY DEF Remembered
  <2>2. IInv => cacheLru \in Seq(CacheKeys)
    BY <2>1, SeqMonotonic DEF IInv, CacheInv, Lists
  <2> QED  BY <2>2 DEF IInv, TypeOK, RegistryInv, CacheInv, LocalsInv, EventsTypeOK,
                       ResultsTypeOK
<1> QED  BY <1>1, Invariant, PTL

(* No native dispatcher of an earlier generation, or with other literal    *)
(* flags than those in force, is ever the generic or a registered one.     *)
THEOREM DispatchersStayCurrent == Spec => []DispatchersCurrent
<1>1. IInv => DispatchersCurrent
  BY DEF IInv, RegistryInv
<1> QED  BY <1>1, Invariant, PTL

(* configure() never hands a stale marshaller out of its cache.            *)
THEOREM CacheStaysFresh == Spec => []CacheFresh
<1>1. IInv => CacheFresh
  BY DEF IInv, CacheInv
<1> QED  BY <1>1, Invariant, PTL

-----------------------------------------------------------------------------
(* Events                                                                  *)

Holds(t, e) == Owner(t) /\ call[t].event = e

(* An event in flight is not set and has an owner that builds for its key. *)
InflightOwned == \A k \in CacheKeys : inflight[k] # None =>
    /\ inflight[k] \in unset
    /\ \E o \in Threads : Holds(o, inflight[k]) /\ call[o].key = k

(* An event has one owner at most ...                                      *)
OneOwner == \A t, u \in Threads :
    Owner(t) /\ Owner(u) /\ call[t].event = call[u].event => t = u

(* ... and one at least until it is set.                                   *)
UnsetOwned == \A e \in unset : \E o \in Threads : Holds(o, e)

(* Until it is set it is the one in flight for its owner's key.            *)
LiveInflight == \A t \in Threads :
    Owner(t) /\ call[t].event \in unset => inflight[call[t].key] = call[t].event

(* Who waits for it asks for that key.                                     *)
WaitsForKey == \A t, o \in Threads :
    pc[t] = "wait" /\ Holds(o, call[t].event) => call[o].key = call[t].key

EventInv == InflightOwned /\ OneOwner /\ UnsetOwned /\ LiveInflight /\ WaitsForKey

(* A step that leaves the events, their owners and their waiters alone.    *)
LEMMA EventFrame ==
  ASSUME EventInv, UNCHANGED << inflight, unset >>,
         \A u \in Threads :
           /\ Owner(u)' = Owner(u)
           /\ pc'[u] = "wait" => pc[u] = "wait"
           /\ Owner(u) \/ pc'[u] = "wait" =>
                call'[u].event = call[u].event /\ call'[u].key = call[u].key
  PROVE  EventInv'
<1> USE DEF Holds
<1>1. InflightOwned'
  BY DEF EventInv, InflightOwned
<1>2. OneOwner'
  BY DEF EventInv, OneOwner
<1>3. UnsetOwned'
  BY DEF EventInv, UnsetOwned
<1>4. LiveInflight'
  BY DEF EventInv, LiveInflight
<1>5. WaitsForKey'
  BY DEF EventInv, WaitsForKey
<1> QED  BY <1>1, <1>2, <1>3, <1>4, <1>5 DEF EventInv

(* An owner stops building: it withdraws its event and wakes the waiters.  *)
LEMMA ReleaseEvents ==
  ASSUME EventInv, LocalsInv, EventsTypeOK, NEW t \in Threads, Owner(t),
         ReleaseInflight(t), NEW label, NEW v,
         pc' = [pc EXCEPT ![t] = label], call' = [call EXCEPT ![t] = v],
         label \notin Building \cup {"wait"}
  PROVE  EventInv'
<1> DEFINE key == call[t].key
           ev  == call[t].event
<1>1. /\ pc \in [Threads -> Labels] /\ call \in [Threads -> Locals]
      /\ key \in CacheKeys
      /\ inflight \in [CacheKeys -> Events \cup {None}]
  BY DEF LocalsInv, LocalOK, Owner, Building, EventsTypeOK
<1>2. /\ unset' = unset \ {ev}
      /\ inflight' = IF inflight[key] = ev THEN [inflight EXCEPT ![key] = None] ELSE inflight
  BY DEF ReleaseInflight
<1>3. /\ ~ Owner(t)' /\ pc'[t] # "wait"
      /\ \A u \in Threads : u # t => /\ pc'[u] = pc[u] /\ call'[u] = call[u]
                                     /\ Owner(u)' = Owner(u)
  BY <1>1 DEF Owner
<1>4. \A u \in Threads : u # t /\ Owner(u) => call[u].event # ev
  BY DEF EventInv, OneOwner
<1>5. \A k \in CacheKeys : inflight'[k] # None => inflight'[k] = inflight[k] /\ inflight[k] # ev
  <2> SUFFICES ASSUME NEW k \in CacheKeys, inflight'[k] # None
               PROVE  inflight'[k] = inflight[k] /\ inflight[k] # ev
    OBVIOUS
  <2>1. inflight'[k] = inflight[k]
    BY <1>1, <1>2
  <2>2. ASSUME inflight[k] = ev PROVE FALSE
    <3>1. PICK o \in Threads : Holds(o, inflight[k]) /\ call[o].key = k
      BY <2>1 DEF EventInv, InflightOwned
    <3>2. o = t /\ k = key
      BY <2>2, <3>1, <1>4 DEF Holds
    <3> QED  BY <1>1, <1>2, <2>2, <3>2
  <2> QED  BY <2>1, <2>2
<1> HIDE DEF key, ev
<1>6. InflightOwned'
  <2> SUFFICES ASSUME NEW k \in CacheKeys, inflight'[k] # None
               PROVE  /\ inflight'[k] \in unset'
                      /\ \E o \in Threads : Holds(o, inflight[k])' /\ call'[o].key = k
    BY DEF InflightOwned
  <2>1. inflight'[k] = inflight[k] /\ inflight[k] # ev /\ inflight[k] \in unset
    BY <1>5 DEF EventInv, InflightOwned
  <2>2. PICK o \in Threads : Holds(o, inflight[k]) /\ call[o].key = k
    BY <2>1 DEF EventInv, InflightOwned
  <2>3. o # t
    BY <2>1, <2>2 DEF Holds, ev
  <2> QED  BY <1>2, <1>3, <2>1, <2>2, <2>3 DEF Holds
<1>7. OneOwner'
  BY <1>3 DEF EventInv, OneOwner
<1>8. UnsetOwned'
  <2> SUFFICES ASSUME NEW e \in unset' PROVE \E o \in Threads : Holds(o, e)'
    BY DEF UnsetOwned
  <2>1. e \in unset /\ e # ev
    BY <1>2
  <2>2. PICK o \in Threads : Holds(o, e)
    BY <2>1 DEF EventInv, UnsetOwned
  <2>3. o # t
    BY <2>1, <2>2 DEF Holds, ev
  <2> QED  BY <1>3, <2>2, <2>3 DEF Holds
<1>9. LiveInflight'
  <2> SUFFICES ASSUME NEW u \in Threads, Owner(u)', call'[u].event \in unset'
               PROVE  inflight'[call'[u].key] = call'[u].event
    BY DEF LiveInflight
  <2>1. /\ u # t /\ Owner(u) /\ call'[u] = call[u]
        /\ call[u].event \in unset /\ call[u].event # ev
    BY <1>2, <1>3
  <2>2. inflight[call[u].key] = call[u].event /\ call[u].key \in CacheKeys
    BY <2>1 DEF EventInv, LiveInflight, LocalsInv, LocalOK, Owner, Building
  <2>3. key = call[u].key => inflight[key] # ev
    BY <2>1, <2>2
  <2> QED  BY <1>1, <1>2, <2>1, <2>2, <2>3
<1>10. WaitsForKey'
  <2> SUFFICES ASSUME NEW u \in Threads, NEW o \in Threads,
                      pc'[u] = "wait", Holds(o, call[u].event)'
               PROVE  call'[o].key = call'[u].key
    BY DEF WaitsForKey
  <2>1. /\ u # t /\ o # t /\ pc[u] = "wait" /\ call'[u] = call[u]
        /\ call'[o] = call[o] /\ Holds(o, call[u].event)
    BY <1>3 DEF Holds
  <2> QED  BY <2>1 DEF EventInv, WaitsForKey
<1> QED  BY <1>6, <1>7, <1>8, <1>9, <1>10 DEF EventInv

(* An invalidation sets every event in flight: nobody builds for one any   *)
(* more that is not set.                                                   *)
LEMMA ClearEvents ==
  ASSUME EventInv, LocalsInv, ClearConfigureCache, UNCHANGED << pc, call >>
  PROVE  EventInv'
<1>1. /\ inflight' = [k \in CacheKeys |-> None]
      /\ unset' = unset \ {inflight[k] : k \in CacheKeys}
  BY DEF ClearConfigureCache
<1>2. InflightOwned'
  BY <1>1 DEF InflightOwned
<1>3. OneOwner'
  BY DEF EventInv, OneOwner, Owner
<1>4. UnsetOwned'
  BY <1>1 DEF EventInv, UnsetOwned, Holds, Owner
<1>5. LiveInflight'
  <2> SUFFICES ASSUME NEW t \in Threads, Owner(t), call[t].event \in unset'
               PROVE  FALSE
    BY DEF LiveInflight, Owner
  <2>1. call[t].key \in CacheKeys
    BY DEF LocalsInv, LocalOK, Owner, Building
  <2>2. call[t].event \in unset /\ call[t].event # inflight[call[t].key]
    BY <1>1, <2>1
  <2> QED  BY <2>2 DEF EventInv, LiveInflight
<1>6. WaitsForKey'
  BY DEF EventInv, WaitsForKey, Holds, Owner
<1> QED  BY <1>2, <1>3, <1>4, <1>5, <1>6 DEF EventInv

(* A thread that finds an event in flight waits for its owner's event.     *)
LEMMA JoinInflightEvents ==
  ASSUME EventInv, LocalsInv, NEW t \in Threads, JoinInflight(t)
  PROVE  EventInv'
<1> DEFINE key == call[t].key
<1>1. /\ pc \in [Threads -> Labels] /\ call \in [Threads -> Locals]
      /\ key \in CacheKeys /\ inflight[key] # None /\ call[t] \in Locals
  BY DEF LocalsInv, LocalOK, JoinInflight
<1>2. /\ UNCHANGED << inflight, unset >>
      /\ ~ Owner(t) /\ ~ Owner(t)'
      /\ call'[t].event = inflight[key] /\ call'[t].key = key
      /\ \A u \in Threads : u # t => pc'[u] = pc[u] /\ call'[u] = call[u]
  BY <1>1 DEF JoinInflight, Goto, Owner, Building, Locals
<1>3. \A u \in Threads : Owner(u)' = Owner(u) /\ (Owner(u) => u # t /\ call'[u] = call[u])
  BY <1>2 DEF Owner
<1>4. InflightOwned' /\ OneOwner' /\ UnsetOwned' /\ LiveInflight'
  BY <1>2, <1>3 DEF EventInv, InflightOwned, OneOwner, UnsetOwned, LiveInflight, Holds
<1>5. PICK b \in Threads : Holds(b, inflight[key]) /\ call[b].key = key
  BY <1>1 DEF EventInv, InflightOwned
<1>6. WaitsForKey'
  <2> SUFFICES ASSUME NEW u \in Threads, NEW o \in Threads,
                      pc'[u] = "wait", Holds(o, call[u].event)'
               PROVE  call'[o].key = call'[u].key
    BY DEF WaitsForKey
  <2>1. Owner(o) /\ call'[o] = call[o] /\ call[o].event = call'[u].event
    BY <1>3 DEF Holds
  <2>2. CASE u = t
    BY <2>1, <2>2, <1>2, <1>5 DEF EventInv, OneOwner, Holds
  <2>3. CASE u # t
    BY <2>1, <2>3, <1>2 DEF EventInv, WaitsForKey, Holds
  <2> QED  BY <2>2, <2>3
<1> QED  BY <1>4, <1>6 DEF EventInv

(* A thread that finds none registers an event that nobody knows yet.      *)
LEMMA OwnInflightEvents ==
  ASSUME EventInv, LocalsInv, EventsTypeOK, NEW t \in Threads, OwnInflight(t)
  PROVE  EventInv'
<1> DEFINE key == call[t].key
<1>1. /\ pc \in [Threads -> Labels] /\ call \in [Threads -> Locals]
      /\ key \in CacheKeys /\ inflight[key] = None /\ call[t] \in Locals
      /\ inflight \in [CacheKeys -> Events \cup {None}] /\ unset \subseteq Events
  BY DEF LocalsInv, LocalOK, OwnInflight, EventsTypeOK
<1>2. PICK e \in Events :
        /\ Fresh(e)
        /\ inflight' = [inflight EXCEPT ![key] = e]
        /\ unset' = unset \cup {e}
        /\ call' = [call EXCEPT ![t].event = e]
  BY DEF OwnInflight
<1>3. /\ ~ Owner(t) /\ Owner(t)' /\ pc'[t] # "wait"
      /\ call'[t].event = e /\ call'[t].key = key
      /\ \A u \in Threads : u # t =>
           /\ pc'[u] = pc[u] /\ call'[u] = call[u] /\ Owner(u)' = Owner(u)
           /\ call[u].event # e
  BY <1>1, <1>2 DEF OwnInflight, Goto, Owner, Building, Locals, Fresh
<1>4. /\ inflight'[key] = e
      /\ \A k \in CacheKeys : k # key => inflight'[k] = inflight[k]
  BY <1>1, <1>2
<1> HIDE DEF key
<1>5. InflightOwned'
  <2> SUFFICES ASSUME NEW k \in CacheKeys, inflight'[k] # None
               PROVE  /\ inflight'[k] \in unset'
                      /\ \E o \in Threads : /\ Owner(o)' /\ call'[o].event = inflight'[k]
                                            /\ call'[o].key = k
    BY DEF InflightOwned, Holds
  <2>1. CASE k = key
    BY <2>1, <1>2, <1>3, <1>4
  <2>2. CASE k # key
    <3>1. PICK o \in Threads : Holds(o, inflight[k]) /\ call[o].key = k
      BY <2>2, <1>4 DEF EventInv, InflightOwned
    <3>2. inflight[k] \in unset
      BY <2>2, <1>4 DEF EventInv, InflightOwned
    <3> QED  BY <2>2, <3>1, <3>2, <1>2, <1>3, <1>4 DEF Holds
  <2> QED  BY <2>1, <2>2
<1>6. OneOwner'
  BY <1>3 DEF EventInv, OneOwner
<1>7. UnsetOwned'
  <2> SUFFICES ASSUME NEW f \in unset'
               PROVE  \E o \in Threads : Owner(o)' /\ call'[o].event = f
    BY DEF UnsetOwned, Holds
  <2>1. CASE f = e
    BY <2>1, <1>3
  <2>2. CASE f # e
    <3>1. PICK o \in Threads : Holds(o, f)
      BY <2>2, <1>2 DEF EventInv, UnsetOwned
    <3> QED  BY <3>1, <1>3 DEF Holds
  <2> QED  BY <2>1, <2>2
<1>8. LiveInflight'
  <2> SUFFICES ASSUME NEW u \in Threads, Owner(u)', call'[u].event \in unset'
               PROVE  inflight'[call'[u].key] = call'[u].event
    BY DEF LiveInflight
  <2>1. CASE u = t
    BY <2>1, <1>3, <1>4
  <2>2. CASE u # t
    <3>1. /\ Owner(u) /\ call'[u] = call[u] /\ call[u].event \in unset
          /\ call[u].key \in CacheKeys
      BY <2>2, <1>2, <1>3 DEF LocalsInv, LocalOK, Owner, Building
    <3>2. inflight[call[u].key] = call[u].event /\ call[u].event # None
      BY <1>1, <3>1, ConfigureNoneAssumption DEF EventInv, LiveInflight
    <3> QED  BY <1>1, <1>4, <3>1, <3>2
  <2> QED  BY <2>1, <2>2
<1>9. WaitsForKey'
  BY <1>3 DEF EventInv, WaitsForKey, Holds
<1> QED  BY <1>5, <1>6, <1>7, <1>8, <1>9 DEF EventInv

(* Nobody builds or waits before the first call.                           *)
LEMMA EventsInit == Init => EventInv
<1> SUFFICES ASSUME Init PROVE EventInv
  OBVIOUS
<1>1. \A t \in Threads : ~ Owner(t) /\ pc[t] # "wait"
  BY DEF Init, Owner, Building
<1> QED  BY <1>1 DEF Init, EventInv, InflightOwned, OneOwner, UnsetOwned, LiveInflight,
                     WaitsForKey

(* Every step of configure() and of its surroundings keeps it.             *)
LEMMA EventsPreserved == IInv /\ EventInv /\ [Next]_vars => EventInv'
<1> SUFFICES ASSUME IInv, EventInv, [Next]_vars PROVE EventInv'
  OBVIOUS
<1>1. LocalsInv /\ EventsTypeOK
  BY DEF IInv
<1>2. pc \in [Threads -> Labels] /\ call \in [Threads -> Locals]
  BY <1>1 DEF LocalsInv
<1>3. ASSUME NEW t \in Threads,
             Hit(t) \/ Wake(t) \/ RaiseInvalidated(t) \/ Call(t)
      PROVE  EventInv'
  <2>1. /\ UNCHANGED << inflight, unset >>
        /\ ~ Owner(t) /\ pc'[t] \in {"idle", "lookup"}
        /\ \A u \in Threads : u # t => pc'[u] = pc[u] /\ call'[u] = call[u]
    BY <1>2, <1>3 DEF Hit, Wake, RaiseInvalidated, Call, Return, Goto, Owner, Building
  <2>2. \A u \in Threads :
          Owner(u)' = Owner(u) /\ (Owner(u) \/ pc'[u] = "wait" => u # t /\ pc'[u] = pc[u])
    BY <2>1 DEF Owner, Building
  <2> QED  BY <2>1, <2>2, EventFrame
<1>4. ASSUME NEW t \in Threads, JoinInflight(t) \/ OwnInflight(t)
      PROVE  EventInv'
  BY <1>1, <1>4, JoinInflightEvents, OwnInflightEvents
<1>5. ASSUME NEW t \in Threads,
             ReadGeneric(t) \/ Recheck(t) \/ FindDispatcher(t) \/ ConstructDispatcher(t)
               \/ RememberDispatcher(t)
      PROVE  EventInv'
  <2>1. /\ UNCHANGED << inflight, unset >>
        /\ Owner(t) /\ pc'[t] \in Building
        /\ \A u \in Threads : u # t => pc'[u] = pc[u] /\ call'[u] = call[u]
    BY <1>2, <1>5 DEF ReadGeneric, Recheck, FindDispatcher, ConstructDispatcher,
                      RememberDispatcher, AdoptRegistered, Goto, Owner, Building
  <2>2. call'[t].event = call[t].event /\ call'[t].key = call[t].key
    BY <1>2, <1>5 DEF ReadGeneric, Recheck, FindDispatcher, ConstructDispatcher,
                      RememberDispatcher, AdoptRegistered, Locals
  <2>3. \A u \in Threads : Owner(u)' = Owner(u) /\ (pc'[u] = "wait" => u # t /\ pc[u] = "wait")
    BY <2>1 DEF Owner, Building
  <2> QED  BY <2>1, <2>2, <2>3, EventFrame
<1>6. ASSUME NEW t \in Threads,
             BuildRaises(t) \/ PublishLoses(t) \/ PublishStale(t) \/ PublishInserts(t)
      PROVE  EventInv'
  <2>1. Owner(t) /\ ReleaseInflight(t)
    BY <1>6 DEF BuildRaises, PublishLoses, PublishStale, PublishInserts, Owner, Building
  <2>2. \E label, v : /\ label \notin Building \cup {"wait"}
                      /\ pc' = [pc EXCEPT ![t] = label] /\ call' = [call EXCEPT ![t] = v]
    <3>1. CASE BuildRaises(t) \/ PublishLoses(t) \/ PublishInserts(t)
      BY <3>1 DEF BuildRaises, PublishLoses, PublishInserts, Return, Goto, Building
    <3>2. CASE PublishStale(t)
      <4>1. CASE GivesUp(call[t].retries + 1)
        BY <3>2, <4>1 DEF PublishStale, Goto, Building
      <4>2. CASE ~ GivesUp(call[t].retries + 1)
        BY <3>2, <4>2 DEF PublishStale, Goto, Building
      <4> QED  BY <4>1, <4>2
    <3> QED  BY <1>6, <3>1, <3>2
  <2> QED  BY <1>1, <2>1, <2>2, ReleaseEvents
<1>7. CASE Environment
  <2>1. CASE Recompile \/ RecordLiterals \/ CacheClear
    BY <1>1, <2>1, ClearEvents DEF Recompile, RecordLiterals, CacheClear
  <2>2. CASE MarkRequiresLaunchConfig \/ ChangeExtensions
    BY <2>2, EventFrame DEF MarkRequiresLaunchConfig, ChangeExtensions, Owner
  <2> QED  BY <1>7, <2>1, <2>2 DEF Environment
<1>8. CASE UNCHANGED vars
  BY <1>8, EventFrame DEF vars, Owner
<1> QED  BY <1>3, <1>4, <1>5, <1>6, <1>7, <1>8 DEF Next, Configure

(* The invariant of the events holds in every state.                       *)
LEMMA EventsInvariant == Spec => []EventInv
  BY EventsInit, EventsPreserved, Invariant, PTL DEF Spec

(* No invalidation, error or lost race strands a waiter, or lets it wait   *)
(* for somebody else's key.                                                *)
THEOREM WaitersAreWoken == Spec => []WaitersHaveOwner
<1>1. EventInv => WaitersHaveOwner
  BY DEF EventInv, UnsetOwned, WaitsForKey, Holds, WaitersHaveOwner
<1> QED  BY <1>1, EventsInvariant, PTL

(* Of the builders of one key all but one were overtaken.                  *)
THEOREM SingleFlight == Spec => []OneLiveBuilder
<1>1. EventInv => OneLiveBuilder
  BY DEF EventInv, LiveInflight, OneOwner, OneLiveBuilder
<1> QED  BY <1>1, EventsInvariant, PTL

-----------------------------------------------------------------------------
(* Entries                                                                 *)

(* A remembered marshaller is never replaced in place.                     *)
THEOREM EntriesAreKept == Spec => EntryKept
<1>1. ASSUME IInv, [Next]_vars, NEW key \in CacheKeys, cache[key] # None, cache'[key] # None
      PROVE  cache'[key] = cache[key]
  <2>1. cache \in [CacheKeys -> Marshallers \cup {None}]
    BY <1>1 DEF IInv, CacheInv
  <2>2. CASE \E t \in Threads : PublishInserts(t)
    BY <1>1, <2>1, <2>2 DEF PublishInserts
  <2>3. CASE Recompile \/ RecordLiterals \/ CacheClear
    BY <1>1, <2>3 DEF Recompile, RecordLiterals, CacheClear, ClearConfigureCache
  <2>4. CASE UNCHANGED cache
    BY <2>4
  <2>5. CASE Next
    BY <2>2, <2>3, <2>4, <2>5
       DEF Next, Configure, Environment, Call, BuildRaises, Hit, JoinInflight, OwnInflight,
           Wake, ReadGeneric, Recheck, FindDispatcher, ConstructDispatcher,
           RememberDispatcher, PublishLoses, PublishStale, RaiseInvalidated,
           MarkRequiresLaunchConfig, ChangeExtensions
  <2> QED  BY <1>1, <2>4, <2>5 DEF vars
<1>2. IInv /\ [Next]_vars =>
        [\A key \in CacheKeys :
           cache[key] # None /\ cache'[key] # None => cache'[key] = cache[key]]_vars
  BY <1>1
<1> QED  BY <1>2, Invariant, PTL DEF Spec, EntryKept

-----------------------------------------------------------------------------
(* One dispatcher for a launch key                                         *)

(* What has been made for launch key k (a marshaller, or the locals of a   *)
(* thread about to make one), if it was made in the current generation,    *)
(* uses the registered dispatcher; none is ahead of its time.              *)
UsesRegistered(m, k) == m.gen = generation => m.kd = dispatchers[k]
InItsTime(m)         == m.gen \in Nat => m.gen <= generation

KeyOfCall(t) == LcKeyOf[call[t].key.config]

SharedInv ==
    /\ \A t \in Threads : pc[t] = "publish" => UsesRegistered(call[t], KeyOfCall(t))
    /\ \A key \in CacheKeys : cache[key] # None =>
         InItsTime(cache[key]) /\ UsesRegistered(cache[key], LcKeyOf[key.config])
    /\ \A t \in Threads : result[t] # None =>
         InItsTime(result[t]) /\ \E k \in LcKeys : UsesRegistered(result[t], k)

(* With room for all, an entry leaves the registry only with its           *)
(* generation.                                                             *)
LEMMA RegisteredStays ==
  ASSUME IInv, NoEvictions, [Next]_vars
  PROVE  \/ /\ generation' = generation
            /\ \A k \in LcKeys : dispatchers[k] # None => dispatchers'[k] = dispatchers[k]
         \/ generation' = generation + 1
<1> DEFINE P == \/ /\ generation' = generation
                   /\ \A k \in LcKeys : dispatchers[k] # None => dispatchers'[k] = dispatchers[k]
                \/ generation' = generation + 1
<1>1. CASE UNCHANGED << generation, dispatchers >>
  BY <1>1
<1>2. CASE Recompile \/ RecordLiterals
  BY <1>2 DEF Recompile, RecordLiterals, AdvanceGeneration
<1>3. ASSUME NEW t \in Threads, RememberDispatcher(t)
      PROVE  P
  <2> DEFINE k == KeyOfCall(t)
  <2>1. k \in LcKeys
    BY <1>3, LcKeyOfCall DEF RememberDispatcher, KeyOfCall
  <2>2. \/ UNCHANGED registryVars \/ AdoptRegistered(t, k)
        \/ dispatchers[k] = None /\ InsertDispatcher(k, call[t].kd)
    BY <1>3 DEF RememberDispatcher, KeyOfCall
  <2>3. CASE dispatchers[k] = None /\ InsertDispatcher(k, call[t].kd)
    <3>1. Len(dispatcherLru) < LaunchConfigCacheSize
      BY <2>1, <2>3, RoomForAll DEF IInv
    <3>2. generation' = generation /\ dispatchers' = [dispatchers EXCEPT ![k] = call[t].kd]
      BY <2>3, <3>1 DEF InsertDispatcher
    <3> HIDE DEF k
    <3>3. \A j \in LcKeys : dispatchers[j] # None => dispatchers'[j] = dispatchers[j]
      BY <2>3, <3>2 DEF IInv, RegistryInv, RegistryTypeOK
    <3> QED  BY <3>2, <3>3
  <2>4. CASE UNCHANGED registryVars \/ AdoptRegistered(t, k)
    BY <1>1, <2>4 DEF registryVars, AdoptRegistered, TouchDispatcher
  <2> QED  BY <2>2, <2>3, <2>4
<1>4. ASSUME NEW t \in Threads,
             Call(t) \/ BuildRaises(t) \/ Hit(t) \/ JoinInflight(t) \/ OwnInflight(t)
               \/ Wake(t) \/ ReadGeneric(t) \/ Recheck(t) \/ FindDispatcher(t)
               \/ ConstructDispatcher(t) \/ PublishLoses(t) \/ PublishStale(t)
               \/ PublishInserts(t) \/ RaiseInvalidated(t)
      PROVE  UNCHANGED << generation, dispatchers >>
  BY <1>4 DEF Call, BuildRaises, Hit, JoinInflight, OwnInflight, Wake, ReadGeneric, Recheck,
              FindDispatcher, TouchDispatcher, ConstructDispatcher, PublishLoses,
              PublishStale, PublishInserts, RaiseInvalidated, registryVars
<1>5. CASE CacheClear \/ MarkRequiresLaunchConfig \/ ChangeExtensions \/ UNCHANGED vars
  BY <1>1, <1>5 DEF CacheClear, MarkRequiresLaunchConfig, ChangeExtensions, vars, registryVars
<1> QED  BY <1>1, <1>2, <1>3, <1>4, <1>5 DEF Next, Configure, Environment

(* So what has been made stays right.                                      *)
LEMMA MadeStays ==
  ASSUME IInv, NoEvictions, [Next]_vars,
         NEW m, InItsTime(m), m.gen \in Nat \cup {None}, m.kd \in NativeDispatcher
  PROVE  /\ m.gen \in Nat => m.gen <= generation'
         /\ \A k \in LcKeys : UsesRegistered(m, k) =>
              (m.gen = generation' => m.kd = dispatchers'[k])
<1>1. generation \in Nat /\ None \notin Nat /\ m.kd # None
  BY ConfigureNoneAssumption, NoneAssumption DEF IInv, RegistryInv, RegistryTypeOK
<1>2. CASE generation' = generation + 1
  BY <1>1, <1>2 DEF InItsTime
<1>3. CASE /\ generation' = generation
           /\ \A k \in LcKeys : dispatchers[k] # None => dispatchers'[k] = dispatchers[k]
  BY <1>1, <1>3 DEF InItsTime, UsesRegistered
<1> QED  BY <1>2, <1>3, RegisteredStays

(* A thread comes to publication with what it was at it with, or with      *)
(* something of no generation, or with what is registered then.            *)
LEMMA PublishUses ==
  ASSUME IInv, SharedInv, NoEvictions, [Next]_vars, NEW u \in Threads, pc'[u] = "publish"
  PROVE  UsesRegistered(call[u], KeyOfCall(u))'
<1>1. /\ pc \in [Threads -> Labels] /\ call \in [Threads -> Locals]
      /\ call[u] \in Locals /\ generation \in Nat /\ None \notin Nat
      /\ pc[u] # "idle" => KeyOfCall(u) \in LcKeys
  BY LcKeyOfCall, ConfigureNoneAssumption
     DEF IInv, LocalsInv, RegistryInv, RegistryTypeOK, KeyOfCall
<1>2. CASE pc[u] = "publish" /\ call'[u] = call[u]
  <2>1. PICK m : m = call[u]
    OBVIOUS
  <2>2. /\ InItsTime(m) /\ m.gen \in Nat \cup {None} /\ m.kd \in NativeDispatcher
        /\ UsesRegistered(m, KeyOfCall(u))
    BY <1>1, <1>2, <2>1 DEF SharedInv, IInv, LocalsInv, LocalOK, InItsTime, Locals
  <2>3. m.gen = generation' => m.kd = dispatchers'[KeyOfCall(u)]
    BY <1>1, <1>2, <2>2, MadeStays
  <2> QED  BY <1>2, <2>1, <2>3 DEF UsesRegistered, KeyOfCall
<1>3. CASE ReadGeneric(u) \/ Recheck(u)
  <2>1. call'[u].gen = None \/ pc'[u] # "publish"
    BY <1>1, <1>3 DEF ReadGeneric, Recheck, Goto, Locals
  <2>2. generation' = generation
    BY <1>3 DEF ReadGeneric, Recheck, registryVars
  <2> QED  BY <1>1, <2>1, <2>2 DEF UsesRegistered
<1>4. CASE FindDispatcher(u)
  <2>1. dispatchers[KeyOfCall(u)] # None \/ pc'[u] # "publish"
    BY <1>1, <1>4 DEF FindDispatcher, Goto, KeyOfCall
  <2>2. CASE dispatchers[KeyOfCall(u)] # None
    <3>1. call' = [call EXCEPT ![u].kd = dispatchers[KeyOfCall(u)], ![u].gen = generation]
          /\ dispatchers' = dispatchers
      BY <1>4, <2>2 DEF FindDispatcher, TouchDispatcher, KeyOfCall
    <3>2. call'[u].kd = dispatchers[KeyOfCall(u)] /\ call'[u].key = call[u].key
      BY <1>1, <3>1 DEF Locals
    <3> QED  BY <3>1, <3>2 DEF UsesRegistered, KeyOfCall
  <2> QED  BY <2>1, <2>2
<1>5. CASE RememberDispatcher(u)
  <2> DEFINE k == KeyOfCall(u)
  <2>1. k \in LcKeys /\ dispatchers \in [LcKeys -> NativeDispatcher \cup {None}]
    BY <1>1, <1>5 DEF RememberDispatcher, IInv, RegistryInv, RegistryTypeOK
  <2>2. CASE AdoptRegistered(u, k)
    <3>1. call'[u].kd = dispatchers[k] /\ call'[u].key = call[u].key /\ dispatchers' = dispatchers
      BY <1>1, <2>2 DEF AdoptRegistered, TouchDispatcher, Locals
    <3> QED  BY <3>1 DEF UsesRegistered, KeyOfCall
  <2>3. CASE dispatchers[k] = None /\ InsertDispatcher(k, call[u].kd) /\ call' = call
    <3>1. Len(dispatcherLru) < LaunchConfigCacheSize
      BY <2>1, <2>3, RoomForAll DEF IInv
    <3>2. dispatchers' = [dispatchers EXCEPT ![k] = call[u].kd]
      BY <2>3, <3>1 DEF InsertDispatcher
    <3>3. dispatchers'[k] = call'[u].kd /\ KeyOfCall(u)' = k
      BY <2>1, <2>3, <3>2 DEF KeyOfCall
    <3> QED  BY <3>3 DEF UsesRegistered
  <2> QED  BY <1>1, <1>5, <2>2, <2>3 DEF RememberDispatcher, Goto, KeyOfCall
<1>6. ASSUME NEW t \in Threads,
             Hit(t) \/ BuildRaises(t) \/ PublishLoses(t) \/ PublishInserts(t)
               \/ RaiseInvalidated(t)
      PROVE  pc[u] = "publish" /\ call'[u] = call[u]
  BY <1>1, <1>6 DEF Hit, BuildRaises, PublishLoses, PublishInserts, RaiseInvalidated,
                    Return, Goto
<1>7. ASSUME NEW t \in Threads,
             Call(t) \/ JoinInflight(t) \/ OwnInflight(t) \/ Wake(t)
               \/ ConstructDispatcher(t) \/ PublishStale(t)
      PROVE  pc[u] = "publish" /\ call'[u] = call[u]
  <2>1. CASE Call(t)
    <3>1. pc' = [pc EXCEPT ![t] = "lookup"] /\ \E v : call' = [call EXCEPT ![t] = v]
      BY <2>1 DEF Call, Goto
    <3> QED  BY <1>1, <3>1
  <2>2. CASE JoinInflight(t) \/ OwnInflight(t) \/ Wake(t)
    BY <1>1, <2>2 DEF JoinInflight, OwnInflight, Wake, Goto
  <2>3. CASE ConstructDispatcher(t) \/ PublishStale(t)
    BY <1>1, <2>3 DEF ConstructDispatcher, PublishStale, Goto
  <2> QED  BY <1>7, <2>1, <2>2, <2>3
<1>8. ASSUME NEW t \in Threads, t # u,
             ReadGeneric(t) \/ Recheck(t) \/ FindDispatcher(t) \/ RememberDispatcher(t)
      PROVE  pc[u] = "publish" /\ call'[u] = call[u]
  BY <1>1, <1>8 DEF ReadGeneric, Recheck, FindDispatcher, RememberDispatcher,
                    AdoptRegistered, Goto
<1>9. CASE Environment \/ UNCHANGED vars
  <2>1. pc' = pc /\ call' = call
    BY <1>9 DEF Environment, Recompile, RecordLiterals, CacheClear,
                MarkRequiresLaunchConfig, ChangeExtensions, vars
  <2> QED  BY <1>2, <2>1
<1> QED  BY <1>2, <1>3, <1>4, <1>5, <1>6, <1>7, <1>8, <1>9 DEF Next, Configure

(* What the cache remembers was there, or is what a thread published.      *)
LEMMA CacheUses ==
  ASSUME IInv, IInv', SharedInv, NoEvictions, [Next]_vars,
         NEW key \in CacheKeys, cache'[key] # None
  PROVE  (InItsTime(cache[key]) /\ UsesRegistered(cache[key], LcKeyOf[key.config]))'
<1> DEFINE k == LcKeyOf[key.config]
<1>1. /\ cache \in [CacheKeys -> Marshallers \cup {None}] /\ k \in LcKeys
      /\ generation \in Nat
  BY ConfigureAssumption DEF IInv, CacheInv, RegistryInv, RegistryTypeOK, CacheKeys
<1>2. ASSUME NEW m \in Marshallers, InItsTime(m), UsesRegistered(m, k), cache'[key] = m
      PROVE  (InItsTime(cache[key]) /\ UsesRegistered(cache[key], LcKeyOf[key.config]))'
  <2>1. m.gen \in Nat \cup {None} /\ m.kd \in NativeDispatcher
    BY DEF Marshallers
  <2> HIDE DEF k
  <2>2. (m.gen \in Nat => m.gen <= generation') /\ (m.gen = generation' => m.kd = dispatchers'[k])
    BY <1>1, <1>2, <2>1, MadeStays
  <2> QED  BY <1>2, <2>2 DEF InItsTime, UsesRegistered, k
<1>3. CASE cache'[key] = cache[key]
  <2>1. PICK m : m = cache[key]
    OBVIOUS
  <2>2. m \in Marshallers /\ InItsTime(m) /\ UsesRegistered(m, k)
    BY <1>1, <1>3, <2>1 DEF SharedInv
  <2> QED  BY <1>2, <1>3, <2>1, <2>2
<1>4. ASSUME NEW t \in Threads, PublishInserts(t)
      PROVE  \/ cache'[key] = cache[key]
             \/ /\ key = call[t].key
                /\ cache'[key] = [kd |-> call[t].kd, gen |-> call[t].gen, by |-> t]
  BY <1>1, <1>4 DEF PublishInserts
<1>5. ASSUME NEW t \in Threads, PublishInserts(t), key = call[t].key,
             cache'[key] = [kd |-> call[t].kd, gen |-> call[t].gen, by |-> t]
      PROVE  (InItsTime(cache[key]) /\ UsesRegistered(cache[key], LcKeyOf[key.config]))'
  <2>1. PICK m : m = [kd |-> call[t].kd, gen |-> call[t].gen, by |-> t]
    OBVIOUS
  <2>2. /\ pc[t] = "publish" /\ LocalOK("publish", call[t]) /\ call[t] \in Locals
    BY <1>5 DEF PublishInserts, IInv, LocalsInv
  <2>3. m \in Marshallers /\ InItsTime(m)
    BY <2>1, <2>2 DEF LocalOK, Locals, Marshallers, InItsTime
  <2>4. UsesRegistered(m, k)
    BY <1>5, <2>1, <2>2 DEF SharedInv, UsesRegistered, KeyOfCall
  <2> QED  BY <1>2, <1>5, <2>1, <2>3, <2>4
<1>6. CASE Recompile \/ RecordLiterals \/ CacheClear
  BY <1>6 DEF Recompile, RecordLiterals, CacheClear, ClearConfigureCache
<1>7. CASE UNCHANGED cache
  BY <1>3, <1>7
<1>8. ASSUME NEW t \in Threads,
             Call(t) \/ BuildRaises(t) \/ Hit(t) \/ JoinInflight(t) \/ OwnInflight(t)
               \/ Wake(t) \/ ReadGeneric(t) \/ Recheck(t) \/ FindDispatcher(t)
               \/ ConstructDispatcher(t) \/ RememberDispatcher(t) \/ PublishLoses(t)
               \/ PublishStale(t) \/ RaiseInvalidated(t)
      PROVE  UNCHANGED cache
  BY <1>8 DEF Call, BuildRaises, Hit, JoinInflight, OwnInflight, Wake, ReadGeneric, Recheck,
              FindDispatcher, ConstructDispatcher, RememberDispatcher, PublishLoses,
              PublishStale, RaiseInvalidated
<1>9. CASE MarkRequiresLaunchConfig \/ ChangeExtensions \/ UNCHANGED vars
  BY <1>7, <1>9 DEF MarkRequiresLaunchConfig, ChangeExtensions, vars
<1> QED  BY <1>3, <1>4, <1>5, <1>6, <1>7, <1>8, <1>9 DEF Next, Configure, Environment

(* What a thread returns with was in the cache or is in it now.            *)
LEMMA ResultUses ==
  ASSUME IInv, SharedInv, NoEvictions, [Next]_vars, NEW u \in Threads, result'[u] # None
  PROVE  (InItsTime(result[u]) /\ \E k \in LcKeys : UsesRegistered(result[u], k))'
<1>1. /\ result \in [Threads -> Marshallers \cup {None}]
      /\ cache \in [CacheKeys -> Marshallers \cup {None}]
      /\ \A t \in Threads : pc[t] # "idle" => call[t].key \in CacheKeys /\ KeyOfCall(t) \in LcKeys
  BY LcKeyOfCall DEF IInv, CacheInv, ResultsTypeOK, LocalsInv, LocalOK, KeyOfCall
<1>2. ASSUME NEW m \in Marshallers, NEW k \in LcKeys, InItsTime(m), UsesRegistered(m, k),
             result'[u] = m
      PROVE  (InItsTime(result[u]) /\ \E j \in LcKeys : UsesRegistered(result[u], j))'
  <2>1. m.gen \in Nat \cup {None} /\ m.kd \in NativeDispatcher
    BY DEF Marshallers
  <2>2. (m.gen \in Nat => m.gen <= generation') /\ (m.gen = generation' => m.kd = dispatchers'[k])
    BY <1>2, <2>1, MadeStays
  <2> QED  BY <1>2, <2>2 DEF InItsTime, UsesRegistered
<1>3. CASE result'[u] = result[u]
  <2>1. PICK m : m = result[u]
    OBVIOUS
  <2>2. m \in Marshallers /\ InItsTime(m) /\ \E k \in LcKeys : UsesRegistered(m, k)
    BY <1>1, <1>3, <2>1 DEF SharedInv
  <2> QED  BY <1>2, <1>3, <2>1, <2>2
<1>4. ASSUME NEW t \in Threads, NEW value, Return(t, value)
      PROVE  result'[u] = result[u] \/ result'[u] = value
  BY <1>1, <1>4 DEF Return
<1>5. ASSUME NEW t \in Threads, Hit(t) \/ PublishLoses(t), result'[u] # result[u]
      PROVE  (InItsTime(result[u]) /\ \E k \in LcKeys : UsesRegistered(result[u], k))'
  <2>1. /\ pc[t] # "idle" /\ cache[call[t].key] # None /\ Return(t, cache[call[t].key])
    BY <1>5 DEF Hit, PublishLoses
  <2>2. PICK m : m = cache[call[t].key]
    OBVIOUS
  <2>3. m \in Marshallers /\ InItsTime(m) /\ UsesRegistered(m, KeyOfCall(t))
    BY <1>1, <2>1, <2>2 DEF SharedInv, KeyOfCall
  <2> QED  BY <1>1, <1>2, <1>4, <1>5, <2>1, <2>2, <2>3
<1>6. ASSUME NEW t \in Threads, PublishInserts(t), result'[u] # result[u]
      PROVE  (InItsTime(result[u]) /\ \E k \in LcKeys : UsesRegistered(result[u], k))'
  <2>1. PICK m : m = [kd |-> call[t].kd, gen |-> call[t].gen, by |-> t]
    OBVIOUS
  <2>2. /\ pc[t] = "publish" /\ LocalOK("publish", call[t]) /\ call[t] \in Locals
        /\ Return(t, m)
    BY <1>6, <2>1 DEF PublishInserts, IInv, LocalsInv
  <2>3. m \in Marshallers /\ InItsTime(m)
    BY <2>1, <2>2 DEF LocalOK, Locals, Marshallers, InItsTime
  <2>4. UsesRegistered(m, KeyOfCall(t))
    BY <2>1, <2>2 DEF SharedInv, UsesRegistered
  <2> QED  BY <1>1, <1>2, <1>4, <1>6, <2>2, <2>3, <2>4
<1>7. ASSUME NEW t \in Threads, BuildRaises(t) \/ RaiseInvalidated(t)
      PROVE  result'[u] = result[u]
  BY <1>4, <1>7 DEF BuildRaises, RaiseInvalidated
<1>8. ASSUME NEW t \in Threads, Call(t)
      PROVE  result'[u] = result[u]
  BY <1>1, <1>8 DEF Call
<1>9. ASSUME NEW t \in Threads,
             JoinInflight(t) \/ OwnInflight(t) \/ Wake(t) \/ ReadGeneric(t) \/ Recheck(t)
               \/ FindDispatcher(t) \/ ConstructDispatcher(t) \/ RememberDispatcher(t)
               \/ PublishStale(t)
      PROVE  result' = result
  BY <1>9 DEF JoinInflight, OwnInflight, Wake, ReadGeneric, Recheck, FindDispatcher,
              ConstructDispatcher, RememberDispatcher, PublishStale
<1>10. CASE Environment \/ UNCHANGED vars
  <2>1. result' = result
    BY <1>10 DEF Environment, Recompile, RecordLiterals, CacheClear,
                 MarkRequiresLaunchConfig, ChangeExtensions, vars
  <2> QED  BY <1>3, <2>1
<1> QED  BY <1>3, <1>5, <1>6, <1>7, <1>8, <1>9, <1>10 DEF Next, Configure

LEMMA SharedInvariant == ASSUME NoEvictions PROVE Spec => []SharedInv
<1>1. Init => SharedInv
  BY DEF Init, SharedInv
<1>2. IInv /\ IInv' /\ SharedInv /\ [Next]_vars => SharedInv'
  BY PublishUses, CacheUses, ResultUses DEF SharedInv
<1> QED  BY <1>1, <1>2, Invariant, PTL DEF Spec

(* While every launch key has room in the registry (NoEvictions), what     *)
(* configure() remembers or has handed out for a launch key in the current *)
(* generation uses the dispatcher registered for it, and none that lost    *)
(* the insertion race.                                                     *)
THEOREM DispatchersAreShared == ASSUME NoEvictions PROVE Spec => []OneDispatcherPerKey
<1>1. IInv /\ SharedInv => OneDispatcherPerKey
  <2> SUFFICES ASSUME IInv, SharedInv PROVE OneDispatcherPerKey
    OBVIOUS
  <2>1. ASSUME NEW key \in CacheKeys, cache[key] # None, key.enabled
        PROVE  cache[key].kd = dispatchers[LcKeyOf[key.config]]
    BY <2>1 DEF IInv, CacheInv, CacheFresh, Stale, SharedInv, UsesRegistered
  <2>2. ASSUME NEW t \in Threads, result[t] # None, result[t].gen = generation
        PROVE  \E k \in Registered : result[t].kd = dispatchers[k]
    <3>1. result[t].kd \in NativeDispatcher
      BY <2>2 DEF IInv, ResultsTypeOK, Marshallers
    <3>2. PICK k \in LcKeys : result[t].kd = dispatchers[k]
      BY <2>2 DEF SharedInv, UsesRegistered
    <3> QED  BY <3>1, <3>2, NoneAssumption DEF Registered
  <2> QED  BY <2>1, <2>2 DEF OneDispatcherPerKey
<1> QED  BY <1>1, Invariant, SharedInvariant, PTL

-----------------------------------------------------------------------------
(* Retries                                                                 *)

(* What a thread at label can say of its retries: each was earned by an    *)
(* invalidation since the call began, and what it has read since the last  *)
(* one is stale only if there was another.                                 *)
RetryOK(label, v) ==
    /\ label # "idle" =>
         /\ v.since + v.retries <= generation
         /\ v.key.enabled => LaunchConfigEnabled
    /\ label \in {"recheck", "find", "construct", "insert"} => v.key.enabled
    /\ label \in {"construct", "insert"} \/ (label = "publish" /\ v.key.enabled) =>
         v.gen \in Nat /\ v.since + v.retries <= v.gen
    /\ label = "publish" /\ ~ v.key.enabled /\ v.kd # c => v.since + v.retries < generation
    /\ label = "invalidated" => StaleRetryLimit <= v.retries

RetryInv == \A t \in Threads : RetryOK(pc[t], call[t])

(* A step of one thread.                                                   *)
LEMMA RetryMove ==
  ASSUME RetryInv, NEW t \in Threads,
         UNCHANGED << generation, c, requires, optIn >>,
         \A u \in Threads : u # t => pc'[u] = pc[u] /\ call'[u] = call[u],
         RetryOK(pc'[t], call'[t])
  PROVE  RetryInv'
<1>1. ASSUME NEW u \in Threads
      PROVE  RetryOK(pc[u], call[u])'
  <2>1. RetryOK(pc'[u], call'[u])
    BY DEF RetryInv
  <2> QED  BY <2>1 DEF RetryOK, LaunchConfigEnabled
<1> QED  BY <1>1 DEF RetryInv

(* The same, with the assignments of the step.                             *)
LEMMA RetryStep ==
  ASSUME RetryInv, LocalsInv, NEW t \in Threads, NEW label, NEW v,
         pc' = [pc EXCEPT ![t] = label], call' = [call EXCEPT ![t] = v],
         UNCHANGED << generation, c, requires, optIn >>,
         RetryOK(label, v)
  PROVE  RetryInv'
<1>1. pc \in [Threads -> Labels] /\ call \in [Threads -> Locals]
  BY DEF LocalsInv
<1>2. /\ pc'[t] = label /\ call'[t] = v
      /\ \A u \in Threads : u # t => pc'[u] = pc[u] /\ call'[u] = call[u]
  BY <1>1
<1> QED  BY <1>2, RetryMove

(* A step of no thread: generations only grow, and while the list of       *)
(* extensions is left alone launch configurations stay enabled.            *)
LEMMA RetryEnvironment ==
  ASSUME RetryInv, IInv, UNCHANGED << pc, call >>,
         \/ UNCHANGED << generation, c >>
         \/ generation' = generation + 1,
         LaunchConfigEnabled => LaunchConfigEnabled'
  PROVE  RetryInv'
<1>1. generation \in Nat
  BY DEF IInv, RegistryInv, RegistryTypeOK
<1>2. ASSUME NEW t \in Threads
      PROVE  RetryOK(pc[t], call[t])'
  <2>1. /\ call[t].since \in Nat /\ call[t].retries \in Nat
        /\ call[t].gen \in Nat \cup {None}
        /\ RetryOK(pc[t], call[t])
    BY DEF IInv, LocalsInv, Locals, RetryInv
  <2>2. CASE UNCHANGED << generation, c >>
    BY <2>1, <2>2 DEF RetryOK
  <2>3. CASE generation' = generation + 1
    BY <1>1, <2>1, <2>3 DEF RetryOK
  <2> QED  BY <2>2, <2>3
<1> QED  BY <1>2 DEF RetryInv

(* No call has begun.                                                      *)
LEMMA RetryInit == Init => RetryInv
BY DEF Init, RetryInv, RetryOK

(* Every step keeps it, if the list of extensions is not changed.          *)
LEMMA RetryPreserved ==
  ASSUME ~ OptInMayChange, IInv, RetryInv, [Next]_vars
  PROVE  RetryInv'
<1>1. /\ LocalsInv /\ generation \in Nat
      /\ pc \in [Threads -> Labels] /\ call \in [Threads -> Locals]
  BY DEF IInv, LocalsInv, RegistryInv, RegistryTypeOK
<1>2. ASSUME NEW t \in Threads
      PROVE  /\ call[t] \in Locals /\ call[t].since \in Nat /\ call[t].retries \in Nat
             /\ RetryOK(pc[t], call[t]) /\ LocalOK(pc[t], call[t])
  BY <1>1 DEF LocalsInv, Locals, RetryInv
<1>3. ASSUME NEW t \in Threads,
             Hit(t) \/ BuildRaises(t) \/ PublishLoses(t) \/ PublishInserts(t)
               \/ RaiseInvalidated(t)
      PROVE  RetryInv'
  <2>1. /\ pc' = [pc EXCEPT ![t] = "idle"] /\ call' = [call EXCEPT ![t] = NoLocals]
        /\ UNCHANGED << generation, c, requires, optIn >>
    BY <1>3 DEF Hit, BuildRaises, PublishLoses, PublishInserts, RaiseInvalidated, Return,
                Goto, registryVars
  <2>2. RetryOK("idle", NoLocals)
    BY DEF RetryOK
  <2> QED  BY <1>1, <2>1, <2>2, RetryStep
<1>4. ASSUME NEW t \in Threads, Call(t)
      PROVE  RetryInv'
  <2>1. PICK cfg \in Configs :
          call' = [call EXCEPT ![t] =
                     [NoLocals EXCEPT !.key = [enabled |-> LaunchConfigEnabled, config |-> cfg],
                                      !.since = generation]]
    BY <1>4 DEF Call
  <2> DEFINE v == [NoLocals EXCEPT !.key = [enabled |-> LaunchConfigEnabled, config |-> cfg],
                                   !.since = generation]
  <2>2. v.key.enabled = LaunchConfigEnabled /\ v.since = generation /\ v.retries = 0
    BY DEF NoLocals
  <2>3. /\ pc' = [pc EXCEPT ![t] = "lookup"] /\ call' = [call EXCEPT ![t] = v]
        /\ UNCHANGED << generation, c, requires, optIn >>
    BY <1>4, <2>1 DEF Call, Goto, registryVars
  <2> HIDE DEF v
  <2>4. RetryOK("lookup", v)
    BY <1>1, <2>2 DEF RetryOK
  <2> QED  BY <1>1, <2>3, <2>4, RetryStep
<1>5. ASSUME NEW t \in Threads, JoinInflight(t) \/ OwnInflight(t) \/ Wake(t)
      PROVE  RetryInv'
  <2>1. PICK e : call' = [call EXCEPT ![t].event = e]
    BY <1>5 DEF JoinInflight, OwnInflight, Wake
  <2>2. PICK label \in {"wait", "readGeneric", "lookup"} : pc' = [pc EXCEPT ![t] = label]
    BY <1>5 DEF JoinInflight, OwnInflight, Wake, Goto
  <2>3. /\ pc[t] # "idle"
        /\ UNCHANGED << generation, c, requires, optIn >>
    BY <1>5 DEF JoinInflight, OwnInflight, Wake, registryVars
  <2> DEFINE v == [call[t] EXCEPT !.event = e]
  <2>4. v.key = call[t].key /\ v.since = call[t].since /\ v.retries = call[t].retries
    BY <1>2 DEF Locals
  <2>5. call' = [call EXCEPT ![t] = v]
    BY <2>1
  <2> HIDE DEF v
  <2>6. RetryOK(label, v)
    BY <1>2, <2>2, <2>3, <2>4 DEF RetryOK
  <2> QED  BY <1>1, <2>2, <2>3, <2>5, <2>6, RetryStep
<1>6. ASSUME NEW t \in Threads, ReadGeneric(t)
      PROVE  RetryInv'
  <2> DEFINE v == [call[t] EXCEPT !.kd = c, !.gen = None]
             label == IF call[t].key.enabled THEN "recheck" ELSE "publish"
  <2>1. /\ pc' = [pc EXCEPT ![t] = label] /\ call' = [call EXCEPT ![t] = v]
        /\ UNCHANGED << generation, c, requires, optIn >> /\ pc[t] = "readGeneric"
    BY <1>6 DEF ReadGeneric, Goto, registryVars
  <2>2. /\ v.key = call[t].key /\ v.since = call[t].since /\ v.retries = call[t].retries
        /\ v.kd = c
    BY <1>2 DEF Locals
  <2> HIDE DEF v
  <2>3. RetryOK(label, v)
    BY <1>2, <2>1, <2>2 DEF RetryOK
  <2> QED  BY <1>1, <2>1, <2>3, RetryStep
<1>7. ASSUME NEW t \in Threads, Recheck(t)
      PROVE  RetryInv'
  <2>1. pc[t] = "recheck" /\ call[t].key.enabled /\ LaunchConfigEnabled
    BY <1>2, <1>7 DEF Recheck, RetryOK
  <2>2. /\ pc' = [pc EXCEPT ![t] = "find"] /\ call' = [call EXCEPT ![t] = call[t]]
        /\ UNCHANGED << generation, c, requires, optIn >>
    BY <1>1, <1>7, <2>1 DEF Recheck, Goto, registryVars
  <2>3. RetryOK("find", call[t])
    BY <1>2, <2>1 DEF RetryOK
  <2> QED  BY <1>1, <2>2, <2>3, RetryStep
<1>8. ASSUME NEW t \in Threads, FindDispatcher(t)
      PROVE  RetryInv'
  <2> DEFINE k == LcKeyOf[call[t].key.config]
  <2>1. /\ pc[t] = "find"
        /\ UNCHANGED << generation, c, requires, optIn >>
    BY <1>8 DEF FindDispatcher, TouchDispatcher, registryVars
  <2>2. /\ pc'[t] \in {"publish", "construct"} /\ call'[t].gen = generation
        /\ call'[t].key = call[t].key /\ call'[t].since = call[t].since
        /\ call'[t].retries = call[t].retries
        /\ \A u \in Threads : u # t => pc'[u] = pc[u] /\ call'[u] = call[u]
    <3>1. CASE dispatchers[k] # None
      BY <1>1, <1>2, <1>8, <3>1 DEF FindDispatcher, Goto, Locals
    <3>2. CASE dispatchers[k] = None
      BY <1>1, <1>2, <1>8, <3>2 DEF FindDispatcher, Goto, Locals
    <3> QED  BY <3>1, <3>2
  <2>3. RetryOK(pc'[t], call'[t])
    BY <1>1, <1>2, <2>1, <2>2 DEF RetryOK
  <2> QED  BY <2>1, <2>2, <2>3, RetryMove
<1>9. ASSUME NEW t \in Threads, ConstructDispatcher(t)
      PROVE  RetryInv'
  <2> DEFINE d == NewKernelDispatcher(call[t].gen, literals)
             v == [call[t] EXCEPT !.kd = d]
  <2>1. /\ pc' = [pc EXCEPT ![t] = "insert"] /\ call' = [call EXCEPT ![t] = v]
        /\ UNCHANGED << generation, c, requires, optIn >> /\ pc[t] = "construct"
    BY <1>9 DEF ConstructDispatcher, Goto
  <2>2. /\ v.key = call[t].key /\ v.since = call[t].since /\ v.retries = call[t].retries
        /\ v.gen = call[t].gen
    BY <1>2 DEF Locals
  <2> HIDE DEF v
  <2>3. RetryOK("insert", v)
    BY <1>2, <2>1, <2>2 DEF RetryOK
  <2> QED  BY <1>1, <2>1, <2>3, RetryStep
<1>10. ASSUME NEW t \in Threads, RememberDispatcher(t)
       PROVE  RetryInv'
  <2>1. /\ pc[t] = "insert"
        /\ UNCHANGED << generation, c, requires, optIn >>
    BY <1>10 DEF RememberDispatcher, AdoptRegistered, TouchDispatcher, InsertDispatcher, registryVars
  <2>2. /\ pc'[t] \in {"publish", "find"} /\ call'[t].gen = call[t].gen
        /\ call'[t].key = call[t].key /\ call'[t].since = call[t].since
        /\ call'[t].retries = call[t].retries
        /\ \A u \in Threads : u # t => pc'[u] = pc[u] /\ call'[u] = call[u]
    BY <1>1, <1>2, <1>10 DEF RememberDispatcher, AdoptRegistered, Goto, Locals
  <2>3. RetryOK(pc'[t], call'[t])
    BY <1>2, <2>1, <2>2 DEF RetryOK
  <2> QED  BY <2>1, <2>2, <2>3, RetryMove
<1>11. ASSUME NEW t \in Threads, PublishStale(t)
       PROVE  RetryInv'
  <2> DEFINE n == call[t].retries + 1
  <2>1. /\ pc[t] = "publish" /\ Stale(call[t].key, call[t].kd, call[t].gen)
        /\ UNCHANGED << generation, c, requires, optIn >>
        /\ pc' = [pc EXCEPT ![t] = IF GivesUp(n) THEN "invalidated" ELSE "lookup"]
        /\ call' = [call EXCEPT ![t] =
                      IF GivesUp(n) THEN [@ EXCEPT !.event = None, !.retries = n]
                      ELSE [@ EXCEPT !.event = None, !.kd = None, !.gen = None, !.retries = n]]
    BY <1>11 DEF PublishStale, Goto, registryVars
  <2>2. call[t].since + n <= generation
    <3>1. CASE call[t].key.enabled
      BY <1>1, <1>2, <2>1, <3>1 DEF RetryOK, LocalOK, Stale
    <3>2. CASE ~ call[t].key.enabled
      BY <1>1, <1>2, <2>1, <3>2 DEF RetryOK, Stale
    <3> QED  BY <3>1, <3>2
  <2>3. call[t].key.enabled => LaunchConfigEnabled
    BY <1>2, <2>1 DEF RetryOK
  <2>4. CASE GivesUp(n)
    <3> DEFINE v == [call[t] EXCEPT !.event = None, !.retries = n]
    <3>1. v.key = call[t].key /\ v.since = call[t].since /\ v.retries = n
      BY <1>2 DEF Locals
    <3>2. pc' = [pc EXCEPT ![t] = "invalidated"] /\ call' = [call EXCEPT ![t] = v]
      BY <2>1, <2>4
    <3> HIDE DEF v
    <3>3. RetryOK("invalidated", v)
      BY <1>2, <2>2, <2>3, <2>4, <3>1, ConfigureAssumption DEF RetryOK, GivesUp
    <3> QED  BY <1>1, <2>1, <3>2, <3>3, RetryStep
  <2>5. CASE ~ GivesUp(n)
    <3> DEFINE v == [call[t] EXCEPT !.event = None, !.kd = None, !.gen = None, !.retries = n]
    <3>1. v.key = call[t].key /\ v.since = call[t].since /\ v.retries = n
      BY <1>2 DEF Locals
    <3>2. pc' = [pc EXCEPT ![t] = "lookup"] /\ call' = [call EXCEPT ![t] = v]
      BY <2>1, <2>5
    <3> HIDE DEF v
    <3>3. RetryOK("lookup", v)
      BY <2>2, <2>3, <3>1 DEF RetryOK
    <3> QED  BY <1>1, <2>1, <3>2, <3>3, RetryStep
  <2> QED  BY <2>4, <2>5
<1>12. CASE Environment
  <2>1. /\ UNCHANGED << pc, call >>
        /\ LaunchConfigEnabled => LaunchConfigEnabled'
        /\ UNCHANGED << generation, c >> \/ generation' = generation + 1
    <3>1. CASE Recompile \/ RecordLiterals
      <4>1. /\ UNCHANGED << requires, pc, call >>
            /\ \E lits : AdvanceGeneration(lits)
        BY <3>1 DEF Recompile, RecordLiterals
      <4> QED  BY <4>1 DEF AdvanceGeneration, LaunchConfigEnabled
    <3>2. CASE CacheClear
      BY <3>2 DEF CacheClear, LaunchConfigEnabled, registryVars
    <3>3. CASE MarkRequiresLaunchConfig
      BY <3>3 DEF MarkRequiresLaunchConfig, LaunchConfigEnabled
    <3>4. ~ ChangeExtensions
      BY DEF ChangeExtensions
    <3> QED  BY <1>12, <3>1, <3>2, <3>3, <3>4 DEF Environment
  <2> QED  BY <2>1, RetryEnvironment
<1>13. CASE UNCHANGED vars
  BY <1>13, RetryEnvironment DEF vars, registryVars, LaunchConfigEnabled
<1> QED  BY <1>3, <1>4, <1>5, <1>6, <1>7, <1>8, <1>9, <1>10, <1>11, <1>12, <1>13
            DEF Next, Configure

(* configure() gives up only after as many invalidations as it retried,    *)
(* when the extensions are not changed meanwhile (a changed list makes a   *)
(* marshaller look stale without an invalidation).                         *)
THEOREM GivingUpIsEarned ==
  ASSUME ~ OptInMayChange
  PROVE  Spec => []InvalidatedIsEarned
<1>1. IInv /\ RetryInv /\ [Next]_vars => RetryInv'
  BY RetryPreserved
<1>2. IInv /\ RetryInv => InvalidatedIsEarned
  <2> SUFFICES ASSUME IInv, RetryInv, NEW t \in Threads, pc[t] = "invalidated"
               PROVE  generation - call[t].since >= StaleRetryLimit
    BY DEF InvalidatedIsEarned
  <2>1. /\ call[t].since \in Nat /\ call[t].retries \in Nat /\ generation \in Nat
        /\ RetryOK("invalidated", call[t])
    BY DEF IInv, LocalsInv, Locals, RegistryInv, RegistryTypeOK, RetryInv
  <2> QED  BY <2>1, ConfigureAssumption DEF RetryOK
<1> QED  BY <1>1, <1>2, RetryInit, Invariant, PTL DEF Spec

-----------------------------------------------------------------------------
(* configure() implements the memo table of MemoisedConfigure: each of its *)
(* steps is a step of the table or changes nothing the callers can see.    *)

memo  == [key \in CacheKeys |-> Seen(cache[key])]
wants == [t \in Threads |-> call[t].key]
told  == [t \in Threads |-> Seen(result[t])]

(* Between its return and its next call, and only then, a thread wants     *)
(* nothing; while it is in a call it has not been told anything.           *)
CallMaps == \A t \in Threads :
    /\ pc[t] = "idle" => call[t].key = None
    /\ pc[t] # "idle" => result[t] = None

(* What callers see of a marshaller is something.                          *)
LEMMA SeenType ==
  ASSUME NEW m \in Marshallers, m.kd.gen \in Nat
  PROVE  Seen(m) = [gen |-> m.kd.gen, by |-> m.by] /\ Seen(m) # None
BY ConfigureNoneAssumption DEF Seen, Marshallers

(* A remembered marshaller is remembered in the table.                     *)
LEMMA MemoRemembers ==
  ASSUME IInv, NEW key \in CacheKeys
  PROVE  /\ cache[key] = None => memo[key] = None
         /\ cache[key] # None => memo[key] = Seen(cache[key]) /\ memo[key] # None
<1>1. CASE cache[key] # None
  <2>1. cache[key] \in Marshallers /\ cache[key].kd.gen \in Nat
    BY <1>1 DEF IInv, CacheInv, Marshallers, NativeDispatcher
  <2> QED  BY <1>1, <2>1, SeenType DEF memo
<1>2. CASE cache[key] = None
  BY <1>2 DEF memo, Seen
<1> QED  BY <1>1, <1>2

-----------------------------------------------------------------------------
(* Which threads are in a call                                             *)

(* Before the first call.                                                  *)
LEMMA CallInit == Init => CallMaps
<1>1. NoLocals.key = None
  BY DEF NoLocals
<1> QED  BY <1>1 DEF Init, CallMaps

(* A thread's key changes when it calls and when it returns.               *)
LEMMA CallPreserved == IInv /\ CallMaps /\ [Next]_vars => CallMaps'
<1> SUFFICES ASSUME IInv, CallMaps, [Next]_vars PROVE CallMaps'
  OBVIOUS
<1>1. /\ pc \in [Threads -> Labels] /\ call \in [Threads -> Locals]
      /\ result \in [Threads -> Marshallers \cup {None}]
      /\ \A t \in Threads : call[t] \in Locals
  BY DEF IInv, LocalsInv, ResultsTypeOK
<1>2. ASSUME NEW t \in Threads, NEW value, Return(t, value)
      PROVE  CallMaps'
  BY <1>1, <1>2 DEF CallMaps, Return, Goto, NoLocals
<1>3. ASSUME NEW t \in Threads,
             Hit(t) \/ BuildRaises(t) \/ PublishLoses(t) \/ PublishInserts(t)
               \/ RaiseInvalidated(t)
      PROVE  CallMaps'
  BY <1>2, <1>3 DEF Hit, BuildRaises, PublishLoses, PublishInserts, RaiseInvalidated
<1>4. ASSUME NEW t \in Threads, Call(t)
      PROVE  CallMaps'
  BY <1>1, <1>4 DEF Call, Goto, CallMaps
<1>5. ASSUME NEW t \in Threads, pc[t] # "idle", pc'[t] # "idle",
             \A u \in Threads : u # t => pc'[u] = pc[u] /\ call'[u] = call[u],
             result' = result
      PROVE  CallMaps'
  BY <1>5 DEF CallMaps
<1>6. ASSUME NEW t \in Threads,
             JoinInflight(t) \/ OwnInflight(t) \/ Wake(t) \/ ReadGeneric(t) \/ Recheck(t)
      PROVE  CallMaps'
  <2>1. /\ pc[t] # "idle" /\ pc'[t] # "idle" /\ result' = result
        /\ \A u \in Threads : u # t => pc'[u] = pc[u] /\ call'[u] = call[u]
    BY <1>1, <1>6 DEF JoinInflight, OwnInflight, Wake, ReadGeneric, Recheck, Goto
  <2> QED  BY <1>5, <2>1
<1>7. ASSUME NEW t \in Threads,
             FindDispatcher(t) \/ ConstructDispatcher(t) \/ RememberDispatcher(t)
               \/ PublishStale(t)
      PROVE  CallMaps'
  <2>1. /\ pc[t] # "idle" /\ pc'[t] # "idle" /\ result' = result
        /\ \A u \in Threads : u # t => pc'[u] = pc[u] /\ call'[u] = call[u]
    BY <1>1, <1>7 DEF FindDispatcher, ConstructDispatcher, RememberDispatcher,
                      AdoptRegistered, PublishStale, Goto
  <2> QED  BY <1>5, <2>1
<1>8. CASE Environment \/ UNCHANGED vars
  BY <1>8 DEF CallMaps, Environment, Recompile, RecordLiterals, CacheClear,
              MarkRequiresLaunchConfig, ChangeExtensions, vars
<1> QED  BY <1>3, <1>4, <1>6, <1>7, <1>8 DEF Next, Configure

-----------------------------------------------------------------------------
(* Steps                                                                   *)

(* A call asks.                                                            *)
LEMMA CallAsks ==
  ASSUME IInv, CallMaps, NEW t \in Threads, Call(t)
  PROVE  Memo!Ask(t)
<1>1. PICK cfg \in Configs :
        call' = [call EXCEPT ![t] =
                   [NoLocals EXCEPT !.key = [enabled |-> LaunchConfigEnabled, config |-> cfg],
                                    !.since = generation]]
  BY DEF Call
<1> DEFINE key == [enabled |-> LaunchConfigEnabled, config |-> cfg]
<1>2. key \in CacheKeys
  BY DEF IInv, RegistryInv, RegistryTypeOK, CacheKeys, LaunchConfigEnabled
<1>3. /\ call \in [Threads -> Locals] /\ call'[t].key = key
      /\ \A u \in Threads : u # t => call'[u] = call[u]
  BY <1>1 DEF IInv, LocalsInv, NoLocals
<1>4. wants[t] = None /\ wants' = [wants EXCEPT ![t] = key]
  BY <1>3 DEF wants, Call, CallMaps
<1>5. told' = [told EXCEPT ![t] = None]
  BY DEF Call, told, Seen, IInv, ResultsTypeOK
<1>6. UNCHANGED << generation, memo >>
  BY DEF Call, memo, registryVars
<1> QED  BY <1>2, <1>4, <1>5, <1>6 DEF Memo!Ask, memo, wants, told

(* A thread that returns wants nothing any more and is told the value.     *)
LEMMA ReturnAnswers ==
  ASSUME IInv, NEW t \in Threads, NEW value, Return(t, value)
  PROVE  /\ wants' = [wants EXCEPT ![t] = None]
         /\ told' = [told EXCEPT ![t] = Seen(value)]
BY DEF Return, IInv, LocalsInv, ResultsTypeOK, wants, told, NoLocals

(* A thread in a call wants its key and has not been told anything.        *)
LEMMA InCall ==
  ASSUME IInv, CallMaps, NEW t \in Threads, pc[t] # "idle"
  PROVE  /\ call[t].key \in CacheKeys /\ wants[t] = call[t].key /\ wants[t] # None
         /\ told[t] = None
BY ConfigureNoneAssumption
   DEF IInv, LocalsInv, LocalOK, CallMaps, wants, told, Seen

(* A hit, at the first or at the second look, answers from the table.      *)
LEMMA HitAnswers ==
  ASSUME IInv, CallMaps, NEW t \in Threads, Hit(t) \/ PublishLoses(t)
  PROVE  Memo!AnswerRemembered(t)
<1> DEFINE key == call[t].key
<1>1. /\ pc[t] # "idle" /\ cache[key] # None /\ Return(t, cache[key])
      /\ UNCHANGED << generation, cache >>
  BY DEF Hit, PublishLoses, registryVars
<1>2. key \in CacheKeys /\ wants[t] = key /\ wants[t] # None
  BY <1>1, InCall
<1>3. memo[wants[t]] = Seen(cache[key]) /\ memo[wants[t]] # None
  BY <1>1, <1>2, MemoRemembers
<1>4. /\ wants' = [wants EXCEPT ![t] = None]
      /\ told' = [told EXCEPT ![t] = memo[wants[t]]]
  BY <1>1, <1>3, ReturnAnswers
<1>5. UNCHANGED << generation, memo >>
  BY <1>1 DEF memo
<1> QED  BY <1>2, <1>3, <1>4, <1>5 DEF Memo!AnswerRemembered, memo, wants, told

(* A publication answers with a new entry of the current generation; the   *)
(* eviction it may cause forgets another.                                  *)
LEMMA PublishAnswers ==
  ASSUME IInv, IInv', CallMaps, NEW t \in Threads, PublishInserts(t)
  PROVE  Memo!AnswerNew(t)
<1> DEFINE key == call[t].key
           m   == [kd |-> call[t].kd, gen |-> call[t].gen, by |-> t]
<1>1. /\ pc[t] = "publish" /\ cache[key] = None /\ Return(t, m)
      /\ generation' = generation
      /\ \/ cache' = [cache EXCEPT ![key] = m]
         \/ cache' = [cache EXCEPT ![key] = m, ![Head(cacheLru)] = None]
  BY DEF PublishInserts, registryVars
<1>2. key \in CacheKeys /\ wants[t] = key /\ wants[t] # None
  BY <1>1, InCall
<1>3. m \in Marshallers
  BY <1>1 DEF IInv, LocalsInv, LocalOK, Locals, Marshallers
<1>4. cache \in [CacheKeys -> Marshallers \cup {None}] /\ CacheFresh'
  BY DEF IInv, CacheInv
<1>5. Head(cacheLru) # key \/ cache' = [cache EXCEPT ![key] = m]
  <2>1. CASE Len(cacheLru) < ConfigureCacheSize
    BY <2>1 DEF PublishInserts
  <2>2. CASE ~ (Len(cacheLru) < ConfigureCacheSize)
    <3>1. Lists(cacheLru, Remembered) /\ Len(cacheLru) > 0
      BY <2>2, LenProperties, ConfigureAssumption DEF IInv, CacheInv, Lists
    <3>2. Head(cacheLru) \in Remembered
      BY <3>1, ListsTail
    <3> QED  BY <1>1, <3>2 DEF Remembered
  <2> QED  BY <2>1, <2>2
<1> HIDE DEF key, m
<1>6. cache'[key] = m
  BY <1>1, <1>2, <1>4, <1>5
<1>7. \A k \in CacheKeys \ {key} : cache'[k] = cache[k] \/ cache'[k] = None
  BY <1>1, <1>2, <1>4
<1>8. m.kd.gen = generation /\ generation \in Nat
  BY <1>1, <1>2, <1>3, <1>4, <1>6, ConfigureNoneAssumption
     DEF CacheFresh, IInv, RegistryInv, RegistryTypeOK
<1>9. Seen(m) = [gen |-> generation, by |-> t]
  BY <1>3, <1>8, SeenType DEF m
<1>10. memo' = [k \in CacheKeys |-> Seen(cache'[k])]
  BY DEF memo, Seen
<1>11. /\ memo' = [k \in CacheKeys |-> memo'[k]]
       /\ memo'[wants[t]] \in Memo!Built(generation)
       /\ \A k \in CacheKeys \ {wants[t]} : memo'[k] \in {memo[k], None}
       /\ memo[wants[t]] = None
  <2>1. memo' = [k \in CacheKeys |-> memo'[k]] /\ memo'[key] = Seen(m)
    BY <1>2, <1>6, <1>10
  <2>2. \A k \in CacheKeys \ {key} : memo'[k] \in {memo[k], None}
    BY <1>7, <1>10 DEF memo, Seen
  <2>3. Seen(m) \in Memo!Built(generation)
    BY <1>9 DEF Memo!Built
  <2>4. memo[key] = None
    BY <1>1, <1>2, MemoRemembers DEF key
  <2> QED  BY <1>2, <2>1, <2>2, <2>3, <2>4
<1>12. /\ wants' = [wants EXCEPT ![t] = None]
       /\ told' = [told EXCEPT ![t] = memo'[wants[t]]]
  <2>1. memo'[wants[t]] = Seen(m)
    BY <1>2, <1>6, <1>10
  <2> QED  BY <1>1, <2>1, ReturnAnswers
<1> QED  BY <1>1, <1>2, <1>11, <1>12 DEF Memo!AnswerNew, memo, wants, told

(* An error is a failed call.                                              *)
LEMMA ErrorFails ==
  ASSUME IInv, CallMaps, NEW t \in Threads, BuildRaises(t) \/ RaiseInvalidated(t)
  PROVE  Memo!Fail(t)
<1>1. /\ pc[t] # "idle" /\ Return(t, None)
      /\ UNCHANGED << generation, cache >>
  BY DEF BuildRaises, RaiseInvalidated, registryVars, Building
<1>2. wants[t] # None /\ told[t] = None
  BY <1>1, InCall
<1>3. wants' = [wants EXCEPT ![t] = None] /\ told' = [told EXCEPT ![t] = None]
  BY <1>1, ReturnAnswers DEF Seen
<1>4. told' = told
  BY <1>2, <1>3 DEF told
<1>5. UNCHANGED << generation, memo >>
  BY <1>1 DEF memo
<1> QED  BY <1>2, <1>3, <1>4, <1>5 DEF Memo!Fail, memo, wants, told

(* An invalidation, and cache_clear(), forget everything.                  *)
LEMMA ClearForgets ==
  ASSUME IInv, Recompile \/ RecordLiterals \/ CacheClear
  PROVE  Memo!Forget
<1>1. ClearConfigureCache /\ UNCHANGED << call, result >>
  BY DEF Recompile, RecordLiterals, CacheClear
<1>2. generation' \in {generation, generation + 1}
  <2>1. CASE CacheClear
    BY <2>1 DEF CacheClear, registryVars
  <2>2. CASE Recompile \/ RecordLiterals
    <3>1. \E lits : AdvanceGeneration(lits)
      BY <2>2 DEF Recompile, RecordLiterals
    <3> QED  BY <3>1 DEF AdvanceGeneration
  <2> QED  BY <2>1, <2>2
<1>3. memo' = [k \in CacheKeys |-> None]
  BY <1>1 DEF ClearConfigureCache, memo, Seen
<1>4. UNCHANGED << wants, told >>
  BY <1>1 DEF wants, told, Seen
<1> QED  BY <1>2, <1>3, <1>4 DEF Memo!Forget, memo, wants, told

(* The callers see nothing of the rest.                                    *)
LEMMA Invisible ==
  ASSUME IInv, UNCHANGED << generation, cache, result >>,
         \A t \in Threads : call'[t].key = call[t].key
  PROVE  UNCHANGED Memo!vars
<1>1. UNCHANGED << memo, wants, told >>
  BY DEF memo, wants, told, Seen
<1> QED  BY <1>1 DEF Memo!vars, memo, wants, told

(* Every step maps to a step of the memo table or to a stutter.            *)
LEMMA StepMaps ==
  ASSUME IInv, IInv', CallMaps, [Next]_vars
  PROVE  [Memo!Next]_Memo!vars
<1>1. call \in [Threads -> Locals] /\ \A t \in Threads : call[t] \in Locals
  BY DEF IInv, LocalsInv
<1>2. ASSUME NEW t \in Threads, Call(t)
      PROVE  Memo!Next
  BY <1>2, CallAsks DEF Memo!Next
<1>3. ASSUME NEW t \in Threads, Hit(t) \/ PublishLoses(t)
      PROVE  Memo!Next
  BY <1>3, HitAnswers DEF Memo!Next
<1>4. ASSUME NEW t \in Threads, PublishInserts(t)
      PROVE  Memo!Next
  BY <1>4, PublishAnswers DEF Memo!Next
<1>5. ASSUME NEW t \in Threads, BuildRaises(t) \/ RaiseInvalidated(t)
      PROVE  Memo!Next
  BY <1>5, ErrorFails DEF Memo!Next
<1>6. CASE Recompile \/ RecordLiterals \/ CacheClear
  BY <1>6, ClearForgets DEF Memo!Next
<1>7. ASSUME NEW t \in Threads,
             JoinInflight(t) \/ OwnInflight(t) \/ Wake(t) \/ ReadGeneric(t) \/ Recheck(t)
      PROVE  UNCHANGED Memo!vars
  <2>1. /\ UNCHANGED << generation, cache, result >>
        /\ \A u \in Threads : call'[u].key = call[u].key
    BY <1>1, <1>7 DEF JoinInflight, OwnInflight, Wake, ReadGeneric, Recheck, registryVars,
                      Locals
  <2> QED  BY <2>1, Invisible
<1>8. ASSUME NEW t \in Threads,
             FindDispatcher(t) \/ ConstructDispatcher(t) \/ RememberDispatcher(t)
               \/ PublishStale(t)
      PROVE  UNCHANGED Memo!vars
  <2>1. UNCHANGED << generation, cache, result >>
    BY <1>8 DEF FindDispatcher, ConstructDispatcher, RememberDispatcher, AdoptRegistered,
                PublishStale, registryVars, TouchDispatcher, InsertDispatcher
  <2>2. \A u \in Threads : call'[u].key = call[u].key
    BY <1>1, <1>8 DEF FindDispatcher, ConstructDispatcher, RememberDispatcher,
                      AdoptRegistered, PublishStale, Locals
  <2> QED  BY <2>1, <2>2, Invisible
<1>9. CASE MarkRequiresLaunchConfig \/ ChangeExtensions \/ UNCHANGED vars
  <2>1. UNCHANGED << generation, cache, result, call >>
    BY <1>9 DEF MarkRequiresLaunchConfig, ChangeExtensions, vars, registryVars
  <2> QED  BY <2>1, Invisible
<1> QED  BY <1>2, <1>3, <1>4, <1>5, <1>6, <1>7, <1>8, <1>9
            DEF Next, Configure, Environment

(* configure() implements the memo table.                                  *)
THEOREM Implements == Spec => ImplementsMemo
<1>1. Init => Memo!Init
  BY DEF Init, Memo!Init, Seen, NoLocals, RegistryInit
<1>2. IInv /\ IInv' /\ CallMaps /\ [Next]_vars => [Memo!Next]_Memo!vars
  BY StepMaps
<1> QED  BY <1>1, <1>2, Invariant, CallInit, CallPreserved, PTL
            DEF Spec, Memo!Spec, ImplementsMemo
=============================================================================
