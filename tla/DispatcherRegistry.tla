------------------------- MODULE DispatcherRegistry -------------------------
(***************************************************************************)
(* The part of an MLIRDispatcher (descriptor.py) that _launch_config_lock  *)
(* protects and that every protocol of the dispatcher shares: the generic  *)
(* native dispatcher _c, the bounded LRU registry of launch-keyed native   *)
(* dispatchers, the launch-config overload table, the recorded literal     *)
(* positions and the generation that invalidations advance.                *)
(*                                                                         *)
(* Nothing here is a process.  Each operator is the effect of one section  *)
(* of code that holds the lock; the modules that extend this one say which *)
(* thread runs it, and when.                                               *)
(***************************************************************************)
EXTENDS Integers, Sequences

CONSTANTS
    Threads,                \* threads that use the dispatcher
    LcKeys,                 \* launch-config keys: grid, block, sharedmem, cluster
    Positions,              \* parameter positions a literal may be requested for
    Values,                 \* values of the arguments at those positions
    LaunchConfigCacheSize,  \* _LAUNCH_CONFIG_CACHE_SIZE
    RetainLimit,            \* _OLD_DISPATCHER_RETAIN_LIMIT
    NotLiteral,             \* the type of an argument that is not literal
    None                    \* Python's None

ASSUME RegistryAssumption ==
    /\ LaunchConfigCacheSize \in Nat \ {0}
    /\ RetainLimit \in Nat

VARIABLES
    generation,     \* _launch_config_generation
    c,              \* _c, the generic native dispatcher
    literals,       \* _literal_arg_positions
    requires,       \* _requires_launch_config
    optIn,          \* whether an extension of the list uses launch metadata
    dispatchers,    \* _launch_config_dispatchers, None where there is no entry
    dispatcherLru,  \* its keys, least recently used first
    old,            \* _old_dispatchers
    lcOverloads,    \* _launch_config_overloads, its values as a set
    made            \* native dispatchers built so far (their identities)

registryVars == << generation, c, literals, requires, optIn,
                   dispatchers, dispatcherLru, old, lcOverloads, made >>

-----------------------------------------------------------------------------

(* A native dispatcher: its identity, the literal flags baked in when it   *)
(* was built, and the generation its builder saw (history).                *)
NativeDispatcher == [id : Nat, gen : Nat, lits : SUBSET Positions]

ASSUME NoneAssumption == None \notin NativeDispatcher

NewKernelDispatcher(gen, lits) == [id |-> made, gen |-> gen, lits |-> lits]

(* An argument-type tuple, reduced to the positions that may be literal.   *)
Sigs == [Positions -> Values \cup {NotLiteral}]

(* What a compilation produced: for which types, for which launch-config   *)
(* key (None: for any), and from which version of the captured globals.    *)
CompileResults == [sig : Sigs, key : LcKeys \cup {None}, world : Nat]

(* The keys with an entry in the registry.                                 *)
Registered == {k \in LcKeys : dispatchers[k] # None}

LaunchConfigEnabled == requires \/ optIn

(* An OrderedDict is a table and the sequence of its keys in their order,  *)
(* which every operation below changes together.                           *)
PositionOf(s, k) == CHOOSE i \in DOMAIN s : s[i] = k

Without(s, k) ==
    SubSeq(s, 1, PositionOf(s, k) - 1) \o SubSeq(s, PositionOf(s, k) + 1, Len(s))

MoveToEnd(s, k) == Append(Without(s, k), k)

(* _retain_old_dispatcher, for each dispatcher of ds in turn.              *)
RetainOld(ds) ==
    LET all == old \o ds
    IN  IF Len(all) <= RetainLimit
        THEN all
        ELSE SubSeq(all, Len(all) - RetainLimit + 1, Len(all))

RegistryTypeOK ==
    /\ generation \in Nat
    /\ c \in NativeDispatcher
    /\ literals \in SUBSET Positions
    /\ requires \in BOOLEAN
    /\ optIn \in BOOLEAN
    /\ dispatchers \in [LcKeys -> NativeDispatcher \cup {None}]
    /\ dispatcherLru \in Seq(LcKeys)
    /\ old \in Seq(NativeDispatcher)
    /\ lcOverloads \in SUBSET CompileResults
    /\ made \in Nat

RegistryInit ==
    /\ generation = 0
    /\ c = [id |-> 0, gen |-> 0, lits |-> {}]
    /\ literals = {}
    /\ requires = FALSE
    /\ optIn \in BOOLEAN
    /\ dispatchers = [k \in LcKeys |-> None]
    /\ dispatcherLru = << >>
    /\ old = << >>
    /\ lcOverloads = {}
    /\ made = 1

(* Mutated form: the registry is read after the entry has been popped.     *)
MutantEvicted(victim) == dispatchers'[victim]

(* What popitem() takes out of a full registry.                            *)
Evicted(victim) == dispatchers[victim]

(* A hit: the entry is moved to the recently used end.                     *)
TouchDispatcher(k) ==
    /\ dispatcherLru' = MoveToEnd(dispatcherLru, k)
    /\ UNCHANGED << generation, c, literals, requires, optIn,
                    dispatchers, old, lcOverloads, made >>

(* _remember_kernel_dispatcher_locked for a key without an entry.  A full  *)
(* registry gives up its least recently used entry, and with it every      *)
(* overload specialised for that launch configuration.                     *)
InsertDispatcher(k, d) ==
    IF Len(dispatcherLru) < LaunchConfigCacheSize
    THEN /\ dispatchers' = [dispatchers EXCEPT ![k] = d]
         /\ dispatcherLru' = Append(dispatcherLru, k)
         /\ UNCHANGED << generation, c, literals, requires, optIn, old, lcOverloads >>
    ELSE LET victim == Head(dispatcherLru)
         IN  /\ dispatchers' = [dispatchers EXCEPT ![k] = d, ![victim] = None]
             /\ dispatcherLru' = Append(Tail(dispatcherLru), k)
             /\ old' = RetainOld(<< Evicted(victim) >>)
             /\ lcOverloads' = {o \in lcOverloads : o.key # victim}
             /\ UNCHANGED << generation, c, literals, requires, optIn >>

(* The locked section that recompile() and a new literal request share:    *)
(* a new generation, a new generic dispatcher with the given literal flags *)
(* and nothing of the old generation left in the registry.                 *)
AdvanceGeneration(lits) ==
    /\ generation' = generation + 1
    /\ literals' = lits
    /\ c' = NewKernelDispatcher(generation + 1, lits)
    /\ made' = made + 1
    /\ dispatchers' = [k \in LcKeys |-> None]
    /\ dispatcherLru' = << >>
    /\ old' = RetainOld(<< c >> \o
                  [i \in 1..Len(dispatcherLru) |-> dispatchers[dispatcherLru[i]]])
    /\ lcOverloads' = {}
    /\ UNCHANGED optIn

-----------------------------------------------------------------------------
(* DispatchersCurrent: the generic native dispatcher and every registered  *)
(* launch-keyed one belong to the current generation and carry the literal *)
(* flags in force, although _new_kernel_dispatcher reads the flags outside *)
(* the lock while recompile() and literal requests go on.                  *)
DispatchersCurrent ==
    \A d \in {c} \cup {dispatchers[k] : k \in Registered} :
        d.gen = generation /\ d.lits = literals
=============================================================================
