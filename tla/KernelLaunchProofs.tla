-------------------------- MODULE KernelLaunchProofs --------------------------
(***************************************************************************)
(* Launching a kernel, proved for any number of threads, marshallers,      *)
(* launch configurations, literal positions and recompile() calls: what a  *)
(* launch runs was compiled for it, and it fails only for a reason.        *)
(***************************************************************************)
EXTENDS KernelLaunch, DispatcherRegistryProofs, FiniteSetTheorems

-----------------------------------------------------------------------------
(* The inductive invariant                                                 *)

Preparing == {"prepared", "find", "remember", "relookup", "select"}
Compiling == {"compile", "mode", "reuse", "read", "typed", "publish"}
Typing    == {"reuse", "read", "typed", "publish"}

(* Where a thread holds the compiler lock.                                 *)
Locked == Preparing \cup Compiling \cup {"compiled"}

(* Where a thread still uses what it read of its marshaller's binding.     *)
UsesConf(l, r) ==
    \/ l \in {"readyGeneric", "recheck", "ready", "prepare"} \cup Preparing
    \/ l \in Compiling /\ r.caller = "prepare"

(* A native dispatcher that something refers to: of the current generation *)
(* are exactly those built no earlier than _c, and they have the literal   *)
(* flags in force.                                                         *)
Placed(d) ==
    /\ d \in NativeDispatcher
    /\ d.id < made /\ d.gen <= generation
    /\ d.gen = generation <=> d.id >= c.id
    /\ d.gen = generation => d.lits = literals

Sound(b) ==
    /\ b \in Bindings /\ Placed(b.kd)
    /\ b.gen # None => b.gen = b.kd.gen

(* A launch through m uses launch metadata ...                             *)
Special(m) == requires \/ marshaller[m].optIn

(* ... or will have done so when it runs.                                  *)
Wanted(m) == IF NeedsLaunch \/ marshaller[m].optIn THEN KeyOf[m] ELSE None

MarshallerOK(m) == marshaller[m] # None =>
    /\ Sound(marshaller[m].bound) /\ Placed(marshaller[m].launcher)
    /\ marshaller[m].optIn => marshaller[m].bound.lc
    /\ marshaller[m].bound.lc => Special(m)
    /\ marshaller[m].bound.gen # None => marshaller[m].bound.lc

(* A binding that a launch through m has read, or is about to write.       *)
BindingOK(b, m) ==
    /\ Sound(b)
    /\ marshaller[m].optIn => b.lc
    /\ b.lc => Special(m)
    /\ b.gen # None => b.lc

(* What holds of a compilation, step by step.                              *)
CompileOK(l, r) ==
    /\ l \in Compiling => r.caller \in {"prepare", "native"}
    /\ l = "remember" => r.caller = "prepare"
    /\ l \in Typing \cup {"mode"} =>
         r.lits = literals /\ r.sig = Literalized(r.args, literals)
    /\ l \in Typing =>
         /\ r.key = IF Special(r.m) THEN KeyOf[r.m] ELSE None
         /\ r.gen \in Nat /\ r.gen <= generation
    /\ l \in {"typed", "publish"} => (r.gen = generation => r.read >= floor)
    /\ l = "publish" =>
         NeedsLiteral \subseteq literals /\ (NeedsLaunch => r.key # None)
    /\ l \in {"compiled", "emplace"} =>
         /\ NeedsLiteral \subseteq literals
         /\ r.kernel.key = Wanted(r.m)
    /\ l \in {"compiled", "emplace", "ran"} => r.kernel \in CompileResults

(* A thread that is at l with the locals r.                                *)
LocalOK(l, r) ==
    /\ l \in Labels /\ r \in Locals /\ r.since <= floor
    /\ l # "idle" => /\ r.m \in Objects /\ marshaller[r.m] # None
                     /\ r.args \in [Positions -> Values]
    /\ l \notin {"idle", "call", "snapshot"} => Sound(r.active)
    /\ l \notin {"idle", "call", "snapshot", "launcher"} => Placed(r.launcher)
    /\ UsesConf(l, r) => BindingOK(r.conf, r.m) /\ r.sig \in Sigs
    /\ l \in {"readyGeneric", "recheck"} => ~ r.conf.lc
    /\ l = "recheck" => ~ NeedsLaunch
    /\ l = "ready" => Special(r.m)
    /\ l = "select" => (r.active.lc => Special(r.m))
    /\ l \in {"select", "rebind", "rebound"} =>
         (r.active.lc <=> NeedsLaunch \/ marshaller[r.m].optIn)
    /\ l \in {"rebind", "rebound"} => BindingOK(r.active, r.m)
    /\ l = "rebound" => (r.active.lc => marshaller[r.m].bound.lc)
    /\ CompileOK(l, r)

ThreadOK(t, l, r) == LocalOK(l, r) /\ (l \in Locked => compilerLock = t)

ThreadInv(t) == ThreadOK(t, pc[t], loc[t])

SharedInv ==
    /\ made > c.id
    /\ \A k \in Registered : Placed(dispatchers[k])
    /\ requires => NeedsLaunch
    /\ NeedsLaunch => planners /\ overloads = {}
    /\ overloads # {} \/ lcOverloads # {} \/ natives # {} => NeedsLiteral \subseteq literals
    /\ \A r \in overloads : r.key = None
    /\ \A r \in lcOverloads : r.key # None /\ r.world >= floor
    /\ recompiling # "idle" => floor < world

SharedTypes ==
    /\ overloads \in SUBSET CompileResults
    /\ natives \in SUBSET LoadedKernels
    /\ marshaller \in [Objects -> MarshallerStates \cup {None}]
    /\ planners \in BOOLEAN
    /\ world \in Nat /\ floor \in 0..world
    /\ recompiling \in {"idle", "called", "cleared"}
    /\ launchLock \in Threads \cup {None, "recompile"}
    /\ compilerLock \in Threads \cup {None}
    /\ launches \in 0..MaxLaunches

ThreadTypes == pc \in [Threads -> Labels] /\ loc \in [Threads -> Locals]

Base ==
    /\ RegistryInv /\ SharedTypes /\ ThreadTypes /\ SharedInv
    /\ \A m \in Objects : MarshallerOK(m)
    /\ \A t \in Threads : ThreadInv(t)

-----------------------------------------------------------------------------
(* What a step of one thread leaves to the others                          *)

(* The shared state only moves on ...                                      *)
Forward ==
    /\ \A d : Placed(d) => Placed(d)'
    /\ generation <= generation' /\ floor <= floor'
    /\ generation \in Nat /\ generation' \in Nat /\ floor \in Nat /\ floor' \in Nat
    /\ literals \subseteq literals' /\ (requires => requires')
    /\ \A m \in Objects : marshaller[m] # None =>
         /\ marshaller'[m] # None /\ marshaller'[m].optIn = marshaller[m].optIn
         /\ marshaller[m].bound.lc => marshaller'[m].bound.lc

(* ... and who holds the compiler lock sees it change only by recompile(). *)
Steady ==
    /\ literals' = literals /\ requires' = requires
    /\ generation' # generation \/ floor' = floor

Unhurried == Steady /\ compilerLock' = compilerLock

LEMMA SoundKept ==
  ASSUME Forward, NEW b, Sound(b)
  PROVE  Sound(b)'
BY DEF Forward, Sound

LEMMA LocalKept ==
  ASSUME Forward, NEW l, NEW r, LocalOK(l, r), l \in Typing \cup {"mode"} => Steady
  PROVE  LocalOK(l, r)'
<1>1. Sound(r.active) => Sound(r.active)'
  BY SoundKept
<1>2. Placed(r.launcher) => Placed(r.launcher)'
  BY DEF Forward
<1>3. r.m \in Objects /\ marshaller[r.m] # None /\ BindingOK(r.conf, r.m) => BindingOK(r.conf, r.m)'
  BY SoundKept DEF Forward, BindingOK, Special
<1>4. r.m \in Objects /\ marshaller[r.m] # None /\ BindingOK(r.active, r.m) => BindingOK(r.active, r.m)'
  BY SoundKept DEF Forward, BindingOK, Special
<1>5. l # "idle" => r.m \in Objects /\ marshaller[r.m] # None
  BY DEF LocalOK
<1>6. CompileOK(l, r)'
  <2>1. CompileOK(l, r)
    BY DEF LocalOK
  <2>2. r.m \in Objects /\ marshaller[r.m] # None => Wanted(r.m)' = Wanted(r.m)
    BY DEF Forward, Wanted
  <2>3. CASE l \in Typing
    <3>1. Steady /\ r.m \in Objects /\ marshaller[r.m] # None
      BY <2>3, <1>5 DEF Typing, Locked, Compiling
    <3>2. Special(r.m)' <=> Special(r.m)
      BY <3>1 DEF Special, Steady, Forward
    <3>3. r.gen \in Nat /\ r.gen <= generation /\ r.gen <= generation'
          /\ (r.gen = generation' => generation' = generation)
      BY <2>1, <2>3 DEF CompileOK, Forward
    <3>4. l \in {"typed", "publish"} => (r.gen = generation' => r.read >= floor')
      BY <2>1, <3>1, <3>3 DEF CompileOK, Steady
    <3> QED  BY <2>1, <2>3, <3>1, <3>2, <3>3, <3>4
             DEF CompileOK, Typing, Compiling, Steady, Literalized
  <2>4. CASE l \notin Typing
    BY <2>1, <2>2, <2>4, <1>5 DEF CompileOK, Typing, Compiling, Locked, Steady, Forward, Literalized
  <2> QED  BY <2>3, <2>4
<1>7. r.since <= floor'
  BY DEF LocalOK, Forward, Locals
<1>8. UsesConf(l, r) => BindingOK(r.conf, r.m)' /\ r.sig \in Sigs
  <2>1. UsesConf(l, r) => l # "idle"
    BY DEF UsesConf, Preparing, Compiling
  <2> QED  BY <2>1, <1>3, <1>5 DEF LocalOK
<1>9. l # "idle" => /\ r.m \in Objects /\ marshaller'[r.m] # None
                    /\ r.args \in [Positions -> Values]
  BY <1>5 DEF LocalOK, Forward
<1>10. l \in {"rebind", "rebound"} => BindingOK(r.active, r.m)'
  BY <1>4, <1>5 DEF LocalOK
<1>11. /\ l \in {"readyGeneric", "recheck"} => ~ r.conf.lc
       /\ l = "recheck" => ~ NeedsLaunch
       /\ l = "ready" => Special(r.m)'
       /\ l = "select" => (r.active.lc => Special(r.m)')
  BY <1>5 DEF LocalOK, Forward, Special
<1>12. /\ l \in {"select", "rebind", "rebound"} =>
            (r.active.lc <=> NeedsLaunch \/ marshaller'[r.m].optIn)
       /\ l = "rebound" => (r.active.lc => marshaller'[r.m].bound.lc)
  BY <1>5 DEF LocalOK, Forward
<1>13. UsesConf(l, r)' = UsesConf(l, r)
  BY DEF UsesConf
<1>14. l \in Labels /\ r \in Locals
       /\ (l \notin {"idle", "call", "snapshot"} => Sound(r.active)')
       /\ (l \notin {"idle", "call", "snapshot", "launcher"} => Placed(r.launcher)')
  BY <1>1, <1>2 DEF LocalOK
<1> QED  BY <1>6, <1>7, <1>8, <1>9, <1>10, <1>13, <1>14, <1>11, <1>12 DEF LocalOK

LEMMA ThreadKept ==
  ASSUME Forward, NEW t \in Threads, NEW l, NEW r, ThreadOK(t, l, r),
         l \in Locked => Unhurried
  PROVE  ThreadOK(t, l, r)'
BY LocalKept DEF ThreadOK, Unhurried, Locked, Compiling, Typing

(* The other threads, when t moves on.                                     *)
LEMMA OthersKept ==
  ASSUME Base, Forward, NEW t \in Threads, NEW l, NEW r,
         pc' = [pc EXCEPT ![t] = l], loc' = [loc EXCEPT ![t] = r],
         ThreadOK(t, l, r)',
         \A u \in Threads \ {t} : pc[u] \in Locked => Unhurried
  PROVE  ThreadTypes' /\ \A u \in Threads : ThreadInv(u)'
<1>1. l \in Labels /\ r \in Locals
  BY DEF ThreadOK, LocalOK
<1>2. ThreadTypes'
  BY <1>1 DEF Base, ThreadTypes
<1>3. ASSUME NEW u \in Threads
      PROVE  ThreadInv(u)'
  <2>1. CASE u = t
    <3>1. pc'[u] = l /\ loc'[u] = r
      BY <2>1 DEF Base, ThreadTypes
    <3> QED  BY <2>1, <3>1 DEF ThreadInv
  <2>2. CASE u # t
    <3>1. PICK k, s : k = pc[u] /\ s = loc[u]
      OBVIOUS
    <3>2. pc'[u] = k /\ loc'[u] = s
      BY <2>2, <3>1
    <3>3. ThreadOK(u, k, s)
      BY <3>1 DEF Base, ThreadInv
    <3>4. k \in Locked => Unhurried
      BY <2>2, <3>1
    <3>5. ThreadOK(u, k, s)'
      BY <3>3, <3>4, ThreadKept
    <3> QED  BY <3>2, <3>5 DEF ThreadInv
  <2> QED  BY <2>1, <2>2
<1> QED  BY <1>2, <1>3

(* The same when no thread moves.                                          *)
LEMMA AllKept ==
  ASSUME Base, Forward, UNCHANGED << pc, loc >>,
         \A u \in Threads : pc[u] \in Locked => Unhurried
  PROVE  ThreadTypes' /\ \A u \in Threads : ThreadInv(u)'
<1>1. ASSUME NEW u \in Threads
      PROVE  ThreadInv(u)'
  <2>1. PICK k, s : k = pc[u] /\ s = loc[u]
    OBVIOUS
  <2>2. ThreadOK(u, k, s)
    BY <2>1 DEF Base, ThreadInv
  <2>3. k \in Locked => Unhurried
    BY <2>1
  <2>4. ThreadOK(u, k, s)'
    BY <2>2, <2>3, ThreadKept
  <2> QED  BY <2>1, <2>4 DEF ThreadInv
<1> QED  BY <1>1 DEF Base, ThreadTypes

(* Whoever may take the compiler lock, or has it, is alone with it.        *)
LEMMA Alone ==
  ASSUME Base, NEW t \in Threads, compilerLock \in {None, t}
  PROVE  \A u \in Threads \ {t} : pc[u] \notin Locked
<1> SUFFICES ASSUME NEW u \in Threads \ {t}, pc[u] \in Locked PROVE FALSE
  OBVIOUS
<1>1. compilerLock = u
  BY DEF Base, ThreadInv, ThreadOK, LocalOK
<1> QED  BY <1>1, LaunchNoneAssumption

LEMMA LockedAlone ==
  ASSUME Base, NEW t \in Threads, pc[t] \in Locked
  PROVE  compilerLock = t /\ \A u \in Threads \ {t} : pc[u] \notin Locked
<1>1. compilerLock = t
  BY DEF Base, ThreadInv, ThreadOK, LocalOK
<1> QED  BY <1>1, Alone

(* A marshaller stays what it is as long as nobody writes it.              *)
LEMMA MarshallerKept ==
  ASSUME Base, Forward, NEW m \in Objects, marshaller'[m] = marshaller[m]
  PROVE  MarshallerOK(m)'
<1> SUFFICES ASSUME marshaller[m] # None PROVE MarshallerOK(m)'
  BY DEF MarshallerOK
<1>1. PICK b, d : b = marshaller[m].bound /\ d = marshaller[m].launcher
  OBVIOUS
<1>2. MarshallerOK(m)
  BY DEF Base
<1>3. Sound(b)' /\ Placed(d)'
  BY <1>1, <1>2, SoundKept DEF MarshallerOK, Forward
<1> QED  BY <1>1, <1>2, <1>3 DEF MarshallerOK, Special, Forward

LEMMA MarshallersKept ==
  ASSUME Base, Forward, marshaller' = marshaller
  PROVE  \A m \in Objects : MarshallerOK(m)'
BY MarshallerKept

(* A step that changes nothing but the locals of t.                        *)
Quiet == UNCHANGED << registryVars, sharedVars, launchLock, compilerLock >>

LEMMA QuietForward ==
  ASSUME Base, UNCHANGED << generation, c, literals, floor, marshaller >>,
         made' \in Nat, made' >= made, requires => requires'
  PROVE  Forward
<1>1. generation \in Nat /\ floor \in Nat /\ made \in Nat
  BY DEF Base, RegistryInv, RegistryTypeOK, SharedTypes
<1>2. ASSUME NEW d, Placed(d)
      PROVE  Placed(d)'
  BY <1>1, <1>2 DEF Placed, NativeDispatcher
<1> QED  BY <1>1, <1>2 DEF Forward

LEMMA QuietStep ==
  ASSUME Base, NEW t \in Threads, Quiet, NEW l, NEW r, ThreadOK(t, l, r),
         pc' = [pc EXCEPT ![t] = l], loc' = [loc EXCEPT ![t] = r]
  PROVE  Base'
<1>1. Forward
  BY QuietForward DEF Quiet, registryVars, sharedVars, Base, RegistryInv, RegistryTypeOK
<1>2. Unhurried
  BY DEF Quiet, registryVars, sharedVars, Unhurried, Steady
<1>3. ThreadOK(t, l, r)'
  BY <1>1, <1>2, ThreadKept
<1>4. ThreadTypes' /\ \A u \in Threads : ThreadInv(u)'
  BY <1>1, <1>2, <1>3, OthersKept
<1>5. \A m \in Objects : MarshallerOK(m)'
  BY <1>1, MarshallersKept DEF Quiet, sharedVars
<1>6. RegistryInv'
  BY DEF Quiet, registryVars, Base, RegistryInv, RegistryTypeOK, DispatchersCurrent, Registered, Lists
<1>7. SharedTypes'
  BY DEF Quiet, sharedVars, Base, SharedTypes
<1>8. SharedInv'
  BY <1>1 DEF Quiet, registryVars, sharedVars, Base, SharedInv, Registered, Forward
<1> QED  BY <1>4, <1>5, <1>6, <1>7, <1>8 DEF Base

-----------------------------------------------------------------------------
(* Actions that change only the locals of their thread                     *)

LEMMA Here ==
  ASSUME Base, NEW t \in Threads
  PROVE  /\ ThreadOK(t, pc[t], loc[t]) /\ loc[t] \in Locals
         /\ pc[t] # "idle" =>
              /\ loc[t].m \in Objects /\ KeyOf[loc[t].m] \in LcKeys
              /\ marshaller[loc[t].m] \in MarshallerStates
              /\ marshaller[loc[t].m] # None /\ MarshallerOK(loc[t].m)
              /\ loc[t].args \in [Positions -> Values]
         /\ literals \in SUBSET Positions /\ generation \in Nat /\ world \in Nat
         /\ floor \in Nat /\ floor <= world
<1>1. ThreadOK(t, pc[t], loc[t]) /\ loc[t] \in Locals
  BY DEF Base, ThreadInv, ThreadOK, LocalOK
<1>2. pc[t] # "idle" =>
              /\ loc[t].m \in Objects /\ KeyOf[loc[t].m] \in LcKeys
              /\ marshaller[loc[t].m] \in MarshallerStates
              /\ marshaller[loc[t].m] # None /\ MarshallerOK(loc[t].m)
              /\ loc[t].args \in [Positions -> Values]
  BY <1>1, LaunchAssumption DEF ThreadOK, LocalOK, Base, SharedTypes
<1> QED  BY <1>1, <1>2 DEF Base, RegistryInv, RegistryTypeOK, SharedTypes

LEMMA LiteralizedType ==
  ASSUME NEW args \in [Positions -> Values], NEW lits
  PROVE  Literalized(args, lits) \in Sigs
BY DEF Literalized, Sigs

LEMMA SnapshotBase ==
  ASSUME Base, NEW t \in Threads, Snapshot(t)
  PROVE  Base'
<1>1. PICK s : s = loc[t]
  OBVIOUS
<1>2. pc[t] = "snapshot"
  BY DEF Snapshot
<1> DEFINE r == [s EXCEPT !.active = marshaller[s.m].bound]
<1>3. loc' = [loc EXCEPT ![t] = r] /\ pc' = [pc EXCEPT ![t] = "launcher"] /\ Quiet
  BY <1>1 DEF Snapshot, Goto, Quiet, Mine, Key, Base, ThreadTypes
<1>4. ThreadOK(t, "launcher", r)
  BY <1>1, <1>2, Here, LaunchNoneAssumption, LiteralizedType, SMTT(30)
     DEF ThreadOK, LocalOK, CompileOK, UsesConf, Labels, Preparing, Compiling, Typing, Locked,
         Locals, MarshallerOK, MarshallerStates, BindingOK, Sound
<1> QED  BY <1>3, <1>4, QuietStep

LEMMA ReadLauncherBase ==
  ASSUME Base, NEW t \in Threads, ReadLauncher(t)
  PROVE  Base'
<1>1. PICK s : s = loc[t]
  OBVIOUS
<1>2. pc[t] = "launcher"
  BY DEF ReadLauncher
<1> DEFINE r == [s EXCEPT !.launcher = marshaller[s.m].launcher]
<1>3. loc' = [loc EXCEPT ![t] = r] /\ pc' = [pc EXCEPT ![t] = "decide"] /\ Quiet
  BY <1>1 DEF ReadLauncher, Goto, Quiet, Mine, Key, Base, ThreadTypes
<1>4. ThreadOK(t, "decide", r)
  BY <1>1, <1>2, Here, LaunchNoneAssumption, LiteralizedType, SMTT(30)
     DEF ThreadOK, LocalOK, CompileOK, UsesConf, Labels, Preparing, Compiling, Typing, Locked,
         Locals, MarshallerOK, MarshallerStates, BindingOK, Sound
<1> QED  BY <1>3, <1>4, QuietStep

LEMMA NotReadyBase ==
  ASSUME Base, NEW t \in Threads, NotReady(t)
  PROVE  Base'
<1>1. PICK s : s = loc[t]
  OBVIOUS
<1>2. pc[t] = "prepared"
  BY DEF NotReady
<1> DEFINE r == s
<1>3. loc' = [loc EXCEPT ![t] = r] /\ pc' = [pc EXCEPT ![t] = "find"] /\ Quiet
  BY <1>1 DEF NotReady, Goto, Quiet, Mine, Key, Base, ThreadTypes
<1>4. ThreadOK(t, "find", r)
  BY <1>1, <1>2, Here, LaunchNoneAssumption, LiteralizedType
     DEF ThreadOK, LocalOK, CompileOK, UsesConf, Labels, Preparing, Compiling, Typing, Locked,
         Locals, MarshallerOK, MarshallerStates, BindingOK, Sound
<1> QED  BY <1>3, <1>4, QuietStep

LEMMA CompileEnterBase ==
  ASSUME Base, NEW t \in Threads, CompileEnter(t)
  PROVE  Base'
<1>1. PICK s : s = loc[t]
  OBVIOUS
<1>2. pc[t] = "compile"
  BY DEF CompileEnter
<1> DEFINE r == [s EXCEPT !.lits = literals, !.sig = Literalized(s.args, literals)]
<1>3. loc' = [loc EXCEPT ![t] = r] /\ pc' = [pc EXCEPT ![t] = "mode"] /\ Quiet
  BY <1>1 DEF CompileEnter, Goto, Quiet, Mine, Key, Base, ThreadTypes
<1>4. ThreadOK(t, "compile", s) /\ s \in Locals
  BY <1>1, <1>2, Here
<1>5. r \in Locals
  <2>1. s \in Locals /\ literals \in SUBSET Positions /\ Literalized(s.args, literals) \in Sigs
    BY <1>1, <1>2, <1>4, Here, LiteralizedType
  <2> QED  BY <2>1, ZenonT(30) DEF Locals
<1>6. /\ r.lits = literals
      /\ r.sig = Literalized(s.args, literals)
      /\ r.m = s.m /\ r.args = s.args /\ r.active = s.active
      /\ r.conf = s.conf /\ r.launcher = s.launcher /\ r.caller = s.caller
      /\ r.key = s.key /\ r.gen = s.gen /\ r.read = s.read
      /\ r.budget = s.budget /\ r.kernel = s.kernel /\ r.error = s.error
      /\ r.since = s.since
  BY <1>4 DEF Locals
<1> HIDE DEF r
<1>7. CompileOK("mode", r)
  BY <1>1, <1>2, <1>4, <1>5, <1>6, Here, LaunchNoneAssumption
     DEF ThreadOK, LocalOK, CompileOK, Compiling, Typing, Locals, Wanted, CompileEnter
<1>8. ThreadOK(t, "mode", r)
  BY <1>1, <1>2, <1>4, <1>5, <1>6, <1>7, Here, LiteralizedType, SMTT(30)
     DEF ThreadOK, LocalOK, UsesConf, Labels, Preparing, Compiling, Locked, BindingOK
<1> QED  BY <1>3, <1>8, QuietStep

LEMMA CompileModeBase ==
  ASSUME Base, NEW t \in Threads, CompileMode(t)
  PROVE  Base'
<1>1. PICK s : s = loc[t]
  OBVIOUS
<1>2. pc[t] = "mode"
  BY DEF CompileMode
<1> DEFINE r == [s EXCEPT !.key = IF Special(s.m) THEN KeyOf[s.m] ELSE None, !.gen = generation]
<1>3. loc' = [loc EXCEPT ![t] = r] /\ pc' = [pc EXCEPT ![t] = "reuse"] /\ Quiet
  BY <1>1 DEF CompileMode, Goto, Quiet, Mine, Key, Base, ThreadTypes, Special
<1>4. ThreadOK(t, "mode", s) /\ s \in Locals
  BY <1>1, <1>2, Here
<1>5. r \in Locals
  <2>1. KeyOf[s.m] \in LcKeys /\ generation \in Nat
    BY <1>1, <1>2, Here
  <2>2. PICK g \in Nat, k \in LcKeys \cup {None} :
          g = generation /\ k = IF Special(s.m) THEN KeyOf[s.m] ELSE None
    BY <2>1
  <2>3. PICK u : u = [s EXCEPT !.key = k]
    OBVIOUS
  <2>4. u \in Locals
    BY <1>4, <2>3 DEF Locals
  <2>5. [u EXCEPT !.gen = g] \in Locals
    BY <2>4 DEF Locals
  <2>6. [s EXCEPT !.key = k, !.gen = g] = [u EXCEPT !.gen = g]
    BY <2>3
  <2> QED  BY <2>2, <2>5, <2>6
<1>6. /\ r.key = IF Special(s.m) THEN KeyOf[s.m] ELSE None
      /\ r.gen = generation
      /\ r.m = s.m /\ r.args = s.args /\ r.sig = s.sig
      /\ r.active = s.active /\ r.conf = s.conf /\ r.launcher = s.launcher
      /\ r.caller = s.caller /\ r.lits = s.lits /\ r.read = s.read
      /\ r.budget = s.budget /\ r.kernel = s.kernel /\ r.error = s.error
      /\ r.since = s.since
  BY <1>4 DEF Locals
<1> HIDE DEF r
<1>7. CompileOK("reuse", r)
  BY <1>1, <1>2, <1>4, <1>5, <1>6, Here, LaunchNoneAssumption, SMTT(30)
     DEF ThreadOK, LocalOK, CompileOK, Compiling, Typing, Locals, Wanted, CompileMode
<1>8. ThreadOK(t, "reuse", r)
  BY <1>1, <1>2, <1>4, <1>5, <1>6, <1>7, Here, LiteralizedType
     DEF ThreadOK, LocalOK, UsesConf, Labels, Preparing, Compiling, Locked, BindingOK
<1> QED  BY <1>3, <1>8, QuietStep

LEMMA ReadGlobalsBase ==
  ASSUME Base, NEW t \in Threads, ReadGlobals(t)
  PROVE  Base'
<1>1. PICK s : s = loc[t]
  OBVIOUS
<1>2. pc[t] = "read"
  BY DEF ReadGlobals
<1> DEFINE r == [s EXCEPT !.read = world]
<1>3. loc' = [loc EXCEPT ![t] = r] /\ pc' = [pc EXCEPT ![t] = "typed"] /\ Quiet
  BY <1>1 DEF ReadGlobals, Goto, Quiet, Mine, Key, Base, ThreadTypes
<1>4. ThreadOK(t, "read", s) /\ s \in Locals
  BY <1>1, <1>2, Here
<1>5. r \in Locals
  <2>1. PICK w \in Nat : w = world
    BY Here
  <2>2. [s EXCEPT !.read = w] \in Locals
    BY <1>4 DEF Locals
  <2> QED  BY <2>1, <2>2
<1>6. /\ r.read = world
      /\ r.m = s.m /\ r.args = s.args /\ r.sig = s.sig
      /\ r.active = s.active /\ r.conf = s.conf /\ r.launcher = s.launcher
      /\ r.caller = s.caller /\ r.lits = s.lits /\ r.key = s.key
      /\ r.gen = s.gen /\ r.budget = s.budget /\ r.kernel = s.kernel
      /\ r.error = s.error /\ r.since = s.since
  BY <1>4 DEF Locals
<1> HIDE DEF r
<1>7. CompileOK("typed", r)
  BY <1>1, <1>2, <1>4, <1>5, <1>6, Here, LaunchNoneAssumption, SMTT(30)
     DEF ThreadOK, LocalOK, CompileOK, Compiling, Typing, Locals, Wanted, ReadGlobals
<1>8. ThreadOK(t, "typed", r)
  BY <1>1, <1>2, <1>4, <1>5, <1>6, <1>7, Here, LiteralizedType
     DEF ThreadOK, LocalOK, UsesConf, Labels, Preparing, Compiling, Locked, BindingOK
<1> QED  BY <1>3, <1>8, QuietStep

LEMMA NoPromotionBase ==
  ASSUME Base, NEW t \in Threads, NoPromotion(t)
  PROVE  Base'
<1>1. PICK s : s = loc[t]
  OBVIOUS
<1>2. pc[t] = "typed"
  BY DEF NoPromotion
<1> DEFINE r == s
<1>3. loc' = [loc EXCEPT ![t] = r] /\ pc' = [pc EXCEPT ![t] = "publish"] /\ Quiet
  BY <1>1 DEF NoPromotion, Goto, Quiet, Mine, Key, Base, ThreadTypes
<1>4. ThreadOK(t, "typed", s) /\ s \in Locals
  BY <1>1, <1>2, Here
<1>5. r \in Locals
  <2>1. s \in Locals
    BY <1>1, <1>2, <1>4, Here, LiteralizedType
  <2> QED  BY <2>1 DEF Locals
<1>6. /\ r.m = s.m
      /\ r.args = s.args /\ r.sig = s.sig /\ r.active = s.active
      /\ r.conf = s.conf /\ r.launcher = s.launcher /\ r.caller = s.caller
      /\ r.lits = s.lits /\ r.key = s.key /\ r.gen = s.gen
      /\ r.read = s.read /\ r.budget = s.budget /\ r.kernel = s.kernel
      /\ r.error = s.error /\ r.since = s.since
  BY <1>4 DEF Locals
<1> HIDE DEF r
<1>7. CompileOK("publish", r)
  BY <1>1, <1>2, <1>4, <1>5, <1>6, Here, LaunchNoneAssumption, SMTT(30)
     DEF ThreadOK, LocalOK, CompileOK, Compiling, Typing, Locals, Wanted, NoPromotion
<1>8. ThreadOK(t, "publish", r)
  BY <1>1, <1>2, <1>4, <1>5, <1>6, <1>7, Here, LiteralizedType
     DEF ThreadOK, LocalOK, UsesConf, Labels, Preparing, Compiling, Locked, BindingOK
<1> QED  BY <1>3, <1>8, QuietStep

(* What the generic native dispatcher and the registry hold is placed.     *)
LEMMA CurrentPlaced ==
  ASSUME Base
  PROVE  /\ Placed(c) /\ c.gen = generation /\ c.lits = literals /\ c \in NativeDispatcher
         /\ [lc |-> FALSE, kd |-> c, gen |-> None] \in Bindings
         /\ Sound([lc |-> FALSE, kd |-> c, gen |-> None])
<1>1. /\ c \in NativeDispatcher /\ c.gen = generation /\ c.lits = literals /\ made > c.id
      /\ made \in Nat /\ generation \in Nat
  BY DEF Base, RegistryInv, RegistryTypeOK, DispatchersCurrent, SharedInv
<1>2. Placed(c)
  BY <1>1 DEF Placed, NativeDispatcher
<1> QED  BY <1>1, <1>2 DEF Sound, Bindings

LEMMA DecideBase ==
  ASSUME Base, NEW t \in Threads, Decide(t)
  PROVE  Base'
<1>1. PICK s : s = loc[t]
  OBVIOUS
<1>2. pc[t] = "decide" /\ Quiet /\ loc' = [loc EXCEPT ![t] = s]
  BY <1>1 DEF Decide, Quiet, Base, ThreadTypes
<1>3. PICK l \in {"configured", "go"} : pc' = [pc EXCEPT ![t] = l]
  BY DEF Decide, Goto
<1>4. ThreadOK(t, l, s)
  BY <1>1, <1>2, <1>3, Here
     DEF ThreadOK, LocalOK, CompileOK, UsesConf, Labels, Preparing, Compiling, Typing, Locked
<1> QED  BY <1>2, <1>3, <1>4, QuietStep

LEMMA ReadConfiguredBase ==
  ASSUME Base, NEW t \in Threads, ReadConfigured(t)
  PROVE  Base'
<1>1. PICK s : s = loc[t]
  OBVIOUS
<1>2. pc[t] = "configured" /\ Quiet
  BY DEF ReadConfigured, Quiet
<1>3. PICK sig \in Sigs, b \in Bindings :
        sig = Literalized(s.args, literals) /\ b = marshaller[s.m].bound
  BY <1>1, <1>2, Here, LiteralizedType DEF MarshallerStates
<1> DEFINE r == [s EXCEPT !.sig = sig, !.conf = b]
<1>4. loc' = [loc EXCEPT ![t] = r]
  BY <1>1, <1>3 DEF ReadConfigured, Mine, Base, ThreadTypes
<1>5. PICK l : /\ pc' = [pc EXCEPT ![t] = l]
               /\ l = IF b.lc \/ requires THEN "ready" ELSE "readyGeneric"
  BY <1>1, <1>3 DEF ReadConfigured, Goto, Mine
<1>6. ThreadOK(t, "configured", s) /\ s \in Locals
  BY <1>1, <1>2, Here
<1>7. /\ r \in Locals /\ r.m = s.m /\ r.args = s.args /\ r.sig = sig /\ r.conf = b
      /\ r.active = s.active /\ r.launcher = s.launcher /\ r.since = s.since
  <2>1. PICK u : u = [s EXCEPT !.sig = sig]
    OBVIOUS
  <2>2. u \in Locals
    BY <1>3, <1>6, <2>1 DEF Locals
  <2>3. [u EXCEPT !.conf = b] \in Locals
    BY <1>3, <2>2 DEF Locals
  <2>4. r \in Locals
    BY <2>1, <2>3
  <2>5. /\ r.m = s.m /\ r.args = s.args /\ r.sig = sig /\ r.conf = b
        /\ r.active = s.active /\ r.launcher = s.launcher /\ r.since = s.since
    BY <1>6 DEF Locals
  <2> QED  BY <2>4, <2>5
<1> HIDE DEF r
<1>8. BindingOK(b, s.m) /\ (b.lc => Special(s.m)) /\ (requires => Special(s.m))
  BY <1>1, <1>2, <1>3, Here DEF BindingOK, MarshallerOK, Special
<1>9. ThreadOK(t, l, r)
  BY <1>1, <1>2, <1>5, <1>6, <1>7, <1>8, Here
     DEF ThreadOK, LocalOK, CompileOK, UsesConf, Labels, Preparing, Compiling, Typing, Locked
<1> QED  BY <1>2, <1>4, <1>5, <1>9, QuietStep

LEMMA ReadyGenericBase ==
  ASSUME Base, NEW t \in Threads, ReadyGeneric(t)
  PROVE  Base'
<1>1. PICK s : s = loc[t]
  OBVIOUS
<1>2. pc[t] = "readyGeneric" /\ Quiet /\ loc' = [loc EXCEPT ![t] = s]
  BY <1>1 DEF ReadyGeneric, Quiet, Base, ThreadTypes
<1>3. PICK l : /\ pc' = [pc EXCEPT ![t] = l]
               /\ l = IF ReadyForGeneric(t) THEN "recheck" ELSE "prepare"
  BY DEF ReadyGeneric, Goto
<1>4. l = "recheck" => ~ NeedsLaunch
  BY <1>3 DEF ReadyForGeneric, GenericFor, Base, SharedInv
<1>5. ThreadOK(t, l, s)
  BY <1>1, <1>2, <1>3, <1>4, Here
     DEF ThreadOK, LocalOK, CompileOK, UsesConf, Labels, Preparing, Compiling, Typing, Locked
<1> QED  BY <1>2, <1>3, <1>5, QuietStep

LEMMA RecheckBase ==
  ASSUME Base, NEW t \in Threads, Recheck(t)
  PROVE  Base'
<1>1. PICK s : s = loc[t]
  OBVIOUS
<1>2. pc[t] = "recheck" /\ Quiet
  BY DEF Recheck, Quiet
<1>3. ThreadOK(t, "recheck", s) /\ s \in Locals /\ marshaller[s.m] # None
  BY <1>1, <1>2, Here
<1>4. CASE requires \/ c # loc[t].conf.kd
  <2>1. pc' = [pc EXCEPT ![t] = "prepare"] /\ loc' = [loc EXCEPT ![t] = s]
    BY <1>1, <1>4 DEF Recheck, Goto, Base, ThreadTypes
  <2>2. ThreadOK(t, "prepare", s)
    BY <1>3 DEF ThreadOK, LocalOK, CompileOK, UsesConf, Labels, Preparing, Compiling, Typing, Locked
  <2> QED  BY <1>2, <2>1, <2>2, QuietStep
<1>5. CASE ~ (requires \/ c # loc[t].conf.kd)
  <2>1. PICK b : b = [lc |-> FALSE, kd |-> c, gen |-> None]
    OBVIOUS
  <2> DEFINE r == [s EXCEPT !.active = b]
  <2>2. pc' = [pc EXCEPT ![t] = "rebind"] /\ loc' = [loc EXCEPT ![t] = r]
    BY <1>1, <1>5, <2>1 DEF Recheck, Goto, Base, ThreadTypes
  <2>3. b \in Bindings /\ Sound(b) /\ ~ b.lc /\ b.gen = None
    BY <2>1, CurrentPlaced
  <2>4. /\ r \in Locals /\ r.m = s.m /\ r.args = s.args /\ r.active = b
        /\ r.launcher = s.launcher /\ r.since = s.since
    BY <1>3, <2>3 DEF Locals
  <2> HIDE DEF r
  <2>5. ~ marshaller[s.m].optIn /\ ~ NeedsLaunch
    BY <1>3 DEF ThreadOK, LocalOK, UsesConf, BindingOK
  <2>6. ThreadOK(t, "rebind", r)
    BY <1>3, <2>3, <2>4, <2>5
       DEF ThreadOK, LocalOK, CompileOK, UsesConf, Labels, Preparing, Compiling, Typing, Locked, BindingOK
  <2> QED  BY <1>2, <2>2, <2>6, QuietStep
<1> QED  BY <1>4, <1>5

(* Whether a launch is specialised, as _prepare_for_launch decides it.     *)
LEMMA PreparedFor ==
  ASSUME Base, NEW t \in Threads, pc[t] \in {"prepared", "find", "relookup"}
  PROVE  /\ UsesLaunchConfig(t) \in BOOLEAN
         /\ UsesLaunchConfig(t) <=> Special(loc[t].m)
         /\ UsesLaunchConfig(t) => NeedsLaunch \/ marshaller[loc[t].m].optIn
<1>1. BindingOK(loc[t].conf, loc[t].m) /\ loc[t].conf \in Bindings
  BY Here DEF ThreadOK, LocalOK, UsesConf, Preparing, BindingOK, Sound
<1>2. requires \in BOOLEAN /\ (requires => NeedsLaunch)
  BY DEF Base, RegistryInv, RegistryTypeOK, SharedInv
<1> QED  BY <1>1, <1>2 DEF UsesLaunchConfig, Special, BindingOK, Bindings

(* A result that is found tells whether the launch is specialised.         *)
LEMMA FoundFor ==
  ASSUME Base, NEW sig, NEW lc \in BOOLEAN, NEW k, CompileResultsFor(sig, lc, k) # {}
  PROVE  /\ ~ lc => ~ NeedsLaunch
         /\ NeedsLiteral \subseteq literals
         /\ Found(CompileResultsFor(sig, lc, k)) \in CompileResults
         /\ Found(CompileResultsFor(sig, lc, k)).sig = sig
         /\ Found(CompileResultsFor(sig, lc, k)).key = IF lc THEN k ELSE None
         /\ Found(CompileResultsFor(sig, lc, k)) \in IF lc THEN lcOverloads ELSE overloads
<1> DEFINE f == Found(CompileResultsFor(sig, lc, k))
<1>1. f \in CompileResultsFor(sig, lc, k)
  BY DEF Found
<1> HIDE DEF f
<1>2. f.sig = sig /\ f \in (IF lc THEN lcOverloads ELSE overloads)
      /\ (lc => f.key = k)
  BY <1>1 DEF CompileResultsFor, SpecialisedFor, GenericFor
<1>3. f \in CompileResults
  BY <1>2 DEF Base, RegistryInv, RegistryTypeOK, SharedTypes
<1> QED  BY <1>2, <1>3 DEF f, Base, SharedInv

LEMMA FindCompiledBase ==
  ASSUME Base, NEW t \in Threads, FindCompiled(t)
  PROVE  Base'
<1>1. PICK s : s = loc[t]
  OBVIOUS
<1>2. pc[t] = "find" /\ Quiet
  BY DEF FindCompiled, Quiet
<1>3. ThreadOK(t, "find", s) /\ s \in Locals /\ marshaller[s.m] # None
  BY <1>1, <1>2, Here
<1>4. PICK lc \in BOOLEAN : lc = UsesLaunchConfig(t)
  BY <1>2, PreparedFor
<1>5. CASE CompileResultsFor(loc[t].sig, lc, Key(t)) # {}
  <2> DEFINE r == [s EXCEPT !.active = [@ EXCEPT !.lc = lc]]
             b == [s.active EXCEPT !.lc = lc]
  <2>1. pc' = [pc EXCEPT ![t] = "select"] /\ loc' = [loc EXCEPT ![t] = r]
    BY <1>1, <1>4, <1>5 DEF FindCompiled, Goto, Base, ThreadTypes
  <2>2. s.active \in Bindings /\ Sound(s.active)
    BY <1>3 DEF ThreadOK, LocalOK, Sound
  <2>3. b \in Bindings /\ b.lc = lc /\ b.kd = s.active.kd /\ b.gen = s.active.gen
    BY <2>2 DEF Bindings
  <2> HIDE DEF b
  <2>4. Sound(b)
    BY <2>2, <2>3 DEF Sound
  <2>5. /\ r \in Locals /\ r.m = s.m /\ r.args = s.args /\ r.active = b /\ r.conf = s.conf
        /\ r.launcher = s.launcher /\ r.since = s.since /\ r.sig = s.sig
    BY <1>3, <2>3 DEF Locals, b
  <2> HIDE DEF r
  <2>6. /\ lc <=> NeedsLaunch \/ marshaller[s.m].optIn
        /\ lc => Special(s.m)
    BY <1>1, <1>2, <1>4, <1>5, PreparedFor, FoundFor DEF Special
  <2>7. ThreadOK(t, "select", r)
    BY <1>3, <2>3, <2>4, <2>5, <2>6
       DEF ThreadOK, LocalOK, CompileOK, UsesConf, Labels, Preparing, Compiling, Typing, Locked
  <2> QED  BY <1>2, <2>1, <2>7, QuietStep
<1>6. CASE CompileResultsFor(loc[t].sig, lc, Key(t)) = {}
  <2> DEFINE r == [s EXCEPT !.caller = "prepare", !.budget = RetryBudget]
  <2>1. loc' = [loc EXCEPT ![t] = r]
    BY <1>1, <1>4, <1>6 DEF FindCompiled, Base, ThreadTypes
  <2>2. PICK l \in {"remember", "compile"} : pc' = [pc EXCEPT ![t] = l]
    BY <1>4, <1>6 DEF FindCompiled, Goto
  <2>3. r \in Locals
    <3>1. PICK u : u = [s EXCEPT !.caller = "prepare"]
      OBVIOUS
    <3>2. u \in Locals
      BY <1>3, <3>1 DEF Locals
    <3>3. [u EXCEPT !.budget = RetryBudget] \in Locals
      BY <3>2, LaunchAssumption DEF Locals
    <3> QED  BY <3>1, <3>3
  <2>4. /\ r.m = s.m /\ r.args = s.args /\ r.active = s.active /\ r.conf = s.conf
        /\ r.launcher = s.launcher /\ r.since = s.since /\ r.sig = s.sig
        /\ r.caller = "prepare"
    BY <1>3 DEF Locals
  <2> HIDE DEF r
  <2>5. ThreadOK(t, l, r)
    BY <1>3, <2>2, <2>3, <2>4
       DEF ThreadOK, LocalOK, CompileOK, UsesConf, Labels, Preparing, Compiling, Typing, Locked
  <2> QED  BY <1>2, <2>1, <2>2, <2>5, QuietStep
<1> QED  BY <1>5, <1>6

LEMMA ReuseBase ==
  ASSUME Base, NEW t \in Threads, Reuse(t)
  PROVE  Base'
<1>1. PICK s : s = loc[t]
  OBVIOUS
<1>2. pc[t] = "reuse" /\ Quiet
  BY DEF Reuse, Quiet
<1>3. ThreadOK(t, "reuse", s) /\ s \in Locals
  BY <1>1, <1>2, Here
<1> DEFINE found == CompileResultsFor(s.sig, s.key # None, s.key)
<1>4. CASE found # {}
  <2>1. PICK f : f = Found(found)
    OBVIOUS
  <2> DEFINE r == [s EXCEPT !.kernel = f]
  <2>2. loc' = [loc EXCEPT ![t] = r]
    BY <1>1, <1>4, <2>1 DEF Reuse, Base, ThreadTypes
  <2>3. PICK l \in {"relookup", "compiled"} :
          /\ pc' = [pc EXCEPT ![t] = l]
          /\ l = IF s.caller = "prepare" THEN "relookup" ELSE "compiled"
    BY <1>1, <1>4 DEF Reuse, Goto, AfterCompile
  <2>4. /\ f \in CompileResults /\ NeedsLiteral \subseteq literals
        /\ f.key = s.key /\ (s.key = None => ~ NeedsLaunch)
    <3>1. f \in found
      BY <1>4, <2>1 DEF Found
    <3>2. CASE s.key = None
      <4>1. f \in overloads
        BY <3>1, <3>2 DEF CompileResultsFor, GenericFor
      <4> QED  BY <3>2, <4>1 DEF Base, SharedInv, SharedTypes
    <3>3. CASE s.key # None
      <4>1. f \in lcOverloads /\ f.key = s.key
        BY <3>1, <3>3 DEF CompileResultsFor, SpecialisedFor
      <4> QED  BY <3>3, <4>1 DEF Base, SharedInv, RegistryInv, RegistryTypeOK
    <3> QED  BY <3>2, <3>3
  <2>5. /\ r \in Locals /\ r.m = s.m /\ r.args = s.args /\ r.active = s.active
        /\ r.conf = s.conf /\ r.launcher = s.launcher /\ r.since = s.since
        /\ r.sig = s.sig /\ r.caller = s.caller /\ r.kernel = f
    BY <1>3, <2>4 DEF Locals
  <2> HIDE DEF r
  <2>6. requires => NeedsLaunch
    BY DEF Base, SharedInv
  <2>7. s.key = IF Special(s.m) THEN KeyOf[s.m] ELSE None
    BY <1>3 DEF ThreadOK, LocalOK, CompileOK, Typing
  <2>8. KeyOf[s.m] # None
    BY <1>1, <1>2, Here, LaunchNoneAssumption
  <2>9. f.key = Wanted(s.m)
    BY <2>4, <2>6, <2>7, <2>8 DEF Wanted, Special
  <2>10. ThreadOK(t, l, r)
    BY <1>3, <2>3, <2>4, <2>5, <2>9
       DEF ThreadOK, LocalOK, CompileOK, UsesConf, Labels, Preparing, Compiling, Typing, Locked
  <2> QED  BY <1>2, <2>2, <2>3, <2>10, QuietStep
<1>5. CASE found = {}
  <2>1. pc' = [pc EXCEPT ![t] = "read"] /\ loc' = [loc EXCEPT ![t] = s]
    BY <1>1, <1>5 DEF Reuse, Goto, Base, ThreadTypes
  <2>2. ThreadOK(t, "read", s)
    BY <1>3 DEF ThreadOK, LocalOK, CompileOK, UsesConf, Labels, Preparing, Compiling, Typing, Locked
  <2> QED  BY <1>2, <2>1, <2>2, QuietStep
<1> QED  BY <1>4, <1>5

LEMMA RelookupBase ==
  ASSUME Base, NEW t \in Threads, Relookup(t)
  PROVE  Base'
<1>1. PICK s : s = loc[t]
  OBVIOUS
<1>2. pc[t] = "relookup" /\ Quiet
  BY DEF Relookup, Quiet
<1>3. ThreadOK(t, "relookup", s) /\ s \in Locals /\ marshaller[s.m] # None
  BY <1>1, <1>2, Here
<1>4. PICK lc \in BOOLEAN : lc = UsesLaunchConfig(t)
  BY <1>2, PreparedFor
<1>5. PICK sig \in Sigs : sig = Literalized(s.args, literals)
  BY <1>1, <1>2, Here, LiteralizedType
<1>6. CASE CompileResultsFor(sig, lc, Key(t)) # {}
  <2> DEFINE r == [s EXCEPT !.sig = sig, !.active = [@ EXCEPT !.lc = lc]]
             b == [s.active EXCEPT !.lc = lc]
  <2>1. pc' = [pc EXCEPT ![t] = "select"] /\ loc' = [loc EXCEPT ![t] = r]
    <3>1. CompileResultsFor(Literalized(loc[t].args, literals), UsesLaunchConfig(t), Key(t)) # {}
      BY <1>1, <1>4, <1>5, <1>6
    <3>2. /\ pc' = [pc EXCEPT ![t] = "select"]
          /\ loc' = [loc EXCEPT ![t].sig = Literalized(loc[t].args, literals),
                                ![t].active.lc = UsesLaunchConfig(t)]
      BY <3>1 DEF Relookup, Goto
    <3> QED  BY <1>1, <1>4, <1>5, <3>2 DEF Base, ThreadTypes
  <2>2. s.active \in Bindings /\ Sound(s.active)
    BY <1>3 DEF ThreadOK, LocalOK, Sound
  <2>3. b \in Bindings /\ b.lc = lc /\ b.kd = s.active.kd /\ b.gen = s.active.gen
    BY <2>2 DEF Bindings
  <2> HIDE DEF b
  <2>4. Sound(b)
    BY <2>2, <2>3 DEF Sound
  <2>5. /\ r \in Locals /\ r.m = s.m /\ r.args = s.args /\ r.active = b /\ r.conf = s.conf
        /\ r.launcher = s.launcher /\ r.since = s.since /\ r.sig = sig
    <3>1. PICK u : u = [s EXCEPT !.sig = sig]
      OBVIOUS
    <3>2. u \in Locals /\ u.active = s.active
      BY <1>3, <1>4, <3>1 DEF Locals
    <3>3. r = [u EXCEPT !.active = b]
      BY <1>3, <3>1 DEF b, Locals
    <3>4. [u EXCEPT !.active = b] \in Locals
      BY <2>3, <3>2 DEF Locals
    <3>5. r \in Locals
      BY <3>3, <3>4
    <3> QED  BY <1>3, <3>5 DEF Locals, b
  <2> HIDE DEF r
  <2>6. /\ lc <=> NeedsLaunch \/ marshaller[s.m].optIn
        /\ lc => Special(s.m)
    BY <1>1, <1>2, <1>4, <1>6, PreparedFor, FoundFor DEF Special
  <2>7. ThreadOK(t, "select", r)
    BY <1>3, <2>3, <2>4, <2>5, <2>6
       DEF ThreadOK, LocalOK, CompileOK, UsesConf, Labels, Preparing, Compiling, Typing, Locked
  <2> QED  BY <1>2, <2>1, <2>7, QuietStep
<1>7. CASE CompileResultsFor(sig, lc, Key(t)) = {}
  <2> DEFINE r == [s EXCEPT !.error = "no matching overload"]
  <2>1. pc' = [pc EXCEPT ![t] = "failed"] /\ loc' = [loc EXCEPT ![t] = r]
    BY <1>1, <1>4, <1>5, <1>7 DEF Relookup, Raise, Goto, Base, ThreadTypes
  <2>2. /\ r \in Locals /\ r.m = s.m /\ r.args = s.args /\ r.active = s.active
        /\ r.launcher = s.launcher /\ r.since = s.since
    <3>1. PICK e \in Errors : e = "no matching overload"
      BY DEF Errors
    <3>2. [s EXCEPT !.error = e] \in Locals
      BY <1>3 DEF Locals
    <3> QED  BY <1>3, <3>1, <3>2 DEF Locals
  <2> HIDE DEF r
  <2>3. ThreadOK(t, "failed", r)
    BY <1>3, <2>2
       DEF ThreadOK, LocalOK, CompileOK, UsesConf, Labels, Preparing, Compiling, Typing, Locked
  <2> QED  BY <1>2, <2>1, <2>3, QuietStep
<1> QED  BY <1>6, <1>7

(* A kernel that a native dispatcher has loaded.                           *)
LEMMA LoadedType ==
  ASSUME Base, NEW d, NEW args, LoadedIn(d, args) # {}
  PROVE  /\ Found(LoadedIn(d, args)) \in natives
         /\ Found(LoadedIn(d, args)).in = d.id
         /\ Found(LoadedIn(d, args)).constants = Literalized(args, d.lits)
         /\ Found(LoadedIn(d, args)).kernel \in CompileResults
<1>1. Found(LoadedIn(d, args)) \in LoadedIn(d, args)
  BY DEF Found
<1> QED  BY <1>1 DEF LoadedIn, Base, SharedTypes, LoadedKernels

LEMMA GoBase ==
  ASSUME Base, NEW t \in Threads, Go(t)
  PROVE  Base'
<1>1. PICK s : s = loc[t]
  OBVIOUS
<1>2. pc[t] = "go" /\ Quiet
  BY DEF Go, Quiet
<1>3. ThreadOK(t, "go", s) /\ s \in Locals
  BY <1>1, <1>2, Here
<1>4. PICK l, k : /\ loc' = [loc EXCEPT ![t] = [s EXCEPT !.kernel = k]]
                  /\ pc' = [pc EXCEPT ![t] = l]
                  /\ \/ l = "ran" /\ k \in CompileResults
                     \/ l = "miss" /\ k = None
  BY <1>1, LoadedType DEF Go, Goto, Base, ThreadTypes
<1> DEFINE r == [s EXCEPT !.kernel = k]
<1>5. /\ r \in Locals /\ r.m = s.m /\ r.args = s.args /\ r.active = s.active
      /\ r.launcher = s.launcher /\ r.since = s.since /\ r.kernel = k
  BY <1>3, <1>4 DEF Locals
<1> HIDE DEF r
<1>6. ThreadOK(t, l, r)
  BY <1>3, <1>4, <1>5
     DEF ThreadOK, LocalOK, CompileOK, UsesConf, Labels, Preparing, Compiling, Typing, Locked
<1> QED  BY <1>2, <1>4, <1>6, QuietStep DEF r

-----------------------------------------------------------------------------
(* Actions that move the registry or the locks                             *)

(* What a look-up or an insertion in the registry does.                    *)
Moved ==
    /\ RegistryInv'
    /\ UNCHANGED << generation, c, literals, requires, optIn >>
    /\ made' \in Nat /\ made' >= made
    /\ \A k \in Registered' : Placed(dispatchers[k])'
    /\ lcOverloads' \subseteq lcOverloads

LEMMA StillMoved ==
  ASSUME Base, UNCHANGED registryVars
  PROVE  Moved
<1>1. RegistryInv'
  BY DEF registryVars, Base, RegistryInv, RegistryTypeOK, DispatchersCurrent, Registered, Lists
<1>2. made \in Nat
  BY DEF Base, RegistryInv, RegistryTypeOK
<1>3. \A k \in Registered' : Placed(dispatchers[k])'
  <2> SUFFICES ASSUME NEW k \in Registered' PROVE Placed(dispatchers[k])'
    OBVIOUS
  <2>1. PICK d : d = dispatchers[k]
    OBVIOUS
  <2>2. Placed(d) /\ dispatchers'[k] = d
    BY <2>1 DEF registryVars, Base, SharedInv, Registered
  <2>3. Placed(d)'
    BY <2>2 DEF registryVars, Placed
  <2> QED  BY <2>2, <2>3 DEF Placed
<1> QED  BY <1>1, <1>2, <1>3 DEF Moved, registryVars

(* A registered dispatcher of the generation, wherever it was made.        *)
LEMMA PlacedMoves ==
  ASSUME Base, UNCHANGED << generation, c, literals >>, made' \in Nat, made' >= made,
         NEW d, Placed(d)
  PROVE  Placed(d)'
<1>1. made \in Nat /\ generation \in Nat
  BY DEF Base, RegistryInv, RegistryTypeOK
<1> QED  BY <1>1 DEF Placed, NativeDispatcher

LEMMA TouchMoves ==
  ASSUME Base, NEW k \in LcKeys, dispatchers[k] # None, TouchDispatcher(k)
  PROVE  Moved
<1>1. RegistryInv'
  BY TouchDispatcherInv DEF Base
<1>2. UNCHANGED << generation, c, literals, requires, optIn, dispatchers, lcOverloads, made >>
      /\ made \in Nat
  BY DEF TouchDispatcher, Base, RegistryInv, RegistryTypeOK
<1>3. ASSUME NEW j \in Registered'
      PROVE  Placed(dispatchers[j])'
  <2>1. PICK d : d = dispatchers[j]
    OBVIOUS
  <2>2. Placed(d) /\ dispatchers'[j] = d
    BY <1>2, <2>1 DEF Base, SharedInv, Registered
  <2>3. Placed(d)'
    BY <1>2, <2>2, PlacedMoves
  <2> QED  BY <2>2, <2>3 DEF Placed
<1> QED  BY <1>1, <1>2, <1>3 DEF Moved

LEMMA InsertMoves ==
  ASSUME Base, NEW k \in LcKeys, dispatchers[k] = None, NEW d \in NativeDispatcher,
         d.gen = generation, d.lits = literals, InsertDispatcher(k, d),
         made' \in Nat, made' >= made, d.id < made', d.id >= c.id
  PROVE  Moved
<1>1. RegistryInv'
  BY InsertDispatcherInv DEF Base
<1>2. UNCHANGED << generation, c, literals, requires, optIn >>
      /\ lcOverloads' \subseteq lcOverloads
      /\ dispatchers \in [LcKeys -> NativeDispatcher \cup {None}]
      /\ \A j \in LcKeys : dispatchers'[j] \in {d, None, dispatchers[j]}
  BY DEF InsertDispatcher, Base, RegistryInv, RegistryTypeOK
<1>3. Placed(d)'
  BY <1>2 DEF Placed, Base, RegistryInv, RegistryTypeOK
<1>4. ASSUME NEW j \in Registered'
      PROVE  Placed(dispatchers[j])'
  <2>1. PICK e : e = dispatchers'[j]
    OBVIOUS
  <2>2. j \in LcKeys /\ e # None
    BY <2>1 DEF Registered
  <2>3. e = d \/ (e = dispatchers[j] /\ Placed(e))
    BY <1>2, <2>1, <2>2 DEF Base, SharedInv, Registered
  <2>4. Placed(e)'
    BY <1>2, <1>3, <2>3, PlacedMoves
  <2> QED  BY <2>1, <2>4 DEF Placed
<1> QED  BY <1>1, <1>2, <1>4 DEF Moved

(* _get_launch_config_dispatcher_and_generation returns what is current.   *)
LEMMA ObtainMoves ==
  ASSUME Base, NEW k \in LcKeys, GetLaunchDispatcher(k)
  PROVE  /\ Moved
         /\ Obtained(k) \in NativeDispatcher /\ Obtained(k).gen = generation
         /\ \A d : d = Obtained(k) => Placed(d)'
<1>1. made \in Nat /\ generation \in Nat /\ literals \in SUBSET Positions /\ made > c.id
      /\ c \in NativeDispatcher
  BY DEF Base, RegistryInv, RegistryTypeOK, SharedInv
<1>2. CASE dispatchers[k] # None
  <2>1. Moved /\ made' = made
    BY <1>2, TouchMoves DEF GetLaunchDispatcher, TouchDispatcher
  <2>2. PICK d : d = Obtained(k)
    OBVIOUS
  <2>3. d = dispatchers[k] /\ d \in NativeDispatcher /\ d.gen = generation /\ Placed(d)
    BY <1>2, <2>2, RegisteredIsCurrent DEF Obtained, Base, SharedInv, Registered
  <2>4. Placed(d)'
    BY <1>1, <2>1, <2>3, PlacedMoves DEF Moved
  <2> QED  BY <2>1, <2>2, <2>3, <2>4
<1>3. CASE dispatchers[k] = None
  <2>1. PICK d : d = Obtained(k)
    OBVIOUS
  <2>2. /\ d \in NativeDispatcher /\ d.gen = generation /\ d.lits = literals /\ d.id = made
    BY <1>1, <1>3, <2>1, NewKernelDispatcherType DEF Obtained, NewKernelDispatcher
  <2>3. InsertDispatcher(k, d) /\ made' = made + 1
    BY <1>3, <2>1 DEF GetLaunchDispatcher
  <2>4. Moved
    BY <1>1, <1>3, <2>2, <2>3, InsertMoves DEF NativeDispatcher
  <2>5. Placed(d)'
    BY <1>1, <2>2, <2>3, <2>4 DEF Placed, Moved, NativeDispatcher
  <2> QED  BY <2>1, <2>2, <2>4, <2>5
<1> QED  BY <1>2, <1>3

LEMMA MovedForward ==
  ASSUME Base, Moved, UNCHANGED << floor, marshaller >>
  PROVE  Forward /\ Steady
BY QuietForward DEF Moved, Steady

LEMMA MovedShared ==
  ASSUME Base, Moved, UNCHANGED sharedVars,
         launchLock' \in Threads \cup {None, "recompile"}, compilerLock' \in Threads \cup {None}
  PROVE  SharedTypes' /\ SharedInv'
<1>1. SharedTypes'
  BY DEF Base, SharedTypes, sharedVars
<1>2. made' > c'.id
  BY DEF Base, SharedInv, Moved, RegistryInv, RegistryTypeOK, NativeDispatcher
<1> QED  BY <1>1, <1>2 DEF Base, SharedInv, sharedVars, Moved

LEMMA MovedStep ==
  ASSUME Base, NEW t \in Threads, Moved, UNCHANGED sharedVars,
         launchLock' \in Threads \cup {None, "recompile"}, compilerLock' \in Threads \cup {None},
         compilerLock' = compilerLock \/ compilerLock \in {None, t},
         NEW l, NEW r, LocalOK(l, r)', l \in Locked => compilerLock' = t,
         pc' = [pc EXCEPT ![t] = l], loc' = [loc EXCEPT ![t] = r]
  PROVE  Base'
<1>1. Forward /\ Steady
  BY MovedForward DEF sharedVars
<1>2. \A u \in Threads \ {t} : pc[u] \in Locked => Unhurried
  <2>1. CASE compilerLock' = compilerLock
    BY <1>1, <2>1 DEF Unhurried
  <2>2. CASE compilerLock \in {None, t}
    BY <2>2, Alone
  <2> QED  BY <2>1, <2>2
<1>3. ThreadOK(t, l, r)'
  BY DEF ThreadOK
<1>4. ThreadTypes' /\ \A u \in Threads : ThreadInv(u)'
  BY <1>1, <1>2, <1>3, OthersKept
<1>5. \A m \in Objects : MarshallerOK(m)'
  BY <1>1, MarshallersKept DEF sharedVars
<1> QED  BY <1>4, <1>5, MovedShared DEF Base, Moved

(* LocalOK of a thread that Forward and Steady do not disturb.             *)
LEMMA MovedLocal ==
  ASSUME Base, Moved, UNCHANGED << floor, marshaller >>, NEW l, NEW r, LocalOK(l, r)
  PROVE  LocalOK(l, r)'
BY MovedForward, LocalKept

LEMMA LockTypes ==
  ASSUME Base
  PROVE  launchLock \in Threads \cup {None, "recompile"} /\ compilerLock \in Threads \cup {None}
BY DEF Base, SharedTypes

LEMMA TakeLaunchLockBase ==
  ASSUME Base, NEW t \in Threads, TakeLaunchLock(t)
  PROVE  Base'
<1>1. PICK s : s = loc[t]
  OBVIOUS
<1>2. /\ pc[t] = "call" /\ pc' = [pc EXCEPT ![t] = "snapshot"] /\ loc' = [loc EXCEPT ![t] = s]
      /\ UNCHANGED << registryVars, sharedVars, compilerLock >> /\ launchLock' = t
  BY <1>1 DEF TakeLaunchLock, Goto, Base, ThreadTypes
<1>3. LocalOK("call", s)
  BY <1>1, <1>2, Here DEF ThreadOK
<1>4. LocalOK("snapshot", s)
  BY <1>3 DEF LocalOK, CompileOK, UsesConf, Labels, Preparing, Compiling, Typing
<1>5. Moved
  BY <1>2, StillMoved
<1>6. LocalOK("snapshot", s)'
  BY <1>2, <1>4, <1>5, MovedLocal DEF sharedVars
<1> QED  BY <1>2, <1>5, <1>6, MovedStep, LockTypes DEF Locked, Preparing, Compiling

LEMMA PrepareBase ==
  ASSUME Base, NEW t \in Threads, Prepare(t)
  PROVE  Base'
<1>1. PICK s : s = loc[t]
  OBVIOUS
<1>2. pc[t] = "prepare"
  BY DEF Prepare
<1>3. PICK sig \in Sigs : sig = Literalized(s.args, literals)
  BY <1>1, <1>2, Here, LiteralizedType
<1> DEFINE r == [s EXCEPT !.sig = sig]
<1>4. /\ pc' = [pc EXCEPT ![t] = "prepared"] /\ loc' = [loc EXCEPT ![t] = r]
      /\ UNCHANGED << registryVars, sharedVars, launchLock >>
      /\ compilerLock = None /\ compilerLock' = t
  BY <1>1, <1>3 DEF Prepare, Goto, Base, ThreadTypes
<1>5. LocalOK("prepare", s) /\ s \in Locals
  BY <1>1, <1>2, Here DEF ThreadOK
<1>6. /\ r \in Locals /\ r.m = s.m /\ r.args = s.args /\ r.active = s.active
      /\ r.conf = s.conf /\ r.launcher = s.launcher /\ r.since = s.since /\ r.sig = sig
  BY <1>5 DEF Locals
<1> HIDE DEF r
<1>7. LocalOK("prepared", r)
  BY <1>5, <1>6 DEF LocalOK, CompileOK, UsesConf, Labels, Preparing, Compiling, Typing
<1>8. Moved
  BY <1>4, StillMoved
<1>9. LocalOK("prepared", r)'
  BY <1>4, <1>7, <1>8, MovedLocal DEF sharedVars
<1> QED  BY <1>4, <1>8, <1>9, MovedStep, LockTypes

LEMMA MissBase ==
  ASSUME Base, NEW t \in Threads, Miss(t)
  PROVE  Base'
<1>1. PICK s : s = loc[t]
  OBVIOUS
<1>2. pc[t] = "miss"
  BY DEF Miss
<1> DEFINE r == [s EXCEPT !.caller = "native", !.budget = RetryBudget]
<1>3. /\ pc' = [pc EXCEPT ![t] = "compile"] /\ loc' = [loc EXCEPT ![t] = r]
      /\ UNCHANGED << registryVars, sharedVars, launchLock >>
      /\ compilerLock = None /\ compilerLock' = t
  BY <1>1 DEF Miss, Goto, Base, ThreadTypes
<1>4. LocalOK("miss", s) /\ s \in Locals
  BY <1>1, <1>2, Here DEF ThreadOK
<1>5. /\ r \in Locals /\ r.m = s.m /\ r.args = s.args /\ r.active = s.active
      /\ r.launcher = s.launcher /\ r.since = s.since /\ r.caller = "native"
  <2>1. r \in Locals
    BY <1>4, LaunchAssumption, ZenonT(30) DEF Locals
  <2> QED  BY <1>4, <2>1 DEF Locals
<1> HIDE DEF r
<1>6. LocalOK("compile", r)
  BY <1>4, <1>5 DEF LocalOK, CompileOK, UsesConf, Labels, Preparing, Compiling, Typing
<1>7. Moved
  BY <1>3, StillMoved
<1>8. LocalOK("compile", r)'
  BY <1>3, <1>6, <1>7, MovedLocal DEF sharedVars
<1> QED  BY <1>3, <1>7, <1>8, MovedStep, LockTypes

LEMMA CompileReturnsBase ==
  ASSUME Base, NEW t \in Threads, CompileReturns(t)
  PROVE  Base'
<1>1. PICK s : s = loc[t]
  OBVIOUS
<1>2. /\ pc[t] = "compiled" /\ pc' = [pc EXCEPT ![t] = "emplace"]
      /\ loc' = [loc EXCEPT ![t] = s] /\ compilerLock' = None
      /\ UNCHANGED << registryVars, sharedVars, launchLock >>
  BY <1>1 DEF CompileReturns, Goto, Base, ThreadTypes
<1>3. LocalOK("compiled", s) /\ compilerLock = t
  BY <1>1, <1>2, Here DEF ThreadOK, Locked
<1>4. LocalOK("emplace", s)
  BY <1>3 DEF LocalOK, CompileOK, UsesConf, Labels, Preparing, Compiling, Typing
<1>5. Moved
  BY <1>2, StillMoved
<1>6. LocalOK("emplace", s)'
  BY <1>2, <1>4, <1>5, MovedLocal DEF sharedVars
<1> QED  BY <1>2, <1>3, <1>5, <1>6, MovedStep, LockTypes DEF Locked, Preparing, Compiling

LEMMA NoLocalsOK ==
  ASSUME Base
  PROVE  LocalOK("idle", NoLocals)
<1>1. NoLocals \in Locals
  BY DEF NoLocals, Locals, NoBinding
<1>2. NoLocals.since = 0 /\ floor >= 0
  BY DEF NoLocals, Base, SharedTypes
<1> QED  BY <1>1, <1>2 DEF LocalOK, CompileOK, UsesConf, Labels, Preparing, Compiling, Typing

LEMMA LeaveBase ==
  ASSUME Base, NEW t \in Threads, Leave(t)
  PROVE  Base'
<1>1. PICK r : r = NoLocals
  OBVIOUS
<1>2. /\ pc' = [pc EXCEPT ![t] = "idle"] /\ loc' = [loc EXCEPT ![t] = r]
      /\ UNCHANGED << registryVars, sharedVars >>
      /\ launchLock' = (IF launchLock = t THEN None ELSE launchLock)
      /\ compilerLock' = (IF compilerLock = t THEN None ELSE compilerLock)
  BY <1>1 DEF Leave, Goto
<1>3. Moved
  BY <1>2, StillMoved
<1>4. LocalOK("idle", r)'
  BY <1>1, <1>2, <1>3, NoLocalsOK, MovedLocal DEF sharedVars
<1> QED  BY <1>2, <1>3, <1>4, MovedStep, LockTypes DEF Locked, Preparing, Compiling

LEMMA ReadyBase ==
  ASSUME Base, NEW t \in Threads, Ready(t)
  PROVE  Base'
<1>1. PICK s : s = loc[t]
  OBVIOUS
<1>2. pc[t] = "ready" /\ UNCHANGED << sharedVars, launchLock, compilerLock >>
  BY DEF Ready
<1>3. /\ LocalOK("ready", s) /\ s \in Locals /\ KeyOf[s.m] \in LcKeys
      /\ marshaller[s.m] # None
  BY <1>1, <1>2, Here DEF ThreadOK
<1>4. CASE ReadyForLaunchConfig(t)
  <2> DEFINE b == [s.active EXCEPT !.lc = TRUE, !.kd = s.conf.kd, !.gen = s.conf.gen]
             r == [s EXCEPT !.active = [@ EXCEPT !.lc = TRUE, !.kd = s.conf.kd,
                                                 !.gen = s.conf.gen]]
  <2>1. s.active \in Bindings
    BY <1>3 DEF LocalOK, Sound
  <2>2. BindingOK(s.conf, s.m) /\ s.conf \in Bindings /\ Sound(s.conf) /\ Special(s.m)
    BY <1>3 DEF LocalOK, UsesConf, BindingOK, Sound
  <2>3. b \in Bindings /\ b.lc /\ b.kd = s.conf.kd /\ b.gen = s.conf.gen
    BY <2>1, <2>2 DEF Bindings
  <2>4. r = [s EXCEPT !.active = b]
    BY <1>3 DEF Locals
  <2> HIDE DEF b
  <2>5. Sound(b)
    BY <2>2, <2>3 DEF Sound
  <2>6. /\ TouchDispatcher(KeyOf[s.m])
        /\ pc' = [pc EXCEPT ![t] = "rebind"] /\ loc' = [loc EXCEPT ![t] = r]
    BY <1>1, <1>4 DEF Ready, Goto, Key, Base, ThreadTypes
  <2>7. dispatchers[KeyOf[s.m]] # None
    <3>1. dispatchers[KeyOf[s.m]] = s.conf.kd
      BY <1>1, <1>4 DEF ReadyForLaunchConfig, Key
    <3> QED  BY <2>2, <3>1, NoneAssumption DEF Bindings
  <2>8. Moved
    BY <1>3, <2>6, <2>7, TouchMoves
  <2>9. /\ r \in Locals /\ r.m = s.m /\ r.args = s.args /\ r.active = b
        /\ r.launcher = s.launcher /\ r.since = s.since
    BY <1>3, <2>3, <2>4 DEF Locals
  <2> HIDE DEF r
  <2>10. NeedsLaunch \/ marshaller[s.m].optIn
    BY <2>2 DEF Special, Base, SharedInv
  <2>11. LocalOK("rebind", r)
    BY <1>3, <2>2, <2>3, <2>5, <2>9, <2>10
       DEF LocalOK, CompileOK, UsesConf, Labels, Preparing, Compiling, Typing, BindingOK
  <2>12. LocalOK("rebind", r)'
    BY <1>2, <2>8, <2>11, MovedLocal DEF sharedVars
  <2> QED  BY <1>2, <2>6, <2>8, <2>12, MovedStep, LockTypes DEF Locked, Preparing, Compiling
<1>5. CASE ~ ReadyForLaunchConfig(t)
  <2>1. /\ pc' = [pc EXCEPT ![t] = "prepare"] /\ loc' = [loc EXCEPT ![t] = s]
        /\ UNCHANGED registryVars
    BY <1>1, <1>5 DEF Ready, Goto, Base, ThreadTypes
  <2>2. Moved
    BY <2>1, StillMoved
  <2>3. LocalOK("prepare", s)
    BY <1>3 DEF LocalOK, CompileOK, UsesConf, Labels, Preparing, Compiling, Typing
  <2>4. LocalOK("prepare", s)'
    BY <1>2, <2>2, <2>3, MovedLocal DEF sharedVars
  <2> QED  BY <1>2, <2>1, <2>2, <2>4, MovedStep, LockTypes DEF Locked, Preparing, Compiling
<1> QED  BY <1>4, <1>5

LEMMA ReadyAfterAllBase ==
  ASSUME Base, NEW t \in Threads, ReadyAfterAll(t)
  PROVE  Base'
<1>1. PICK s : s = loc[t]
  OBVIOUS
<1>2. pc[t] = "prepared" /\ UNCHANGED << sharedVars, launchLock >> /\ compilerLock' = None
  BY DEF ReadyAfterAll
<1>3. /\ LocalOK("prepared", s) /\ s \in Locals /\ KeyOf[s.m] \in LcKeys
      /\ marshaller[s.m] # None /\ compilerLock = t
  BY <1>1, <1>2, Here DEF ThreadOK, Locked, Preparing
<1>4. PICK lc \in BOOLEAN : lc = UsesLaunchConfig(t)
  BY <1>2, PreparedFor
<1> DEFINE b == [s.conf EXCEPT !.lc = lc]
           r == [s EXCEPT !.active = b]
<1>5. BindingOK(s.conf, s.m) /\ s.conf \in Bindings /\ Sound(s.conf)
  BY <1>3 DEF LocalOK, UsesConf, Preparing, BindingOK, Sound
<1>6. b \in Bindings /\ b.lc = lc /\ b.kd = s.conf.kd /\ b.gen = s.conf.gen
  BY <1>5 DEF Bindings
<1>7. pc' = [pc EXCEPT ![t] = "rebind"] /\ loc' = [loc EXCEPT ![t] = r]
  BY <1>1, <1>4 DEF ReadyAfterAll, Goto
<1> HIDE DEF b
<1>8. Sound(b)
  BY <1>5, <1>6 DEF Sound
<1>9. /\ r \in Locals /\ r.m = s.m /\ r.args = s.args /\ r.active = b
      /\ r.launcher = s.launcher /\ r.since = s.since
  BY <1>3, <1>6 DEF Locals
<1> HIDE DEF r
<1>10. lc <=> NeedsLaunch \/ marshaller[s.m].optIn
  <2>1. CASE lc
    BY <1>1, <1>2, <1>4, <2>1, PreparedFor
  <2>2. CASE ~ lc
    <3>1. overloads # {}
      BY <1>4, <2>2 DEF ReadyAfterAll, ReadyForGeneric, GenericFor
    <3>2. ~ NeedsLaunch
      BY <3>1 DEF Base, SharedInv
    <3> QED  BY <1>1, <1>2, <1>4, <2>2, <3>2, PreparedFor DEF Special
  <2> QED  BY <2>1, <2>2
<1>11. BindingOK(b, s.m)
  BY <1>1, <1>2, <1>4, <1>5, <1>6, <1>8, <1>10, PreparedFor DEF BindingOK, Special
<1>12. LocalOK("rebind", r)
  BY <1>3, <1>6, <1>8, <1>9, <1>10, <1>11
     DEF LocalOK, CompileOK, UsesConf, Labels, Preparing, Compiling, Typing
<1>13. Moved
  <2>1. CASE lc
    <3>1. TouchDispatcher(KeyOf[s.m]) /\ dispatchers[KeyOf[s.m]] = s.conf.kd
      BY <1>1, <1>4, <2>1 DEF ReadyAfterAll, ReadyForLaunchConfig, Key
    <3>2. dispatchers[KeyOf[s.m]] # None
      BY <1>5, <3>1, NoneAssumption DEF Bindings
    <3> QED  BY <1>3, <3>1, <3>2, TouchMoves
  <2>2. CASE ~ lc
    BY <1>4, <2>2, StillMoved DEF ReadyAfterAll
  <2> QED  BY <2>1, <2>2
<1>14. LocalOK("rebind", r)'
  BY <1>2, <1>12, <1>13, MovedLocal DEF sharedVars
<1> QED  BY <1>2, <1>3, <1>7, <1>13, <1>14, MovedStep, LockTypes DEF Locked, Preparing, Compiling

LEMMA RememberRetainedBase ==
  ASSUME Base, NEW t \in Threads, RememberRetained(t)
  PROVE  Base'
<1>1. PICK s : s = loc[t]
  OBVIOUS
<1>2. /\ pc[t] = "remember" /\ UNCHANGED << sharedVars, launchLock, compilerLock >>
      /\ pc' = [pc EXCEPT ![t] = "compile"] /\ loc' = [loc EXCEPT ![t] = s]
  BY <1>1 DEF RememberRetained, Goto, Base, ThreadTypes
<1>3. /\ LocalOK("remember", s) /\ s \in Locals /\ KeyOf[s.m] \in LcKeys
      /\ marshaller[s.m] # None /\ compilerLock = t
  BY <1>1, <1>2, Here DEF ThreadOK, Locked, Preparing
<1>4. LocalOK("compile", s)
  BY <1>3 DEF LocalOK, CompileOK, UsesConf, Labels, Preparing, Compiling, Typing
<1>5. Moved
  <2>1. PICK d : d = s.conf.kd
    OBVIOUS
  <2>2. /\ Placed(d) /\ (s.conf.gen # None => s.conf.gen = d.gen)
        /\ d \in NativeDispatcher /\ s.conf \in Bindings
    BY <1>3, <2>1 DEF LocalOK, UsesConf, Preparing, BindingOK, Sound, Placed
  <2>3. made \in Nat /\ generation \in Nat /\ generation # None
    BY LaunchNoneAssumption DEF Base, RegistryInv, RegistryTypeOK
  <2>4. CASE /\ s.conf.gen = generation /\ dispatchers[KeyOf[s.m]] = None
             /\ InsertDispatcher(KeyOf[s.m], d) /\ UNCHANGED made
    <3>1. d.gen = generation /\ d.lits = literals /\ d.id < made /\ d.id >= c.id
      BY <2>2, <2>3, <2>4 DEF Placed
    <3> QED  BY <1>3, <2>2, <2>3, <2>4, <3>1, InsertMoves
  <2>5. CASE /\ s.conf.gen = generation /\ dispatchers[KeyOf[s.m]] = d
             /\ TouchDispatcher(KeyOf[s.m])
    BY <1>3, <2>2, <2>5, TouchMoves, NoneAssumption
  <2>6. CASE UNCHANGED registryVars
    BY <2>6, StillMoved
  <2> QED  BY <1>1, <2>1, <2>4, <2>5, <2>6 DEF RememberRetained, Key
<1>6. LocalOK("compile", s)'
  BY <1>2, <1>4, <1>5, MovedLocal DEF sharedVars
<1> QED  BY <1>2, <1>3, <1>5, <1>6, MovedStep, LockTypes

LEMMA SelectBase ==
  ASSUME Base, NEW t \in Threads, Select(t)
  PROVE  Base'
<1>1. PICK s : s = loc[t]
  OBVIOUS
<1>2. /\ pc[t] = "select" /\ UNCHANGED << sharedVars, launchLock >> /\ compilerLock' = None
      /\ pc' = [pc EXCEPT ![t] = "rebind"]
  BY DEF Select, Goto
<1>3. /\ LocalOK("select", s) /\ s \in Locals /\ KeyOf[s.m] \in LcKeys
      /\ marshaller[s.m] # None /\ compilerLock = t /\ generation \in Nat
  BY <1>1, <1>2, Here DEF ThreadOK, Locked, Preparing
<1>4. /\ BindingOK(s.conf, s.m) /\ s.conf \in Bindings
      /\ (s.active.lc <=> NeedsLaunch \/ marshaller[s.m].optIn)
      /\ (s.active.lc => Special(s.m))
      /\ s.active \in Bindings
  BY <1>3 DEF LocalOK, UsesConf, Preparing, BindingOK, Sound
<1>5. ASSUME NEW b \in Bindings, Moved, Sound(b)', b.lc = s.active.lc,
             b.gen # None => b.lc, b.lc => Special(s.m),
             loc' = [loc EXCEPT ![t] = [s EXCEPT !.active = b]]
      PROVE  Base'
  <2> DEFINE r == [s EXCEPT !.active = b]
  <2>1. /\ r \in Locals /\ r.m = s.m /\ r.args = s.args /\ r.active = b
        /\ r.launcher = s.launcher /\ r.since = s.since
    BY <1>3, <1>5 DEF Locals
  <2> HIDE DEF r
  <2>2. LocalOK("select", s)'
    BY <1>2, <1>3, <1>5, MovedLocal DEF sharedVars
  <2>3. BindingOK(b, s.m)'
    BY <1>2, <1>4, <1>5 DEF BindingOK, Special, Moved, sharedVars
  <2>4. b.lc <=> NeedsLaunch \/ marshaller'[s.m].optIn
    BY <1>2, <1>4, <1>5 DEF sharedVars
  <2>5. LocalOK("rebind", r)'
    BY <1>5, <2>1, <2>2, <2>3, <2>4
       DEF LocalOK, CompileOK, UsesConf, Labels, Preparing, Compiling, Typing
  <2> QED  BY <1>2, <1>3, <1>5, <2>5, MovedStep, LockTypes
           DEF Locked, Preparing, Compiling, r
<1>6. CASE ~ s.active.lc /\ UNCHANGED registryVars
           /\ loc' = [loc EXCEPT ![t] = [s EXCEPT !.active = [lc |-> FALSE, kd |-> c, gen |-> None]]]
  <2>1. PICK b : b = [lc |-> FALSE, kd |-> c, gen |-> None]
    OBVIOUS
  <2>2. b \in Bindings /\ Sound(b) /\ ~ b.lc /\ b.gen = None
    BY <2>1, CurrentPlaced
  <2>3. Moved
    BY <1>6, StillMoved
  <2>4. Sound(b)'
    BY <1>2, <2>2, <2>3, MovedForward, SoundKept DEF sharedVars
  <2>5. b.lc = s.active.lc
    BY <1>4, <1>6, <2>1 DEF Bindings
  <2> QED  BY <1>5, <1>6, <2>1, <2>2, <2>3, <2>4, <2>5
<1>7. CASE /\ s.active.lc /\ s.conf.gen = generation /\ UNCHANGED registryVars
           /\ loc' = [loc EXCEPT ![t] = [s EXCEPT !.active = s.conf]]
  <2>1. PICK b : b = s.conf
    OBVIOUS
  <2>2. Sound(b) /\ b \in Bindings /\ b.lc /\ Special(s.m)
    BY <1>3, <1>4, <1>7, <2>1, LaunchNoneAssumption DEF BindingOK
  <2>3. Moved
    BY <1>7, StillMoved
  <2>4. Sound(b)'
    BY <1>2, <2>2, <2>3, MovedForward, SoundKept DEF sharedVars
  <2>5. b.lc = s.active.lc
    BY <1>4, <1>7, <2>2 DEF Bindings
  <2> QED  BY <1>5, <1>7, <2>1, <2>2, <2>3, <2>4, <2>5
<1>8. CASE /\ s.active.lc /\ GetLaunchDispatcher(KeyOf[s.m])
           /\ loc' = [loc EXCEPT ![t] = [s EXCEPT !.active =
                        [lc |-> TRUE, kd |-> Obtained(KeyOf[s.m]), gen |-> generation]]]
  <2>1. PICK b, d, g : /\ d = Obtained(KeyOf[s.m]) /\ g = generation
                       /\ b = [lc |-> TRUE, kd |-> d, gen |-> g]
    OBVIOUS
  <2>2. Moved /\ d \in NativeDispatcher /\ d.gen = g /\ Placed(d)'
    BY <1>3, <1>8, <2>1, ObtainMoves
  <2>3. b \in Bindings /\ b.lc = TRUE /\ Sound(b)'
    BY <1>3, <2>1, <2>2 DEF Bindings, Sound
  <2>4. Special(s.m)
    BY <1>4, <1>8
  <2>5. b.lc = s.active.lc
    BY <1>4, <1>8, <2>3 DEF Bindings
  <2> QED  BY <1>5, <1>8, <2>1, <2>2, <2>3, <2>4, <2>5
<1> QED  BY <1>1, <1>6, <1>7, <1>8 DEF Select, Key, Base, ThreadTypes

(* A step of t after which the shared state is in order.                   *)
LEMMA StepBase ==
  ASSUME Base, NEW t \in Threads, Forward, RegistryInv', SharedTypes', SharedInv',
         \A m \in Objects : MarshallerOK(m)' \/ marshaller' = marshaller,
         \A u \in Threads \ {t} : pc[u] \in Locked => Unhurried,
         NEW l, NEW r, ThreadOK(t, l, r)',
         pc' = [pc EXCEPT ![t] = l], loc' = [loc EXCEPT ![t] = r]
  PROVE  Base'
<1>1. ThreadTypes' /\ \A u \in Threads : ThreadInv(u)'
  BY OthersKept
<1>2. \A m \in Objects : MarshallerOK(m)'
  BY MarshallersKept
<1> QED  BY <1>1, <1>2 DEF Base

LEMMA EmplaceBase ==
  ASSUME Base, NEW t \in Threads, Emplace(t)
  PROVE  Base'
<1>1. PICK s, d : s = loc[t] /\ d = loc[t].launcher
  OBVIOUS
<1>2. /\ pc[t] = "emplace" /\ pc' = [pc EXCEPT ![t] = "ran"]
      /\ UNCHANGED << registryVars, overloads, marshaller, world, planners, floor, recompiling,
                      launches, launchLock, compilerLock >>
  BY DEF Emplace, Goto
<1>3. /\ LocalOK("emplace", s) /\ s \in Locals /\ s.args \in [Positions -> Values]
      /\ s.kernel \in CompileResults /\ NeedsLiteral \subseteq literals
      /\ d \in NativeDispatcher
  BY <1>1, <1>2, Here DEF ThreadOK, LocalOK, CompileOK, Placed
<1>4. PICK k \in CompileResults : loc' = [loc EXCEPT ![t] = [s EXCEPT !.kernel = k]]
  <2>1. CASE LoadedIn(d, s.args) # {}
    BY <1>1, <2>1, LoadedType DEF Emplace, Base, ThreadTypes
  <2>2. CASE LoadedIn(d, s.args) = {}
    <3>1. loc' = loc
      BY <1>1, <2>2 DEF Emplace
    <3>2. s = [s EXCEPT !.kernel = s.kernel]
      BY <1>3 DEF Locals
    <3> QED  BY <1>1, <1>3, <3>1, <3>2 DEF Base, ThreadTypes
  <2> QED  BY <2>1, <2>2
<1> DEFINE r == [s EXCEPT !.kernel = k]
<1>5. /\ r \in Locals /\ r.m = s.m /\ r.args = s.args /\ r.active = s.active
      /\ r.launcher = s.launcher /\ r.since = s.since /\ r.kernel = k
  BY <1>3, <1>4 DEF Locals
<1> HIDE DEF r
<1>6. LocalOK("ran", r)
  BY <1>3, <1>5 DEF LocalOK, CompileOK, UsesConf, Labels, Preparing, Compiling, Typing
<1>7. Moved
  BY <1>2, StillMoved
<1>8. Forward /\ Unhurried
  BY <1>2, <1>7, MovedForward DEF Unhurried
<1>9. LocalOK("ran", r)'
  BY <1>2, <1>6, <1>7, MovedLocal
<1>10. SharedTypes'
  <2>1. PICK n : n = [in |-> d.id, kernel |-> s.kernel, constants |-> Literalized(s.args, d.lits)]
    OBVIOUS
  <2>2. n \in LoadedKernels
    BY <1>3, <2>1, LiteralizedType DEF LoadedKernels, NativeDispatcher
  <2>3. natives' = natives \/ natives' = natives \cup {n}
    BY <1>1, <2>1 DEF Emplace
  <2> QED  BY <1>2, <2>2, <2>3 DEF Base, SharedTypes
<1>11. SharedInv'
  BY <1>2, <1>3, <1>7 DEF Base, SharedInv, Moved, registryVars
<1> QED  BY <1>2, <1>4, <1>7, <1>8, <1>9, <1>10, <1>11, StepBase DEF r, Moved, ThreadOK, Locked, Preparing, Compiling

(* What a compilation that ends well leaves in the locals.                 *)
LEMMA PublishedOK ==
  ASSUME Base, NEW t \in Threads, pc[t] = "publish", NEW k \in CompileResults,
         k.key = loc[t].key, NEW l, l = AfterCompile(t),
         NEW r, r = [loc[t] EXCEPT !.kernel = k]
  PROVE  ThreadOK(t, l, r) /\ l \in Locked
<1>1. PICK s : s = loc[t]
  OBVIOUS
<1>2. ThreadOK(t, "publish", s) /\ s \in Locals /\ KeyOf[s.m] # None
  BY <1>1, Here, LaunchNoneAssumption
<1>3. /\ r \in Locals /\ r.m = s.m /\ r.args = s.args /\ r.active = s.active
      /\ r.conf = s.conf /\ r.launcher = s.launcher /\ r.since = s.since
      /\ r.sig = s.sig /\ r.caller = s.caller /\ r.kernel = k
  BY <1>1, <1>2 DEF Locals
<1>4. l = IF s.caller = "prepare" THEN "relookup" ELSE "compiled"
  BY <1>1 DEF AfterCompile
<1>5. k.key = Wanted(s.m)
  <2>1. s.key = IF Special(s.m) THEN KeyOf[s.m] ELSE None
    BY <1>2 DEF ThreadOK, LocalOK, CompileOK, Typing
  <2>2. NeedsLaunch => s.key # None
    BY <1>2 DEF ThreadOK, LocalOK, CompileOK
  <2>3. requires => NeedsLaunch
    BY DEF Base, SharedInv
  <2> QED  BY <1>1, <1>2, <2>1, <2>2, <2>3 DEF Wanted, Special
<1> QED  BY <1>2, <1>3, <1>4, <1>5
         DEF ThreadOK, LocalOK, CompileOK, UsesConf, Labels, Preparing, Compiling, Typing, Locked

LEMMA CompiledType ==
  ASSUME Base, NEW t \in Threads, pc[t] = "publish"
  PROVE  /\ Compiled(t) \in CompileResults
         /\ Compiled(t).sig = loc[t].sig /\ Compiled(t).key = loc[t].key
         /\ Compiled(t).world = loc[t].read
<1>1. PICK s : s = loc[t]
  OBVIOUS
<1>2. ThreadOK(t, "publish", s) /\ s \in Locals /\ s.args \in [Positions -> Values]
  BY <1>1, Here
<1>3. s.sig \in Sigs
  BY <1>2, LiteralizedType DEF ThreadOK, LocalOK, CompileOK, Typing
<1> QED  BY <1>1, <1>2, <1>3 DEF Compiled, CompileResults, Locals

LEMMA PublishGenericBase ==
  ASSUME Base, NEW t \in Threads, PublishGeneric(t)
  PROVE  Base'
<1>1. PICK s, k, l : s = loc[t] /\ k = Compiled(t) /\ l = AfterCompile(t)
  OBVIOUS
<1>2. PICK r : r = [s EXCEPT !.kernel = k]
  OBVIOUS
<1>3. /\ pc[t] = "publish" /\ pc' = [pc EXCEPT ![t] = l] /\ loc' = [loc EXCEPT ![t] = r]
      /\ UNCHANGED << registryVars, natives, marshaller, world, planners, floor, recompiling,
                      launches, launchLock, compilerLock >>
      /\ overloads' = (overloads \ GenericFor(s.sig)) \cup {k} /\ s.key = None
  BY <1>1, <1>2 DEF PublishGeneric, Goto, Base, ThreadTypes
<1>4. k \in CompileResults /\ k.key = None
  BY <1>1, <1>3, CompiledType
<1>5. ThreadOK(t, l, r) /\ l \in Locked
  BY <1>1, <1>2, <1>3, <1>4, PublishedOK
<1>6. ThreadOK(t, "publish", s)
  BY <1>1, <1>3, Here
<1>7. NeedsLiteral \subseteq literals /\ ~ NeedsLaunch
  BY <1>3, <1>6 DEF ThreadOK, LocalOK, CompileOK
<1>8. Moved
  BY <1>3, StillMoved
<1>9. Forward /\ Unhurried
  BY <1>3, <1>8, MovedForward DEF Unhurried
<1>10. ThreadOK(t, l, r)'
  BY <1>5, <1>9, ThreadKept
<1>11. SharedTypes'
  BY <1>3, <1>4 DEF Base, SharedTypes
<1>12. SharedInv'
  BY <1>3, <1>4, <1>7, <1>8 DEF Base, SharedInv, Moved, registryVars
<1> QED  BY <1>3, <1>8, <1>9, <1>10, <1>11, <1>12, StepBase DEF Moved

LEMMA PublishSpecialisedBase ==
  ASSUME Base, NEW t \in Threads, PublishSpecialised(t)
  PROVE  Base'
<1>1. PICK s : s = loc[t]
  OBVIOUS
<1>2. /\ pc[t] = "publish" /\ s.key # None
      /\ UNCHANGED << generation, c, literals, requires, optIn, dispatchers, dispatcherLru,
                      old, made, sharedVars, launchLock, compilerLock >>
  BY <1>1 DEF PublishSpecialised
<1>3. ThreadOK(t, "publish", s) /\ s \in Locals /\ KeyOf[s.m] # None
  BY <1>1, <1>2, Here, LaunchNoneAssumption
<1>4. CASE Overtaken(t) /\ s.budget = 0
  <2> DEFINE r == [s EXCEPT !.error = "invalidated repeatedly"]
  <2>1. /\ pc' = [pc EXCEPT ![t] = "failed"] /\ loc' = [loc EXCEPT ![t] = r]
        /\ UNCHANGED registryVars
    BY <1>1, <1>2, <1>4 DEF PublishSpecialised, Raise, Goto, Base, ThreadTypes, registryVars
  <2>2. /\ r \in Locals /\ r.m = s.m /\ r.args = s.args /\ r.active = s.active
        /\ r.launcher = s.launcher /\ r.since = s.since
    <3>1. PICK e \in Errors : e = "invalidated repeatedly"
      BY DEF Errors
    <3>2. [s EXCEPT !.error = e] \in Locals
      BY <1>3 DEF Locals
    <3> QED  BY <1>3, <3>1, <3>2 DEF Locals
  <2> HIDE DEF r
  <2>3. ThreadOK(t, "failed", r)
    BY <1>3, <2>2
       DEF ThreadOK, LocalOK, CompileOK, UsesConf, Labels, Preparing, Compiling, Typing, Locked
  <2> QED  BY <1>2, <2>1, <2>3, QuietStep DEF Quiet
<1>5. CASE Overtaken(t) /\ s.budget # 0
  <2> DEFINE r == [s EXCEPT !.budget = @ - 1]
  <2>1. /\ pc' = [pc EXCEPT ![t] = "compile"] /\ loc' = [loc EXCEPT ![t] = r]
        /\ UNCHANGED registryVars
    BY <1>1, <1>2, <1>5 DEF PublishSpecialised, Goto, Base, ThreadTypes, registryVars
  <2>2. /\ r \in Locals /\ r.m = s.m /\ r.args = s.args /\ r.active = s.active
        /\ r.conf = s.conf /\ r.caller = s.caller /\ r.sig = s.sig
        /\ r.launcher = s.launcher /\ r.since = s.since
    <3>1. r \in Locals
      BY <1>3, <1>5 DEF Locals
    <3> QED  BY <1>3, <3>1 DEF Locals
  <2> HIDE DEF r
  <2>3. ThreadOK(t, "compile", r)
    BY <1>3, <2>2
       DEF ThreadOK, LocalOK, CompileOK, UsesConf, Labels, Preparing, Compiling, Typing, Locked
  <2> QED  BY <1>2, <2>1, <2>3, QuietStep DEF Quiet
<1>6. CASE ~ Overtaken(t)
  <2>1. PICK existing, new, l : /\ existing = SpecialisedFor(s.sig, s.key)
                                /\ new = Compiled(t) /\ l = AfterCompile(t)
    OBVIOUS
  <2>2. PICK k : k = IF existing # {} THEN Found(existing) ELSE new
    OBVIOUS
  <2>3. PICK r : r = [s EXCEPT !.kernel = k]
    OBVIOUS
  <2>4. /\ pc' = [pc EXCEPT ![t] = l] /\ loc' = [loc EXCEPT ![t] = r]
        /\ lcOverloads' \in {lcOverloads, lcOverloads \cup {new}}
    BY <1>1, <1>6, <2>1, <2>2, <2>3 DEF PublishSpecialised, Goto, Base, ThreadTypes
  <2>5. new \in CompileResults /\ new.key = s.key /\ new.world = s.read
    BY <1>1, <1>2, <2>1, CompiledType
  <2>6. k \in CompileResults /\ k.key = s.key
    <3>1. existing # {} => Found(existing) \in existing
      BY DEF Found
    <3> QED  BY <2>1, <2>2, <2>5, <3>1 DEF SpecialisedFor, Base, RegistryInv, RegistryTypeOK
  <2>7. ThreadOK(t, l, r) /\ l \in Locked
    BY <1>1, <1>2, <2>1, <2>3, <2>6, PublishedOK
  <2>8. s.read >= floor /\ NeedsLiteral \subseteq literals
    BY <1>1, <1>3, <1>6 DEF ThreadOK, LocalOK, CompileOK, Overtaken
  <2>9. RegistryInv'
    BY <1>2, <2>4, <2>5 DEF Base, RegistryInv, RegistryTypeOK, Registered, Lists, DispatchersCurrent
  <2>10. Forward
    BY <1>2, QuietForward DEF sharedVars, Base, RegistryInv, RegistryTypeOK
  <2>11. Unhurried
    BY <1>2 DEF Unhurried, Steady, sharedVars
  <2>12. ThreadOK(t, l, r)'
    BY <2>7, <2>10, <2>11, ThreadKept
  <2>13. SharedTypes'
    BY <1>2 DEF Base, SharedTypes, sharedVars
  <2>14. SharedInv'
    <3>1. \A q \in lcOverloads' : q.key # None /\ q.world >= floor
      BY <1>2, <2>4, <2>5, <2>8 DEF Base, SharedInv
    <3>2. \A j \in Registered' : Placed(dispatchers[j])'
      BY <1>2, <2>10 DEF Base, SharedInv, Registered, Forward
    <3> QED  BY <1>2, <2>8, <3>1, <3>2 DEF Base, SharedInv, sharedVars
  <2>15. marshaller' = marshaller
    BY <1>2 DEF sharedVars
  <2> QED  BY <2>4, <2>9, <2>10, <2>11, <2>12, <2>13, <2>14, <2>15, StepBase
<1> QED  BY <1>4, <1>5, <1>6

(* A compilation that moves to the launch metadata is alone.               *)
LEMMA PromoteBase ==
  ASSUME Base, NEW t \in Threads, Promote(t)
  PROVE  Base'
<1>1. PICK s : s = loc[t]
  OBVIOUS
<1> DEFINE r == [s EXCEPT !.key = KeyOf[s.m]]
<1>2. /\ pc[t] = "typed" /\ pc' = [pc EXCEPT ![t] = "publish"] /\ loc' = [loc EXCEPT ![t] = r]
      /\ NeedsLiteral \subseteq s.lits /\ NeedsLaunch /\ requires' = TRUE
      /\ UNCHANGED << generation, c, literals, optIn, dispatchers, dispatcherLru, old,
                      lcOverloads, made, sharedVars, launchLock, compilerLock >>
  BY <1>1 DEF Promote, Goto, Key
<1>3. /\ LocalOK("typed", s) /\ s \in Locals /\ KeyOf[s.m] # None /\ KeyOf[s.m] \in LcKeys
      /\ compilerLock = t /\ marshaller[s.m] # None /\ s.m \in Objects
      /\ s.args \in [Positions -> Values]
  BY <1>1, <1>2, Here, LaunchNoneAssumption DEF ThreadOK, Locked, Compiling
<1>4. /\ r \in Locals /\ r.m = s.m /\ r.args = s.args /\ r.sig = s.sig
      /\ r.active = s.active /\ r.conf = s.conf /\ r.launcher = s.launcher
      /\ r.caller = s.caller /\ r.lits = s.lits /\ r.gen = s.gen /\ r.read = s.read
      /\ r.since = s.since /\ r.key = KeyOf[s.m]
  BY <1>3 DEF Locals
<1> HIDE DEF r
<1>5. Forward
  BY <1>2, QuietForward DEF sharedVars, Base, RegistryInv, RegistryTypeOK
<1>6. LocalOK("compile", r)
  BY <1>3, <1>4 DEF LocalOK, CompileOK, UsesConf, Labels, Preparing, Compiling, Typing
<1>7. LocalOK("compile", r)'
  BY <1>5, <1>6, LocalKept DEF Typing
<1>8. CompileOK("typed", s)
  BY <1>3 DEF LocalOK
<1>9. CompileOK("publish", r)'
  BY <1>2, <1>3, <1>4, <1>8
     DEF CompileOK, Compiling, Typing, Special, sharedVars, Literalized
<1>10. LocalOK("publish", r)'
  BY <1>7, <1>9 DEF LocalOK, UsesConf, Labels, Preparing, Compiling
<1>11. RegistryInv'
  BY <1>2 DEF Base, RegistryInv, RegistryTypeOK, Registered, Lists, DispatchersCurrent
<1>12. SharedTypes'
  BY <1>2 DEF Base, SharedTypes, sharedVars
<1>13. SharedInv'
  <2>1. \A j \in Registered' : Placed(dispatchers[j])'
    BY <1>2, <1>5 DEF Base, SharedInv, Registered, Forward
  <2> QED  BY <1>2, <2>1 DEF Base, SharedInv, sharedVars
<1>14. \A u \in Threads \ {t} : pc[u] \notin Locked
  BY <1>3, Alone
<1>15. ThreadOK(t, "publish", r)'
  BY <1>2, <1>3, <1>10 DEF ThreadOK
<1> QED  BY <1>2, <1>5, <1>11, <1>12, <1>13, <1>14, <1>15, StepBase DEF sharedVars

(* An invalidation, by recompile() or by a literal request.                *)
LEMMA AdvanceForward ==
  ASSUME Base, NEW lits \in SUBSET Positions, literals \subseteq lits,
         AdvanceGeneration(lits), requires => requires',
         floor' \in Nat, floor <= floor', marshaller' = marshaller
  PROVE  Forward /\ generation' # generation /\ literals' = lits
<1>1. generation \in Nat /\ floor \in Nat /\ made \in Nat /\ c \in NativeDispatcher /\ made > c.id
  BY DEF Base, RegistryInv, RegistryTypeOK, SharedTypes, SharedInv
<1>2. /\ generation' = generation + 1 /\ made' = made + 1 /\ literals' = lits
      /\ c' = [id |-> made, gen |-> generation + 1, lits |-> lits]
  BY DEF AdvanceGeneration, NewKernelDispatcher
<1>3. ASSUME NEW d, Placed(d)
      PROVE  Placed(d)'
  BY <1>1, <1>2, <1>3 DEF Placed, NativeDispatcher
<1> QED  BY <1>1, <1>2, <1>3 DEF Forward

LEMMA AdvanceShared ==
  ASSUME Base, NEW lits \in SUBSET Positions, literals \subseteq lits,
         AdvanceGeneration(lits), requires' => NeedsLaunch, requires' \in BOOLEAN,
         overloads' \subseteq overloads, UNCHANGED << planners, natives >>,
         recompiling' # "idle" => floor' < world'
  PROVE  SharedInv' /\ RegistryInv'
<1>1. made \in Nat
  BY DEF Base, RegistryInv, RegistryTypeOK
<1>2. RegistryInv'
  BY AdvanceGenerationInv DEF Base
<1>3. /\ made' = made + 1 /\ literals' = lits /\ lcOverloads' = {}
      /\ c' = [id |-> made, gen |-> generation + 1, lits |-> lits]
      /\ dispatchers' = [k \in LcKeys |-> None]
  BY DEF AdvanceGeneration, NewKernelDispatcher
<1>4. Registered' = {}
  BY <1>3 DEF Registered
<1> QED  BY <1>1, <1>2, <1>3, <1>4 DEF Base, SharedInv

LEMMA ForceLiteralArgBase ==
  ASSUME Base, NEW t \in Threads, ForceLiteralArg(t)
  PROVE  Base'
<1>1. PICK s : s = loc[t]
  OBVIOUS
<1>2. /\ pc[t] = "typed"
      /\ UNCHANGED << natives, marshaller, world, planners, floor, recompiling, launches,
                      launchLock, compilerLock >>
  BY DEF ForceLiteralArg
<1>3. /\ LocalOK("typed", s) /\ s \in Locals /\ compilerLock = t
      /\ literals \in SUBSET Positions /\ floor \in Nat
  BY <1>1, <1>2, Here DEF ThreadOK, Locked, Compiling
<1>4. NeedsLiteral \subseteq Positions /\ NeedsLaunch \in BOOLEAN /\ requires \in BOOLEAN
  BY LaunchAssumption DEF Base, RegistryInv, RegistryTypeOK
<1>5. requires' \in BOOLEAN /\ (requires => requires') /\ (requires' => NeedsLaunch)
  <2>1. CASE requires' = requires
    BY <1>4, <2>1 DEF Base, SharedInv
  <2>2. CASE \E asked \in {FALSE, NeedsLaunch} : requires' = (requires \/ (loc[t].key = None /\ asked))
    <3>1. requires => NeedsLaunch
      BY DEF Base, SharedInv
    <3>2. PICK asked \in {FALSE, NeedsLaunch} :
            requires' = (requires \/ (loc[t].key = None /\ asked))
      BY <2>2
    <3>3. CASE asked = TRUE /\ loc[t].key = None
      BY <1>4, <3>2, <3>3
    <3>4. CASE ~ (asked = TRUE /\ loc[t].key = None)
      <4>1. requires' = requires
        BY <1>4, <3>2, <3>4
      <4> QED  BY <1>4, <3>1, <4>1
    <3> QED  BY <3>3, <3>4
  <2> QED  BY <2>1, <2>2 DEF ForceLiteralArg
<1>6. Forward /\ RegistryInv' /\ SharedInv' /\ overloads' \subseteq overloads
  <2>1. CASE NeedsLiteral \subseteq literals
    <3>1. UNCHANGED << generation, c, literals, optIn, dispatchers, dispatcherLru,
                       old, lcOverloads, made, overloads >>
      BY <2>1 DEF ForceLiteralArg
    <3>2. Forward
      BY <1>2, <1>5, <3>1, QuietForward DEF Base, RegistryInv, RegistryTypeOK
    <3>3. RegistryInv'
      BY <1>5, <3>1 DEF Base, RegistryInv, RegistryTypeOK, Registered, Lists, DispatchersCurrent
    <3>4. \A j \in Registered' : Placed(dispatchers[j])'
      BY <3>1, <3>2 DEF Base, SharedInv, Registered, Forward
    <3> QED  BY <1>2, <1>5, <3>1, <3>2, <3>3, <3>4 DEF Base, SharedInv
  <2>2. CASE ~ (NeedsLiteral \subseteq literals)
    <3>1. PICK lits : lits = literals \cup NeedsLiteral
      OBVIOUS
    <3>2. AdvanceGeneration(lits) /\ overloads' = {}
      BY <2>2, <3>1 DEF ForceLiteralArg
    <3>3. lits \in SUBSET Positions /\ literals \subseteq lits
      BY <1>3, <1>4, <3>1
    <3>4. recompiling' # "idle" => floor' < world'
      BY <1>2 DEF Base, SharedInv
    <3>5. Forward
      BY <1>2, <1>3, <1>5, <3>2, <3>3, AdvanceForward
    <3>6. SharedInv' /\ RegistryInv'
      BY <1>2, <1>5, <3>2, <3>3, <3>4, AdvanceShared
    <3> QED  BY <3>2, <3>5, <3>6
  <2> QED  BY <2>1, <2>2
<1>7. SharedTypes'
  BY <1>2, <1>6 DEF Base, SharedTypes
<1>8. \A u \in Threads \ {t} : pc[u] \notin Locked
  BY <1>3, Alone
<1>9. PICK l, r : /\ pc' = [pc EXCEPT ![t] = l] /\ loc' = [loc EXCEPT ![t] = r]
                  /\ \/ l = "compile" /\ r = s
                     \/ l = "failed" /\ r = [s EXCEPT !.error = "repeated literal request"]
  BY <1>1 DEF ForceLiteralArg, Goto, Raise, Base, ThreadTypes
<1>10. /\ r \in Locals /\ r.m = s.m /\ r.args = s.args /\ r.active = s.active
       /\ r.conf = s.conf /\ r.caller = s.caller /\ r.sig = s.sig
       /\ r.launcher = s.launcher /\ r.since = s.since
  <2>1. PICK e \in Errors : e = "repeated literal request"
    BY DEF Errors
  <2>2. [s EXCEPT !.error = e] \in Locals
    BY <1>3 DEF Locals
  <2>3. CASE r = s
    BY <1>3, <2>3
  <2>4. CASE r = [s EXCEPT !.error = e]
    BY <1>3, <2>2, <2>4 DEF Locals
  <2> QED  BY <1>9, <2>1, <2>3, <2>4
<1>11. LocalOK(l, r)
  BY <1>3, <1>9, <1>10 DEF LocalOK, CompileOK, UsesConf, Labels, Preparing, Compiling, Typing
<1>12. LocalOK(l, r)'
  BY <1>6, <1>9, <1>11, LocalKept DEF Typing
<1>13. ThreadOK(t, l, r)'
  BY <1>2, <1>3, <1>12 DEF ThreadOK
<1> QED  BY <1>2, <1>6, <1>7, <1>8, <1>9, <1>13, StepBase

LEMMA RebindBase ==
  ASSUME Base, NEW t \in Threads, Rebind(t)
  PROVE  Base' /\ Forward
<1>1. PICK s, m, a, x : s = loc[t] /\ m = s.m /\ a = s.active /\ x = marshaller[m]
  OBVIOUS
<1>2. /\ pc[t] = "rebind"
      /\ UNCHANGED << registryVars, overloads, natives, world, planners, floor, recompiling,
                      launches, launchLock, compilerLock >>
  BY DEF Rebind
<1>3. /\ LocalOK("rebind", s) /\ s \in Locals /\ m \in Objects
      /\ x \in MarshallerStates /\ x # None /\ MarshallerOK(m)
  BY <1>1, <1>2, Here DEF ThreadOK
<1>4. BindingOK(a, m) /\ (a.lc <=> NeedsLaunch \/ x.optIn) /\ a \in Bindings
  BY <1>1, <1>3 DEF LocalOK, BindingOK, Sound
<1>5. CASE a.kd # x.bound.kd \/ a.lc # x.bound.lc
  <2> DEFINE y == [x EXCEPT !.launcher = a.kd, !.bound.lc = a.lc]
             b == [x.bound EXCEPT !.lc = a.lc]
             r == [s EXCEPT !.launcher = a.kd]
  <2>1. /\ pc' = [pc EXCEPT ![t] = "rebound"] /\ loc' = [loc EXCEPT ![t] = r]
        /\ marshaller' = [marshaller EXCEPT ![m] = y]
    <3>1. /\ pc' = [pc EXCEPT ![t] = "rebound"]
          /\ loc' = [loc EXCEPT ![t].launcher = a.kd]
          /\ marshaller' = [marshaller EXCEPT ![m] =
                              [@ EXCEPT !.launcher = a.kd, !.bound.lc = a.lc]]
      BY <1>1, <1>5 DEF Rebind, Goto, Mine
    <3>2. loc' = [loc EXCEPT ![t] = r]
      BY <1>1, <3>1 DEF Base, ThreadTypes
    <3>3. marshaller' = [marshaller EXCEPT ![m] = y]
      BY <1>1, <1>3, <3>1 DEF Base, SharedTypes
    <3> QED  BY <3>1, <3>2, <3>3
  <2>2. x.bound \in Bindings /\ a.kd \in NativeDispatcher /\ a.lc \in BOOLEAN
    BY <1>3, <1>4 DEF MarshallerStates, Bindings
  <2>3. b \in Bindings /\ b.lc = a.lc /\ b.kd = x.bound.kd /\ b.gen = x.bound.gen
    BY <2>2 DEF Bindings
  <2>4. y = [[x EXCEPT !.launcher = a.kd] EXCEPT !.bound = b]
    BY <1>3 DEF MarshallerStates
  <2> HIDE DEF b
  <2>5. y \in MarshallerStates /\ y.bound = b /\ y.launcher = a.kd /\ y.optIn = x.optIn
    BY <1>3, <2>2, <2>3, <2>4 DEF MarshallerStates
  <2> HIDE DEF y
  <2>6. /\ r \in Locals /\ r.m = s.m /\ r.args = s.args /\ r.active = s.active
        /\ r.launcher = a.kd /\ r.since = s.since
    BY <1>3, <2>2 DEF Locals
  <2> HIDE DEF r
  <2>7. y # None /\ marshaller'[m] = y /\ \A n \in Objects \ {m} : marshaller'[n] = marshaller[n]
    BY <1>3, <2>1, <2>5, LaunchNoneAssumption DEF Base, SharedTypes
  <2>8. x.bound.lc => a.lc
    BY <1>1, <1>3, <1>4 DEF MarshallerOK, Special, Base, SharedInv
  <2>9. Forward
    <3>1. /\ \A d : Placed(d) => Placed(d)'
          /\ generation \in Nat /\ floor \in Nat
      BY <1>2 DEF registryVars, Placed, Base, RegistryInv, RegistryTypeOK, SharedTypes
    <3>2. \A n \in Objects : marshaller[n] # None =>
            /\ marshaller'[n] # None /\ marshaller'[n].optIn = marshaller[n].optIn
            /\ marshaller[n].bound.lc => marshaller'[n].bound.lc
      BY <1>1, <2>3, <2>5, <2>7, <2>8
    <3> QED  BY <1>2, <3>1, <3>2 DEF Forward, registryVars
  <2>10. Placed(a.kd)' /\ Sound(b)'
    <3>1. Placed(a.kd) /\ Sound(b)
      BY <1>1, <1>3, <1>4, <2>3 DEF BindingOK, Sound, MarshallerOK
    <3> QED  BY <2>9, <3>1, SoundKept DEF Forward
  <2>11. MarshallerOK(m)'
    <3>1. /\ x.optIn => b.lc
          /\ b.lc => (Special(m))'
          /\ b.gen # None => b.lc
      BY <1>1, <1>2, <1>3, <1>4, <2>3, <2>5, <2>7, <2>8
         DEF BindingOK, MarshallerOK, Special, registryVars
    <3> QED  BY <2>5, <2>7, <2>10, <3>1 DEF MarshallerOK
  <2>12. \A n \in Objects : MarshallerOK(n)'
    BY <2>7, <2>9, <2>11, MarshallerKept
  <2>13. LocalOK("rebind", s)'
    BY <1>3, <2>9, LocalKept DEF Typing
  <2>14. LocalOK("rebound", r)'
    BY <1>1, <2>3, <2>5, <2>6, <2>7, <2>10, <2>13
       DEF LocalOK, CompileOK, UsesConf, Labels, Preparing, Compiling, Typing
  <2>15. RegistryInv' /\ Unhurried /\ SharedInv'
    BY <1>2, <2>9, StillMoved DEF Moved, Unhurried, Steady, registryVars, SharedInv, Base
  <2>16. SharedTypes'
    BY <1>2, <1>3, <2>1, <2>5 DEF Base, SharedTypes
  <2>17. ThreadOK(t, "rebound", r)'
    BY <2>14 DEF ThreadOK, Locked, Preparing, Compiling
  <2> QED  BY <2>1, <2>9, <2>12, <2>15, <2>16, <2>17, StepBase
<1>6. CASE ~ (a.kd # x.bound.kd \/ a.lc # x.bound.lc)
  <2>1. pc' = [pc EXCEPT ![t] = "go"] /\ loc' = [loc EXCEPT ![t] = s] /\ marshaller' = marshaller
    BY <1>1, <1>6 DEF Rebind, Goto, Mine, Base, ThreadTypes
  <2>2. ThreadOK(t, "go", s)
    BY <1>3 DEF ThreadOK, LocalOK, CompileOK, UsesConf, Labels, Preparing, Compiling, Typing, Locked
  <2>3. Forward
    BY <1>2, <2>1, QuietForward DEF registryVars, Base, RegistryInv, RegistryTypeOK
  <2> QED  BY <1>2, <2>1, <2>2, <2>3, QuietStep DEF Quiet, sharedVars
<1> QED  BY <1>5, <1>6

LEMMA ReboundBase ==
  ASSUME Base, NEW t \in Threads, Rebound(t)
  PROVE  Base' /\ Forward
<1>1. PICK s, m, a, x : s = loc[t] /\ m = s.m /\ a = s.active /\ x = marshaller[m]
  OBVIOUS
<1> DEFINE y == [x EXCEPT !.bound.kd = a.kd, !.bound.gen = a.gen]
           b == [x.bound EXCEPT !.kd = a.kd, !.gen = a.gen]
<1>2. /\ pc[t] = "rebound" /\ pc' = [pc EXCEPT ![t] = "go"] /\ loc' = [loc EXCEPT ![t] = s]
      /\ UNCHANGED << registryVars, overloads, natives, world, planners, floor, recompiling,
                      launches, launchLock, compilerLock >>
  BY <1>1 DEF Rebound, Goto, Base, ThreadTypes
<1>3. /\ LocalOK("rebound", s) /\ s \in Locals /\ m \in Objects
      /\ x \in MarshallerStates /\ x # None /\ MarshallerOK(m)
  BY <1>1, <1>2, Here DEF ThreadOK
<1>4. marshaller' = [marshaller EXCEPT ![m] = y]
  BY <1>1 DEF Rebound
<1>5. BindingOK(a, m) /\ a \in Bindings /\ Sound(a) /\ (a.lc => x.bound.lc)
  BY <1>1, <1>3 DEF LocalOK, BindingOK, Sound
<1>6. x.bound \in Bindings /\ a.kd \in NativeDispatcher /\ a.gen \in Nat \cup {None}
  BY <1>3, <1>5 DEF MarshallerStates, Bindings
<1>7. b \in Bindings /\ b.lc = x.bound.lc /\ b.kd = a.kd /\ b.gen = a.gen
  BY <1>6 DEF Bindings
<1>8. y = [x EXCEPT !.bound = b]
  BY <1>3, <1>6 DEF MarshallerStates, Bindings
<1> HIDE DEF b
<1>9. y \in MarshallerStates /\ y.bound = b /\ y.launcher = x.launcher /\ y.optIn = x.optIn
  BY <1>3, <1>7, <1>8 DEF MarshallerStates
<1> HIDE DEF y
<1>10. y # None /\ marshaller'[m] = y /\ \A n \in Objects \ {m} : marshaller'[n] = marshaller[n]
  BY <1>3, <1>4, <1>9, LaunchNoneAssumption DEF Base, SharedTypes
<1>11. Forward
  <2>1. /\ \A d : Placed(d) => Placed(d)'
        /\ generation \in Nat /\ floor \in Nat
    BY <1>2 DEF registryVars, Placed, Base, RegistryInv, RegistryTypeOK, SharedTypes
  <2>2. \A n \in Objects : marshaller[n] # None =>
          /\ marshaller'[n] # None /\ marshaller'[n].optIn = marshaller[n].optIn
          /\ marshaller[n].bound.lc => marshaller'[n].bound.lc
    BY <1>1, <1>7, <1>9, <1>10
  <2> QED  BY <1>2, <2>1, <2>2 DEF Forward, registryVars
<1>12. Sound(b)' /\ Placed(x.launcher)'
  <2>1. Sound(b) /\ Placed(x.launcher)
    BY <1>1, <1>3, <1>5, <1>7 DEF MarshallerOK, Sound
  <2> QED  BY <1>11, <2>1, SoundKept DEF Forward
<1>13. MarshallerOK(m)'
  <2>1. /\ x.optIn => b.lc
        /\ b.lc => (Special(m))'
        /\ b.gen # None => b.lc
    BY <1>1, <1>2, <1>3, <1>5, <1>7, <1>9, <1>10
       DEF BindingOK, MarshallerOK, Special, registryVars
  <2> QED  BY <1>9, <1>10, <1>12, <2>1 DEF MarshallerOK
<1>14. \A n \in Objects : MarshallerOK(n)'
  BY <1>10, <1>11, <1>13, MarshallerKept
<1>15. LocalOK("go", s)'
  <2>1. LocalOK("go", s)
    BY <1>3 DEF LocalOK, CompileOK, UsesConf, Labels, Preparing, Compiling, Typing
  <2> QED  BY <1>11, <2>1, LocalKept DEF Typing
<1>16. RegistryInv' /\ Unhurried /\ SharedInv'
  BY <1>2, <1>11, StillMoved DEF Moved, Unhurried, Steady, registryVars, SharedInv, Base
<1>17. SharedTypes'
  BY <1>2, <1>3, <1>4, <1>9 DEF Base, SharedTypes
<1>18. ThreadOK(t, "go", s)'
  BY <1>15 DEF ThreadOK, Locked, Preparing, Compiling
<1> QED  BY <1>2, <1>11, <1>14, <1>16, <1>17, <1>18, StepBase

LEMMA LaunchBase ==
  ASSUME Base, NEW t \in Threads, Launch(t)
  PROVE  Base'
<1>1. /\ pc[t] = "idle" /\ launches < MaxLaunches /\ launches' = launches + 1
      /\ UNCHANGED << registryVars, overloads, natives, marshaller, world, planners, floor,
                      recompiling, launchLock, compilerLock >>
  BY DEF Launch
<1>2. PICK m \in Objects, args \in [Positions -> Values] :
        /\ marshaller[m] # None
        /\ loc' = [loc EXCEPT ![t] = [NoLocals EXCEPT !.m = m, !.args = args, !.since = floor]]
  BY DEF Launch
<1>3. PICK l \in {"call", "snapshot"} : pc' = [pc EXCEPT ![t] = l]
  BY DEF Launch, Goto
<1>4. PICK r : r = [NoLocals EXCEPT !.m = m, !.args = args, !.since = floor]
  OBVIOUS
<1>5. r \in Locals /\ r.m = m /\ r.args = args /\ r.since = floor
  <2>1. PICK n \in Locals : n = NoLocals
    BY NoLocalsOK DEF LocalOK
  <2>2. PICK f \in Nat : f = floor
    BY DEF Base, SharedTypes
  <2>3. [n EXCEPT !.m = m, !.args = args, !.since = f] \in Locals
    BY DEF Locals
  <2> QED  BY <1>4, <2>1, <2>2, <2>3 DEF Locals
<1>6. LocalOK(l, r)
  BY <1>2, <1>3, <1>5
     DEF LocalOK, CompileOK, UsesConf, Labels, Preparing, Compiling, Typing, Base, SharedTypes
<1>7. Moved
  BY <1>1, StillMoved
<1>8. Forward /\ Unhurried
  BY <1>1, <1>7, MovedForward DEF Unhurried
<1>9. LocalOK(l, r)'
  BY <1>1, <1>6, <1>7, MovedLocal
<1>10. SharedTypes'
  BY <1>1, LaunchAssumption DEF Base, SharedTypes
<1>11. SharedInv'
  BY <1>1, <1>7 DEF Base, SharedInv, Moved, registryVars
<1>12. ThreadOK(t, l, r)'
  BY <1>3, <1>9 DEF ThreadOK, Locked, Preparing, Compiling
<1> QED  BY <1>1, <1>2, <1>3, <1>7, <1>8, <1>10, <1>11, <1>12, <1>4, StepBase DEF Moved

-----------------------------------------------------------------------------
(* Actions of the program and of recompile()                               *)

(* A step in which no thread moves.                                        *)
LEMMA StillBase ==
  ASSUME Base, Forward, RegistryInv', SharedTypes', SharedInv', UNCHANGED << pc, loc >>,
         \A m \in Objects : MarshallerOK(m)' \/ marshaller' = marshaller,
         \A u \in Threads : pc[u] \in Locked => Unhurried
  PROVE  Base'
<1>1. ThreadTypes' /\ \A u \in Threads : ThreadInv(u)'
  BY AllKept
<1>2. \A m \in Objects : MarshallerOK(m)'
  BY MarshallersKept
<1> QED  BY <1>1, <1>2 DEF Base

LEMMA ConfigureBase ==
  ASSUME Base, NEW m \in Objects, Configure(m)
  PROVE  Base'
<1>1. PICK k : k = KeyOf[m]
  OBVIOUS
<1>2. k \in LcKeys
  BY <1>1, LaunchAssumption
<1>3. PICK b : b = IF LaunchConfigEnabled
                   THEN [lc |-> TRUE, kd |-> Obtained(k), gen |-> generation]
                   ELSE [lc |-> FALSE, kd |-> c, gen |-> None]
  OBVIOUS
<1>4. PICK y : y = [bound |-> b, launcher |-> b.kd, optIn |-> optIn]
  OBVIOUS
<1>5. /\ marshaller[m] = None /\ marshaller' = [marshaller EXCEPT ![m] = y]
      /\ IF LaunchConfigEnabled THEN GetLaunchDispatcher(k) ELSE UNCHANGED registryVars
      /\ UNCHANGED << overloads, natives, world, planners, floor, recompiling,
                      launchLock, compilerLock, pc, loc, launches >>
  BY <1>1, <1>3, <1>4 DEF Configure
<1>6. generation \in Nat /\ floor \in Nat /\ made \in Nat /\ optIn \in BOOLEAN /\ requires \in BOOLEAN
  BY DEF Base, RegistryInv, RegistryTypeOK, SharedTypes
<1>7. /\ Moved /\ b \in Bindings /\ Sound(b)' /\ Placed(b.kd)'
      /\ (b.lc <=> LaunchConfigEnabled) /\ (b.gen # None => b.lc)
  <2>1. CASE LaunchConfigEnabled
    <3>1. PICK d, g : d = Obtained(k) /\ g = generation
      OBVIOUS
    <3>2. Moved /\ d \in NativeDispatcher /\ d.gen = g /\ Placed(d)'
      BY <1>2, <1>5, <2>1, <3>1, ObtainMoves
    <3>3. b = [lc |-> TRUE, kd |-> d, gen |-> g]
      BY <1>3, <2>1, <3>1
    <3> QED  BY <1>6, <2>1, <3>1, <3>2, <3>3 DEF Sound, Bindings
  <2>2. CASE ~ LaunchConfigEnabled
    <3>1. b = [lc |-> FALSE, kd |-> c, gen |-> None] /\ UNCHANGED registryVars
      BY <1>3, <1>5, <2>2
    <3>2. b \in Bindings /\ Sound(b) /\ ~ b.lc /\ b.gen = None
      BY <3>1, CurrentPlaced
    <3>3. Moved
      BY <3>1, StillMoved
    <3>4. \A d : Placed(d) => Placed(d)'
      BY <3>3, PlacedMoves DEF Moved
    <3>5. Sound(b)' /\ Placed(b.kd)'
      BY <3>2, <3>4 DEF Sound
    <3> QED  BY <2>2, <3>2, <3>3, <3>5
  <2> QED  BY <2>1, <2>2
<1>8. y \in MarshallerStates /\ y # None /\ y.bound = b /\ y.launcher = b.kd /\ y.optIn = optIn
  BY <1>4, <1>6, <1>7, LaunchNoneAssumption DEF MarshallerStates, Bindings
<1>9. marshaller'[m] = y /\ \A n \in Objects \ {m} : marshaller'[n] = marshaller[n]
  BY <1>5 DEF Base, SharedTypes
<1>10. Forward
  <2>1. \A d : Placed(d) => Placed(d)'
    BY <1>7, PlacedMoves DEF Moved
  <2> QED  BY <1>5, <1>6, <1>7, <1>9, <2>1 DEF Forward, Moved
<1>11. MarshallerOK(m)'
  BY <1>6, <1>7, <1>8, <1>9 DEF MarshallerOK, Special, LaunchConfigEnabled, Moved
<1>12. \A n \in Objects : MarshallerOK(n)'
  BY <1>9, <1>10, <1>11, MarshallerKept
<1>13. SharedTypes'
  BY <1>5, <1>8 DEF Base, SharedTypes
<1>14. SharedInv'
  <2>1. made' > c'.id
    BY <1>7 DEF Base, SharedInv, Moved, RegistryInv, RegistryTypeOK, NativeDispatcher
  <2> QED  BY <1>5, <1>7, <2>1 DEF Base, SharedInv, Moved
<1>15. Unhurried
  BY <1>5, <1>7 DEF Unhurried, Steady, Moved
<1> QED  BY <1>5, <1>7, <1>10, <1>12, <1>13, <1>14, <1>15, StillBase DEF Moved

(* Steps that leave the registry alone.                                    *)
LEMMA ProgramBase ==
  ASSUME Base, ChangeGlobals \/ ClearOverloads \/ RegisterPlanner \/ UNCHANGED vars
  PROVE  Base'
<1>1. UNCHANGED << registryVars, marshaller, natives, floor, compilerLock, pc, loc, launches >>
  BY DEF ChangeGlobals, ClearOverloads, RegisterPlanner, vars, launchVars
<1>2. Moved
  BY <1>1, StillMoved
<1>3. Forward /\ Unhurried
  BY <1>1, <1>2, MovedForward DEF Unhurried
<1>4. SharedTypes' /\ SharedInv'
  <2>1. CASE ChangeGlobals
    BY <1>1, <1>2, <2>1 DEF ChangeGlobals, Base, SharedTypes, SharedInv, Moved, registryVars
  <2>2. CASE ClearOverloads
    BY <1>1, <1>2, <2>2 DEF ClearOverloads, Base, SharedTypes, SharedInv, Moved, registryVars
  <2>3. CASE RegisterPlanner
    BY <1>1, <1>2, <2>3 DEF RegisterPlanner, Base, SharedTypes, SharedInv, Moved, registryVars
  <2>4. CASE UNCHANGED vars
    BY <1>1, <1>2, <2>4 DEF vars, launchVars, Base, SharedTypes, SharedInv, Moved, registryVars
  <2> QED  BY <2>1, <2>2, <2>3, <2>4
<1> QED  BY <1>1, <1>2, <1>3, <1>4, StillBase DEF Moved

LEMMA ChangeExtensionsBase ==
  ASSUME Base, ChangeExtensions
  PROVE  Base'
<1>1. /\ UNCHANGED << generation, c, literals, requires, dispatchers, dispatcherLru, old,
                      lcOverloads, made, launchVars >>
      /\ optIn' = ~ optIn
  BY DEF ChangeExtensions
<1>2. RegistryInv'
  BY <1>1 DEF Base, RegistryInv, RegistryTypeOK, Registered, Lists, DispatchersCurrent
<1>3. Forward
  BY <1>1, QuietForward DEF launchVars, Base, RegistryInv, RegistryTypeOK
<1>4. Unhurried
  BY <1>1 DEF Unhurried, Steady, launchVars
<1>5. SharedTypes'
  BY <1>1 DEF Base, SharedTypes, launchVars
<1>6. SharedInv'
  <2>1. \A j \in Registered' : Placed(dispatchers[j])'
    BY <1>1, <1>3 DEF Base, SharedInv, Registered, Forward
  <2> QED  BY <1>1, <2>1 DEF Base, SharedInv, launchVars
<1> QED  BY <1>1, <1>2, <1>3, <1>4, <1>5, <1>6, StillBase DEF launchVars

LEMMA FinishRecompileBase ==
  ASSUME Base, FinishRecompile
  PROVE  Base'
<1>1. /\ AdvanceGeneration(literals) /\ floor' = world /\ recompiling' = "idle"
      /\ launchLock' \in {launchLock, None}
      /\ UNCHANGED << requires, overloads, natives, marshaller, world, planners, launches,
                      compilerLock, pc, loc >>
  BY DEF FinishRecompile
<1>2. /\ literals \in SUBSET Positions /\ world \in Nat /\ floor <= world
      /\ requires \in BOOLEAN /\ (requires => NeedsLaunch)
  BY DEF Base, RegistryInv, RegistryTypeOK, SharedTypes, SharedInv
<1>3. Forward /\ generation' # generation /\ literals' = literals
  BY <1>1, <1>2, AdvanceForward
<1>4. SharedInv' /\ RegistryInv'
  BY <1>1, <1>2, AdvanceShared
<1>5. SharedTypes'
  BY <1>1, <1>2 DEF Base, SharedTypes
<1>6. Unhurried
  BY <1>1, <1>3 DEF Unhurried, Steady
<1> QED  BY <1>1, <1>3, <1>4, <1>5, <1>6, StillBase

LEMMA InitBase == Init => Base
<1> SUFFICES ASSUME Init PROVE Base
  OBVIOUS
<1>1. RegistryInv
  BY RegistryInitInv DEF Init
<1>2. Registered = {} /\ lcOverloads = {} /\ requires = FALSE /\ made = 1 /\ c.id = 0
  BY DEF Init, RegistryInit, Registered
<1>3. SharedTypes
  BY LaunchAssumption DEF Init, SharedTypes
<1>4. SharedInv
  BY <1>2, LaunchAssumption DEF Init, SharedInv
<1>5. NoLocals \in Locals /\ "idle" \in Labels
  BY DEF NoLocals, Locals, NoBinding, Labels
<1>6. ThreadTypes
  BY <1>5 DEF Init, ThreadTypes
<1>7. ASSUME NEW t \in Threads
      PROVE  ThreadInv(t)
  <2>1. pc[t] = "idle" /\ loc[t] = NoLocals /\ NoLocals.since = 0 /\ floor = 0
    BY DEF Init, NoLocals
  <2> QED  BY <1>5, <2>1
           DEF ThreadInv, ThreadOK, LocalOK, CompileOK, UsesConf, Preparing, Compiling, Typing, Locked
<1>8. \A m \in Objects : MarshallerOK(m)
  BY DEF Init, MarshallerOK
<1> QED  BY <1>1, <1>3, <1>4, <1>6, <1>7, <1>8 DEF Base

LEMMA StepKeepsBase == Base /\ [Next]_vars => Base'
<1> SUFFICES ASSUME Base, [Next]_vars PROVE Base'
  OBVIOUS
<1>1. ASSUME NEW m \in Objects, Configure(m) PROVE Base'
  BY <1>1, ConfigureBase
<1>2. ASSUME NEW t \in Threads, Launch(t) PROVE Base'
  BY <1>2, LaunchBase
<1>3. ASSUME NEW t \in Threads, LaunchStep(t) PROVE Base'
  BY <1>3, TakeLaunchLockBase, SnapshotBase, ReadLauncherBase, DecideBase, ReadConfiguredBase,
     ReadyGenericBase, RecheckBase, ReadyBase, PrepareBase, ReadyAfterAllBase, NotReadyBase,
     FindCompiledBase, RememberRetainedBase, RelookupBase, SelectBase, CompileEnterBase,
     CompileModeBase, ReuseBase, ReadGlobalsBase, ForceLiteralArgBase, PromoteBase,
     NoPromotionBase, PublishSpecialisedBase, PublishGenericBase, RebindBase, ReboundBase,
     GoBase, MissBase, CompileReturnsBase, EmplaceBase, LeaveBase
     DEF LaunchStep
<1>4. ASSUME ChangeGlobals \/ ClearOverloads \/ RegisterPlanner \/ Finished \/ UNCHANGED vars
      PROVE  Base'
  BY <1>4, ProgramBase DEF Finished
<1>5. ASSUME ChangeExtensions PROVE Base'
  BY <1>5, ChangeExtensionsBase
<1>6. ASSUME FinishRecompile PROVE Base'
  BY <1>6, FinishRecompileBase
<1> QED  BY <1>1, <1>2, <1>3, <1>4, <1>5, <1>6 DEF Next, RecompileStep

(* The inductive invariant holds in every reachable state.                 *)
LEMMA BaseInvariant == Spec => []Base
BY InitBase, StepKeepsBase, PTL DEF Spec

(* TypeOK: the tables, the marshallers and the locals of a launch have     *)
(* their types, whatever the threads, configurations and recompilations.   *)
THEOREM TypeCorrect == Spec => []TypeOK
<1>1. Base => TypeOK
  BY DEF Base, TypeOK, RegistryInv, SharedTypes, ThreadTypes
<1> QED  BY <1>1, BaseInvariant, PTL

(* SpecialisedFresh: recompile() and a literal request empty the table of  *)
(* launch-specialised overloads, and a result whose compilation began      *)
(* before that is not published (_compile_impl compares the generation).   *)
THEOREM SpecialisedIsFresh == Spec => []SpecialisedFresh
<1>1. Base => SpecialisedFresh
  BY DEF Base, SharedInv, SpecialisedFresh
<1> QED  BY <1>1, BaseInvariant, PTL

-----------------------------------------------------------------------------
(* How a launch moves                                                      *)

(* The ways through _launch, _prepare_for_launch and _compile_impl.        *)
Edge(l, n) ==
    \/ l = "idle" /\ n \in {"call", "snapshot"}
    \/ l = "call" /\ n = "snapshot"
    \/ l = "snapshot" /\ n = "launcher"
    \/ l = "launcher" /\ n = "decide"
    \/ l = "decide" /\ n \in {"configured", "go"}
    \/ l = "configured" /\ n \in {"ready", "readyGeneric"}
    \/ l = "readyGeneric" /\ n \in {"recheck", "prepare"}
    \/ l \in {"recheck", "ready"} /\ n \in {"prepare", "rebind"}
    \/ l = "prepare" /\ n = "prepared"
    \/ l = "prepared" /\ n \in {"rebind", "find"}
    \/ l = "find" /\ n \in {"select", "remember", "compile"}
    \/ l \in {"remember", "miss"} /\ n = "compile"
    \/ l = "compile" /\ n = "mode"
    \/ l = "mode" /\ n = "reuse"
    \/ l = "reuse" /\ n \in {"read", "relookup", "compiled"}
    \/ l = "read" /\ n = "typed"
    \/ l = "typed" /\ n \in {"compile", "failed", "publish"}
    \/ l = "publish" /\ n \in {"compile", "failed", "relookup", "compiled"}
    \/ l = "relookup" /\ n \in {"select", "failed"}
    \/ l = "select" /\ n = "rebind"
    \/ l = "rebind" /\ n \in {"rebound", "go"}
    \/ l = "rebound" /\ n = "go"
    \/ l = "go" /\ n \in {"ran", "miss"}
    \/ l = "compiled" /\ n = "emplace"
    \/ l = "emplace" /\ n = "ran"
    \/ l \in {"ran", "failed"} /\ n = "idle"

(* t goes from where it is to l, with the locals r.                        *)
Moves(t, l, r) ==
    /\ pc' = [pc EXCEPT ![t] = l] /\ loc' = [loc EXCEPT ![t] = r]
    /\ Edge(pc[t], l)
    /\ pc[t] # "idle" /\ l # "idle" =>
         r.m = loc[t].m /\ r.args = loc[t].args /\ r.since = loc[t].since

(* A thread takes one edge, and what it launches does not change.          *)
LEMMA ThreadMoves ==
  ASSUME Base, NEW t \in Threads, Launch(t) \/ LaunchStep(t)
  PROVE  \E l, r : Moves(t, l, r)
<1>1. PICK s : s = loc[t]
  OBVIOUS
<1>2. s \in Locals /\ loc \in [Threads -> Locals] /\ pc \in [Threads -> Labels]
  BY <1>1, Here DEF Base, ThreadTypes
<1> DEFINE Same(r) == r.m = s.m /\ r.args = s.args /\ r.since = s.since
<1>3. \A x : /\ Same([s EXCEPT !.error = x]) /\ Same([s EXCEPT !.kernel = x])
              /\ Same([s EXCEPT !.active = x]) /\ Same([s EXCEPT !.budget = x])
              /\ \A y : Same([s EXCEPT !.sig = x, !.active = y])
  BY <1>2 DEF Locals
<1>4. ASSUME NEW l, NEW r, Edge(pc[t], l), Same(r),
              pc' = [pc EXCEPT ![t] = l], loc' = [loc EXCEPT ![t] = r]
       PROVE  \E k, q : Moves(t, k, q)
  BY <1>1, <1>4 DEF Moves
<1> HIDE DEF Same
<1>5. ASSUME Launch(t) PROVE \E l, r : Moves(t, l, r)
  BY <1>1, <1>2, <1>5 DEF Launch, Goto, Moves, Edge
<1>6. ASSUME TakeLaunchLock(t) \/ Snapshot(t) \/ ReadLauncher(t) \/ Decide(t)
      PROVE  \E l, r : Moves(t, l, r)
  BY <1>1, <1>2, <1>6
     DEF Moves, Edge, Goto, Locals, TakeLaunchLock, Snapshot, ReadLauncher, Decide
<1>7. ASSUME ReadConfigured(t) \/ ReadyGeneric(t) \/ Recheck(t) \/ Ready(t)
      PROVE  \E l, r : Moves(t, l, r)
  BY <1>1, <1>2, <1>7
     DEF Moves, Edge, Goto, Locals, ReadConfigured, ReadyGeneric, Recheck, Ready
<1>8. ASSUME Prepare(t) \/ ReadyAfterAll(t) \/ NotReady(t)
      PROVE  \E l, r : Moves(t, l, r)
  BY <1>1, <1>2, <1>8
     DEF Moves, Edge, Goto, Locals, Prepare, ReadyAfterAll, NotReady
<1>9. ASSUME FindCompiled(t) \/ RememberRetained(t) \/ Relookup(t) \/ Select(t)
      PROVE  \E l, r : Moves(t, l, r)
  <2>1. CASE FindCompiled(t)
    BY <1>1, <1>2, <2>1 DEF Moves, Edge, Goto, Locals, FindCompiled
  <2>2. CASE RememberRetained(t)
    BY <1>1, <1>2, <2>2 DEF Moves, Edge, Goto, Locals, RememberRetained
  <2>3. CASE Relookup(t)
    <3>1. PICK l \in {"select", "failed"} : pc' = [pc EXCEPT ![t] = l]
      BY <2>3 DEF Relookup, Raise, Goto
    <3>2. PICK r : Same(r) /\ loc' = [loc EXCEPT ![t] = r]
      <4>1. PICK sig, lc : sig = Literalized(s.args, literals) /\ lc = UsesLaunchConfig(t)
        OBVIOUS
      <4>2. \/ loc' = [loc EXCEPT ![t].sig = sig, ![t].active.lc = lc]
            \/ loc' = [loc EXCEPT ![t].error = "no matching overload"]
        BY <1>1, <2>3, <4>1 DEF Relookup, Raise
      <4>3. CASE loc' = [loc EXCEPT ![t].sig = sig, ![t].active.lc = lc]
        <5>1. loc' = [loc EXCEPT ![t] = [s EXCEPT !.sig = sig, !.active = [s.active EXCEPT !.lc = lc]]]
          BY <1>1, <1>2, <4>3 DEF Locals
        <5> QED  BY <1>3, <5>1
      <4>4. CASE loc' = [loc EXCEPT ![t].error = "no matching overload"]
        BY <1>1, <1>3, <4>4
      <4> QED  BY <4>2, <4>3, <4>4
    <3> QED  BY <1>4, <2>3, <3>1, <3>2 DEF Edge, Relookup
  <2>4. CASE Select(t)
    <3>1. pc' = [pc EXCEPT ![t] = "rebind"]
      BY <2>4 DEF Select, Goto
    <3>2. PICK x : loc' = [loc EXCEPT ![t] = [s EXCEPT !.active = x]]
      BY <1>1, <2>4 DEF Select
    <3> QED  BY <1>3, <1>4, <2>4, <3>1, <3>2 DEF Edge, Select
  <2> QED  BY <1>9, <2>1, <2>2, <2>3, <2>4
<1>10. ASSUME CompileEnter(t) \/ CompileMode(t) \/ Reuse(t) \/ ReadGlobals(t)
      PROVE  \E l, r : Moves(t, l, r)
  BY <1>1, <1>2, <1>10
     DEF Moves, Edge, Goto, Locals, AfterCompile, CompileEnter, CompileMode, Reuse, ReadGlobals
<1>11. ASSUME ForceLiteralArg(t)
      PROVE  \E l, r : Moves(t, l, r)
  <2>1. CASE literals' # loc[t].lits
    BY <1>1, <1>2, <1>11, <2>1 DEF Moves, Edge, Goto, ForceLiteralArg
  <2>2. CASE ~ (literals' # loc[t].lits)
    <3>1. /\ pc' = [pc EXCEPT ![t] = "failed"]
          /\ loc' = [loc EXCEPT ![t] = [s EXCEPT !.error = "repeated literal request"]]
      BY <1>1, <1>11, <2>2 DEF ForceLiteralArg, Raise, Goto
    <3> QED  BY <1>11, <1>3, <1>4, <3>1 DEF Edge, ForceLiteralArg
  <2> QED  BY <2>1, <2>2
<1>12. ASSUME Promote(t) \/ NoPromotion(t)
      PROVE  \E l, r : Moves(t, l, r)
  BY <1>1, <1>2, <1>12
     DEF Moves, Edge, Goto, Locals, Promote, NoPromotion
<1>13. ASSUME PublishSpecialised(t) \/ PublishGeneric(t)
      PROVE  \E l, r : Moves(t, l, r)
  <2>1. CASE PublishSpecialised(t)
    <3>1. PICK l \in {"compile", "failed", "relookup", "compiled"} : pc' = [pc EXCEPT ![t] = l]
      BY <2>1 DEF PublishSpecialised, Raise, Goto, AfterCompile
    <3>2. PICK r : Same(r) /\ loc' = [loc EXCEPT ![t] = r]
      <4>1. PICK k : k = IF SpecialisedFor(s.sig, s.key) # {}
                         THEN Found(SpecialisedFor(s.sig, s.key)) ELSE Compiled(t)
        OBVIOUS
      <4>2. loc' \in {[loc EXCEPT ![t] = [s EXCEPT !.error = "invalidated repeatedly"]],
                      [loc EXCEPT ![t] = [s EXCEPT !.budget = s.budget - 1]],
                      [loc EXCEPT ![t] = [s EXCEPT !.kernel = k]]}
        BY <1>1, <1>2, <2>1, <4>1 DEF PublishSpecialised, Raise
      <4> QED  BY <1>3, <4>2
    <3> QED  BY <1>4, <2>1, <3>1, <3>2 DEF Edge, PublishSpecialised
  <2>2. CASE PublishGeneric(t)
    <3>1. PICK l \in {"relookup", "compiled"} : pc' = [pc EXCEPT ![t] = l]
      BY <2>2 DEF PublishGeneric, Goto, AfterCompile
    <3>2. loc' = [loc EXCEPT ![t] = [s EXCEPT !.kernel = Compiled(t)]]
      BY <1>1, <2>2 DEF PublishGeneric
    <3> QED  BY <1>3, <1>4, <2>2, <3>1, <3>2 DEF Edge, PublishGeneric
  <2> QED  BY <1>13, <2>1, <2>2
<1>14. ASSUME Rebind(t) \/ Rebound(t) \/ Go(t)
      PROVE  \E l, r : Moves(t, l, r)
  BY <1>1, <1>2, <1>14
     DEF Moves, Edge, Goto, Locals, Rebind, Rebound, Go
<1>15. ASSUME Miss(t) \/ CompileReturns(t) \/ Emplace(t) \/ Leave(t)
      PROVE  \E l, r : Moves(t, l, r)
  BY <1>1, <1>2, <1>15
     DEF Moves, Edge, Goto, Locals, Miss, CompileReturns, Emplace, Leave
<1> QED  BY <1>5, <1>6, <1>7, <1>8, <1>9, <1>10, <1>11, <1>12, <1>13, <1>14, <1>15 DEF LaunchStep

(* With room for every configuration nothing specialised is dropped.       *)
LEMMA NothingEvicted ==
  ASSUME Base, NoEvictions, NEW k \in LcKeys, dispatchers[k] = None, NEW d, InsertDispatcher(k, d)
  PROVE  UNCHANGED lcOverloads
<1>1. Len(dispatcherLru) < LaunchConfigCacheSize
  BY RoomForAll DEF Base
<1> QED  BY <1>1 DEF InsertDispatcher

(* What has been compiled stays, apart from evicted configurations.        *)
TablesKept ==
    /\ UNCHANGED << generation, c, literals, requires, overloads >>
    /\ lcOverloads' \subseteq lcOverloads
    /\ NoEvictions => lcOverloads' = lcOverloads

OptInsKept ==
    \A m \in Objects : marshaller[m] # None =>
        marshaller'[m] # None /\ marshaller'[m].optIn = marshaller[m].optIn

LEMMA InsertTables ==
  ASSUME Base, NEW k \in LcKeys, dispatchers[k] = None, NEW d, InsertDispatcher(k, d),
         UNCHANGED overloads
  PROVE  TablesKept
BY NothingEvicted DEF InsertDispatcher, TablesKept

LEMMA ObtainTables ==
  ASSUME Base, NEW k \in LcKeys, GetLaunchDispatcher(k), UNCHANGED overloads
  PROVE  TablesKept
BY InsertTables DEF GetLaunchDispatcher, TouchDispatcher, TablesKept

(* What the steps of a launch do not touch.                                *)
LEMMA ThreadFrame ==
  ASSUME Base, NEW t \in Threads, Launch(t) \/ LaunchStep(t)
  PROVE  /\ UNCHANGED << optIn, floor, world, recompiling, planners >> /\ OptInsKept
         /\ pc[t] \notin {"typed", "publish"} => TablesKept
         /\ pc[t] \notin {"rebind", "rebound"} => marshaller' = marshaller
         /\ pc[t] \notin {"call", "ran", "failed"} => launchLock' = launchLock
         /\ pc[t] # "emplace" => natives' = natives
<1> DEFINE P == /\ UNCHANGED << optIn, floor, world, recompiling, planners >> /\ OptInsKept
                /\ pc[t] \notin {"typed", "publish"} => TablesKept
                /\ pc[t] \notin {"rebind", "rebound"} => marshaller' = marshaller
                /\ pc[t] \notin {"call", "ran", "failed"} => launchLock' = launchLock
                /\ pc[t] # "emplace" => natives' = natives
<1>1. ASSUME \/ Launch(t) \/ TakeLaunchLock(t) \/ Snapshot(t) \/ ReadLauncher(t) \/ Decide(t)
             \/ ReadConfigured(t) \/ ReadyGeneric(t) \/ Recheck(t)
             \/ Prepare(t) \/ NotReady(t) \/ FindCompiled(t) \/ Relookup(t)
             \/ CompileEnter(t) \/ CompileMode(t) \/ Reuse(t) \/ ReadGlobals(t)
             \/ Go(t) \/ Miss(t) \/ CompileReturns(t) \/ Leave(t)
      PROVE  P
  BY <1>1 DEF TablesKept, OptInsKept, registryVars, sharedVars, Launch, TakeLaunchLock, Snapshot,
              ReadLauncher, Decide, ReadConfigured, ReadyGeneric, Recheck, Prepare, NotReady,
              FindCompiled, Relookup, CompileEnter, CompileMode, Reuse, ReadGlobals, Go, Miss,
              CompileReturns, Leave
<1>2. ASSUME Ready(t) \/ ReadyAfterAll(t) \/ RememberRetained(t) \/ Select(t) PROVE P
  <2>1. pc[t] # "idle" /\ UNCHANGED << sharedVars, launchLock >>
    BY <1>2 DEF Ready, ReadyAfterAll, RememberRetained, Select
  <2>2. Key(t) \in LcKeys
    BY <2>1, Here DEF Key
  <2>3. \/ UNCHANGED registryVars \/ TouchDispatcher(Key(t)) \/ GetLaunchDispatcher(Key(t))
        \/ dispatchers[Key(t)] = None /\ \E d : InsertDispatcher(Key(t), d)
    BY <1>2 DEF Ready, ReadyAfterAll, RememberRetained, Select
  <2>4. TablesKept /\ UNCHANGED optIn
    <3>1. CASE UNCHANGED registryVars
      BY <2>1, <3>1 DEF registryVars, sharedVars, TablesKept
    <3>2. CASE TouchDispatcher(Key(t))
      BY <2>1, <3>2 DEF TouchDispatcher, sharedVars, TablesKept
    <3>3. CASE GetLaunchDispatcher(Key(t))
      BY <2>1, <2>2, <3>3, ObtainTables
         DEF sharedVars, GetLaunchDispatcher, TouchDispatcher, InsertDispatcher
    <3>4. CASE dispatchers[Key(t)] = None /\ \E d : InsertDispatcher(Key(t), d)
      BY <2>1, <2>2, <3>4, InsertTables DEF sharedVars, InsertDispatcher
    <3> QED  BY <2>3, <3>1, <3>2, <3>3, <3>4
  <2> QED  BY <2>1, <2>4 DEF OptInsKept, sharedVars
<1>3. ASSUME \/ ForceLiteralArg(t) \/ Promote(t) \/ NoPromotion(t)
             \/ PublishSpecialised(t) \/ PublishGeneric(t)
      PROVE  P
  BY <1>3 DEF OptInsKept, AdvanceGeneration, registryVars, sharedVars, ForceLiteralArg, Promote,
              NoPromotion, PublishSpecialised, PublishGeneric
<1>4. ASSUME Rebind(t) \/ Rebound(t) PROVE P
  <2>1. /\ pc[t] \in {"rebind", "rebound"}
        /\ UNCHANGED << registryVars, overloads, natives, world, planners, floor, recompiling,
                        launches, launchLock, compilerLock >>
    BY <1>4 DEF Rebind, Rebound
  <2>2. OptInsKept
    BY <1>4, RebindBase, ReboundBase DEF Forward, OptInsKept
  <2> QED  BY <2>1, <2>2 DEF TablesKept, registryVars
<1>5. ASSUME Emplace(t) PROVE P
  BY <1>5 DEF Emplace, TablesKept, OptInsKept, registryVars
<1> QED  BY <1>1, <1>2, <1>3, <1>4, <1>5 DEF LaunchStep

(* What goes on around the launches, apart from recompile().               *)
Around ==
    \/ \E m \in Objects : Configure(m)
    \/ ChangeGlobals \/ ChangeExtensions \/ RegisterPlanner \/ Finished \/ UNCHANGED vars

LEMMA AroundFrame ==
  ASSUME Base, Around
  PROVE  /\ UNCHANGED << pc, loc, natives, floor, launchLock >> /\ TablesKept /\ OptInsKept
         /\ recompiling' = "cleared" <=> recompiling = "cleared"
         /\ ~ OptInMayChange => optIn' = optIn
         /\ \A m \in Objects : marshaller'[m] = marshaller[m]
                 \/ (marshaller[m] = None /\ marshaller'[m].optIn = optIn)
<1>1. CASE \E m \in Objects : Configure(m)
  <2>1. PICK m \in Objects : Configure(m)
    BY <1>1
  <2>2. PICK y : y = marshaller'[m]
    OBVIOUS
  <2>3. /\ marshaller[m] = None /\ \A n \in Objects \ {m} : marshaller'[n] = marshaller[n]
        /\ UNCHANGED << pc, loc, natives, floor, launchLock, recompiling, overloads >>
        /\ marshaller'[m].optIn = optIn
    BY <2>1 DEF Configure, Base, SharedTypes
  <2>4. \/ UNCHANGED registryVars \/ GetLaunchDispatcher(KeyOf[m])
    BY <2>1 DEF Configure
  <2>5. TablesKept /\ UNCHANGED optIn
    <3>1. CASE UNCHANGED registryVars
      BY <2>3, <3>1 DEF registryVars, TablesKept
    <3>2. CASE GetLaunchDispatcher(KeyOf[m])
      BY <2>3, <3>2, ObtainTables, LaunchAssumption
         DEF GetLaunchDispatcher, TouchDispatcher, InsertDispatcher
    <3> QED  BY <2>4, <3>1, <3>2
  <2> QED  BY <2>3, <2>5 DEF OptInsKept
<1>2. CASE ChangeGlobals
  BY <1>2 DEF ChangeGlobals, TablesKept, OptInsKept, registryVars
<1>3. CASE ChangeExtensions
  BY <1>3 DEF ChangeExtensions, TablesKept, OptInsKept, launchVars
<1>4. CASE RegisterPlanner
  BY <1>4 DEF RegisterPlanner, TablesKept, OptInsKept, registryVars
<1>5. CASE Finished \/ UNCHANGED vars
  BY <1>5 DEF Finished, vars, registryVars, launchVars, TablesKept, OptInsKept
<1> QED  BY <1>1, <1>2, <1>3, <1>4, <1>5 DEF Around

LEMMA StepCases ==
  ASSUME [Next]_vars
  PROVE  \/ Around \/ ClearOverloads \/ FinishRecompile
         \/ \E t \in Threads : Launch(t) \/ LaunchStep(t)
BY DEF Next, Around, RecompileStep

(* Where a thread is says what it does next.                               *)
LEMMA ActionAt ==
  ASSUME NEW t \in Threads, Launch(t) \/ LaunchStep(t)
  PROVE  /\ pc[t] = "idle" => Launch(t)
         /\ pc[t] = "call" => TakeLaunchLock(t)
         /\ pc[t] = "snapshot" => Snapshot(t)
         /\ pc[t] = "launcher" => ReadLauncher(t)
         /\ pc[t] = "decide" => Decide(t)
         /\ pc[t] = "configured" => ReadConfigured(t)
         /\ pc[t] = "readyGeneric" => ReadyGeneric(t)
         /\ pc[t] = "recheck" => Recheck(t)
         /\ pc[t] = "ready" => Ready(t)
         /\ pc[t] = "prepare" => Prepare(t)
         /\ pc[t] = "prepared" => ReadyAfterAll(t) \/ NotReady(t)
         /\ pc[t] = "find" => FindCompiled(t)
         /\ pc[t] = "remember" => RememberRetained(t)
         /\ pc[t] = "compile" => CompileEnter(t)
         /\ pc[t] = "mode" => CompileMode(t)
         /\ pc[t] = "reuse" => Reuse(t)
         /\ pc[t] = "read" => ReadGlobals(t)
         /\ pc[t] = "typed" => ForceLiteralArg(t) \/ Promote(t) \/ NoPromotion(t)
         /\ pc[t] = "publish" => PublishSpecialised(t) \/ PublishGeneric(t)
         /\ pc[t] = "relookup" => Relookup(t)
         /\ pc[t] = "select" => Select(t)
         /\ pc[t] = "rebind" => Rebind(t)
         /\ pc[t] = "rebound" => Rebound(t)
         /\ pc[t] = "go" => Go(t)
         /\ pc[t] = "miss" => Miss(t)
         /\ pc[t] = "compiled" => CompileReturns(t)
         /\ pc[t] = "emplace" => Emplace(t)
BY DEF Launch, LaunchStep, TakeLaunchLock, Snapshot, ReadLauncher, Decide, ReadConfigured,
       ReadyGeneric, Recheck, Ready, Prepare, ReadyAfterAll, NotReady, FindCompiled,
       RememberRetained, Relookup, Select, CompileEnter, CompileMode, Reuse, ReadGlobals,
       ForceLiteralArg, Promote, NoPromotion, PublishSpecialised, PublishGeneric, Rebind,
       Rebound, Go, Miss, CompileReturns, Emplace, Leave

(* What happens to the threads that do not move.                           *)
LEMMA OthersStay ==
  ASSUME Base, NEW t \in Threads, NEW l, NEW r, Moves(t, l, r)
  PROVE  /\ pc'[t] = l /\ loc'[t] = r /\ Edge(pc[t], l)
         /\ \A u \in Threads \ {t} : pc'[u] = pc[u] /\ loc'[u] = loc[u]
<1>1. DOMAIN pc = Threads /\ DOMAIN loc = Threads
  BY DEF Base, ThreadTypes
<1>2. pc' = [pc EXCEPT ![t] = l] /\ loc' = [loc EXCEPT ![t] = r] /\ Edge(pc[t], l)
  BY DEF Moves
<1> QED  BY <1>1, <1>2

-----------------------------------------------------------------------------
(* Without a global interpreter lock, _launch_lock makes a launch and      *)
(* recompile() exclude each other.                                         *)
Running(t) == pc[t] \notin {"idle", "call"}

Exclusive == GilDisabled =>
    /\ recompiling = "cleared" => launchLock = "recompile"
    /\ \A t \in Threads : Running(t) => launchLock = t

LEMMA StepKeepsExclusive ==
  ASSUME Base, Exclusive, [Next]_vars
  PROVE  Exclusive'
<1> SUFFICES ASSUME GilDisabled
             PROVE  /\ recompiling' = "cleared" => launchLock' = "recompile"
                    /\ \A t \in Threads : Running(t)' => launchLock' = t
  BY DEF Exclusive
<1>1. /\ recompiling = "cleared" => launchLock = "recompile"
      /\ \A t \in Threads : Running(t) => launchLock = t
      /\ None \notin Threads /\ "recompile" \notin Threads /\ None # "recompile"
  BY LaunchNoneAssumption DEF Exclusive
<1>2. CASE Around
  BY <1>1, <1>2, AroundFrame DEF Running
<1>3. CASE ClearOverloads
  BY <1>1, <1>3 DEF ClearOverloads, Running
<1>4. CASE FinishRecompile
  BY <1>1, <1>4 DEF FinishRecompile, Running
<1>5. ASSUME NEW t \in Threads, Launch(t) \/ LaunchStep(t)
      PROVE  /\ recompiling' = "cleared" => launchLock' = "recompile"
             /\ \A u \in Threads : Running(u)' => launchLock' = u
  <2>1. PICK l, r : Moves(t, l, r)
    BY <1>5, ThreadMoves
  <2>2. recompiling' = recompiling
    BY <1>5, ThreadFrame
  <2>3. /\ pc'[t] = l /\ Edge(pc[t], l)
        /\ \A u \in Threads \ {t} : Running(u)' <=> Running(u)
    BY <2>1, OthersStay DEF Running
  <2>4. CASE pc[t] = "idle"
    <3>1. Launch(t)
      BY <1>5, <2>4, ActionAt
    <3>2. pc'[t] = "call" /\ launchLock' = launchLock
      BY <3>1 DEF Launch, Goto, Base, ThreadTypes
    <3> QED  BY <1>1, <2>2, <2>3, <3>2 DEF Running
  <2>5. CASE pc[t] = "call"
    <3>1. launchLock = None /\ launchLock' = t
      BY <1>5, <2>5, ActionAt DEF TakeLaunchLock
    <3> QED  BY <1>1, <2>2, <2>3, <3>1
  <2>6. CASE pc[t] \in {"ran", "failed"}
    <3>1. launchLock = t /\ l = "idle"
      BY <1>1, <2>3, <2>6 DEF Running, Edge
    <3> QED  BY <1>1, <2>2, <2>3, <3>1 DEF Running
  <2>7. CASE pc[t] \notin {"idle", "call", "ran", "failed"}
    <3>1. launchLock' = launchLock /\ launchLock = t
      BY <1>1, <1>5, <2>7, ThreadFrame DEF Running
    <3> QED  BY <1>1, <2>2, <2>3, <3>1
  <2> QED  BY <2>4, <2>5, <2>6, <2>7
<1> QED  BY <1>2, <1>3, <1>4, <1>5, StepCases

-----------------------------------------------------------------------------
(* A launch fails only for a reason                                        *)

(* The results there are for what t launches.                              *)
Results(t) == CompileResultsFor(Literalized(loc[t].args, literals), Special(loc[t].m), Key(t))

(* No recompile() has come in the way of the launch.                       *)
Undisturbed(t) == GilDisabled \/ (loc[t].since = floor /\ recompiling # "cleared")

Succeeding(t) ==
    /\ pc[t] # "failed"
    /\ pc[t] \in Typing => loc[t].gen = generation
    /\ pc[t] = "relookup" => Results(t) # {}

FailInv == \A t \in Threads : Undisturbed(t) => Succeeding(t)

(* A compilation knows the signature and the key that its results go by.   *)
LEMMA TypingResults ==
  ASSUME Base, NEW t \in Threads, pc[t] \in Typing
  PROVE  /\ Results(t) = CompileResultsFor(loc[t].sig, loc[t].key # None, loc[t].key)
         /\ loc[t].sig = Literalized(loc[t].args, literals)
         /\ loc[t].key = IF Special(loc[t].m) THEN Key(t) ELSE None
         /\ loc[t].key # None <=> Special(loc[t].m)
<1>1. pc[t] # "idle"
  BY DEF Typing
<1>2. /\ loc[t].sig = Literalized(loc[t].args, literals)
      /\ loc[t].key = IF Special(loc[t].m) THEN Key(t) ELSE None
  BY Here DEF ThreadOK, LocalOK, CompileOK, Key
<1>3. Key(t) # None
  BY <1>1, Here, LaunchNoneAssumption DEF Key
<1> QED  BY <1>2, <1>3 DEF Results, CompileResultsFor

(* Whether a launch is specialised does not change while it has the lock.  *)
LEMMA ResultsKept ==
  ASSUME Base, NEW t \in Threads, pc[t] # "idle", pc'[t] # "idle",
         loc'[t].m = loc[t].m, loc'[t].args = loc[t].args,
         literals' = literals, requires' = requires, OptInsKept
  PROVE  /\ overloads' = overloads /\ lcOverloads' = lcOverloads => Results(t)' = Results(t)
         /\ overloads' \subseteq overloads /\ lcOverloads' \subseteq lcOverloads =>
              Results(t)' \subseteq Results(t)
<1>1. PICK m, args, sig, k : /\ m = loc[t].m /\ args = loc[t].args
                             /\ sig = Literalized(args, literals) /\ k = KeyOf[m]
  OBVIOUS
<1>2. marshaller'[m].optIn = marshaller[m].optIn
  BY <1>1, Here DEF OptInsKept
<1>3. Results(t) = IF requires \/ marshaller[m].optIn THEN SpecialisedFor(sig, k) ELSE GenericFor(sig)
  BY <1>1 DEF Results, CompileResultsFor, Special, Key
<1>4. Results(t)' = IF requires \/ marshaller[m].optIn
                    THEN {r \in lcOverloads' : r.sig = sig /\ r.key = k}
                    ELSE {r \in overloads' : r.sig = sig}
  BY <1>1, <1>2 DEF Results, CompileResultsFor, Special, Key, SpecialisedFor, GenericFor, Literalized
<1> QED  BY <1>3, <1>4 DEF SpecialisedFor, GenericFor

(* A specialised compilation of the current generation is published.       *)
LEMMA SpecialisedPublished ==
  ASSUME Base, NEW t \in Threads, PublishSpecialised(t), loc[t].gen = generation
  PROVE  /\ pc'[t] = AfterCompile(t)
         /\ pc'[t] = "relookup" => Results(t)' # {}
<1>1. pc[t] = "publish" /\ loc[t].key # None /\ ~ Overtaken(t)
      /\ UNCHANGED << literals, requires, marshaller, overloads >>
  BY DEF PublishSpecialised, Overtaken, sharedVars
<1>2. PICK s, k : s = loc[t] /\ k = IF SpecialisedFor(s.sig, s.key) # {}
                                   THEN Found(SpecialisedFor(s.sig, s.key)) ELSE Compiled(t)
  OBVIOUS
<1>3. /\ pc' = [pc EXCEPT ![t] = AfterCompile(t)]
      /\ loc' = [loc EXCEPT ![t] = [s EXCEPT !.kernel = k]]
      /\ lcOverloads' = IF SpecialisedFor(s.sig, s.key) # {}
                        THEN lcOverloads ELSE lcOverloads \cup {Compiled(t)}
  BY <1>1, <1>2 DEF PublishSpecialised, Goto
<1>4. /\ s \in Locals /\ s.m \in Objects /\ s.key = KeyOf[s.m] /\ Special(s.m)
      /\ s.sig = Literalized(s.args, literals)
  BY <1>1, <1>2, Here, TypingResults DEF Typing, Key
<1>5. pc'[t] = AfterCompile(t) /\ loc'[t].m = s.m /\ loc'[t].args = s.args
  BY <1>3, <1>4 DEF Base, ThreadTypes, Locals
<1>6. k \in lcOverloads' /\ k.sig = s.sig /\ k.key = s.key
  <2>1. CASE SpecialisedFor(s.sig, s.key) # {}
    BY <1>2, <1>3, <2>1 DEF Found, SpecialisedFor
  <2>2. CASE SpecialisedFor(s.sig, s.key) = {}
    BY <1>1, <1>2, <1>3, <2>2, CompiledType
  <2> QED  BY <2>1, <2>2
<1>7. Results(t)' = {o \in lcOverloads' : o.sig = s.sig /\ o.key = s.key}
  BY <1>1, <1>4, <1>5 DEF Results, CompileResultsFor, Special, Key, SpecialisedFor, Literalized
<1> QED  BY <1>5, <1>6, <1>7

(* A generic compilation is always published.                              *)
LEMMA GenericPublished ==
  ASSUME Base, NEW t \in Threads, PublishGeneric(t)
  PROVE  pc'[t] = AfterCompile(t) /\ Results(t)' # {}
<1>1. pc[t] = "publish" /\ loc[t].key = None /\ UNCHANGED << literals, requires, marshaller >>
  BY DEF PublishGeneric, registryVars
<1>2. PICK s, k : s = loc[t] /\ k = Compiled(t)
  OBVIOUS
<1>3. /\ pc' = [pc EXCEPT ![t] = AfterCompile(t)]
      /\ loc' = [loc EXCEPT ![t] = [s EXCEPT !.kernel = k]]
      /\ k \in overloads'
  BY <1>2 DEF PublishGeneric, Goto
<1>4. /\ s \in Locals /\ s.m \in Objects /\ ~ Special(s.m)
      /\ s.sig = Literalized(s.args, literals) /\ k.sig = s.sig
  BY <1>1, <1>2, Here, TypingResults, CompiledType DEF Typing
<1>5. pc'[t] = AfterCompile(t) /\ loc'[t].m = s.m /\ loc'[t].args = s.args
  BY <1>3, <1>4 DEF Base, ThreadTypes, Locals
<1>6. Results(t)' = {o \in overloads' : o.sig = s.sig}
  BY <1>1, <1>4, <1>5 DEF Results, CompileResultsFor, Special, Key, GenericFor, Literalized
<1> QED  BY <1>3, <1>4, <1>5, <1>6

(* A literal request that typing raises always asks for something new.     *)
LEMMA LiteralRequestIsNew ==
  ASSUME Base, NEW t \in Threads, ForceLiteralArg(t)
  PROVE  pc'[t] = "compile"
<1>1. pc[t] = "typed" /\ ~ (NeedsLiteral \subseteq loc[t].lits)
  BY DEF ForceLiteralArg
<1>2. loc[t].lits = literals
  BY <1>1, Here DEF ThreadOK, LocalOK, CompileOK, Typing
<1>3. literals' = literals \cup NeedsLiteral
  BY <1>1, <1>2 DEF ForceLiteralArg, AdvanceGeneration
<1>4. literals' # loc[t].lits
  BY <1>1, <1>2, <1>3
<1> QED  BY <1>4 DEF ForceLiteralArg, Goto, Base, ThreadTypes

LEMMA StepKeepsFail ==
  ASSUME Base, Exclusive, FailInv, NoEvictions, [Next]_vars
  PROVE  FailInv'
<1> SUFFICES ASSUME NEW t \in Threads, Undisturbed(t)' PROVE Succeeding(t)'
  BY DEF FailInv
<1>1. ASSUME pc'[t] = pc[t], loc'[t] = loc[t], Undisturbed(t),
             pc[t] \in Typing \cup {"relookup"} => TablesKept /\ OptInsKept
      PROVE  Succeeding(t)'
  <2>1. Succeeding(t)
    BY <1>1 DEF FailInv
  <2>2. CASE pc[t] \in Typing
    BY <1>1, <2>1, <2>2 DEF Succeeding, TablesKept, Typing
  <2>3. CASE pc[t] = "relookup"
    BY <1>1, <2>1, <2>3, ResultsKept DEF Succeeding, TablesKept, Typing
  <2> QED  BY <1>1, <2>1, <2>2, <2>3 DEF Succeeding
<1>2. CASE Around
  BY <1>1, <1>2, AroundFrame DEF Undisturbed
<1>3. ASSUME ClearOverloads \/ FinishRecompile
      PROVE  Succeeding(t)'
  <2>1. GilDisabled
    <3>1. CASE ClearOverloads
      BY <3>1 DEF ClearOverloads, Undisturbed
    <3>2. CASE FinishRecompile
      <4>1. floor < floor' /\ loc' = loc /\ floor \in Nat /\ floor' \in Nat
        BY <3>2 DEF FinishRecompile, Base, SharedInv, SharedTypes
      <4>2. loc[t].since <= floor /\ loc[t].since \in Nat
        BY Here DEF ThreadOK, LocalOK, Locals
      <4>3. loc'[t].since # floor'
        BY <4>1, <4>2
      <4> QED  BY <4>3 DEF Undisturbed
    <3> QED  BY <1>3, <3>1, <3>2
  <2>2. launchLock # t /\ pc' = pc
    BY <1>3, <2>1, LaunchNoneAssumption DEF ClearOverloads, FinishRecompile, Exclusive
  <2>3. pc'[t] \in {"idle", "call"}
    BY <2>1, <2>2 DEF Exclusive, Running
  <2> QED  BY <2>3 DEF Succeeding, Typing
<1>4. ASSUME NEW u \in Threads \ {t}, Launch(u) \/ LaunchStep(u)
      PROVE  Succeeding(t)'
  <2>1. pc'[t] = pc[t] /\ loc'[t] = loc[t]
    BY <1>4, ThreadMoves, OthersStay
  <2>2. UNCHANGED << floor, recompiling >> /\ OptInsKept
        /\ (pc[u] \notin {"typed", "publish"} => TablesKept)
    BY <1>4, ThreadFrame
  <2>3. pc[t] \in Typing \cup {"relookup"} => pc[u] \notin {"typed", "publish"}
    BY LockedAlone DEF Locked, Preparing, Compiling, Typing
  <2> QED  BY <1>1, <2>1, <2>2, <2>3 DEF Undisturbed
<1>5. ASSUME Launch(t) \/ LaunchStep(t)
      PROVE  Succeeding(t)'
  <2>1. PICK l, r : Moves(t, l, r)
    BY <1>5, ThreadMoves
  <2>2. pc'[t] = l /\ loc'[t] = r /\ Edge(pc[t], l)
    BY <2>1, OthersStay
  <2>3. CASE l \notin {"failed", "relookup"} \cup Typing
    BY <2>2, <2>3 DEF Succeeding, Typing
  <2>4. CASE l \in {"failed", "relookup"} \cup Typing
    <3>1. pc[t] # "idle" /\ l # "idle" /\ pc[t] \in {"mode", "relookup"} \cup Typing
      BY <2>2, <2>4 DEF Edge, Typing
    <3>2. r.m = loc[t].m /\ r.args = loc[t].args /\ r.since = loc[t].since
      BY <2>1, <3>1 DEF Moves
    <3>3. UNCHANGED << floor, recompiling >> /\ OptInsKept
          /\ (pc[t] \notin {"typed", "publish"} => TablesKept)
      BY <1>5, ThreadFrame
    <3>4. Succeeding(t)
      BY <2>2, <3>2, <3>3 DEF FailInv, Undisturbed
    <3>5. CASE pc[t] = "mode"
      <4>1. l = "reuse" /\ generation' = generation
        BY <2>2, <3>3, <3>5 DEF Edge, TablesKept
      <4>2. CompileMode(t)
        BY <1>5, <3>5, ActionAt
      <4>3. loc'[t].gen = generation
        BY <4>2, Here DEF CompileMode, Base, ThreadTypes, Locals
      <4> QED  BY <2>2, <4>1, <4>3 DEF Succeeding
    <3>6. CASE pc[t] = "reuse"
      <4>1. Reuse(t) /\ TablesKept
        BY <1>5, <3>3, <3>6, ActionAt
      <4>2. CASE l = "read"
        <5>1. loc' = loc
          BY <2>2, <4>1, <4>2 DEF Reuse, Goto, AfterCompile, Base, ThreadTypes
        <5> QED  BY <2>2, <3>4, <3>6, <4>1, <4>2, <5>1 DEF Succeeding, TablesKept, Typing
      <4>3. CASE l = "relookup"
        <5>1. Results(t) # {}
          BY <2>2, <3>6, <4>1, <4>3, TypingResults
             DEF Reuse, Goto, Base, ThreadTypes, Typing
        <5>2. Results(t)' = Results(t)
          BY <2>2, <3>1, <3>2, <3>3, <4>1, ResultsKept DEF TablesKept
        <5> QED  BY <2>2, <4>3, <5>1, <5>2 DEF Succeeding, Typing
      <4> QED  BY <2>2, <2>4, <3>6, <4>2, <4>3 DEF Edge, Typing
    <3>7. CASE pc[t] = "read"
      <4>1. ReadGlobals(t) /\ l = "typed" /\ generation' = generation
        BY <1>5, <2>2, <3>3, <3>7, ActionAt DEF Edge, TablesKept
      <4>2. loc'[t].gen = loc[t].gen
        BY <4>1, Here DEF ReadGlobals, Base, ThreadTypes, Locals
      <4> QED  BY <2>2, <3>4, <3>7, <4>1, <4>2 DEF Succeeding, Typing
    <3>8. CASE pc[t] = "typed"
      <4>1. ForceLiteralArg(t) \/ Promote(t) \/ NoPromotion(t)
        BY <1>5, <3>8, ActionAt
      <4>2. ~ ForceLiteralArg(t)
        BY <2>2, <2>4, LiteralRequestIsNew DEF Typing
      <4>3. l = "publish" /\ generation' = generation /\ loc'[t].gen = loc[t].gen
        BY <2>2, <4>1, <4>2, Here
           DEF Promote, NoPromotion, Goto, registryVars, Base, ThreadTypes, Locals
      <4> QED  BY <2>2, <3>4, <3>8, <4>3 DEF Succeeding, Typing
    <3>9. CASE pc[t] = "publish"
      <4>1. PublishSpecialised(t) \/ PublishGeneric(t)
        BY <1>5, <3>9, ActionAt
      <4>2. loc[t].gen = generation
        BY <3>4, <3>9 DEF Succeeding, Typing
      <4>3. pc'[t] = AfterCompile(t) /\ (pc'[t] = "relookup" => Results(t)' # {})
        BY <4>1, <4>2, SpecialisedPublished, GenericPublished
      <4> QED  BY <4>3 DEF Succeeding, Typing, AfterCompile
    <3>10. CASE pc[t] = "relookup"
      <4>1. Relookup(t) /\ Results(t) # {}
        BY <1>5, <3>4, <3>10, ActionAt DEF Succeeding
      <4>2. UsesLaunchConfig(t) = Special(loc[t].m)
        BY <3>10, PreparedFor DEF Special, Base, RegistryInv, RegistryTypeOK
      <4>3. l = "select"
        BY <2>2, <4>1, <4>2 DEF Relookup, Results, Goto, Base, ThreadTypes
      <4> QED  BY <2>4, <4>3 DEF Typing
    <3> QED  BY <3>1, <3>5, <3>6, <3>7, <3>8, <3>9, <3>10 DEF Typing
  <2> QED  BY <2>3, <2>4
<1> QED  BY <1>2, <1>3, <1>4, <1>5, StepCases

LEMMA ExclusiveInvariant == Spec => []Exclusive
<1>1. Init => Exclusive
  BY DEF Init, Exclusive, Running
<1>2. Base /\ Exclusive /\ [Next]_vars => Exclusive'
  BY StepKeepsExclusive
<1> QED  BY <1>1, <1>2, BaseInvariant, PTL DEF Spec

LEMMA FailInvariant == ASSUME NoEvictions PROVE Spec => []FailInv
<1>1. Init => FailInv
  BY DEF Init, FailInv, Succeeding, Typing
<1>2. Base /\ Exclusive /\ FailInv /\ [Next]_vars => FailInv'
  BY StepKeepsFail
<1> QED  BY <1>1, <1>2, BaseInvariant, ExclusiveInvariant, PTL DEF Spec

(* FailsOnlyIfOverlapped: as long as the registry has room for every       *)
(* launch configuration (NoEvictions), a launch raises only when a         *)
(* recompile() has overlapped it: never because of another launch, of a    *)
(* literal request or of a promotion, however many threads launch          *)
(* (descriptor.py, _compile_impl and _prepare_for_launch).                 *)
THEOREM FailsOnlyIfOverlapped == ASSUME NoEvictions PROVE Spec => []FailureIsEarned
<1>1. FailInv => FailureIsEarned
  BY DEF FailInv, FailureIsEarned, Undisturbed, Succeeding
<1> QED  BY <1>1, FailInvariant, PTL

(* PreparedLaunchesSucceed: where _launch_lock keeps recompile() away from *)
(* the launches, precompilation always publishes what _prepare_for_launch  *)
(* looks up next; no launch raises at all.                                 *)
THEOREM PreparedLaunchesSucceed ==
  ASSUME NoEvictions, GilDisabled
  PROVE  Spec => [](PreparedIsFound /\ \A t \in Threads : pc[t] # "failed")
<1>1. FailInv => PreparedIsFound /\ \A t \in Threads : pc[t] # "failed"
  BY DEF FailInv, PreparedIsFound, Undisturbed, Succeeding
<1> QED  BY <1>1, FailInvariant, PTL

-----------------------------------------------------------------------------
(* Nothing is compiled twice                                               *)

(* Extensions that change at run time and planners that ask for launch     *)
(* metadata do not come together.                                          *)
OneReason == ~ NeedsLaunch \/ ~ OptInMayChange

(* Past the lookup of the tables, a compilation is needed until the end;   *)
(* before a promotion no specialised result is there.                      *)
WasteInv ==
    /\ \A t \in Threads : pc[t] \in {"read", "typed", "publish"} => Results(t) = {}
    /\ NeedsLaunch => \A m \in Objects : marshaller[m] # None => marshaller[m].optIn = optIn
    /\ NeedsLaunch /\ ~ optIn /\ lcOverloads # {} => requires

(* The extensions of the program are the snapshot of every marshaller.     *)
LEMMA StepKeepsSnapshots ==
  ASSUME Base, OneReason, WasteInv, NeedsLaunch, [Next]_vars
  PROVE  /\ optIn' = optIn
         /\ \A m \in Objects : marshaller'[m] # None => marshaller'[m].optIn = optIn'
<1>1. ~ OptInMayChange /\ \A m \in Objects : marshaller[m] # None => marshaller[m].optIn = optIn
  BY DEF OneReason, WasteInv
<1>2. CASE Around
  BY <1>1, <1>2, AroundFrame
<1>3. CASE ClearOverloads \/ FinishRecompile
  BY <1>1, <1>3 DEF ClearOverloads, FinishRecompile, AdvanceGeneration, registryVars
<1>4. ASSUME NEW t \in Threads, Launch(t) \/ LaunchStep(t)
      PROVE  /\ optIn' = optIn
             /\ \A m \in Objects : marshaller'[m] # None => marshaller'[m].optIn = optIn'
  <2>1. optIn' = optIn /\ OptInsKept
        /\ (pc[t] \notin {"rebind", "rebound"} => marshaller' = marshaller)
    BY <1>4, ThreadFrame
  <2>2. CASE pc[t] \in {"rebind", "rebound"}
    <3>1. Rebind(t) \/ Rebound(t)
      BY <1>4, <2>2, ActionAt
    <3>2. loc[t].m \in Objects /\ marshaller[loc[t].m] # None
      BY <2>2, Here
    <3>3. \A m \in Objects \ {loc[t].m} : marshaller'[m] = marshaller[m]
      BY <3>1 DEF Rebind, Rebound, Base, SharedTypes
    <3> QED  BY <1>1, <2>1, <3>2, <3>3 DEF OptInsKept
  <2> QED  BY <1>1, <2>1, <2>2
<1> QED  BY <1>2, <1>3, <1>4, StepCases

(* A planner's first request promotes before anything has been specialised.*)
LEMMA StepKeepsUnspecialised ==
  ASSUME Base, OneReason, WasteInv, NeedsLaunch, ~ optIn, [Next]_vars
  PROVE  lcOverloads' # {} => requires'
<1>1. lcOverloads # {} => requires
  BY DEF WasteInv
<1>2. ASSUME TablesKept PROVE lcOverloads' # {} => requires'
  BY <1>1, <1>2 DEF TablesKept
<1>3. CASE Around
  BY <1>2, <1>3, AroundFrame
<1>4. CASE ClearOverloads \/ FinishRecompile
  BY <1>1, <1>4 DEF ClearOverloads, FinishRecompile, AdvanceGeneration, registryVars
<1>5. ASSUME NEW t \in Threads, Launch(t) \/ LaunchStep(t)
      PROVE  lcOverloads' # {} => requires'
  <2>1. CASE pc[t] \notin {"typed", "publish"}
    BY <1>2, <1>5, <2>1, ThreadFrame
  <2>2. CASE pc[t] = "typed"
    <3>1. ForceLiteralArg(t) \/ Promote(t) \/ NoPromotion(t)
      BY <1>5, <2>2, ActionAt
    <3>2. CASE ForceLiteralArg(t)
      BY <1>1, <3>2 DEF ForceLiteralArg, AdvanceGeneration
    <3>3. CASE Promote(t) \/ NoPromotion(t)
      BY <1>1, <3>3 DEF Promote, NoPromotion, registryVars
    <3> QED  BY <3>1, <3>2, <3>3
  <2>3. CASE pc[t] = "publish"
    <3>1. PublishSpecialised(t) \/ PublishGeneric(t)
      BY <1>5, <2>3, ActionAt
    <3>2. CASE PublishSpecialised(t)
      <4>1. Special(loc[t].m)
        BY <2>3, <3>2, TypingResults DEF PublishSpecialised, Typing
      <4>2. requires
        BY <2>3, <4>1, Here DEF Special, WasteInv
      <4> QED  BY <3>2, <4>2 DEF PublishSpecialised
    <3>3. CASE PublishGeneric(t)
      BY <1>1, <3>3 DEF PublishGeneric, registryVars
    <3> QED  BY <3>1, <3>2, <3>3
  <2> QED  BY <2>1, <2>2, <2>3
<1> QED  BY <1>3, <1>4, <1>5, StepCases

LEMMA StepKeepsNeeded ==
  ASSUME Base, OneReason, WasteInv, [Next]_vars, NEW t \in Threads,
         pc'[t] \in {"read", "typed", "publish"}
  PROVE  Results(t)' = {}
<1>1. ASSUME pc'[t] = pc[t], loc'[t] = loc[t], literals' = literals, requires' = requires,
             OptInsKept, overloads' \subseteq overloads, lcOverloads' \subseteq lcOverloads
      PROVE  Results(t)' = {}
  <2>1. Results(t) = {}
    BY <1>1 DEF WasteInv
  <2> QED  BY <1>1, <2>1, ResultsKept
<1>2. CASE Around
  <2>1. UNCHANGED << pc, loc >> /\ TablesKept /\ OptInsKept
    BY <1>2, AroundFrame
  <2> QED  BY <1>1, <2>1 DEF TablesKept
<1>3. CASE ClearOverloads
  <2>1. UNCHANGED << pc, loc, registryVars, marshaller >> /\ overloads' = {}
    BY <1>3 DEF ClearOverloads
  <2> QED  BY <1>1, <2>1 DEF registryVars, OptInsKept
<1>4. CASE FinishRecompile
  <2>1. UNCHANGED << pc, loc, overloads, requires, literals, marshaller >> /\ lcOverloads' = {}
    BY <1>4 DEF FinishRecompile, AdvanceGeneration
  <2> QED  BY <1>1, <2>1 DEF OptInsKept
<1>5. ASSUME NEW u \in Threads \ {t}, Launch(u) \/ LaunchStep(u)
      PROVE  Results(t)' = {}
  <2>1. pc'[t] = pc[t] /\ loc'[t] = loc[t]
    BY <1>5, ThreadMoves, OthersStay
  <2>2. pc[u] \notin {"typed", "publish"}
    BY <2>1, LockedAlone DEF Locked, Compiling
  <2>3. TablesKept /\ OptInsKept
    BY <1>5, <2>2, ThreadFrame
  <2> QED  BY <1>1, <2>1, <2>3 DEF TablesKept
<1>6. ASSUME Launch(t) \/ LaunchStep(t)
      PROVE  Results(t)' = {}
  <2>1. PICK l, r : Moves(t, l, r)
    BY <1>6, ThreadMoves
  <2>2. pc'[t] = l /\ loc'[t] = r /\ Edge(pc[t], l)
    BY <2>1, OthersStay
  <2>3. pc[t] \in {"reuse", "read", "typed"}
    BY <2>2 DEF Edge
  <2>4. loc'[t].m = loc[t].m /\ loc'[t].args = loc[t].args
    BY <2>1, <2>2, <2>3 DEF Moves
  <2>5. OptInsKept /\ (pc[t] # "typed" => TablesKept)
    BY <1>6, <2>3, ThreadFrame
  <2>6. CASE pc[t] = "reuse"
    <3>1. Reuse(t) /\ pc'[t] # "relookup" /\ pc'[t] # "compiled"
      BY <1>6, <2>6, ActionAt
    <3>2. Results(t) = {}
      BY <2>6, <3>1, TypingResults DEF Reuse, Goto, AfterCompile, Base, ThreadTypes, Typing
    <3> QED  BY <2>4, <2>5, <2>6, <3>2, ResultsKept DEF TablesKept
  <2>7. CASE pc[t] = "read"
    <3>1. Results(t) = {}
      BY <2>7 DEF WasteInv
    <3> QED  BY <2>4, <2>5, <2>7, <3>1, ResultsKept DEF TablesKept
  <2>8. CASE pc[t] = "typed"
    <3>1. Results(t) = {}
      BY <2>8 DEF WasteInv
    <3>2. NoPromotion(t) \/ Promote(t)
      <4>1. ~ ForceLiteralArg(t)
        BY <2>8, LiteralRequestIsNew DEF ForceLiteralArg, Goto, Raise, Base, ThreadTypes
      <4> QED  BY <1>6, <2>8, <4>1, ActionAt
    <3>3. CASE NoPromotion(t)
      BY <2>4, <2>5, <2>8, <3>1, <3>3, ResultsKept DEF NoPromotion, registryVars, sharedVars
    <3>4. CASE Promote(t)
      <4>1. ~ Special(loc[t].m) /\ NeedsLaunch
        BY <2>8, <3>4, TypingResults DEF Promote, Typing
      <4>2. ~ requires /\ ~ optIn
        BY <2>8, <4>1, Here DEF Special, WasteInv
      <4>3. lcOverloads' = {} /\ requires'
        BY <3>4, <4>1, <4>2 DEF Promote, WasteInv
      <4> QED  BY <4>3 DEF Results, CompileResultsFor, Special, SpecialisedFor
    <3> QED  BY <3>2, <3>3, <3>4
  <2> QED  BY <2>3, <2>6, <2>7, <2>8
<1> QED  BY <1>2, <1>3, <1>4, <1>5, <1>6, StepCases

LEMMA WasteInvariant == ASSUME OneReason PROVE Spec => []WasteInv
<1>1. Init => WasteInv
  BY DEF Init, RegistryInit, WasteInv
<1>2. Base /\ WasteInv /\ [Next]_vars => WasteInv'
  <2> SUFFICES ASSUME Base, WasteInv, [Next]_vars PROVE WasteInv'
    OBVIOUS
  <2>1. \A t \in Threads : pc'[t] \in {"read", "typed", "publish"} => Results(t)' = {}
    BY StepKeepsNeeded
  <2>2. NeedsLaunch => /\ optIn' = optIn
                       /\ \A m \in Objects : marshaller'[m] # None => marshaller'[m].optIn = optIn'
    BY StepKeepsSnapshots
  <2>3. NeedsLaunch /\ ~ optIn /\ lcOverloads' # {} => requires'
    BY StepKeepsUnspecialised
  <2> QED  BY <2>1, <2>2, <2>3 DEF WasteInv
<1> QED  BY <1>1, <1>2, BaseInvariant, PTL DEF Spec

(* NothingCompiledTwice: unless the extensions change while planners ask   *)
(* for launch metadata, the compiler lock and the second look at the       *)
(* tables make _compile_impl the only one to compile for its types and     *)
(* launch configuration, for any number of threads.                        *)
THEOREM NothingCompiledTwice == ASSUME OneReason PROVE Spec => []NoWastedCompile
<1>1. Base /\ WasteInv => NoWastedCompile
  <2> SUFFICES ASSUME Base, WasteInv, NEW t \in Threads, pc[t] = "publish"
               PROVE  IF loc[t].key = None THEN GenericFor(loc[t].sig) = {}
                      ELSE SpecialisedFor(loc[t].sig, loc[t].key) = {}
    BY DEF NoWastedCompile
  <2>1. Results(t) = {}
    BY DEF WasteInv
  <2> QED  BY <2>1, TypingResults DEF Typing, CompileResultsFor
<1> QED  BY <1>1, WasteInvariant, BaseInvariant, PTL

-----------------------------------------------------------------------------
(* What _launch_lock protects                                              *)

(* A kernel of the current generation is under its own constants, and new. *)
Good(n) == n.kernel.sig = n.constants /\ n.kernel.world >= floor

LockShared ==
    /\ recompiling = "cleared" => overloads = {}
    /\ \A m \in Objects :
         ( /\ marshaller[m] # None
           /\ \A t \in Threads : pc[t] = "rebound" => loc[t].m # m ) =>
             marshaller[m].launcher = marshaller[m].bound.kd
    /\ \A r \in overloads : r.world >= floor
    /\ \A n \in natives : n.in < made /\ (n.in >= c.id => Good(n))
    /\ literals = {} => \A n \in natives, p \in Positions : n.kernel.sig[p] = NotLiteral

(* From a miss of the native launcher until it stores what it compiled.    *)
Missing(t) ==
    \/ pc[t] \in {"miss", "compiled", "emplace"}
    \/ pc[t] \in Compiling /\ loc[t].caller = "native"

OwnLiterals(t) ==
    \A p \in Positions : loc[t].kernel.sig[p] \in {NotLiteral, loc[t].args[p]}

(* What the thread that has the lock knows of the shared state.            *)
Sole(t) ==
    /\ pc[t] \in {"launcher", "decide"} => loc[t].active = Mine(t).bound
    /\ pc[t] \notin {"snapshot", "launcher"} => loc[t].launcher = Mine(t).launcher
    /\ pc[t] = "rebound" => loc[t].launcher = loc[t].active.kd
    /\ pc[t] \in {"rebind", "rebound"} => loc[t].active.kd.gen = generation
    /\ pc[t] = "go" => loc[t].launcher.gen = generation \/ (literals = {} /\ ~ NeedsLaunch)
    /\ pc[t] \in Typing => loc[t].gen = generation
    /\ Missing(t) => LoadedIn(loc[t].launcher, loc[t].args) = {}
    /\ pc[t] \in {"compiled", "emplace"} =>
         /\ loc[t].kernel.sig = Literalized(loc[t].args, literals)
         /\ loc[t].kernel.world >= floor
    /\ Ran(t) =>
         /\ OwnLiterals(t)
         /\ NeedsLiteral # {} \/ NeedsLaunch => loc[t].kernel.world >= floor

LockInv == LockShared /\ \A t \in Threads : Running(t) => Sole(t)

(* Native dispatchers are only ever added.                                 *)
LEMMA MadeGrows ==
  ASSUME Base, [Next]_vars
  PROVE  made \in Nat /\ made' \in Nat /\ made' >= made
<1>1. made \in Nat
  BY DEF Base, RegistryInv, RegistryTypeOK
<1>2. made' \in {made, made + 1}
  <2>1. CASE Around
    BY <2>1 DEF Around, Configure, ChangeGlobals, ChangeExtensions, RegisterPlanner, Finished, vars,
                registryVars, GetLaunchDispatcher, TouchDispatcher
  <2>2. CASE ClearOverloads \/ FinishRecompile
    BY <2>2 DEF ClearOverloads, FinishRecompile, AdvanceGeneration, registryVars
  <2>3. ASSUME NEW t \in Threads, Launch(t) \/ LaunchStep(t)
        PROVE  made' \in {made, made + 1}
    <3>1. ASSUME \/ Launch(t) \/ TakeLaunchLock(t) \/ Snapshot(t) \/ ReadLauncher(t) \/ Decide(t)
                 \/ ReadConfigured(t) \/ ReadyGeneric(t) \/ Recheck(t)
                 \/ Prepare(t) \/ NotReady(t) \/ FindCompiled(t) \/ Relookup(t)
                 \/ CompileEnter(t) \/ CompileMode(t) \/ Reuse(t) \/ ReadGlobals(t)
                 \/ Rebind(t) \/ Rebound(t)
                 \/ Go(t) \/ Miss(t) \/ CompileReturns(t) \/ Emplace(t) \/ Leave(t)
          PROVE  made' = made
      BY <3>1 DEF registryVars, Launch, TakeLaunchLock, Snapshot, ReadLauncher, Decide,
           ReadConfigured, ReadyGeneric, Recheck, Prepare, NotReady, FindCompiled, Relookup,
           CompileEnter, CompileMode, Reuse, ReadGlobals, Rebind, Rebound, Go, Miss,
           CompileReturns, Emplace, Leave
    <3>2. ASSUME Ready(t) \/ ReadyAfterAll(t) \/ RememberRetained(t) \/ Select(t)
          PROVE  made' \in {made, made + 1}
      BY <3>2 DEF registryVars, Ready, ReadyAfterAll, RememberRetained, Select,
                  GetLaunchDispatcher, TouchDispatcher
    <3>3. ASSUME \/ ForceLiteralArg(t) \/ Promote(t) \/ NoPromotion(t)
                 \/ PublishSpecialised(t) \/ PublishGeneric(t)
          PROVE  made' \in {made, made + 1}
      BY <3>3 DEF registryVars, AdvanceGeneration, ForceLiteralArg, Promote, NoPromotion,
                  PublishSpecialised, PublishGeneric
    <3> QED  BY <2>3, <3>1, <3>2, <3>3 DEF LaunchStep
  <2> QED  BY <2>1, <2>2, <2>3, StepCases
<1> QED  BY <1>1, <1>2

(* The thread with the lock is the only one that runs.                     *)
LEMMA RunsAlone ==
  ASSUME Base, GilDisabled, Exclusive
  PROVE  /\ \A t, u \in Threads : Running(t) /\ Running(u) => t = u
         /\ \A t \in Threads : Running(t) => recompiling # "cleared"
         /\ launchLock \in {None, "recompile"} => \A t \in Threads : ~ Running(t)
BY LaunchNoneAssumption DEF Exclusive

(* Steps around the launches.                                              *)
LEMMA AroundKeepsLock ==
  ASSUME Base, GilDisabled, Exclusive, LockInv, Around
  PROVE  LockInv'
<1>1. /\ UNCHANGED << pc, loc, natives, floor, launchLock, generation, c, literals, overloads >>
      /\ (recompiling' = "cleared" <=> recompiling = "cleared")
      /\ \A m \in Objects : marshaller[m] # None => marshaller'[m] = marshaller[m]
  BY AroundFrame DEF TablesKept
<1>2. made \in Nat /\ made' \in Nat /\ made' >= made /\ natives \in SUBSET LoadedKernels
  BY MadeGrows, StepCases DEF Around, Next, Base, SharedTypes
<1>3. ASSUME NEW m \in Objects, marshaller[m] = None, marshaller'[m] # None
      PROVE  marshaller'[m].launcher = marshaller'[m].bound.kd
  <2>1. Configure(m)
    BY <1>3 DEF Around, Configure, ChangeGlobals, ChangeExtensions, RegisterPlanner, Finished,
                vars, launchVars, Base, SharedTypes
  <2>2. PICK b, x : /\ b = IF LaunchConfigEnabled
                           THEN [lc |-> TRUE, kd |-> Obtained(KeyOf[m]), gen |-> generation]
                           ELSE [lc |-> FALSE, kd |-> c, gen |-> None]
                    /\ x = [bound |-> b, launcher |-> b.kd, optIn |-> optIn]
    OBVIOUS
  <2>3. marshaller' = [marshaller EXCEPT ![m] = x]
    BY <2>1, <2>2 DEF Configure
  <2>4. marshaller'[m] = x
    BY <2>3 DEF Base, SharedTypes
  <2> QED  BY <2>2, <2>4
<1>4. LockShared'
  BY <1>1, <1>2, <1>3 DEF LockInv, LockShared, Good, LoadedKernels
<1>5. ASSUME NEW t \in Threads, Running(t)'
      PROVE  Sole(t)'
  <2>1. Running(t) /\ pc[t] # "idle" /\ Sole(t)
    BY <1>1, <1>5 DEF Running, LockInv
  <2>2. marshaller'[loc[t].m] = marshaller[loc[t].m]
    BY <1>1, <2>1, Here
  <2> QED  BY <1>1, <2>1, <2>2 DEF Sole, Mine, Missing, LoadedIn, Ran, OwnLiterals, Literalized
<1> QED  BY <1>4, <1>5 DEF LockInv

(* recompile() runs when no launch does.                                   *)
LEMMA RecompileKeepsLock ==
  ASSUME Base, GilDisabled, Exclusive, LockInv, ClearOverloads \/ FinishRecompile
  PROVE  LockInv'
<1>1. UNCHANGED << pc, loc, natives, marshaller, literals >> /\ \A t \in Threads : ~ Running(t)
  BY RunsAlone DEF ClearOverloads, FinishRecompile, Exclusive, registryVars, AdvanceGeneration
<1>2. made \in Nat /\ natives \in SUBSET LoadedKernels
  BY DEF Base, SharedTypes, RegistryInv, RegistryTypeOK
<1>3. LockShared'
  <2>1. CASE ClearOverloads
    BY <1>1, <2>1 DEF LockInv, LockShared, Good, ClearOverloads, registryVars
  <2>2. CASE FinishRecompile
    <3>1. overloads' = {} /\ recompiling' = "idle" /\ c'.id = made /\ made' = made + 1
      BY <2>2 DEF LockInv, LockShared, FinishRecompile, AdvanceGeneration, NewKernelDispatcher
    <3> QED  BY <1>1, <1>2, <3>1 DEF LockInv, LockShared, LoadedKernels
  <2> QED  BY <2>1, <2>2
<1> QED  BY <1>1, <1>3 DEF LockInv, Running

(* It is enough to look at the thread that moves.                          *)
LEMMA OwnKeepsLock ==
  ASSUME Base, GilDisabled, Exclusive, LockInv, NEW t \in Threads, LaunchStep(t), LockShared',
         Running(t)' => Sole(t)'
  PROVE  LockInv'
<1>1. PICK l, r : Moves(t, l, r)
  BY ThreadMoves
<1>2. \A u \in Threads \ {t} : Running(u)' => Running(u)
  BY <1>1, OthersStay DEF Running
<1>3. \A u \in Threads \ {t} : ~ Running(u)
  <2>1. CASE Running(t)
    BY <2>1, RunsAlone
  <2>2. CASE ~ Running(t)
    <3>1. TakeLaunchLock(t)
      BY <1>1, <2>2, ActionAt DEF Running, Moves, Edge, LaunchStep, TakeLaunchLock, Snapshot,
         ReadLauncher, Decide, ReadConfigured, ReadyGeneric, Recheck, Ready, Prepare,
         ReadyAfterAll, NotReady, FindCompiled, RememberRetained, Relookup, Select,
         CompileEnter, CompileMode, Reuse, ReadGlobals, ForceLiteralArg, Promote, NoPromotion,
         PublishSpecialised, PublishGeneric, Rebind, Rebound, Go, Miss, CompileReturns,
         Emplace, Leave
    <3> QED  BY <3>1, RunsAlone DEF TakeLaunchLock
  <2> QED  BY <2>1, <2>2
<1> QED  BY <1>2, <1>3 DEF LockInv

(* Where a step of a launch touches nothing that LockInv is about.         *)
LEMMA SharedKeepsLock ==
  ASSUME Base, GilDisabled, LockInv, NEW t \in Threads, Launch(t) \/ LaunchStep(t),
         pc[t] \notin {"typed", "publish", "rebind", "rebound", "emplace"}
  PROVE  /\ UNCHANGED << generation, c, literals, overloads, natives, marshaller, floor >>
         /\ LockShared'
<1>1. PICK l, r : Moves(t, l, r)
  BY ThreadMoves
<1>2. /\ UNCHANGED << generation, c, literals, overloads, natives, marshaller, floor, recompiling >>
      /\ lcOverloads' \subseteq lcOverloads
  BY ThreadFrame DEF TablesKept
<1>3. made \in Nat /\ made' \in Nat /\ made' >= made /\ natives \in SUBSET LoadedKernels
  <2>1. Next
    BY DEF Next
  <2> QED  BY <2>1, MadeGrows DEF Base, SharedTypes
<1>4. pc'[t] # "rebound" /\ \A u \in Threads \ {t} : pc'[u] = pc[u] /\ loc'[u] = loc[u]
  BY <1>1, OthersStay DEF Edge
<1>5. \A m \in Objects : (\A u \in Threads : pc'[u] = "rebound" => loc'[u].m # m) =>
                         (\A u \in Threads : pc[u] = "rebound" => loc[u].m # m)
  BY <1>4
<1> QED  BY <1>2, <1>3, <1>5 DEF LockInv, LockShared, Good, LoadedKernels

LEMMA LaunchKeepsLock ==
  ASSUME Base, GilDisabled, Exclusive, LockInv, NEW t \in Threads, Launch(t)
  PROVE  LockInv'
<1>1. PICK l, r : Moves(t, l, r)
  BY ThreadMoves
<1>2. pc[t] = "idle" /\ pc'[t] = "call"
  BY DEF Launch, Goto, Base, ThreadTypes
<1>3. UNCHANGED << generation, c, literals, natives, marshaller, floor >> /\ LockShared'
  BY <1>2, SharedKeepsLock
<1>4. ASSUME NEW u \in Threads, Running(u)'
      PROVE  Sole(u)'
  <2>1. pc'[u] = pc[u] /\ loc'[u] = loc[u]
    BY <1>1, <1>2, <1>4, OthersStay DEF Running
  <2>2. Sole(u)
    BY <1>4, <2>1 DEF LockInv, Running
  <2> QED  BY <1>3, <2>1, <2>2 DEF Sole, Mine, Missing, LoadedIn, Ran, OwnLiterals, Literalized
<1> QED  BY <1>3, <1>4 DEF LockInv

(* Up to the decision, and from the check on to the rebinding.             *)
LEMMA ChecksKeepLock ==
  ASSUME Base, GilDisabled, Exclusive, LockInv, NEW t \in Threads,
         \/ TakeLaunchLock(t) \/ Snapshot(t) \/ ReadLauncher(t) \/ ReadConfigured(t)
         \/ ReadyGeneric(t) \/ Recheck(t) \/ Prepare(t) \/ NotReady(t) \/ FindCompiled(t)
         \/ RememberRetained(t) \/ Relookup(t) \/ CompileEnter(t) \/ CompileMode(t)
         \/ ReadGlobals(t) \/ CompileReturns(t) \/ Miss(t) \/ Leave(t)
  PROVE  LockInv'
<1>1. LaunchStep(t)
  BY DEF LaunchStep
<1>2. pc[t] \notin {"typed", "publish", "rebind", "rebound", "emplace"}
  BY DEF TakeLaunchLock, Snapshot, ReadLauncher, ReadConfigured, ReadyGeneric, Recheck, Prepare,
         NotReady, FindCompiled, RememberRetained, Relookup, CompileEnter, CompileMode,
         ReadGlobals, CompileReturns, Miss, Leave
<1>3. UNCHANGED << generation, c, literals, natives, marshaller, floor >> /\ LockShared'
  BY <1>1, <1>2, SharedKeepsLock
<1>4. PICK s : s = loc[t]
  OBVIOUS
<1>5. s \in Locals /\ (pc[t] # "call" => Sole(t) \/ pc[t] = "idle")
  BY <1>4, Here DEF LockInv, Running
<1>6. Running(t)' => Sole(t)'
  <2>1. CASE TakeLaunchLock(t) \/ Snapshot(t) \/ Leave(t)
    <3>1. \/ pc'[t] \in {"snapshot", "idle"}
          \/ pc'[t] = "launcher" /\ loc'[t].active = marshaller[s.m].bound /\ loc'[t].m = s.m
      BY <1>4, <1>5, <2>1 DEF TakeLaunchLock, Snapshot, Leave, Goto, Mine, Base, ThreadTypes, Locals
    <3> QED  BY <1>3, <3>1 DEF Running, Sole, Mine, Missing, Compiling, Typing, Ran
  <2>2. CASE ReadLauncher(t)
    <3>1. /\ pc'[t] = "decide" /\ loc'[t].active = s.active /\ loc'[t].m = s.m
          /\ loc'[t].launcher = marshaller[s.m].launcher /\ s.active = marshaller[s.m].bound
      BY <1>4, <1>5, <2>2 DEF ReadLauncher, Goto, Mine, Sole, Base, ThreadTypes, Locals
    <3> QED  BY <1>3, <3>1 DEF Sole, Mine, Missing, Compiling, Typing, Ran
  <2>3. CASE ReadConfigured(t) \/ ReadyGeneric(t) \/ Prepare(t) \/ NotReady(t)
    <3>1. /\ pc'[t] \in {"ready", "readyGeneric", "recheck", "prepare", "prepared", "find"}
          /\ loc'[t].launcher = s.launcher /\ loc'[t].m = s.m
      BY <1>4, <1>5, <2>3
         DEF ReadConfigured, ReadyGeneric, Prepare, NotReady, Goto, Base, ThreadTypes, Locals
    <3>2. s.launcher = marshaller[s.m].launcher
      BY <1>4, <1>5, <2>3 DEF ReadConfigured, ReadyGeneric, Prepare, NotReady, Sole, Mine
    <3> QED  BY <1>3, <3>1, <3>2 DEF Sole, Mine, Missing, Compiling, Typing, Ran
  <2>4. CASE Recheck(t)
    <3>1. /\ loc'[t].launcher = s.launcher /\ loc'[t].m = s.m
          /\ \/ pc'[t] = "prepare"
             \/ pc'[t] = "rebind" /\ loc'[t].active.kd = c
      BY <1>4, <1>5, <2>4 DEF Recheck, Goto, Base, ThreadTypes, Locals
    <3>2. s.launcher = marshaller[s.m].launcher /\ c.gen = generation
      BY <1>4, <1>5, <2>4, CurrentPlaced DEF Recheck, Sole, Mine
    <3> QED  BY <1>3, <3>1, <3>2 DEF Sole, Mine, Missing, Compiling, Typing, Ran
  <2>5. CASE FindCompiled(t)
    <3>1. PICK lc : lc = UsesLaunchConfig(t)
      OBVIOUS
    <3>2. \/ /\ loc' = [loc EXCEPT ![t].active.lc = lc]
             /\ pc' = [pc EXCEPT ![t] = "select"]
          \/ /\ loc' = [loc EXCEPT ![t].caller = "prepare", ![t].budget = RetryBudget]
             /\ \E l \in {"remember", "compile"} : pc' = [pc EXCEPT ![t] = l]
      BY <2>5, <3>1 DEF FindCompiled, Goto
    <3>3. /\ loc'[t].launcher = s.launcher /\ loc'[t].m = s.m
          /\ \/ pc'[t] = "select"
             \/ pc'[t] \in {"remember", "compile"} /\ loc'[t].caller = "prepare"
      BY <1>4, <1>5, <3>2 DEF Base, ThreadTypes, Locals
    <3>4. s.launcher = marshaller[s.m].launcher
      BY <1>4, <1>5, <2>5 DEF FindCompiled, Sole, Mine
    <3> QED  BY <1>3, <3>4, <3>3 DEF Sole, Mine, Missing, Compiling, Typing, Ran
  <2>6. CASE RememberRetained(t) \/ CompileEnter(t) \/ CompileMode(t)
    <3>1. /\ loc'[t].launcher = s.launcher /\ loc'[t].m = s.m /\ loc'[t].args = s.args
          /\ loc'[t].caller = s.caller
          /\ \/ pc[t] = "remember" /\ pc'[t] = "compile"
             \/ pc[t] = "compile" /\ pc'[t] = "mode"
             \/ pc[t] = "mode" /\ pc'[t] = "reuse" /\ loc'[t].gen = generation
      BY <1>4, <1>5, <2>6
         DEF RememberRetained, CompileEnter, CompileMode, Goto, Base, ThreadTypes, Locals
    <3>2. pc[t] = "remember" => s.caller = "prepare"
      BY <1>4, Here DEF ThreadOK, LocalOK, CompileOK
    <3> QED  BY <1>3, <1>4, <1>5, <3>1, <3>2 DEF Sole, Mine, Missing, LoadedIn, Compiling, Typing, Ran
  <2>7. CASE Relookup(t)
    <3>1. PICK lc, sig : lc = UsesLaunchConfig(t) /\ sig = Literalized(s.args, literals)
      OBVIOUS
    <3>2. \/ /\ loc' = [loc EXCEPT ![t].sig = sig, ![t].active.lc = lc]
             /\ pc' = [pc EXCEPT ![t] = "select"]
          \/ /\ loc' = [loc EXCEPT ![t].error = "no matching overload"]
             /\ pc' = [pc EXCEPT ![t] = "failed"]
      BY <1>4, <2>7, <3>1 DEF Relookup, Raise, Goto
    <3>3. loc'[t] \in {[s EXCEPT !.sig = sig, !.active.lc = lc],
                       [s EXCEPT !.error = "no matching overload"]}
      <4>1. DOMAIN loc = Threads /\ loc[t] = s
        BY <1>4 DEF Base, ThreadTypes
      <4> QED  BY <3>2, <4>1
    <3>4. loc'[t].launcher = s.launcher /\ loc'[t].m = s.m
      BY <1>5, <3>3 DEF Locals
    <3>5. /\ loc'[t].launcher = s.launcher /\ loc'[t].m = s.m
          /\ pc'[t] \in {"select", "failed"}
      BY <3>2, <3>4 DEF Base, ThreadTypes
    <3>6. pc[t] = "relookup"
      BY <2>7 DEF Relookup
    <3> QED  BY <1>3, <1>4, <1>5, <3>5, <3>6 DEF Sole, Mine, Missing, Compiling, Typing, Ran
  <2>8. CASE ReadGlobals(t) \/ CompileReturns(t) \/ Miss(t)
    <3>1. /\ loc'[t].launcher = s.launcher /\ loc'[t].m = s.m /\ loc'[t].args = s.args
          /\ loc'[t].gen = s.gen /\ loc'[t].kernel = s.kernel
          /\ \/ pc[t] = "read" /\ pc'[t] = "typed" /\ loc'[t].caller = s.caller
             \/ pc[t] = "compiled" /\ pc'[t] = "emplace"
             \/ pc[t] = "miss" /\ pc'[t] = "compile"
      BY <1>4, <1>5, <2>8
         DEF ReadGlobals, CompileReturns, Miss, Goto, Base, ThreadTypes, Locals
    <3> QED  BY <1>3, <1>4, <1>5, <3>1
             DEF Sole, Mine, Missing, LoadedIn, Compiling, Typing, Ran, Literalized
  <2> QED  BY <2>1, <2>2, <2>3, <2>4, <2>5, <2>6, <2>7, <2>8
<1> QED  BY <1>1, <1>3, <1>6, OwnKeepsLock

(* The ways to a native dispatcher of the current generation.              *)
LEMMA ReadyKeepsLock ==
  ASSUME Base, GilDisabled, Exclusive, LockInv, NEW t \in Threads, Ready(t) \/ ReadyAfterAll(t)
  PROVE  LockInv'
<1>1. LaunchStep(t) /\ pc[t] \in {"ready", "prepared"}
  BY DEF LaunchStep, Ready, ReadyAfterAll
<1>2. UNCHANGED << generation, c, literals, natives, marshaller, floor >> /\ LockShared'
  BY <1>1, SharedKeepsLock
<1>3. PICK s : s = loc[t]
  OBVIOUS
<1>4. /\ s \in Locals /\ s.launcher = marshaller[s.m].launcher
      /\ Sound(s.conf) /\ c.gen = generation
  BY <1>1, <1>3, Here, CurrentPlaced
     DEF LockInv, Running, Sole, Mine, ThreadOK, LocalOK, UsesConf, Preparing, BindingOK
<1>5. /\ pc'[t] \in {"prepare", "rebind"}
      /\ loc'[t].launcher = s.launcher /\ loc'[t].m = s.m
      /\ pc'[t] = "rebind" => loc'[t].active.kd = s.conf.kd
                              /\ s.conf.kd.gen = generation
  <2>1. CASE Ready(t)
    <3>1. CASE ReadyForLaunchConfig(t)
      <4>1. PICK b : b = [s.active EXCEPT !.lc = TRUE, !.kd = s.conf.kd, !.gen = s.conf.gen]
        OBVIOUS
      <4>2. loc' = [loc EXCEPT ![t] = [s EXCEPT !.active = b]] /\ pc' = [pc EXCEPT ![t] = "rebind"]
        BY <1>3, <2>1, <3>1, <4>1 DEF Ready, Goto
      <4>3. b.kd = s.conf.kd
        BY <1>4, <4>1 DEF Locals, Bindings, NoBinding
      <4>4. s.conf.gen = generation /\ generation # None
        BY <1>3, <3>1, Here, LaunchNoneAssumption DEF ReadyForLaunchConfig
      <4> QED  BY <1>4, <4>2, <4>3, <4>4 DEF Base, ThreadTypes, Locals, Sound
    <3>2. CASE ~ ReadyForLaunchConfig(t)
      BY <1>3, <1>4, <2>1, <3>2 DEF Ready, Goto, Base, ThreadTypes
    <3> QED  BY <3>1, <3>2
  <2>2. CASE ReadyAfterAll(t)
    <3>1. PICK lc, b : lc = UsesLaunchConfig(t) /\ b = [s.conf EXCEPT !.lc = lc]
      OBVIOUS
    <3>2. loc' = [loc EXCEPT ![t] = [s EXCEPT !.active = b]] /\ pc' = [pc EXCEPT ![t] = "rebind"]
      BY <1>3, <1>4, <2>2, <3>1 DEF ReadyAfterAll, Goto, Base, ThreadTypes
    <3>3. b.kd = s.conf.kd
      BY <1>4, <3>1 DEF Sound, Bindings
    <3>4. \/ s.conf.gen = generation /\ generation # None
          \/ s.conf.kd = c
      BY <1>3, <2>2, Here, LaunchNoneAssumption
         DEF ReadyAfterAll, ReadyForLaunchConfig, ReadyForGeneric
    <3> QED  BY <1>4, <3>2, <3>3, <3>4 DEF Base, ThreadTypes, Locals, Sound
  <2> QED  BY <2>1, <2>2
<1>6. Sole(t)'
  BY <1>2, <1>4, <1>5 DEF Sole, Mine, Missing, Compiling, Typing, Ran
<1> QED  BY <1>1, <1>2, <1>6, OwnKeepsLock

LEMMA SelectKeepsLock ==
  ASSUME Base, GilDisabled, Exclusive, LockInv, NEW t \in Threads, Select(t)
  PROVE  LockInv'
<1>1. LaunchStep(t) /\ pc[t] = "select"
  BY DEF LaunchStep, Select
<1>2. UNCHANGED << generation, c, literals, natives, marshaller, floor >> /\ LockShared'
  BY <1>1, SharedKeepsLock
<1>3. PICK s : s = loc[t]
  OBVIOUS
<1>4. /\ s \in Locals /\ s.launcher = marshaller[s.m].launcher
      /\ Sound(s.conf) /\ c.gen = generation
      /\ generation # None /\ Key(t) \in LcKeys
  BY <1>1, <1>3, Here, CurrentPlaced, LaunchNoneAssumption
     DEF LockInv, Running, Sole, Mine, ThreadOK, LocalOK, UsesConf, Preparing, BindingOK, Key
<1>5. PICK b : /\ loc' = [loc EXCEPT ![t] = [s EXCEPT !.active = b]]
               /\ b.kd.gen = generation
  <2>1. CASE loc' = [loc EXCEPT ![t].active = [lc |-> FALSE, kd |-> c, gen |-> None]]
    <3>1. PICK b : b = [lc |-> FALSE, kd |-> c, gen |-> None]
      OBVIOUS
    <3>2. loc' = [loc EXCEPT ![t] = [s EXCEPT !.active = b]]
      BY <1>3, <2>1, <3>1
    <3>3. b.kd.gen = generation
      BY <1>4, <3>1
    <3> QED  BY <3>2, <3>3
  <2>2. CASE loc[t].conf.gen = generation /\ loc' = [loc EXCEPT ![t].active = loc[t].conf]
    BY <1>3, <1>4, <2>2 DEF Sound
  <2>3. CASE /\ GetLaunchDispatcher(Key(t))
             /\ loc' = [loc EXCEPT ![t].active = [lc |-> TRUE, kd |-> Obtained(Key(t)),
                                                  gen |-> generation]]
    <3>1. Obtained(Key(t)).gen = generation
      BY <1>4, <2>3, ObtainMoves
    <3>2. PICK b : b = [lc |-> TRUE, kd |-> Obtained(Key(t)), gen |-> generation]
      OBVIOUS
    <3>3. loc' = [loc EXCEPT ![t] = [s EXCEPT !.active = b]]
      BY <1>3, <2>3, <3>2
    <3>4. b.kd.gen = generation
      BY <3>1, <3>2
    <3> QED  BY <3>3, <3>4
  <2> QED  BY <2>1, <2>2, <2>3 DEF Select
<1>6. /\ pc'[t] = "rebind" /\ loc'[t].active.kd.gen = generation
      /\ loc'[t].launcher = s.launcher /\ loc'[t].m = s.m
  BY <1>4, <1>5 DEF Select, Goto, Base, ThreadTypes, Locals
<1>7. Sole(t)'
  BY <1>2, <1>4, <1>6 DEF Sole, Mine, Missing, Compiling, Typing, Ran
<1> QED  BY <1>1, <1>2, <1>7, OwnKeepsLock

(* A launch that decides to go straight to the native launcher.            *)
LEMMA DecideKeepsLock ==
  ASSUME Base, GilDisabled, Exclusive, LockInv, NEW t \in Threads, Decide(t)
  PROVE  LockInv'
<1>1. LaunchStep(t) /\ pc[t] = "decide" /\ loc' = loc
  BY DEF LaunchStep, Decide
<1>2. UNCHANGED << generation, c, literals, natives, marshaller, floor >> /\ LockShared'
  BY <1>1, SharedKeepsLock
<1>3. loc[t].launcher = Mine(t).launcher /\ loc[t].active = Mine(t).bound
  BY <1>1 DEF LockInv, Running, Sole
<1>4. Mine(t).launcher = Mine(t).bound.kd
  <2>1. \A u \in Threads : pc[u] # "rebound"
    BY <1>1, RunsAlone DEF Running
  <2> QED  BY <1>1, <2>1, Here DEF LockInv, LockShared, Mine
<1>5. pc'[t] \in {"configured", "go"}
  BY DEF Decide, Goto, Base, ThreadTypes
<1>6. ASSUME pc'[t] = "go"
      PROVE  loc[t].launcher.gen = generation \/ (literals = {} /\ ~ NeedsLaunch)
  <2>1. ~ planners /\ ~ Mine(t).bound.lc /\ ~ NeedsPrelaunch(t)
    BY <1>6 DEF Decide, Goto, Base, ThreadTypes
  <2>2. ~ NeedsLaunch
    BY <2>1 DEF Base, SharedInv
  <2>3. literals # {} => loc[t].active.kd = c
    BY <1>3, <2>1 DEF NeedsPrelaunch
  <2> QED  BY <1>3, <1>4, <2>2, <2>3, CurrentPlaced
<1>7. Sole(t)'
  BY <1>1, <1>2, <1>3, <1>5, <1>6 DEF Sole, Mine, Missing, Compiling, Typing, Ran
<1> QED  BY <1>1, <1>2, <1>7, OwnKeepsLock

(* A compilation that a launch has the lock for.                           *)
LEMMA CompilingAlone ==
  ASSUME Base, LockInv, NEW t \in Threads, pc[t] \in Typing
  PROVE  /\ Running(t) /\ Sole(t) /\ loc[t] \in Locals /\ LaunchStep(t) \in BOOLEAN
         /\ loc[t].gen = generation
         /\ loc[t].sig = Literalized(loc[t].args, literals)
         /\ loc[t].caller \in {"prepare", "native"}
         /\ AfterCompile(t) \in {"relookup", "compiled"}
         /\ AfterCompile(t) = "compiled" => LoadedIn(loc[t].launcher, loc[t].args) = {}
         /\ pc[t] = "publish" => loc[t].read >= floor
<1>1. pc[t] # "idle" /\ Running(t) /\ Sole(t) /\ loc[t] \in Locals
  BY Here DEF Typing, Running, LockInv
<1>2. loc[t].gen = generation
  BY <1>1 DEF Sole
<1>3. /\ loc[t].sig = Literalized(loc[t].args, literals)
      /\ loc[t].caller \in {"prepare", "native"}
  BY Here DEF ThreadOK, LocalOK, CompileOK, Typing, Compiling
<1>4. pc[t] = "publish" => loc[t].read >= floor
  BY <1>2, Here DEF ThreadOK, LocalOK, CompileOK
<1>5. AfterCompile(t) = "compiled" => Missing(t)
  BY <1>3 DEF AfterCompile, Missing, Compiling, Typing
<1> QED  BY <1>1, <1>2, <1>3, <1>4, <1>5 DEF Sole, AfterCompile, LaunchStep

(* A compilation, or the search for an earlier one, comes to its end.      *)
LEMMA CompiledKeepsSole ==
  ASSUME Base, LockInv, NEW t \in Threads, pc[t] \in Typing,
         UNCHANGED << generation, literals, natives, marshaller, floor >>,
         NEW k \in CompileResults, k.sig = loc[t].sig, k.world >= floor,
         pc' = [pc EXCEPT ![t] = AfterCompile(t)],
         loc' = [loc EXCEPT ![t] = [loc[t] EXCEPT !.kernel = k]]
  PROVE  Sole(t)'
<1>1. PICK s : s = loc[t]
  OBVIOUS
<1>2. /\ s \in Locals /\ s.launcher = marshaller[s.m].launcher
      /\ s.sig = Literalized(s.args, literals)
      /\ AfterCompile(t) \in {"relookup", "compiled"}
      /\ AfterCompile(t) = "compiled" => LoadedIn(s.launcher, s.args) = {}
  BY <1>1, CompilingAlone DEF Sole, Mine, Typing
<1>3. /\ pc'[t] = AfterCompile(t) /\ loc'[t].launcher = s.launcher /\ loc'[t].m = s.m
      /\ loc'[t].args = s.args /\ loc'[t].kernel = k
  BY <1>1, <1>2 DEF Base, ThreadTypes, Locals
<1> QED  BY <1>1, <1>2, <1>3 DEF Sole, Mine, Missing, LoadedIn, Compiling, Typing, Ran, Literalized

LEMMA ReuseKeepsLock ==
  ASSUME Base, GilDisabled, Exclusive, LockInv, NEW t \in Threads, Reuse(t)
  PROVE  LockInv'
<1>1. LaunchStep(t) /\ pc[t] = "reuse"
  BY DEF LaunchStep, Reuse
<1>2. UNCHANGED << generation, c, literals, natives, marshaller, floor >> /\ LockShared'
  BY <1>1, SharedKeepsLock
<1>3. pc[t] \in Typing
  BY <1>1 DEF Typing
<1>4. PICK s, lc : s = loc[t] /\ lc = (s.key # None)
  OBVIOUS
<1>5. PICK found : found = CompileResultsFor(s.sig, lc, s.key)
  OBVIOUS
<1>6. CASE found # {}
  <2>1. lc \in BOOLEAN /\ CompileResultsFor(s.sig, lc, s.key) # {} /\ Found(found) \in CompileResults
    BY <1>4, <1>5, <1>6, FoundFor
  <2>2. Found(found) \in overloads \cup lcOverloads /\ Found(found).sig = s.sig
    BY <1>5, <2>1, FoundFor
  <2>3. Found(found).world >= floor
    BY <2>2 DEF Base, SharedInv, LockInv, LockShared
  <2>4. /\ pc' = [pc EXCEPT ![t] = AfterCompile(t)]
        /\ loc' = [loc EXCEPT ![t] = [loc[t] EXCEPT !.kernel = Found(found)]]
    BY <1>4, <1>5, <1>6 DEF Reuse, Goto
  <2>5. Sole(t)'
    BY <1>2, <1>3, <1>4, <2>1, <2>2, <2>3, <2>4, CompiledKeepsSole
  <2> QED  BY <1>1, <1>2, <2>5, OwnKeepsLock
<1>7. CASE found = {}
  <2>1. pc'[t] = "read" /\ loc' = loc
    BY <1>4, <1>5, <1>7 DEF Reuse, Goto, Base, ThreadTypes
  <2>2. Sole(t) /\ (Missing(t)' => Missing(t))
    BY <1>1, <1>3, <2>1, CompilingAlone DEF Missing, Compiling
  <2>3. Sole(t)'
    BY <1>1, <1>2, <2>1, <2>2 DEF Sole, Mine, LoadedIn, Typing, Ran
  <2> QED  BY <1>1, <1>2, <2>3, OwnKeepsLock
<1> QED  BY <1>6, <1>7

(* Nothing the native dispatchers of older generations loaded counts for   *)
(* the new one.                                                            *)
LEMMA ForceLiteralArgKeepsLock ==
  ASSUME Base, GilDisabled, Exclusive, LockInv, NEW t \in Threads, ForceLiteralArg(t)
  PROVE  LockInv'
<1>1. LaunchStep(t) /\ pc[t] = "typed" /\ pc[t] \in Typing
  BY DEF LaunchStep, ForceLiteralArg, Typing
<1>2. loc[t].lits = literals /\ made \in Nat /\ natives \in SUBSET LoadedKernels
  BY <1>1, Here DEF ThreadOK, LocalOK, CompileOK, Base, SharedTypes, RegistryInv, RegistryTypeOK
<1>3. /\ overloads' = {} /\ literals' = literals \cup NeedsLiteral /\ literals' # {}
      /\ c'.id = made /\ made' = made + 1
      /\ UNCHANGED << natives, marshaller, floor, recompiling >>
  <2>1. ~ (NeedsLiteral \subseteq literals)
    BY <1>2 DEF ForceLiteralArg
  <2>2. AdvanceGeneration(literals \cup NeedsLiteral) /\ overloads' = {}
        /\ UNCHANGED << natives, marshaller, floor, recompiling >>
    BY <2>1 DEF ForceLiteralArg
  <2>3. literals \cup NeedsLiteral # {}
    BY <2>1
  <2> QED  BY <2>2, <2>3 DEF AdvanceGeneration, NewKernelDispatcher
<1>4. pc'[t] = "compile" /\ loc' = loc /\ \A u \in Threads : pc'[u] = "rebound" <=> pc[u] = "rebound"
  <2>1. pc'[t] = "compile"
    BY LiteralRequestIsNew
  <2>2. \E l : pc' = [pc EXCEPT ![t] = l]
    BY DEF ForceLiteralArg, Goto, Raise
  <2>3. loc' = loc
    BY <2>1 DEF ForceLiteralArg, Raise, Goto, Base, ThreadTypes
  <2> QED  BY <1>1, <2>1, <2>2, <2>3 DEF Base, ThreadTypes
<1>5. LockShared'
  BY <1>2, <1>3, <1>4 DEF LockInv, LockShared, LoadedKernels
<1>6. Sole(t) /\ (Missing(t)' => Missing(t))
  BY <1>1, <1>4, CompilingAlone DEF Missing, Compiling
<1>7. Sole(t)'
  BY <1>1, <1>3, <1>4, <1>6 DEF Sole, Mine, LoadedIn, Typing, Ran
<1> QED  BY <1>1, <1>5, <1>7, OwnKeepsLock

LEMMA PromoteKeepsLock ==
  ASSUME Base, GilDisabled, Exclusive, LockInv, NEW t \in Threads, Promote(t) \/ NoPromotion(t)
  PROVE  LockInv'
<1>1. LaunchStep(t) /\ pc[t] = "typed" /\ pc[t] \in Typing
  BY DEF LaunchStep, Promote, NoPromotion, Typing
<1>2. UNCHANGED << generation, c, literals, made, overloads, natives, marshaller, floor, recompiling >>
  BY DEF Promote, NoPromotion, registryVars, sharedVars
<1>3. PICK s : s = loc[t]
  OBVIOUS
<1>4. /\ pc' = [pc EXCEPT ![t] = "publish"] /\ pc'[t] = "publish"
      /\ loc'[t].m = s.m /\ loc'[t].args = s.args /\ loc'[t].launcher = s.launcher
      /\ loc'[t].caller = s.caller /\ loc'[t].gen = s.gen
      /\ \A u \in Threads \ {t} : loc'[u] = loc[u]
  BY <1>1, <1>3, CompilingAlone DEF Promote, NoPromotion, Goto, Base, ThreadTypes, Locals
<1>5. LockShared'
  <2>1. \A u \in Threads : pc'[u] = "rebound" <=> pc[u] = "rebound"
    BY <1>1, <1>4 DEF Base, ThreadTypes
  <2> QED  BY <1>1, <1>2, <1>4, <2>1 DEF LockInv, LockShared, Good
<1>6. Sole(t) /\ (Missing(t)' => Missing(t))
  BY <1>1, <1>3, <1>4, CompilingAlone DEF Missing, Compiling
<1>7. Sole(t)'
  BY <1>1, <1>2, <1>3, <1>4, <1>6 DEF Sole, Mine, LoadedIn, Typing, Ran
<1> QED  BY <1>1, <1>5, <1>7, OwnKeepsLock

LEMMA PublishKeepsLock ==
  ASSUME Base, GilDisabled, Exclusive, LockInv, NEW t \in Threads,
         PublishSpecialised(t) \/ PublishGeneric(t)
  PROVE  LockInv'
<1>1. LaunchStep(t) /\ pc[t] = "publish" /\ pc[t] \in Typing
  BY DEF LaunchStep, PublishSpecialised, PublishGeneric, Typing
<1>2. UNCHANGED << generation, c, literals, made, natives, marshaller, floor, recompiling >>
  BY DEF PublishSpecialised, PublishGeneric, registryVars, sharedVars
<1>3. PICK s : s = loc[t]
  OBVIOUS
<1>4. ~ Overtaken(t) /\ s.read >= floor /\ s \in Locals /\ recompiling # "cleared"
  BY <1>1, <1>3, CompilingAlone, RunsAlone DEF Overtaken
<1>5. Compiled(t) \in CompileResults /\ Compiled(t).sig = s.sig /\ Compiled(t).world = s.read
  BY <1>1, <1>3, CompiledType
<1>6. \E k \in CompileResults :
          /\ k.sig = s.sig /\ k.world >= floor
          /\ pc' = [pc EXCEPT ![t] = AfterCompile(t)]
          /\ loc' = [loc EXCEPT ![t] = [s EXCEPT !.kernel = k]]
  <2>1. CASE PublishSpecialised(t)
    <3>1. PICK existing, k :
             /\ existing = SpecialisedFor(s.sig, s.key)
             /\ k = IF existing # {} THEN Found(existing) ELSE Compiled(t)
      OBVIOUS
    <3>2. /\ pc' = [pc EXCEPT ![t] = AfterCompile(t)]
          /\ loc' = [loc EXCEPT ![t] = [s EXCEPT !.kernel = k]]
      BY <1>3, <1>4, <2>1, <3>1 DEF PublishSpecialised, Goto
    <3>3. existing # {} => Found(existing) \in lcOverloads /\ Found(existing).sig = s.sig
      BY <3>1 DEF Found, SpecialisedFor
    <3>4. \A r \in lcOverloads : r \in CompileResults /\ r.world >= floor
      BY DEF Base, SharedInv, RegistryInv, RegistryTypeOK
    <3> QED  BY <1>4, <1>5, <3>1, <3>2, <3>3, <3>4
  <2>2. CASE PublishGeneric(t)
    <3>1. /\ pc' = [pc EXCEPT ![t] = AfterCompile(t)]
          /\ loc' = [loc EXCEPT ![t] = [s EXCEPT !.kernel = Compiled(t)]]
      BY <1>3, <2>2 DEF PublishGeneric, Goto
    <3> QED  BY <1>4, <1>5, <3>1
  <2> QED  BY <2>1, <2>2
<1>7. Sole(t)'
  BY <1>1, <1>2, <1>3, <1>6, CompiledKeepsSole
<1>8. overloads' \subseteq overloads \cup {Compiled(t)}
  BY DEF PublishSpecialised, PublishGeneric, sharedVars
<1>9. LockShared'
  <2>1. \A u \in Threads : pc'[u] = "rebound" <=> pc[u] = "rebound"
    BY <1>1, <1>6 DEF Base, ThreadTypes, AfterCompile
  <2>2. \A u \in Threads : loc'[u].m = loc[u].m
    BY <1>3, <1>4, <1>6 DEF Base, ThreadTypes, Locals
  <2> QED  BY <1>2, <1>4, <1>5, <1>8, <2>1, <2>2 DEF LockInv, LockShared, Good
<1> QED  BY <1>1, <1>7, <1>9, OwnKeepsLock

LEMMA RebindKeepsLock ==
  ASSUME Base, GilDisabled, Exclusive, LockInv, NEW t \in Threads, Rebind(t)
  PROVE  LockInv'
<1>1. LaunchStep(t) /\ pc[t] = "rebind" /\ Running(t) /\ Sole(t)
  BY DEF LaunchStep, Rebind, Running, LockInv
<1>2. /\ UNCHANGED << generation, c, literals, made, overloads, natives, floor, recompiling >>
      /\ \A u \in Threads : pc[u] # "rebound"
  BY <1>1, RunsAlone DEF Rebind, registryVars, Running
<1>3. PICK s, a, m, x : s = loc[t] /\ a = s.active /\ m = s.m /\ x = marshaller[m]
  OBVIOUS
<1>4. /\ s \in Locals /\ m \in Objects /\ x \in MarshallerStates /\ x # None
      /\ marshaller \in [Objects -> MarshallerStates \cup {None}]
  BY <1>1, <1>3, Here DEF Base, SharedTypes
<1>5. /\ x.launcher = x.bound.kd /\ s.launcher = x.launcher /\ a.kd.gen = generation
  BY <1>1, <1>2, <1>3, <1>4 DEF LockInv, LockShared, Sole, Mine
<1>6. CASE a.kd # x.bound.kd \/ a.lc # x.bound.lc
  <2>1. /\ loc' = [loc EXCEPT ![t] = [s EXCEPT !.launcher = a.kd]]
        /\ marshaller' = [marshaller EXCEPT ![m] = [x EXCEPT !.launcher = a.kd, !.bound.lc = a.lc]]
        /\ pc' = [pc EXCEPT ![t] = "rebound"]
    BY <1>3, <1>6 DEF Rebind, Goto, Mine
  <2>2. /\ pc'[t] = "rebound" /\ loc'[t].m = m /\ loc'[t].launcher = a.kd /\ loc'[t].active = a
        /\ marshaller'[m].launcher = a.kd
        /\ \A o \in Objects \ {m} : marshaller'[o] = marshaller[o]
    BY <1>3, <1>4, <2>1 DEF Base, ThreadTypes, Locals, MarshallerStates
  <2>3. LockShared'
    BY <1>2, <2>2 DEF LockInv, LockShared, Good
  <2>4. Sole(t)'
    BY <1>2, <1>5, <2>2 DEF Sole, Mine, Missing, Compiling, Typing, Ran
  <2> QED  BY <1>1, <2>3, <2>4, OwnKeepsLock
<1>7. CASE ~ (a.kd # x.bound.kd \/ a.lc # x.bound.lc)
  <2>1. UNCHANGED << loc, marshaller >> /\ pc' = [pc EXCEPT ![t] = "go"]
    BY <1>3, <1>7 DEF Rebind, Goto, Mine
  <2>2. LockShared'
    BY <1>2, <2>1 DEF LockInv, LockShared, Good
  <2>3. pc'[t] = "go" /\ s.launcher.gen = generation
    BY <1>5, <1>7, <2>1 DEF Base, ThreadTypes
  <2>4. Sole(t)'
    BY <1>1, <1>2, <1>3, <2>1, <2>3 DEF Sole, Mine, Missing, Compiling, Typing, Ran
  <2> QED  BY <1>1, <2>2, <2>4, OwnKeepsLock
<1> QED  BY <1>6, <1>7

LEMMA ReboundKeepsLock ==
  ASSUME Base, GilDisabled, Exclusive, LockInv, NEW t \in Threads, Rebound(t)
  PROVE  LockInv'
<1>1. LaunchStep(t) /\ pc[t] = "rebound" /\ Running(t) /\ Sole(t)
  BY DEF LaunchStep, Rebound, Running, LockInv
<1>2. /\ UNCHANGED << generation, c, literals, made, overloads, natives, floor, recompiling, loc >>
      /\ \A u \in Threads \ {t} : pc[u] # "rebound"
  BY <1>1, RunsAlone DEF Rebound, registryVars, Running
<1>3. PICK s, a, m, x : s = loc[t] /\ a = s.active /\ m = s.m /\ x = marshaller[m]
  OBVIOUS
<1>4. /\ s \in Locals /\ m \in Objects /\ x \in MarshallerStates /\ x # None
      /\ marshaller \in [Objects -> MarshallerStates \cup {None}]
  BY <1>1, <1>3, Here DEF Base, SharedTypes
<1>5. a.kd = x.launcher /\ s.launcher = a.kd /\ a.kd.gen = generation
  BY <1>1, <1>3 DEF Sole, Mine
<1>6. /\ marshaller' = [marshaller EXCEPT ![m] = [x EXCEPT !.bound.kd = a.kd, !.bound.gen = a.gen]]
      /\ pc' = [pc EXCEPT ![t] = "go"]
  BY <1>3 DEF Rebound, Goto
<1>7. /\ pc'[t] = "go" /\ marshaller'[m].launcher = a.kd /\ marshaller'[m].bound.kd = a.kd
      /\ \A o \in Objects \ {m} : marshaller'[o] = marshaller[o]
  BY <1>4, <1>5, <1>6 DEF Base, ThreadTypes, MarshallerStates, Bindings
<1>8. LockShared'
  <2>1. \A o \in Objects \ {m} : \A u \in Threads : pc[u] = "rebound" => loc[u].m # o
    BY <1>2, <1>3
  <2> QED  BY <1>2, <1>7, <2>1 DEF LockInv, LockShared, Good
<1>9. Sole(t)'
  BY <1>2, <1>3, <1>5, <1>7 DEF Sole, Mine, Missing, Compiling, Typing, Ran
<1> QED  BY <1>1, <1>8, <1>9, OwnKeepsLock

(* What a native dispatcher of the current generation, or of any when no   *)
(* argument is a literal, has loaded fits the launch.                      *)
LEMMA LoadedFits ==
  ASSUME Base, LockInv, NEW d, Placed(d), NEW args \in [Positions -> Values],
         d.gen = generation \/ (literals = {} /\ ~ NeedsLaunch), LoadedIn(d, args) # {},
         NEW k, k = Found(LoadedIn(d, args)).kernel
  PROVE  /\ \A p \in Positions : k.sig[p] \in {NotLiteral, args[p]}
         /\ NeedsLiteral # {} \/ NeedsLaunch => k.world >= floor
<1>1. PICK n : n = Found(LoadedIn(d, args))
  OBVIOUS
<1>2. n \in natives /\ n.in = d.id /\ n.constants = Literalized(args, d.lits) /\ n.kernel = k
  BY <1>1, LoadedType
<1>3. CASE d.gen = generation
  <2>1. n.kernel.sig = Literalized(args, d.lits) /\ n.kernel.world >= floor
    BY <1>2, <1>3 DEF Placed, LockInv, LockShared, Good
  <2> QED  BY <1>2, <2>1 DEF Literalized
<1>4. CASE literals = {} /\ ~ NeedsLaunch
  <2>1. NeedsLiteral = {}
    BY <1>2, <1>4 DEF Base, SharedInv
  <2> QED  BY <1>2, <1>4, <2>1 DEF LockInv, LockShared
<1> QED  BY <1>3, <1>4

LEMMA GoKeepsLock ==
  ASSUME Base, GilDisabled, Exclusive, LockInv, NEW t \in Threads, Go(t)
  PROVE  LockInv'
<1>1. LaunchStep(t) /\ pc[t] = "go" /\ Sole(t)
  BY DEF LaunchStep, Go, Running, LockInv
<1>2. UNCHANGED << generation, c, literals, natives, marshaller, floor >> /\ LockShared'
  BY <1>1, SharedKeepsLock
<1>3. PICK s, loaded : s = loc[t] /\ loaded = LoadedIn(s.launcher, s.args)
  OBVIOUS
<1>4. /\ s \in Locals /\ s.launcher = marshaller[s.m].launcher
      /\ Placed(s.launcher) /\ s.args \in [Positions -> Values]
      /\ s.launcher.gen = generation \/ (literals = {} /\ ~ NeedsLaunch)
  BY <1>1, <1>3, Here DEF Sole, Mine, ThreadOK, LocalOK
<1>5. CASE loaded # {}
  <2>1. PICK k : k = Found(loaded).kernel
    OBVIOUS
  <2>2. /\ loc' = [loc EXCEPT ![t] = [s EXCEPT !.kernel = k]]
        /\ pc' = [pc EXCEPT ![t] = "ran"]
    BY <1>3, <1>5, <2>1 DEF Go, Goto
  <2>3. /\ \A p \in Positions : k.sig[p] \in {NotLiteral, s.args[p]}
        /\ NeedsLiteral # {} \/ NeedsLaunch => k.world >= floor
    BY <1>3, <1>4, <1>5, <2>1, LoadedFits
  <2>4. /\ pc'[t] = "ran" /\ loc'[t].kernel = k /\ loc'[t].args = s.args
        /\ loc'[t].launcher = s.launcher /\ loc'[t].m = s.m
    BY <1>4, <2>2 DEF Base, ThreadTypes, Locals
  <2>5. Sole(t)'
    BY <1>2, <1>4, <2>3, <2>4 DEF Sole, Mine, Missing, Compiling, Typing, Ran, OwnLiterals
  <2> QED  BY <1>1, <1>2, <2>5, OwnKeepsLock
<1>6. CASE loaded = {}
  <2>1. /\ loc' = [loc EXCEPT ![t] = [s EXCEPT !.kernel = None]]
        /\ pc' = [pc EXCEPT ![t] = "miss"]
    BY <1>3, <1>6 DEF Go, Goto
  <2>2. /\ pc'[t] = "miss" /\ loc'[t].args = s.args
        /\ loc'[t].launcher = s.launcher /\ loc'[t].m = s.m
    BY <1>4, <2>1 DEF Base, ThreadTypes, Locals
  <2>3. Sole(t)'
    BY <1>2, <1>3, <1>4, <1>6, <2>2 DEF Sole, Mine, Missing, LoadedIn, Compiling, Typing, Ran
  <2> QED  BY <1>1, <1>2, <2>3, OwnKeepsLock
<1> QED  BY <1>5, <1>6

LEMMA EmplaceKeepsLock ==
  ASSUME Base, GilDisabled, Exclusive, LockInv, NEW t \in Threads, Emplace(t)
  PROVE  LockInv'
<1>1. LaunchStep(t) /\ pc[t] = "emplace" /\ Sole(t) /\ Missing(t)
  BY DEF LaunchStep, Emplace, Running, LockInv, Missing
<1>2. UNCHANGED << generation, c, literals, made, overloads, marshaller, floor, recompiling >>
  BY DEF Emplace, registryVars
<1>3. PICK s, n : s = loc[t] /\ n = [in |-> s.launcher.id, kernel |-> s.kernel,
                                     constants |-> Literalized(s.args, s.launcher.lits)]
  OBVIOUS
<1>4. /\ s \in Locals /\ s.launcher = marshaller[s.m].launcher
      /\ Placed(s.launcher) /\ s.args \in [Positions -> Values]
      /\ LoadedIn(s.launcher, s.args) = {}
      /\ s.kernel.sig = Literalized(s.args, literals) /\ s.kernel.world >= floor
  BY <1>1, <1>3, Here DEF Sole, Mine, ThreadOK, LocalOK
<1>5. /\ natives' = natives \cup {n} /\ loc' = loc /\ pc' = [pc EXCEPT ![t] = "ran"]
  BY <1>3, <1>4 DEF Emplace, Goto
<1>6. n.in < made /\ (n.in >= c.id => Good(n))
  BY <1>3, <1>4 DEF Placed, Good
<1>7. literals = {} => \A p \in Positions : n.kernel.sig[p] = NotLiteral
  BY <1>3, <1>4 DEF Literalized
<1>8. LockShared'
  <2>1. \A u \in Threads : pc'[u] = "rebound" <=> pc[u] = "rebound"
    BY <1>1, <1>5 DEF Base, ThreadTypes
  <2> QED  BY <1>2, <1>5, <1>6, <1>7, <2>1 DEF LockInv, LockShared, Good
<1>9. pc'[t] = "ran" /\ \A p \in Positions : s.kernel.sig[p] \in {NotLiteral, s.args[p]}
  BY <1>4, <1>5 DEF Base, ThreadTypes, Literalized
<1>10. Sole(t)'
  BY <1>2, <1>3, <1>4, <1>5, <1>9 DEF Sole, Mine, Missing, Compiling, Typing, Ran, OwnLiterals
<1> QED  BY <1>1, <1>8, <1>10, OwnKeepsLock

LEMMA StepKeepsLock ==
  ASSUME Base, GilDisabled, Exclusive, LockInv, [Next]_vars
  PROVE  LockInv'
<1>1. ASSUME NEW t \in Threads, LaunchStep(t)
      PROVE  LockInv'
  <2>1. CASE \/ TakeLaunchLock(t) \/ Snapshot(t) \/ ReadLauncher(t) \/ ReadConfigured(t)
             \/ ReadyGeneric(t) \/ Recheck(t) \/ Prepare(t) \/ NotReady(t) \/ FindCompiled(t)
             \/ RememberRetained(t) \/ Relookup(t) \/ CompileEnter(t) \/ CompileMode(t)
             \/ ReadGlobals(t) \/ CompileReturns(t) \/ Miss(t) \/ Leave(t)
    BY <2>1, ChecksKeepLock
  <2>2. CASE Decide(t) \/ Ready(t) \/ ReadyAfterAll(t) \/ Select(t)
    BY <2>2, DecideKeepsLock, ReadyKeepsLock, SelectKeepsLock
  <2>3. CASE \/ Reuse(t) \/ ForceLiteralArg(t) \/ Promote(t) \/ NoPromotion(t)
             \/ PublishSpecialised(t) \/ PublishGeneric(t)
    BY <2>3, ReuseKeepsLock, ForceLiteralArgKeepsLock, PromoteKeepsLock, PublishKeepsLock
  <2>4. CASE Rebind(t) \/ Rebound(t) \/ Go(t) \/ Emplace(t)
    BY <2>4, RebindKeepsLock, ReboundKeepsLock, GoKeepsLock, EmplaceKeepsLock
  <2> QED  BY <1>1, <2>1, <2>2, <2>3, <2>4 DEF LaunchStep
<1> QED  BY <1>1, AroundKeepsLock, RecompileKeepsLock, LaunchKeepsLock, StepCases

LEMMA LockInvariant == ASSUME GilDisabled PROVE Spec => []LockInv
<1>1. Init => LockInv
  BY DEF Init, RegistryInit, LockInv, LockShared, Running
<1>2. Base /\ Exclusive /\ LockInv /\ [Next]_vars => LockInv'
  BY StepKeepsLock
<1> QED  BY <1>1, <1>2, BaseInvariant, ExclusiveInvariant, PTL DEF Spec

(* MarshallersStayTogether: on a build without the GIL no launch finds a   *)
(* marshaller half rebound: between launches its launcher is the native    *)
(* dispatcher it says it is bound to (_launch, under _launch_lock).        *)
THEOREM MarshallersStayTogether == ASSUME GilDisabled PROVE Spec => []BoundTogether
<1>1. LockInv => BoundTogether
  BY DEF LockInv, LockShared, BoundTogether
<1> QED  BY <1>1, LockInvariant, PTL

(* LaunchRunsItsLiterals: on a build without the GIL a launch runs a       *)
(* kernel compiled for the values of its own literal arguments, whichever  *)
(* positions were found to need literals while it or others were compiled. *)
THEOREM LaunchRunsItsLiterals == ASSUME GilDisabled PROVE Spec => []RunsOwnLiterals
<1>1. LockInv => RunsOwnLiterals
  BY DEF LockInv, Running, Sole, OwnLiterals, Ran, RunsOwnLiterals
<1> QED  BY <1>1, LockInvariant, PTL

(* LaunchRunsFreshCode: on a build without the GIL a launch that started   *)
(* after recompile() runs code compiled from the globals recompile() found *)
(* if the kernel has a literal argument or a planner asks for metadata.    *)
THEOREM LaunchRunsFreshCode ==
  ASSUME GilDisabled, NeedsLiteral # {} \/ NeedsLaunch
  PROVE  Spec => []FreshAfterRecompile
<1>1. Base /\ LockInv => FreshAfterRecompile
  <2> SUFFICES ASSUME Base, LockInv, NEW t \in Threads, Ran(t)
               PROVE  loc[t].kernel.world >= loc[t].since
    BY DEF FreshAfterRecompile
  <2>1. loc[t].kernel.world >= floor
    BY DEF LockInv, Running, Sole, Ran
  <2>2. loc[t].since <= floor /\ floor \in Nat /\ loc[t].since \in Nat
    BY Here DEF ThreadOK, LocalOK, Locals
  <2>3. loc[t].kernel \in CompileResults
    BY Here DEF ThreadOK, LocalOK, CompileOK, Ran
  <2> QED  BY <2>1, <2>2, <2>3 DEF CompileResults
<1> QED  BY <1>1, LockInvariant, BaseInvariant, PTL

-----------------------------------------------------------------------------
(* Every native dispatcher belongs to one launch configuration, or to none *)

(* o says to which.                                                        *)
Owners == [Nat -> LcKeys \cup {None}]

(* A binding of m: with a generation it is to a dispatcher of m's own      *)
(* configuration, without one to a generic dispatcher.                     *)
Tagged(o, b, m) == o[b.kd.id] = IF b.gen = None THEN None ELSE KeyOf[m]

(* Where the launcher of a launch is the one that will run.                *)
UsesLauncher(l, r) ==
    \/ l \in {"go", "miss", "compiled", "emplace"}
    \/ l \in Compiling /\ r.caller = "native"
    \/ ~ NeedsLaunch /\ l \notin {"idle", "call", "snapshot", "launcher"}

OwnedThread(o, l, r) ==
    /\ l \notin {"idle", "call", "snapshot"} => Tagged(o, r.active, r.m)
    /\ UsesConf(l, r) => Tagged(o, r.conf, r.m)
    /\ l \in {"rebind", "rebound"} => (r.active.lc => r.active.gen # None)
    /\ UsesLauncher(l, r) => o[r.launcher.id] = Wanted(r.m)
    /\ l = "ran" => r.kernel.key = Wanted(r.m)

OwnedTables(o) ==
    /\ o[c.id] = None
    /\ \A k \in Registered : o[dispatchers[k].id] = k
    /\ \A n \in natives : n.in < made /\ o[n.in] = n.kernel.key

OwnedMarshaller(o, m) == marshaller[m] # None =>
    /\ Tagged(o, marshaller[m].bound, m)
    /\ ~ NeedsLaunch => o[marshaller[m].launcher.id] = Wanted(m)

Owned(o) ==
    /\ o \in Owners /\ OwnedTables(o)
    /\ \A m \in Objects : OwnedMarshaller(o, m)
    /\ \A t \in Threads : OwnedThread(o, pc[t], loc[t])

(* p agrees with o on the native dispatchers there are.                    *)
Extends(p, o) == p \in Owners /\ \A i \in Nat : i < made => p[i] = o[i]

LEMMA ExtendOwners ==
  ASSUME Base, NEW o \in Owners, NEW k \in LcKeys \cup {None}
  PROVE  /\ Extends(o, o)
         /\ Extends([o EXCEPT ![made] = k], o) /\ [o EXCEPT ![made] = k][made] = k
BY DEF Base, RegistryInv, RegistryTypeOK, Extends, Owners

(* The other threads, and the marshallers that are left alone.             *)
LEMMA OwnedStay ==
  ASSUME Base, NEW o, Owned(o), NEW p, Extends(p, o), OptInsKept
  PROVE  /\ \A t \in Threads : OwnedThread(p, pc[t], loc[t])
         /\ \A t \in Threads : pc'[t] = pc[t] /\ loc'[t] = loc[t] =>
                                 OwnedThread(p, pc[t], loc[t])'
         /\ \A m \in Objects : OwnedMarshaller(p, m)
         /\ \A m \in Objects : marshaller'[m] = marshaller[m] => OwnedMarshaller(p, m)'
<1>1. ASSUME NEW b, Sound(b)
      PROVE  p[b.kd.id] = o[b.kd.id]
  BY <1>1 DEF Sound, Placed, NativeDispatcher, Extends
<1>2. ASSUME NEW d, Placed(d)
      PROVE  p[d.id] = o[d.id]
  BY <1>2 DEF Placed, NativeDispatcher, Extends
<1>3. ASSUME NEW t \in Threads
      PROVE  /\ OwnedThread(p, pc[t], loc[t])
             /\ pc'[t] = pc[t] /\ loc'[t] = loc[t] => OwnedThread(p, pc[t], loc[t])'
  <2>1. PICK l, r : l = pc[t] /\ r = loc[t]
    OBVIOUS
  <2>2. LocalOK(l, r) /\ OwnedThread(o, l, r)
    BY <2>1, Here DEF ThreadOK, Owned
  <2>3. l \notin {"idle", "call", "snapshot"} => Tagged(p, r.active, r.m)
    BY <1>1, <2>2 DEF LocalOK, OwnedThread, Tagged
  <2>4. UsesConf(l, r) => Tagged(p, r.conf, r.m)
    BY <1>1, <2>2 DEF LocalOK, BindingOK, OwnedThread, Tagged
  <2>5. UsesLauncher(l, r) => p[r.launcher.id] = Wanted(r.m)
    <3>1. UsesLauncher(l, r) => l \notin {"idle", "call", "snapshot", "launcher"}
      BY DEF UsesLauncher, Compiling
    <3> QED  BY <1>2, <2>2, <3>1 DEF LocalOK, OwnedThread
  <2>6. OwnedThread(p, l, r)
    BY <2>2, <2>3, <2>4, <2>5 DEF OwnedThread
  <2>7. l # "idle" => Wanted(r.m)' = Wanted(r.m)
    BY <2>2 DEF LocalOK, OptInsKept, Wanted
  <2>8. ASSUME pc'[t] = pc[t], loc'[t] = loc[t]
        PROVE  OwnedThread(p, pc[t], loc[t])'
    <3>1. UsesLauncher(l, r) => l # "idle"
      BY DEF UsesLauncher, Compiling
    <3>2. UsesConf(l, r)' = UsesConf(l, r) /\ UsesLauncher(l, r)' = UsesLauncher(l, r)
      BY DEF UsesConf, UsesLauncher
    <3>3. OwnedThread(p, l, r)'
      BY <2>6, <2>7, <3>1, <3>2 DEF OwnedThread, Tagged
    <3> QED  BY <2>1, <2>8, <3>3
  <2> QED  BY <2>1, <2>6, <2>8
<1>4. ASSUME NEW m \in Objects
      PROVE  OwnedMarshaller(p, m) /\ (marshaller'[m] = marshaller[m] => OwnedMarshaller(p, m)')
  <2>1. MarshallerOK(m) /\ OwnedMarshaller(o, m)
    BY DEF Base, Owned
  <2>2. OwnedMarshaller(p, m)
    BY <1>1, <1>2, <2>1 DEF MarshallerOK, OwnedMarshaller, Tagged
  <2> QED  BY <2>2 DEF OwnedMarshaller, Tagged, Wanted
<1> QED  BY <1>3, <1>4

(* A step of t, which ends at l with the locals r.                         *)
LEMMA OwnedStep ==
  ASSUME Base, NEW o, Owned(o), NEW p, Extends(p, o), OptInsKept, OwnedTables(p)',
         \A m \in Objects : marshaller'[m] = marshaller[m] \/ OwnedMarshaller(p, m)',
         NEW t \in Threads, NEW l, NEW r,
         pc' = [pc EXCEPT ![t] = l], loc' = [loc EXCEPT ![t] = r],
         l # "idle" => r.m \in Objects /\ marshaller[r.m] # None,
         OwnedThread(p, l, r)
  PROVE  Owned(p)'
<1>1. OwnedThread(p, l, r)'
  <2>1. l # "idle" => Wanted(r.m)' = Wanted(r.m)
    BY DEF OptInsKept, Wanted
  <2>2. UsesLauncher(l, r) => l # "idle"
    BY DEF UsesLauncher, Compiling
  <2>3. UsesConf(l, r)' = UsesConf(l, r) /\ UsesLauncher(l, r)' = UsesLauncher(l, r)
    BY DEF UsesConf, UsesLauncher
  <2> QED  BY <2>1, <2>2, <2>3 DEF OwnedThread, Tagged
<1>2. pc'[t] = l /\ loc'[t] = r /\ \A u \in Threads \ {t} : pc'[u] = pc[u] /\ loc'[u] = loc[u]
  BY DEF Base, ThreadTypes
<1>3. \A u \in Threads : OwnedThread(p, pc[u], loc[u])'
  BY <1>1, <1>2, OwnedStay
<1>4. \A m \in Objects : OwnedMarshaller(p, m)'
  BY OwnedStay
<1>5. p \in Owners
  BY DEF Extends
<1> QED  BY <1>3, <1>4, <1>5 DEF Owned

(* A step of no thread.                                                    *)
LEMMA OwnedAround ==
  ASSUME Base, NEW o, Owned(o), NEW p, Extends(p, o), OptInsKept, OwnedTables(p)',
         \A m \in Objects : marshaller'[m] = marshaller[m] \/ OwnedMarshaller(p, m)',
         UNCHANGED << pc, loc >>
  PROVE  Owned(p)'
<1>1. \A u \in Threads : OwnedThread(p, pc[u], loc[u])'
  BY OwnedStay
<1>2. \A m \in Objects : OwnedMarshaller(p, m)'
  BY OwnedStay
<1>3. p \in Owners
  BY DEF Extends
<1> QED  BY <1>1, <1>2, <1>3 DEF Owned

(* The tables, when nothing is registered anew.                            *)
LEMMA TablesStay ==
  ASSUME Base, [Next]_vars, NEW o, Owned(o), UNCHANGED << c, natives >>,
         dispatchers' = dispatchers
         \/ \E k \in LcKeys : \E d : dispatchers[k] = None /\ InsertDispatcher(k, d) /\ o[d.id] = k
  PROVE  OwnedTables(o)'
<1>1. OwnedTables(o) /\ dispatchers \in [LcKeys -> NativeDispatcher \cup {None}]
  BY DEF Owned, Base, RegistryInv, RegistryTypeOK
<1>2. \A n \in natives : n.in < made'
  BY <1>1, MadeGrows DEF OwnedTables, Base, SharedTypes, LoadedKernels
<1>3. CASE dispatchers' = dispatchers
  BY <1>1, <1>2, <1>3 DEF OwnedTables, Registered
<1>4. ASSUME NEW k \in LcKeys, NEW d, InsertDispatcher(k, d), o[d.id] = k
      PROVE  OwnedTables(o)'
  <2>1. \A j \in LcKeys : dispatchers'[j] \in {dispatchers[j], None} \/ (j = k /\ dispatchers'[j] = d)
    BY <1>1, <1>4 DEF InsertDispatcher
  <2>2. \A j \in Registered' : o[dispatchers'[j].id] = j
    BY <1>1, <1>4, <2>1 DEF OwnedTables, Registered
  <2> QED  BY <1>1, <1>2, <2>2 DEF OwnedTables
<1> QED  BY <1>3, <1>4

(* A dispatcher is looked up, or a new one is registered.                  *)
LEMMA ObtainTagged ==
  ASSUME Base, [Next]_vars, NEW o, Owned(o), NEW k \in LcKeys, GetLaunchDispatcher(k),
         UNCHANGED natives
  PROVE  \E p : Extends(p, o) /\ OwnedTables(p)' /\ p[Obtained(k).id] = k
<1>1. CASE dispatchers[k] # None
  <2>1. UNCHANGED << c, dispatchers >> /\ Obtained(k) = dispatchers[k]
    BY <1>1 DEF GetLaunchDispatcher, TouchDispatcher, Obtained
  <2>2. OwnedTables(o)' /\ o[Obtained(k).id] = k
    BY <1>1, <2>1, TablesStay DEF Owned, OwnedTables, Registered
  <2> QED  BY <2>2, ExtendOwners DEF Owned
<1>2. CASE dispatchers[k] = None
  <2>1. PICK d, p : d = Obtained(k) /\ p = [o EXCEPT ![made] = k]
    OBVIOUS
  <2>2. d.id = made /\ InsertDispatcher(k, d) /\ made' = made + 1
    BY <1>2, <2>1 DEF GetLaunchDispatcher, Obtained, NewKernelDispatcher
  <2>3. Extends(p, o) /\ p[made] = k
    BY <2>1, ExtendOwners DEF Owned
  <2>4. /\ c' = c /\ c.id < made /\ c.id \in Nat /\ made \in Nat
        /\ dispatchers \in [LcKeys -> NativeDispatcher \cup {None}]
    BY <2>2 DEF InsertDispatcher, Base, RegistryInv, RegistryTypeOK, SharedInv, NativeDispatcher
  <2>5. \A n \in natives : n.in \in Nat /\ n.in < made /\ o[n.in] = n.kernel.key
    BY DEF Owned, OwnedTables, Base, SharedTypes, LoadedKernels
  <2>6. \A j \in LcKeys : dispatchers'[j] \in {dispatchers[j], None} \/ (j = k /\ dispatchers'[j] = d)
    BY <2>2, <2>4 DEF InsertDispatcher
  <2>7. \A j \in Registered : p[dispatchers[j].id] = j
    <3>1. \A j \in Registered : dispatchers[j].id \in Nat /\ dispatchers[j].id < made
                                /\ o[dispatchers[j].id] = j
      BY DEF Base, SharedInv, Placed, NativeDispatcher, Owned, OwnedTables
    <3> QED  BY <2>3, <3>1 DEF Extends
  <2>8. \A j \in Registered' : p[dispatchers'[j].id] = j
    BY <2>2, <2>3, <2>6, <2>7 DEF Registered
  <2>9. p[c'.id] = None
    BY <2>3, <2>4 DEF Extends, Owned, OwnedTables
  <2>10. \A n \in natives' : n.in < made' /\ p[n.in] = n.kernel.key
    BY <2>2, <2>3, <2>4, <2>5 DEF Extends
  <2> QED  BY <2>1, <2>2, <2>3, <2>8, <2>9, <2>10 DEF OwnedTables
<1> QED  BY <1>1, <1>2

(* A new generation begins with a generic dispatcher only.                 *)
LEMMA AdvanceTagged ==
  ASSUME Base, NEW o, Owned(o), NEW lits, AdvanceGeneration(lits), UNCHANGED natives
  PROVE  \E p : Extends(p, o) /\ OwnedTables(p)'
<1>1. PICK p : p = [o EXCEPT ![made] = None]
  OBVIOUS
<1>2. Extends(p, o) /\ p[made] = None
  BY <1>1, ExtendOwners DEF Owned
<1>3. c'.id = made /\ made' = made + 1 /\ Registered' = {} /\ made \in Nat
  BY DEF AdvanceGeneration, NewKernelDispatcher, Registered, Base, RegistryInv, RegistryTypeOK
<1>4. \A n \in natives : n.in \in Nat /\ n.in < made /\ o[n.in] = n.kernel.key
  BY DEF Owned, OwnedTables, Base, SharedTypes, LoadedKernels
<1>5. \A n \in natives' : n.in < made' /\ p[n.in] = n.kernel.key
  BY <1>2, <1>3, <1>4 DEF Extends
<1> QED  BY <1>2, <1>3, <1>5 DEF OwnedTables

(* What a launch goes by is the same in r as in s.                         *)
Alike(r, s) ==
    /\ r.m = s.m /\ r.conf = s.conf /\ r.launcher = s.launcher
    /\ r.active.kd = s.active.kd /\ r.active.gen = s.active.gen

(* ... and so is what it uses, at k and at l.                              *)
Follows(k, r, l, s) ==
    /\ Alike(r, s)
    /\ l \notin {"idle", "call", "snapshot"} /\ k \notin {"idle", "rebind", "rebound", "ran"}
    /\ UsesConf(k, r) => UsesConf(l, s)
    /\ UsesLauncher(k, r) => UsesLauncher(l, s)

Continues(t) == \E k, r : /\ pc' = [pc EXCEPT ![t] = k] /\ loc' = [loc EXCEPT ![t] = r]
                          /\ Follows(k, r, pc[t], loc[t])

LEMMA FollowsOwned ==
  ASSUME NEW p, NEW k, NEW r, NEW l, NEW s, Follows(k, r, l, s), OwnedThread(p, l, s)
  PROVE  OwnedThread(p, k, r)
BY DEF Follows, Alike, OwnedThread, Tagged

LEMMA ChecksContinue ==
  ASSUME Base, NEW t \in Threads,
         \/ Decide(t) \/ ReadyGeneric(t) \/ Prepare(t) \/ NotReady(t) \/ FindCompiled(t)
         \/ RememberRetained(t) \/ Relookup(t) \/ Miss(t) \/ CompileReturns(t)
  PROVE  Continues(t)
<1>1. PICK s : s = loc[t]
  OBVIOUS
<1>2. s \in Locals
  BY <1>1, Here
<1>3. CASE Decide(t)
  <2>1. PICK k \in {"configured", "go"} : pc' = [pc EXCEPT ![t] = k] /\ (k = "go" => ~ planners)
    BY <1>3 DEF Decide, Goto
  <2>2. loc' = [loc EXCEPT ![t] = s]
    BY <1>1, <1>3 DEF Decide, Base, ThreadTypes
  <2>3. k = "go" => ~ NeedsLaunch
    BY <2>1 DEF Base, SharedInv
  <2>4. Follows(k, s, "decide", s)
    BY <2>3 DEF Follows, Alike, UsesConf, UsesLauncher, Preparing, Compiling
  <2> QED  BY <1>1, <1>3, <2>1, <2>2, <2>4 DEF Continues, Decide
<1>4. CASE ReadyGeneric(t) \/ NotReady(t) \/ RememberRetained(t)
  <2>1. PICK k : /\ pc' = [pc EXCEPT ![t] = k]
                 /\ \/ pc[t] = "readyGeneric" /\ k \in {"recheck", "prepare"}
                    \/ pc[t] = "prepared" /\ k = "find"
                    \/ pc[t] = "remember" /\ k = "compile"
    BY <1>4 DEF ReadyGeneric, NotReady, RememberRetained, Goto
  <2>2. loc' = [loc EXCEPT ![t] = s]
    BY <1>1, <1>4 DEF ReadyGeneric, NotReady, RememberRetained, Base, ThreadTypes
  <2>3. pc[t] = "remember" => s.caller = "prepare"
    BY <1>1, Here DEF ThreadOK, LocalOK, CompileOK
  <2>4. Follows(k, s, pc[t], s)
    BY <2>1, <2>3 DEF Follows, Alike, UsesConf, UsesLauncher, Preparing, Compiling
  <2> QED  BY <1>1, <2>1, <2>2, <2>4 DEF Continues
<1>5. CASE Prepare(t)
  <2>1. PICK r : r = [s EXCEPT !.sig = Literalized(s.args, literals)]
    OBVIOUS
  <2>2. pc[t] = "prepare" /\ pc' = [pc EXCEPT ![t] = "prepared"] /\ loc' = [loc EXCEPT ![t] = r]
    BY <1>1, <1>5, <2>1 DEF Prepare, Goto
  <2>3. Follows("prepared", r, "prepare", s)
    BY <1>2, <2>1 DEF Follows, Alike, UsesConf, UsesLauncher, Preparing, Compiling, Locals
  <2> QED  BY <1>1, <2>2, <2>3 DEF Continues
<1>6. CASE FindCompiled(t)
  <2>1. PICK lc, r, u : /\ lc = UsesLaunchConfig(t)
                        /\ r = [s EXCEPT !.active = [s.active EXCEPT !.lc = lc]]
                        /\ u = [s EXCEPT !.caller = "prepare", !.budget = RetryBudget]
    OBVIOUS
  <2>2. \/ pc' = [pc EXCEPT ![t] = "select"] /\ loc' = [loc EXCEPT ![t].active.lc = lc]
        \/ /\ \E k \in {"remember", "compile"} : pc' = [pc EXCEPT ![t] = k]
           /\ loc' = [loc EXCEPT ![t].caller = "prepare", ![t].budget = RetryBudget]
    BY <1>6, <2>1 DEF FindCompiled, Goto
  <2>3. CASE pc' = [pc EXCEPT ![t] = "select"] /\ loc' = [loc EXCEPT ![t].active.lc = lc]
    <3>1. loc' = [loc EXCEPT ![t] = r]
      BY <1>1, <2>1, <2>3
    <3>2. Alike(r, s)
      BY <1>2, <2>1 DEF Alike, Locals, Bindings, NoBinding
    <3>3. Follows("select", r, "find", s)
      BY <3>2 DEF Follows, UsesConf, UsesLauncher, Preparing, Compiling
    <3> QED  BY <1>1, <1>6, <2>3, <3>1, <3>3 DEF Continues, FindCompiled
  <2>4. ASSUME NEW k \in {"remember", "compile"}, pc' = [pc EXCEPT ![t] = k],
               loc' = [loc EXCEPT ![t].caller = "prepare", ![t].budget = RetryBudget]
        PROVE  Continues(t)
    <3>1. loc' = [loc EXCEPT ![t] = u]
      BY <1>1, <1>2, <2>1, <2>4 DEF Base, ThreadTypes
    <3>2. Alike(u, s) /\ u.caller = "prepare"
      BY <1>2, <2>1 DEF Alike, Locals
    <3>3. Follows(k, u, "find", s)
      BY <3>2 DEF Follows, UsesConf, UsesLauncher, Preparing, Compiling
    <3> QED  BY <1>1, <1>6, <2>4, <3>1, <3>3 DEF Continues, FindCompiled
  <2> QED  BY <2>2, <2>3, <2>4
<1>7. CASE Relookup(t)
  <2>1. PICK lc, sig, r, u :
           /\ lc = UsesLaunchConfig(t) /\ sig = Literalized(s.args, literals)
           /\ r = [s EXCEPT !.sig = sig, !.active = [s.active EXCEPT !.lc = lc]]
           /\ u = [s EXCEPT !.error = "no matching overload"]
    OBVIOUS
  <2>2. \/ pc' = [pc EXCEPT ![t] = "select"] /\ loc' = [loc EXCEPT ![t].sig = sig, ![t].active.lc = lc]
        \/ pc' = [pc EXCEPT ![t] = "failed"] /\ loc' = [loc EXCEPT ![t] = u]
    BY <1>1, <1>7, <2>1 DEF Relookup, Raise, Goto
  <2>3. CASE pc' = [pc EXCEPT ![t] = "select"]
             /\ loc' = [loc EXCEPT ![t].sig = sig, ![t].active.lc = lc]
    <3>1. loc' = [loc EXCEPT ![t] = r]
      BY <1>1, <1>2, <2>1, <2>3 DEF Base, ThreadTypes, Locals
    <3>2. Alike(r, s)
      BY <1>2, <2>1 DEF Alike, Locals, Bindings, NoBinding
    <3>3. Follows("select", r, "relookup", s)
      BY <3>2 DEF Follows, UsesConf, UsesLauncher, Preparing, Compiling
    <3> QED  BY <1>1, <1>7, <2>3, <3>1, <3>3 DEF Continues, Relookup
  <2>4. CASE pc' = [pc EXCEPT ![t] = "failed"] /\ loc' = [loc EXCEPT ![t] = u]
    <3>1. Follows("failed", u, "relookup", s)
      BY <1>2, <2>1 DEF Follows, Alike, UsesConf, UsesLauncher, Preparing, Compiling, Locals
    <3> QED  BY <1>1, <1>7, <2>4, <3>1 DEF Continues, Relookup
  <2> QED  BY <2>2, <2>3, <2>4
<1>8. CASE Miss(t)
  <2>1. PICK r : r = [s EXCEPT !.caller = "native", !.budget = RetryBudget]
    OBVIOUS
  <2>2. pc[t] = "miss" /\ pc' = [pc EXCEPT ![t] = "compile"] /\ loc' = [loc EXCEPT ![t] = r]
    BY <1>1, <1>2, <1>8, <2>1 DEF Miss, Goto, Base, ThreadTypes
  <2>3. Follows("compile", r, "miss", s)
    BY <1>2, <2>1 DEF Follows, Alike, UsesConf, UsesLauncher, Preparing, Compiling, Locals
  <2> QED  BY <1>1, <2>2, <2>3 DEF Continues
<1>9. CASE CompileReturns(t)
  <2>1. pc[t] = "compiled" /\ pc' = [pc EXCEPT ![t] = "emplace"] /\ loc' = [loc EXCEPT ![t] = s]
    BY <1>1, <1>9 DEF CompileReturns, Goto, Base, ThreadTypes
  <2>2. Follows("emplace", s, "compiled", s)
    BY DEF Follows, Alike, UsesConf, UsesLauncher, Preparing, Compiling
  <2> QED  BY <1>1, <2>1, <2>2 DEF Continues
<1> QED  BY <1>3, <1>4, <1>5, <1>6, <1>7, <1>8, <1>9

(* Compiling does not change where the launch will go.                     *)
LEMMA CompilingContinues ==
  ASSUME Base, NEW t \in Threads,
         \/ CompileEnter(t) \/ CompileMode(t) \/ Reuse(t) \/ ReadGlobals(t)
         \/ ForceLiteralArg(t) \/ Promote(t) \/ NoPromotion(t)
         \/ PublishSpecialised(t) \/ PublishGeneric(t)
  PROVE  Continues(t)
<1>1. PICK s : s = loc[t]
  OBVIOUS
<1>2. PICK k, r : Moves(t, k, r)
  BY ThreadMoves DEF LaunchStep
<1>3. s \in Locals /\ pc[t] \in Compiling
  BY <1>1, Here DEF Compiling, CompileEnter, CompileMode, Reuse, ReadGlobals, ForceLiteralArg,
     Promote, NoPromotion, PublishSpecialised, PublishGeneric
<1>4. loc'[t] = r /\ pc'[t] = k /\ Edge(pc[t], k)
  BY <1>2, OthersStay
<1>5. Alike(r, s) /\ r.caller = s.caller
  <2>1. Alike(loc'[t], s) /\ loc'[t].caller = s.caller
    <3>1. CASE CompileEnter(t) \/ CompileMode(t) \/ ReadGlobals(t) \/ Promote(t) \/ NoPromotion(t)
      BY <1>1, <1>3, <3>1 DEF Alike, CompileEnter, CompileMode, ReadGlobals, Promote, NoPromotion,
         Base, ThreadTypes, Locals
    <3>2. CASE Reuse(t) \/ PublishGeneric(t)
      BY <1>1, <1>3, <3>2 DEF Alike, Reuse, PublishGeneric, Base, ThreadTypes, Locals
    <3>3. CASE ForceLiteralArg(t)
      <4>1. loc' = loc \/ loc' = [loc EXCEPT ![t].error = "repeated literal request"]
        BY <3>3 DEF ForceLiteralArg, Raise
      <4> QED  BY <1>1, <1>3, <4>1 DEF Alike, Base, ThreadTypes, Locals
    <3>4. CASE PublishSpecialised(t)
      <4>1. PICK y : y = IF SpecialisedFor(s.sig, s.key) # {}
                         THEN Found(SpecialisedFor(s.sig, s.key)) ELSE Compiled(t)
        OBVIOUS
      <4>2. loc' \in {[loc EXCEPT ![t] = [s EXCEPT !.error = "invalidated repeatedly"]],
                      [loc EXCEPT ![t] = [s EXCEPT !.budget = s.budget - 1]],
                      [loc EXCEPT ![t] = [s EXCEPT !.kernel = y]]}
        BY <1>1, <1>3, <3>4, <4>1 DEF PublishSpecialised, Raise
      <4>3. loc'[t] \in {[s EXCEPT !.error = "invalidated repeatedly"],
                         [s EXCEPT !.budget = s.budget - 1], [s EXCEPT !.kernel = y]}
        BY <4>2 DEF Base, ThreadTypes
      <4> QED  BY <1>3, <4>3 DEF Alike, Locals
    <3> QED  BY <3>1, <3>2, <3>3, <3>4
  <2> QED  BY <1>4, <2>1
<1>6. s.caller \in {"prepare", "native"}
  BY <1>1, <1>3, Here DEF ThreadOK, LocalOK, CompileOK
<1>7. /\ k = "relookup" => s.caller = "prepare"
      /\ k = "compiled" => s.caller # "prepare"
  <2>1. k \in {"relookup", "compiled"} => k = AfterCompile(t)
    <3>1. CASE CompileEnter(t) \/ CompileMode(t) \/ ReadGlobals(t) \/ Promote(t) \/ NoPromotion(t)
      BY <1>4, <3>1 DEF CompileEnter, CompileMode, ReadGlobals, Promote, NoPromotion, Goto,
         Base, ThreadTypes
    <3>2. CASE Reuse(t) \/ PublishGeneric(t)
      BY <1>4, <3>2 DEF Reuse, PublishGeneric, Goto, Base, ThreadTypes
    <3>3. CASE ForceLiteralArg(t) \/ PublishSpecialised(t)
      BY <1>4, <3>3 DEF ForceLiteralArg, PublishSpecialised, Raise, Goto, Base, ThreadTypes
    <3> QED  BY <3>1, <3>2, <3>3
  <2> QED  BY <1>1, <2>1 DEF AfterCompile
<1>8. k \in Compiling \cup {"relookup", "compiled", "failed"}
  BY <1>3, <1>4 DEF Edge, Compiling
<1>9. UsesConf(k, r) => UsesConf(pc[t], s)
  BY <1>3, <1>5, <1>7, <1>8 DEF UsesConf, Preparing, Compiling
<1>10. UsesLauncher(k, r) => UsesLauncher(pc[t], s)
  BY <1>3, <1>5, <1>6, <1>7, <1>8 DEF UsesLauncher, Compiling
<1>11. Follows(k, r, pc[t], s)
  BY <1>3, <1>5, <1>8, <1>9, <1>10 DEF Follows, Compiling
<1> QED  BY <1>1, <1>2, <1>11 DEF Continues, Moves

(* No step makes a native dispatcher run for two launch configurations,    *)
(* unless planners and the GIL meet.                                       *)
OneOwner == GilDisabled \/ ~ NeedsLaunch

OwnInv == \E o : Owned(o)

LEMMA ContinuesOwned ==
  ASSUME Base, [Next]_vars, OwnInv, NEW t \in Threads, LaunchStep(t), pc[t] # "idle", Continues(t),
         UNCHANGED << natives, marshaller >>,
         \/ UNCHANGED << c, dispatchers >>
         \/ \E lits : AdvanceGeneration(lits)
         \/ RememberRetained(t)
  PROVE  OwnInv'
<1>1. PICK o : Owned(o)
  BY DEF OwnInv
<1>2. PICK s : s = loc[t]
  OBVIOUS
<1>3. /\ OptInsKept /\ s.m \in Objects /\ marshaller[s.m] # None /\ Key(t) \in LcKeys
      /\ Key(t) = KeyOf[s.m]
  BY <1>2, Here DEF OptInsKept, Key
<1>4. \E p : Extends(p, o) /\ OwnedTables(p)'
  <2>1. CASE UNCHANGED << c, dispatchers >>
    BY <1>1, <2>1, TablesStay, ExtendOwners DEF Owned
  <2>2. CASE \E lits : AdvanceGeneration(lits)
    BY <1>1, <2>2, AdvanceTagged
  <2>3. CASE RememberRetained(t)
    <3>1. pc[t] = "remember" /\ generation # None
      BY <2>3, Here, LaunchNoneAssumption DEF RememberRetained
    <3>2. Tagged(o, s.conf, s.m)
      BY <1>1, <1>2, <3>1 DEF Owned, OwnedThread, UsesConf, Preparing
    <3>3. UNCHANGED c
      BY <2>3 DEF RememberRetained, InsertDispatcher, TouchDispatcher, registryVars
    <3>4. CASE dispatchers' = dispatchers
      BY <1>1, <3>3, <3>4, TablesStay, ExtendOwners DEF Owned
    <3>5. CASE /\ s.conf.gen = generation /\ dispatchers[Key(t)] = None
               /\ InsertDispatcher(Key(t), s.conf.kd)
      <4>1. o[s.conf.kd.id] = Key(t)
        BY <1>3, <3>1, <3>2, <3>5 DEF Tagged
      <4>2. OwnedTables(o)'
        BY <1>1, <1>3, <3>3, <3>5, <4>1, TablesStay
      <4> QED  BY <1>1, <4>2, ExtendOwners DEF Owned
    <3> QED  BY <1>2, <2>3, <3>4, <3>5 DEF RememberRetained, TouchDispatcher, registryVars
  <2> QED  BY <2>1, <2>2, <2>3
<1>5. PICK p : Extends(p, o) /\ OwnedTables(p)'
  BY <1>4
<1>6. PICK k, r : /\ pc' = [pc EXCEPT ![t] = k] /\ loc' = [loc EXCEPT ![t] = r]
                  /\ Follows(k, r, pc[t], loc[t])
  BY DEF Continues
<1>7. OwnedThread(p, k, r)
  BY <1>1, <1>3, <1>5, <1>6, OwnedStay, FollowsOwned
<1>8. r.m = s.m
  BY <1>2, <1>6 DEF Follows, Alike
<1>9. Owned(p)'
  BY <1>1, <1>3, <1>5, <1>6, <1>7, <1>8, OwnedStep
<1> QED  BY <1>9 DEF OwnInv

(* The beginning and the end of a launch.                                  *)
LEMMA EntryOwned ==
  ASSUME Base, [Next]_vars, OwnInv, NEW t \in Threads,
         Launch(t) \/ TakeLaunchLock(t) \/ Snapshot(t) \/ ReadLauncher(t) \/ ReadConfigured(t) \/ Leave(t)
  PROVE  OwnInv'
<1>1. PICK o : Owned(o)
  BY DEF OwnInv
<1>2. PICK s : s = loc[t]
  OBVIOUS
<1>3. /\ UNCHANGED << c, dispatchers, natives, marshaller >> /\ OptInsKept
      /\ s \in Locals /\ (pc[t] # "idle" => s.m \in Objects /\ marshaller[s.m] # None)
  BY <1>2, Here DEF OptInsKept, Launch, TakeLaunchLock, Snapshot, ReadLauncher, ReadConfigured, Leave,
     registryVars, sharedVars
<1>4. OwnedTables(o)' /\ Extends(o, o)
  BY <1>1, <1>3, TablesStay, ExtendOwners DEF Owned
<1>5. ASSUME NEW l, NEW r, pc' = [pc EXCEPT ![t] = l], loc' = [loc EXCEPT ![t] = r],
             l # "idle" => r.m \in Objects /\ marshaller[r.m] # None,
             OwnedThread(o, l, r)
      PROVE  OwnInv'
  <2>1. Owned(o)'
    BY <1>1, <1>3, <1>4, <1>5, OwnedStep
  <2> QED  BY <2>1 DEF OwnInv
<1>6. \A l \in {"idle", "call", "snapshot"} : \A r : OwnedThread(o, l, r)
  BY DEF OwnedThread, UsesConf, UsesLauncher, Preparing, Compiling
<1>7. CASE Launch(t)
  <2>1. PICK m \in {x \in Objects : marshaller[x] # None}, args \in [Positions -> Values] :
           loc' = [loc EXCEPT ![t] = [NoLocals EXCEPT !.m = m, !.args = args, !.since = floor]]
    BY <1>7 DEF Launch
  <2>2. PICK l \in {"call", "snapshot"} : pc' = [pc EXCEPT ![t] = l]
    BY <1>7 DEF Launch, Goto
  <2> QED  BY <1>5, <1>6, <2>1, <2>2 DEF NoLocals
<1>8. CASE TakeLaunchLock(t)
  <2>1. pc[t] = "call" /\ pc' = [pc EXCEPT ![t] = "snapshot"] /\ loc' = [loc EXCEPT ![t] = s]
    BY <1>2, <1>8 DEF TakeLaunchLock, Goto, Base, ThreadTypes
  <2> QED  BY <1>3, <1>5, <1>6, <2>1
<1>9. CASE Snapshot(t)
  <2>1. PICK r : r = [s EXCEPT !.active = marshaller[s.m].bound]
    OBVIOUS
  <2>2. pc[t] = "snapshot" /\ pc' = [pc EXCEPT ![t] = "launcher"] /\ loc' = [loc EXCEPT ![t] = r]
    BY <1>2, <1>9, <2>1 DEF Snapshot, Goto, Mine
  <2>3. r.m = s.m /\ r.active = marshaller[s.m].bound
    BY <1>3, <2>1 DEF Locals
  <2>4. Tagged(o, marshaller[s.m].bound, s.m)
    BY <1>1, <1>3, <2>2 DEF Owned, OwnedMarshaller
  <2>5. OwnedThread(o, "launcher", r)
    BY <2>3, <2>4 DEF OwnedThread, UsesConf, UsesLauncher, Preparing, Compiling
  <2> QED  BY <1>3, <1>5, <2>2, <2>3, <2>5
<1>10. CASE ReadLauncher(t)
  <2>1. PICK r : r = [s EXCEPT !.launcher = marshaller[s.m].launcher]
    OBVIOUS
  <2>2. pc[t] = "launcher" /\ pc' = [pc EXCEPT ![t] = "decide"] /\ loc' = [loc EXCEPT ![t] = r]
    BY <1>2, <1>10, <2>1 DEF ReadLauncher, Goto, Mine
  <2>3. r.m = s.m /\ r.active = s.active /\ r.launcher = marshaller[s.m].launcher
    BY <1>3, <2>1 DEF Locals
  <2>4. /\ Tagged(o, s.active, s.m)
        /\ ~ NeedsLaunch => o[marshaller[s.m].launcher.id] = Wanted(s.m)
    BY <1>1, <1>2, <1>3, <2>2 DEF Owned, OwnedMarshaller, OwnedThread
  <2>5. OwnedThread(o, "decide", r)
    BY <2>3, <2>4 DEF OwnedThread, UsesConf, UsesLauncher, Preparing, Compiling
  <2> QED  BY <1>3, <1>5, <2>2, <2>3, <2>5
<1>11. CASE ReadConfigured(t)
  <2>1. PICK r : r = [s EXCEPT !.sig = Literalized(s.args, literals), !.conf = marshaller[s.m].bound]
    OBVIOUS
  <2>2. PICK l \in {"ready", "readyGeneric"} : pc' = [pc EXCEPT ![t] = l]
    BY <1>11 DEF ReadConfigured, Goto
  <2>3. pc[t] = "configured" /\ loc' = [loc EXCEPT ![t] = r]
    BY <1>2, <1>3, <1>11, <2>1 DEF ReadConfigured, Mine, Base, ThreadTypes
  <2>4. /\ r.m = s.m /\ r.active = s.active /\ r.launcher = s.launcher
        /\ r.conf = marshaller[s.m].bound
    BY <1>3, <2>1 DEF Locals
  <2>5. /\ Tagged(o, s.active, s.m) /\ Tagged(o, marshaller[s.m].bound, s.m)
        /\ ~ NeedsLaunch => o[s.launcher.id] = Wanted(s.m)
    BY <1>1, <1>2, <1>3, <2>3 DEF Owned, OwnedMarshaller, OwnedThread, UsesLauncher
  <2>6. OwnedThread(o, l, r)
    BY <2>4, <2>5 DEF OwnedThread, UsesConf, UsesLauncher, Preparing, Compiling
  <2> QED  BY <1>3, <1>5, <2>2, <2>3, <2>4, <2>6
<1>12. CASE Leave(t)
  <2>1. pc' = [pc EXCEPT ![t] = "idle"] /\ loc' = [loc EXCEPT ![t] = NoLocals]
    BY <1>12 DEF Leave, Goto
  <2> QED  BY <1>5, <1>6, <2>1
<1> QED  BY <1>7, <1>8, <1>9, <1>10, <1>11, <1>12

(* A launch has found, or made, what it is going to be bound to.           *)
LEMMA ToRebindOwned ==
  ASSUME Base, NEW o, Owned(o), NEW p, Extends(p, o), OwnedTables(p)', UNCHANGED marshaller,
         NEW t \in Threads, pc[t] \in {"recheck", "ready", "prepared", "select"},
         NEW b, b.lc => b.gen # None, Tagged(p, b, loc[t].m),
         pc' = [pc EXCEPT ![t] = "rebind"],
         loc' = [loc EXCEPT ![t] = [loc[t] EXCEPT !.active = b]]
  PROVE  OwnInv'
<1>1. PICK s, r : s = loc[t] /\ r = [s EXCEPT !.active = b]
  OBVIOUS
<1>2. s \in Locals /\ s.m \in Objects /\ marshaller[s.m] # None /\ OptInsKept
  BY <1>1, Here DEF OptInsKept
<1>3. r.m = s.m /\ r.active = b /\ r.launcher = s.launcher
  BY <1>1, <1>2 DEF Locals
<1>4. OwnedThread(p, pc[t], s)
  BY <1>1, <1>2, OwnedStay
<1>5. ~ NeedsLaunch => p[s.launcher.id] = Wanted(s.m)
  BY <1>4 DEF OwnedThread, UsesLauncher
<1>6. OwnedThread(p, "rebind", r)
  BY <1>1, <1>3, <1>5 DEF OwnedThread, UsesConf, UsesLauncher, Preparing, Compiling
<1>7. Owned(p)'
  BY <1>1, <1>2, <1>3, <1>6, OwnedStep
<1> QED  BY <1>7 DEF OwnInv

LEMMA ReadyOwned ==
  ASSUME Base, [Next]_vars, OwnInv, NEW t \in Threads, Recheck(t) \/ Ready(t) \/ ReadyAfterAll(t)
  PROVE  OwnInv'
<1>1. PICK o : Owned(o)
  BY DEF OwnInv
<1>2. PICK s : s = loc[t]
  OBVIOUS
<1>3. /\ LaunchStep(t) /\ pc[t] \in {"recheck", "ready", "prepared"}
      /\ UNCHANGED << c, dispatchers, natives, marshaller >>
  BY DEF LaunchStep, Recheck, Ready, ReadyAfterAll, TouchDispatcher, registryVars, sharedVars
<1>4. /\ s \in Locals /\ generation # None /\ o[c.id] = None
      /\ Tagged(o, s.conf, s.m) /\ Sound(s.conf)
  <2>1. UsesConf(pc[t], s)
    BY <1>3 DEF UsesConf, Preparing
  <2> QED  BY <1>1, <1>2, <1>3, <2>1, Here, LaunchNoneAssumption
           DEF Owned, OwnedTables, OwnedThread, ThreadOK, LocalOK, BindingOK
<1>5. OwnedTables(o)' /\ Extends(o, o)
  BY <1>1, <1>3, TablesStay, ExtendOwners DEF Owned
<1>6. ASSUME NEW b, b.lc => b.gen # None, Tagged(o, b, s.m),
             pc' = [pc EXCEPT ![t] = "rebind"],
             loc' = [loc EXCEPT ![t] = [s EXCEPT !.active = b]]
      PROVE  OwnInv'
  BY <1>1, <1>2, <1>3, <1>5, <1>6, ToRebindOwned
<1>7. ASSUME pc' = [pc EXCEPT ![t] = "prepare"], loc' = loc, pc[t] \in {"recheck", "ready"}
      PROVE  OwnInv'
  <2>1. loc' = [loc EXCEPT ![t] = s]
    BY <1>2, <1>7 DEF Base, ThreadTypes
  <2>2. Follows("prepare", s, pc[t], s)
    BY <1>7 DEF Follows, Alike, UsesConf, UsesLauncher, Preparing, Compiling
  <2>3. Continues(t)
    BY <1>2, <1>7, <2>1, <2>2 DEF Continues
  <2> QED  BY <1>3, <2>3, ContinuesOwned
<1>8. CASE Recheck(t)
  <2>1. CASE requires \/ c # loc[t].conf.kd
    BY <1>7, <1>8, <2>1 DEF Recheck, Goto
  <2>2. CASE ~ (requires \/ c # loc[t].conf.kd)
    <3>1. PICK b : b = [lc |-> FALSE, kd |-> c, gen |-> None]
      OBVIOUS
    <3>2. pc' = [pc EXCEPT ![t] = "rebind"] /\ loc' = [loc EXCEPT ![t] = [s EXCEPT !.active = b]]
      BY <1>2, <1>8, <2>2, <3>1 DEF Recheck, Goto
    <3> QED  BY <1>4, <1>6, <3>1, <3>2 DEF Tagged
  <2> QED  BY <2>1, <2>2
<1>9. CASE Ready(t)
  <2>1. CASE ReadyForLaunchConfig(t)
    <3>1. PICK b : b = [s.active EXCEPT !.lc = TRUE, !.kd = s.conf.kd, !.gen = s.conf.gen]
      OBVIOUS
    <3>2. pc' = [pc EXCEPT ![t] = "rebind"] /\ loc' = [loc EXCEPT ![t] = [s EXCEPT !.active = b]]
      BY <1>2, <1>9, <2>1, <3>1 DEF Ready, Goto
    <3>3. b.kd = s.conf.kd /\ b.gen = s.conf.gen /\ b.gen # None
      BY <1>2, <1>4, <2>1, <3>1 DEF Locals, Bindings, NoBinding, ReadyForLaunchConfig
    <3>4. Tagged(o, b, s.m)
      BY <1>4, <3>3 DEF Tagged
    <3> QED  BY <1>6, <3>2, <3>3, <3>4
  <2>2. CASE ~ ReadyForLaunchConfig(t)
    BY <1>7, <1>9, <2>2 DEF Ready, Goto
  <2> QED  BY <2>1, <2>2
<1>10. CASE ReadyAfterAll(t)
  <2>1. PICK lc, b : lc = UsesLaunchConfig(t) /\ b = [s.conf EXCEPT !.lc = lc]
    OBVIOUS
  <2>2. pc' = [pc EXCEPT ![t] = "rebind"] /\ loc' = [loc EXCEPT ![t] = [s EXCEPT !.active = b]]
    BY <1>2, <1>10, <2>1 DEF ReadyAfterAll, Goto
  <2>3. b.kd = s.conf.kd /\ b.gen = s.conf.gen /\ b.lc = lc
    BY <1>4, <2>1 DEF Sound, Bindings
  <2>4. lc => s.conf.gen = generation
    BY <1>2, <1>10, <2>1 DEF ReadyAfterAll, ReadyForLaunchConfig
  <2>5. Tagged(o, b, s.m) /\ (b.lc => b.gen # None)
    BY <1>4, <2>3, <2>4 DEF Tagged
  <2> QED  BY <1>6, <2>2, <2>5
<1> QED  BY <1>8, <1>9, <1>10

LEMMA SelectOwned ==
  ASSUME Base, [Next]_vars, OwnInv, NEW t \in Threads, Select(t)
  PROVE  OwnInv'
<1>1. PICK o : Owned(o)
  BY DEF OwnInv
<1>2. PICK s : s = loc[t]
  OBVIOUS
<1>3. /\ LaunchStep(t) /\ pc[t] = "select" /\ UNCHANGED << natives, marshaller >>
      /\ pc' = [pc EXCEPT ![t] = "rebind"]
  BY DEF LaunchStep, Select, Goto, sharedVars
<1>4. /\ s \in Locals /\ generation # None /\ o[c.id] = None
      /\ Tagged(o, s.conf, s.m) /\ Sound(s.conf)
      /\ Key(t) = KeyOf[s.m] /\ Key(t) \in LcKeys
  <2>1. UsesConf(pc[t], s)
    BY <1>3 DEF UsesConf, Preparing
  <2> QED  BY <1>1, <1>2, <1>3, <2>1, Here, LaunchNoneAssumption
           DEF Owned, OwnedTables, OwnedThread, ThreadOK, LocalOK, BindingOK, Key
<1>5. ASSUME NEW p, Extends(p, o), OwnedTables(p)',
             NEW b, b.lc => b.gen # None, Tagged(p, b, s.m),
             loc' = [loc EXCEPT ![t] = [s EXCEPT !.active = b]]
      PROVE  OwnInv'
  BY <1>1, <1>2, <1>3, <1>5, ToRebindOwned
<1>6. UNCHANGED registryVars => OwnedTables(o)' /\ Extends(o, o)
  BY <1>1, <1>3, TablesStay, ExtendOwners DEF Owned, registryVars
<1>7. CASE /\ loc' = [loc EXCEPT ![t].active = [lc |-> FALSE, kd |-> c, gen |-> None]]
           /\ UNCHANGED registryVars
  <2>1. PICK b : b = [lc |-> FALSE, kd |-> c, gen |-> None]
    OBVIOUS
  <2>2. loc' = [loc EXCEPT ![t] = [s EXCEPT !.active = b]]
    BY <1>2, <1>7, <2>1
  <2>3. ~ b.lc /\ Tagged(o, b, s.m)
    BY <1>4, <2>1 DEF Tagged
  <2> QED  BY <1>5, <1>6, <1>7, <2>2, <2>3
<1>8. CASE /\ s.conf.gen = generation /\ loc' = [loc EXCEPT ![t].active = s.conf]
           /\ UNCHANGED registryVars
  <2>1. loc' = [loc EXCEPT ![t] = [s EXCEPT !.active = s.conf]]
    BY <1>2, <1>8
  <2> QED  BY <1>4, <1>5, <1>6, <1>8, <2>1
<1>9. CASE /\ loc' = [loc EXCEPT ![t].active = [lc |-> TRUE, kd |-> Obtained(Key(t)),
                                                gen |-> generation]]
           /\ GetLaunchDispatcher(Key(t))
  <2>1. PICK p : Extends(p, o) /\ OwnedTables(p)' /\ p[Obtained(Key(t)).id] = Key(t)
    BY <1>1, <1>3, <1>4, <1>9, ObtainTagged
  <2>2. PICK b : b = [lc |-> TRUE, kd |-> Obtained(Key(t)), gen |-> generation]
    OBVIOUS
  <2>3. loc' = [loc EXCEPT ![t] = [s EXCEPT !.active = b]]
    BY <1>2, <1>9, <2>2
  <2>4. b.gen # None /\ Tagged(p, b, s.m)
    BY <1>4, <2>1, <2>2 DEF Tagged
  <2> QED  BY <1>5, <2>1, <2>3, <2>4
<1> QED  BY <1>2, <1>7, <1>8, <1>9 DEF Select

(* The marshaller gets what the launch is bound to.                        *)
LEMMA RebindOwned ==
  ASSUME Base, [Next]_vars, OwnInv, OneOwner, GilDisabled => Exclusive /\ LockInv,
         NEW t \in Threads, Rebind(t) \/ Rebound(t)
  PROVE  OwnInv'
<1>1. PICK o : Owned(o)
  BY DEF OwnInv
<1>2. PICK s, a, m, x : s = loc[t] /\ a = s.active /\ m = s.m /\ x = marshaller[m]
  OBVIOUS
<1>3. /\ LaunchStep(t) /\ pc[t] \in {"rebind", "rebound"} /\ Running(t)
      /\ UNCHANGED << c, dispatchers, natives >> /\ OptInsKept
  BY RebindBase, ReboundBase DEF LaunchStep, Rebind, Rebound, registryVars, Running, Forward, OptInsKept
<1>4. /\ s \in Locals /\ m \in Objects /\ x \in MarshallerStates /\ x # None
      /\ marshaller \in [Objects -> MarshallerStates \cup {None}] /\ a \in Bindings
      /\ KeyOf[m] # None
  BY <1>2, <1>3, Here, LaunchNoneAssumption
     DEF Base, SharedTypes, ThreadOK, LocalOK, BindingOK, Sound
<1>5. OwnedTables(o)' /\ Extends(o, o)
  BY <1>1, <1>3, TablesStay, ExtendOwners DEF Owned
<1>6. /\ Tagged(o, a, m) /\ (a.lc <=> a.gen # None) /\ (a.lc <=> Wanted(m) # None)
      /\ ~ NeedsLaunch => o[s.launcher.id] = Wanted(m)
      /\ Tagged(o, x.bound, m) /\ (~ NeedsLaunch => o[x.launcher.id] = Wanted(m))
  <2>1. OwnedThread(o, pc[t], s) /\ LocalOK(pc[t], s) /\ OwnedMarshaller(o, m)
    BY <1>1, <1>2, <1>4, Here DEF Owned, ThreadOK
  <2>2. a.gen # None => a.lc
    BY <1>2, <1>3, <2>1 DEF LocalOK, BindingOK
  <2>3. a.lc <=> NeedsLaunch \/ marshaller[m].optIn
    BY <1>2, <1>3, <2>1 DEF LocalOK
  <2> QED  BY <1>2, <1>3, <1>4, <2>1, <2>2, <2>3
           DEF OwnedThread, OwnedMarshaller, UsesLauncher, Wanted
<1>7. o[a.kd.id] = Wanted(m)
  BY <1>6 DEF Tagged, Wanted
<1>8. CASE Rebind(t) /\ (a.kd # x.bound.kd \/ a.lc # x.bound.lc)
  <2>1. PICK r, y : r = [s EXCEPT !.launcher = a.kd] /\ y = [x EXCEPT !.launcher = a.kd, !.bound.lc = a.lc]
    OBVIOUS
  <2>2. /\ loc' = [loc EXCEPT ![t] = r] /\ pc' = [pc EXCEPT ![t] = "rebound"]
        /\ marshaller' = [marshaller EXCEPT ![m] = y]
    BY <1>2, <1>8, <2>1 DEF Rebind, Goto, Mine
  <2>3. /\ r.m = m /\ r.active = a /\ r.launcher = a.kd /\ marshaller'[m] = y
        /\ y.launcher = a.kd /\ y.bound.kd = x.bound.kd /\ y.bound.gen = x.bound.gen
        /\ y.optIn = x.optIn
        /\ \A n \in Objects \ {m} : marshaller'[n] = marshaller[n]
    BY <1>2, <1>4, <2>1, <2>2 DEF Locals, MarshallerStates, Bindings
  <2>4. OwnedMarshaller(o, m)'
    BY <1>2, <1>6, <1>7, <2>3 DEF OwnedMarshaller, Tagged, Wanted
  <2>5. OwnedThread(o, "rebound", r)
    BY <1>6, <1>7, <2>3 DEF OwnedThread, UsesConf, UsesLauncher, Preparing, Compiling
  <2>6. Owned(o)'
    BY <1>1, <1>2, <1>3, <1>4, <1>5, <2>2, <2>3, <2>4, <2>5, OwnedStep
  <2> QED  BY <2>6 DEF OwnInv
<1>9. ASSUME loc' = loc, pc' = [pc EXCEPT ![t] = "go"], o[s.launcher.id] = Wanted(m),
             \A n \in Objects : marshaller'[n] = marshaller[n] \/ OwnedMarshaller(o, n)'
      PROVE  OwnInv'
  <2>1. OwnedThread(o, "go", s)
    BY <1>2, <1>6, <1>9 DEF OwnedThread, UsesConf, Preparing, Compiling
  <2>2. loc' = [loc EXCEPT ![t] = s]
    BY <1>2, <1>9 DEF Base, ThreadTypes
  <2>3. Owned(o)'
    BY <1>1, <1>2, <1>3, <1>4, <1>5, <1>9, <2>1, <2>2, OwnedStep
  <2> QED  BY <2>3 DEF OwnInv
<1>10. CASE Rebind(t) /\ ~ (a.kd # x.bound.kd \/ a.lc # x.bound.lc)
  <2>1. UNCHANGED << loc, marshaller >> /\ pc' = [pc EXCEPT ![t] = "go"] /\ pc[t] = "rebind"
    BY <1>2, <1>10 DEF Rebind, Goto, Mine
  <2>2. ASSUME GilDisabled
        PROVE  s.launcher = a.kd
    <3>1. s.launcher = x.launcher
      BY <1>2, <1>3, <2>1, <2>2 DEF LockInv, Sole, Mine
    <3>2. \A u \in Threads : pc[u] # "rebound"
      BY <1>3, <2>1, <2>2, RunsAlone DEF Running
    <3>3. x.launcher = x.bound.kd
      BY <1>2, <1>4, <2>2, <3>2 DEF LockInv, LockShared
    <3> QED  BY <1>10, <3>1, <3>3
  <2>3. o[s.launcher.id] = Wanted(m)
    BY <1>6, <1>7, <2>2 DEF OneOwner
  <2> QED  BY <1>9, <2>1, <2>3
<1>11. CASE Rebound(t)
  <2>1. PICK y : y = [x EXCEPT !.bound.kd = a.kd, !.bound.gen = a.gen]
    OBVIOUS
  <2>2. /\ loc' = loc /\ pc' = [pc EXCEPT ![t] = "go"] /\ pc[t] = "rebound"
        /\ marshaller' = [marshaller EXCEPT ![m] = y]
    BY <1>2, <1>11, <2>1 DEF Rebound, Goto, Mine
  <2>3. /\ marshaller'[m] = y
        /\ y.launcher = x.launcher /\ y.bound.kd = a.kd /\ y.bound.gen = a.gen
        /\ y.optIn = x.optIn
        /\ \A n \in Objects \ {m} : marshaller'[n] = marshaller[n]
    BY <1>2, <1>4, <2>1, <2>2 DEF MarshallerStates, Bindings
  <2>4. OwnedMarshaller(o, m)'
    BY <1>2, <1>6, <2>3 DEF OwnedMarshaller, Tagged, Wanted
  <2>5. GilDisabled => s.launcher = a.kd
    BY <1>2, <1>3, <2>2 DEF LockInv, Sole
  <2>6. o[s.launcher.id] = Wanted(m)
    BY <1>6, <1>7, <2>5 DEF OneOwner
  <2> QED  BY <1>9, <2>2, <2>3, <2>4, <2>6
<1> QED  BY <1>8, <1>10, <1>11

(* What a native dispatcher has loaded is for the configuration it serves. *)
LEMMA GoOwned ==
  ASSUME Base, [Next]_vars, OwnInv, NEW t \in Threads, Go(t)
  PROVE  OwnInv'
<1>1. PICK o : Owned(o)
  BY DEF OwnInv
<1>2. PICK s, loaded : s = loc[t] /\ loaded = LoadedIn(s.launcher, s.args)
  OBVIOUS
<1>3. /\ LaunchStep(t) /\ pc[t] = "go" /\ OptInsKept
      /\ UNCHANGED << c, dispatchers, natives, marshaller >>
  BY DEF LaunchStep, Go, registryVars, sharedVars, OptInsKept
<1>4. /\ s \in Locals /\ s.m \in Objects /\ marshaller[s.m] # None
      /\ Tagged(o, s.active, s.m) /\ o[s.launcher.id] = Wanted(s.m)
  BY <1>1, <1>2, <1>3, Here DEF Owned, OwnedThread, UsesLauncher
<1>5. CASE loaded # {}
  <2>1. PICK k, r : k = Found(loaded).kernel /\ r = [s EXCEPT !.kernel = k]
    OBVIOUS
  <2>2. pc' = [pc EXCEPT ![t] = "ran"] /\ loc' = [loc EXCEPT ![t] = r]
    BY <1>2, <1>5, <2>1 DEF Go, Goto
  <2>3. k.key = o[s.launcher.id]
    BY <1>1, <1>2, <1>5, <2>1, LoadedType DEF Owned, OwnedTables
  <2>4. r.m = s.m /\ r.active = s.active /\ r.launcher = s.launcher /\ r.kernel = k
    BY <1>4, <2>1 DEF Locals
  <2>5. OwnedThread(o, "ran", r)
    BY <1>4, <2>3, <2>4 DEF OwnedThread, UsesConf, Preparing, Compiling
  <2>6. OwnedTables(o)' /\ Extends(o, o)
    BY <1>1, <1>3, TablesStay, ExtendOwners DEF Owned
  <2>7. Owned(o)'
    BY <1>1, <1>3, <1>4, <2>2, <2>4, <2>5, <2>6, OwnedStep
  <2> QED  BY <2>7 DEF OwnInv
<1>6. CASE loaded = {}
  <2>1. PICK r : r = [s EXCEPT !.kernel = None]
    OBVIOUS
  <2>2. pc' = [pc EXCEPT ![t] = "miss"] /\ loc' = [loc EXCEPT ![t] = r]
    BY <1>2, <1>6, <2>1 DEF Go, Goto
  <2>3. Follows("miss", r, "go", s)
    BY <1>4, <2>1 DEF Follows, Alike, UsesConf, UsesLauncher, Preparing, Compiling, Locals
  <2>4. Continues(t)
    BY <1>2, <1>3, <2>2, <2>3 DEF Continues
  <2> QED  BY <1>3, <2>4, ContinuesOwned
<1> QED  BY <1>5, <1>6

LEMMA EmplaceOwned ==
  ASSUME Base, [Next]_vars, OwnInv, NEW t \in Threads, Emplace(t)
  PROVE  OwnInv'
<1>1. PICK o : Owned(o)
  BY DEF OwnInv
<1>2. PICK s, loaded, n : /\ s = loc[t] /\ loaded = LoadedIn(s.launcher, s.args)
                          /\ n = [in |-> s.launcher.id, kernel |-> s.kernel,
                                  constants |-> Literalized(s.args, s.launcher.lits)]
  OBVIOUS
<1>3. /\ pc[t] = "emplace" /\ OptInsKept
      /\ UNCHANGED << c, dispatchers, marshaller, made >>
      /\ pc' = [pc EXCEPT ![t] = "ran"]
  BY DEF Emplace, Goto, registryVars, OptInsKept
<1>4. /\ s \in Locals /\ s.m \in Objects /\ marshaller[s.m] # None
      /\ Tagged(o, s.active, s.m) /\ o[s.launcher.id] = Wanted(s.m)
      /\ s.launcher.id < made /\ s.kernel.key = Wanted(s.m)
  BY <1>1, <1>2, <1>3, Here
     DEF Owned, OwnedThread, UsesLauncher, ThreadOK, LocalOK, CompileOK, Placed
<1>5. OwnedTables(o) /\ Extends(o, o)
  BY <1>1, ExtendOwners DEF Owned
<1>6. OwnedTables(o)'
  <2>1. natives' = natives \/ natives' = natives \cup {n}
    BY <1>2 DEF Emplace
  <2>2. n.in < made /\ o[n.in] = n.kernel.key
    BY <1>2, <1>4
  <2> QED  BY <1>3, <1>5, <2>1, <2>2 DEF OwnedTables, Registered
<1>7. PICK k, r : /\ k = IF loaded # {} THEN Found(loaded).kernel ELSE s.kernel
                  /\ r = [s EXCEPT !.kernel = k]
  OBVIOUS
<1>8. loc' = [loc EXCEPT ![t] = r]
  <2>1. CASE loaded # {}
    BY <1>2, <1>7, <2>1 DEF Emplace
  <2>2. CASE loaded = {}
    <3>1. loc' = loc /\ r = s
      BY <1>2, <1>4, <1>7, <2>2 DEF Emplace, Locals
    <3> QED  BY <1>2, <3>1 DEF Base, ThreadTypes
  <2> QED  BY <2>1, <2>2
<1>9. k.key = Wanted(s.m)
  BY <1>2, <1>4, <1>5, <1>7, LoadedType DEF OwnedTables
<1>10. r.m = s.m /\ r.active = s.active /\ r.launcher = s.launcher /\ r.kernel = k
  BY <1>4, <1>7 DEF Locals
<1>11. OwnedThread(o, "ran", r)
  BY <1>4, <1>9, <1>10 DEF OwnedThread, UsesConf, Preparing, Compiling
<1>12. Owned(o)'
  BY <1>1, <1>3, <1>4, <1>5, <1>6, <1>8, <1>10, <1>11, OwnedStep
<1> QED  BY <1>12 DEF OwnInv

LEMMA AroundOwned ==
  ASSUME Base, [Next]_vars, OwnInv, Around
  PROVE  OwnInv'
<1>1. PICK o : Owned(o)
  BY DEF OwnInv
<1>2. /\ UNCHANGED << pc, loc, natives >> /\ OptInsKept /\ UNCHANGED c
  BY AroundFrame DEF TablesKept
<1>3. CASE \E m \in Objects : Configure(m)
  <2>1. PICK m \in Objects : Configure(m)
    BY <1>3
  <2>2. PICK b, x : /\ b = IF LaunchConfigEnabled
                           THEN [lc |-> TRUE, kd |-> Obtained(KeyOf[m]), gen |-> generation]
                           ELSE [lc |-> FALSE, kd |-> c, gen |-> None]
                    /\ x = [bound |-> b, launcher |-> b.kd, optIn |-> optIn]
    OBVIOUS
  <2>3. /\ marshaller' = [marshaller EXCEPT ![m] = x]
        /\ IF LaunchConfigEnabled THEN GetLaunchDispatcher(KeyOf[m]) ELSE UNCHANGED registryVars
    BY <2>1, <2>2 DEF Configure
  <2>4. /\ marshaller'[m] = x /\ \A n \in Objects \ {m} : marshaller'[n] = marshaller[n]
        /\ KeyOf[m] \in LcKeys /\ KeyOf[m] # None /\ generation # None
    <3>1. marshaller'[m] = x /\ \A n \in Objects \ {m} : marshaller'[n] = marshaller[n]
      <4>1. DOMAIN marshaller = Objects
        BY DEF Base, SharedTypes
      <4> QED  BY <2>3, <4>1
    <3>2. KeyOf[m] \in LcKeys /\ None \notin LcKeys
      BY LaunchAssumption, LaunchNoneAssumption
    <3>3. generation \in Nat
      BY DEF Base, RegistryInv, RegistryTypeOK
    <3>4. generation # None
      BY <3>3, LaunchNoneAssumption
    <3> QED  BY <3>1, <3>2, <3>4
  <2>5. CASE LaunchConfigEnabled
    <3>1. PICK p : Extends(p, o) /\ OwnedTables(p)' /\ p[Obtained(KeyOf[m]).id] = KeyOf[m]
      BY <1>1, <1>2, <2>3, <2>4, <2>5, ObtainTagged
    <3>2. b.kd = Obtained(KeyOf[m]) /\ b.gen = generation
      BY <2>2, <2>5
    <3>3. ~ NeedsLaunch => optIn
      BY <2>5 DEF LaunchConfigEnabled, Base, SharedInv
    <3>4. Tagged(p, b, m) /\ (~ NeedsLaunch => p[b.kd.id] = KeyOf[m] /\ optIn)
      BY <2>4, <3>1, <3>2, <3>3 DEF Tagged
    <3>5. OwnedMarshaller(p, m)'
      BY <2>2, <2>4, <3>4 DEF OwnedMarshaller, Tagged, Wanted
    <3>6. Owned(p)'
      BY <1>1, <1>2, <2>4, <3>1, <3>5, OwnedAround
    <3> QED  BY <3>6 DEF OwnInv
  <2>6. CASE ~ LaunchConfigEnabled
    <3>1. OwnedTables(o)' /\ Extends(o, o)
      BY <1>1, <1>2, <2>3, <2>6, TablesStay, ExtendOwners DEF Owned, registryVars
    <3>2. b.kd = c /\ b.gen = None /\ ~ optIn /\ o[c.id] = None
      BY <1>1, <2>2, <2>6 DEF LaunchConfigEnabled, Owned, OwnedTables
    <3>3. OwnedMarshaller(o, m)'
      BY <2>2, <2>4, <3>2 DEF OwnedMarshaller, Tagged, Wanted
    <3>4. Owned(o)'
      BY <1>1, <1>2, <2>4, <3>1, <3>3, OwnedAround
    <3> QED  BY <3>4 DEF OwnInv
  <2> QED  BY <2>5, <2>6
<1>4. CASE ChangeGlobals \/ ChangeExtensions \/ RegisterPlanner \/ Finished \/ UNCHANGED vars
  <2>1. UNCHANGED << dispatchers, marshaller >>
    BY <1>4 DEF ChangeGlobals, ChangeExtensions, RegisterPlanner, Finished, vars, registryVars,
                launchVars
  <2>2. OwnedTables(o)' /\ Extends(o, o)
    BY <1>1, <1>2, <2>1, TablesStay, ExtendOwners DEF Owned
  <2>3. Owned(o)'
    BY <1>1, <1>2, <2>1, <2>2, OwnedAround
  <2> QED  BY <2>3 DEF OwnInv
<1> QED  BY <1>3, <1>4 DEF Around

LEMMA RecompileOwned ==
  ASSUME Base, [Next]_vars, OwnInv, ClearOverloads \/ FinishRecompile
  PROVE  OwnInv'
<1>1. PICK o : Owned(o)
  BY DEF OwnInv
<1>2. UNCHANGED << pc, loc, natives, marshaller >> /\ OptInsKept
      /\ (UNCHANGED << c, dispatchers >> \/ AdvanceGeneration(literals))
  BY DEF ClearOverloads, FinishRecompile, registryVars, OptInsKept
<1>3. \E p : Extends(p, o) /\ OwnedTables(p)'
  BY <1>1, <1>2, TablesStay, AdvanceTagged, ExtendOwners DEF Owned
<1>4. PICK p : Extends(p, o) /\ OwnedTables(p)'
  BY <1>3
<1>5. Owned(p)'
  BY <1>1, <1>2, <1>4, OwnedAround
<1> QED  BY <1>5 DEF OwnInv

LEMMA StepKeepsOwned ==
  ASSUME Base, OwnInv, OneOwner, GilDisabled => Exclusive /\ LockInv, [Next]_vars
  PROVE  OwnInv'
<1>1. ASSUME NEW t \in Threads, LaunchStep(t)
      PROVE  OwnInv'
  <2>1. CASE TakeLaunchLock(t) \/ Snapshot(t) \/ ReadLauncher(t) \/ ReadConfigured(t) \/ Leave(t)
    BY <2>1, EntryOwned
  <2>2. CASE \/ Decide(t) \/ ReadyGeneric(t) \/ Prepare(t) \/ NotReady(t) \/ FindCompiled(t)
             \/ RememberRetained(t) \/ Relookup(t) \/ Miss(t) \/ CompileReturns(t)
    <3>1. Continues(t)
      BY <2>2, ChecksContinue
    <3>2. /\ UNCHANGED << natives, marshaller >> /\ pc[t] # "idle"
          /\ UNCHANGED << c, dispatchers >> \/ RememberRetained(t)
      BY <2>2 DEF registryVars, sharedVars, Decide, ReadyGeneric, Prepare, NotReady, FindCompiled,
         RememberRetained, Relookup, Miss, CompileReturns
    <3> QED  BY <1>1, <3>1, <3>2, ContinuesOwned
  <2>3. CASE \/ CompileEnter(t) \/ CompileMode(t) \/ Reuse(t) \/ ReadGlobals(t)
             \/ ForceLiteralArg(t) \/ Promote(t) \/ NoPromotion(t)
             \/ PublishSpecialised(t) \/ PublishGeneric(t)
    <3>1. Continues(t)
      BY <2>3, CompilingContinues
    <3>2. UNCHANGED << natives, marshaller >> /\ pc[t] # "idle"
      BY <2>3 DEF sharedVars, CompileEnter, CompileMode, Reuse, ReadGlobals, ForceLiteralArg,
         Promote, NoPromotion, PublishSpecialised, PublishGeneric
    <3>3. UNCHANGED << c, dispatchers >> \/ \E lits : AdvanceGeneration(lits)
      BY <2>3 DEF registryVars, CompileEnter, CompileMode, Reuse, ReadGlobals, ForceLiteralArg,
         Promote, NoPromotion, PublishSpecialised, PublishGeneric
    <3> QED  BY <1>1, <3>1, <3>2, <3>3, ContinuesOwned
  <2>4. CASE Recheck(t) \/ Ready(t) \/ ReadyAfterAll(t) \/ Select(t)
    BY <2>4, ReadyOwned, SelectOwned
  <2>5. CASE Rebind(t) \/ Rebound(t)
    BY <2>5, RebindOwned
  <2>6. CASE Go(t) \/ Emplace(t)
    BY <2>6, GoOwned, EmplaceOwned
  <2> QED  BY <1>1, <2>1, <2>2, <2>3, <2>4, <2>5, <2>6 DEF LaunchStep
<1> QED  BY <1>1, EntryOwned, AroundOwned, RecompileOwned, StepCases

LEMMA OwnInit == Init => OwnInv
<1> SUFFICES ASSUME Init PROVE OwnInv
  OBVIOUS
<1>1. PICK o : o = [i \in Nat |-> None]
  OBVIOUS
<1>2. OwnedTables(o)
  BY <1>1 DEF Init, RegistryInit, OwnedTables, Registered
<1>3. \A m \in Objects : OwnedMarshaller(o, m)
  BY DEF Init, OwnedMarshaller
<1>4. \A t \in Threads : OwnedThread(o, pc[t], loc[t])
  BY DEF Init, OwnedThread, UsesConf, UsesLauncher, Preparing, Compiling
<1>5. o \in Owners
  BY <1>1 DEF Owners
<1> QED  BY <1>2, <1>3, <1>4, <1>5 DEF Owned, OwnInv

LEMMA OwnInvariant == ASSUME OneOwner PROVE Spec => []OwnInv
<1>1. CASE GilDisabled
  <2>1. Base /\ Exclusive /\ LockInv /\ OwnInv /\ [Next]_vars => OwnInv'
    BY StepKeepsOwned
  <2>2. Spec => []LockInv
    BY <1>1, LockInvariant
  <2> QED  BY <2>1, <2>2, OwnInit, BaseInvariant, ExclusiveInvariant, PTL DEF Spec
<1>2. CASE ~ GilDisabled
  <2>1. Base /\ OwnInv /\ [Next]_vars => OwnInv'
    BY <1>2, StepKeepsOwned
  <2> QED  BY <2>1, OwnInit, BaseInvariant, PTL DEF Spec
<1> QED  BY <1>1, <1>2

(* LaunchRunsItsConfiguration: a launch never runs a kernel specialised    *)
(* for another launch configuration, and one whose extensions or planners  *)
(* use launch metadata runs one specialised for its own, on a build        *)
(* without the GIL, or with it as long as no planner asks for metadata;    *)
(* through any evictions, rebindings and recompilations (descriptor.py,    *)
(* _launch and _prepare_for_launch).                                       *)
THEOREM LaunchRunsItsConfiguration == ASSUME OneOwner PROVE Spec => []RunsOwnConfig
<1>1. Base /\ OwnInv => RunsOwnConfig
  <2> SUFFICES ASSUME Base, OwnInv, NEW t \in Threads, Ran(t)
               PROVE  /\ loc[t].kernel.key \in {None, Key(t)}
                      /\ Mine(t).optIn \/ NeedsLaunch => loc[t].kernel.key = Key(t)
    BY DEF RunsOwnConfig
  <2>1. loc[t].kernel.key = Wanted(loc[t].m)
    BY DEF OwnInv, Owned, OwnedThread, Ran
  <2> QED  BY <2>1 DEF Wanted, Key, Mine
<1> QED  BY <1>1, OwnInvariant, BaseInvariant, PTL
=============================================================================
