-------------------------- MODULE NativeLauncherProofs --------------------------
(***************************************************************************)
(* The native launcher: helpers and their record copies, context stacks,   *)
(* module callbacks and the check of the profile map, proved for any       *)
(* number of threads, devices, profiles and launches.                      *)
(***************************************************************************)
EXTENDS NativeLauncher, SequenceTheorems, FiniteSetTheorems, TLAPS

-----------------------------------------------------------------------------
(* Sequences used as stacks                                                *)

(* The top of a stack and what is below it.                                *)
LEMMA FrontLast ==
  ASSUME NEW S, NEW s \in Seq(S), s # << >>
  PROVE  /\ Front(s) \in Seq(S) /\ Last(s) \in S
         /\ Len(Front(s)) = Len(s) - 1
         /\ \A i \in 1 .. Len(s) - 1 : Front(s)[i] = s[i]
<1> DEFINE n == Len(s) - 1
<1>1. Len(s) \in Nat /\ Len(s) # 0 /\ n \in Nat
  BY EmptySeq
<1>2. \A i \in 1 .. Len(s) : s[i] \in S
  BY ElementOfSeq
<1>3. \A i \in 1 .. n : s[i] \in S
  BY <1>1, <1>2
<1>4. Front(s) = SubSeq(s, 1, n)
  BY DEF Front
<1>5. Len(s) = n + 1
  BY <1>1
<1> HIDE DEF n
<1>6. /\ SubSeq(s, 1, n) \in Seq(S)
      /\ Len(SubSeq(s, 1, n)) = IF 1 <= n THEN n - 1 + 1 ELSE 0
      /\ \A i \in 1 .. n - 1 + 1 : SubSeq(s, 1, n)[i] = s[1 + i - 1]
  BY <1>1, <1>3, SubSeqProperties
<1>7. Last(s) \in S
  BY <1>1, <1>2 DEF Last
<1>8. n - 1 + 1 = n /\ \A i \in 1 .. n : 1 + i - 1 = i
  BY <1>1
<1> QED  BY <1>1, <1>4, <1>5, <1>6, <1>7, <1>8

LEMMA FrontType ==
  ASSUME NEW S, NEW s \in Seq(S)
  PROVE  Front(s) \in Seq(S)
<1>1. CASE s = << >>
  <2>1. Front(s) = << >>
    BY <1>1, SubSeqEmpty DEF Front
  <2> QED  BY <2>1
<1>2. CASE s # << >>
  BY <1>2, FrontLast
<1> QED  BY <1>1, <1>2

(* A push can be undone.                                                   *)
LEMMA FrontAppend ==
  ASSUME NEW S, NEW s \in Seq(S), NEW x \in S
  PROVE  /\ Append(s, x) \in Seq(S) /\ Append(s, x) # << >> /\ Append(s, x) # s
         /\ Front(Append(s, x)) = s /\ Last(Append(s, x)) = x
<1> DEFINE a == Append(s, x)
<1>1. a \in Seq(S) /\ Len(a) = Len(s) + 1 /\ a[Len(s) + 1] = x /\ Len(s) \in Nat
  BY AppendProperties
<1>2. a # << >> /\ a # s
  BY <1>1, EmptySeq
<1>3. \A i \in 1 .. Len(s) : a[i] = s[i]
  BY AppendProperties
<1> HIDE DEF a
<1>4. /\ Front(a) \in Seq(S) /\ Len(Front(a)) = Len(a) - 1
      /\ \A i \in 1 .. Len(a) - 1 : Front(a)[i] = a[i]
  BY <1>1, <1>2, FrontLast
<1>5. Len(a) - 1 = Len(s)
  BY <1>1
<1>6. Len(Front(a)) = Len(s) /\ \A i \in 1 .. Len(s) : s[i] = Front(a)[i]
  BY <1>3, <1>4, <1>5
<1>7. Front(a) = s
  BY <1>4, <1>6, SeqEqual
<1>8. Last(a) = x
  BY <1>1 DEF Last
<1> QED  BY <1>1, <1>2, <1>7, <1>8 DEF a

(* Popping the end of two stacks laid end to end pops the second.          *)
LEMMA FrontConcat ==
  ASSUME NEW S, NEW a \in Seq(S), NEW b \in Seq(S), b # << >>
  PROVE  Front(a \o b) = a \o Front(b)
<1> DEFINE c == a \o b
           d == a \o Front(b)
           m == Len(a)
           n == Len(b) - 1
<1>1. m \in Nat /\ n \in Nat /\ Len(b) = n + 1
  <2>1. Len(b) \in Nat /\ Len(b) # 0
    BY EmptySeq
  <2> QED  BY <2>1
<1>2. /\ c \in Seq(S) /\ Len(c) = Len(a) + Len(b)
      /\ \A i \in 1 .. Len(a) + Len(b) : c[i] = IF i <= Len(a) THEN a[i] ELSE b[i - Len(a)]
  BY ConcatProperties
<1>3. /\ Front(b) \in Seq(S) /\ Len(Front(b)) = n
      /\ \A i \in 1 .. n : Front(b)[i] = b[i]
  BY FrontLast
<1>4. /\ d \in Seq(S) /\ Len(d) = Len(a) + Len(Front(b))
      /\ \A i \in 1 .. Len(a) + Len(Front(b)) :
           d[i] = IF i <= Len(a) THEN a[i] ELSE Front(b)[i - Len(a)]
  BY <1>3, ConcatProperties
<1> HIDE DEF c, d, n
<1>5. Len(c) = m + n + 1 /\ Len(c) - 1 = m + n /\ Len(d) = m + n
  BY <1>1, <1>2, <1>3, <1>4
<1>6. c # << >>
  BY <1>1, <1>2, <1>5, EmptySeq
<1>7. /\ Front(c) \in Seq(S) /\ Len(Front(c)) = Len(c) - 1
      /\ \A i \in 1 .. Len(c) - 1 : Front(c)[i] = c[i]
  BY <1>2, <1>6, FrontLast
<1> HIDE DEF m
<1>8. ASSUME NEW i \in 1 .. m + n
      PROVE  Front(c)[i] = d[i]
  <2>1. Front(c)[i] = c[i]
    BY <1>5, <1>7
  <2>2. i \in 1 .. m + (n + 1) /\ m + (n + 1) = Len(a) + Len(b) /\ i \in Nat
    BY <1>1 DEF m
  <2>3. c[i] = IF i <= m THEN a[i] ELSE b[i - m]
    BY <1>2, <2>2 DEF m
  <2>4. d[i] = IF i <= m THEN a[i] ELSE Front(b)[i - m]
    BY <1>3, <1>4 DEF m
  <2>5. ~(i <= m) => i - m \in 1 .. n
    BY <1>1
  <2> QED  BY <1>3, <2>1, <2>3, <2>4, <2>5
<1>9. Front(c) = d
  BY <1>4, <1>5, <1>7, <1>8, SeqEqual
<1> QED  BY <1>9 DEF c, d

-----------------------------------------------------------------------------
(* Types, and the helper of each launch                                    *)

Places == {"idle", "classify", "extract", "context", "compile", "setup"}

Locals == [profile : Profiles \cup {None}, helper : Helpers \cup {None},
           array : Devices \cup {None}, guard : BOOLEAN, raced : BOOLEAN]

(* What the locals of a thread say at the places it can be in.             *)
Shape(t) ==
    /\ pc[t] = "idle" => loc[t].helper = None
    /\ pc[t] # "idle" => loc[t].profile \in Profiles /\ loc[t].helper \in Helpers
    /\ loc[t].guard => pc[t] \in {"compile", "setup"}
    /\ pc[t] \in {"compile", "setup"} =>
         stack[t] # << >> /\ (loc[t].array # None => Last(stack[t]) = loc[t].array)
    /\ pc[t] = "setup" => kernels[Family(t)] \in Kernels

(* A helper is used by one launch, or is in the free list once.            *)
HelpersOwn ==
    /\ \A t, u \in Threads : t # u /\ pc[t] # "idle" /\ pc[u] # "idle" =>
         loc[t].helper # loc[u].helper
    /\ \A i \in DOMAIN free, t \in Threads : free[i] # loc[t].helper
    /\ \A i, j \in DOMAIN free : free[i] = free[j] => i = j

Base == TypeOK /\ (\A t \in Threads : Shape(t)) /\ HelpersOwn

(* The other threads stay where they are.                                  *)
OthersStay(t) == \A u \in Threads : u # t =>
    /\ pc'[u] = pc[u] /\ stack'[u] = stack[u]
    /\ loc'[u].profile = loc[u].profile /\ loc'[u].helper = loc[u].helper
    /\ loc'[u].array = loc[u].array /\ loc'[u].guard = loc[u].guard
    /\ loc[u].raced => loc'[u].raced

(* Outside a launch.                                                       *)
LEMMA NoLocalsType ==
  /\ NoLocals \in Locals /\ NoLocals.helper = None /\ NoLocals.profile = None
  /\ NoLocals.array = None /\ NoLocals.guard = FALSE /\ NoLocals.raced = FALSE
BY DEF NoLocals, Locals

(* One thread moves, and its locals are well formed where it gets.         *)
LEMMA BaseStep ==
  ASSUME Base, TypeOK', NEW t \in Threads, OthersStay(t), Shape(t)', HelpersOwn',
         \A f \in Families : kernels[f] \in Kernels => kernels'[f] \in Kernels
  PROVE  Base'
<1>1. ASSUME NEW u \in Threads, u # t
      PROVE  Shape(u)'
  <2>1. /\ Shape(u) /\ pc'[u] = pc[u] /\ stack'[u] = stack[u]
        /\ loc'[u].profile = loc[u].profile /\ loc'[u].helper = loc[u].helper
        /\ loc'[u].array = loc[u].array /\ loc'[u].guard = loc[u].guard
    BY <1>1 DEF Base, OthersStay
  <2>2. pc[u] = "setup" => kernels'[Family(u)] \in Kernels
    BY <2>1 DEF Shape, Family, Families
  <2> QED  BY <2>1, <2>2 DEF Shape, Family
<1> QED  BY <1>1 DEF Base

(* Nothing has been launched.                                              *)
LEMMA BaseInit == Init => Base
<1> SUFFICES ASSUME Init PROVE Base
  OBVIOUS
<1>1. ContextTypeOK
  <2>1. << >> \in Seq(Devices)
    BY EmptySeq
  <2> QED  BY <2>1 DEF Init, ContextInit, ContextTypeOK
<1>2. pc \in [Threads -> Places] /\ loc \in [Threads -> Locals]
  BY NoLocalsType DEF Init, Places
<1>3. free \in Seq(Helpers) /\ DOMAIN free = {}
  BY EmptySeq DEF Init
<1>4. /\ profiles \in SUBSET Profiles
      /\ kernels \in [Families -> Kernels \cup {None}]
      /\ modules \in [Devices -> SUBSET Families]
      /\ copies \in [Helpers -> SUBSET Addresses] /\ allocated \in SUBSET Addresses
  BY DEF Init
<1>5. aborted \in BOOLEAN
  BY DEF Init
<1>6. launches \in Nat
  BY DEF Init
<1>7. TypeOK
  BY <1>1, <1>2, <1>3, <1>4, <1>5, <1>6 DEF TypeOK, Places, Locals
<1>8. \A t \in Threads : Shape(t)
  BY NoLocalsType DEF Init, Shape
<1>9. HelpersOwn
  BY <1>3 DEF Init, HelpersOwn
<1> QED  BY <1>7, <1>8, <1>9 DEF Base

(* The helpers stay where they are.                                        *)
LEMMA HelperKept ==
  ASSUME Base, NEW t \in Threads, OthersStay(t), UNCHANGED free,
         loc'[t].helper = loc[t].helper, pc'[t] # "idle" => pc[t] # "idle"
  PROVE  HelpersOwn'
BY DEF Base, HelpersOwn, OthersStay

(* The launch gives its helper back.                                       *)
LEMMA HelperReturned ==
  ASSUME Base, NEW t \in Threads, OthersStay(t), pc[t] # "idle", pc'[t] = "idle",
         loc'[t].helper = None, free' = Append(free, loc[t].helper)
  PROVE  HelpersOwn' /\ free' \in Seq(Helpers)
<1> DEFINE h == loc[t].helper
<1>1. h \in Helpers /\ free \in Seq(Helpers)
  BY DEF Base, Shape, TypeOK
<1>2. /\ free' \in Seq(Helpers) /\ Len(free') = Len(free) + 1
      /\ \A i \in 1 .. Len(free) : free'[i] = free[i]
      /\ free'[Len(free) + 1] = h
  BY <1>1, AppendProperties
<1>3. /\ DOMAIN free = 1 .. Len(free) /\ DOMAIN free' = 1 .. Len(free) + 1
      /\ Len(free) \in Nat
  BY <1>1, <1>2, LenProperties
<1>4. \A u \in Threads : u # t => pc'[u] = pc[u] /\ loc'[u].helper = loc[u].helper
  BY DEF OthersStay
<1>5. \A i \in DOMAIN free : free[i] # h /\ free[i] \in Helpers
  BY <1>1, <1>3, ElementOfSeq DEF Base, HelpersOwn
<1>6. \A u \in Threads : loc'[u].helper # h
  <2> TAKE u \in Threads
  <2>1. CASE u = t
    BY <1>1, <2>1, LauncherAssumption
  <2>2. CASE u # t /\ pc[u] = "idle"
    BY <1>1, <1>4, <2>2, LauncherAssumption DEF Base, Shape
  <2>3. CASE u # t /\ pc[u] # "idle"
    BY <1>4, <2>3 DEF Base, HelpersOwn
  <2> QED  BY <2>1, <2>2, <2>3
<1> HIDE DEF h
<1>7. \A i \in DOMAIN free', u \in Threads : free'[i] # loc'[u].helper
  <2> TAKE i \in DOMAIN free', u \in Threads
  <2>1. CASE i = Len(free) + 1
    BY <1>2, <1>6, <2>1
  <2>2. CASE i # Len(free) + 1
    <3>1. i \in DOMAIN free /\ free'[i] = free[i]
      BY <1>2, <1>3, <2>2
    <3>2. CASE u = t
      BY <1>5, <3>1, <3>2, LauncherAssumption
    <3>3. CASE u # t
      BY <1>4, <3>1, <3>3 DEF Base, HelpersOwn
    <3> QED  BY <3>2, <3>3
  <2> QED  BY <2>1, <2>2
<1>8. \A i, j \in DOMAIN free' : free'[i] = free'[j] => i = j
  BY <1>2, <1>3, <1>5 DEF Base, HelpersOwn
<1>9. \A u, v \in Threads : u # v /\ pc'[u] # "idle" /\ pc'[v] # "idle" =>
        loc'[u].helper # loc'[v].helper
  BY <1>4 DEF Base, HelpersOwn
<1> QED  BY <1>2, <1>7, <1>8, <1>9 DEF HelpersOwn

(* There are as many helpers as threads, so one is left for a thread that  *)
(* is not launching.                                                       *)
LEMMA HelperExists ==
  ASSUME Base, NEW t \in Threads, pc[t] = "idle"
  PROVE  \E h \in Helpers : h \notin InUse
<1> SUFFICES ASSUME Helpers \subseteq InUse PROVE FALSE
  OBVIOUS
<1> DEFINE S == {u \in Threads : loc[u].helper \in Helpers}
           f == [u \in S |-> loc[u].helper]
           n == Cardinality(Threads)
<1>1. IsFiniteSet(Threads) /\ n \in Nat
  BY LauncherAssumption, FS_CardinalityType
<1>2. loc[t].helper = None /\ None \notin Helpers
  BY LauncherAssumption DEF Base, Shape
<1>3. S \subseteq Threads \ {t}
  BY <1>2
<1>4. IsFiniteSet(Threads \ {t}) /\ Cardinality(Threads \ {t}) = n - 1
  BY <1>1, FS_RemoveElement
<1>5. IsFiniteSet(S) /\ Cardinality(S) <= n - 1 /\ Cardinality(S) \in Nat
  BY <1>3, <1>4, FS_Subset, FS_CardinalityType
<1>6. Cardinality(Helpers) = n
  BY <1>1, FS_Interval DEF Helpers
<1>7. f \in [S -> Helpers]
  OBVIOUS
<1>8. ASSUME NEW h \in Helpers
      PROVE  \E u \in S : f[u] = h
  <2>1. PICK u \in Threads : loc[u].helper = h
    BY DEF InUse
  <2> QED  BY <2>1
<1>9. f \in Surjection(S, Helpers)
  BY <1>7, <1>8 DEF Surjection
<1> HIDE DEF f, S
<1>10. Cardinality(Helpers) <= Cardinality(S)
  BY <1>5, <1>9, FS_Surjection
<1> QED  BY <1>1, <1>5, <1>6, <1>10

(* A launch takes a helper that nobody uses.                               *)
LEMMA HelperTaken ==
  ASSUME Base, NEW t \in Threads, OthersStay(t), pc[t] = "idle",
         free' = IF free = << >> THEN free ELSE Front(free),
         loc'[t].helper = TakenHelper
  PROVE  TakenHelper \in Helpers /\ free' \in Seq(Helpers) /\ HelpersOwn'
<1> DEFINE h == TakenHelper
<1>1. free \in Seq(Helpers)
  BY DEF Base, TypeOK
<1>2. \A u \in Threads : u # t => pc'[u] = pc[u] /\ loc'[u].helper = loc[u].helper
  BY DEF OthersStay
<1>3. /\ h \in Helpers /\ free' \in Seq(Helpers)
      /\ \A u \in Threads : loc[u].helper # h
      /\ \A i \in DOMAIN free' : i \in DOMAIN free /\ free'[i] = free[i] /\ free[i] # h
  <2>1. CASE free = << >>
    <3>1. h = CHOOSE g \in Helpers : g \notin InUse
      BY <2>1 DEF TakenHelper
    <3>2. h \in Helpers /\ h \notin InUse
      BY <3>1, HelperExists
    <3>3. DOMAIN free' = {} /\ free' \in Seq(Helpers)
      BY <2>1, EmptySeq
    <3> QED  BY <3>2, <3>3 DEF InUse
  <2>2. CASE free # << >>
    <3>1. h = free[Len(free)] /\ free' = Front(free)
      BY <2>2 DEF TakenHelper, Last
    <3>2. /\ free' \in Seq(Helpers) /\ Len(free') = Len(free) - 1
          /\ \A i \in 1 .. Len(free) - 1 : free'[i] = free[i]
      BY <1>1, <2>2, <3>1, FrontLast
    <3>3. /\ Len(free) \in Nat /\ Len(free) # 0 /\ DOMAIN free = 1 .. Len(free)
          /\ DOMAIN free' = 1 .. Len(free')
      BY <1>1, <2>2, <3>2, EmptySeq, LenProperties
    <3>4. Len(free) \in DOMAIN free /\ h \in Helpers
      BY <1>1, <3>1, <3>3, ElementOfSeq
    <3>5. \A u \in Threads : loc[u].helper # h
      BY <3>1, <3>4 DEF Base, HelpersOwn
    <3>6. \A i \in DOMAIN free' : i \in DOMAIN free /\ i # Len(free) /\ free'[i] = free[i]
      BY <3>2, <3>3
    <3> QED  BY <3>1, <3>2, <3>4, <3>5, <3>6 DEF Base, HelpersOwn
  <2> QED  BY <2>1, <2>2
<1> HIDE DEF h
<1>4. loc'[t].helper = h
  BY DEF h
<1>5. \A i \in DOMAIN free', u \in Threads : free'[i] # loc'[u].helper
  BY <1>2, <1>3, <1>4 DEF Base, HelpersOwn
<1>6. \A i, j \in DOMAIN free' : free'[i] = free'[j] => i = j
  BY <1>3 DEF Base, HelpersOwn
<1>7. \A u, v \in Threads : u # v /\ pc'[u] # "idle" /\ pc'[v] # "idle" =>
        loc'[u].helper # loc'[v].helper
  BY <1>2, <1>3, <1>4 DEF Base, HelpersOwn
<1> QED  BY <1>3, <1>5, <1>6, <1>7 DEF HelpersOwn, h

(* The launch of t has ended with the context stack s.                     *)
Ended(t, s) == pc'[t] = "idle" /\ loc'[t] = NoLocals /\ stack'[t] = s

LEMMA FinishStep ==
  ASSUME Base, NEW t \in Threads, pc[t] # "idle", NEW s \in Seq(Devices), Finish(t, s)
  PROVE  /\ pc' \in [Threads -> Places] /\ loc' \in [Threads -> Locals]
         /\ stack' \in [Threads -> Seq(Devices)] /\ free' \in Seq(Helpers)
         /\ OthersStay(t) /\ Ended(t, s) /\ HelpersOwn' /\ Shape(t)'
         /\ \A u \in Threads : u # t => loc'[u] = loc[u]
<1>1. /\ pc \in [Threads -> Places] /\ loc \in [Threads -> Locals]
      /\ stack \in [Threads -> Seq(Devices)]
  BY DEF Base, TypeOK, ContextTypeOK, Places, Locals
<1>2. /\ pc' = [pc EXCEPT ![t] = "idle"] /\ loc' = [loc EXCEPT ![t] = NoLocals]
      /\ stack' = [stack EXCEPT ![t] = s] /\ free' = Append(free, loc[t].helper)
  BY DEF Finish, Goto
<1>3. /\ pc' \in [Threads -> Places] /\ loc' \in [Threads -> Locals]
      /\ stack' \in [Threads -> Seq(Devices)]
  BY <1>1, <1>2, NoLocalsType DEF Places
<1>4. Ended(t, s) /\ OthersStay(t) /\ \A u \in Threads : u # t => loc'[u] = loc[u]
  BY <1>1, <1>2 DEF Ended, OthersStay
<1>5. HelpersOwn' /\ free' \in Seq(Helpers)
  BY <1>2, <1>4, NoLocalsType, HelperReturned DEF Ended
<1>6. Shape(t)'
  BY <1>4, NoLocalsType DEF Ended, Shape
<1> QED  BY <1>3, <1>4, <1>5, <1>6

LEMMA ExecuteStep ==
  ASSUME Base, NEW t \in Threads, pc[t] # "idle", NEW s, NEW left \in Seq(Devices),
         NEW k, Execute(t, s, left, k)
  PROVE  /\ Finish(t, left) /\ ran'.on = RunsOn(t, s, k) /\ ran'.array = loc[t].array
         /\ ran'.setup = k.setup
         /\ ran'.overlap = \E u \in Threads \ {t} :
                               pc[u] = "setup" /\ Family(u) = Family(t)
BY DEF Execute

(* A thread moves to a place with given locals.                            *)
LEMMA MoveLocals ==
  ASSUME Base, NEW t \in Threads, NEW p \in Places, NEW r \in Locals,
         Goto(t, p), loc' = [loc EXCEPT ![t] = r]
  PROVE  /\ pc' \in [Threads -> Places] /\ loc' \in [Threads -> Locals]
         /\ pc'[t] = p /\ loc'[t] = r
         /\ \A u \in Threads : u # t => pc'[u] = pc[u] /\ loc'[u] = loc[u]
BY DEF Base, TypeOK, Goto, Places, Locals

(* A launch looks its kernel up with the context stack s: it ends, or goes *)
(* on to compile.                                                          *)
Searching(t, s, left) ==
    /\ pc'[t] = "compile" /\ stack'[t] = s /\ loc'[t].guard = (s # left)
    /\ loc'[t].profile = loc[t].profile /\ loc'[t].helper = loc[t].helper
    /\ loc'[t].array = loc[t].array /\ loc'[t].raced = loc[t].raced

LEMMA LookupStep ==
  ASSUME Base, NEW t \in Threads, pc[t] = "context", NEW s \in Seq(Devices),
         NEW left \in Seq(Devices), s # << >>,
         loc[t].array # None => Last(s) = loc[t].array, Lookup(t, s, left)
  PROVE  /\ pc' \in [Threads -> Places] /\ loc' \in [Threads -> Locals]
         /\ stack' \in [Threads -> Seq(Devices)] /\ free' \in Seq(Helpers)
         /\ OthersStay(t) /\ HelpersOwn' /\ Shape(t)'
         /\ \A u \in Threads : u # t => loc'[u] = loc[u]
         /\ IF kernels[Family(t)] # None
            THEN Ended(t, left) /\ Execute(t, s, left, kernels[Family(t)])
            ELSE Searching(t, s, left) /\ ran' = None
<1>1. CASE kernels[Family(t)] # None
  <2>1. Execute(t, s, left, kernels[Family(t)])
    BY <1>1 DEF Lookup
  <2>2. Finish(t, left)
    BY <2>1, ExecuteStep
  <2> QED  BY <1>1, <2>1, <2>2, FinishStep
<1>2. CASE kernels[Family(t)] = None
  <2> DEFINE r == [loc[t] EXCEPT !.guard = (s # left)]
  <2>1. loc[t] \in Locals /\ stack \in [Threads -> Seq(Devices)] /\ loc \in [Threads -> Locals]
    BY DEF Base, TypeOK, ContextTypeOK, Locals
  <2>2. /\ r \in Locals /\ r.guard = (s # left) /\ r.profile = loc[t].profile
        /\ r.helper = loc[t].helper /\ r.array = loc[t].array /\ r.raced = loc[t].raced
    BY <2>1 DEF Locals
  <2>3. /\ Goto(t, "compile") /\ stack' = [stack EXCEPT ![t] = s]
        /\ loc' = [loc EXCEPT ![t] = r] /\ ran' = None /\ free' = free
    BY <1>2, <2>1 DEF Lookup
  <2> HIDE DEF r
  <2>4. /\ pc' \in [Threads -> Places] /\ loc' \in [Threads -> Locals]
        /\ pc'[t] = "compile" /\ loc'[t] = r
        /\ \A u \in Threads : u # t => pc'[u] = pc[u] /\ loc'[u] = loc[u]
    BY <2>2, <2>3, MoveLocals DEF Places
  <2>5. /\ stack' \in [Threads -> Seq(Devices)] /\ stack'[t] = s
        /\ \A u \in Threads : u # t => stack'[u] = stack[u]
    BY <2>1, <2>3
  <2>6. OthersStay(t)
    BY <2>4, <2>5 DEF OthersStay
  <2>7. HelpersOwn' /\ free' \in Seq(Helpers)
    BY <2>2, <2>3, <2>4, <2>6, HelperKept DEF Base, TypeOK
  <2>8. Shape(t)'
    BY <2>2, <2>4, <2>5 DEF Base, Shape
  <2>9. Searching(t, s, left)
    BY <2>2, <2>4, <2>5 DEF Searching
  <2> QED  BY <1>2, <2>3, <2>4, <2>5, <2>6, <2>7, <2>8, <2>9
<1> QED  BY <1>1, <1>2

LEMMA BeginStep ==
  ASSUME Base, NEW t \in Threads, Begin(t)
  PROVE  /\ Base' /\ OthersStay(t) /\ pc[t] = "idle"
         /\ pc'[t] \in {"extract", "classify"} /\ loc'[t].guard = FALSE
         /\ loc'[t].profile \in Profiles
         /\ \A u \in Threads \ {t} : pc[u] = "classify" /\ loc[u].profile = loc'[t].profile =>
              loc'[u].raced /\ loc'[t].raced
         /\ IF loc'[t].profile \in profiles \/ loc'[t].profile \notin ByPython
            THEN pc'[t] = "extract" /\ profiles' = profiles \cup {loc'[t].profile}
            ELSE pc'[t] = "classify" /\ profiles' = profiles
<1>1. PICK p \in Profiles :
         LET others == {u \in Threads : pc[u] = "classify" /\ loc[u].profile = p}
         IN  /\ loc' = [u \in Threads |->
                   IF u = t THEN [NoLocals EXCEPT !.profile = p, !.helper = TakenHelper,
                                                  !.raced = others # {}]
                   ELSE [loc[u] EXCEPT !.raced = @ \/ u \in others]]
             /\ IF Known(p) \/ p \notin ByPython
                THEN Goto(t, "extract") /\ profiles' = profiles \cup {p}
                ELSE Goto(t, "classify") /\ UNCHANGED profiles
  BY DEF Begin
<1> DEFINE others == {u \in Threads : pc[u] = "classify" /\ loc[u].profile = p}
           r == [NoLocals EXCEPT !.profile = p, !.helper = TakenHelper, !.raced = others # {}]
           q(u) == [loc[u] EXCEPT !.raced = @ \/ u \in others]
<1>2. loc' = [u \in Threads |-> IF u = t THEN r ELSE q(u)]
  BY <1>1
<1>3. /\ pc[t] = "idle" /\ launches \in Nat /\ launches' = launches + 1
      /\ free' = IF free = << >> THEN free ELSE Front(free)
      /\ UNCHANGED << contextVars, kernels, modules, copies, allocated, aborted >>
  BY DEF Begin, Base, TypeOK
<1>4. /\ pc \in [Threads -> Places] /\ loc \in [Threads -> Locals]
      /\ stack' = stack
  BY <1>3 DEF Base, TypeOK, Places, Locals, contextVars
<1>5. IF p \in profiles \/ p \notin ByPython
      THEN pc'[t] = "extract" /\ profiles' = profiles \cup {p}
      ELSE pc'[t] = "classify" /\ profiles' = profiles
  BY <1>1, <1>4 DEF Goto, Known
<1>6. /\ pc' \in [Threads -> Places]
      /\ \A u \in Threads : u # t => pc'[u] = pc[u]
  BY <1>1, <1>4 DEF Goto, Places
<1>7. /\ r.profile = p /\ r.helper = TakenHelper /\ r.array = None
      /\ r.guard = FALSE /\ r.raced = (others # {})
  BY DEF NoLocals
<1>8. \A u \in Threads :
        /\ q(u) \in Locals /\ q(u).profile = loc[u].profile /\ q(u).helper = loc[u].helper
        /\ q(u).array = loc[u].array /\ q(u).guard = loc[u].guard
        /\ q(u).raced = (loc[u].raced \/ u \in others)
  BY <1>4 DEF Locals
<1>9. TakenHelper \in Helpers => r \in Locals
  BY DEF NoLocals, Locals
<1> HIDE DEF r, q
<1>10. loc'[t] = r /\ \A u \in Threads : u # t => loc'[u] = q(u)
  BY <1>2
<1>11. OthersStay(t)
  BY <1>4, <1>6, <1>8, <1>10 DEF OthersStay
<1>12. TakenHelper \in Helpers /\ free' \in Seq(Helpers) /\ HelpersOwn'
  BY <1>3, <1>7, <1>10, <1>11, HelperTaken
<1>13. loc' \in [Threads -> Locals]
  BY <1>2, <1>8, <1>9, <1>12
<1>14. launches' \in Nat
  BY <1>3
<1>15. profiles' \in SUBSET Profiles
  BY <1>1 DEF Base, TypeOK
<1>16. TypeOK'
  BY <1>3, <1>6, <1>12, <1>13, <1>14, <1>15
     DEF Base, TypeOK, ContextTypeOK, contextVars, Places, Locals
<1>17. Shape(t)'
  BY <1>5, <1>7, <1>10, <1>12 DEF Shape
<1>18. Base'
  BY <1>3, <1>11, <1>12, <1>16, <1>17, BaseStep
<1>19. ASSUME NEW u \in Threads \ {t}, pc[u] = "classify", loc[u].profile = p
       PROVE  loc'[u].raced /\ loc'[t].raced
  BY <1>7, <1>8, <1>10, <1>19
<1> QED  BY <1>3, <1>5, <1>7, <1>10, <1>11, <1>18, <1>19

LEMMA ClassifiedStep ==
  ASSUME Base, NEW t \in Threads, Classified(t)
  PROVE  /\ Base' /\ OthersStay(t) /\ pc'[t] = "extract" /\ loc' = loc /\ stack' = stack
<1>1. /\ pc[t] = "classify" /\ loc' = loc /\ Goto(t, "extract") /\ stack' = stack
      /\ free' = free
  BY DEF Classified, contextVars
<1>2. /\ pc' \in [Threads -> Places] /\ pc'[t] = "extract"
      /\ \A u \in Threads : u # t => pc'[u] = pc[u]
  BY <1>1 DEF Base, TypeOK, Goto, Places
<1>3. loc[t].profile \in Profiles
  BY <1>1 DEF Base, Shape
<1>4. profiles' \in SUBSET Profiles
  BY <1>3 DEF Classified, Base, TypeOK
<1>5. aborted' \in BOOLEAN
  BY DEF Classified
<1>6. TypeOK'
  BY <1>2, <1>4, <1>5 DEF Classified, Base, TypeOK, ContextTypeOK, contextVars, Places
<1>7. OthersStay(t)
  BY <1>1, <1>2 DEF OthersStay
<1>8. Shape(t)'
  BY <1>1, <1>2 DEF Base, Shape
<1>9. HelpersOwn'
  BY <1>1, <1>7, HelperKept
<1>10. kernels' = kernels
  BY DEF Classified
<1> QED  BY <1>1, <1>2, <1>6, <1>7, <1>8, <1>9, <1>10, BaseStep

(* A helper has at most one record copy, so that the driver has an address *)
(* for another.                                                            *)
CopiesInv == CopiesOwned /\ \A h \in Helpers : \A a, b \in copies[h] : a = b

LEMMA AddressExists ==
  ASSUME Base, CopiesInv
  PROVE  \E a \in Addresses : a \notin allocated
<1> SUFFICES ASSUME Addresses \subseteq allocated PROVE FALSE
  OBVIOUS
<1> DEFINE n == Cardinality(Threads)
           S == {h \in Helpers : copies[h] # {}}
           f == [h \in S |-> CHOOSE a \in copies[h] : TRUE]
<1>1. n \in Nat
  BY LauncherAssumption, FS_CardinalityType
<1>2. IsFiniteSet(Helpers) /\ Cardinality(Helpers) = n
  BY <1>1, FS_Interval DEF Helpers
<1>3. Cardinality(Addresses) = n + 1
  BY <1>1, FS_Interval DEF Addresses
<1>4. IsFiniteSet(S) /\ Cardinality(S) <= n /\ Cardinality(S) \in Nat
  BY <1>2, FS_Subset, FS_CardinalityType
<1>5. allocated = Addresses
  BY DEF Base, TypeOK
<1>6. ASSUME NEW h \in S
      PROVE  f[h] \in copies[h] /\ f[h] \in Addresses
  BY <1>6 DEF Base, TypeOK
<1>7. f \in [S -> Addresses]
  BY <1>6
<1>8. ASSUME NEW a \in Addresses
      PROVE  \E h \in S : f[h] = a
  <2>1. PICK h \in Helpers : a \in copies[h]
    BY <1>5 DEF CopiesInv, CopiesOwned
  <2>2. h \in S
    BY <2>1
  <2>3. f[h] \in copies[h]
    BY <1>6, <2>2
  <2> HIDE DEF f, S
  <2> QED  BY <2>1, <2>2, <2>3 DEF CopiesInv
<1>9. f \in Surjection(S, Addresses)
  BY <1>7, <1>8 DEF Surjection
<1> HIDE DEF f, S
<1>10. Cardinality(Addresses) <= Cardinality(S)
  BY <1>4, <1>9, FS_Surjection
<1> QED  BY <1>1, <1>3, <1>4, <1>10

(* The record copy of the last launch goes and that of this one comes, at  *)
(* an address that no other helper has.                                    *)
LEMMA ExtractCopies ==
  ASSUME Base, CopiesInv, NEW t \in Threads, Extract(t)
  PROVE  /\ copies' \in [Helpers -> SUBSET Addresses] /\ allocated' \in SUBSET Addresses
         /\ CopiesInv'
<1> DEFINE h == loc[t].helper
           left == allocated \ copies[h]
           new == CHOOSE a \in Addresses : a \notin left
<1>1. h \in Helpers
  BY DEF Extract, Base, Shape
<1>2. \E a \in Addresses : a \notin left
  BY AddressExists
<1>3. new \in Addresses /\ new \notin left
  BY <1>2
<1>4. /\ copies \in [Helpers -> SUBSET Addresses] /\ allocated \in SUBSET Addresses
  BY DEF Base, TypeOK
<1>5. \/ copies' = [copies EXCEPT ![h] = {new}] /\ allocated' = left \cup {new}
      \/ copies' = [copies EXCEPT ![h] = {}] /\ allocated' = left
  BY DEF Extract, KeepsNone
<1>6. /\ \A g \in Helpers : g # h => copies'[g] = copies[g]
      /\ \/ copies'[h] = {new} /\ allocated' = left \cup {new}
         \/ copies'[h] = {} /\ allocated' = left
  BY <1>1, <1>4, <1>5
<1>7. copies' \in [Helpers -> SUBSET Addresses] /\ allocated' \in SUBSET Addresses
  BY <1>3, <1>4, <1>5
<1> HIDE DEF new
<1>8. \A g \in Helpers : g # h => copies[g] \subseteq left
  BY <1>1 DEF CopiesInv, CopiesOwned
<1>9. \A a \in left : \E g \in Helpers : g # h /\ a \in copies[g]
  BY <1>1 DEF CopiesInv, CopiesOwned
<1> HIDE DEF left, h
<1>10. \A g \in Helpers : copies'[g] \subseteq allocated'
  BY <1>6, <1>8
<1>11. \A g, k \in Helpers : g # k => copies'[g] \cap copies'[k] = {}
  BY <1>3, <1>6, <1>8 DEF CopiesInv, CopiesOwned
<1>12. \A a \in allocated' : \E g \in Helpers : a \in copies'[g]
  BY <1>1, <1>6, <1>9
<1>13. \A g \in Helpers : \A a, b \in copies'[g] : a = b
  BY <1>6 DEF CopiesInv
<1> QED  BY <1>7, <1>10, <1>11, <1>12, <1>13 DEF CopiesInv, CopiesOwned

LEMMA ExtractStep ==
  ASSUME Base, CopiesInv, NEW t \in Threads, Extract(t)
  PROVE  /\ Base' /\ OthersStay(t) /\ stack' = stack
         /\ \/ Ended(t, stack[t])
            \/ pc'[t] = "context" /\ loc'[t].guard = loc[t].guard
<1>1. /\ pc[t] = "extract" /\ ran' = None
      /\ UNCHANGED << prepared, kept, incidents, blocks, strayed, profiles, kernels, modules,
                      aborted, launches >>
  BY DEF Extract, otherContext
<1>2. /\ copies' \in [Helpers -> SUBSET Addresses] /\ allocated' \in SUBSET Addresses
  BY ExtractCopies
<1>3. /\ stack \in [Threads -> Seq(Devices)] /\ loc \in [Threads -> Locals]
      /\ loc[t] \in Locals
  BY DEF Base, TypeOK, ContextTypeOK, Locals
<1>4. CASE Kind(t) = "record" /\ stack[t] = << >>
  <2>1. Finish(t, stack[t])
    BY <1>4 DEF Extract
  <2>2. /\ pc' \in [Threads -> Places] /\ loc' \in [Threads -> Locals]
        /\ stack' \in [Threads -> Seq(Devices)] /\ free' \in Seq(Helpers)
        /\ OthersStay(t) /\ Ended(t, stack[t]) /\ HelpersOwn' /\ Shape(t)'
    BY <1>1, <1>3, <2>1, FinishStep
  <2>3. stack' = stack
    BY <1>3, <2>1 DEF Finish
  <2>4. TypeOK'
    BY <1>1, <1>2, <2>2 DEF Base, TypeOK, ContextTypeOK, Places, Locals
  <2> QED  BY <1>1, <2>2, <2>3, <2>4, BaseStep
<1>5. CASE ~(Kind(t) = "record" /\ stack[t] = << >>)
  <2>1. PICK d \in Devices \cup {None} :
           loc' = [loc EXCEPT ![t].array = d, ![t].raced = FALSE]
    BY <1>5 DEF Extract
  <2>2. Goto(t, "context") /\ UNCHANGED << stack, free >>
    BY <1>5 DEF Extract
  <2> DEFINE r == [[loc[t] EXCEPT !.array = d] EXCEPT !.raced = FALSE]
  <2>3. r \in Locals /\ r.guard = loc[t].guard /\ r.helper = loc[t].helper
        /\ r.profile = loc[t].profile
    BY <1>3 DEF Locals
  <2>4. loc' = [loc EXCEPT ![t] = r]
    BY <1>3, <2>1
  <2> HIDE DEF r
  <2>5. /\ pc' \in [Threads -> Places] /\ loc' \in [Threads -> Locals]
        /\ pc'[t] = "context" /\ loc'[t] = r
        /\ \A u \in Threads : u # t => pc'[u] = pc[u] /\ loc'[u] = loc[u]
    BY <2>2, <2>3, <2>4, MoveLocals DEF Places
  <2>6. OthersStay(t)
    BY <2>2, <2>5 DEF OthersStay
  <2>7. TypeOK'
    BY <1>1, <1>2, <2>2, <2>5 DEF Base, TypeOK, ContextTypeOK, Places, Locals
  <2>8. Shape(t)'
    BY <1>1, <2>3, <2>5 DEF Base, Shape
  <2>9. HelpersOwn'
    BY <1>1, <2>2, <2>3, <2>5, <2>6, HelperKept
  <2> QED  BY <1>1, <2>2, <2>3, <2>5, <2>6, <2>7, <2>8, <2>9, BaseStep
<1> QED  BY <1>4, <1>5

(* What the thread's stack will be when the guard has been undone.         *)
LEMMA UnguardedType ==
  ASSUME Base, NEW t \in Threads
  PROVE  /\ Unguarded(t) \in Seq(Devices)
         /\ pc[t] \notin {"compile", "setup"} => Unguarded(t) = stack[t]
<1>1. stack[t] \in Seq(Devices) /\ (loc[t].guard => pc[t] \in {"compile", "setup"})
  BY DEF Base, TypeOK, ContextTypeOK, Shape
<1>2. Front(stack[t]) \in Seq(Devices)
  BY <1>1, FrontType
<1> QED  BY <1>1, <1>2 DEF Unguarded

LEMMA UnguardedEnded ==
  ASSUME NEW t \in Threads, NEW s, Ended(t, s)
  PROVE  Unguarded(t)' = s
BY NoLocalsType DEF Ended, Unguarded

(* The launch ends with an error or a kernel; kernels, modules and the     *)
(* context keep their types.                                               *)
LEMMA EndStep ==
  ASSUME Base, NEW t \in Threads, pc[t] # "idle", Finish(t, Unguarded(t)),
         UNCHANGED << prepared, kept, incidents, otherContext, profiles, copies, allocated,
                      aborted, launches >>,
         kernels' \in [Families -> Kernels \cup {None}],
         modules' \in [Devices -> SUBSET Families],
         \A f \in Families : kernels[f] \in Kernels => kernels'[f] \in Kernels
  PROVE  Base' /\ OthersStay(t) /\ Ended(t, Unguarded(t)) /\ Unguarded(t)' = Unguarded(t)
<1> DEFINE s == Unguarded(t)
<1>1. s \in Seq(Devices)
  BY UnguardedType
<1>2. Finish(t, s)
  OBVIOUS
<1> HIDE DEF s
<1>3. /\ pc' \in [Threads -> Places] /\ loc' \in [Threads -> Locals]
      /\ stack' \in [Threads -> Seq(Devices)] /\ free' \in Seq(Helpers)
      /\ OthersStay(t) /\ Ended(t, s) /\ HelpersOwn' /\ Shape(t)'
  BY <1>1, <1>2, FinishStep
<1>4. TypeOK'
  BY <1>3 DEF Base, TypeOK, ContextTypeOK, otherContext, Places, Locals
<1>5. Base'
  BY <1>3, <1>4, BaseStep
<1>6. Unguarded(t)' = s
  BY <1>3, UnguardedEnded
<1> QED  BY <1>3, <1>5, <1>6 DEF s

LEMMA CompileFailsStep ==
  ASSUME Base, NEW t \in Threads, CompileFails(t)
  PROVE  Base' /\ OthersStay(t) /\ Ended(t, Unguarded(t)) /\ Unguarded(t)' = Unguarded(t)
<1>1. /\ kernels' = kernels /\ modules' = modules /\ pc[t] = "compile"
      /\ kernels' \in [Families -> Kernels \cup {None}]
      /\ modules' \in [Devices -> SUBSET Families]
  BY DEF CompileFails, launcher, Base, TypeOK
<1>2. /\ Finish(t, Unguarded(t))
      /\ UNCHANGED << prepared, kept, incidents, otherContext, profiles, copies, allocated,
                      aborted, launches >>
  BY DEF CompileFails, launcher
<1> QED  BY <1>1, <1>2, EndStep

LEMMA SetupFailsStep ==
  ASSUME Base, NEW t \in Threads, SetupFails(t)
  PROVE  /\ Base' /\ OthersStay(t) /\ Ended(t, Unguarded(t)) /\ Unguarded(t)' = Unguarded(t)
         /\ Family(t) \in Families /\ kernels[Family(t)] \in Kernels
         /\ \A f \in Families \ {Family(t)} : kernels'[f] = kernels[f]
         /\ kernels'[Family(t)].setup = "failed"
         /\ kernels'[Family(t)].setups = kernels[Family(t)].setups
<1> DEFINE g == Family(t)
           k == [[kernels[g] EXCEPT !.setup = "failed"] EXCEPT !.torn = TRUE]
<1>1. pc[t] = "setup" /\ g \in Families /\ kernels[g] \in Kernels
  BY DEF SetupFails, Base, Shape, Family, Families
<1>2. kernels \in [Families -> Kernels \cup {None}]
  BY DEF Base, TypeOK
<1>3. k \in Kernels /\ k.setup = "failed" /\ k.setups = kernels[g].setups
  BY <1>1 DEF Kernels
<1>4. kernels' = [kernels EXCEPT ![g] = k]
  BY <1>1, <1>2 DEF SetupFails
<1>5. /\ Finish(t, Unguarded(t)) /\ modules' = modules /\ modules \in [Devices -> SUBSET Families]
      /\ UNCHANGED << prepared, kept, incidents, otherContext, profiles, copies, allocated,
                      aborted, launches >>
  BY DEF SetupFails, Base, TypeOK
<1> HIDE DEF k, g
<1>6. /\ kernels' \in [Families -> Kernels \cup {None}] /\ kernels'[g] = k
      /\ \A f \in Families \ {g} : kernels'[f] = kernels[f]
  BY <1>1, <1>2, <1>3, <1>4
<1>7. \A f \in Families : kernels[f] \in Kernels => kernels'[f] \in Kernels
  BY <1>3, <1>6
<1>8. Base' /\ OthersStay(t) /\ Ended(t, Unguarded(t)) /\ Unguarded(t)' = Unguarded(t)
  BY <1>1, <1>5, <1>6, <1>7, EndStep
<1> QED  BY <1>1, <1>3, <1>6, <1>8 DEF g

(* The setup callbacks of a kernel have run.                               *)
LEMMA SetUpStep ==
  ASSUME Base, NEW t \in Threads, SetUp(t)
  PROVE  /\ Base' /\ OthersStay(t) /\ Ended(t, Unguarded(t)) /\ Unguarded(t)' = Unguarded(t)
         /\ Family(t) \in Families /\ kernels[Family(t)] \in Kernels
         /\ \A f \in Families \ {Family(t)} : kernels'[f] = kernels[f]
         /\ kernels'[Family(t)].setup = "done"
         /\ kernels'[Family(t)].setups = kernels[Family(t)].setups
         /\ \A d \in Devices : modules'[d] \subseteq modules[d] \cup {Family(t)}
         /\ Execute(t, stack[t], Unguarded(t), kernels'[Family(t)])
<1> DEFINE g == Family(t)
           k == [kernels[g] EXCEPT !.setup = "done"]
           c == Current(t)
<1>1. pc[t] = "setup" /\ g \in Families /\ kernels[g] \in Kernels
  BY DEF SetUp, Base, Shape, Family, Families
<1>2. kernels \in [Families -> Kernels \cup {None}] /\ modules \in [Devices -> SUBSET Families]
  BY DEF Base, TypeOK
<1>3. k \in Kernels /\ k.setup = "done" /\ k.setups = kernels[g].setups
  BY <1>1 DEF Kernels
<1>4. /\ kernels' = [kernels EXCEPT ![g] = k]
      /\ modules' = [modules EXCEPT ![c] = @ \cup {g}]
      /\ Execute(t, stack[t], Unguarded(t), k)
      /\ UNCHANGED << prepared, kept, incidents, otherContext, profiles, copies, allocated,
                      aborted, launches >>
  BY DEF SetUp
<1>5. Finish(t, Unguarded(t))
  BY <1>4 DEF Execute
<1>6. c \in Devices
  <2>1. stack[t] \in Seq(Devices) /\ stack[t] # << >>
    BY <1>1 DEF Base, Shape, TypeOK, ContextTypeOK
  <2> QED  BY <2>1, FrontLast DEF Current
<1> HIDE DEF k, g, c
<1>7. /\ kernels' \in [Families -> Kernels \cup {None}] /\ kernels'[g] = k
      /\ \A f \in Families \ {g} : kernels'[f] = kernels[f]
  BY <1>1, <1>2, <1>3, <1>4
<1>8. /\ modules' \in [Devices -> SUBSET Families]
      /\ \A d \in Devices : modules'[d] \subseteq modules[d] \cup {g}
  BY <1>1, <1>2, <1>4, <1>6
<1>9. \A f \in Families : kernels[f] \in Kernels => kernels'[f] \in Kernels
  BY <1>3, <1>7
<1>10. Base' /\ OthersStay(t) /\ Ended(t, Unguarded(t)) /\ Unguarded(t)' = Unguarded(t)
  BY <1>1, <1>4, <1>5, <1>7, <1>8, <1>9, EndStep
<1> QED  BY <1>1, <1>3, <1>4, <1>7, <1>8, <1>10 DEF g

(* A kernel has been compiled: it is the first and has to be set up, or    *)
(* the first is launched.                                                  *)
LEMMA CompiledStep ==
  ASSUME Base, NEW t \in Threads, Compiled(t)
  PROVE  /\ Base' /\ OthersStay(t) /\ Unguarded(t)' = Unguarded(t)
         /\ Family(t) \in Families /\ modules' = modules
         /\ IF kernels[Family(t)] = None
            THEN /\ \A f \in Families \ {Family(t)} : kernels'[f] = kernels[f]
                 /\ kernels'[Family(t)] \in Kernels /\ kernels'[Family(t)].setups = 1
                 /\ ~kernels'[Family(t)].torn
                 /\ pc'[t] = "setup" /\ loc' = loc /\ ran' = None
            ELSE /\ kernels' = kernels /\ Ended(t, Unguarded(t))
                 /\ Execute(t, stack[t], Unguarded(t), kernels[Family(t)])
<1> DEFINE g == Family(t)
           c == Current(t)
           k == [ctx |-> c, setup |-> "running", torn |-> FALSE, setups |-> 1]
<1>1. /\ pc[t] = "compile" /\ g \in Families /\ loc[t].profile \in Profiles
      /\ stack[t] # << >> /\ stack[t] \in Seq(Devices)
  BY DEF Compiled, Base, TypeOK, ContextTypeOK, Shape, Family, Families
<1>2. /\ kernels \in [Families -> Kernels \cup {None}] /\ modules \in [Devices -> SUBSET Families]
      /\ modules' = modules
  BY DEF Compiled, Kept, Base, TypeOK
<1>3. UNCHANGED << prepared, kept, incidents, otherContext, profiles, copies, allocated,
                   aborted, launches >>
  BY DEF Compiled
<1>4. c \in Devices
  BY <1>1, FrontLast DEF Current
<1>5. k \in Kernels /\ k.setups = 1 /\ ~k.torn
  BY <1>4 DEF Kernels
<1>6. CASE kernels[g] = None
  <2>1. /\ kernels' = [kernels EXCEPT ![g] = k]
        /\ Goto(t, "setup") /\ ran' = None /\ UNCHANGED << stack, free, loc >>
    BY <1>6 DEF Compiled, Emplace
  <2> HIDE DEF k, c, g
  <2>2. /\ kernels' \in [Families -> Kernels \cup {None}] /\ kernels'[g] = k
        /\ \A f \in Families \ {g} : kernels'[f] = kernels[f]
    BY <1>1, <1>2, <1>5, <2>1
  <2>3. \A f \in Families : kernels[f] \in Kernels => kernels'[f] \in Kernels
    BY <1>5, <2>2
  <2>4. /\ pc' \in [Threads -> Places] /\ pc'[t] = "setup"
        /\ \A u \in Threads : u # t => pc'[u] = pc[u]
    BY <2>1 DEF Base, TypeOK, Goto, Places
  <2>5. OthersStay(t)
    BY <2>1, <2>4 DEF OthersStay
  <2>6. TypeOK'
    BY <1>2, <1>3, <2>1, <2>2, <2>4
       DEF Base, TypeOK, ContextTypeOK, otherContext, Places
  <2>7. Shape(t)'
    BY <1>1, <1>5, <2>1, <2>2, <2>4 DEF Base, Shape, Family, g
  <2>8. HelpersOwn'
    BY <1>1, <2>1, <2>4, <2>5, HelperKept
  <2>9. Base'
    BY <2>3, <2>5, <2>6, <2>7, <2>8, BaseStep
  <2>10. Unguarded(t)' = Unguarded(t)
    BY <2>1 DEF Unguarded
  <2> QED  BY <1>1, <1>2, <1>5, <1>6, <2>1, <2>2, <2>4, <2>5, <2>9, <2>10 DEF g
<1>7. CASE kernels[g] # None
  <2>1. /\ kernels' = [kernels EXCEPT ![g] = kernels[g]]
        /\ Execute(t, stack[t], Unguarded(t), kernels[g])
    BY <1>7 DEF Compiled, Emplace
  <2> HIDE DEF k, c, g
  <2>2. kernels' = kernels
    BY <1>1, <1>2, <2>1
  <2>3. Finish(t, Unguarded(t))
    BY <2>1 DEF Execute
  <2>4. Base' /\ OthersStay(t) /\ Ended(t, Unguarded(t)) /\ Unguarded(t)' = Unguarded(t)
    BY <1>1, <1>2, <1>3, <2>2, <2>3, EndStep
  <2> QED  BY <1>1, <1>2, <1>7, <2>1, <2>2, <2>4 DEF g
<1> QED  BY <1>6, <1>7

(* The kernel is looked up in the context of the arrays.                   *)
LEMMA SwitchStep ==
  ASSUME Base, NEW t \in Threads, Switch(t)
  PROVE  /\ Base' /\ OthersStay(t) /\ Unguarded(t)' = Unguarded(t)
         /\ pc[t] = "context" /\ (\A u \in Threads : u # t => loc'[u] = loc[u])
         /\ pc'[t] \in {"idle", "compile"}
         /\ \E s, left \in Seq(Devices) :
              /\ loc[t].array # None => Last(s) = loc[t].array
              /\ IF kernels[Family(t)] # None
                 THEN Execute(t, s, left, kernels[Family(t)])
                 ELSE ran' = None
<1> DEFINE a == loc[t].array
<1>1. /\ pc[t] = "context" /\ a # None
      /\ UNCHANGED << prepared, kept, incidents, blocks, strayed, profiles, kernels, modules,
                      copies, allocated, aborted, launches >>
  BY DEF Switch, otherContext, launcher
<1>2. loc[t] \in Locals /\ stack[t] \in Seq(Devices)
  BY DEF Base, TypeOK, ContextTypeOK, Locals
<1>3. a \in Devices
  BY <1>1, <1>2 DEF Locals
<1>4. Unguarded(t) = stack[t]
  BY <1>1, UnguardedType
<1>5. PICK s \in Seq(Devices) :
         /\ s # << >> /\ Last(s) = a /\ Lookup(t, s, stack[t])
         /\ IF s = stack[t] THEN TRUE ELSE Front(s) = stack[t]
  <2>1. CASE stack[t] # << >> /\ Current(t) = a
    <3>1. Lookup(t, stack[t], stack[t])
      BY <2>1 DEF Switch
    <3> QED  BY <1>2, <2>1, <3>1 DEF Current
  <2>2. CASE ~(stack[t] # << >> /\ Current(t) = a)
    <3>1. Lookup(t, Append(stack[t], a), stack[t])
      BY <2>2 DEF Switch
    <3>2. /\ Append(stack[t], a) \in Seq(Devices) /\ Append(stack[t], a) # << >>
          /\ Front(Append(stack[t], a)) = stack[t] /\ Last(Append(stack[t], a)) = a
      BY <1>2, <1>3, FrontAppend
    <3> QED  BY <3>1, <3>2
  <2> QED  BY <2>1, <2>2
<1> DEFINE left == stack[t]
<1>6. left \in Seq(Devices) /\ Lookup(t, s, left)
  BY <1>2, <1>5
<1> HIDE DEF left
<1>7. /\ pc' \in [Threads -> Places] /\ loc' \in [Threads -> Locals]
      /\ stack' \in [Threads -> Seq(Devices)] /\ free' \in Seq(Helpers)
      /\ OthersStay(t) /\ HelpersOwn' /\ Shape(t)'
      /\ \A u \in Threads : u # t => loc'[u] = loc[u]
      /\ IF kernels[Family(t)] # None
         THEN Ended(t, left) /\ Execute(t, s, left, kernels[Family(t)])
         ELSE Searching(t, s, left) /\ ran' = None
  BY <1>1, <1>5, <1>6, LookupStep
<1>8. TypeOK'
  BY <1>1, <1>7 DEF Base, TypeOK, ContextTypeOK, Places, Locals
<1>9. Base'
  BY <1>1, <1>7, <1>8, BaseStep
<1>10. Unguarded(t)' = left
  <2>1. CASE Ended(t, left)
    BY <2>1, UnguardedEnded
  <2>2. CASE Searching(t, s, left)
    BY <1>5, <2>2 DEF Searching, Unguarded, left
  <2> QED  BY <1>7, <2>1, <2>2
<1>11. pc'[t] \in {"idle", "compile"}
  BY <1>7 DEF Ended, Searching
<1> QED  BY <1>1, <1>4, <1>5, <1>6, <1>7, <1>9, <1>10, <1>11 DEF left

(* The kernel is looked up in the current context, or in that of device 0, *)
(* which is then kept; or there is an error.                               *)
LEMMA EnsureStep ==
  ASSUME Base, NEW t \in Threads, Ensure(t)
  PROVE  /\ Base' /\ OthersStay(t) /\ Unguarded(t)' = WithContext(t)
         /\ kept' = [kept EXCEPT ![t] = IF stack[t] = << >> THEN << 0 >> ELSE @]
         /\ Unguarded(t) = stack[t]
         /\ pc[t] = "context" /\ (\A u \in Threads : u # t => loc'[u] = loc[u])
         /\ pc'[t] \in {"idle", "compile"}
         /\ \E s, left \in Seq(Devices) :
              /\ loc[t].array # None => Last(s) = loc[t].array
              /\ \/ /\ kernels[Family(t)] # None
                    /\ Execute(t, s, left, kernels[Family(t)])
                 \/ ran' = None
<1> DEFINE s == WithContext(t)
<1>1. /\ pc[t] = "context" /\ loc[t].array = None /\ KeepDefault(t)
      /\ UNCHANGED << blocks, strayed, profiles, kernels, modules,
                      copies, allocated, aborted, launches >>
  BY DEF Ensure, otherContext, launcher
<1>2. /\ stack[t] \in Seq(Devices) /\ << 0 >> \in Seq(Devices) /\ << 0 >> # << >>
      /\ kept \in [Threads -> Seq(Devices)]
  <2>1. 0 \in Devices
    BY ContextAssumption
  <2> QED  BY <2>1 DEF Base, TypeOK, ContextTypeOK
<1>3. s \in Seq(Devices) /\ s # << >>
  BY <1>2 DEF WithContext
<1>4. Last(s) \in Devices
  BY <1>3, FrontLast
<1>5. Unguarded(t) = stack[t]
  BY <1>1, UnguardedType
<1>6. kept' = [kept EXCEPT ![t] = IF stack[t] = << >> THEN << 0 >> ELSE @]
  BY <1>1 DEF KeepDefault
<1>7. kept' \in [Threads -> Seq(Devices)]
  BY <1>2, <1>6
<1>8. PICK ok \in BOOLEAN :
        /\ Prepare(Last(s), ok)
        /\ IF ok THEN Lookup(t, s, s) /\ UNCHANGED incidents
           ELSE Finish(t, s) /\ ran' = None /\ Incident
  BY DEF Ensure
<1>9. prepared' \in SUBSET Devices
  BY <1>4, <1>8 DEF Prepare, Base, TypeOK, ContextTypeOK
<1>10. incidents \in Nat /\ incidents' \in {incidents, incidents + 1}
  BY <1>8 DEF Incident, Base, TypeOK, ContextTypeOK
<1>11. incidents' \in Nat
  BY <1>10
<1> HIDE DEF s
<1>12. /\ pc' \in [Threads -> Places] /\ loc' \in [Threads -> Locals]
       /\ stack' \in [Threads -> Seq(Devices)] /\ free' \in Seq(Helpers)
       /\ OthersStay(t) /\ HelpersOwn' /\ Shape(t)'
       /\ \A u \in Threads : u # t => loc'[u] = loc[u]
       /\ \/ Ended(t, s)
          \/ Searching(t, s, s)
       /\ \/ kernels[Family(t)] # None /\ Execute(t, s, s, kernels[Family(t)])
          \/ ran' = None
  <2>1. CASE ok
    <3>1. Lookup(t, s, s)
      BY <1>8, <2>1
    <3> QED  BY <1>1, <1>3, <3>1, LookupStep
  <2>2. CASE ~ok
    <3>1. Finish(t, s) /\ ran' = None /\ pc[t] # "idle"
      BY <1>1, <1>8, <2>2
    <3> QED  BY <1>3, <3>1, FinishStep
  <2> QED  BY <2>1, <2>2
<1>13. TypeOK'
  BY <1>1, <1>7, <1>9, <1>11, <1>12 DEF Base, TypeOK, ContextTypeOK, Places, Locals
<1>14. Base'
  BY <1>1, <1>12, <1>13, BaseStep
<1>15. Unguarded(t)' = s
  <2>1. CASE Ended(t, s)
    BY <2>1, UnguardedEnded
  <2>2. CASE Searching(t, s, s)
    BY <2>2 DEF Searching, Unguarded
  <2> QED  BY <1>12, <2>1, <2>2
<1>16. pc'[t] \in {"idle", "compile"}
  BY <1>12 DEF Ended, Searching
<1>17. /\ s \in Seq(Devices)
       /\ loc[t].array # None => Last(s) = loc[t].array
       /\ \/ /\ kernels[Family(t)] # None
             /\ Execute(t, s, s, kernels[Family(t)])
          \/ ran' = None
  BY <1>1, <1>3, <1>12
<1>18. s = WithContext(t)
  BY DEF s
<1> QED  BY <1>1, <1>5, <1>6, <1>12, <1>14, <1>15, <1>16, <1>17, <1>18

(* Outside launches only contexts change.                                  *)
LEMMA ContextStepStep ==
  ASSUME Base, NEW t \in Threads, ContextStep(t)
  PROVE  /\ Base' /\ pc[t] = "idle" /\ UNCHANGED << launcher, free, pc, loc >> /\ ran' = None
         /\ \A u \in Threads : u # t => stack'[u] = stack[u]
<1>1. /\ pc[t] = "idle" /\ UNCHANGED << launcher, free, pc, loc >> /\ ran' = None
      /\ SelectDevice(t) \/ EnterBlock(t) \/ ExitBlock(t)
  BY DEF ContextStep
<1>2. /\ stack \in [Threads -> Seq(Devices)] /\ blocks \in [Threads -> Seq(Devices)]
      /\ kept \in [Threads -> Seq(Devices)]
      /\ prepared \in SUBSET Devices /\ strayed \in SUBSET Threads
      /\ incidents \in Nat /\ incidents + 1 \in Nat
  BY DEF Base, TypeOK, ContextTypeOK
<1>3. ASSUME NEW d \in Devices, NEW ok \in BOOLEAN, Activate(t, d, ok)
      PROVE  /\ stack' \in [Threads -> Seq(Devices)] /\ prepared' \in SUBSET Devices
             /\ \A u \in Threads : u # t => stack'[u] = stack[u]
  BY <1>2, <1>3 DEF Activate, Prepare
<1>4. /\ stack' \in [Threads -> Seq(Devices)] /\ ContextTypeOK'
      /\ \A u \in Threads : u # t => stack'[u] = stack[u]
  <2>1. CASE SelectDevice(t)
    <3>1. PICK d \in Devices, ok \in BOOLEAN :
            Activate(t, d, ok) /\ kept' = [kept EXCEPT ![t] = Append(@, d)]
      BY <2>1 DEF SelectDevice
    <3>2. kept' \in [Threads -> Seq(Devices)]
      BY <1>2, <3>1
    <3> QED  BY <1>2, <1>3, <2>1, <3>1, <3>2 DEF SelectDevice, Incident, ContextTypeOK
  <2>2. CASE EnterBlock(t)
    <3>1. PICK d \in Devices, ok \in BOOLEAN :
         /\ Activate(t, d, ok)
         /\ IF ok
            THEN blocks' = [blocks EXCEPT ![t] = Append(@, d)] /\ UNCHANGED << strayed, incidents >>
            ELSE strayed' = strayed \cup {t} /\ Incident /\ UNCHANGED blocks
      BY <2>2 DEF EnterBlock
    <3>2. blocks' \in [Threads -> Seq(Devices)] /\ strayed' \in SUBSET Threads /\ incidents' \in Nat
      <4>1. CASE ok
        <5>1. blocks' = [blocks EXCEPT ![t] = Append(@, d)] /\ UNCHANGED << strayed, incidents >>
          BY <3>1, <4>1
        <5>2. blocks' \in [Threads -> Seq(Devices)]
          BY <1>2, <5>1
        <5> QED  BY <1>2, <5>1, <5>2
      <4>2. CASE ~ok
        BY <1>2, <3>1, <4>2 DEF Incident
      <4> QED  BY <4>1, <4>2
    <3> QED  BY <1>2, <1>3, <2>2, <3>1, <3>2 DEF EnterBlock, ContextTypeOK
  <2>3. CASE ExitBlock(t)
    <3>1. /\ Front(blocks[t]) \in Seq(Devices) /\ Front(stack[t]) \in Seq(Devices)
      BY <1>2, FrontType
    <3> QED  BY <1>2, <2>3, <3>1 DEF ExitBlock, ContextTypeOK
  <2> QED  BY <1>1, <2>1, <2>2, <2>3
<1>5. TypeOK'
  BY <1>1, <1>4 DEF Base, TypeOK, launcher
<1>6. HelpersOwn'
  BY <1>1 DEF Base, HelpersOwn
<1>7. ASSUME NEW u \in Threads
      PROVE  Shape(u)'
  <2>1. CASE u = t
    BY <1>1, <2>1 DEF Base, Shape, Family, launcher
  <2>2. CASE u # t
    BY <1>1, <1>4, <2>2 DEF Base, Shape, Family, launcher
  <2> QED  BY <2>1, <2>2
<1> QED  BY <1>1, <1>4, <1>5, <1>6, <1>7 DEF Base

(* The teardown callbacks of what was loaded in the context run.           *)
LEMMA ResetContextStep ==
  ASSUME Base, NEW t \in Threads, ResetContext(t),
         \A d \in Devices : \A f \in modules[d] : kernels[f] \in Kernels
  PROVE  /\ Base' /\ UNCHANGED << stack, kept, blocks, strayed, profiles, copies, allocated,
                                  pc, loc, aborted >> /\ ran' = None
         /\ \A f \in Families :
              \/ kernels'[f] = kernels[f]
              \/ /\ kernels[f] \in Kernels /\ kernels'[f] \in Kernels
                 /\ kernels'[f].setup = kernels[f].setup /\ kernels'[f].setups = kernels[f].setups
                 /\ \E d \in Devices : f \in modules[d]
         /\ \A d \in Devices : modules'[d] \subseteq modules[d]
<1>1. /\ pc[t] = "idle" /\ stack[t] # << >> /\ ran' = None
      /\ incidents' = incidents + 1 /\ incidents \in Nat
      /\ UNCHANGED << stack, prepared, kept, blocks, strayed, profiles, free, copies, allocated,
                      pc, loc, aborted, launches >>
  BY DEF ResetContext, Incident, otherContext, Base, TypeOK, ContextTypeOK
<1> DEFINE c == Current(t)
           torn(f) == [kernels[f] EXCEPT !.torn = TRUE]
<1>2. c \in Devices
  BY <1>1, FrontLast DEF Current, Base, TypeOK, ContextTypeOK
<1>3. /\ modules' = [modules EXCEPT ![c] = {}]
      /\ kernels' = [f \in Families |-> IF f \in modules[c] THEN torn(f) ELSE kernels[f]]
  BY DEF ResetContext
<1>4. \A f \in modules[c] : /\ kernels[f] \in Kernels /\ torn(f) \in Kernels
                            /\ torn(f).setup = kernels[f].setup
                            /\ torn(f).setups = kernels[f].setups
  BY <1>2 DEF Kernels
<1> HIDE DEF c, torn
<1>5. /\ modules' \in [Devices -> SUBSET Families]
      /\ \A d \in Devices : modules'[d] \subseteq modules[d]
  BY <1>2, <1>3 DEF Base, TypeOK
<1>6. kernels \in [Families -> Kernels \cup {None}]
  BY DEF Base, TypeOK
<1>7. /\ kernels' \in [Families -> Kernels \cup {None}]
      /\ \A f \in Families : kernels[f] \in Kernels => kernels'[f] \in Kernels
  BY <1>3, <1>4, <1>6
<1>8. incidents' \in Nat
  BY <1>1
<1>9. TypeOK'
  BY <1>1, <1>5, <1>7, <1>8 DEF Base, TypeOK, ContextTypeOK
<1>10. HelpersOwn'
  BY <1>1 DEF Base, HelpersOwn
<1>11. ASSUME NEW u \in Threads
       PROVE  Shape(u)'
  <2>1. loc[u].profile \in Profiles => Family(u) \in Families
    BY DEF Family, Families
  <2> QED  BY <1>1, <1>7, <2>1 DEF Base, Shape, Family
<1>12. \A f \in Families :
              \/ kernels'[f] = kernels[f]
              \/ /\ kernels[f] \in Kernels /\ kernels'[f] \in Kernels
                 /\ kernels'[f].setup = kernels[f].setup /\ kernels'[f].setups = kernels[f].setups
                 /\ \E d \in Devices : f \in modules[d]
  BY <1>2, <1>3, <1>4
<1> QED  BY <1>1, <1>5, <1>9, <1>10, <1>11, <1>12 DEF Base

-----------------------------------------------------------------------------
(* The invariant                                                           *)

(* When the guards of the launches in flight are undone, the stacks are    *)
(* what the threads have pushed themselves.                                *)
StackInv == \A t \in Threads : t \in strayed \/ Unguarded(t) = kept[t] \o blocks[t]

(* Somebody runs the setup callbacks of a kernel that is being set up; a   *)
(* context keeps the reference of a kernel only when they have run.        *)
KernelInv ==
    /\ \A f \in Families : kernels[f] # None =>
         /\ kernels[f].setups = 1
         /\ kernels[f].setup = "running" => \E u \in Threads : pc[u] = "setup" /\ Family(u) = f
         /\ kernels[f].torn => kernels[f].setup # "running"
    /\ \A d \in Devices : \A f \in modules[d] :
         kernels[f] # None /\ kernels[f].setup # "running"

(* A profile that is being classified is a new one, unless another launch  *)
(* classified it meanwhile.                                                *)
ProfileInv ==
    /\ \A t \in Threads : pc[t] = "classify" =>
         /\ loc[t].profile \in ByPython
         /\ loc[t].profile \in profiles => loc[t].raced
    /\ \A t, u \in Threads :
         t # u /\ pc[t] = "classify" /\ pc[u] = "classify" /\ loc[t].profile = loc[u].profile =>
           loc[t].raced
    /\ AbortIsEarned

(* What the last step launched.                                            *)
RanInv == RunsWithItsArrays /\ SetupFirst

Inv == Base /\ CopiesInv /\ StackInv /\ KernelInv /\ ProfileInv /\ RanInv

LEMMA InvInit == Init => Inv
<1> SUFFICES ASSUME Init PROVE Inv
  OBVIOUS
<1>1. CopiesInv
  BY DEF Init, CopiesInv, CopiesOwned
<1>2. StackInv
  <2>1. \A t \in Threads : Unguarded(t) = << >> /\ kept[t] = << >> /\ blocks[t] = << >>
    BY NoLocalsType DEF Init, ContextInit, Unguarded
  <2>2. << >> \o << >> = << >>
    OBVIOUS
  <2> QED  BY <2>1, <2>2 DEF StackInv
<1>3. KernelInv
  BY DEF Init, KernelInv
<1>4. ProfileInv
  BY DEF Init, ProfileInv, AbortIsEarned
<1>5. RanInv
  BY DEF Init, RanInv, RunsWithItsArrays, SetupFirst
<1> QED  BY <1>1, <1>2, <1>3, <1>4, <1>5, BaseInit DEF Inv

(* A launch goes on, and what its guard restores is as it was.             *)
LEMMA StackKept ==
  ASSUME Inv, NEW t \in Threads, OthersStay(t), UNCHANGED << kept, blocks, strayed >>,
         Unguarded(t)' = Unguarded(t)
  PROVE  StackInv'
<1>1. ASSUME NEW u \in Threads
      PROVE  Unguarded(u)' = Unguarded(u)
  <2>1. CASE u = t
    BY <2>1
  <2>2. CASE u # t
    BY <2>2 DEF OthersStay, Unguarded
  <2> QED  BY <2>1, <2>2
<1> QED  BY <1>1 DEF Inv, StackInv

LEMMA KernelKept ==
  ASSUME Inv, NEW t \in Threads, OthersStay(t), UNCHANGED << kernels, modules >>,
         pc[t] # "setup"
  PROVE  KernelInv'
BY DEF Inv, KernelInv, OthersStay, Family

(* The kernel g of t's family changes.                                     *)
LEMMA KernelMoved ==
  ASSUME Inv, NEW t \in Threads, OthersStay(t), Family(t) \in Families,
         \A f \in Families \ {Family(t)} : kernels'[f] = kernels[f],
         \A d \in Devices : modules'[d] \subseteq modules[d] \cup {Family(t)},
         modules' \in [Devices -> SUBSET Families],
         kernels'[Family(t)] \in Kernels, kernels'[Family(t)].setups = 1,
         \/ kernels'[Family(t)].setup # "running"
         \/ /\ pc'[t] = "setup" /\ loc' = loc /\ ~kernels'[Family(t)].torn
            /\ \A d \in Devices : Family(t) \notin modules'[d]
  PROVE  KernelInv'
<1> DEFINE g == Family(t)
<1>1. kernels'[g] # None
  BY KernelAssumption
<1>2. loc' = loc => Family(t)' = g
  BY DEF Family
<1> HIDE DEF g
<1>3. ASSUME NEW f \in Families, kernels'[f] # None
      PROVE  /\ kernels'[f].setups = 1
             /\ kernels'[f].setup = "running" => \E u \in Threads : pc'[u] = "setup" /\ Family(u)' = f
             /\ kernels'[f].torn => kernels'[f].setup # "running"
  <2>1. CASE f = g
    BY <1>2, <2>1 DEF g
  <2>2. CASE f # g
    <3>1. kernels'[f] = kernels[f]
      BY <2>2 DEF g
    <3>2. ASSUME kernels[f].setup = "running"
          PROVE  \E u \in Threads : pc'[u] = "setup" /\ Family(u)' = f
      <4>1. PICK u \in Threads : pc[u] = "setup" /\ Family(u) = f
        BY <1>3, <3>1, <3>2 DEF Inv, KernelInv
      <4>2. u # t
        BY <2>2, <4>1 DEF g
      <4>3. pc'[u] = "setup" /\ Family(u)' = f
        BY <4>1, <4>2 DEF OthersStay, Family
      <4> QED  BY <4>3
    <3> QED  BY <1>3, <3>1, <3>2 DEF Inv, KernelInv
  <2> QED  BY <2>1, <2>2
<1>4. ASSUME NEW d \in Devices, NEW f \in modules'[d]
      PROVE  kernels'[f] # None /\ kernels'[f].setup # "running"
  <2>1. CASE f = g
    BY <1>1, <1>4, <2>1 DEF g
  <2>2. CASE f # g
    <3>1. f \in modules[d] /\ f \in Families
      BY <1>4, <2>2 DEF g
    <3>2. kernels'[f] = kernels[f]
      BY <2>2, <3>1 DEF g
    <3> QED  BY <3>1, <3>2 DEF Inv, KernelInv
  <2> QED  BY <2>1, <2>2
<1> QED  BY <1>3, <1>4 DEF KernelInv

(* A launch goes on, and no profile is inserted.                           *)
LEMMA ProfileKept ==
  ASSUME Inv, ~aborted, NEW t \in Threads, OthersStay(t), UNCHANGED << profiles, aborted >>,
         pc'[t] # "classify"
  PROVE  ProfileInv'
BY DEF Inv, ProfileInv, AbortIsEarned, OthersStay

(* A kernel that is launched has been set up, or is being set up by        *)
(* another launch, and runs with its arrays.                               *)
LEMMA RanKept ==
  ASSUME Inv, NEW t \in Threads, NEW s, NEW left, NEW k, Execute(t, s, left, k),
         loc[t].array # None => Last(s) = loc[t].array,
         \/ k.setup # "running"
         \/ /\ pc[t] # "setup" /\ Family(t) \in Families
            /\ k = kernels[Family(t)] /\ kernels[Family(t)] # None
  PROVE  RanInv'
<1> DEFINE overlap == \E u \in Threads \ {t} : pc[u] = "setup" /\ Family(u) = Family(t)
<1>1. /\ ran'.on = RunsOn(t, s, k) /\ ran'.array = loc[t].array /\ ran'.setup = k.setup
      /\ ran'.overlap = overlap
  BY DEF Execute
<1>2. ran'.array # None => ran'.on = ran'.array
  BY <1>1 DEF RunsOn
<1>3. k.setup # "running" \/ overlap
  <2>1. SUFFICES ASSUME k.setup = "running" PROVE overlap
    OBVIOUS
  <2>2. PICK u \in Threads : pc[u] = "setup" /\ Family(u) = Family(t)
    BY <2>1 DEF Inv, KernelInv
  <2>3. u # t
    BY <2>1, <2>2
  <2> QED  BY <2>2, <2>3
<1> HIDE DEF overlap
<1>4. ran'.setup # "running" \/ ran'.overlap
  BY <1>1, <1>3
<1> QED  BY <1>2, <1>4 DEF RanInv, RunsWithItsArrays, SetupFirst

LEMMA RanNothing == ASSUME ran' = None PROVE RanInv'
BY DEF RanInv, RunsWithItsArrays, SetupFirst

LEMMA CopiesKept == ASSUME Inv, UNCHANGED << copies, allocated >> PROVE CopiesInv'
BY DEF Inv, CopiesInv, CopiesOwned

(* A launch begins: it races with those that classify the same types.      *)
LEMMA BeginInv == ASSUME Inv, ~aborted, NEW t \in Threads, Begin(t) PROVE Inv'
<1>1. /\ Base' /\ OthersStay(t) /\ pc[t] = "idle"
      /\ pc'[t] \in {"extract", "classify"} /\ loc'[t].guard = FALSE
      /\ loc'[t].profile \in Profiles
      /\ \A u \in Threads \ {t} : pc[u] = "classify" /\ loc[u].profile = loc'[t].profile =>
           loc'[u].raced /\ loc'[t].raced
      /\ IF loc'[t].profile \in profiles \/ loc'[t].profile \notin ByPython
         THEN pc'[t] = "extract" /\ profiles' = profiles \cup {loc'[t].profile}
         ELSE pc'[t] = "classify" /\ profiles' = profiles
  BY BeginStep DEF Inv
<1>2. /\ UNCHANGED << copies, allocated, kernels, modules, aborted, stack, kept, blocks, strayed >>
      /\ ran' = None
  BY DEF Begin, contextVars
<1>3. Unguarded(t) = stack[t] /\ Unguarded(t)' = stack[t]
  BY <1>1, <1>2, UnguardedType DEF Inv, Unguarded
<1>4. ProfileInv'
  <2>1. ASSUME NEW u \in Threads, pc'[u] = "classify"
        PROVE  /\ loc'[u].profile \in ByPython
               /\ loc'[u].profile \in profiles' => loc'[u].raced
    <3>1. CASE u = t
      BY <1>1, <2>1, <3>1
    <3>2. CASE u # t
      <4>1. /\ pc[u] = "classify" /\ loc'[u].profile = loc[u].profile
            /\ loc[u].profile \in ByPython
            /\ loc[u].profile \in profiles => loc[u].raced
            /\ loc[u].raced => loc'[u].raced
        BY <1>1, <2>1, <3>2 DEF OthersStay, Inv, ProfileInv
      <4>2. loc[u].profile = loc'[t].profile => loc'[u].raced
        BY <1>1, <3>2, <4>1
      <4> QED  BY <1>1, <4>1, <4>2
    <3> QED  BY <3>1, <3>2
  <2>2. ASSUME NEW u \in Threads, NEW v \in Threads, u # v, pc'[u] = "classify",
               pc'[v] = "classify", loc'[u].profile = loc'[v].profile
        PROVE  loc'[u].raced
    <3>1. CASE u # t /\ v # t
      BY <1>1, <2>2, <3>1 DEF OthersStay, Inv, ProfileInv
    <3>2. CASE u = t \/ v = t
      BY <1>1, <2>2, <3>2 DEF OthersStay
    <3> QED  BY <3>1, <3>2
  <2>3. AbortIsEarned'
    BY <1>2 DEF AbortIsEarned
  <2> QED  BY <2>1, <2>2, <2>3 DEF ProfileInv
<1>5. StackInv'
  BY <1>1, <1>2, <1>3, StackKept
<1>6. KernelInv'
  BY <1>1, <1>2, KernelKept
<1> QED  BY <1>1, <1>2, <1>4, <1>5, <1>6, CopiesKept, RanNothing DEF Inv

(* The profile is inserted; if it is there already, the launches raced.    *)
LEMMA ClassifiedInv == ASSUME Inv, ~aborted, NEW t \in Threads, Classified(t) PROVE Inv'
<1>1. Base' /\ OthersStay(t) /\ pc'[t] = "extract" /\ loc' = loc /\ stack' = stack
  BY ClassifiedStep DEF Inv
<1>2. /\ UNCHANGED << copies, allocated, kernels, modules, kept, blocks, strayed >>
      /\ ran' = None /\ pc[t] = "classify" /\ profiles' = profiles \cup {loc[t].profile}
      /\ aborted' = (loc[t].profile \in profiles)
  BY DEF Classified, contextVars
<1>3. Unguarded(t)' = Unguarded(t)
  BY <1>1 DEF Unguarded
<1>4. ProfileInv'
  <2>1. ASSUME NEW u \in Threads, pc'[u] = "classify"
        PROVE  /\ loc[u].profile \in ByPython
               /\ loc[u].profile \in profiles' => loc[u].raced
    <3>1. u # t /\ pc[u] = "classify"
      BY <1>1, <2>1 DEF OthersStay
    <3> QED  BY <1>2, <3>1 DEF Inv, ProfileInv
  <2>2. ASSUME NEW u \in Threads, NEW v \in Threads, u # v, pc'[u] = "classify",
               pc'[v] = "classify", loc[u].profile = loc[v].profile
        PROVE  loc[u].raced
    BY <1>1, <2>2 DEF OthersStay, Inv, ProfileInv
  <2>3. AbortIsEarned'
    BY <1>1, <1>2 DEF AbortIsEarned, Inv, ProfileInv
  <2> QED  BY <1>1, <2>1, <2>2, <2>3 DEF ProfileInv
<1>5. StackInv'
  BY <1>1, <1>2, <1>3, StackKept
<1>6. KernelInv'
  BY <1>1, <1>2, KernelKept
<1> QED  BY <1>1, <1>2, <1>4, <1>5, <1>6, CopiesKept, RanNothing DEF Inv

LEMMA ExtractInv == ASSUME Inv, ~aborted, NEW t \in Threads, Extract(t) PROVE Inv'
<1>1. /\ Base' /\ OthersStay(t) /\ stack' = stack
      /\ \/ Ended(t, stack[t])
         \/ pc'[t] = "context" /\ loc'[t].guard = loc[t].guard
  BY ExtractStep DEF Inv
<1>2. /\ UNCHANGED << profiles, kernels, modules, aborted, kept, blocks, strayed >>
      /\ ran' = None /\ pc[t] = "extract"
  BY DEF Extract, otherContext
<1>3. CopiesInv'
  BY ExtractCopies DEF Inv
<1>4. Unguarded(t) = stack[t]
  BY <1>2, UnguardedType DEF Inv
<1>5. Unguarded(t)' = stack[t]
  <2>1. CASE Ended(t, stack[t])
    <3> DEFINE s == stack[t]
    <3>1. Ended(t, s)
      BY <2>1
    <3> HIDE DEF s
    <3>2. Unguarded(t)' = s
      BY <3>1, UnguardedEnded
    <3> QED  BY <3>2 DEF s
  <2>2. CASE pc'[t] = "context" /\ loc'[t].guard = loc[t].guard
    BY <1>1, <1>4, <2>2 DEF Unguarded
  <2> QED  BY <1>1, <2>1, <2>2
<1>6. pc'[t] # "classify"
  BY <1>1 DEF Ended
<1>7. ProfileInv'
  BY <1>1, <1>2, <1>6, ProfileKept
<1>8. StackInv'
  BY <1>1, <1>2, <1>4, <1>5, StackKept
<1>9. KernelInv'
  BY <1>1, <1>2, KernelKept
<1> QED  BY <1>1, <1>2, <1>3, <1>7, <1>8, <1>9, RanNothing DEF Inv

(* The context of device 0 is kept only where there was none.              *)
LEMMA EnsureInv == ASSUME Inv, ~aborted, NEW t \in Threads, Ensure(t) PROVE Inv'
<1>1. /\ Base' /\ OthersStay(t) /\ Unguarded(t)' = WithContext(t)
      /\ kept' = [kept EXCEPT ![t] = IF stack[t] = << >> THEN << 0 >> ELSE @]
      /\ Unguarded(t) = stack[t] /\ pc[t] = "context" /\ pc'[t] \in {"idle", "compile"}
  BY EnsureStep DEF Inv
<1>2. /\ UNCHANGED << profiles, kernels, modules, aborted, blocks, strayed, copies, allocated >>
  BY DEF Ensure, otherContext, launcher
<1>3. PICK s \in Seq(Devices), left \in Seq(Devices) :
         /\ loc[t].array # None => Last(s) = loc[t].array
         /\ \/ /\ kernels[Family(t)] # None
               /\ Execute(t, s, left, kernels[Family(t)])
            \/ ran' = None
  BY EnsureStep DEF Inv
<1>4. RanInv'
  <2>1. Family(t) \in Families /\ pc[t] # "setup"
    BY <1>1 DEF Inv, Base, Shape, Family, Families
  <2> QED  BY <1>3, <2>1, RanKept, RanNothing
<1>5. StackInv'
  <2>1. kept \in [Threads -> Seq(Devices)] /\ blocks \in [Threads -> Seq(Devices)]
    BY DEF Inv, Base, TypeOK, ContextTypeOK
  <2> SUFFICES ASSUME NEW u \in Threads, u \notin strayed
               PROVE  Unguarded(u)' = kept'[u] \o blocks[u]
    BY <1>2 DEF StackInv
  <2>2. Unguarded(u) = kept[u] \o blocks[u]
    BY DEF Inv, StackInv
  <2>3. CASE u # t
    <3>1. Unguarded(u)' = Unguarded(u) /\ kept'[u] = kept[u]
      BY <1>1, <2>1, <2>3 DEF OthersStay, Unguarded
    <3> QED  BY <2>2, <3>1
  <2>4. CASE u = t /\ stack[t] # << >>
    <3>1. Unguarded(u)' = Unguarded(u) /\ kept'[u] = kept[u]
      BY <1>1, <2>1, <2>4 DEF WithContext
    <3> QED  BY <2>2, <3>1
  <2>5. CASE u = t /\ stack[t] = << >>
    <3>1. kept[t] \o blocks[t] = << >>
      BY <1>1, <2>2, <2>5
    <3>2. blocks[t] = << >>
      BY <2>1, <3>1, ConcatEqualIffEmpty
    <3>3. Unguarded(t)' = << 0 >> /\ kept'[t] = << 0 >>
      BY <1>1, <2>1, <2>5 DEF WithContext
    <3>4. << 0 >> \o << >> = << 0 >>
      OBVIOUS
    <3> QED  BY <2>5, <3>2, <3>3, <3>4
  <2> QED  BY <2>3, <2>4, <2>5
<1>6. ProfileInv'
  BY <1>1, <1>2, ProfileKept
<1>7. KernelInv'
  BY <1>1, <1>2, KernelKept
<1> QED  BY <1>1, <1>2, <1>4, <1>5, <1>6, <1>7, CopiesKept DEF Inv

LEMMA SwitchInv == ASSUME Inv, ~aborted, NEW t \in Threads, Switch(t) PROVE Inv'
<1>1. /\ Base' /\ OthersStay(t) /\ Unguarded(t)' = Unguarded(t)
      /\ pc[t] = "context" /\ pc'[t] \in {"idle", "compile"}
  BY SwitchStep DEF Inv
<1>2. /\ UNCHANGED << profiles, kernels, modules, aborted, kept, blocks, strayed, copies,
                      allocated >>
  BY DEF Switch, otherContext, launcher
<1>3. PICK s \in Seq(Devices), left \in Seq(Devices) :
         /\ loc[t].array # None => Last(s) = loc[t].array
         /\ IF kernels[Family(t)] # None
            THEN Execute(t, s, left, kernels[Family(t)])
            ELSE ran' = None
  BY SwitchStep DEF Inv
<1>4. RanInv'
  <2>1. Family(t) \in Families /\ pc[t] # "setup"
    BY <1>1 DEF Inv, Base, Shape, Family, Families
  <2> QED  BY <1>3, <2>1, RanKept, RanNothing
<1>5. StackInv'
  BY <1>1, <1>2, StackKept
<1>6. ProfileInv'
  BY <1>1, <1>2, ProfileKept
<1>7. KernelInv'
  BY <1>1, <1>2, KernelKept
<1> QED  BY <1>1, <1>2, <1>4, <1>5, <1>6, <1>7, CopiesKept DEF Inv

LEMMA CompileFailsInv == ASSUME Inv, ~aborted, NEW t \in Threads, CompileFails(t) PROVE Inv'
<1>1. /\ Base' /\ OthersStay(t) /\ Ended(t, Unguarded(t)) /\ Unguarded(t)' = Unguarded(t)
  BY CompileFailsStep DEF Inv
<1>2. /\ UNCHANGED << profiles, kernels, modules, aborted, kept, blocks, strayed, copies,
                      allocated >>
      /\ ran' = None /\ pc[t] = "compile"
  BY DEF CompileFails, otherContext, launcher
<1>3. pc'[t] # "classify"
  BY <1>1 DEF Ended
<1>4. StackInv'
  BY <1>1, <1>2, StackKept
<1>5. ProfileInv'
  BY <1>1, <1>2, <1>3, ProfileKept
<1>6. KernelInv'
  BY <1>1, <1>2, KernelKept
<1> QED  BY <1>1, <1>2, <1>4, <1>5, <1>6, CopiesKept, RanNothing DEF Inv

(* Only the launch that put a kernel there has to set it up; until it has, *)
(* no context keeps the kernel's reference.                                *)
LEMMA CompiledInv == ASSUME Inv, ~aborted, NEW t \in Threads, Compiled(t) PROVE Inv'
<1> DEFINE g == Family(t)
<1>1. /\ Base' /\ OthersStay(t) /\ Unguarded(t)' = Unguarded(t)
      /\ g \in Families /\ modules' = modules
      /\ IF kernels[g] = None
         THEN /\ \A f \in Families \ {g} : kernels'[f] = kernels[f]
              /\ kernels'[g] \in Kernels /\ kernels'[g].setups = 1
              /\ ~kernels'[g].torn
              /\ pc'[t] = "setup" /\ loc' = loc /\ ran' = None
         ELSE /\ kernels' = kernels /\ Ended(t, Unguarded(t))
              /\ Execute(t, stack[t], Unguarded(t), kernels[g])
  BY CompiledStep DEF Inv
<1>2. /\ UNCHANGED << profiles, aborted, kept, blocks, strayed, copies, allocated >>
      /\ pc[t] = "compile"
  BY DEF Compiled, otherContext
<1>3. pc'[t] # "classify"
  BY <1>1 DEF Ended
<1>4. StackInv'
  BY <1>1, <1>2, StackKept
<1>5. ProfileInv'
  BY <1>1, <1>2, <1>3, ProfileKept
<1>6. modules \in [Devices -> SUBSET Families]
  BY DEF Inv, Base, TypeOK
<1>7. KernelInv' /\ RanInv'
  <2>1. CASE kernels[g] = None
    <3>1. \A d \in Devices : g \notin modules[d]
      BY <2>1 DEF Inv, KernelInv
    <3>2. KernelInv'
      BY <1>1, <1>6, <2>1, <3>1, KernelMoved
    <3> QED  BY <1>1, <2>1, <3>2, RanNothing
  <2>2. CASE kernels[g] # None
    <3>1. KernelInv'
      BY <1>1, <1>2, <2>2, KernelKept
    <3>2. loc[t].array # None => Last(stack[t]) = loc[t].array
      BY <1>2 DEF Inv, Base, Shape
    <3> DEFINE s == stack[t]
               left == Unguarded(t)
               k == kernels[g]
    <3>3. Execute(t, s, left, k) /\ k = kernels[g] /\ k # None
      BY <1>1, <2>2
    <3>4. loc[t].array # None => Last(s) = loc[t].array
      BY <3>2
    <3> HIDE DEF s, left, k
    <3>5. RanInv'
      BY <1>1, <1>2, <3>3, <3>4, RanKept
    <3> QED  BY <3>1, <3>5
  <2> QED  BY <2>1, <2>2
<1> QED  BY <1>1, <1>2, <1>4, <1>5, <1>7, CopiesKept DEF Inv

LEMMA SetUpInv == ASSUME Inv, ~aborted, NEW t \in Threads, SetUp(t) PROVE Inv'
<1> DEFINE g == Family(t)
           s == stack[t]
           left == Unguarded(t)
<1>1. /\ Base' /\ OthersStay(t) /\ Ended(t, Unguarded(t)) /\ Unguarded(t)' = Unguarded(t)
      /\ g \in Families /\ kernels[g] \in Kernels
      /\ \A f \in Families \ {g} : kernels'[f] = kernels[f]
      /\ kernels'[g].setup = "done"
      /\ kernels'[g].setups = kernels[g].setups
      /\ \A d \in Devices : modules'[d] \subseteq modules[d] \cup {g}
      /\ Execute(t, s, left, kernels'[g])
  BY SetUpStep DEF Inv
<1>2. /\ UNCHANGED << profiles, aborted, kept, blocks, strayed, copies, allocated >>
      /\ pc[t] = "setup"
  BY DEF SetUp, otherContext
<1>3. pc'[t] # "classify"
  BY <1>1 DEF Ended
<1>4. StackInv'
  BY <1>1, <1>2, StackKept
<1>5. ProfileInv'
  BY <1>1, <1>2, <1>3, ProfileKept
<1>6. modules' \in [Devices -> SUBSET Families]
  BY <1>1 DEF Base, TypeOK
<1>7. kernels'[g] \in Kernels
  <2>1. Kernels = Kernels' /\ kernels'[g] = [kernels[g] EXCEPT !.setup = "done"]
    BY <1>1 DEF SetUp, Inv, Base, TypeOK
  <2> QED  BY <1>1, <2>1 DEF Kernels
<1>8. kernels'[g].setups = 1
  BY <1>1, KernelAssumption DEF Inv, KernelInv
<1>9. KernelInv'
  BY <1>1, <1>6, <1>7, <1>8, KernelMoved
<1>10. loc[t].array # None => Last(s) = loc[t].array
  BY <1>2 DEF Inv, Base, Shape
<1> DEFINE k == kernels'[g]
<1>11. Execute(t, s, left, k) /\ k.setup = "done"
  BY <1>1
<1> HIDE DEF s, left, k
<1>12. RanInv'
  BY <1>10, <1>11, RanKept
<1> QED  BY <1>1, <1>2, <1>4, <1>5, <1>9, <1>12, CopiesKept DEF Inv

LEMMA SetupFailsInv == ASSUME Inv, ~aborted, NEW t \in Threads, SetupFails(t) PROVE Inv'
<1> DEFINE g == Family(t)
<1>1. /\ Base' /\ OthersStay(t) /\ Ended(t, Unguarded(t)) /\ Unguarded(t)' = Unguarded(t)
      /\ g \in Families /\ kernels[g] \in Kernels
      /\ \A f \in Families \ {g} : kernels'[f] = kernels[f]
      /\ kernels'[g].setup = "failed"
      /\ kernels'[g].setups = kernels[g].setups
  BY SetupFailsStep DEF Inv
<1>2. /\ UNCHANGED << profiles, modules, aborted, kept, blocks, strayed, copies, allocated >>
      /\ pc[t] = "setup" /\ ran' = None
  BY DEF SetupFails, otherContext
<1>3. pc'[t] # "classify"
  BY <1>1 DEF Ended
<1>4. StackInv'
  BY <1>1, <1>2, StackKept
<1>5. ProfileInv'
  BY <1>1, <1>2, <1>3, ProfileKept
<1>6. modules' \in [Devices -> SUBSET Families]
  BY <1>1 DEF Base, TypeOK
<1>7. kernels'[g] \in Kernels
  <2>1. kernels'[g] = [[kernels[g] EXCEPT !.setup = "failed"] EXCEPT !.torn = TRUE]
    BY <1>1 DEF SetupFails, Inv, Base, TypeOK
  <2> QED  BY <1>1, <2>1 DEF Kernels
<1>8. kernels'[g].setups = 1
  BY <1>1, KernelAssumption DEF Inv, KernelInv
<1>9. KernelInv'
  BY <1>1, <1>2, <1>6, <1>7, <1>8, KernelMoved
<1> QED  BY <1>1, <1>2, <1>4, <1>5, <1>9, CopiesKept, RanNothing DEF Inv

(* What a reset tears down has been set up before.                         *)
LEMMA ResetContextInv == ASSUME Inv, ~aborted, NEW t \in Threads, ResetContext(t) PROVE Inv'
<1>1. \A d \in Devices : \A f \in modules[d] :
        kernels[f] \in Kernels /\ kernels[f].setup # "running" /\ f \in Families
  BY DEF Inv, KernelInv, Base, TypeOK
<1>2. /\ Base' /\ UNCHANGED << stack, kept, blocks, strayed, profiles, copies, allocated,
                               pc, loc, aborted >> /\ ran' = None
      /\ \A f \in Families :
           \/ kernels'[f] = kernels[f]
           \/ /\ kernels[f] \in Kernels /\ kernels'[f] \in Kernels
              /\ kernels'[f].setup = kernels[f].setup /\ kernels'[f].setups = kernels[f].setups
              /\ \E d \in Devices : f \in modules[d]
      /\ \A d \in Devices : modules'[d] \subseteq modules[d]
  BY <1>1, ResetContextStep DEF Inv
<1>3. StackInv' /\ ProfileInv'
  BY <1>2 DEF Inv, StackInv, ProfileInv, AbortIsEarned, Unguarded
<1>4. KernelInv'
  <2>1. ASSUME NEW f \in Families, kernels'[f] # None
        PROVE  /\ kernels'[f].setups = 1
               /\ kernels'[f].setup = "running" =>
                    \E u \in Threads : pc'[u] = "setup" /\ Family(u)' = f
               /\ kernels'[f].torn => kernels'[f].setup # "running"
    <3>1. \A u \in Threads : Family(u)' = Family(u) /\ pc'[u] = pc[u]
      BY <1>2 DEF Family
    <3>2. CASE kernels'[f] = kernels[f]
      BY <2>1, <3>1, <3>2 DEF Inv, KernelInv
    <3>3. CASE /\ kernels[f] \in Kernels
               /\ kernels'[f].setup = kernels[f].setup /\ kernels'[f].setups = kernels[f].setups
               /\ \E d \in Devices : f \in modules[d]
      BY <1>1, <3>3, KernelAssumption DEF Inv, KernelInv
    <3> QED  BY <1>2, <3>2, <3>3
  <2>2. ASSUME NEW d \in Devices, NEW f \in modules'[d]
        PROVE  kernels'[f] # None /\ kernels'[f].setup # "running"
    <3>1. f \in modules[d] /\ kernels[f] \in Kernels /\ kernels[f].setup # "running" /\ f \in Families
      BY <1>1, <1>2, <2>2
    <3> QED  BY <1>2, <3>1, KernelAssumption
  <2> QED  BY <2>1, <2>2 DEF KernelInv
<1> QED  BY <1>2, <1>3, <1>4, CopiesKept, RanNothing DEF Inv

(* A block is pushed on top of what the thread has pushed before, and what *)
(* its end pops is its own.                                                *)
LEMMA ContextStack ==
  ASSUME Inv, NEW t \in Threads, ContextStep(t)
  PROVE  Balanced(t)'
<1>1. /\ SelectDevice(t) \/ EnterBlock(t) \/ ExitBlock(t)
      /\ pc[t] = "idle"
  BY DEF ContextStep
<1>2. /\ stack \in [Threads -> Seq(Devices)] /\ blocks \in [Threads -> Seq(Devices)]
      /\ kept \in [Threads -> Seq(Devices)] /\ t \in Threads
  BY DEF Inv, Base, TypeOK, ContextTypeOK
<1>3. t \in strayed \/ stack[t] = kept[t] \o blocks[t]
  <2>1. Unguarded(t) = stack[t]
    BY <1>1, UnguardedType DEF Inv
  <2> QED  BY <2>1 DEF Inv, StackInv
<1>4. CASE SelectDevice(t)
  <2>1. PICK d \in Devices :
          /\ stack[t] = << >> /\ stack' = [stack EXCEPT ![t] = Append(@, d)]
          /\ kept' = [kept EXCEPT ![t] = Append(@, d)]
          /\ blocks' = blocks /\ strayed' = strayed
    BY <1>4 DEF SelectDevice, Activate
  <2>2. stack'[t] = Append(<< >>, d) /\ kept'[t] = Append(kept[t], d)
    BY <1>2, <2>1
  <2>3. ASSUME t \notin strayed
        PROVE  stack'[t] = kept'[t] \o blocks[t]
    <3>1. kept[t] \o blocks[t] = << >>
      BY <1>3, <2>1, <2>3
    <3>2. kept[t] = << >> /\ blocks[t] = << >>
      BY <1>2, <3>1, ConcatEqualIffEmpty
    <3>3. Append(<< >>, d) \o << >> = Append(<< >>, d)
      OBVIOUS
    <3> QED  BY <2>2, <3>2, <3>3
  <2> QED  BY <2>1, <2>3 DEF Balanced
<1>5. CASE EnterBlock(t)
  <2>1. PICK d \in Devices, ok \in BOOLEAN :
         /\ Activate(t, d, ok)
         /\ IF ok
            THEN blocks' = [blocks EXCEPT ![t] = Append(@, d)] /\ UNCHANGED << strayed, incidents >>
            ELSE strayed' = strayed \cup {t} /\ Incident /\ UNCHANGED blocks
    BY <1>5 DEF EnterBlock
  <2>2. kept' = kept /\ stack' = [stack EXCEPT ![t] = Append(@, d)]
    BY <1>5, <2>1 DEF EnterBlock, Activate
  <2>3. CASE ok
    <3>1. /\ blocks' = [blocks EXCEPT ![t] = Append(@, d)] /\ strayed' = strayed
      BY <2>1, <2>3
    <3>2. stack'[t] = Append(stack[t], d) /\ blocks'[t] = Append(blocks[t], d)
      BY <1>2, <2>2, <3>1
    <3>3. ASSUME t \notin strayed
          PROVE  stack'[t] = kept[t] \o blocks'[t]
      <4> DEFINE a == kept[t]
                 b == blocks[t]
      <4>1. a \in Seq(Devices) /\ b \in Seq(Devices) /\ a \o b \in Seq(Devices)
            /\ << d >> \in Seq(Devices)
        BY <1>2, ConcatProperties
      <4>2. stack[t] = a \o b
        BY <1>3, <3>3
      <4> HIDE DEF a, b
      <4>3. Append(a \o b, d) = (a \o b) \o << d >> /\ Append(b, d) = b \o << d >>
        BY <4>1, AppendIsConcat
      <4>4. (a \o b) \o << d >> = a \o (b \o << d >>)
        BY <4>1, ConcatAssociative
      <4>5. Append(a \o b, d) = a \o Append(b, d)
        BY <4>3, <4>4
      <4> QED  BY <3>2, <4>2, <4>5 DEF a, b
    <3> QED  BY <2>2, <3>1, <3>3 DEF Balanced
  <2>4. CASE ~ok
    BY <2>1, <2>4 DEF Balanced
  <2> QED  BY <2>3, <2>4
<1>6. CASE ExitBlock(t)
  <2>1. /\ blocks[t] # << >> /\ kept' = kept /\ strayed' = strayed
        /\ blocks'[t] = Front(blocks[t]) /\ stack'[t] = Front(stack[t])
    BY <1>2, <1>6 DEF ExitBlock
  <2>2. Front(kept[t] \o blocks[t]) = kept[t] \o Front(blocks[t])
    BY <1>2, <2>1, FrontConcat
  <2> QED  BY <1>3, <2>1, <2>2 DEF Balanced
<1> QED  BY <1>1, <1>4, <1>5, <1>6

LEMMA ContextStepInv == ASSUME Inv, ~aborted, NEW t \in Threads, ContextStep(t) PROVE Inv'
<1>1. /\ Base' /\ pc[t] = "idle" /\ UNCHANGED << launcher, free, pc, loc >> /\ ran' = None
      /\ \A u \in Threads : u # t => stack'[u] = stack[u]
  BY ContextStepStep DEF Inv
<1>2. UNCHANGED << profiles, kernels, modules, copies, allocated, aborted >>
  BY <1>1 DEF launcher
<1>3. ProfileInv' /\ KernelInv'
  BY <1>1, <1>2 DEF Inv, ProfileInv, KernelInv, AbortIsEarned, Family
<1>4. StackInv'
  <2> SUFFICES ASSUME NEW u \in Threads
               PROVE  u \in strayed' \/ Unguarded(u)' = kept'[u] \o blocks'[u]
    BY DEF StackInv
  <2>1. CASE u = t
    <3>1. ~loc'[t].guard
      BY <1>1 DEF Inv, Base, Shape
    <3>2. Unguarded(t)' = stack'[t]
      BY <3>1 DEF Unguarded
    <3> QED  BY <2>1, <3>2, ContextStack DEF Balanced
  <2>2. CASE u # t
    <3>1. /\ stack'[u] = stack[u] /\ blocks'[u] = blocks[u] /\ kept'[u] = kept[u]
          /\ u \in strayed => u \in strayed'
      <4>1. /\ blocks \in [Threads -> Seq(Devices)] /\ kept \in [Threads -> Seq(Devices)]
            /\ SelectDevice(t) \/ EnterBlock(t) \/ ExitBlock(t)
        BY DEF Inv, Base, TypeOK, ContextTypeOK, ContextStep
      <4>2. CASE SelectDevice(t)
        BY <1>1, <2>2, <4>1, <4>2 DEF SelectDevice
      <4>3. CASE EnterBlock(t)
        BY <1>1, <2>2, <4>1, <4>3 DEF EnterBlock
      <4>4. CASE ExitBlock(t)
        BY <1>1, <2>2, <4>1, <4>4 DEF ExitBlock
      <4> QED  BY <4>1, <4>2, <4>3, <4>4
    <3>2. Unguarded(u)' = Unguarded(u)
      BY <1>1, <3>1 DEF Unguarded
    <3> QED  BY <3>1, <3>2 DEF Inv, StackInv
  <2> QED  BY <2>1, <2>2
<1> QED  BY <1>1, <1>2, <1>3, <1>4, CopiesKept, RanNothing DEF Inv

LEMMA InvNext == Inv /\ [Next]_vars => Inv'
<1> SUFFICES ASSUME Inv, [Next]_vars PROVE Inv'
  OBVIOUS
<1>1. CASE Next
  <2>1. ~aborted
    BY <1>1 DEF Next
  <2>2. PICK t \in Threads :
          \/ Begin(t) \/ Classified(t) \/ Extract(t) \/ Ensure(t) \/ Switch(t)
          \/ Compiled(t) \/ CompileFails(t) \/ SetUp(t) \/ SetupFails(t)
          \/ ResetContext(t) \/ ContextStep(t)
    BY <1>1 DEF Next
  <2> QED  BY <2>1, <2>2, BeginInv, ClassifiedInv, ExtractInv, EnsureInv, SwitchInv,
              CompiledInv, CompileFailsInv, SetUpInv, SetupFailsInv, ResetContextInv,
              ContextStepInv
<1>2. CASE UNCHANGED vars
  BY <1>2 DEF vars, contextVars, launcher, Inv, Base, TypeOK, ContextTypeOK, Shape, Family,
              HelpersOwn, CopiesInv, CopiesOwned, StackInv, Unguarded, KernelInv, ProfileInv,
              AbortIsEarned, RanInv, RunsWithItsArrays, SetupFirst
<1> QED  BY <1>1, <1>2

LEMMA InvAlways == Spec => []Inv
BY InvInit, InvNext, PTL DEF Spec

-----------------------------------------------------------------------------
(* Theorems                                                                *)

(* Whatever happens in a launch, it leaves the thread's context stack as   *)
(* it found it, but for the context of device 0 where there was none.      *)
THEOREM ContextsAreRestored == Spec => []StackBalanced
<1>1. Inv => StackBalanced
  <2> SUFFICES ASSUME Inv, NEW t \in Threads, pc[t] = "idle" PROVE Balanced(t)
    BY DEF StackBalanced
  <2>1. Unguarded(t) = stack[t]
    BY UnguardedType DEF Inv
  <2> QED  BY <2>1 DEF Inv, StackInv, Balanced
<1> QED  BY <1>1, InvAlways, PTL

(* A kernel runs in the context of the arrays that it is given.            *)
THEOREM KernelsRunWithTheirArrays == Spec => []RunsWithItsArrays
<1>1. Inv => RunsWithItsArrays
  BY DEF Inv, RanInv
<1> QED  BY <1>1, InvAlways, PTL

(* However many launches compile a family's kernel, one sets it up.        *)
THEOREM KernelsAreSetUpOnce == Spec => []SetupOnce
<1>1. Inv => SetupOnce
  BY DEF Inv, KernelInv, SetupOnce
<1> QED  BY <1>1, InvAlways, PTL

(* Setup callbacks, launches and teardown callbacks come in this order.    *)
THEOREM CallbacksComeInOrder == Spec => []CallbacksInOrder
<1>1. Inv => CallbacksInOrder
  BY DEF Inv, KernelInv, RanInv, CallbacksInOrder, TeardownAfterSetup
<1> QED  BY <1>1, InvAlways, PTL

(* A record copy is freed once, and not before it was used: each belongs   *)
(* to one helper, and a helper to one launch.                              *)
THEOREM CopiesHaveOneOwner == Spec => []CopiesOwned
<1>1. Inv => CopiesOwned
  BY DEF Inv, CopiesInv
<1> QED  BY <1>1, InvAlways, PTL

(* The process is ended only by launches that classify the same new types  *)
(* at the same time.                                                       *)
THEOREM AbortsAreEarned == Spec => []AbortIsEarned
<1>1. Inv => AbortIsEarned
  BY DEF Inv, ProfileInv
<1> QED  BY <1>1, InvAlways, PTL

(* The launcher's variables have their types.                              *)
THEOREM LauncherTypes == Spec => []TypeOK
<1>1. Inv => TypeOK
  BY DEF Inv, Base
<1> QED  BY <1>1, InvAlways, PTL
=============================================================================
