----------------------- MODULE DispatcherRegistryProofs -----------------------
(***************************************************************************)
(* Lemmas about the OrderedDict bookkeeping and the registry operations of *)
(* DispatcherRegistry, for any number of keys and any cache size.          *)
(***************************************************************************)
EXTENDS DispatcherRegistry, SequenceTheorems, FiniteSetTheorems, TLAPS

(* The sequence s is a recency order of the set S: it lists every element  *)
(* of S exactly once.                                                      *)
Lists(s, S) ==
    /\ s \in Seq(S)
    /\ \A x \in S : \E i \in 1..Len(s) : s[i] = x
    /\ \A i, j \in 1..Len(s) : s[i] = s[j] => i = j

-----------------------------------------------------------------------------
(* The empty OrderedDict.                                                  *)
LEMMA ListsEmpty == Lists(<< >>, {})
  BY EmptySeq DEF Lists

(* Inserting a key at the recently used end.                               *)
LEMMA ListsAppend ==
  ASSUME NEW S, NEW s, Lists(s, S), NEW k, k \notin S
  PROVE  /\ Lists(Append(s, k), S \cup {k})
         /\ Len(Append(s, k)) = Len(s) + 1
<1> DEFINE T == S \cup {k}
           a == Append(s, k)
<1>1. s \in Seq(S) /\ s \in Seq(T)
  BY SeqMonotonic DEF Lists
<1>2. Len(s) \in Nat
  BY <1>1, LenProperties
<1>3. /\ a \in Seq(T)
      /\ Len(a) = Len(s) + 1
      /\ \A i \in 1..Len(s) : a[i] = s[i]
      /\ a[Len(s) + 1] = k
  BY <1>1, AppendProperties
<1>4. \A i \in 1..Len(s) : s[i] \in S
  BY <1>1, ElementOfSeq
<1>5. \A x \in T : \E i \in 1..Len(a) : a[i] = x
  <2> TAKE x \in T
  <2>1. CASE x = k
    BY <2>1, <1>2, <1>3
  <2>2. CASE x \in S
    <3>1. PICK i \in 1..Len(s) : s[i] = x
      BY <2>2 DEF Lists
    <3>2. i \in 1..Len(a) /\ a[i] = x
      BY <3>1, <1>2, <1>3
    <3> QED  BY <3>2
  <2> QED  BY <2>1, <2>2
<1>6. ASSUME NEW i \in 1..Len(a), NEW j \in 1..Len(a), a[i] = a[j]
      PROVE  i = j
  <2>1. CASE i \in 1..Len(s) /\ j \in 1..Len(s)
    BY <2>1, <1>3, <1>6 DEF Lists
  <2>2. CASE i = Len(s) + 1 \/ j = Len(s) + 1
    BY <2>2, <1>2, <1>3, <1>4, <1>6
  <2> QED  BY <2>1, <2>2, <1>2, <1>3
<1> HIDE DEF a, T
<1> QED  BY <1>3, <1>5, <1>6 DEF Lists, a, T

(* popitem(last=False): the head leaves.                                   *)
LEMMA ListsTail ==
  ASSUME NEW S, NEW s, Lists(s, S), Len(s) > 0
  PROVE  /\ Head(s) \in S
         /\ Lists(Tail(s), S \ {Head(s)})
         /\ Len(Tail(s)) = Len(s) - 1
<1> DEFINE h == Head(s)
           T == S \ {h}
           r == Tail(s)
<1>1. s \in Seq(S) /\ Len(s) \in Nat /\ s # << >>
  BY LenProperties, EmptySeq DEF Lists
<1>2. h = s[1]
  BY <1>1
<1>3. /\ h \in S
      /\ r \in Seq(S)
      /\ Len(r) = Len(s) - 1
      /\ \A i \in 1..Len(r) : r[i] = s[i + 1]
  BY <1>1, HeadTailProperties
<1>4. \A i \in 1..Len(r) : r[i] \in T
  <2> TAKE i \in 1..Len(r)
  <2>1. i + 1 \in 1..Len(s) /\ 1 \in 1..Len(s) /\ i + 1 # 1
    BY <1>1, <1>3
  <2>2. s[i + 1] # s[1] /\ s[i + 1] \in S
    BY <2>1, <1>1, ElementOfSeq DEF Lists
  <2> QED  BY <2>2, <1>2, <1>3
<1>5. r \in Seq(T)
  <2>1. r \in [1..Len(r) -> T] /\ Len(r) \in Nat
    BY <1>1, <1>3, <1>4, LenProperties
  <2> QED  BY <2>1, SeqDef
<1>6. \A x \in T : \E i \in 1..Len(r) : r[i] = x
  <2> TAKE x \in T
  <2>1. PICK i \in 1..Len(s) : s[i] = x
    BY DEF Lists
  <2>2. i # 1
    BY <2>1, <1>2
  <2>3. i - 1 \in 1..Len(r) /\ r[i - 1] = x
    BY <2>1, <2>2, <1>1, <1>3
  <2> QED  BY <2>3
<1>7. ASSUME NEW i \in 1..Len(r), NEW j \in 1..Len(r), r[i] = r[j]
      PROVE  i = j
  <2>1. i + 1 \in 1..Len(s) /\ j + 1 \in 1..Len(s) /\ s[i + 1] = s[j + 1]
    BY <1>1, <1>3, <1>7
  <2>2. i + 1 = j + 1
    BY <2>1 DEF Lists
  <2> QED  BY <2>2
<1> HIDE DEF r, T
<1> QED  BY <1>3, <1>5, <1>6, <1>7 DEF Lists, r, T

(* Removing a key from the middle.                                         *)
LEMMA ListsWithout ==
  ASSUME NEW S, NEW s, Lists(s, S), NEW k \in S
  PROVE  /\ Lists(Without(s, k), S \ {k})
         /\ Len(Without(s, k)) = Len(s) - 1
<1> DEFINE p == PositionOf(s, k)
           n == Len(s)
           u == SubSeq(s, 1, p - 1)
           v == SubSeq(s, p + 1, n)
           w == u \o v
           T == S \ {k}
<1>1. s \in Seq(S) /\ n \in Nat /\ DOMAIN s = 1..n
  BY LenProperties DEF Lists
<1>2. p \in 1..n /\ s[p] = k
  BY <1>1 DEF Lists, PositionOf
<1>3. \A i \in 1..n : s[i] \in S
  BY <1>1, ElementOfSeq
<1> HIDE DEF p, n
<1>4. /\ u \in Seq(S)
      /\ Len(u) = p - 1
      /\ \A i \in 1..(p - 1) : u[i] = s[i]
  <2>1. 1 \in Int /\ p - 1 \in Int /\ \A i \in 1..(p - 1) : s[i] \in S
    BY <1>1, <1>2, <1>3
  <2>2. /\ u \in Seq(S)
        /\ Len(u) = IF 1 <= p - 1 THEN (p - 1) - 1 + 1 ELSE 0
        /\ \A i \in 1 .. (p - 1) - 1 + 1 : u[i] = s[1 + i - 1]
    BY <2>1, SubSeqProperties
  <2> HIDE DEF u
  <2> QED  BY <2>2, <1>1, <1>2
<1>5. /\ v \in Seq(S)
      /\ Len(v) = n - p
      /\ \A i \in 1..(n - p) : v[i] = s[p + i]
  <2>1. p + 1 \in Int /\ n \in Int /\ \A i \in (p + 1)..n : s[i] \in S
    BY <1>1, <1>2, <1>3
  <2>2. /\ v \in Seq(S)
        /\ Len(v) = IF p + 1 <= n THEN n - (p + 1) + 1 ELSE 0
        /\ \A i \in 1 .. n - (p + 1) + 1 : v[i] = s[(p + 1) + i - 1]
    BY <2>1, SubSeqProperties
  <2> HIDE DEF v
  <2> QED  BY <2>2, <1>1, <1>2
<1> HIDE DEF u, v
<1>6. /\ w \in Seq(S)
      /\ Len(w) = n - 1
      /\ \A i \in 1..(n - 1) : w[i] = IF i < p THEN s[i] ELSE s[i + 1]
  <2>1. /\ w \in Seq(S)
        /\ Len(w) = Len(u) + Len(v)
        /\ \A i \in 1..(Len(u) + Len(v)) :
             w[i] = IF i <= Len(u) THEN u[i] ELSE v[i - Len(u)]
    BY <1>4, <1>5, ConcatProperties
  <2> HIDE DEF w
  <2>2. Len(w) = n - 1
    BY <2>1, <1>1, <1>2, <1>4, <1>5
  <2>3. ASSUME NEW i \in 1..(n - 1)
        PROVE  w[i] = IF i < p THEN s[i] ELSE s[i + 1]
    <3>1. i \in 1..(Len(u) + Len(v))
      BY <1>1, <1>2, <1>4, <1>5
    <3>2. CASE i < p
      BY <3>1, <3>2, <2>1, <1>1, <1>2, <1>4
    <3>3. CASE i >= p
      <4>1. i - (p - 1) \in 1..(n - p) /\ p + (i - (p - 1)) = i + 1
        BY <3>3, <1>1, <1>2
      <4>2. v[i - (p - 1)] = s[i + 1]
        BY <4>1, <1>5
      <4> QED  BY <4>2, <3>1, <3>3, <2>1, <1>1, <1>2, <1>4
    <3> QED  BY <3>2, <3>3, <1>1, <1>2
  <2> QED  BY <2>1, <2>2, <2>3
<1> HIDE DEF w
<1>7. ASSUME NEW i \in 1..(n - 1)
      PROVE  w[i] \in T
  <2>1. CASE i < p
    <3>1. i \in 1..n /\ i # p
      BY <2>1, <1>1, <1>2
    <3>2. s[i] # k
      BY <3>1, <1>2 DEF Lists, n
    <3> QED  BY <2>1, <3>1, <3>2, <1>3, <1>6
  <2>2. CASE i >= p
    <3>1. i + 1 \in 1..n /\ i + 1 # p /\ ~ (i < p)
      BY <2>2, <1>1, <1>2
    <3>2. s[i + 1] # k
      BY <3>1, <1>2 DEF Lists, n
    <3> QED  BY <3>1, <3>2, <1>3, <1>6
  <2> QED  BY <2>1, <2>2, <1>1, <1>2
<1>8. w \in Seq(T)
  <2>1. w \in [1..Len(w) -> S] /\ Len(w) \in Nat
    BY <1>6, LenProperties
  <2>2. w \in [1..Len(w) -> T]
    BY <2>1, <1>6, <1>7
  <2> QED  BY <2>1, <2>2, SeqDef
<1>9. ASSUME NEW x \in T
      PROVE  \E i \in 1..(n - 1) : w[i] = x
  <2>1. PICK i \in 1..n : s[i] = x
    BY DEF Lists, n
  <2>2. CASE i < p
    <3>1. i \in 1..(n - 1)
      BY <2>2, <1>1, <1>2
    <3> QED  BY <3>1, <2>1, <2>2, <1>6
  <2>3. CASE i > p
    <3>1. i - 1 \in 1..(n - 1) /\ ~ (i - 1 < p) /\ (i - 1) + 1 = i
      BY <2>3, <1>1, <1>2
    <3> QED  BY <3>1, <2>1, <1>6
  <2>4. i # p
    BY <2>1, <1>2
  <2> QED  BY <2>2, <2>3, <2>4, <1>1, <1>2
<1>10. ASSUME NEW i \in 1..(n - 1), NEW j \in 1..(n - 1), w[i] = w[j]
       PROVE  i = j
  <2>1. \A a \in 1..n, b \in 1..n : s[a] = s[b] => a = b
    BY DEF Lists, n
  <2> QED  BY <2>1, <1>1, <1>2, <1>6, <1>10
<1>11. Without(s, k) = w
  BY DEF Without, w, u, v, p, n
<1> HIDE DEF T
<1>12. Lists(w, T)
  BY <1>6, <1>8, <1>9, <1>10 DEF Lists
<1> QED  BY <1>6, <1>11, <1>12 DEF T, n

(* move_to_end: the recency order changes, the set of keys does not.       *)
LEMMA ListsMoveToEnd ==
  ASSUME NEW S, NEW s, Lists(s, S), NEW k \in S
  PROVE  /\ Lists(MoveToEnd(s, k), S)
         /\ Len(MoveToEnd(s, k)) = Len(s)
<1> DEFINE T == S \ {k}
           w == Without(s, k)
<1>1. Lists(w, T) /\ Len(w) = Len(s) - 1
  BY ListsWithout
<1>2. k \notin T /\ T \cup {k} = S
  OBVIOUS
<1> HIDE DEF T, w
<1>3. Lists(Append(w, k), T \cup {k}) /\ Len(Append(w, k)) = Len(w) + 1
  BY <1>1, <1>2, ListsAppend
<1>4. Len(s) \in Nat
  BY LenProperties DEF Lists
<1> QED  BY <1>1, <1>2, <1>3, <1>4 DEF MoveToEnd, w

-----------------------------------------------------------------------------
(* _retain_old_dispatcher keeps a list of dispatchers, no longer than the  *)
(* limit.                                                                  *)
LEMMA RetainOldType ==
  ASSUME NEW S, old \in Seq(S), NEW ds \in Seq(S)
  PROVE  /\ RetainOld(ds) \in Seq(S)
         /\ Len(RetainOld(ds)) <= RetainLimit
<1> DEFINE all == old \o ds
           n   == Len(all)
<1>1. all \in Seq(S) /\ n \in Nat
  BY ConcatProperties, LenProperties
<1>2. \A i \in 1..n : all[i] \in S
  BY <1>1, ElementOfSeq
<1>3. RetainLimit \in Nat
  BY RegistryAssumption
<1>4. RetainOld(ds) = IF n <= RetainLimit THEN all ELSE SubSeq(all, n - RetainLimit + 1, n)
  BY DEF RetainOld
<1> HIDE DEF all, n
<1>5. CASE n <= RetainLimit
  BY <1>1, <1>4, <1>5 DEF n
<1>6. CASE n > RetainLimit
  <2> DEFINE r == SubSeq(all, n - RetainLimit + 1, n)
  <2>1. n - RetainLimit + 1 \in Int /\ n \in Int
        /\ \A i \in (n - RetainLimit + 1)..n : all[i] \in S
    BY <1>1, <1>2, <1>3, <1>6
  <2>2. /\ r \in Seq(S)
        /\ Len(r) = IF n - RetainLimit + 1 <= n
                    THEN n - (n - RetainLimit + 1) + 1 ELSE 0
    BY <2>1, SubSeqProperties
  <2> HIDE DEF r
  <2>3. Len(r) <= RetainLimit
    BY <2>2, <1>1, <1>3
  <2>4. RetainOld(ds) = r
    BY <1>1, <1>3, <1>4, <1>6 DEF r
  <2> QED  BY <2>2, <2>3, <2>4
<1> QED  BY <1>1, <1>3, <1>5, <1>6

-----------------------------------------------------------------------------
(* The registry is consistent: typed, bounded, its recency order lists the *)
(* registered keys, and every dispatcher in it is current.                 *)
RegistryInv ==
    /\ RegistryTypeOK
    /\ Lists(dispatcherLru, Registered)
    /\ Len(dispatcherLru) <= LaunchConfigCacheSize
    /\ DispatchersCurrent

(* A fresh dispatcher has an empty registry and current generic flags.     *)
LEMMA RegistryInitInv == RegistryInit => RegistryInv
<1> SUFFICES ASSUME RegistryInit PROVE RegistryInv
  OBVIOUS
<1>1. RegistryTypeOK
  BY EmptySeq DEF RegistryInit, RegistryTypeOK, NativeDispatcher
<1>2. Registered = {}
  BY DEF RegistryInit, Registered
<1>3. Lists(dispatcherLru, Registered)
  BY <1>2, ListsEmpty DEF RegistryInit
<1>4. Len(dispatcherLru) <= LaunchConfigCacheSize
  BY EmptySeq, RegistryAssumption DEF RegistryInit
<1>5. DispatchersCurrent
  BY <1>2 DEF RegistryInit, DispatchersCurrent
<1> QED  BY <1>1, <1>3, <1>4, <1>5 DEF RegistryInv

(* A registered dispatcher is a current native dispatcher.                 *)
LEMMA RegisteredIsCurrent ==
  ASSUME RegistryInv, NEW k \in LcKeys, dispatchers[k] # None
  PROVE  /\ dispatchers[k] \in NativeDispatcher
         /\ dispatchers[k].gen = generation
         /\ dispatchers[k].lits = literals
<1>1. k \in Registered
  BY DEF Registered
<1> QED  BY <1>1 DEF RegistryInv, RegistryTypeOK, DispatchersCurrent

(* A new native dispatcher is one, and is not None.                        *)
LEMMA NewKernelDispatcherType ==
  ASSUME made \in Nat, NEW gen \in Nat, NEW lits \in SUBSET Positions
  PROVE  /\ NewKernelDispatcher(gen, lits) \in NativeDispatcher
         /\ NewKernelDispatcher(gen, lits) # None
         /\ NewKernelDispatcher(gen, lits).gen = gen
         /\ NewKernelDispatcher(gen, lits).lits = lits
  BY NoneAssumption DEF NewKernelDispatcher, NativeDispatcher

(* A hit in the registry only changes the order of recency.                *)
LEMMA TouchDispatcherInv ==
  ASSUME RegistryInv, NEW k \in LcKeys, dispatchers[k] # None, TouchDispatcher(k)
  PROVE  RegistryInv'
<1>1. k \in Registered /\ Registered' = Registered
  BY DEF Registered, TouchDispatcher
<1>2. Lists(dispatcherLru', Registered') /\ Len(dispatcherLru') = Len(dispatcherLru)
  BY <1>1, ListsMoveToEnd DEF RegistryInv, TouchDispatcher
<1>3. Registered \subseteq LcKeys
  BY DEF Registered
<1>4. dispatcherLru' \in Seq(LcKeys)
  BY <1>1, <1>2, <1>3, SeqMonotonic DEF Lists
<1>5. RegistryTypeOK'
  BY <1>4 DEF RegistryInv, RegistryTypeOK, TouchDispatcher
<1>6. DispatchersCurrent'
  BY <1>1 DEF RegistryInv, DispatchersCurrent, TouchDispatcher
<1>7. (Len(dispatcherLru) <= LaunchConfigCacheSize)'
  BY <1>2 DEF RegistryInv
<1> QED  BY <1>2, <1>5, <1>6, <1>7 DEF RegistryInv

(* Registering a current dispatcher, with the eviction it may cause.       *)
LEMMA InsertDispatcherInv ==
  ASSUME RegistryInv, NEW k \in LcKeys, dispatchers[k] = None,
         NEW d \in NativeDispatcher, d.gen = generation, d.lits = literals,
         InsertDispatcher(k, d), made' \in Nat
  PROVE  RegistryInv'
<1>1. d # None
  BY NoneAssumption
<1>2. LaunchConfigCacheSize \in Nat \ {0}
  BY RegistryAssumption
<1>3. k \notin Registered
  BY DEF Registered
<1>4. /\ Lists(dispatcherLru, Registered)
      /\ Registered \subseteq LcKeys
      /\ Len(dispatcherLru) \in Nat
  BY LenProperties DEF RegistryInv, Registered, Lists
<1>5. dispatchers \in [LcKeys -> NativeDispatcher \cup {None}] /\ old \in Seq(NativeDispatcher)
  BY DEF RegistryInv, RegistryTypeOK
<1>6. CASE Len(dispatcherLru) < LaunchConfigCacheSize
  <2>1. /\ dispatchers' = [dispatchers EXCEPT ![k] = d]
        /\ dispatcherLru' = Append(dispatcherLru, k)
        /\ UNCHANGED << generation, c, literals, requires, optIn, old, lcOverloads >>
    BY <1>6 DEF InsertDispatcher
  <2>2. Registered' = Registered \cup {k}
    BY <2>1, <1>1, <1>5 DEF Registered
  <2>3. Lists(dispatcherLru', Registered') /\ Len(dispatcherLru') = Len(dispatcherLru) + 1
    BY <2>1, <2>2, <1>3, <1>4, ListsAppend
  <2>4. dispatcherLru' \in Seq(LcKeys)
    BY <2>2, <2>3, <1>4, SeqMonotonic DEF Lists
  <2>5. RegistryTypeOK'
    BY <2>1, <2>4 DEF RegistryInv, RegistryTypeOK
  <2>6. DispatchersCurrent'
    BY <2>1, <2>2, <1>5 DEF RegistryInv, DispatchersCurrent, Registered
  <2>7. (Len(dispatcherLru) <= LaunchConfigCacheSize)'
    BY <2>3, <1>2, <1>4, <1>6
  <2> QED  BY <2>3, <2>5, <2>6, <2>7 DEF RegistryInv
<1>7. CASE ~ (Len(dispatcherLru) < LaunchConfigCacheSize)
  <2> DEFINE victim == Head(dispatcherLru)
             rest   == Registered \ {victim}
  <2>1. /\ dispatchers' = [dispatchers EXCEPT ![k] = d, ![victim] = None]
        /\ dispatcherLru' = Append(Tail(dispatcherLru), k)
        /\ old' = RetainOld(<< dispatchers[victim] >>)
        /\ lcOverloads' = {o \in lcOverloads : o.key # victim}
        /\ UNCHANGED << generation, c, literals, requires, optIn >>
    BY <1>7 DEF InsertDispatcher, Evicted
  <2>2. Len(dispatcherLru) > 0
    BY <1>2, <1>4, <1>7
  <2>3. /\ victim \in Registered
        /\ Lists(Tail(dispatcherLru), rest)
        /\ Len(Tail(dispatcherLru)) = Len(dispatcherLru) - 1
    BY <1>4, <2>2, ListsTail
  <2> HIDE DEF victim
  <2>4. victim \in LcKeys /\ victim # k
    BY <2>3, <1>3, <1>4
  <2>5. Registered' = rest \cup {k}
    BY <2>1, <2>4, <1>1, <1>5 DEF Registered
  <2>6. Lists(dispatcherLru', Registered') /\ Len(dispatcherLru') = Len(dispatcherLru)
    <3>1. k \notin rest
      BY <1>3
    <3> HIDE DEF rest
    <3>2. Lists(Append(Tail(dispatcherLru), k), rest \cup {k})
          /\ Len(Append(Tail(dispatcherLru), k)) = Len(Tail(dispatcherLru)) + 1
      BY <2>3, <3>1, ListsAppend
    <3> QED  BY <3>2, <2>1, <2>3, <2>5, <1>4
  <2>7. dispatcherLru' \in Seq(LcKeys)
    <3>1. Registered' \subseteq LcKeys
      BY DEF Registered
    <3> QED  BY <3>1, <2>6, SeqMonotonic DEF Lists
  <2>8. old' \in Seq(NativeDispatcher)
    <3>1. dispatchers[victim] \in NativeDispatcher
      BY <2>3, <2>4, RegisteredIsCurrent DEF Registered
    <3>2. << dispatchers[victim] >> \in Seq(NativeDispatcher)
      BY <3>1
    <3> QED  BY <3>2, <2>1, <1>5, RetainOldType
  <2>9. RegistryTypeOK'
    <3>1. dispatchers' \in [LcKeys -> NativeDispatcher \cup {None}]
      BY <2>1, <1>5
    <3>2. lcOverloads' \in SUBSET CompileResults
      BY <2>1 DEF RegistryInv, RegistryTypeOK
    <3> QED  BY <3>1, <3>2, <2>1, <2>7, <2>8 DEF RegistryInv, RegistryTypeOK
  <2>10. DispatchersCurrent'
    <3>1. \A j \in Registered' : dispatchers'[j] = d \/ (j \in Registered /\ dispatchers'[j] = dispatchers[j])
      BY <2>1, <2>4, <2>5, <1>4, <1>5
    <3>2. \A j \in Registered : /\ dispatchers[j].gen = generation
                                /\ dispatchers[j].lits = literals
      BY DEF RegistryInv, DispatchersCurrent
    <3>3. \A j \in Registered' : /\ dispatchers'[j].gen = generation'
                                 /\ dispatchers'[j].lits = literals'
      BY <3>1, <3>2, <2>1
    <3>4. c'.gen = generation' /\ c'.lits = literals'
      BY <2>1 DEF RegistryInv, DispatchersCurrent
    <3> QED  BY <3>3, <3>4 DEF DispatchersCurrent
  <2>11. (Len(dispatcherLru) <= LaunchConfigCacheSize)'
    BY <2>6 DEF RegistryInv
  <2> QED  BY <2>6, <2>9, <2>10, <2>11 DEF RegistryInv
<1> QED  BY <1>6, <1>7

(* An invalidation leaves an empty registry and a current generic          *)
(* dispatcher.                                                             *)
LEMMA AdvanceGenerationInv ==
  ASSUME RegistryInv, NEW lits \in SUBSET Positions, AdvanceGeneration(lits),
         requires' \in BOOLEAN
  PROVE  RegistryInv'
<1> DEFINE n    == Len(dispatcherLru)
           reg  == [i \in 1..n |-> dispatchers[dispatcherLru[i]]]
<1>1. /\ generation \in Nat /\ made \in Nat
      /\ c \in NativeDispatcher
      /\ old \in Seq(NativeDispatcher)
      /\ Lists(dispatcherLru, Registered)
  BY DEF RegistryInv, RegistryTypeOK
<1>2. reg \in Seq(NativeDispatcher)
  <2>1. n \in Nat /\ \A i \in 1..n : dispatcherLru[i] \in Registered
    BY <1>1, LenProperties, ElementOfSeq DEF Lists
  <2>2. \A i \in 1..n : dispatchers[dispatcherLru[i]] \in NativeDispatcher
    BY <2>1, RegisteredIsCurrent DEF Registered
  <2> HIDE DEF n
  <2>3. reg \in [1..n -> NativeDispatcher]
    BY <2>2
  <2> QED  BY <2>1, <2>3, SeqDef
<1>3. old' \in Seq(NativeDispatcher)
  <2>1. << c >> \in Seq(NativeDispatcher)
    BY <1>1
  <2>2. << c >> \o reg \in Seq(NativeDispatcher)
    BY <2>1, <1>2, ConcatProperties
  <2>3. old' = RetainOld(<< c >> \o reg)
    BY DEF AdvanceGeneration
  <2> QED  BY <2>2, <2>3, <1>1, RetainOldType
<1> HIDE DEF n, reg
<1>4. /\ generation' = generation + 1
      /\ literals' = lits
      /\ c' = NewKernelDispatcher(generation + 1, lits)
      /\ made' = made + 1
      /\ dispatchers' = [k \in LcKeys |-> None]
      /\ dispatcherLru' = << >>
      /\ lcOverloads' = {}
      /\ optIn' = optIn
  BY DEF AdvanceGeneration
<1>5. generation + 1 \in Nat
  BY <1>1
<1>6. c' \in NativeDispatcher /\ c'.gen = generation' /\ c'.lits = literals'
  BY <1>1, <1>4, <1>5, NewKernelDispatcherType
<1>7. Registered' = {}
  BY <1>4 DEF Registered
<1>8. Lists(dispatcherLru', Registered')
  BY <1>4, <1>7, ListsEmpty
<1>9. RegistryTypeOK'
  BY <1>1, <1>3, <1>4, <1>6, EmptySeq DEF RegistryInv, RegistryTypeOK
<1>10. DispatchersCurrent'
  BY <1>6, <1>7 DEF DispatchersCurrent
<1>11. (Len(dispatcherLru) <= LaunchConfigCacheSize)'
  BY <1>4, EmptySeq, RegistryAssumption
<1> QED  BY <1>8, <1>9, <1>10, <1>11 DEF RegistryInv
-----------------------------------------------------------------------------
(* Registries that never evict                                             *)

(* There is room in the registry for every launch configuration.           *)
NoEvictions == IsFiniteSet(LcKeys) /\ Cardinality(LcKeys) <= LaunchConfigCacheSize

(* The recency order lists as many keys as there are.                      *)
LEMMA ListsCount ==
  ASSUME NEW S, NEW s, Lists(s, S)
  PROVE  IsFiniteSet(S) /\ Cardinality(S) = Len(s)
<1>1. Len(s) \in Nat /\ s \in [1..Len(s) -> S]
  BY LenProperties DEF Lists
<1>2. s \in Bijection(1..Len(s), S)
  <2>1. DOMAIN s = 1..Len(s)
    BY <1>1
  <2> QED  BY <1>1, <2>1 DEF Lists, Bijection, Injection, Surjection, IsInjective
<1>3. ExistsBijection(1..Len(s), S)
  BY <1>2 DEF ExistsBijection
<1>4. Cardinality(S) = Len(s)
  BY <1>1, <1>3, FS_CountingElements
<1>5. IsFiniteSet(S)
  BY <1>1, <1>3, FS_NatBijection
<1> QED  BY <1>4, <1>5

(* Then an insertion always finds room.                                    *)
LEMMA RoomForAll ==
  ASSUME RegistryInv, NoEvictions, NEW k \in LcKeys, dispatchers[k] = None
  PROVE  Len(dispatcherLru) < LaunchConfigCacheSize
<1>1. Registered \subseteq LcKeys /\ k \notin Registered
  BY DEF Registered
<1>2. IsFiniteSet(Registered) /\ Cardinality(Registered) = Len(dispatcherLru)
  BY ListsCount DEF RegistryInv
<1>3. Registered # LcKeys /\ Cardinality(Registered) <= Cardinality(LcKeys)
      /\ Cardinality(Registered) \in Nat /\ Cardinality(LcKeys) \in Nat
  BY <1>1, <1>2, FS_Subset, FS_CardinalityType DEF NoEvictions
<1>4. Cardinality(Registered) # Cardinality(LcKeys)
  BY <1>1, <1>3, FS_Subset DEF NoEvictions
<1> QED  BY <1>2, <1>3, <1>4, RegistryAssumption DEF NoEvictions
=============================================================================
