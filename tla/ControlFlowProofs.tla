-------------------------- MODULE ControlFlowProofs --------------------------
(***************************************************************************)
(* The control-flow graph, for any finite graph: what the fixed points are *)
(* that its analyses compute, the invariant of the search, and from it the *)
(* loops, the topological order, dominators and post-dominators.           *)
(***************************************************************************)
EXTENDS FunctionAnalyses, FiniteSetTheorems, SequenceTheorems, WellFoundedInduction, TLAPS

-----------------------------------------------------------------------------
(* Least numbers and largest sets                                          *)

LEMMA LeastNatural ==
  ASSUME NEW T, T \subseteq Nat, T # {}
  PROVE  \E n \in T : \A m \in T : n <= m
<1> DEFINE R == OpToRel(<, Nat)
<1>1. IsWellFoundedOn(R, Nat)
  BY NatLessThanWellFounded
<1>2. \A x, y \in Nat : y < x => << y, x >> \in R
  BY DEF OpToRel
<1> HIDE DEF R
<1>3. PICK n \in T : \A m \in T : ~ (<< m, n >> \in R)
  BY <1>1, WFMin
<1>4. ASSUME NEW m \in T
      PROVE  n <= m
  <2>1. n \in Nat /\ m \in Nat /\ ~ (m < n)
    BY <1>2, <1>3
  <2> QED  BY <2>1
<1> QED  BY <1>4

(* Some set of X is not contained in any other ...                         *)
LEMMA LargestSet ==
  ASSUME NEW N, IsFiniteSet(N), NEW X, X \subseteq SUBSET N, X # {}
  PROVE  \E S \in X : \A T \in X : S \subseteq T => T = S
<1> DEFINE missing(S) == Cardinality(N) - Cardinality(S)
           M == {missing(S) : S \in X}
<1>1. \A S \in X : IsFiniteSet(S) /\ Cardinality(S) \in Nat /\ Cardinality(S) <= Cardinality(N)
  BY FS_Subset, FS_CardinalityType
<1>2. Cardinality(N) \in Nat
  BY FS_CardinalityType
<1>3. \A S \in X : missing(S) \in Nat
  BY <1>1, <1>2
<1>4. PICK S \in X : \A T \in X : missing(S) <= missing(T)
  <2>1. M \subseteq Nat /\ M # {}
    BY <1>3
  <2> HIDE DEF M
  <2>2. PICK k \in M : \A m \in M : k <= m
    BY <2>1, LeastNatural
  <2> QED  BY <2>2 DEF M
<1>5. ASSUME NEW T \in X, S \subseteq T
      PROVE  T = S
  <2>1. Cardinality(T) <= Cardinality(S)
    BY <1>1, <1>2, <1>4
  <2>2. Cardinality(S) <= Cardinality(T)
    BY <1>1, <1>5, FS_Subset
  <2> QED  BY <1>1, <1>5, <2>1, <2>2, FS_Subset
<1> QED  BY <1>5

(* ... and some set of X contains no other.                                *)
LEMMA SmallestSet ==
  ASSUME NEW N, IsFiniteSet(N), NEW X, X \subseteq SUBSET N, X # {}
  PROVE  \E S \in X : \A T \in X : T \subseteq S => T = S
<1> DEFINE M == {Cardinality(S) : S \in X}
<1>1. \A S \in X : IsFiniteSet(S) /\ Cardinality(S) \in Nat
  BY FS_Subset, FS_CardinalityType
<1>2. PICK S \in X : \A T \in X : Cardinality(S) <= Cardinality(T)
  <2>1. M \subseteq Nat /\ M # {}
    BY <1>1
  <2> HIDE DEF M
  <2>2. PICK k \in M : \A m \in M : k <= m
    BY <2>1, LeastNatural
  <2> QED  BY <2>2 DEF M
<1>3. ASSUME NEW T \in X, T \subseteq S
      PROVE  T = S
  <2>1. Cardinality(T) <= Cardinality(S)
    BY <1>1, <1>3, FS_Subset
  <2> QED  BY <1>1, <1>2, <1>3, <2>1, FS_Subset
<1> QED  BY <1>3
-----------------------------------------------------------------------------
(* Fixed points                                                            *)

(* g adds to a set what F gives for it, until that adds nothing.           *)
Grows(g, F, N) == g = [S \in SUBSET N |-> IF S \cup F[S] = S THEN S ELSE g[S \cup F[S]]]

Monotone(F, N) == \A S, T \in SUBSET N : S \subseteq T => F[S] \subseteq F[T]

(* L is the least set that contains S and what F gives for it.             *)
Least(L, S, F, N) ==
    /\ L \in SUBSET N /\ S \subseteq L /\ F[L] \subseteq L
    /\ \A U \in SUBSET N : S \subseteq U /\ F[U] \subseteq U => L \subseteq U

(* Such a recursive function gives the least fixed point ...               *)
LEMMA GrowsToLeast ==
  ASSUME NEW N, IsFiniteSet(N), NEW F \in [SUBSET N -> SUBSET N], Monotone(F, N),
         NEW g, Grows(g, F, N), NEW S \in SUBSET N
  PROVE  Least(g[S], S, F, N)
<1> DEFINE Wrong == {T \in SUBSET N : ~ Least(g[T], T, F, N)}
<1> SUFFICES ASSUME Wrong # {} PROVE FALSE
  OBVIOUS
<1>1. PICK T \in Wrong : \A U \in Wrong : T \subseteq U => U = T
  <2>1. Wrong \subseteq SUBSET N
    OBVIOUS
  <2> HIDE DEF Wrong
  <2> QED  BY <2>1, LargestSet
<1>2. T \in SUBSET N /\ F[T] \in SUBSET N /\ ~ Least(g[T], T, F, N)
  OBVIOUS
<1>3. g[T] = IF T \cup F[T] = T THEN T ELSE g[T \cup F[T]]
  BY <1>2 DEF Grows
<1>4. CASE F[T] \subseteq T
  BY <1>2, <1>3, <1>4 DEF Least
<1>5. CASE ~ (F[T] \subseteq T)
  <2> HIDE DEF Wrong
  <2>0. T \cup F[T] \in SUBSET N /\ T \cup F[T] # T
    BY <1>2, <1>5
  <2>1. PICK U \in SUBSET N : U = T \cup F[T] /\ U # T
    BY <2>0
  <2>2. Least(g[U], U, F, N)
    BY <1>1, <2>1 DEF Wrong
  <2>3. g[T] = g[U]
    BY <1>3, <2>1
  <2>4. \A V \in SUBSET N : T \subseteq V /\ F[V] \subseteq V => U \subseteq V
    BY <1>2, <2>1 DEF Monotone
  <2>5. Least(g[U], T, F, N)
    BY <2>1, <2>2, <2>4 DEF Least
  <2> QED  BY <1>2, <2>3, <2>5
<1> QED  BY <1>4, <1>5

(* ... and there is one.                                                   *)
LEMMA GrowsExists ==
  ASSUME NEW N, NEW F \in [SUBSET N -> SUBSET N], Monotone(F, N)
  PROVE  \E g : Grows(g, F, N)
<1> DEFINE least(S) == {x \in N : \A U \in SUBSET N : S \subseteq U /\ F[U] \subseteq U => x \in U}
<1>1. PICK g : g = [S \in SUBSET N |-> least(S)]
  OBVIOUS
<1>2. ASSUME NEW S \in SUBSET N
      PROVE  g[S] = IF S \cup F[S] = S THEN S ELSE g[S \cup F[S]]
  <2>1. CASE S \cup F[S] = S
    BY <1>1, <2>1
  <2>2. CASE S \cup F[S] # S
    <3>1. PICK T \in SUBSET N : T = S \cup F[S]
      OBVIOUS
    <3>2. \A U \in SUBSET N : F[U] \subseteq U => (S \subseteq U <=> T \subseteq U)
      BY <3>1 DEF Monotone
    <3>3. least(S) = least(T)
      BY <3>2
    <3> QED  BY <1>1, <2>2, <3>1, <3>3
  <2> QED  BY <2>1, <2>2
<1>3. Grows(g, F, N)
  BY <1>1, <1>2 DEF Grows
<1> QED  BY <1>3

(* What a search from start reaches, in whatever graph: closed under the   *)
(* edges to the nodes that are not avoided, and nothing else.              *)
Closed(U, avoided) == \A s \in U, d \in Nodes \ avoided : << s, d >> \in edges => d \in U

LEMMA ReachIsClosure ==
  ASSUME NEW start \in SUBSET Nodes, NEW avoided
  PROVE  /\ Reach(start, avoided) \in SUBSET Nodes
         /\ start \ avoided \subseteq Reach(start, avoided)
         /\ Closed(Reach(start, avoided), avoided)
         /\ \A U \in SUBSET Nodes : start \ avoided \subseteq U /\ Closed(U, avoided)
                                      => Reach(start, avoided) \subseteq U
<1> DEFINE add(S) == {d \in Nodes \ avoided : \E s \in S : << s, d >> \in edges}
           next(S) == S \cup add(S)
           g == CHOOSE h : h = [S \in SUBSET Nodes |-> IF next(S) = S THEN S ELSE h[next(S)]]
<1>1. PICK F : F = [S \in SUBSET Nodes |-> add(S)]
  OBVIOUS
<1>2. Reach(start, avoided) = g[start \ avoided]
  BY DEF Reach
<1>3. F \in [SUBSET Nodes -> SUBSET Nodes] /\ IsFiniteSet(Nodes) /\ Monotone(F, Nodes)
  BY <1>1, GraphAssumption DEF Monotone
<1>4. \E h : Grows(h, F, Nodes)
  BY <1>3, GrowsExists
<1>5. \A S \in SUBSET Nodes : next(S) = S \cup F[S]
  BY <1>1
<1> HIDE DEF next
<1>6. ASSUME NEW h
      PROVE  Grows(h, F, Nodes)
             <=> h = [S \in SUBSET Nodes |-> IF next(S) = S THEN S ELSE h[next(S)]]
  BY <1>5 DEF Grows
<1>7. Grows(g, F, Nodes)
  BY <1>4, <1>6
<1> HIDE DEF g
<1>8. PICK S \in SUBSET Nodes : S = start \ avoided
  OBVIOUS
<1>9. Least(g[S], S, F, Nodes)
  BY <1>3, <1>7, GrowsToLeast
<1>10. \A U \in SUBSET Nodes : F[U] \subseteq U <=> Closed(U, avoided)
  BY <1>1 DEF Closed
<1> QED  BY <1>2, <1>8, <1>9, <1>10 DEF Least
-----------------------------------------------------------------------------
(* The graph and the analyses still to do                                  *)

Agendas == { << >>, << "process" >>, << "back", "topo" >>, << "topo" >>,
             << "back", "postdominators" >>, << "postdominators" >>, << "dominators" >>,
             << "ssa" >>, << "lifetimes" >> }

(* Live nodes are those that the entry reaches, and the graph is theirs.   *)
Reached ==
    /\ Entry \in live /\ edges \subseteq live \X live
    /\ \A U \in SUBSET Nodes : Entry \in U /\ Closed(U, {}) => live \subseteq U

GraphInv ==
    /\ passes \in Agendas
    /\ edges \subseteq Nodes \X Nodes /\ live \subseteq Nodes
    /\ passes # << "process" >> => Reached
    /\ tree # << >> \/ sweep # << >> => Pass("dominators") \/ Pass("postdominators")

LEMMA GraphInitially == Init => GraphInv
BY GraphAssumption DEF Init, GraphInit, Graphs, GraphInv, Agendas

(* What comes after an analysis                                            *)
LEMMA AgendaGoesOn ==
  ASSUME passes \in Agendas, passes # << >>, Head(passes) \in Analyses
  PROVE  Tail(passes) \in Agendas /\ Tail(passes) # << "process" >> /\ passes # << "process" >>
<1>1. passes # << "process" >> /\ passes # << "ssa" >> /\ passes # << "lifetimes" >>
  BY DEF Analyses
<1>2. CASE passes \in {<< "topo" >>, << "postdominators" >>, << "dominators" >>}
  <2>1. Tail(<< "topo" >>) = << >> /\ Tail(<< "postdominators" >>) = << >>
        /\ Tail(<< "dominators" >>) = << >>
    OBVIOUS
  <2>2. Tail(passes) = << >>
    BY <1>2, <2>1
  <2> QED  BY <1>1, <2>2 DEF Agendas
<1>3. CASE passes = << "back", "topo" >>
  <2>1. Tail(passes) = << "topo" >>
    BY <1>3
  <2> QED  BY <1>1, <2>1 DEF Agendas
<1>4. CASE passes = << "back", "postdominators" >>
  <2>1. Tail(passes) = << "postdominators" >>
    BY <1>4
  <2> QED  BY <1>1, <2>1 DEF Agendas
<1> QED  BY <1>1, <1>2, <1>3, <1>4 DEF Agendas

(* No user's turn comes after an analysis without being asked for.         *)
LEMMA NoLifetimesBehind ==
  ASSUME passes \in Agendas, passes # << >>, Head(passes) \in Analyses
  PROVE  passes # << "lifetimes" >> /\ Tail(passes) # << "lifetimes" >>
<1>1. passes # << "lifetimes" >> /\ passes # << "process" >> /\ passes # << "ssa" >>
  BY DEF Analyses
<1>2. Tail(<< "topo" >>) = << >> /\ Tail(<< "postdominators" >>) = << >>
      /\ Tail(<< "dominators" >>) = << >> /\ Tail(<< "back", "topo" >>) = << "topo" >>
      /\ Tail(<< "back", "postdominators" >>) = << "postdominators" >>
  OBVIOUS
<1>3. Tail(passes) \in {<< >>, << "topo" >>, << "postdominators" >>}
  BY <1>1, <1>2 DEF Agendas
<1> QED  BY <1>1, <1>3

LEMMA ProcessReaches ==
  ASSUME GraphInv, Process
  PROVE  GraphInv'
<1>1. PICK kept : kept = Reach({Entry}, {})
  OBVIOUS
<1>2. live' = kept /\ edges' = {e \in edges : e[1] \in kept}
  BY <1>1 DEF Process
<1>3. /\ kept \in SUBSET Nodes /\ Entry \in kept /\ Closed(kept, {})
      /\ \A U \in SUBSET Nodes : Entry \in U /\ Closed(U, {}) => kept \subseteq U
  <2>1. {Entry} \in SUBSET Nodes /\ {Entry} \ {} = {Entry}
    BY GraphAssumption
  <2> QED  BY <1>1, <2>1, ReachIsClosure
<1>4. \A e \in edges : e[1] \in kept => e[2] \in kept
  <2>1. \A e \in edges : e = << e[1], e[2] >> /\ e[1] \in Nodes /\ e[2] \in Nodes
    BY DEF GraphInv
  <2> QED  BY <1>3, <2>1 DEF Closed
<1>5. edges' \subseteq kept \X kept
  BY <1>2, <1>4 DEF GraphInv
<1>6. ASSUME NEW U \in SUBSET Nodes, Entry \in U, Closed(U, {})'
      PROVE  kept \subseteq U
  <2>1. PICK V \in SUBSET Nodes : V = U \cap kept
    OBVIOUS
  <2>2. ASSUME NEW s \in V, NEW d \in Nodes, << s, d >> \in edges
        PROVE  d \in V
    <3>1. << s, d >> \in edges' /\ d \in kept
      BY <1>2, <1>3, <2>1, <2>2 DEF Closed
    <3> QED  BY <1>6, <2>1, <2>2, <3>1 DEF Closed
  <2>3. Entry \in V /\ Closed(V, {})
    BY <1>3, <1>6, <2>1, <2>2 DEF Closed
  <2> QED  BY <1>3, <2>1, <2>3
<1>7. Reached'
  BY <1>2, <1>3, <1>5, <1>6 DEF Reached
<1>8. passes' \in Agendas /\ ~ (tree' # << >> \/ sweep' # << >>)
  <2>1. ~ Pass("dominators") /\ ~ Pass("postdominators") /\ tree' = tree /\ sweep' = sweep
    BY DEF Process, Pass
  <2>2. passes' \in Requests
    BY DEF Process
  <2> QED  BY <2>1, <2>2 DEF GraphInv, Requests, Agendas
<1>9. edges' \subseteq Nodes \X Nodes /\ live' \subseteq Nodes
  BY <1>2, <1>3, <1>5
<1> QED  BY <1>7, <1>8, <1>9 DEF GraphInv

(* Everything but process() leaves the graph alone.                        *)
LEMMA GraphFrame ==
  ASSUME GraphInv, UNCHANGED << edges, live >>, passes' \in Agendas,
         passes' # << "process" >> => passes # << "process" >>,
         tree' # << >> \/ sweep' # << >> => Pass("dominators")' \/ Pass("postdominators")'
  PROVE  GraphInv'
<1>1. passes' # << "process" >> => Reached'
  BY DEF GraphInv, Reached, Closed
<1> QED  BY <1>1 DEF GraphInv

LEMMA GraphPreserved == GraphInv /\ [Next]_vars => GraphInv'
<1> SUFFICES ASSUME GraphInv, [Next]_vars PROVE GraphInv'
  OBVIOUS
<1>1. CASE Process
  BY <1>1, ProcessReaches
<1>2. CASE UNCHANGED << edges, live, passes, tree, sweep >>
  <2>1. UNCHANGED << Pass("dominators"), Pass("postdominators") >>
    BY <1>2 DEF Pass
  <2> QED  BY <1>2, <2>1, GraphFrame DEF GraphInv
<1>3. CASE UNCHANGED << edges, live >> /\ NextPass /\ passes # << >> /\ Head(passes) \in Analyses
  <2>1. passes' = Tail(passes) /\ tree' = << >> /\ sweep' = << >>
    BY <1>3 DEF NextPass
  <2> QED  BY <1>3, <2>1, AgendaGoesOn, GraphFrame DEF GraphInv
<1>4. CASE SearchEnds
  <2>1. passes # << >> /\ Head(passes) \in Analyses /\ UNCHANGED << edges, live >>
    BY <1>4 DEF SearchEnds, Searching, Done
  <2>2. CASE NextPass
    BY <1>3, <2>1, <2>2
  <2>3. CASE passes' = passes /\ ~ (Head(passes) \in {"back", "topo"})
    <3>1. Pass("dominators")' \/ Pass("postdominators")'
      BY <2>1, <2>3 DEF Pass, Analyses
    <3> QED  BY <2>1, <2>3, <3>1, GraphFrame DEF GraphInv
  <2> QED  BY <1>4, <2>2, <2>3 DEF SearchEnds
<1>5. CASE Sweep
  <2>1. UNCHANGED << edges, live, passes >> /\ (Pass("dominators") \/ Pass("postdominators"))
    BY <1>5 DEF Sweep, GraphInv
  <2>2. Pass("dominators")' \/ Pass("postdominators")'
    BY <2>1 DEF Pass
  <2> QED  BY <2>1, <2>2, GraphFrame DEF GraphInv
<1>6. CASE SweepEnds
  <2>1. UNCHANGED << edges, live >> /\ (Pass("dominators") \/ Pass("postdominators"))
    BY <1>6 DEF SweepEnds, GraphInv
  <2>2. passes # << >> /\ Head(passes) \in Analyses
    BY <2>1 DEF Pass, Analyses
  <2>3. CASE NextPass
    BY <1>3, <2>1, <2>2, <2>3
  <2>4. CASE passes' = passes
    <3>1. Pass("dominators")' \/ Pass("postdominators")'
      BY <2>1, <2>4 DEF Pass
    <3> QED  BY <2>1, <2>4, <3>1, GraphFrame DEF GraphInv
  <2> QED  BY <1>6, <2>3, <2>4 DEF SweepEnds
<1>7. ASSUME NEW user \in {"ssa", "lifetimes"}, Continue(user),
             UNCHANGED << edges, live, tree, sweep >>
      PROVE  GraphInv'
  <2>1. passes = << >> /\ passes' = << user >>
    BY <1>7 DEF Continue, Done
  <2>2. tree' = << >> /\ sweep' = << >>
    BY <1>7, <2>1 DEF GraphInv, Pass
  <2>3. passes' \in Agendas /\ passes # << "process" >>
    BY <2>1 DEF Agendas
  <2> QED  BY <1>7, <2>2, <2>3, GraphFrame
<1>8. CASE FreshVars
  BY <1>7, <1>8 DEF FreshVars
<1>9. CASE Write
  BY <1>7, <1>9 DEF Write
<1>10. CASE Visit \/ Leave
  BY <1>2, <1>10 DEF Visit, Leave
<1>11. CASE UNCHANGED graphVars
  BY <1>2, <1>11 DEF graphVars
<1>12. GraphStep => Process \/ SearchEnds \/ Sweep \/ SweepEnds \/ Visit \/ Leave
  BY DEF GraphStep
<1>13. SsaStep => FreshVars \/ UNCHANGED graphVars
  BY DEF SsaStep, FixRead, FixInput, Run, Jump
<1>14. LifetimeStep => Write \/ UNCHANGED graphVars
  BY DEF LifetimeStep, ComputeLiveMap, ComputeDeadMaps, Follow
<1> QED  BY <1>1, <1>4, <1>5, <1>6, <1>8, <1>9, <1>10, <1>11, <1>12, <1>13, <1>14 DEF Next, vars
-----------------------------------------------------------------------------
(* The search                                                              *)

Going == passes # << >> /\ Head(passes) \in Analyses

(* The path and what it has left are nodes of the graph, each once.        *)
Listed ==
    /\ path \in Seq(live) /\ order \in Seq(live)
    /\ \A i, j \in 1 .. Len(path) : path[i] = path[j] => i = j
    /\ \A i, j \in 1 .. Len(order) : order[i] = order[j] => i = j
    /\ \A i \in 1 .. Len(path), j \in 1 .. Len(order) : path[i] # order[j]

(* The path leads on from a root.                                          *)
Tracks ==
    /\ path # << >> => path[1] \in Roots
    /\ \A i \in 1 .. Len(path) - 1 : path[i + 1] \in Onward(path[i])

(* What is avoided with d cannot be gone to from a root without d.         *)
Behind(d, n) == \E U \in SUBSET live :
    /\ Roots \ {d} \subseteq U
    /\ \A s \in U : Onward(s) \ {d} \subseteq U
    /\ n \notin U

OnPath(p)   == \E k \in 1 .. Len(path) : path[k] = p
Later(p, i) == OnPath(p) \/ \E j \in i + 1 .. Len(order) : order[j] = p

(* Of a node that was left, what it leads to is seen; the node it was      *)
(* visited from and whatever all ways to it have in common are left later. *)
Ordered == \A i \in 1 .. Len(order) :
    /\ Onward(order[i]) \subseteq Seen
    /\ order[i] \in Roots \/ \E p \in live : order[i] \in Onward(p) /\ Later(p, i)
    /\ \A d \in live : Behind(d, order[i]) /\ d # order[i] => Later(d, i)

SearchInv ==
    /\ Listed /\ Tracks /\ Ordered
    /\ ~ Going => path = << >> /\ order = << >>
    /\ path # << >> => tree = << >>

LEMMA SeenIs ==
  ASSUME Listed
  PROVE  Seen = {path[i] : i \in 1 .. Len(path)} \cup {order[i] : i \in 1 .. Len(order)}
BY DEF Listed, Seen, ToSet

LEMMA Appended ==
  ASSUME NEW N, NEW s \in Seq(N), NEW x \in N, NEW t, t = Append(s, x)
  PROVE  /\ t \in Seq(N) /\ t # << >> /\ Len(s) \in Nat /\ Len(t) = Len(s) + 1
         /\ t[Len(s) + 1] = x
         /\ \A i \in 1 .. Len(s) : t[i] = s[i]
OBVIOUS

LEMMA Shortened ==
  ASSUME NEW N, NEW s \in Seq(N), s # << >>, NEW t, t = Front(s)
  PROVE  /\ t \in Seq(N) /\ Len(s) \in Nat /\ Len(s) >= 1 /\ Len(t) = Len(s) - 1
         /\ Last(s) = s[Len(s)] /\ Last(s) \in N
         /\ \A i \in 1 .. Len(s) - 1 : t[i] = s[i]
<1>1. Len(s) \in Nat /\ Len(s) >= 1
  OBVIOUS
<1>2. t = SubSeq(s, 1, Len(s) - 1)
  BY DEF Front
<1>3. PICK n \in Nat : n = Len(s) - 1
  BY <1>1
<1>4. t \in Seq(N) /\ Len(t) = Len(s) - 1 /\ \A i \in 1 .. Len(s) - 1 : t[i] = s[i]
  <2>1. \A i \in 1 .. n : s[i] \in N
    BY <1>1, <1>3
  <2>2. /\ SubSeq(s, 1, n) \in Seq(N)
        /\ Len(SubSeq(s, 1, n)) = IF 1 <= n THEN n - 1 + 1 ELSE 0
        /\ \A i \in 1 .. n - 1 + 1 : SubSeq(s, 1, n)[i] = s[1 + i - 1]
    BY <2>1, SubSeqProperties
  <2>3. t = SubSeq(s, 1, n)
    BY <1>2, <1>3
  <2>4. \A i \in 1 .. n : i \in 1 .. n - 1 + 1 /\ 1 + i - 1 = i
    BY <1>3
  <2> QED  BY <1>3, <2>2, <2>3, <2>4
<1>5. Last(s) = s[Len(s)] /\ Last(s) \in N
  BY <1>1 DEF Last
<1> QED  BY <1>1, <1>4, <1>5

(* What cannot be gone around lies on the path.                            *)
LEMMA PathIsBehind ==
  ASSUME Listed, Tracks, NEW k \in 1 .. Len(path), NEW d, Behind(d, path[k]), d # path[k]
  PROVE  \E j \in 1 .. k - 1 : path[j] = d
<1>1. SUFFICES ASSUME \A j \in 1 .. k - 1 : path[j] # d PROVE FALSE
  OBVIOUS
<1>2. PICK U \in SUBSET live :
        /\ Roots \ {d} \subseteq U
        /\ \A s \in U : Onward(s) \ {d} \subseteq U
        /\ path[k] \notin U
  BY DEF Behind
<1>3. k \in Nat /\ Len(path) \in Nat /\ k <= Len(path)
  BY DEF Listed
<1>4. PICK W : W = {j \in 1 .. k : path[j] \notin U}
  OBVIOUS
<1>5. W \subseteq Nat /\ W # {}
  BY <1>2, <1>3, <1>4
<1>6. PICK j \in W : \A i \in W : j <= i
  BY <1>5, LeastNatural
<1>7. j \in 1 .. k /\ path[j] \notin U /\ path[j] # d /\ path # << >>
  BY <1>1, <1>3, <1>4, <1>6
<1>8. CASE j = 1
  BY <1>2, <1>7, <1>8 DEF Tracks
<1>9. CASE j # 1
  <2>1. PICK i \in 1 .. Len(path) - 1 : j = i + 1 /\ i \in 1 .. k
    <3>1. j - 1 \in 1 .. Len(path) - 1 /\ j = (j - 1) + 1 /\ j - 1 \in 1 .. k
      BY <1>3, <1>7, <1>9
    <3> QED  BY <3>1
  <2>2. path[i] \in U
    BY <1>3, <1>4, <1>6, <1>7, <2>1
  <2>3. path[j] \in Onward(path[i])
    BY <2>1 DEF Tracks
  <2> QED  BY <1>2, <1>7, <2>2, <2>3
<1> QED  BY <1>8, <1>9

LEMMA VisitSearches ==
  ASSUME SearchInv, Visit, Roots \subseteq live, \A s \in live : Onward(s) \subseteq live,
         UNCHANGED Roots, \A s : UNCHANGED Onward(s)
  PROVE  SearchInv'
<1>1. /\ UNCHANGED << edges, live, passes, order, tree >> /\ tree = << >> /\ Going
      /\ \E n \in Ahead : path' = Append(path, n)
  BY DEF Visit, Searching, Done, Going
<1>2. PICK n \in Ahead : path' = Append(path, n)
  BY <1>1
<1>3. Listed /\ path \in Seq(live) /\ order \in Seq(live) /\ Len(path) \in Nat
  BY DEF SearchInv, Listed
<1>4. n \in live /\ n \notin Seen
      /\ (path = << >> => n \in Roots) /\ (path # << >> => n \in Onward(path[Len(path)]))
  <2>1. CASE path = << >>
    BY <1>2, <2>1 DEF Ahead
  <2>2. CASE path # << >>
    <3>1. Last(path) = path[Len(path)] /\ Last(path) \in live
      BY <1>3, <2>2, Shortened
    <3> QED  BY <1>2, <2>2, <3>1 DEF Ahead
  <2> QED  BY <2>1, <2>2
<1>5. /\ path' \in Seq(live) /\ path' # << >> /\ Len(path') = Len(path) + 1
      /\ path'[Len(path) + 1] = n
      /\ \A i \in 1 .. Len(path) : path'[i] = path[i]
  BY <1>2, <1>3, <1>4, Appended
<1>6. \A i \in 1 .. Len(path') : i \in 1 .. Len(path) \/ i = Len(path) + 1
  BY <1>3, <1>5
<1>7. Listed'
  <2>1. \A i \in 1 .. Len(path) : path[i] # n
    BY <1>3, <1>4, SeenIs
  <2>2. \A j \in 1 .. Len(order) : order[j] # n
    BY <1>3, <1>4, SeenIs
  <2> QED  BY <1>1, <1>3, <1>5, <1>6, <2>1, <2>2 DEF Listed
<1>8. Tracks'
  <2>1. path'[1] \in Roots'
    <3>1. CASE path = << >>
      BY <1>4, <1>5, <3>1
    <3>2. CASE path # << >>
      BY <1>3, <1>5, <3>2 DEF SearchInv, Tracks
    <3> QED  BY <3>1, <3>2
  <2>2. ASSUME NEW i \in 1 .. Len(path') - 1
        PROVE  \E x \in live : x = path'[i] /\ path'[i + 1] \in Onward(x)
    <3>1. i \in 1 .. Len(path) /\ path'[i] = path[i] /\ path # << >> /\ path[i] \in live
      BY <1>3, <1>5
    <3>2. CASE i = Len(path)
      BY <1>4, <1>5, <3>1, <3>2
    <3>3. CASE i # Len(path)
      <4>1. i \in 1 .. Len(path) - 1 /\ path'[i + 1] = path[i + 1]
        BY <1>3, <1>5, <3>1, <3>3
      <4> QED  BY <3>1, <4>1 DEF SearchInv, Tracks
    <3> QED  BY <3>2, <3>3
  <2>3. \A i \in 1 .. Len(path') - 1 : path'[i + 1] \in Onward(path[i])'
    BY <2>2
  <2> QED  BY <2>1, <2>3 DEF Tracks
<1>9. Seen \subseteq Seen'
  BY <1>1, <1>3, <1>5, <1>6, <1>7, SeenIs DEF Seen, ToSet, Listed
<1>10. \A p, i : Later(p, i) => Later(p, i)'
  BY <1>1, <1>5, <1>6 DEF Later, OnPath
<1>11. \A d, m : Behind(d, m)' => Behind(d, m)
  BY <1>1 DEF Behind
<1>12. Ordered'
  BY <1>1, <1>9, <1>10, <1>11 DEF SearchInv, Ordered
<1> QED  BY <1>1, <1>7, <1>8, <1>12 DEF SearchInv, Going
(* What is left later stays so when the end of the path is left.           *)
LEMMA LaterStays ==
  ASSUME path \in Seq(live), order \in Seq(live), NEW n, n = path[Len(path)],
         Len(path') = Len(path) - 1, \A i \in 1 .. Len(path) - 1 : path'[i] = path[i],
         Len(order') = Len(order) + 1, order'[Len(order) + 1] = n,
         \A i \in 1 .. Len(order) : order'[i] = order[i],
         NEW p, NEW i \in 1 .. Len(order), Later(p, i)
  PROVE  Later(p, i)'
<1>1. Len(path) \in Nat /\ Len(order) \in Nat
  OBVIOUS
<1>2. CASE \E k \in 1 .. Len(path) : path[k] = p
  <2>1. PICK k \in 1 .. Len(path) : path[k] = p
    BY <1>2
  <2>2. CASE p = n
    <3>1. Len(order) + 1 \in i + 1 .. Len(order') /\ order'[Len(order) + 1] = p
      BY <1>1, <2>2
    <3> QED  BY <3>1 DEF Later
  <2>3. CASE p # n
    <3>1. k \in 1 .. Len(path') /\ path'[k] = p
      BY <1>1, <2>1, <2>3
    <3> QED  BY <3>1 DEF Later, OnPath
  <2> QED  BY <2>2, <2>3
<1>3. ASSUME NEW j \in i + 1 .. Len(order), order[j] = p
      PROVE  Later(p, i)'
  <2>1. j \in i + 1 .. Len(order') /\ j \in 1 .. Len(order)
    BY <1>1
  <2>2. order'[j] = p
    BY <1>3, <2>1
  <2> QED  BY <2>1, <2>2 DEF Later
<1> QED  BY <1>2, <1>3 DEF Later, OnPath

LEMMA LeaveSearches ==
  ASSUME SearchInv, Leave, Roots \subseteq live, \A s \in live : Onward(s) \subseteq live,
         UNCHANGED Roots, \A s : UNCHANGED Onward(s)
  PROVE  SearchInv'
<1>1. /\ UNCHANGED << edges, live, passes, tree >> /\ tree = << >> /\ Going
      /\ path # << >> /\ Ahead = {}
      /\ path' = Front(path) /\ order' = Append(order, Last(path))
  BY DEF Leave, Searching, Done, Going
<1>2. Listed /\ Tracks /\ path \in Seq(live) /\ order \in Seq(live) /\ Len(order) \in Nat
  BY DEF SearchInv, Listed
<1>3. /\ path' \in Seq(live) /\ Len(path) \in Nat /\ Len(path) >= 1
      /\ Len(path') = Len(path) - 1
      /\ \A i \in 1 .. Len(path) - 1 : path'[i] = path[i]
      /\ Last(path) = path[Len(path)] /\ Last(path) \in live
  BY <1>1, <1>2, Shortened
<1>4. PICK n \in live : n = Last(path) /\ n = path[Len(path)]
  BY <1>3
<1>5. /\ order' \in Seq(live) /\ Len(order') = Len(order) + 1
      /\ order'[Len(order) + 1] = n
      /\ \A i \in 1 .. Len(order) : order'[i] = order[i]
  BY <1>1, <1>2, <1>4, Appended
<1>6. /\ \A i \in 1 .. Len(order') : i \in 1 .. Len(order) \/ i = Len(order) + 1
      /\ \A i \in 1 .. Len(path') : i \in 1 .. Len(path) - 1 /\ i \in 1 .. Len(path)
      /\ \A i \in 1 .. Len(path) : i \in 1 .. Len(path') \/ i = Len(path)
      /\ Len(path) \in 1 .. Len(path) /\ Len(order) + 1 \in 1 .. Len(order')
  BY <1>2, <1>3, <1>5
<1>7. Listed'
  <2>1. \A i \in 1 .. Len(path') : path'[i] # n /\ path'[i] = path[i]
    <3>1. \A i \in 1 .. Len(path') : i # Len(path)
      BY <1>3
    <3> QED  BY <1>2, <1>3, <1>4, <1>6, <3>1 DEF Listed
  <2>2. \A j \in 1 .. Len(order) : order[j] # n
    BY <1>2, <1>4, <1>6 DEF Listed
  <2>3. \A i, j \in 1 .. Len(order') : order'[i] = order'[j] => i = j
    BY <1>2, <1>5, <1>6, <2>2 DEF Listed
  <2>4. \A i, j \in 1 .. Len(path') : path'[i] = path'[j] => i = j
    BY <1>2, <1>6, <2>1 DEF Listed
  <2>5. \A i \in 1 .. Len(path'), j \in 1 .. Len(order') : path'[i] # order'[j]
    BY <1>2, <1>5, <1>6, <2>1 DEF Listed
  <2> QED  BY <1>1, <1>3, <1>5, <2>3, <2>4, <2>5 DEF Listed
<1>8. Tracks'
  <2>1. path' # << >> => path'[1] \in Roots'
    <3>1. path' # << >> => 1 \in 1 .. Len(path) - 1
      BY <1>3
    <3> QED  BY <1>1, <1>2, <1>3, <3>1 DEF Tracks
  <2>2. ASSUME NEW i \in 1 .. Len(path') - 1
        PROVE  path'[i + 1] \in Onward(path'[i])
    <3>1. i \in 1 .. Len(path) - 1 /\ i + 1 \in 1 .. Len(path) - 1
      BY <1>3
    <3> QED  BY <1>2, <1>3, <3>1 DEF Tracks
  <2>3. \A i \in 1 .. Len(path') - 1 : path'[i + 1] \in Onward(path[i])'
    BY <2>2
  <2> QED  BY <2>1, <2>3 DEF Tracks
<1>9. Seen' = Seen
  <2>1. Seen' = {path'[i] : i \in 1 .. Len(path')} \cup {order'[i] : i \in 1 .. Len(order')}
    BY <1>7, SeenIs DEF Listed, Seen, ToSet
  <2>2. {path'[i] : i \in 1 .. Len(path')} \cup {n} = {path[i] : i \in 1 .. Len(path)}
    BY <1>3, <1>4, <1>6
  <2>3. {order'[i] : i \in 1 .. Len(order')} = {order[i] : i \in 1 .. Len(order)} \cup {n}
    BY <1>2, <1>5, <1>6
  <2>4. Seen = {path[i] : i \in 1 .. Len(path)} \cup {order[i] : i \in 1 .. Len(order)}
    BY <1>2, SeenIs
  <2>5. {n} \cup {path'[i] : i \in 1 .. Len(path')} \cup {order[i] : i \in 1 .. Len(order)} = Seen
    BY <2>2, <2>4
  <2> QED  BY <2>1, <2>3, <2>5
<1>10. ASSUME NEW p, NEW i \in 1 .. Len(order), Later(p, i)
       PROVE  Later(p, i)'
  BY <1>2, <1>3, <1>4, <1>5, <1>10, LaterStays
<1>11. \A d, m : Behind(d, m)' => Behind(d, m)
  BY <1>1 DEF Behind
<1>0. PICK last \in Nat : last = Len(order) + 1
  BY <1>2
<1>12. ASSUME NEW p \in live, NEW k \in 1 .. Len(path) - 1, path[k] = p
       PROVE  Later(p, last)'
  <2>1. k \in 1 .. Len(path') /\ path'[k] = p
    BY <1>3, <1>12
  <2> QED  BY <2>1 DEF Later, OnPath
<1>13. Onward(n) \subseteq Seen
  <2>1. Onward(n) \ Seen = {}
    BY <1>1, <1>4 DEF Ahead
  <2> QED  BY <2>1
<1>14. n \in Roots \/ \E p \in live : n \in Onward(p) /\ Later(p, last)'
  <2>1. CASE Len(path) = 1
    BY <1>1, <1>2, <1>4, <2>1 DEF Tracks
  <2>2. CASE Len(path) # 1
    <3>1. PICK k \in 1 .. Len(path) - 1 : k + 1 = Len(path)
      <4>1. Len(path) - 1 \in 1 .. Len(path) - 1 /\ (Len(path) - 1) + 1 = Len(path)
        BY <1>3, <2>2
      <4> QED  BY <4>1
    <3>2. path[k] \in live /\ n \in Onward(path[k])
      BY <1>2, <1>3, <1>4, <3>1 DEF Tracks
    <3> QED  BY <1>12, <3>2
  <2> QED  BY <2>1, <2>2
<1>15. ASSUME NEW d \in live, Behind(d, n), d # n
       PROVE  Later(d, last)'
  <2>1. \E j \in 1 .. Len(path) - 1 : path[j] = d
    BY <1>2, <1>4, <1>6, <1>15, PathIsBehind
  <2> QED  BY <1>12, <2>1
<1>16. ASSUME NEW i \in 1 .. Len(order')
       PROVE  /\ Onward(order'[i]) \subseteq Seen
              /\ order'[i] \in Roots \/ \E p \in live : order'[i] \in Onward(p) /\ Later(p, i)'
              /\ \A d \in live : Behind(d, order'[i]) /\ d # order'[i] => Later(d, i)'
  <2>1. CASE i \in 1 .. Len(order)
    <3>1. order'[i] = order[i]
      BY <1>5, <2>1
    <3>2. /\ Onward(order[i]) \subseteq Seen
          /\ order[i] \in Roots \/ \E p \in live : order[i] \in Onward(p) /\ Later(p, i)
          /\ \A d \in live : Behind(d, order[i]) /\ d # order[i] => Later(d, i)
      BY <2>1 DEF SearchInv, Ordered
    <3> QED  BY <1>10, <2>1, <3>1, <3>2
  <2>2. CASE i = Len(order) + 1
    <3>1. order'[i] = n
      BY <1>5, <2>2
    <3>2. n \in Roots \/ \E p \in live : n \in Onward(p) /\ Later(p, i)'
      BY <1>0, <1>14, <2>2
    <3>3. \A d \in live : Behind(d, n) /\ d # n => Later(d, i)'
      BY <1>0, <1>15, <2>2
    <3> QED  BY <1>13, <3>1, <3>2, <3>3
  <2> QED  BY <1>6, <2>1, <2>2
<1>17. Ordered'
  <2>1. \A i \in 1 .. Len(order') :
          /\ Onward(order[i])' \subseteq Seen'
          /\ (order[i] \in Roots)' \/ \E p \in live : (order[i] \in Onward(p))' /\ Later(p, i)'
          /\ \A d \in live : Behind(d, order[i])' /\ d # order'[i] => Later(d, i)'
    BY <1>1, <1>9, <1>11, <1>16
  <2> QED  BY <1>1, <2>1 DEF Ordered
<1> QED  BY <1>1, <1>7, <1>8, <1>17 DEF SearchInv, Going
-----------------------------------------------------------------------------
(* Back edges                                                              *)

(* Every way from the entry to n leads through d.                          *)
Cut(d, n) == \E U \in SUBSET live :
    /\ {Entry} \ {d} \subseteq U
    /\ \A s \in U : Succs(s) \ {d} \subseteq U
    /\ n \notin U

(* A way from e[2] to e[1] along edges that do not lead to a dominator     *)
Circular(e) == \E C \in SUBSET live :
    /\ e[1] \in C /\ e[2] \in C
    /\ \A x \in C \ {e[2]} : \E s \in C : x \in Succs(s) /\ ~ Cut(x, s)

(* Without the back edges the graph has no cycle, every node but the entry *)
(* has a predecessor, and no edge leads to a dominator.                    *)
Ranked ==
    /\ \E r \in [live -> Nat] : \A e \in edges \ backEdges : r[e[1]] < r[e[2]]
    /\ \A n \in live \ {Entry} : \E p \in live : << p, n >> \in edges \ backEdges
    /\ \A e \in edges : Cut(e[2], e[1]) => e \in backEdges

(* While they are collected: an edge from a node that was left is a back   *)
(* edge, or leads to one that was left before ...                          *)
Collected == \A i \in 1 .. Len(order) : \A d \in Succs(order[i]) :
    << order[i], d >> \in backEdges \/ \E j \in 1 .. i - 1 : order[j] = d

(* ... and a back edge does not.                                           *)
Retreating == \A e \in backEdges : \E i \in 1 .. Len(order) :
    order[i] = e[1] /\ (e[2] = e[1] \/ Later(e[2], i))

BackInv ==
    /\ backEdges # None => backEdges \in SUBSET edges /\ \A e \in backEdges : Circular(e)
    /\ passes = << "process" >> => backEdges = None
    /\ Pass("back") => (order = << >> <=> backEdges = None)
    /\ Pass("back") /\ backEdges # None => Collected /\ Retreating
    /\ Pass("topo") \/ Pass("postdominators") => backEdges # None
    /\ ~ Pass("back") /\ backEdges # None => Ranked

LEMMA ForthAndBack ==
  ASSUME Pass("back") \/ Pass("dominators")
  PROVE  Roots = {Entry} /\ \A s : Onward(s) = Succs(s)
BY DEF Pass, Roots, Onward

LEMMA BehindIsCut ==
  ASSUME Pass("back") \/ Pass("dominators"), NEW d, NEW n
  PROVE  Behind(d, n) <=> Cut(d, n)
BY ForthAndBack DEF Behind, Cut

(* The part of the path from one of its nodes on is circular with an edge  *)
(* back to it.                                                             *)
LEMMA ClosingIsCircular ==
  ASSUME Listed, Tracks, Pass("back"), NEW k \in 1 .. Len(path), NEW e,
         e[1] = path[Len(path)], e[2] = path[k]
  PROVE  Circular(e)
<1>1. Len(path) \in Nat /\ k \in Nat /\ k <= Len(path) /\ \A i \in 1 .. Len(path) : path[i] \in live
  BY DEF Listed
<1>2. PICK C : C = {path[m] : m \in k .. Len(path)}
  OBVIOUS
<1>3. C \in SUBSET live /\ e[1] \in C /\ e[2] \in C
  <2>1. k \in k .. Len(path) /\ Len(path) \in k .. Len(path)
        /\ \A m \in k .. Len(path) : m \in 1 .. Len(path)
    BY <1>1
  <2> QED  BY <1>1, <1>2, <2>1
<1>4. ASSUME NEW x \in C, x # e[2]
      PROVE  \E s \in C : x \in Succs(s) /\ ~ Cut(x, s)
  <2>1. PICK m \in k .. Len(path) : x = path[m]
    BY <1>2
  <2>2. m # k
    BY <1>4, <2>1
  <2>3. PICK i \in Nat : i = m - 1
    BY <1>1, <2>1, <2>2
  <2>4. i \in k .. Len(path) /\ i \in 1 .. Len(path) - 1 /\ i \in 1 .. Len(path)
        /\ m = i + 1 /\ m \in 1 .. Len(path)
    BY <1>1, <2>1, <2>2, <2>3
  <2>5. path[i] \in C /\ x \in Succs(path[i])
    <3>1. path[i + 1] \in Onward(path[i])
      BY <2>4 DEF Tracks
    <3> QED  BY <1>2, <2>1, <2>4, <3>1, ForthAndBack
  <2>6. ~ Cut(x, path[i])
    <3> SUFFICES ASSUME Cut(x, path[i]) PROVE FALSE
      OBVIOUS
    <3>1. x # path[i]
      BY <1>1, <2>1, <2>4 DEF Listed
    <3>2. PICK j \in 1 .. i - 1 : path[j] = x
      BY <2>4, <3>1, BehindIsCut, PathIsBehind
    <3>3. j \in 1 .. Len(path) /\ j # m
      BY <1>1, <2>4, <3>2
    <3> QED  BY <2>1, <2>4, <3>2, <3>3 DEF Listed
  <2> QED  BY <2>5, <2>6
<1> QED  BY <1>3, <1>4 DEF Circular

(* What the search for back edges has left when it ends.                   *)
LEMMA SearchIsComplete ==
  ASSUME SearchInv, path = << >>, Ahead = {}
  PROVE  /\ \A n \in Roots : \E i \in 1 .. Len(order) : order[i] = n
         /\ \A i \in 1 .. Len(order) : \A d \in Onward(order[i]) :
              \E j \in 1 .. Len(order) : order[j] = d
<1>1. Listed /\ Ordered /\ Len(path) = 0
  BY DEF SearchInv
<1>2. Seen = {order[i] : i \in 1 .. Len(order)}
  <2>1. {path[i] : i \in 1 .. Len(path)} = {}
    BY <1>1
  <2> QED  BY <1>1, <2>1, SeenIs
<1>3. Roots \subseteq Seen
  BY DEF Ahead
<1>4. \A i \in 1 .. Len(order) : Onward(order[i]) \subseteq Seen
  BY <1>1 DEF Ordered
<1> QED  BY <1>2, <1>3, <1>4

(* A search along all edges from the entry has left every live node.       *)
LEMMA AllLeft ==
  ASSUME SearchInv, Reached, live \subseteq Nodes, path = << >>, Ahead = {},
         Pass("back") \/ Pass("dominators"), NEW n \in live
  PROVE  \E i \in 1 .. Len(order) : order[i] = n
<1>1. PICK U : U = {order[i] : i \in 1 .. Len(order)}
  OBVIOUS
<1>2. U \in SUBSET Nodes
  BY <1>1 DEF SearchInv, Listed
<1>3. Entry \in U
  BY <1>1, SearchIsComplete, ForthAndBack
<1>4. Closed(U, {})
  <2>1. ASSUME NEW s \in U, NEW d \in Nodes, << s, d >> \in edges
        PROVE  d \in U
    <3>1. PICK i \in 1 .. Len(order) : order[i] = s
      BY <1>1
    <3>2. d \in Onward(order[i])
      BY <2>1, <3>1, ForthAndBack DEF Succs
    <3> QED  BY <1>1, <3>2, SearchIsComplete
  <2> QED  BY <2>1 DEF Closed
<1> QED  BY <1>1, <1>2, <1>3, <1>4 DEF Reached

LEMMA CollectedAreRanked ==
  ASSUME GraphInv, SearchInv, BackInv, Pass("back"), path = << >>, Ahead = {}
  PROVE  backEdges # None /\ Ranked
<1>1. Reached /\ live \subseteq Nodes /\ edges \subseteq live \X live /\ Entry \in live
  <2>1. passes # << "process" >>
    BY DEF Pass
  <2> QED  BY <2>1 DEF GraphInv, Reached
<1>2. \A n \in live : \E i \in 1 .. Len(order) : order[i] = n
  BY <1>1, AllLeft
<1>3. Listed /\ Ordered /\ Len(path) = 0 /\ Len(order) \in Nat
  BY DEF SearchInv, Listed
<1>4. backEdges # None /\ Collected /\ Retreating
  BY <1>1, <1>2 DEF BackInv
<1>5. PICK place \in [live -> Nat] : \A n \in live : place[n] \in 1 .. Len(order) /\ order[place[n]] = n
  <2>1. PICK f : f = [n \in live |-> CHOOSE i \in 1 .. Len(order) : order[i] = n]
    OBVIOUS
  <2>2. \A n \in live : f[n] \in 1 .. Len(order) /\ order[f[n]] = n
    BY <1>2, <2>1
  <2> QED  BY <2>1, <2>2
<1>6. \A i \in 1 .. Len(order) : order[i] \in live /\ place[order[i]] = i
  BY <1>3, <1>5 DEF Listed
<1>12. PICK r \in [live -> Nat] : \A n \in live : r[n] = Len(order) - place[n]
  <2>1. \A n \in live : Len(order) - place[n] \in Nat
    BY <1>3, <1>5
  <2>2. [n \in live |-> Len(order) - place[n]] \in [live -> Nat]
    BY <2>1
  <2> QED  BY <2>2
<1>7. \A e \in edges : e = << e[1], e[2] >> /\ e[1] \in live /\ e[2] \in live
                       /\ e[2] \in Succs(e[1])
  <2> TAKE e \in edges
  <2>1. PICK s \in live, d \in live : e = << s, d >>
    BY <1>1
  <2>2. d \in Succs(s)
    BY <1>1, <2>1 DEF Succs
  <2> QED  BY <2>1, <2>2
<1>8. ASSUME NEW e \in edges, e \notin backEdges
      PROVE  r[e[1]] < r[e[2]]
  <2>1. PICK i \in 1 .. Len(order) : order[i] = e[1] /\ i = place[e[1]]
    BY <1>5, <1>7
  <2>2. PICK j \in 1 .. i - 1 : order[j] = e[2]
    BY <1>4, <1>7, <1>8, <2>1 DEF Collected
  <2>3. j \in 1 .. Len(order) /\ j < i /\ j = place[e[2]]
    BY <1>3, <1>6, <2>1, <2>2
  <2> QED  BY <1>3, <1>7, <1>12, <2>1, <2>3
<1>9. \A p, i : Later(p, i) => \E j \in i + 1 .. Len(order) : order[j] = p
  BY <1>3 DEF Later, OnPath
<1>10. ASSUME NEW n \in live, n # Entry
       PROVE  \E p \in live : << p, n >> \in edges \ backEdges
  <2>1. PICK i \in 1 .. Len(order) : order[i] = n
    BY <1>2
  <2>2. PICK p \in live : n \in Succs(p) /\ Later(p, i)
    BY <1>3, <1>10, <2>1, ForthAndBack DEF Ordered
  <2>3. PICK j \in i + 1 .. Len(order) : order[j] = p
    BY <1>9, <2>2
  <2>4. i \in Nat /\ j \in 1 .. Len(order) /\ i < j
    BY <1>3, <2>1, <2>3
  <2>5. ASSUME << p, n >> \in backEdges
        PROVE  FALSE
    <3>1. PICK k \in 1 .. Len(order) : order[k] = p /\ (n = p \/ Later(n, k))
      BY <1>4, <2>5 DEF Retreating
    <3>2. k = j
      BY <1>3, <2>3, <2>4, <3>1 DEF Listed
    <3>6. \A x, y \in 1 .. Len(order) : order[x] = order[y] => x = y
      BY <1>3 DEF Listed
    <3>3. n # p
      <4>1. i # j
        BY <2>4
      <4> QED  BY <2>1, <2>3, <2>4, <3>6, <4>1
    <3>4. PICK m \in k + 1 .. Len(order) : order[m] = n
      BY <1>9, <3>1, <3>3
    <3>5. m \in 1 .. Len(order) /\ m # i
      BY <1>3, <2>4, <3>2, <3>4
    <3> QED  BY <2>1, <3>4, <3>5, <3>6
  <2> QED  BY <2>2, <2>5 DEF Succs
<1>11. ASSUME NEW e \in edges, Cut(e[2], e[1])
       PROVE  e \in backEdges
  <2>1. PICK i \in 1 .. Len(order) : order[i] = e[1]
    BY <1>2, <1>7
  <2>2. SUFFICES ASSUME e \notin backEdges PROVE FALSE
    OBVIOUS
  <2>3. PICK j \in 1 .. i - 1 : order[j] = e[2]
    BY <1>4, <1>7, <2>1, <2>2 DEF Collected
  <2>4. j \in 1 .. Len(order) /\ j < i /\ i \in Nat
    BY <1>3, <2>1, <2>3
  <2>5. e[2] # order[i]
    BY <1>3, <2>3, <2>4 DEF Listed
  <2>6. Behind(e[2], order[i])
    BY <1>11, <2>1, BehindIsCut
  <2>7. Later(e[2], i)
    BY <1>3, <1>7, <2>5, <2>6 DEF Ordered
  <2>8. PICK m \in i + 1 .. Len(order) : order[m] = e[2]
    BY <1>9, <2>7
  <2>9. m \in 1 .. Len(order) /\ m # j
    BY <1>3, <2>4, <2>8
  <2> QED  BY <1>3, <2>3, <2>4, <2>8, <2>9 DEF Listed
<1> QED  BY <1>4, <1>8, <1>10, <1>11 DEF Ranked
LEMMA CutsStay ==
  ASSUME UNCHANGED << edges, live >>
  PROVE  /\ \A d, n : Cut(d, n)' = Cut(d, n)
         /\ \A e : Circular(e)' = Circular(e)
<1>1. \A s : UNCHANGED Succs(s)
  BY DEF Succs
<1>2. \A d, n : Cut(d, n)' = Cut(d, n)
  BY <1>1 DEF Cut
<1> QED  BY <1>1, <1>2 DEF Circular

LEMMA RankedStays ==
  ASSUME UNCHANGED << edges, live, backEdges >>, Ranked
  PROVE  Ranked'
<1>1. \A d, n : Cut(d, n)' = Cut(d, n)
  BY CutsStay
<1> QED  BY <1>1 DEF Ranked

LEMMA LeaveCollects ==
  ASSUME GraphInv, SearchInv, BackInv, Leave, Pass("back")
  PROVE  BackInv'
<1>1. /\ UNCHANGED << edges, live, passes, tree >> /\ path # << >> /\ Ahead = {}
      /\ path' = Front(path) /\ order' = Append(order, Last(path))
      /\ backEdges' = (IF backEdges = None THEN {} ELSE backEdges) \cup Closing(Last(path))
  BY DEF Leave
<1>2. live \subseteq Nodes /\ edges \subseteq live \X live
  <2>1. passes # << "process" >>
    BY DEF Pass
  <2> QED  BY <2>1 DEF GraphInv, Reached
<1>3. Listed /\ Tracks /\ path \in Seq(live) /\ order \in Seq(live) /\ Len(order) \in Nat
  BY DEF SearchInv, Listed
<1>4. /\ path' \in Seq(live) /\ Len(path) \in Nat /\ Len(path) >= 1
      /\ Len(path') = Len(path) - 1
      /\ \A i \in 1 .. Len(path) - 1 : path'[i] = path[i]
      /\ Last(path) = path[Len(path)] /\ Last(path) \in live
  BY <1>1, <1>3, Shortened
<1>5. PICK n \in live : n = Last(path) /\ n = path[Len(path)]
  BY <1>4
<1>6. /\ order' \in Seq(live) /\ order' # << >> /\ Len(order') = Len(order) + 1
      /\ order'[Len(order) + 1] = n
      /\ \A i \in 1 .. Len(order) : order'[i] = order[i]
  BY <1>1, <1>3, <1>5, Appended
<1>7. PICK B \in SUBSET edges : /\ B = IF backEdges = None THEN {} ELSE backEdges
                                /\ backEdges' = B \cup Closing(n)
  <2>1. (IF backEdges = None THEN {} ELSE backEdges) \in SUBSET edges
    BY DEF BackInv
  <2> QED  BY <1>1, <1>5, <2>1
<1>8. ToSet(path) = {path[i] : i \in 1 .. Len(path)}
  BY <1>3 DEF ToSet
<1>9. ASSUME NEW e \in Closing(n)
      PROVE  e \in edges /\ e[1] = n /\ e = << n, e[2] >> /\ \E k \in 1 .. Len(path) : path[k] = e[2]
  BY <1>8 DEF Closing, Succs
<1>10. backEdges' \in SUBSET edges
  BY <1>7, <1>9
<1>11. backEdges' # None
  BY <1>2, <1>10, GraphAssumption
<1>12. \A e \in backEdges' : Circular(e)'
  <2>1. \A e \in B : Circular(e)
    BY <1>7 DEF BackInv
  <2>2. \A e \in Closing(n) : Circular(e)
    BY <1>3, <1>5, <1>9, ClosingIsCircular
  <2> QED  BY <1>1, <1>7, <2>1, <2>2, CutsStay
<1>13. \A i \in 1 .. Len(order') : i \in 1 .. Len(order) \/ i = Len(order) + 1
  BY <1>3, <1>6
<1>14. B # {} => Collected /\ Retreating /\ B = backEdges
  BY <1>7 DEF BackInv
<1>15. backEdges = None => Len(order) = 0
  BY DEF BackInv
<1>16. Collected'
  <2>1. ASSUME NEW i \in 1 .. Len(order'), NEW d \in Succs(order'[i])
        PROVE  << order'[i], d >> \in backEdges' \/ \E j \in 1 .. i - 1 : order'[j] = d
    <3>1. CASE i \in 1 .. Len(order)
      <4>1. backEdges # None /\ Collected /\ B = backEdges
        BY <1>7, <1>15, <3>1 DEF BackInv
      <4>2. << order[i], d >> \in backEdges \/ \E j \in 1 .. i - 1 : order[j] = d
        BY <1>6, <2>1, <3>1, <4>1 DEF Collected
      <4>3. \A j \in 1 .. i - 1 : j \in 1 .. Len(order)
        BY <1>3, <3>1
      <4> QED  BY <1>6, <1>7, <3>1, <4>1, <4>2, <4>3
    <3>2. CASE i = Len(order) + 1
      <4>1. d \in Seen
        <5>1. d \in Onward(Last(path))
          BY <1>5, <1>6, <2>1, <3>2, ForthAndBack
        <5> QED  BY <1>1, <5>1 DEF Ahead
      <4>2. CASE d \in ToSet(path)
        <5>1. << n, d >> \in Closing(n)
          BY <1>6, <2>1, <3>2, <4>2 DEF Closing
        <5> QED  BY <1>6, <1>7, <3>2, <5>1
      <4>3. CASE d \notin ToSet(path)
        <5>1. PICK j \in 1 .. Len(order) : order[j] = d
          BY <1>3, <1>8, <4>1, <4>3, SeenIs
        <5>2. j \in 1 .. i - 1
          BY <1>3, <3>2, <5>1
        <5> QED  BY <1>6, <5>1, <5>2
      <4> QED  BY <4>2, <4>3
    <3> QED  BY <1>13, <3>1, <3>2
  <2>2. \A s : Succs(s)' = Succs(s)
    BY <1>1 DEF Succs
  <2>3. \A i \in 1 .. Len(order') : \A d \in Succs(order[i])' :
          << order'[i], d >> \in backEdges' \/ \E j \in 1 .. i - 1 : order'[j] = d
    BY <2>1, <2>2
  <2> QED  BY <2>3 DEF Collected
<1>17. Retreating'
  <2>1. ASSUME NEW e \in B
        PROVE  \E i \in 1 .. Len(order') : order'[i] = e[1] /\ (e[2] = e[1] \/ Later(e[2], i)')
    <3>1. PICK i \in 1 .. Len(order) : order[i] = e[1] /\ (e[2] = e[1] \/ Later(e[2], i))
      BY <1>14, <2>1 DEF Retreating
    <3>2. i \in 1 .. Len(order') /\ order'[i] = e[1]
      BY <1>3, <1>6, <3>1
    <3>3. Later(e[2], i) => Later(e[2], i)'
      BY <1>3, <1>4, <1>5, <1>6, LaterStays
    <3> QED  BY <3>1, <3>2, <3>3
  <2>2. ASSUME NEW e \in Closing(n)
        PROVE  \E i \in 1 .. Len(order') : order'[i] = e[1] /\ (e[2] = e[1] \/ Later(e[2], i)')
    <3>1. PICK i \in 1 .. Len(order') : i = Len(order) + 1 /\ order'[i] = e[1]
      BY <1>3, <1>6, <1>9
    <3>2. PICK k \in 1 .. Len(path) : path[k] = e[2]
      BY <1>9
    <3>3. CASE k = Len(path)
      BY <1>5, <1>9, <3>1, <3>2, <3>3
    <3>4. CASE k # Len(path)
      <4>1. k \in 1 .. Len(path') /\ path'[k] = e[2]
        BY <1>4, <3>2, <3>4
      <4>2. Later(e[2], i)'
        BY <4>1 DEF Later, OnPath
      <4> QED  BY <3>1, <4>2
    <3> QED  BY <3>3, <3>4
  <2> QED  BY <1>7, <2>1, <2>2 DEF Retreating
<1>18. Pass("back")' /\ ~ Pass("topo")' /\ ~ Pass("postdominators")'
       /\ passes' # << "process" >>
  BY <1>1 DEF Pass
<1> QED  BY <1>1, <1>6, <1>10, <1>11, <1>12, <1>16, <1>17, <1>18 DEF BackInv
-----------------------------------------------------------------------------
(* Loops                                                                   *)

(* What a header's loop has to contain                                     *)
Loops(U, h) ==
    /\ h \in U /\ \A e \in backEdges : e[2] = h => e[1] \in U
    /\ \A n \in U \ {h} : Preds(n) \subseteq U

LEMMA BodyIsLeast ==
  ASSUME backEdges \in SUBSET edges, edges \subseteq Nodes \X Nodes, NEW h \in Nodes
  PROVE  /\ Body(h) \in SUBSET Nodes /\ Loops(Body(h), h)
         /\ \A U \in SUBSET Nodes : Loops(U, h) => Body(h) \subseteq U
<1> DEFINE next(S) == S \cup UNION {Preds(n) : n \in S \ {h}}
           g == CHOOSE f : f = [S \in SUBSET Nodes |-> IF next(S) = S THEN S ELSE f[next(S)]]
<1>1. PICK S \in SUBSET Nodes : S = {h} \cup {e[1] : e \in {b \in backEdges : b[2] = h}}
  <2>1. \A e \in backEdges : e[1] \in Nodes
    OBVIOUS
  <2>2. {h} \cup {e[1] : e \in {b \in backEdges : b[2] = h}} \in SUBSET Nodes
    BY <2>1
  <2> QED  BY <2>2
<1>2. Body(h) = g[S]
  BY <1>1 DEF Body
<1>3. \A n : Preds(n) \subseteq Nodes
  BY DEF Preds
<1>4. PICK F : F = [T \in SUBSET Nodes |-> {p \in Nodes : \E n \in T \ {h} : p \in Preds(n)}]
  OBVIOUS
<1>5. F \in [SUBSET Nodes -> SUBSET Nodes] /\ Monotone(F, Nodes)
  BY <1>4 DEF Monotone
<1>6. \A T \in SUBSET Nodes : next(T) = T \cup F[T]
  <2> TAKE T \in SUBSET Nodes
  <2>1. F[T] = {p \in Nodes : \E n \in T \ {h} : p \in Preds(n)}
    BY <1>4
  <2>2. UNION {Preds(n) : n \in T \ {h}} = {p \in Nodes : \E n \in T \ {h} : p \in Preds(n)}
    BY <1>3
  <2> QED  BY <2>1, <2>2
<1> HIDE DEF next
<1>7. ASSUME NEW f
      PROVE  Grows(f, F, Nodes)
             <=> f = [T \in SUBSET Nodes |-> IF next(T) = T THEN T ELSE f[next(T)]]
  BY <1>6 DEF Grows
<1>8. Grows(g, F, Nodes)
  <2>1. \E f : Grows(f, F, Nodes)
    BY <1>5, GrowsExists
  <2> QED  BY <1>7, <2>1
<1> HIDE DEF g
<1>9. Least(g[S], S, F, Nodes)
  BY <1>5, <1>8, GrowsToLeast, GraphAssumption
<1>10. \A U \in SUBSET Nodes : S \subseteq U /\ F[U] \subseteq U <=> Loops(U, h)
  <2> TAKE U \in SUBSET Nodes
  <2>1. S \subseteq U <=> h \in U /\ \A e \in backEdges : e[2] = h => e[1] \in U
    BY <1>1
  <2>2. F[U] \subseteq U <=> \A n \in U \ {h} : Preds(n) \subseteq U
    BY <1>3, <1>4
  <2> QED  BY <2>1, <2>2 DEF Loops
<1> QED  BY <1>2, <1>9, <1>10 DEF Least

LEMMA BodyIsLive ==
  ASSUME backEdges \in SUBSET edges, edges \subseteq live \X live, live \subseteq Nodes,
         NEW h \in live
  PROVE  Body(h) \subseteq live
<1>1. Loops(live, h)
  BY DEF Loops, Preds
<1>2. edges \subseteq Nodes \X Nodes /\ h \in Nodes /\ live \in SUBSET Nodes
  OBVIOUS
<1> QED  BY <1>1, <1>2, BodyIsLeast

LEMMA HeadersAreLive ==
  ASSUME backEdges \in SUBSET edges, edges \subseteq live \X live
  PROVE  Headers \subseteq live
BY DEF Headers

(* Searches start in the graph and stay there.                             *)
LEMMA RootsAreLive ==
  ASSUME GraphInv, BackInv, Going
  PROVE  Roots \subseteq live /\ \A s \in live : Onward(s) \subseteq live
<1>1. live \subseteq Nodes /\ edges \subseteq live \X live /\ Entry \in live
  <2>1. passes # << "process" >>
    BY DEF Going, Analyses
  <2> QED  BY <2>1 DEF GraphInv, Reached
<1>2. \A s : Succs(s) \subseteq live /\ Preds(s) \subseteq live
  BY <1>1 DEF Succs, Preds
<1>3. \A s \in live : Onward(s) \subseteq live
  BY <1>2 DEF Onward, Forward
<1>4. CASE Pass("postdominators")
  <2>1. backEdges \in SUBSET edges
    BY <1>4 DEF BackInv
  <2>2. \A h \in Headers : Body(h) \subseteq live
    BY <1>1, <2>1, BodyIsLive, HeadersAreLive
  <2>3. PostRoots \subseteq live
    BY <2>2 DEF PostRoots, ExitPoints
  <2> QED  BY <1>3, <1>4, <2>3 DEF Roots
<1>5. CASE ~ Pass("postdominators")
  BY <1>1, <1>3, <1>5 DEF Roots
<1> QED  BY <1>4, <1>5

LEMMA RootsStay ==
  ASSUME UNCHANGED << edges, live, backEdges, passes >>
  PROVE  UNCHANGED Roots /\ \A s : UNCHANGED Onward(s)
<1>1. UNCHANGED Roots
  BY DEF Roots, PostRoots, Body, Preds, Succs, ExitPoints, Headers, Exits, Pass
<1>2. \A s : UNCHANGED Onward(s)
  BY DEF Onward, Forward, Preds, Succs, Pass
<1> QED  BY <1>1, <1>2

LEMMA RootsStayBack ==
  ASSUME UNCHANGED << edges, live, passes >>, Pass("back")
  PROVE  UNCHANGED Roots /\ \A s : UNCHANGED Onward(s)
<1>1. Pass("back")'
  BY DEF Pass
<1>2. /\ Roots = {Entry} /\ Roots' = {Entry}
      /\ \A s : Onward(s) = Succs(s) /\ Onward(s)' = Succs(s)'
  BY <1>1 DEF Pass, Roots, Onward
<1>3. \A s : UNCHANGED Succs(s)
  BY DEF Succs
<1> QED  BY <1>2, <1>3
-----------------------------------------------------------------------------
(* Topological order                                                       *)

(* Of a node that was left, all it leads to forwards was left before.      *)
Sorted == \A i \in 1 .. Len(order) : \A d \in Forward(order[i]) :
    \E j \in 1 .. i - 1 : order[j] = d

Finished == passes \in { << >>, << "ssa" >>, << "lifetimes" >> }

Topological ==
    /\ ToSet(topo) = live /\ IsInjective(topo)
    /\ \A i, j \in DOMAIN topo : << topo[i], topo[j] >> \in edges \ backEdges => i < j

OrderInv ==
    /\ Pass("topo") => Sorted
    /\ topo # None => Finished /\ Topological

(* No node on the path comes after its end in the order of ranks.          *)
LEMMA PathRises ==
  ASSUME Listed, Tracks, Pass("topo"), edges \subseteq live \X live,
         NEW r \in [live -> Nat], \A e \in edges \ backEdges : r[e[1]] < r[e[2]],
         NEW k \in 1 .. Len(path)
  PROVE  r[path[k]] <= r[path[Len(path)]]
<1>1. Len(path) \in Nat /\ k \in Nat /\ k <= Len(path) /\ \A i \in 1 .. Len(path) : path[i] \in live
  BY DEF Listed
<1>2. PICK L \in Nat : L = Len(path)
  BY <1>1
<1>3. PICK W : W = {m \in 0 .. L - 1 : r[path[L]] < r[path[L - m]]}
  OBVIOUS
<1>4. SUFFICES ASSUME W # {} PROVE FALSE
  <2>1. L - k \in 0 .. L - 1 /\ L - (L - k) = k
    BY <1>1, <1>2
  <2>2. r[path[k]] \in Nat /\ r[path[L]] \in Nat
    BY <1>1, <1>2
  <2>3. L - k \notin W => ~ (r[path[L]] < r[path[k]])
    BY <1>3, <2>1
  <2> QED  BY <1>2, <2>2, <2>3
<1>5. PICK m \in W : \A i \in W : m <= i
  <2>1. W \subseteq Nat
    BY <1>2, <1>3
  <2> QED  BY <1>4, <2>1, LeastNatural
<1>6. m \in 0 .. L - 1 /\ r[path[L]] < r[path[L - m]]
  BY <1>3
<1>7. m # 0
  <2>1. r[path[L]] \in Nat
    BY <1>1, <1>2
  <2>2. L - 0 = L
    BY <1>2
  <2> QED  BY <1>6, <2>1, <2>2
<1>8. PICK i \in 1 .. L - 1 : i = L - m /\ i + 1 = L - (m - 1)
  <2>1. L - m \in 1 .. L - 1 /\ (L - m) + 1 = L - (m - 1)
    BY <1>2, <1>6, <1>7
  <2> QED  BY <2>1
<1>9. m - 1 \notin W /\ m - 1 \in 0 .. L - 1
  <2>1. m \in Nat /\ m - 1 \in 0 .. L - 1 /\ ~ (m <= m - 1)
    BY <1>2, <1>6, <1>7
  <2> QED  BY <1>5, <2>1
<1>10. ~ (r[path[L]] < r[path[i + 1]])
  BY <1>3, <1>8, <1>9
<1>11. path[i] \in live /\ path[i + 1] \in live /\ path[L] \in live
  BY <1>1, <1>2
<1>12. path[i + 1] \in Forward(path[i])
  BY <1>2, <1>8 DEF Tracks, Onward, Pass
<1>13. << path[i], path[i + 1] >> \in edges \ backEdges
  BY <1>12 DEF Forward, Succs
<1>14. r[path[i]] < r[path[i + 1]]
  BY <1>13
<1>15. r[path[i]] \in Nat /\ r[path[i + 1]] \in Nat /\ r[path[L]] \in Nat
  BY <1>11
<1> QED  BY <1>6, <1>8, <1>10, <1>14, <1>15

LEMMA LeaveSorts ==
  ASSUME GraphInv, SearchInv, BackInv, OrderInv, Leave, Pass("topo")
  PROVE  Sorted'
<1>1. /\ UNCHANGED << edges, live, passes, backEdges >> /\ path # << >> /\ Ahead = {}
      /\ order' = Append(order, Last(path))
  BY DEF Leave, Pass
<1>2. edges \subseteq live \X live
  <2>1. passes # << "process" >>
    BY DEF Pass
  <2> QED  BY <2>1 DEF GraphInv, Reached
<1>3. Listed /\ Tracks /\ path \in Seq(live) /\ order \in Seq(live) /\ Len(order) \in Nat
      /\ Len(path) \in Nat /\ Sorted
  BY DEF SearchInv, Listed, OrderInv
<1>4. PICK n \in live : n = Last(path) /\ n = path[Len(path)]
  BY <1>1, <1>3, Shortened
<1>5. /\ order' \in Seq(live) /\ Len(order') = Len(order) + 1
      /\ order'[Len(order) + 1] = n
      /\ \A i \in 1 .. Len(order) : order'[i] = order[i]
  BY <1>1, <1>3, <1>4, Appended
<1>6. PICK r \in [live -> Nat] : \A e \in edges \ backEdges : r[e[1]] < r[e[2]]
  <2>1. ~ Pass("back") /\ backEdges # None
    BY DEF BackInv, Pass
  <2> QED  BY <2>1 DEF BackInv, Ranked
<1>7. ASSUME NEW d \in Forward(n)
      PROVE  \E j \in 1 .. Len(order) : order[j] = d
  <2>1. d \in Seen
    <3>1. d \in Onward(Last(path))
      BY <1>4 DEF Onward, Pass
    <3> QED  BY <1>1, <3>1 DEF Ahead
  <2>2. ASSUME NEW k \in 1 .. Len(path), path[k] = d
        PROVE  FALSE
    <3>1. r[d] <= r[n]
      BY <1>2, <1>3, <1>4, <1>6, <2>2, PathRises
    <3>2. << n, d >> \in edges \ backEdges /\ d \in live
      BY <1>2 DEF Forward, Succs
    <3>3. r[n] < r[d] /\ r[n] \in Nat /\ r[d] \in Nat
      BY <1>6, <3>2
    <3> QED  BY <3>1, <3>3
  <2> QED  BY <1>3, <2>1, <2>2, SeenIs
<1>8. ASSUME NEW i \in 1 .. Len(order'), NEW d \in Forward(order'[i])
      PROVE  \E j \in 1 .. i - 1 : order'[j] = d
  <2>1. CASE i \in 1 .. Len(order)
    <3>1. PICK j \in 1 .. i - 1 : order[j] = d
      BY <1>3, <1>5, <1>8, <2>1 DEF Sorted
    <3>2. j \in 1 .. Len(order)
      BY <1>3, <2>1, <3>1
    <3> QED  BY <1>5, <3>1, <3>2
  <2>2. CASE i = Len(order) + 1
    <3>1. PICK j \in 1 .. Len(order) : order[j] = d
      BY <1>5, <1>7, <1>8, <2>2
    <3>2. j \in 1 .. i - 1
      BY <1>3, <2>2, <3>1
    <3> QED  BY <1>5, <3>1, <3>2
  <2>3. i \in 1 .. Len(order) \/ i = Len(order) + 1
    BY <1>3, <1>5
  <2> QED  BY <2>1, <2>2, <2>3
<1>9. \A s : Forward(s)' = Forward(s)
  BY <1>1 DEF Forward, Succs
<1>10. \A i \in 1 .. Len(order') : \A d \in Forward(order[i])' :
         \E j \in 1 .. i - 1 : order'[j] = d
  BY <1>8, <1>9
<1> QED  BY <1>10 DEF Sorted

(* All live nodes are sorted, although back edges were not followed.       *)
LEMMA AllSorted ==
  ASSUME GraphInv, SearchInv, BackInv, Pass("topo"), path = << >>, Ahead = {}, NEW n \in live
  PROVE  \E i \in 1 .. Len(order) : order[i] = n
<1>1. ~ Pass("back") /\ ~ Pass("postdominators") /\ Ranked
  BY DEF BackInv, Pass
<1>2. PICK r \in [live -> Nat] : \A e \in edges \ backEdges : r[e[1]] < r[e[2]]
  BY <1>1 DEF Ranked
<1>3. PICK M : M = {m \in live : \A i \in 1 .. Len(order) : order[i] # m}
  OBVIOUS
<1>4. SUFFICES ASSUME M # {} PROVE FALSE
  BY <1>3
<1>5. PICK R : R = {r[m] : m \in M}
  OBVIOUS
<1>6. R \subseteq Nat /\ R # {}
  BY <1>3, <1>4, <1>5
<1>7. PICK k \in R : \A i \in R : k <= i
  BY <1>6, LeastNatural
<1>8. PICK m \in M : \A i \in M : r[m] <= r[i]
  BY <1>5, <1>7
<1>9. m # Entry
  BY <1>1, <1>3, SearchIsComplete DEF Roots
<1>10. PICK p \in live : << p, m >> \in edges \ backEdges
  BY <1>1, <1>3, <1>9 DEF Ranked
<1>11. p \in M
  <2> SUFFICES ASSUME NEW i \in 1 .. Len(order), order[i] = p PROVE FALSE
    BY <1>3
  <2>1. m \in Nodes
    BY <1>3 DEF GraphInv
  <2>2. m \in Onward(order[i])
    BY <1>10, <2>1 DEF Onward, Forward, Succs, Pass
  <2> QED  BY <1>3, <2>2, SearchIsComplete
<1>12. r[p] < r[m] /\ r[p] \in Nat /\ r[m] \in Nat /\ r[m] <= r[p]
  BY <1>2, <1>3, <1>8, <1>10, <1>11
<1> QED  BY <1>12

LEMMA SortedIsTopological ==
  ASSUME GraphInv, SearchInv, BackInv, OrderInv, Pass("topo"), path = << >>, Ahead = {},
         NEW t, t = Reverse(order)
  PROVE  /\ ToSet(t) = live /\ IsInjective(t)
         /\ \A i, j \in DOMAIN t : << t[i], t[j] >> \in edges \ backEdges => i < j
<1>1. Listed /\ order \in Seq(live) /\ Len(order) \in Nat /\ Sorted
  BY DEF SearchInv, Listed, OrderInv
<1>2. PICK L \in Nat : L = Len(order)
  BY <1>1
<1>3. DOMAIN t = 1 .. L /\ \A i \in 1 .. L : t[i] = order[L - i + 1] /\ L - i + 1 \in 1 .. L
  BY <1>2 DEF Reverse
<1>4. ToSet(t) = live
  <2>1. \A i \in 1 .. L : t[i] \in live
    BY <1>1, <1>2, <1>3
  <2>2. ASSUME NEW n \in live
        PROVE  \E i \in 1 .. L : t[i] = n
    <3>1. PICK i \in 1 .. L : order[i] = n
      BY <1>2, AllSorted
    <3>2. L - i + 1 \in 1 .. L /\ L - (L - i + 1) + 1 = i
      BY <1>2
    <3> QED  BY <1>3, <3>1, <3>2
  <2> QED  BY <1>3, <2>1, <2>2 DEF ToSet
<1>5. ASSUME NEW i \in 1 .. L, NEW j \in 1 .. L, t[i] = t[j]
      PROVE  i = j
  <2>1. L - i + 1 = L - j + 1
    BY <1>1, <1>2, <1>3, <1>5 DEF Listed
  <2> QED  BY <1>2, <2>1
<1>6. ASSUME NEW i \in 1 .. L, NEW j \in 1 .. L, << t[i], t[j] >> \in edges \ backEdges
      PROVE  i < j
  <2>1. PICK a \in 1 .. L : a = L - i + 1 /\ t[i] = order[a]
    BY <1>3
  <2>2. PICK b \in 1 .. L : b = L - j + 1 /\ t[j] = order[b]
    BY <1>3
  <2>3. order[b] \in live
    BY <1>1, <1>2, <2>2
  <2>4. order[b] \in Forward(order[a])
    BY <1>6, <2>1, <2>2, <2>3 DEF Forward, Succs, GraphInv
  <2>5. PICK c \in 1 .. a - 1 : order[c] = order[b]
    BY <1>1, <1>2, <2>4 DEF Sorted
  <2>6. c = b
    <3>1. c \in 1 .. L
      BY <1>2, <2>1, <2>5
    <3> QED  BY <1>1, <1>2, <2>5, <3>1 DEF Listed
  <2> QED  BY <1>2, <2>1, <2>2, <2>5, <2>6
<1> QED  BY <1>3, <1>4, <1>5, <1>6 DEF IsInjective
-----------------------------------------------------------------------------
(* The steps of the search                                                 *)

FlowInv == GraphInv /\ SearchInv /\ BackInv /\ OrderInv

LEMMA EmptySearch ==
  ASSUME path' = << >>, order' = << >>
  PROVE  SearchInv'
<1>1. Listed'
  BY DEF Listed
<1>2. Tracks' /\ Ordered'
  BY DEF Tracks, Ordered
<1> QED  BY <1>1, <1>2 DEF SearchInv

LEMMA SearchStays ==
  ASSUME SearchInv, UNCHANGED << edges, live, passes, path, order, backEdges >>,
         path = << >> \/ tree' = tree
  PROVE  SearchInv'
<1>1. UNCHANGED Roots /\ \A s : UNCHANGED Onward(s)
  BY RootsStay
<1>2. Listed'
  BY DEF SearchInv, Listed
<1>3. Tracks'
  BY <1>1 DEF SearchInv, Tracks
<1>4. \A d, n : Behind(d, n)' = Behind(d, n)
  BY <1>1 DEF Behind
<1>5. \A p, i : Later(p, i)' = Later(p, i)
  BY DEF Later, OnPath
<1>6. UNCHANGED Seen
  BY DEF Seen
<1>7. Ordered'
  BY <1>1, <1>4, <1>5, <1>6 DEF SearchInv, Ordered
<1> QED  BY <1>2, <1>3, <1>7 DEF SearchInv, Going

LEMMA BackStays ==
  ASSUME BackInv, UNCHANGED << edges, live, passes, order, backEdges >>,
         \A p, i : Later(p, i) => Later(p, i)'
  PROVE  BackInv'
<1>1. UNCHANGED << Pass("back"), Pass("topo"), Pass("postdominators") >>
  BY DEF Pass
<1>2. \A e : Circular(e)' = Circular(e)
  BY CutsStay
<1>3. Ranked => Ranked'
  BY RankedStays
<1>4. Collected => Collected'
  BY DEF Collected, Succs
<1>5. Retreating => Retreating'
  BY DEF Retreating
<1> QED  BY <1>1, <1>2, <1>3, <1>4, <1>5 DEF BackInv

LEMMA OrderStays ==
  ASSUME OrderInv, UNCHANGED << edges, live, passes, order, backEdges, topo >>
  PROVE  OrderInv'
<1>1. UNCHANGED Pass("topo") /\ UNCHANGED Finished
  BY DEF Pass, Finished
<1>2. Sorted => Sorted'
  BY DEF Sorted, Forward, Succs
<1>3. Topological => Topological'
  BY DEF Topological
<1> QED  BY <1>1, <1>2, <1>3 DEF OrderInv

(* An analysis after the back edges is known to have them, and the last    *)
(* analysis is followed by nothing.                                        *)
LEMMA AgendaEnds ==
  ASSUME passes \in Agendas, Going, passes' = Tail(passes)
  PROVE  /\ passes' # << "process" >> /\ ~ Pass("back")'
         /\ Pass("back") => ~ Finished'
         /\ ~ Pass("back") => Finished' /\ passes' = << >>
<1>1. passes # << >> /\ passes # << "process" >> /\ passes # << "ssa" >> /\ passes # << "lifetimes" >>
  BY DEF Analyses, Going
<1>2. CASE passes \in {<< "topo" >>, << "postdominators" >>, << "dominators" >>}
  <2>1. Tail(<< "topo" >>) = << >> /\ Tail(<< "postdominators" >>) = << >>
        /\ Tail(<< "dominators" >>) = << >>
    OBVIOUS
  <2>2. passes' = << >>
    BY <1>2, <2>1
  <2>3. ~ Pass("back")
    BY <1>2 DEF Pass
  <2>4. << >> # << "process" >>
    OBVIOUS
  <2>5. ~ Pass("back")'
    BY <2>2 DEF Pass
  <2>6. Finished'
    BY <2>2 DEF Finished
  <2> QED  BY <2>2, <2>3, <2>4, <2>5, <2>6
<1>3. ASSUME NEW p \in {"topo", "postdominators"}, passes = << "back", p >>
      PROVE  /\ passes' # << "process" >> /\ ~ Pass("back")'
             /\ Pass("back") => ~ Finished'
             /\ ~ Pass("back") => Finished' /\ passes' = << >>
  <2>1. Tail(<< "back", p >>) = << p >>
    OBVIOUS
  <2>2. passes' = << p >>
    BY <1>3, <2>1
  <2>3. Pass("back")
    BY <1>3 DEF Pass
  <2>4. << p >> # << "process" >> /\ << p >> # << >> /\ << p >> # << "ssa" >> /\ << p >> # << "lifetimes" >>
        /\ Head(<< p >>) # "back"
    OBVIOUS
  <2>5. ~ Pass("back")'
    BY <2>2, <2>4 DEF Pass
  <2>6. ~ Finished'
    BY <2>2, <2>4 DEF Finished
  <2> QED  BY <2>2, <2>3, <2>4, <2>5, <2>6
<1>4. passes \in {<< "topo" >>, << "postdominators" >>, << "dominators" >>}
      \/ \E p \in {"topo", "postdominators"} : passes = << "back", p >>
  BY <1>1 DEF Agendas
<1> QED  BY <1>2, <1>3, <1>4

(* An analysis is done: the next finds the back edges.                     *)
LEMMA NextHasBack ==
  ASSUME GraphInv, BackInv, Going, NextPass, UNCHANGED << edges, live, backEdges >>,
         Pass("back") => backEdges # None /\ Ranked
  PROVE  BackInv'
<1>1. passes' = Tail(passes) /\ passes \in Agendas
  BY DEF NextPass, GraphInv
<1>2. passes' # << "process" >> /\ ~ Pass("back")'
  BY <1>1, AgendaEnds
<1>3. Pass("topo")' \/ Pass("postdominators")' => backEdges # None
  <2>1. CASE Pass("back")
    BY <2>1
  <2>2. CASE ~ Pass("back")
    <3>1. passes' = << >>
      BY <1>1, <2>2, AgendaEnds
    <3> QED  BY <3>1 DEF Pass
  <2> QED  BY <2>1, <2>2
<1>4. backEdges # None => Ranked
  BY DEF BackInv
<1>5. Ranked => Ranked'
  BY RankedStays
<1>6. \A e : Circular(e)' = Circular(e)
  BY CutsStay
<1> QED  BY <1>2, <1>3, <1>4, <1>5, <1>6 DEF BackInv

LEMMA VisitFlows ==
  ASSUME FlowInv, Visit
  PROVE  SearchInv' /\ BackInv' /\ OrderInv'
<1>1. UNCHANGED << edges, live, passes, order, backEdges, topo >> /\ Going
      /\ \E n : path' = Append(path, n)
  BY DEF Visit, Searching, Done, Going, results
<1>2. Roots \subseteq live /\ \A s \in live : Onward(s) \subseteq live
  BY <1>1, RootsAreLive DEF FlowInv
<1>3. UNCHANGED Roots /\ \A s : UNCHANGED Onward(s)
  BY <1>1, RootsStay
<1>4. SearchInv'
  BY <1>2, <1>3, VisitSearches DEF FlowInv
<1>5. \A p, i : Later(p, i) => Later(p, i)'
  <2>1. path \in Seq(live)
    BY DEF FlowInv, SearchInv, Listed
  <2>2. PICK n : path' = Append(path, n)
    BY <1>1
  <2>3. \A k \in 1 .. Len(path) : k \in 1 .. Len(path') /\ path'[k] = path[k]
    BY <2>1, <2>2
  <2> QED  BY <1>1, <2>3 DEF Later, OnPath
<1> QED  BY <1>1, <1>4, <1>5, BackStays, OrderStays DEF FlowInv

LEMMA LeaveFlows ==
  ASSUME FlowInv, Leave
  PROVE  SearchInv' /\ BackInv' /\ OrderInv'
<1>1. UNCHANGED << edges, live, passes, topo >> /\ Going
  BY DEF Leave, Searching, Done, Going
<1>2. Roots \subseteq live /\ \A s \in live : Onward(s) \subseteq live
  BY <1>1, RootsAreLive DEF FlowInv
<1>3. ~ Pass("back") => UNCHANGED backEdges
  BY DEF Leave
<1>4. UNCHANGED Roots /\ \A s : UNCHANGED Onward(s)
  BY <1>1, <1>3, RootsStay, RootsStayBack
<1>5. SearchInv'
  BY <1>2, <1>4, LeaveSearches DEF FlowInv
<1>6. topo = None
  <2>1. ~ Finished
    BY <1>1 DEF Going, Finished, Analyses
  <2> QED  BY <2>1 DEF FlowInv, OrderInv
<1>7. OrderInv'
  <2>1. Pass("topo")' => Pass("topo")
    BY <1>1 DEF Pass
  <2> QED  BY <1>1, <1>6, <2>1, LeaveSorts DEF FlowInv, OrderInv
<1>8. CASE Pass("back")
  BY <1>5, <1>7, <1>8, LeaveCollects DEF FlowInv
<1>9. CASE ~ Pass("back")
  <2>1. UNCHANGED << Pass("back"), Pass("topo"), Pass("postdominators") >>
    BY <1>1 DEF Pass
  <2>2. Ranked => Ranked'
    BY <1>1, <1>3, <1>9, RankedStays
  <2>3. \A e : Circular(e)' = Circular(e)
    BY <1>1, CutsStay
  <2>4. BackInv'
    BY <1>1, <1>3, <1>9, <2>1, <2>2, <2>3 DEF BackInv, FlowInv
  <2> QED  BY <1>5, <1>7, <2>4
<1> QED  BY <1>8, <1>9
LEMMA NotFinished ==
  ASSUME OrderInv, Going
  PROVE  topo = None
<1>1. ~ Finished
  BY DEF Going, Finished, Analyses
<1> QED  BY <1>1 DEF OrderInv

(* An analysis is done, or there is none: the search begins afresh.        *)
LEMMA NextFlows ==
  ASSUME FlowInv, Going, NextPass, path = << >>, Ahead = {} \/ ~ (Pass("back") \/ Pass("topo")),
         UNCHANGED << edges, live, path, backEdges >>,
         topo' = IF Pass("topo") THEN Reverse(order) ELSE topo
  PROVE  SearchInv' /\ BackInv' /\ OrderInv'
<1>1. order' = << >> /\ passes' = Tail(passes) /\ passes \in Agendas /\ topo = None
  BY NotFinished DEF NextPass, FlowInv, GraphInv
<1>2. SearchInv'
  BY <1>1, EmptySearch
<1>3. Pass("back") => backEdges # None /\ Ranked
  BY CollectedAreRanked DEF FlowInv
<1>4. BackInv'
  BY <1>3, NextHasBack DEF FlowInv
<1>5. Sorted'
  BY <1>1 DEF Sorted
<1>6. CASE Pass("topo")
  <2>1. ~ Pass("back") /\ topo' = Reverse(order)
    BY <1>6 DEF Pass
  <2>2. Finished'
    BY <1>1, <2>1, AgendaEnds
  <2>3. Topological'
    <3>1. PICK t : t = Reverse(order)
      OBVIOUS
    <3>2. Ahead = {}
      BY <1>6
    <3>3. /\ ToSet(t) = live /\ IsInjective(t)
          /\ \A i, j \in DOMAIN t : << t[i], t[j] >> \in edges \ backEdges => i < j
      BY <1>6, <3>1, <3>2, SortedIsTopological DEF FlowInv
    <3> QED  BY <2>1, <3>1, <3>3 DEF Topological
  <2> QED  BY <1>2, <1>4, <1>5, <2>2, <2>3 DEF OrderInv
<1>7. CASE ~ Pass("topo")
  BY <1>1, <1>2, <1>4, <1>5, <1>7 DEF OrderInv
<1> QED  BY <1>6, <1>7

LEMMA ProcessFlows ==
  ASSUME FlowInv, Process
  PROVE  SearchInv' /\ BackInv' /\ OrderInv'
<1>1. passes = << "process" >>
  BY DEF Process, Pass, FlowInv, GraphInv, Agendas
<1>2. ~ Going /\ ~ Finished
  BY <1>1 DEF Going, Analyses, Finished
<1>3. path' = << >> /\ order' = << >> /\ backEdges' = None /\ topo' = None
  BY <1>1, <1>2 DEF Process, results, FlowInv, SearchInv, BackInv, OrderInv
<1>4. SearchInv'
  BY <1>3, EmptySearch
<1>5. passes' \in {<< >>, << "back", "topo" >>, << "back", "postdominators" >>, << "dominators" >>}
  BY DEF Process, Requests
<1>6. passes' # << "process" >> /\ ~ Pass("topo")' /\ ~ Pass("postdominators")'
  BY <1>5 DEF Pass
<1>7. BackInv'
  BY <1>3, <1>6 DEF BackInv
<1> QED  BY <1>3, <1>4, <1>6, <1>7 DEF OrderInv

LEMMA SearchEndsFlows ==
  ASSUME FlowInv, SearchEnds
  PROVE  SearchInv' /\ BackInv' /\ OrderInv'
<1>1. Going /\ path = << >> /\ Ahead = {} /\ UNCHANGED << edges, live, path, backEdges >>
  BY DEF SearchEnds, Searching, Done, Going
<1>2. CASE NextPass
  <2>1. topo' = IF Pass("topo") THEN Reverse(order) ELSE topo
    <3>1. CASE Head(passes) \in {"back", "topo"} \/ order = << >>
      BY <3>1 DEF SearchEnds
    <3>2. CASE ~ (Head(passes) \in {"back", "topo"} \/ order = << >>)
      BY <3>2 DEF SearchEnds, Pass
    <3> QED  BY <3>1, <3>2
  <2> QED  BY <1>1, <1>2, <2>1, NextFlows
<1>3. CASE UNCHANGED << passes, order, topo >>
  <2>1. \A p, i : Later(p, i) => Later(p, i)'
    BY <1>1, <1>3 DEF Later, OnPath
  <2> QED  BY <1>1, <1>3, <2>1, SearchStays, BackStays, OrderStays DEF FlowInv
<1> QED  BY <1>2, <1>3 DEF SearchEnds
(* A sweep is of a tree.                                                   *)
Planted == tree = << >> => sweep = << >>

LEMMA PlantedStays == FlowInv /\ Planted /\ [Next]_vars => Planted'
<1> SUFFICES ASSUME FlowInv, Planted, [Next]_vars PROVE Planted'
  OBVIOUS
<1>1. CASE UNCHANGED << tree, sweep >>
  BY <1>1 DEF Planted
<1>2. CASE NextPass
  BY <1>2 DEF Planted, NextPass
<1>3. \A x : x \in DOMAIN tree' => tree' # << >>
  OBVIOUS
<1>5. CASE SearchEnds
  <2>1. CASE tree' = [n \in {Virtual} |-> Virtual]
    <3>1. Virtual \in DOMAIN tree'
      BY <2>1
    <3> QED  BY <1>3, <3>1 DEF Planted
  <2> QED  BY <1>2, <1>5, <2>1 DEF SearchEnds
<1>6. CASE Sweep
  <2>1. Head(sweep) \in DOMAIN tree'
    BY <1>6 DEF Sweep
  <2> QED  BY <1>3, <2>1 DEF Planted
<1>7. CASE SweepEnds
  BY <1>2, <1>7 DEF SweepEnds, Planted
<1>8. GraphStep => SearchEnds \/ Sweep \/ SweepEnds \/ UNCHANGED << tree, sweep >>
  BY DEF GraphStep, Process, Visit, Leave
<1>9. SsaStep => UNCHANGED << tree, sweep >>
  BY DEF SsaStep, FixRead, FixInput, Run, Jump, FreshVars, graphVars
<1>10. LifetimeStep => UNCHANGED << tree, sweep >>
  BY DEF LifetimeStep, ComputeLiveMap, ComputeDeadMaps, Follow, Write, graphVars
<1> QED  BY <1>1, <1>5, <1>6, <1>7, <1>8, <1>9, <1>10 DEF Next, vars, graphVars

LEMMA FlowPreserved == FlowInv /\ Planted /\ [Next]_vars => FlowInv'
<1> SUFFICES ASSUME FlowInv, Planted, [Next]_vars PROVE SearchInv' /\ BackInv' /\ OrderInv'
  BY GraphPreserved DEF FlowInv
<1>1. CASE Process
  BY <1>1, ProcessFlows
<1>2. CASE Visit
  BY <1>2, VisitFlows
<1>3. CASE Leave
  BY <1>3, LeaveFlows
<1>4. CASE SearchEnds
  BY <1>4, SearchEndsFlows
<1>5. ASSUME UNCHANGED << edges, live, passes, path, order, backEdges, topo >>,
             path = << >> \/ tree' = tree
      PROVE  SearchInv' /\ BackInv' /\ OrderInv'
  <2>1. \A p, i : Later(p, i) => Later(p, i)'
    BY <1>5 DEF Later, OnPath
  <2> QED  BY <1>5, <2>1, SearchStays, BackStays, OrderStays DEF FlowInv
<1>6. CASE Sweep
  <2>1. path = << >>
    BY <1>6 DEF Sweep, Planted, FlowInv, SearchInv
  <2> QED  BY <1>5, <1>6, <2>1 DEF Sweep, results
<1>7. CASE SweepEnds
  <2>1. path = << >> /\ UNCHANGED << edges, live, path, backEdges, topo >>
    BY <1>7 DEF SweepEnds, FlowInv, SearchInv
  <2>2. CASE NextPass
    <3>1. Pass("dominators") \/ Pass("postdominators")
      BY <1>7 DEF SweepEnds, FlowInv, GraphInv
    <3>2. ~ (Pass("back") \/ Pass("topo")) /\ Going
      BY <3>1 DEF Pass, Going, Analyses
    <3> QED  BY <2>1, <2>2, <3>2, NextFlows
  <2>3. CASE UNCHANGED << passes, order >>
    BY <1>5, <2>1, <2>3
  <2> QED  BY <1>7, <2>2, <2>3 DEF SweepEnds
<1>8. ASSUME NEW user \in {"ssa", "lifetimes"}, Continue(user),
             UNCHANGED << edges, live, path, order, backEdges, topo >>
      PROVE  SearchInv' /\ BackInv' /\ OrderInv'
  <2>1. passes = << >> /\ passes' = << user >>
    BY <1>8 DEF Continue, Done
  <2>2. path' = << >> /\ order' = << >>
    BY <1>8, <2>1 DEF FlowInv, SearchInv, Going
  <2>3. SearchInv'
    BY <2>2, EmptySearch
  <2>4. /\ ~ Pass("back") /\ ~ Pass("back")' /\ ~ Pass("topo")' /\ ~ Pass("postdominators")'
        /\ passes' # << "process" >> /\ Finished'
    <3>1. Head(<< user >>) = user /\ << user >> # << "process" >>
      OBVIOUS
    <3> QED  BY <2>1, <3>1 DEF Pass, Finished
  <2>5. BackInv'
    <3>1. \A e : Circular(e)' = Circular(e)
      BY <1>8, CutsStay
    <3>2. Ranked => Ranked'
      BY <1>8, RankedStays
    <3> QED  BY <1>8, <2>4, <3>1, <3>2 DEF FlowInv, BackInv
  <2>6. OrderInv'
    <3>1. Topological => Topological'
      BY <1>8 DEF Topological
    <3> QED  BY <1>8, <2>4, <3>1 DEF FlowInv, OrderInv
  <2> QED  BY <2>3, <2>5, <2>6
<1>9. CASE FreshVars
  BY <1>8, <1>9 DEF FreshVars, results
<1>10. CASE Write
  BY <1>8, <1>10 DEF Write, results
<1>11. CASE UNCHANGED graphVars
  BY <1>5, <1>11 DEF graphVars, results
<1>12. GraphStep => Process \/ SearchEnds \/ Sweep \/ SweepEnds \/ Visit \/ Leave
  BY DEF GraphStep
<1>13. SsaStep => FreshVars \/ UNCHANGED graphVars
  BY DEF SsaStep, FixRead, FixInput, Run, Jump
<1>14. LifetimeStep => Write \/ UNCHANGED graphVars
  BY DEF LifetimeStep, ComputeLiveMap, ComputeDeadMaps, Follow
<1> QED  BY <1>1, <1>2, <1>3, <1>4, <1>6, <1>7, <1>9, <1>10, <1>11, <1>12, <1>13, <1>14 DEF Next, vars

LEMMA FlowInitially == Init => FlowInv /\ Planted
<1> SUFFICES ASSUME Init PROVE FlowInv /\ Planted
  OBVIOUS
<1>1. GraphInv
  BY GraphInitially
<1>2. /\ passes = << "process" >> /\ path = << >> /\ order = << >> /\ sweep = << >>
      /\ backEdges = None /\ topo = None
  BY DEF Init, GraphInit
<1>3. ~ Going /\ ~ Pass("back") /\ ~ Pass("topo") /\ ~ Pass("postdominators")
  BY <1>2 DEF Going, Pass, Analyses
<1>4. Listed
  BY <1>2 DEF Listed
<1>5. SearchInv
  BY <1>2, <1>4 DEF SearchInv, Tracks, Ordered
<1> QED  BY <1>1, <1>2, <1>3, <1>5 DEF FlowInv, BackInv, OrderInv, Planted
-----------------------------------------------------------------------------
(* Dominance                                                               *)

(* The graph after process()                                               *)
Settles == Reached /\ live \subseteq Nodes

(* What holds at the entry and stays along edges holds everywhere.         *)
LEMMA Everywhere ==
  ASSUME Settles, NEW U, Entry \in U, \A s \in U \cap live : Succs(s) \subseteq U
  PROVE  live \subseteq U
<1>1. PICK V \in SUBSET Nodes : V = U \cap live
  BY DEF Settles
<1>2. Entry \in V
  BY <1>1 DEF Settles, Reached
<1>3. Closed(V, {})
  BY <1>1 DEF Closed, Settles, Reached, Succs
<1> QED  BY <1>1, <1>2, <1>3 DEF Settles, Reached

LEMMA DominatesIsCut ==
  ASSUME Settles, NEW d, NEW n
  PROVE  Dominates(d, n) <=> Cut(d, n)
<1>1. {Entry} \in SUBSET Nodes
  BY GraphAssumption
<1>2. PICK R \in SUBSET Nodes : R = Reach({Entry}, {d})
  BY <1>1, ReachIsClosure
<1>3. /\ {Entry} \ {d} \subseteq R /\ Closed(R, {d})
      /\ \A U \in SUBSET Nodes : {Entry} \ {d} \subseteq U /\ Closed(U, {d}) => R \subseteq U
  BY <1>1, <1>2, ReachIsClosure
<1>4. edges \subseteq live \X live /\ live \in SUBSET Nodes /\ Entry \in live
  BY DEF Settles, Reached
<1>5. R \subseteq live
  BY <1>3, <1>4 DEF Closed
<1>6. \A s \in R : Succs(s) \ {d} \subseteq R
  BY <1>3 DEF Closed, Succs
<1>7. ASSUME n \notin R PROVE Cut(d, n)
  BY <1>3, <1>5, <1>6, <1>7 DEF Cut
<1>8. ASSUME Cut(d, n) PROVE n \notin R
  <2>1. PICK U \in SUBSET live : /\ {Entry} \ {d} \subseteq U
                                 /\ \A s \in U : Succs(s) \ {d} \subseteq U
                                 /\ n \notin U
    BY <1>8 DEF Cut
  <2>2. Closed(U, {d})
    BY <2>1 DEF Closed, Succs
  <2> QED  BY <1>3, <1>4, <2>1, <2>2
<1> QED  BY <1>2, <1>7, <1>8 DEF Dominates

LEMMA CutSelf ==
  ASSUME Settles, NEW d
  PROVE  Cut(d, d)
<1>1. live \ {d} \in SUBSET live /\ {Entry} \ {d} \subseteq live \ {d}
      /\ \A s \in live \ {d} : Succs(s) \ {d} \subseteq live \ {d}
  BY DEF Settles, Reached, Succs
<1> QED  BY <1>1 DEF Cut

(* A dominator of a node dominates what leads to the node.                 *)
LEMMA CutBefore ==
  ASSUME NEW d, NEW n, NEW p, Cut(d, n), n # d, n \in Succs(p)
  PROVE  Cut(d, p)
BY DEF Cut

LEMMA CutEntry ==
  ASSUME NEW d, Cut(d, Entry)
  PROVE  d = Entry
BY DEF Cut

(* No two nodes dominate each other.                                       *)
LEMMA CutApart ==
  ASSUME Settles, NEW g \in live, NEW h \in live, Cut(g, h), Cut(h, g)
  PROVE  g = h
<1> SUFFICES ASSUME g # h PROVE FALSE
  OBVIOUS
<1>1. PICK A \in SUBSET live : /\ {Entry} \ {g} \subseteq A
                               /\ \A s \in A : Succs(s) \ {g} \subseteq A
                               /\ h \notin A
  BY DEF Cut
<1>2. PICK B \in SUBSET live : /\ {Entry} \ {h} \subseteq B
                               /\ \A s \in B : Succs(s) \ {h} \subseteq B
                               /\ g \notin B
  BY DEF Cut
<1>3. Entry \in A \cap B
  BY <1>1, <1>2
<1>4. \A s \in (A \cap B) \cap live : Succs(s) \subseteq A \cap B
  BY <1>1, <1>2
<1>5. PICK U : U = A \cap B
  OBVIOUS
<1>6. live \subseteq U
  BY <1>3, <1>4, <1>5, Everywhere
<1> QED  BY <1>1, <1>5, <1>6

(* Of two dominators of a node one dominates the other.                    *)
LEMMA CutChain ==
  ASSUME Settles, NEW g \in live, NEW h \in live, NEW x \in live, Cut(g, x), Cut(h, x)
  PROVE  Cut(g, h) \/ Cut(h, g)
<1> SUFFICES ASSUME ~ Cut(g, h), ~ Cut(h, g) PROVE FALSE
  OBVIOUS
<1>1. PICK A \in SUBSET live : /\ {Entry} \ {g} \subseteq A
                               /\ \A s \in A : Succs(s) \ {g} \subseteq A
                               /\ x \notin A
  BY DEF Cut
<1>2. PICK B \in SUBSET live : /\ {Entry} \ {h} \subseteq B
                               /\ \A s \in B : Succs(s) \ {h} \subseteq B
                               /\ x \notin B
  BY DEF Cut
<1>3. h \in A
  BY <1>1 DEF Cut
<1>4. g \in B
  BY <1>2 DEF Cut
<1>5. PICK U : U = A \cup B
  OBVIOUS
<1>6. Entry \in U
  BY <1>1, <1>3, <1>4, <1>5
<1>7. \A s \in U \cap live : Succs(s) \subseteq U
  BY <1>1, <1>2, <1>3, <1>4, <1>5
<1>8. live \subseteq U
  BY <1>6, <1>7, Everywhere
<1> QED  BY <1>1, <1>2, <1>5, <1>8

(* A loop that meets the loop of one of its header's dominators is inside. *)
LEMMA LoopsNest ==
  ASSUME Settles, backEdges \in SUBSET edges, \A e \in backEdges : Cut(e[2], e[1]),
         NEW g \in Headers, NEW h \in Headers, g # h, Cut(h, g),
         NEW x \in Body(g), x \in Body(h)
  PROVE  /\ Body(g) \subseteq Body(h)
         /\ IsFiniteSet(Body(h)) /\ Cardinality(Body(g)) < Cardinality(Body(h))
<1>1. /\ edges \subseteq live \X live /\ live \in SUBSET Nodes /\ edges \subseteq Nodes \X Nodes
      /\ Entry \in live
  BY DEF Settles, Reached
<1>2. g \in live /\ h \in live /\ g \in Nodes /\ h \in Nodes
  BY <1>1, HeadersAreLive
<1>3. ~ Cut(g, h)
  BY <1>2, CutApart
<1>4. /\ Body(g) \in SUBSET Nodes /\ Loops(Body(g), g)
      /\ \A U \in SUBSET Nodes : Loops(U, g) => Body(g) \subseteq U
  BY <1>1, <1>2, BodyIsLeast
<1>5. Body(h) \in SUBSET Nodes /\ Loops(Body(h), h) /\ Body(h) \subseteq live
  BY <1>1, <1>2, BodyIsLeast, BodyIsLive
<1>6. PICK B \in SUBSET live : B = Body(h)
  BY <1>5
<1>7. PICK D \in SUBSET live : D = {n \in live : Cut(g, n)}
  OBVIOUS
<1>8. \A n \in D \ {g} : Preds(n) \subseteq D
  <2> TAKE n \in D \ {g}
  <2>1. \A p \in Preds(n) : p \in live /\ n \in Succs(p)
    BY <1>1, <1>7 DEF Preds, Succs
  <2> QED  BY <1>7, <2>1, CutBefore
<1>9. g \in D /\ h \notin D
  BY <1>2, <1>3, <1>7, CutSelf
<1>10. \A e \in backEdges : e[2] = g => e[1] \in D /\ e[1] \in Preds(g)
  <2> TAKE e \in backEdges
  <2>1. PICK s \in live, d \in live : e = << s, d >> /\ << s, d >> \in edges
    BY <1>1
  <2> QED  BY <1>1, <1>7, <2>1 DEF Preds
<1>11. x \in D
  <2>1. Loops(D, g)
    BY <1>8, <1>9, <1>10 DEF Loops
  <2> QED  BY <1>1, <1>4, <2>1
<1>12. \A n \in B \ {h} : Preds(n) \subseteq B
  BY <1>5, <1>6 DEF Loops
<1>13. g \in B
  <2> SUFFICES ASSUME g \notin B PROVE FALSE
    OBVIOUS
  <2>1. PICK U : U = live \ (D \cap B)
    OBVIOUS
  <2>2. Entry \in U
    BY <1>1, <1>2, <1>7, <2>1, CutEntry
  <2>3. ASSUME NEW s \in U \cap live, NEW d \in Succs(s)
        PROVE  d \in U
    <3>1. d \in live /\ s \in Preds(d)
      BY <1>1, <2>3 DEF Succs, Preds
    <3>2. d \in D \cap B => d \in B \ {h} /\ d \in D \ {g}
      BY <1>9
    <3> QED  BY <1>8, <1>12, <2>1, <3>1, <3>2
  <2>4. live \subseteq U
    BY <2>2, <2>3, Everywhere
  <2> QED  BY <1>6, <1>11, <2>1, <2>4
<1>14. Body(g) \subseteq D \cap B
  <2>1. g \in B \ {h}
    BY <1>13
  <2>2. \A e \in backEdges : e[2] = g => e[1] \in D \cap B
    BY <1>10, <1>12, <2>1
  <2>3. \A n \in (D \cap B) \ {g} : Preds(n) \subseteq D \cap B
    BY <1>8, <1>9, <1>12
  <2>4. Loops(D \cap B, g)
    BY <1>9, <1>13, <2>2, <2>3 DEF Loops
  <2>5. PICK U \in SUBSET Nodes : U = D \cap B
    BY <1>1
  <2> QED  BY <1>4, <2>4, <2>5
<1>15. Body(g) \subseteq B /\ h \in B /\ h \notin Body(g)
  BY <1>5, <1>6, <1>9, <1>14 DEF Loops
<1>16. IsFiniteSet(B)
  BY <1>1, <1>6, GraphAssumption, FS_Subset
<1>17. Cardinality(Body(g)) < Cardinality(B)
  <2>1. PICK A : A = Body(g)
    OBVIOUS
  <2>2. A \subseteq B /\ A # B
    BY <1>15, <2>1
  <2>3. IsFiniteSet(A) /\ Cardinality(A) <= Cardinality(B)
        /\ (Cardinality(A) = Cardinality(B) => A = B)
    BY <1>16, <2>2, FS_Subset
  <2>4. Cardinality(A) \in Nat /\ Cardinality(B) \in Nat
    BY <1>16, <2>3, FS_CardinalityType
  <2> QED  BY <2>1, <2>2, <2>3, <2>4
<1> QED  BY <1>6, <1>15, <1>16, <1>17
(* g takes from a set what F does not keep, until F keeps everything.      *)
Shrinks(g, F, N) == g = [S \in SUBSET N |-> IF F[S] = S THEN S ELSE g[F[S]]]

LEMMA ShrinksExists ==
  ASSUME NEW N, NEW F \in [SUBSET N -> SUBSET N], Monotone(F, N),
         \A S \in SUBSET N : F[S] \subseteq S
  PROVE  \E g : Shrinks(g, F, N)
<1> DEFINE kept(S) == {x \in N : \E C \in SUBSET S : x \in C /\ C \subseteq F[C]}
<1>1. PICK g : g = [S \in SUBSET N |-> kept(S)]
  OBVIOUS
<1>2. ASSUME NEW S \in SUBSET N
      PROVE  g[S] = IF F[S] = S THEN S ELSE g[F[S]]
  <2>1. CASE F[S] = S
    BY <1>1, <2>1
  <2>2. CASE F[S] # S
    <3>1. PICK T \in SUBSET N : T = F[S]
      OBVIOUS
    <3>2. \A C \in SUBSET N : C \subseteq F[C] => (C \subseteq S <=> C \subseteq T)
      BY <3>1 DEF Monotone
    <3>3. kept(S) = kept(T)
      BY <3>1, <3>2
    <3> QED  BY <1>1, <2>2, <3>1, <3>3
  <2> QED  BY <2>1, <2>2
<1>3. Shrinks(g, F, N)
  BY <1>1, <1>2 DEF Shrinks
<1> QED  BY <1>3

(* What F keeps of itself stays.                                           *)
LEMMA ShrinksKeeps ==
  ASSUME NEW N, IsFiniteSet(N), NEW F \in [SUBSET N -> SUBSET N], Monotone(F, N),
         \A S \in SUBSET N : F[S] \subseteq S,
         NEW g, Shrinks(g, F, N), NEW C \in SUBSET N, C \subseteq F[C],
         NEW S \in SUBSET N, C \subseteq S
  PROVE  C \subseteq g[S]
<1> DEFINE Wrong == {T \in SUBSET N : C \subseteq T /\ ~ (C \subseteq g[T])}
<1> SUFFICES ASSUME Wrong # {} PROVE FALSE
  OBVIOUS
<1>1. PICK T \in Wrong : \A U \in Wrong : U \subseteq T => U = T
  <2>1. Wrong \subseteq SUBSET N
    OBVIOUS
  <2> HIDE DEF Wrong
  <2> QED  BY <2>1, SmallestSet
<1>2. T \in SUBSET N /\ C \subseteq T /\ ~ (C \subseteq g[T])
  OBVIOUS
<1>3. g[T] = IF F[T] = T THEN T ELSE g[F[T]]
  BY <1>2 DEF Shrinks
<1> HIDE DEF Wrong
<1>4. F[T] # T
  BY <1>2, <1>3
<1>5. PICK U \in SUBSET N : U = F[T] /\ U \subseteq T /\ U # T
  BY <1>2, <1>4
<1>6. C \subseteq U
  BY <1>2, <1>5 DEF Monotone
<1>7. U \in Wrong
  BY <1>2, <1>3, <1>4, <1>5, <1>6 DEF Wrong
<1> QED  BY <1>1, <1>5, <1>7

(* No cycle of a reducible graph consists of edges to where their source   *)
(* is not dominated.                                                       *)
LEMMA NoCycle ==
  ASSUME Settles, Reducible, NEW C \in SUBSET live,
         \A x \in C : \E s \in C : << s, x >> \in edges \ Backward
  PROVE  C = {}
<1> DEFINE next(S) == {n \in S : \E s \in S : << s, n >> \in edges \ Backward}
           g == CHOOSE h : h = [S \in SUBSET Nodes |-> IF next(S) = S THEN S ELSE h[next(S)]]
<1>1. g[live] = {}
  BY DEF Reducible
<1>2. PICK F : F = [S \in SUBSET Nodes |-> {n \in S : \E s \in S : << s, n >> \in edges \ Backward}]
  OBVIOUS
<1>3. F \in [SUBSET Nodes -> SUBSET Nodes] /\ IsFiniteSet(Nodes) /\ Monotone(F, Nodes)
      /\ \A S \in SUBSET Nodes : F[S] \subseteq S /\ next(S) = F[S]
  BY <1>2, GraphAssumption DEF Monotone
<1> HIDE DEF next
<1>4. ASSUME NEW h
      PROVE  Shrinks(h, F, Nodes)
             <=> h = [S \in SUBSET Nodes |-> IF next(S) = S THEN S ELSE h[next(S)]]
  BY <1>3 DEF Shrinks
<1>5. Shrinks(g, F, Nodes)
  <2>1. \E h : Shrinks(h, F, Nodes)
    BY <1>3, ShrinksExists
  <2> QED  BY <1>4, <2>1
<1> HIDE DEF g
<1>6. live \in SUBSET Nodes /\ C \in SUBSET Nodes
  BY DEF Settles
<1>7. C \subseteq F[C]
  BY <1>2, <1>6
<1>8. C \subseteq g[live]
  BY <1>3, <1>5, <1>6, <1>7, ShrinksKeeps
<1> QED  BY <1>1, <1>8

LEMMA BackwardIsCut ==
  ASSUME Settles
  PROVE  Backward = {e \in edges : Cut(e[2], e[1])}
BY DominatesIsCut DEF Backward

(* Back edges are those to a dominator, whatever way the search went.      *)
LEMMA BackEdgesAreBackward ==
  ASSUME Settles, BackInv, ~ Pass("back"), backEdges # None, Reducible
  PROVE  backEdges = Backward
<1>1. Ranked /\ backEdges \in SUBSET edges /\ edges \subseteq live \X live
  BY DEF BackInv, Settles, Reached
<1>2. Backward \subseteq backEdges
  BY <1>1, BackwardIsCut DEF Ranked
<1>3. ASSUME NEW e \in backEdges
      PROVE  e \in Backward
  <2>1. PICK C \in SUBSET live : /\ e[1] \in C /\ e[2] \in C
                                 /\ \A x \in C \ {e[2]} : \E s \in C : x \in Succs(s) /\ ~ Cut(x, s)
    BY DEF BackInv, Circular
  <2> SUFFICES ASSUME e \notin Backward PROVE FALSE
    OBVIOUS
  <2>2. ASSUME NEW x \in C
        PROVE  \E s \in C : << s, x >> \in edges \ Backward
    <3>1. CASE x = e[2]
      <4>1. e = << e[1], x >> /\ e \in edges
        BY <1>1, <3>1
      <4> QED  BY <2>1, <4>1
    <3>2. CASE x # e[2]
      <4>1. PICK s \in C : x \in Succs(s) /\ ~ Cut(x, s)
        BY <2>1, <3>2
      <4>2. << s, x >> \in edges /\ << s, x >> \notin Backward
        BY <4>1, BackwardIsCut DEF Succs
      <4> QED  BY <4>2
    <3> QED  BY <3>1, <3>2
  <2>3. C = {}
    BY <2>2, NoCycle
  <2> QED  BY <2>1, <2>3
<1> QED  BY <1>2, <1>3

LEMMA FlowGivesLoops == FlowInv => LoopsRight
<1> SUFFICES ASSUME FlowInv, Done, backEdges # None, Reducible
             PROVE  /\ backEdges = Backward
                    /\ \A g, h \in Headers :
                         g # h /\ Body(g) \cap Body(h) # {} =>
                           /\ Body(g) \subseteq Body(h) \/ Body(h) \subseteq Body(g)
                           /\ Cardinality(Body(g)) # Cardinality(Body(h))
  BY DEF LoopsRight
<1>1. Settles /\ ~ Pass("back") /\ BackInv
  <2>1. passes = << >> /\ passes # << "process" >>
    BY DEF Done
  <2> QED  BY <2>1 DEF FlowInv, GraphInv, Settles, Pass
<1>2. backEdges = Backward
  BY <1>1, BackEdgesAreBackward
<1>3. backEdges \in SUBSET edges /\ \A e \in backEdges : Cut(e[2], e[1])
  BY <1>1, <1>2, BackwardIsCut
<1>4. edges \subseteq live \X live /\ live \in SUBSET Nodes /\ edges \subseteq Nodes \X Nodes
  BY <1>1 DEF Settles, Reached
<1>5. ASSUME NEW g \in Headers
      PROVE  /\ g \in live /\ Body(g) \subseteq live
             /\ \A x \in Body(g) : Cut(g, x)
  <2>1. g \in live /\ g \in Nodes
    BY <1>3, <1>4, HeadersAreLive
  <2>2. PICK D \in SUBSET live : D = {n \in live : Cut(g, n)}
    OBVIOUS
  <2>3. g \in D
    BY <1>1, <2>1, <2>2, CutSelf
  <2>4. \A e \in backEdges : e[2] = g => e[1] \in D
    BY <1>3, <1>4, <2>2
  <2>5. \A n \in D \ {g} : Preds(n) \subseteq D
    <3> TAKE n \in D \ {g}
    <3>1. \A p \in Preds(n) : p \in live /\ n \in Succs(p)
      BY <1>4, <2>2 DEF Preds, Succs
    <3> QED  BY <2>2, <3>1, CutBefore
  <2>6. Loops(D, g)
    BY <2>3, <2>4, <2>5 DEF Loops
  <2>7. Body(g) \subseteq D
    BY <1>3, <1>4, <2>1, <2>6, BodyIsLeast
  <2> QED  BY <2>1, <2>2, <2>7
<1>6. ASSUME NEW g \in Headers, NEW h \in Headers, g # h, Cut(h, g), Body(g) \cap Body(h) # {}
      PROVE  Body(g) \subseteq Body(h) /\ Cardinality(Body(g)) # Cardinality(Body(h))
  <2>1. PICK x \in Body(g) : x \in Body(h)
    BY <1>6
  <2>2. /\ Body(g) \subseteq Body(h)
        /\ IsFiniteSet(Body(h)) /\ Cardinality(Body(g)) < Cardinality(Body(h))
    BY <1>1, <1>3, <1>6, <2>1, LoopsNest
  <2>3. IsFiniteSet(Body(g)) /\ Cardinality(Body(g)) \in Nat /\ Cardinality(Body(h)) \in Nat
    BY <2>2, FS_Subset, FS_CardinalityType
  <2> QED  BY <2>2, <2>3
<1>7. ASSUME NEW g \in Headers, NEW h \in Headers, g # h, Body(g) \cap Body(h) # {}
      PROVE  Cut(g, h) \/ Cut(h, g)
  BY <1>1, <1>5, <1>7, CutChain
<1> QED  BY <1>2, <1>6, <1>7
-----------------------------------------------------------------------------
(* Trees                                                                   *)

(* Nodes that hang below each other and all below a root.  A rank rises.   *)
IsTree(D, up, root, rank) ==
    /\ root \in D /\ up \in [D -> D] /\ up[root] = root
    /\ rank \in [D -> Nat] /\ \A x, y \in D : rank[x] = rank[y] => x = y
    /\ \A x \in D : rank[x] <= rank[root]
    /\ \A x \in D \ {root} : rank[x] < rank[up[x]]

(* The way from x to the root                                              *)
Upward(U, up, x) == x \in U /\ \A z \in U : up[z] \in U

Up(D, up, x) == {y \in D : \A U \in SUBSET D : Upward(U, up, x) => y \in U}

LEMMA UpIsLeast ==
  ASSUME NEW D, NEW up \in [D -> D], NEW x \in D
  PROVE  /\ Up(D, up, x) \in SUBSET D /\ Upward(Up(D, up, x), up, x)
         /\ \A U \in SUBSET D : Upward(U, up, x) => Up(D, up, x) \subseteq U
<1>1. Up(D, up, x) \in SUBSET D /\ x \in Up(D, up, x)
  BY DEF Up, Upward
<1>2. ASSUME NEW z \in Up(D, up, x)
      PROVE  up[z] \in Up(D, up, x)
  BY <1>2 DEF Up, Upward
<1>3. \A U \in SUBSET D : Upward(U, up, x) => Up(D, up, x) \subseteq U
  BY DEF Up
<1> QED  BY <1>1, <1>2, <1>3 DEF Upward

LEMMA UpOpens ==
  ASSUME NEW D, NEW up \in [D -> D], NEW x \in D
  PROVE  /\ Up(D, up, x) = {x} \cup Up(D, up, up[x])
         /\ \A z \in Up(D, up, x) : Up(D, up, z) \subseteq Up(D, up, x)
<1>1. PICK A \in SUBSET D : A = Up(D, up, x)
  BY UpIsLeast
<1>2. Upward(A, up, x) /\ \A U \in SUBSET D : Upward(U, up, x) => A \subseteq U
  BY <1>1, UpIsLeast
<1>3. PICK y \in D : y = up[x]
  OBVIOUS
<1>4. PICK B \in SUBSET D : B = Up(D, up, y)
  BY UpIsLeast
<1>5. Upward(B, up, y) /\ \A U \in SUBSET D : Upward(U, up, y) => B \subseteq U
  BY <1>4, UpIsLeast
<1>6. B \subseteq A
  BY <1>2, <1>3, <1>5 DEF Upward
<1>7. A \subseteq {x} \cup B
  <2>1. Upward({x} \cup B, up, x)
    BY <1>3, <1>5 DEF Upward
  <2>2. {x} \cup B \in SUBSET D
    OBVIOUS
  <2> QED  BY <1>2, <2>1, <2>2
<1>8. ASSUME NEW z \in A
      PROVE  Up(D, up, z) \subseteq A
  <2>1. z \in D /\ Upward(A, up, z)
    BY <1>2, <1>8 DEF Upward
  <2> QED  BY <2>1, UpIsLeast
<1> QED  BY <1>1, <1>2, <1>3, <1>4, <1>6, <1>7, <1>8 DEF Upward

LEMMA UpRises ==
  ASSUME NEW D, NEW up, NEW root, NEW rank, IsTree(D, up, root, rank), NEW x \in D
  PROVE  \A y \in Up(D, up, x) : y = x \/ rank[x] < rank[y]
<1>1. PICK U \in SUBSET D : U = {y \in D : y = x \/ rank[x] < rank[y]}
  OBVIOUS
<1>2. up \in [D -> D] /\ rank \in [D -> Nat]
  BY DEF IsTree
<1>3. ASSUME NEW z \in U
      PROVE  up[z] \in U
  <2>1. CASE z = root
    BY <1>1, <1>3, <2>1 DEF IsTree
  <2>2. CASE z # root
    <3>1. rank[z] < rank[up[z]] /\ rank[z] \in Nat /\ rank[up[z]] \in Nat /\ rank[x] \in Nat
      BY <1>1, <1>2, <2>2 DEF IsTree
    <3>2. rank[x] < rank[up[z]]
      BY <1>1, <1>3, <3>1
    <3> QED  BY <1>1, <1>2, <3>2
  <2> QED  BY <2>1, <2>2
<1>4. Upward(U, up, x)
  BY <1>1, <1>3 DEF Upward
<1>5. Up(D, up, x) \subseteq U
  BY <1>2, <1>4, UpIsLeast
<1> QED  BY <1>1, <1>5

(* Some node of a set has the lowest rank.                                 *)
Lowest(C, rank) == CHOOSE y \in C : \A z \in C : rank[y] <= rank[z]

LEMMA LowestIs ==
  ASSUME NEW D, NEW rank \in [D -> Nat], NEW C \in SUBSET D, C # {}
  PROVE  Lowest(C, rank) \in C /\ \A z \in C : rank[Lowest(C, rank)] <= rank[z]
<1>1. PICK R : R = {rank[z] : z \in C}
  OBVIOUS
<1>2. R \subseteq Nat /\ R # {}
  BY <1>1
<1>3. PICK k \in R : \A m \in R : k <= m
  BY <1>2, LeastNatural
<1>4. \E y \in C : \A z \in C : rank[y] <= rank[z]
  BY <1>1, <1>3
<1> QED  BY <1>4 DEF Lowest

(* All ways end at the root.                                               *)
LEMMA UpEnds ==
  ASSUME NEW D, NEW up, NEW root, NEW rank, IsTree(D, up, root, rank), NEW x \in D
  PROVE  root \in Up(D, up, x)
<1>1. up \in [D -> D] /\ rank \in [D -> Nat] /\ root \in D
  BY DEF IsTree
<1>2. PICK A \in SUBSET D : A = Up(D, up, x)
  BY <1>1, UpIsLeast
<1>3. Upward(A, up, x)
  BY <1>1, <1>2, UpIsLeast
<1>4. PICK down \in [D -> Nat] : \A z \in D : down[z] = rank[root] - rank[z]
  <2>1. [z \in D |-> rank[root] - rank[z]] \in [D -> Nat]
    BY <1>1 DEF IsTree
  <2> QED  BY <2>1
<1>5. PICK y \in A : \A z \in A : down[y] <= down[z]
  BY <1>3, LowestIs DEF Upward
<1>6. up[y] \in A /\ y \in D /\ up[y] \in D
  BY <1>3 DEF Upward
<1>7. CASE y # root
  <2>1. rank[y] < rank[up[y]] /\ rank[y] \in Nat /\ rank[up[y]] \in Nat /\ rank[root] \in Nat
    BY <1>1, <1>6, <1>7 DEF IsTree
  <2>2. down[y] <= down[up[y]]
    BY <1>5, <1>6
  <2> QED  BY <1>4, <1>6, <2>1, <2>2
<1> QED  BY <1>2, <1>7

(* Of two nodes on one way the higher is on the way from the lower.        *)
LEMMA UpIsChain ==
  ASSUME NEW D, NEW up, NEW root, NEW rank, IsTree(D, up, root, rank), NEW x \in D,
         NEW y \in Up(D, up, x), NEW z \in Up(D, up, x), rank[y] <= rank[z]
  PROVE  z \in Up(D, up, y)
<1>1. up \in [D -> D] /\ rank \in [D -> Nat]
  BY DEF IsTree
<1>2. PICK A \in SUBSET D : A = Up(D, up, x)
  BY <1>1, UpIsLeast
<1>3. Upward(A, up, x) /\ z \in D /\ y \in D
  BY <1>1, <1>2, UpIsLeast
<1>4. PICK U \in SUBSET D : U = {w \in A : z \in Up(D, up, w) \/ w \in Up(D, up, z)}
  OBVIOUS
<1>5. x \in U
  BY <1>2, <1>3, <1>4 DEF Upward
<1>6. ASSUME NEW w \in U
      PROVE  up[w] \in U
  <2>1. w \in D /\ up[w] \in A /\ up[w] \in D
    BY <1>1, <1>3, <1>4, <1>6 DEF Upward
  <2>2. Upward(Up(D, up, z), up, z)
    BY <1>1, <1>3, UpIsLeast
  <2>3. CASE w \in Up(D, up, z)
    BY <1>4, <2>1, <2>2, <2>3 DEF Upward
  <2>4. CASE z \in Up(D, up, w)
    <3>1. z = w \/ z \in Up(D, up, up[w])
      BY <1>1, <2>1, <2>4, UpOpens
    <3>2. z = w => w \in Up(D, up, z)
      BY <2>2 DEF Upward
    <3> QED  BY <1>4, <2>1, <2>3, <3>1, <3>2
  <2> QED  BY <1>4, <2>3, <2>4
<1>7. Upward(U, up, x)
  BY <1>5, <1>6 DEF Upward
<1>8. y \in U
  BY <1>1, <1>2, <1>7, UpIsLeast
<1>9. CASE y \in Up(D, up, z)
  <2>1. y = z
    <3>1. y = z \/ rank[z] < rank[y]
      BY <1>3, <1>9, UpRises
    <3>2. rank[y] \in Nat /\ rank[z] \in Nat
      BY <1>1, <1>3
    <3> QED  BY <3>1, <3>2
  <2> QED  BY <1>9, <2>1
<1> QED  BY <1>4, <1>8, <1>9

(* What is on the ways from all of S                                       *)
Common(D, up, S) == {y \in D : \A x \in S : y \in Up(D, up, x)}

(* Where they meet                                                         *)
LEMMA CommonIsUp ==
  ASSUME NEW D, NEW up, NEW root, NEW rank, IsTree(D, up, root, rank),
         NEW S \in SUBSET D, S # {}
  PROVE  /\ Lowest(Common(D, up, S), rank) \in Common(D, up, S)
         /\ Lowest(Common(D, up, S), rank) \in D
         /\ Common(D, up, S) = Up(D, up, Lowest(Common(D, up, S), rank))
<1>1. up \in [D -> D] /\ rank \in [D -> Nat] /\ root \in D
  BY DEF IsTree
<1>2. PICK C \in SUBSET D : C = Common(D, up, S)
  BY DEF Common
<1>3. root \in C
  BY <1>1, <1>2, UpEnds DEF Common
<1>4. PICK m \in C : m = Lowest(C, rank) /\ \A z \in C : rank[m] <= rank[z]
  BY <1>1, <1>3, LowestIs
<1>5. Up(D, up, m) \subseteq C
  <2>1. ASSUME NEW x \in S
        PROVE  Up(D, up, m) \subseteq Up(D, up, x)
    <3>1. m \in Up(D, up, x) /\ x \in D
      BY <1>2, <2>1 DEF Common
    <3> QED  BY <1>1, <3>1, UpOpens
  <2>2. Up(D, up, m) \subseteq D
    BY <1>1, UpIsLeast
  <2> QED  BY <1>2, <2>1, <2>2 DEF Common
<1>6. ASSUME NEW z \in C
      PROVE  z \in Up(D, up, m)
  <2>1. PICK x \in S : TRUE
    OBVIOUS
  <2>2. m \in Up(D, up, x) /\ z \in Up(D, up, x) /\ x \in D
    BY <1>2, <2>1 DEF Common
  <2> QED  BY <1>4, <2>2, UpIsChain
<1> QED  BY <1>2, <1>4, <1>5, <1>6
(* f climbs from the lower of two nodes until they are the same.           *)
Meets(f, D, up, rank) ==
    f = [p \in D \X D |->
           IF p[1] = p[2] THEN p[1]
           ELSE IF rank[p[1]] < rank[p[2]] THEN f[<< up[p[1]], p[2] >>]
           ELSE f[<< p[1], up[p[2]] >>]]

LEMMA LowerClimbs ==
  ASSUME NEW D, NEW up, NEW root, NEW rank, IsTree(D, up, root, rank), NEW a \in D, NEW b \in D
  PROVE  /\ Lowest(Common(D, up, {a, a}), rank) = a
         /\ rank[a] < rank[b] => Common(D, up, {a, b}) = Common(D, up, {up[a], b})
         /\ rank[b] < rank[a] => Common(D, up, {a, b}) = Common(D, up, {a, up[b]})
<1>1. up \in [D -> D] /\ rank \in [D -> Nat] /\ up[a] \in D /\ up[b] \in D
  BY DEF IsTree
<1>2. \A c \in {a, b} : Up(D, up, c) \subseteq D /\ c \in Up(D, up, c)
                        /\ Up(D, up, c) = {c} \cup Up(D, up, up[c])
  BY <1>1, UpIsLeast, UpOpens DEF Upward
<1>3. Lowest(Common(D, up, {a, a}), rank) = a
  <2>1. PICK C \in SUBSET D : C = Common(D, up, {a, a})
    BY DEF Common
  <2>2. a \in C /\ C = Up(D, up, a)
    BY <1>2, <2>1 DEF Common
  <2>3. PICK m \in C : m = Lowest(C, rank) /\ \A z \in C : rank[m] <= rank[z]
    BY <1>1, <2>2, LowestIs
  <2>4. m = a \/ rank[a] < rank[m]
    BY <2>2, <2>3, UpRises
  <2>5. rank[m] <= rank[a] /\ rank[m] \in Nat /\ rank[a] \in Nat
    BY <1>1, <2>2, <2>3
  <2> QED  BY <2>1, <2>3, <2>4, <2>5
<1>4. ASSUME NEW x \in {a, b}, NEW y \in {a, b}, rank[x] < rank[y]
      PROVE  x \notin Up(D, up, y)
  <2>1. x \in Up(D, up, y) => x = y \/ rank[y] < rank[x]
    BY UpRises
  <2> QED  BY <1>1, <1>4, <2>1
<1>5. ASSUME rank[a] < rank[b]
      PROVE  Common(D, up, {a, b}) = Common(D, up, {up[a], b})
  BY <1>2, <1>4, <1>5 DEF Common
<1>6. ASSUME rank[b] < rank[a]
      PROVE  Common(D, up, {a, b}) = Common(D, up, {a, up[b]})
  BY <1>2, <1>4, <1>6 DEF Common
<1> QED  BY <1>3, <1>5, <1>6

LEMMA MeetsExists ==
  ASSUME NEW D, NEW up, NEW root, NEW rank, IsTree(D, up, root, rank)
  PROVE  \E f : Meets(f, D, up, rank)
<1> DEFINE low(a, b) == Lowest(Common(D, up, {a, b}), rank)
<1>1. PICK f : f = [p \in D \X D |-> low(p[1], p[2])]
  OBVIOUS
<1>2. up \in [D -> D] /\ rank \in [D -> Nat]
  BY DEF IsTree
<1>3. \A a, b \in D : f[<< a, b >>] = low(a, b)
  BY <1>1
<1>4. ASSUME NEW a \in D, NEW b \in D
      PROVE  /\ low(a, a) = a
             /\ rank[a] < rank[b] => low(a, b) = low(up[a], b)
             /\ rank[b] < rank[a] => low(a, b) = low(a, up[b])
  <2>1. /\ Lowest(Common(D, up, {a, a}), rank) = a
        /\ rank[a] < rank[b] => Common(D, up, {a, b}) = Common(D, up, {up[a], b})
        /\ rank[b] < rank[a] => Common(D, up, {a, b}) = Common(D, up, {a, up[b]})
    BY LowerClimbs
  <2> QED  BY <2>1
<1> HIDE DEF low
<1>7. ASSUME NEW p \in D \X D
      PROVE  f[p] = IF p[1] = p[2] THEN p[1]
                    ELSE IF rank[p[1]] < rank[p[2]] THEN f[<< up[p[1]], p[2] >>]
                    ELSE f[<< p[1], up[p[2]] >>]
  <2>1. PICK a \in D, b \in D : p = << a, b >>
    OBVIOUS
  <2>2. up[a] \in D /\ up[b] \in D /\ rank[a] \in Nat /\ rank[b] \in Nat
    BY <1>2
  <2>3. a # b /\ ~ (rank[a] < rank[b]) => rank[b] < rank[a]
    BY <2>2 DEF IsTree
  <2>4. f[p] = IF a = b THEN a
               ELSE IF rank[a] < rank[b] THEN f[<< up[a], b >>] ELSE f[<< a, up[b] >>]
    BY <1>3, <1>4, <2>1, <2>2, <2>3
  <2> QED  BY <2>1, <2>4
<1>8. f = [p \in D \X D |-> f[p]]
  BY <1>1
<1>9. f = [p \in D \X D |-> IF p[1] = p[2] THEN p[1]
                           ELSE IF rank[p[1]] < rank[p[2]] THEN f[<< up[p[1]], p[2] >>]
                           ELSE f[<< p[1], up[p[2]] >>]]
  BY <1>7, <1>8
<1> QED  BY <1>9 DEF Meets

LEMMA MeetsLowest ==
  ASSUME NEW D, NEW up, NEW root, NEW rank, IsTree(D, up, root, rank),
         NEW f, Meets(f, D, up, rank), NEW u \in D, NEW v \in D
  PROVE  f[<< u, v >>] = Lowest(Common(D, up, {u, v}), rank)
<1> DEFINE low(a, b) == Lowest(Common(D, up, {a, b}), rank)
<1>1. up \in [D -> D] /\ rank \in [D -> Nat] /\ root \in D
  BY DEF IsTree
<1>2. ASSUME NEW a \in D, NEW b \in D
      PROVE  /\ low(a, a) = a
             /\ rank[a] < rank[b] => low(a, b) = low(up[a], b)
             /\ rank[b] < rank[a] => low(a, b) = low(a, up[b])
  <2>1. /\ Lowest(Common(D, up, {a, a}), rank) = a
        /\ rank[a] < rank[b] => Common(D, up, {a, b}) = Common(D, up, {up[a], b})
        /\ rank[b] < rank[a] => Common(D, up, {a, b}) = Common(D, up, {a, up[b]})
    BY LowerClimbs, SMTT(30)
  <2> QED  BY <2>1
<1> HIDE DEF low
<1>3. PICK h : h = [a \in D |-> [b \in D |-> f[<< a, b >>]]]
  OBVIOUS
<1>4. ASSUME NEW a \in D, NEW b \in D
      PROVE  h[a][b] = IF a = b THEN a
                       ELSE IF rank[a] < rank[b] THEN h[up[a]][b] ELSE h[a][up[b]]
  <2>0. << a, b >> \in D \X D /\ << a, b >>[1] = a /\ << a, b >>[2] = b
    OBVIOUS
  <2>1. PICK p \in D \X D : p = << a, b >> /\ p[1] = a /\ p[2] = b
    BY <2>0
  <2>2. f[p] = IF p[1] = p[2] THEN p[1]
               ELSE IF rank[p[1]] < rank[p[2]] THEN f[<< up[p[1]], p[2] >>]
               ELSE f[<< p[1], up[p[2]] >>]
    BY DEF Meets
  <2>3. up[a] \in D /\ up[b] \in D
    BY <1>1
  <2>4. h[a][b] = f[<< a, b >>] /\ h[up[a]][b] = f[<< up[a], b >>] /\ h[a][up[b]] = f[<< a, up[b] >>]
    BY <1>3, <2>3
  <2> QED  BY <2>1, <2>2, <2>4
<1> DEFINE togo(a, b) == (rank[root] - rank[a]) + (rank[root] - rank[b])
<1>5. ASSUME NEW a \in D, NEW b \in D
      PROVE  togo(a, b) \in Nat
  BY <1>1 DEF IsTree
<1>6. PICK R : R = {k \in Nat : \E a, b \in D : h[a][b] # low(a, b) /\ k = togo(a, b)}
  OBVIOUS
<1>7. SUFFICES ASSUME R # {} PROVE FALSE
  <2>1. h[u][v] = low(u, v)
    BY <1>5, <1>6, <1>7
  <2> QED  BY <1>3, <2>1 DEF low
<1>8. PICK k \in R : \A m \in R : k <= m
  BY <1>6, <1>7, LeastNatural
<1>9. PICK a \in D, b \in D : h[a][b] # low(a, b) /\ k = togo(a, b)
  BY <1>6
<1>10. a # b
  BY <1>2, <1>4, <1>9
<1>11. rank[a] \in Nat /\ rank[b] \in Nat /\ rank[root] \in Nat
       /\ rank[a] <= rank[root] /\ rank[b] <= rank[root] /\ up[a] \in D /\ up[b] \in D
       /\ rank[a] # rank[b]
  BY <1>1, <1>10 DEF IsTree
<1>12. CASE rank[a] < rank[b]
  <2>1. h[up[a]][b] # low(up[a], b)
    BY <1>2, <1>4, <1>9, <1>10, <1>12
  <2>2. a # root
    BY <1>11, <1>12
  <2>3. rank[a] < rank[up[a]] /\ rank[up[a]] \in Nat
    BY <1>1, <1>11, <2>2 DEF IsTree
  <2>4. togo(up[a], b) < togo(a, b) /\ togo(up[a], b) \in Nat /\ togo(a, b) \in Nat
    BY <1>5, <1>11, <2>3
  <2>5. togo(up[a], b) \in R
    BY <1>6, <1>11, <2>1, <2>4
  <2> HIDE DEF togo
  <2> QED  BY <1>8, <1>9, <2>4, <2>5
<1>13. CASE rank[b] < rank[a]
  <2>1. h[a][up[b]] # low(a, up[b])
    BY <1>2, <1>4, <1>9, <1>10, <1>11, <1>13
  <2>2. b # root
    BY <1>11, <1>13
  <2>3. rank[b] < rank[up[b]] /\ rank[up[b]] \in Nat
    BY <1>1, <1>11, <2>2 DEF IsTree
  <2>4. togo(a, up[b]) < togo(a, b) /\ togo(a, up[b]) \in Nat /\ togo(a, b) \in Nat
    BY <1>5, <1>11, <2>3
  <2>5. togo(a, up[b]) \in R
    BY <1>6, <1>11, <2>1, <2>4
  <2> HIDE DEF togo
  <2> QED  BY <1>8, <1>9, <2>4, <2>5
<1> QED  BY <1>11, <1>12, <1>13
-----------------------------------------------------------------------------
(* The tree of dominators                                                  *)

(* What the search has left                                                *)
Gone == {order[i] : i \in 1 .. Len(order)}

Place == [n \in DOMAIN tree |-> Index(n)]

(* Nodes that were left, each below one that was left later or the virtual *)
(* root                                                                    *)
Hung ==
    /\ DOMAIN tree \subseteq {Virtual} \cup Gone
    /\ IsTree(DOMAIN tree, tree, Virtual, Place)

LowestOf(S) == Lowest(Common(DOMAIN tree, tree, S), Place)

LEMMA IndexIs ==
  ASSUME Listed
  PROVE  /\ Index(Virtual) = Len(order) + 1 /\ Len(order) \in Nat
         /\ \A i \in 1 .. Len(order) : order[i] # Virtual => Index(order[i]) = i
<1>1. Len(order) \in Nat /\ DOMAIN order = 1 .. Len(order)
  BY DEF Listed
<1>2. ASSUME NEW i \in 1 .. Len(order), order[i] # Virtual
      PROVE  Index(order[i]) = i
  <2>1. PICK n : n = order[i]
    OBVIOUS
  <2>2. \E j \in DOMAIN order : order[j] = n
    BY <1>1, <2>1
  <2>3. PICK j \in DOMAIN order : j = Index(n) /\ order[j] = n
    BY <1>2, <2>1, <2>2 DEF Index
  <2> QED  BY <1>1, <2>1, <2>3 DEF Listed
<1> QED  BY <1>1, <1>2 DEF Index

LEMMA MeetIsLowest ==
  ASSUME Hung, NEW u \in DOMAIN tree, NEW v \in DOMAIN tree
  PROVE  Meet(u, v) = LowestOf({u, v})
<1> DEFINE meet == CHOOSE m : m = [p \in (DOMAIN tree) \X (DOMAIN tree) |->
                     IF p[1] = p[2] THEN p[1]
                     ELSE IF Index(p[1]) < Index(p[2]) THEN m[<< tree[p[1]], p[2] >>]
                     ELSE m[<< p[1], tree[p[2]] >>]]
<1>1. Meet(u, v) = meet[<< u, v >>]
  BY DEF Meet
<1>2. \A n \in DOMAIN tree : Place[n] = Index(n)
  BY DEF Place
<1>3. ASSUME NEW m
      PROVE  Meets(m, DOMAIN tree, tree, Place)
             <=> m = [p \in (DOMAIN tree) \X (DOMAIN tree) |->
                     IF p[1] = p[2] THEN p[1]
                     ELSE IF Index(p[1]) < Index(p[2]) THEN m[<< tree[p[1]], p[2] >>]
                     ELSE m[<< p[1], tree[p[2]] >>]]
  <2>1. \A p \in (DOMAIN tree) \X (DOMAIN tree) :
          Place[p[1]] = Index(p[1]) /\ Place[p[2]] = Index(p[2])
    BY <1>2
  <2> QED  BY <2>1 DEF Meets
<1>4. \E m : Meets(m, DOMAIN tree, tree, Place)
  BY MeetsExists DEF Hung
<1>5. Meets(meet, DOMAIN tree, tree, Place)
  BY <1>3, <1>4
<1> HIDE DEF meet
<1>6. IsTree(DOMAIN tree, tree, Virtual, Place)
  BY DEF Hung
<1>7. meet[<< u, v >>] = Lowest(Common(DOMAIN tree, tree, {u, v}), Place)
  BY <1>5, <1>6, MeetsLowest
<1> QED  BY <1>1, <1>7 DEF LowestOf

LEMMA LowestJoins ==
  ASSUME Hung, NEW T \in SUBSET DOMAIN tree, T # {}, NEW x \in DOMAIN tree
  PROVE  /\ LowestOf(T) \in DOMAIN tree
         /\ Meet(x, LowestOf(T)) = LowestOf(T \cup {x})
<1>1. IsTree(DOMAIN tree, tree, Virtual, Place)
  BY DEF Hung
<1>2. PICK m : m = LowestOf(T)
  OBVIOUS
<1>3. m \in DOMAIN tree /\ Common(DOMAIN tree, tree, T) = Up(DOMAIN tree, tree, m)
  BY <1>1, <1>2, CommonIsUp DEF LowestOf
<1>4. Common(DOMAIN tree, tree, {x, m}) = Common(DOMAIN tree, tree, T \cup {x})
  BY <1>3 DEF Common
<1>5. LowestOf({x, m}) = LowestOf(T \cup {x})
  BY <1>4 DEF LowestOf
<1> QED  BY <1>2, <1>3, <1>5, MeetIsLowest

LEMMA LowestAlone ==
  ASSUME Hung, NEW x \in DOMAIN tree
  PROVE  LowestOf({x}) = x
<1>1. IsTree(DOMAIN tree, tree, Virtual, Place)
  BY DEF Hung
<1>2. {x, x} = {x}
  OBVIOUS
<1>3. /\ Lowest(Common(DOMAIN tree, tree, {x, x}), Place) = x
      /\ Place[x] < Place[x] => Common(DOMAIN tree, tree, {x, x}) = Common(DOMAIN tree, tree, {tree[x], x})
      /\ Place[x] < Place[x] => Common(DOMAIN tree, tree, {x, x}) = Common(DOMAIN tree, tree, {x, tree[x]})
  BY <1>1, LowerClimbs
<1> QED  BY <1>2, <1>3 DEF LowestOf

(* The new place of a node is the lowest above all that lead to it.        *)
LEMMA NewDomIsLowest ==
  ASSUME Hung, NEW u, Above(u) \in SUBSET DOMAIN tree, Above(u) # {}, IsFiniteSet(Above(u))
  PROVE  NewDom(u) = LowestOf(Above(u))
<1> DEFINE pick(s) == CHOOSE x \in s : TRUE
<1>1. PICK v : v = (CHOOSE x \in Above(u) : TRUE) /\ v \in Above(u)
  OBVIOUS
<1>2. PICK S : S = Above(u) \ {v}
  OBVIOUS
<1>3. NewDom(u) = FoldSet(Meet, v, S)
  BY <1>1, <1>2 DEF NewDom
<1> DEFINE iter == CHOOSE i : i = [s \in SUBSET S |->
                     IF s = {} THEN v ELSE Meet(pick(s), i[s \ {pick(s)}])]
<1>4. FoldSet(Meet, v, S) = iter[S]
  BY DEF FoldSet, MapThenFoldSet
<1>5. v \in DOMAIN tree /\ S \subseteq DOMAIN tree /\ IsFiniteSet(S)
  BY <1>1, <1>2, FS_Subset
<1>6. \A s \in SUBSET S : s # {} => pick(s) \in s
  OBVIOUS
<1> HIDE DEF pick
<1>7. ASSUME NEW s \in SUBSET S, s # {}
      PROVE  LowestOf(s \cup {v}) = Meet(pick(s), LowestOf((s \ {pick(s)}) \cup {v}))
  <2>1. PICK x \in s : x = pick(s)
    BY <1>6, <1>7
  <2>2. PICK T : T = (s \ {x}) \cup {v}
    OBVIOUS
  <2>6. T \in SUBSET DOMAIN tree /\ T # {}
    BY <1>5, <2>2
  <2>3. T \cup {x} = s \cup {v}
    BY <2>2
  <2>4. x \in DOMAIN tree
    BY <1>5
  <2>5. Meet(x, LowestOf(T)) = LowestOf(T \cup {x})
    BY <2>4, <2>6, LowestJoins
  <2> QED  BY <2>1, <2>2, <2>3, <2>5
<1>8. LowestOf({} \cup {v}) = v
  <2>1. {} \cup {v} = {v}
    OBVIOUS
  <2> QED  BY <1>5, <2>1, LowestAlone
<1>9. PICK g : g = [s \in SUBSET S |-> LowestOf(s \cup {v})]
  OBVIOUS
<1>10. g = [s \in SUBSET S |-> IF s = {} THEN v ELSE Meet(pick(s), g[s \ {pick(s)}])]
  <2>1. ASSUME NEW s \in SUBSET S
        PROVE  g[s] = IF s = {} THEN v ELSE Meet(pick(s), g[s \ {pick(s)}])
    <3>1. PICK w : w = s \ {pick(s)}
      OBVIOUS
    <3>2. w \in SUBSET S /\ g[w] = LowestOf(w \cup {v})
      BY <1>9, <3>1
    <3>3. g[s] = LowestOf(s \cup {v})
      BY <1>9
    <3> QED  BY <1>7, <1>8, <3>1, <3>2, <3>3
  <2>2. g = [s \in SUBSET S |-> g[s]]
    BY <1>9
  <2> QED  BY <2>1, <2>2
<1>11. iter = [s \in SUBSET S |-> IF s = {} THEN v ELSE Meet(pick(s), iter[s \ {pick(s)}])]
  BY <1>10
<1> HIDE DEF iter
<1>12. PICK Wrong : Wrong = {s \in SUBSET S : iter[s] # LowestOf(s \cup {v})}
  OBVIOUS
<1>13. Wrong = {}
  <2> SUFFICES ASSUME Wrong # {} PROVE FALSE
    OBVIOUS
  <2>1. Wrong \subseteq SUBSET S
    BY <1>12
  <2>2. PICK s \in Wrong : \A w \in Wrong : w \subseteq s => w = s
    BY <1>5, <2>1, SmallestSet
  <2>3. iter[s] = IF s = {} THEN v ELSE Meet(pick(s), iter[s \ {pick(s)}])
    BY <1>11, <2>1
  <2>4. s # {}
    <3> SUFFICES ASSUME s = {} PROVE FALSE
      OBVIOUS
    <3>1. iter[s] = v
      BY <2>3
    <3> QED  BY <1>8, <1>12, <3>1
  <2>5. PICK w : w = s \ {pick(s)}
    OBVIOUS
  <2>6. w \in SUBSET S /\ w \subseteq s /\ w # s
    BY <1>6, <2>1, <2>4, <2>5
  <2>7. iter[w] = LowestOf(w \cup {v})
    BY <1>12, <2>2, <2>6
  <2>8. iter[s] = LowestOf(s \cup {v})
    BY <1>7, <2>1, <2>3, <2>4, <2>5, <2>7
  <2> QED  BY <1>12, <2>8
<1>14. iter[S] = LowestOf(S \cup {v})
  BY <1>12, <1>13
<1>15. S \cup {v} = Above(u)
  BY <1>1, <1>2
<1> QED  BY <1>3, <1>4, <1>14, <1>15
(* A search that has left all it can reach                                 *)
Whole == Roots \subseteq Gone /\ \A i \in 1 .. Len(order) : Onward(order[i]) \subseteq Gone

(* What a node cannot be reached without is on its way to the root.        *)
Upheld == \A u \in (DOMAIN tree) \ {Virtual}, d \in live :
    Behind(d, u) /\ d # u => tree[u] # Virtual /\ Behind(d, tree[u])

(* The sweep goes from the end of the order to its beginning, and nodes    *)
(* behind it have a place: that which they would be given again, when      *)
(* nothing has changed.                                                    *)
Swept ==
    /\ sweep \in Seq(live) /\ Len(sweep) <= Len(order)
    /\ \A i \in 1 .. Len(sweep) : sweep[i] = order[Len(sweep) - i + 1]
    /\ \A j \in Len(sweep) + 1 .. Len(order) :
         order[j] \in DOMAIN tree /\ (~ changed => tree[order[j]] = NewDom(order[j]))

Growing == Whole /\ Hung /\ Upheld /\ Swept

LEMMA TreeFrom ==
  ASSUME Listed, live \subseteq Nodes, NEW t, DOMAIN t \subseteq {Virtual} \cup Gone,
         Virtual \in DOMAIN t, t \in [DOMAIN t -> DOMAIN t], t[Virtual] = Virtual,
         \A x \in (DOMAIN t) \ {Virtual} : Index(x) < Index(t[x])
  PROVE  IsTree(DOMAIN t, t, Virtual, [n \in DOMAIN t |-> Index(n)])
<1>1. PICK rank : rank = [n \in DOMAIN t |-> Index(n)]
  OBVIOUS
<1>2. Index(Virtual) = Len(order) + 1 /\ Len(order) \in Nat
      /\ \A i \in 1 .. Len(order) : order[i] # Virtual => Index(order[i]) = i
  BY IndexIs
<1>3. \A n \in DOMAIN t : n # Virtual => Index(n) \in 1 .. Len(order) /\ order[Index(n)] = n
  <2> SUFFICES ASSUME NEW n \in DOMAIN t, n # Virtual
               PROVE  Index(n) \in 1 .. Len(order) /\ order[Index(n)] = n
    OBVIOUS
  <2>1. PICK i \in 1 .. Len(order) : n = order[i]
    BY DEF Gone
  <2>2. Index(n) = i
    BY <1>2, <2>1
  <2> QED  BY <2>1, <2>2
<1>4. \A n \in DOMAIN t : Index(n) \in Nat /\ Index(n) <= Len(order) + 1
  BY <1>2, <1>3
<1>5. rank \in [DOMAIN t -> Nat]
  BY <1>1, <1>4
<1>6. ASSUME NEW x \in DOMAIN t, NEW y \in DOMAIN t, Index(x) = Index(y)
      PROVE  x = y
  <2>1. CASE x = Virtual \/ y = Virtual
    BY <1>2, <1>3, <1>6, <2>1
  <2>2. CASE x # Virtual /\ y # Virtual
    BY <1>3, <1>6, <2>2
  <2> QED  BY <2>1, <2>2
<1>7. \A x \in DOMAIN t : rank[x] = Index(x) /\ t[x] \in DOMAIN t
  BY <1>1
<1>8. \A x, y \in DOMAIN t : rank[x] = rank[y] => x = y
  BY <1>6, <1>7
<1>9. \A x \in DOMAIN t : rank[x] <= rank[Virtual]
  BY <1>2, <1>4, <1>7
<1>10. \A x \in (DOMAIN t) \ {Virtual} : rank[x] < rank[t[x]]
  BY <1>7
<1> QED  BY <1>1, <1>5, <1>8, <1>9, <1>10 DEF IsTree

LEMMA UpholdsUp ==
  ASSUME Hung, Upheld, NEW v \in (DOMAIN tree) \ {Virtual}, NEW d \in live, Behind(d, v)
  PROVE  /\ d \in Up(DOMAIN tree, tree, v)
         /\ \A x \in Up(DOMAIN tree, tree, v) :
              Place[x] <= Place[d] => x # Virtual /\ Behind(d, x)
<1>1. IsTree(DOMAIN tree, tree, Virtual, Place)
  BY DEF Hung
<1>2. tree \in [DOMAIN tree -> DOMAIN tree] /\ Place \in [DOMAIN tree -> Nat]
  BY <1>1 DEF IsTree
<1>3. PICK A \in SUBSET DOMAIN tree : A = Up(DOMAIN tree, tree, v)
  BY <1>2, UpIsLeast
<1>4. Upward(A, tree, v) /\ \A U \in SUBSET DOMAIN tree : Upward(U, tree, v) => A \subseteq U
  BY <1>2, <1>3, UpIsLeast
<1>5. d \in A
  <2> SUFFICES ASSUME d \notin A PROVE FALSE
    OBVIOUS
  <2>1. PICK U \in SUBSET DOMAIN tree : U = {x \in A : x # Virtual /\ Behind(d, x)}
    OBVIOUS
  <2>2. ASSUME NEW x \in U
        PROVE  tree[x] \in U
    <3>1. x \in A /\ x # Virtual /\ Behind(d, x) /\ d # x /\ tree[x] \in A
      BY <1>4, <2>1, <2>2 DEF Upward
    <3>2. tree[x] # Virtual /\ Behind(d, tree[x])
      BY <3>1 DEF Upheld
    <3> QED  BY <2>1, <3>1, <3>2
  <2>3. Upward(U, tree, v)
    BY <1>4, <2>1, <2>2 DEF Upward
  <2>4. Virtual \in A
    BY <1>1, <1>3, UpEnds
  <2> QED  BY <1>4, <2>1, <2>3, <2>4
<1>6. PICK U \in SUBSET DOMAIN tree :
        U = {x \in A : Place[x] <= Place[d] => x # Virtual /\ Behind(d, x)}
  OBVIOUS
<1>7. ASSUME NEW x \in U
      PROVE  tree[x] \in U
  <2>1. x \in A /\ tree[x] \in A /\ tree[x] \in DOMAIN tree
    BY <1>4, <1>6 DEF Upward
  <2>2. CASE x = Virtual
    BY <1>1, <2>2 DEF IsTree
  <2>3. CASE x # Virtual
    <3>1. Place[x] < Place[tree[x]]
      BY <1>1, <2>1, <2>3 DEF IsTree
    <3>2. Place[x] \in Nat /\ Place[tree[x]] \in Nat /\ Place[d] \in Nat
      BY <1>2, <1>5, <2>1
    <3>3. SUFFICES ASSUME Place[tree[x]] <= Place[d]
                   PROVE  tree[x] # Virtual /\ Behind(d, tree[x])
      BY <1>6, <2>1
    <3>4. Behind(d, x) /\ d # x
      BY <1>6, <3>1, <3>2, <3>3
    <3> QED  BY <2>1, <2>3, <3>4 DEF Upheld
  <2> QED  BY <2>2, <2>3
<1>8. Upward(U, tree, v)
  BY <1>4, <1>6, <1>7 DEF Upward
<1> QED  BY <1>3, <1>4, <1>5, <1>6, <1>8
(* The search's two directions, of which one is that of what lies above    *)
Directed == Pass("dominators") \/ Pass("postdominators")

LEMMA AboveIs ==
  ASSUME Settles, Directed, Hung, NEW u \in live
  PROVE  /\ Above(u) = {v \in DOMAIN tree : IF v = Virtual THEN u \in Roots
                                             ELSE v \in live /\ u \in Onward(v)}
         /\ IsFiniteSet(Above(u))
<1>1. live \subseteq Nodes /\ edges \subseteq live \X live /\ Virtual \notin Nodes /\ IsFiniteSet(Nodes)
  BY GraphAssumption DEF Settles, Reached
<1>2. Virtual \in DOMAIN tree
  BY DEF Hung, IsTree
<1>3. \A v : v \in Against(u) <=> v \in DOMAIN tree /\ v \in live /\ u \in Onward(v)
  <2>1. CASE Pass("dominators")
    <3>1. ~ Pass("postdominators") /\ ~ Pass("topo")
      BY <2>1 DEF Pass
    <3> QED  BY <1>1, <2>1, <3>1 DEF Against, Onward, Preds, Succs
  <2>2. CASE Pass("postdominators")
    <3>1. ~ Pass("dominators") /\ ~ Pass("topo")
      BY <2>2 DEF Pass
    <3>2. \A v : Onward(v) = Preds(v)
      BY <2>2, <3>1 DEF Onward
    <3>3. \A v : v \in Against(u) <=> v \in Succs(u) /\ v \in DOMAIN tree
      BY <3>1 DEF Against
    <3>4. \A v : v \in Succs(u) <=> v \in live /\ << u, v >> \in edges
      BY <1>1 DEF Succs
    <3>5. \A v : u \in Preds(v) <=> << u, v >> \in edges
      BY <1>1 DEF Preds
    <3> QED  BY <3>2, <3>3, <3>4, <3>5
  <2> QED  BY <2>1, <2>2 DEF Directed
<1>4. IsFiniteSet(Above(u))
  <2>1. Above(u) \subseteq Nodes \cup {Virtual}
    BY <1>1, <1>3 DEF Above
  <2>2. IsFiniteSet(Nodes \cup {Virtual})
    BY <1>1, FS_AddElement
  <2> QED  BY <2>1, <2>2, FS_Subset
<1> QED  BY <1>1, <1>2, <1>3, <1>4 DEF Above

(* What leads to a node that was not reached without d was not either.     *)
LEMMA BehindBefore ==
  ASSUME NEW d, NEW n, NEW v \in live, Behind(d, n), n # d
  PROVE  n \notin Roots /\ (n \in Onward(v) => Behind(d, v))
BY DEF Behind

(* What the nodes left later have a place for, has one above it.           *)
LEMMA HasAbove ==
  ASSUME Settles, Directed, SearchInv, path = << >>, Hung, NEW k \in 1 .. Len(order),
         \A j \in k + 1 .. Len(order) : order[j] \in DOMAIN tree
  PROVE  \E v \in Above(order[k]) : k < Index(v)
<1>1. Listed /\ Ordered /\ Len(path) = 0 /\ Len(order) \in Nat /\ order[k] \in live
  BY DEF SearchInv, Listed
<1>2. Above(order[k]) = {v \in DOMAIN tree : IF v = Virtual THEN order[k] \in Roots
                                              ELSE v \in live /\ order[k] \in Onward(v)}
  BY <1>1, AboveIs
<1>3. \A n \in live : n # Virtual
  BY GraphAssumption DEF Settles
<1>4. CASE order[k] \in Roots
  <2>1. Virtual \in DOMAIN tree
    BY DEF Hung, IsTree
  <2>2. Index(Virtual) = Len(order) + 1
    BY <1>1, IndexIs
  <2> QED  BY <1>1, <1>2, <1>4, <2>1, <2>2
<1>5. ASSUME NEW p \in live, order[k] \in Onward(p), Later(p, k)
      PROVE  \E v \in Above(order[k]) : k < Index(v)
  <2>1. PICK j \in k + 1 .. Len(order) : order[j] = p
    BY <1>1, <1>5 DEF Later, OnPath
  <2>2. j \in 1 .. Len(order) /\ k < j /\ order[j] # Virtual
    BY <1>1, <1>3, <2>1
  <2>3. Index(p) = j
    BY <1>1, <2>1, <2>2, IndexIs
  <2>4. p \in DOMAIN tree
    BY <2>1
  <2> QED  BY <1>2, <1>3, <1>5, <2>2, <2>3, <2>4
<1> QED  BY <1>1, <1>4, <1>5 DEF Ordered

(* The place that a node is given is later in the order than the node and  *)
(* upholds what the tree upholds.                                          *)
LEMMA NewDomFits ==
  ASSUME Settles, Directed, SearchInv, path = << >>, Hung, Upheld, NEW k \in 1 .. Len(order),
         \A j \in k + 1 .. Len(order) : order[j] \in DOMAIN tree
  PROVE  /\ NewDom(order[k]) = LowestOf(Above(order[k]))
         /\ NewDom(order[k]) \in DOMAIN tree /\ k < Index(NewDom(order[k]))
         /\ \A d \in live : Behind(d, order[k]) /\ d # order[k] =>
              NewDom(order[k]) # Virtual /\ Behind(d, NewDom(order[k]))
<1>1. PICK u \in live : u = order[k]
  BY DEF SearchInv, Listed
<1>2. PICK S : S = Above(u)
  OBVIOUS
<1>3. S = {v \in DOMAIN tree : IF v = Virtual THEN u \in Roots ELSE v \in live /\ u \in Onward(v)}
      /\ IsFiniteSet(S)
  BY <1>2, AboveIs
<1>4. PICK p \in S : k < Index(p)
  BY <1>1, <1>2, HasAbove
<1>5. PICK m : m = LowestOf(S)
  OBVIOUS
<1>6. NewDom(u) = m
  <2>1. Above(u) \in SUBSET DOMAIN tree /\ Above(u) # {} /\ IsFiniteSet(Above(u))
    BY <1>2, <1>3, <1>4
  <2> QED  BY <1>2, <1>5, <2>1, NewDomIsLowest
<1>7. IsTree(DOMAIN tree, tree, Virtual, Place)
  BY DEF Hung
<1>8. Place \in [DOMAIN tree -> Nat] /\ \A n \in DOMAIN tree : Place[n] = Index(n)
  BY <1>7 DEF IsTree, Place
<1>9. PICK C \in SUBSET DOMAIN tree : C = Common(DOMAIN tree, tree, S)
  BY DEF Common
<1>10. m \in C /\ m \in DOMAIN tree
  <2>1. S \in SUBSET DOMAIN tree /\ S # {}
    BY <1>3, <1>4
  <2> QED  BY <1>5, <1>7, <1>9, <2>1, CommonIsUp DEF LowestOf
<1>11. k < Index(m)
  <2>1. m \in Up(DOMAIN tree, tree, p) /\ p \in DOMAIN tree
    BY <1>3, <1>9, <1>10 DEF Common
  <2>2. m = p \/ Place[p] < Place[m]
    BY <1>7, <2>1, UpRises
  <2>3. Index(p) \in Nat /\ Index(m) \in Nat
    BY <1>8, <1>10, <2>1
  <2> QED  BY <1>4, <1>8, <1>10, <2>1, <2>2, <2>3
<1>12. ASSUME NEW d \in live, Behind(d, u), d # u
       PROVE  m # Virtual /\ Behind(d, m)
  <2>1. \A v \in S : v \in (DOMAIN tree) \ {Virtual} /\ Behind(d, v)
    <3> SUFFICES ASSUME NEW v \in S PROVE v \in (DOMAIN tree) \ {Virtual} /\ Behind(d, v)
      OBVIOUS
    <3>1. u \notin Roots
      BY <1>12, BehindBefore
    <3>2. v \in live /\ u \in Onward(v) /\ v \in (DOMAIN tree) \ {Virtual}
      BY <1>3, <3>1
    <3> QED  BY <1>12, <3>2, BehindBefore
  <2>2. \A v \in S : /\ d \in Up(DOMAIN tree, tree, v)
                     /\ \A x \in Up(DOMAIN tree, tree, v) :
                          Place[x] <= Place[d] => x # Virtual /\ Behind(d, x)
    BY <2>1, UpholdsUp
  <2>3. d \in DOMAIN tree
    BY <1>4, <2>2 DEF Up
  <2>4. d \in C
    BY <1>9, <2>2, <2>3 DEF Common
  <2>5. Place[m] <= Place[d]
    <3>1. C # {} /\ m = Lowest(C, Place)
      BY <1>5, <1>9, <1>10 DEF LowestOf
    <3> QED  BY <1>8, <2>4, <3>1, LowestIs
  <2>6. m \in Up(DOMAIN tree, tree, p)
    BY <1>9, <1>10 DEF Common
  <2> QED  BY <2>2, <2>5, <2>6
<1> QED  BY <1>1, <1>2, <1>5, <1>6, <1>10, <1>11, <1>12
(* When a sweep has changed nothing the tree is that of dominance.         *)
LEMMA TreeIsRight ==
  ASSUME Settles, Directed, SearchInv, path = << >>, Growing, sweep = << >>, ~ changed
  PROVE  /\ DOMAIN tree = {Virtual} \cup Gone /\ Gone \subseteq live /\ Virtual \notin Gone
         /\ \A n \in Gone : (n \in Roots => tree[n] = Virtual)
         /\ \A n \in Gone, d \in live :
              d \in Up(DOMAIN tree, tree, n) <=> Behind(d, n)
<1>1. Listed /\ Hung /\ Upheld /\ Swept /\ Whole /\ order \in Seq(live) /\ Len(order) \in Nat
  BY DEF SearchInv, Listed, Growing
<1>2. IsTree(DOMAIN tree, tree, Virtual, Place)
  BY <1>1 DEF Hung
<1>3. tree \in [DOMAIN tree -> DOMAIN tree] /\ Virtual \in DOMAIN tree /\ tree[Virtual] = Virtual
  BY <1>2 DEF IsTree
<1>4. Len(sweep) = 0 /\ \A j \in 1 .. Len(order) : j \in Len(sweep) + 1 .. Len(order)
  BY <1>1
<1>5. Gone \subseteq live /\ Virtual \notin live
  BY <1>1, GraphAssumption DEF Gone, Settles
<1>6. DOMAIN tree = {Virtual} \cup Gone
  <2>1. \A j \in 1 .. Len(order) : order[j] \in DOMAIN tree
    BY <1>1, <1>4 DEF Swept
  <2>2. Gone \subseteq DOMAIN tree
    BY <2>1 DEF Gone
  <2> QED  BY <1>1, <1>3, <2>2 DEF Hung
<1>7. ASSUME NEW n \in Gone
      PROVE  /\ tree[n] = LowestOf(Above(n)) /\ tree[n] \in DOMAIN tree
             /\ Above(n) \in SUBSET DOMAIN tree /\ Above(n) # {}
             /\ Above(n) = {v \in DOMAIN tree : IF v = Virtual THEN n \in Roots
                                                ELSE v \in live /\ n \in Onward(v)}
  <2>1. PICK k \in 1 .. Len(order) : order[k] = n
    BY DEF Gone
  <2>2. \A j \in k + 1 .. Len(order) : order[j] \in DOMAIN tree
    BY <1>4, <1>1, <2>1 DEF Swept
  <2>3. tree[n] = NewDom(n)
    BY <1>1, <1>4, <2>1 DEF Swept
  <2>4. NewDom(n) = LowestOf(Above(n))
    BY <1>1, <2>1, <2>2, NewDomFits
  <2>5. Above(n) = {v \in DOMAIN tree : IF v = Virtual THEN n \in Roots
                                        ELSE v \in live /\ n \in Onward(v)}
    BY <1>1, <1>5, AboveIs
  <2>6. \E v \in Above(n) : k < Index(v)
    BY <1>1, <2>1, <2>2, HasAbove
  <2>7. tree[n] \in DOMAIN tree
    BY <1>3, <1>6
  <2> QED  BY <2>3, <2>4, <2>5, <2>6, <2>7
<1>8. ASSUME NEW n \in Gone, NEW v \in Above(n)
      PROVE  Up(DOMAIN tree, tree, tree[n]) \subseteq Up(DOMAIN tree, tree, v)
  <2>1. PICK S \in SUBSET DOMAIN tree : S = Above(n) /\ S # {}
    BY <1>7
  <2>2. tree[n] = Lowest(Common(DOMAIN tree, tree, S), Place)
    BY <1>7, <2>1 DEF LowestOf
  <2>3. Common(DOMAIN tree, tree, S) = Up(DOMAIN tree, tree, tree[n])
    BY <1>2, <2>1, <2>2, CommonIsUp
  <2> QED  BY <2>1, <2>3 DEF Common
<1>9. \A n \in DOMAIN tree : Up(DOMAIN tree, tree, n) = {n} \cup Up(DOMAIN tree, tree, tree[n])
  BY <1>3, UpOpens
<1>10. Up(DOMAIN tree, tree, Virtual) = {Virtual}
  <2>1. Upward({Virtual}, tree, Virtual)
    BY <1>3 DEF Upward
  <2>2. {Virtual} \in SUBSET DOMAIN tree
    BY <1>3
  <2>3. Up(DOMAIN tree, tree, Virtual) \subseteq {Virtual}
    BY <1>3, <2>1, <2>2, UpIsLeast
  <2> QED  BY <1>9, <1>3, <2>3
<1>11. ASSUME NEW n \in Gone, n \in Roots
       PROVE  tree[n] = Virtual
  <2>1. Virtual \in Above(n)
    BY <1>3, <1>7, <1>11
  <2>2. tree[n] \in Up(DOMAIN tree, tree, tree[n])
    BY <1>3, <1>7, UpIsLeast DEF Upward
  <2> QED  BY <1>8, <1>10, <2>1, <2>2
<1>12. ASSUME NEW n \in Gone, NEW d \in live, d \in Up(DOMAIN tree, tree, n)
       PROVE  Behind(d, n)
  <2>1. PICK U \in SUBSET live : U = {x \in Gone : d \notin Up(DOMAIN tree, tree, x)}
    BY <1>5
  <2>2. Roots \ {d} \subseteq U
    <3> SUFFICES ASSUME NEW r \in Roots, r # d PROVE r \in U
      OBVIOUS
    <3>1. r \in Gone /\ r \in DOMAIN tree
      BY <1>1, <1>6 DEF Whole
    <3>2. Up(DOMAIN tree, tree, r) = {r, Virtual}
      BY <1>9, <1>10, <1>11, <3>1
    <3> QED  BY <1>5, <2>1, <3>1, <3>2
  <2>3. ASSUME NEW s \in U, NEW x \in Onward(s), x # d
        PROVE  x \in U
    <3>1. s \in Gone /\ x \in Gone /\ s \in DOMAIN tree /\ x \in DOMAIN tree /\ s \in live
      BY <1>1, <1>5, <1>6, <2>1, <2>3 DEF Whole, Gone
    <3>2. s # Virtual
      BY <1>5, <3>1
    <3>3. s \in Above(x)
      BY <1>7, <2>3, <3>1, <3>2
    <3>4. d \notin Up(DOMAIN tree, tree, tree[x])
      BY <1>8, <2>1, <3>1, <3>3
    <3> QED  BY <1>9, <2>1, <2>3, <3>1, <3>4
  <2>4. n \notin U
    BY <1>12, <2>1
  <2> QED  BY <2>2, <2>3, <2>4 DEF Behind
<1>13. ASSUME NEW n \in Gone, NEW d \in live, Behind(d, n)
       PROVE  d \in Up(DOMAIN tree, tree, n)
  <2>1. n \in (DOMAIN tree) \ {Virtual}
    BY <1>5, <1>6
  <2> QED  BY <1>1, <1>13, <2>1, UpholdsUp
<1> QED  BY <1>5, <1>6, <1>11, <1>12, <1>13
TreeInv == tree # << >> => Growing

LEMMA TreeStays ==
  ASSUME UNCHANGED << edges, live, passes, order, backEdges >>
  PROVE  /\ Whole => Whole'
         /\ UNCHANGED Gone /\ \A n : UNCHANGED Index(n)
         /\ \A d, n : Behind(d, n)' = Behind(d, n)
         /\ UNCHANGED tree => (Hung => Hung') /\ (Upheld => Upheld') /\ \A n : UNCHANGED NewDom(n)
<1>1. UNCHANGED Roots /\ \A s : UNCHANGED Onward(s)
  BY RootsStay
<1>2. UNCHANGED Gone /\ \A n : UNCHANGED Index(n)
  BY DEF Gone, Index
<1>3. Whole => Whole'
  BY <1>1, <1>2 DEF Whole
<1>4. \A d, n : Behind(d, n)' = Behind(d, n)
  BY <1>1 DEF Behind
<1>5. ASSUME UNCHANGED tree, Hung PROVE Hung'
  <2>1. Place' = Place
    BY <1>2, <1>5 DEF Place
  <2> QED  BY <1>2, <1>5, <2>1 DEF Hung
<1>6. ASSUME UNCHANGED tree, Upheld PROVE Upheld'
  BY <1>4, <1>6 DEF Upheld
<1>7. ASSUME UNCHANGED tree, NEW n PROVE UNCHANGED NewDom(n)
  <2>1. UNCHANGED Above(n)
    BY <1>1, <1>7 DEF Above, Against, Preds, Succs, Pass
  <2> QED  BY <1>7, <2>1 DEF NewDom, FoldSet, MapThenFoldSet, Meet, Index
<1> QED  BY <1>2, <1>3, <1>4, <1>5, <1>6, <1>7

(* A tree is begun, with a sweep over all that was left.                   *)
LEMMA SweepBegins ==
  ASSUME SearchInv, live \subseteq Nodes, Whole, UNCHANGED << edges, live, passes, order, backEdges >>,
         sweep' = Reverse(order), changed' = FALSE,
         \/ tree' = [n \in {Virtual} |-> Virtual]
         \/ tree' = tree /\ Hung /\ Upheld
  PROVE  Growing'
<1>1. Listed /\ order \in Seq(live) /\ Len(order) \in Nat
  BY DEF SearchInv, Listed
<1>2. /\ sweep' \in Seq(live) /\ Len(sweep') = Len(order)
      /\ \A i \in 1 .. Len(order) : sweep'[i] = order[Len(order) - i + 1]
  BY <1>1 DEF Reverse
<1>3. Swept'
  <2>1. Len(sweep') + 1 .. Len(order) = {}
    BY <1>1, <1>2
  <2> QED  BY <1>1, <1>2, <2>1 DEF Swept
<1>4. Whole' /\ UNCHANGED Gone /\ \A n : UNCHANGED Index(n)
  BY TreeStays
<1>5. CASE tree' = [n \in {Virtual} |-> Virtual]
  <2>1. PICK t : t = [n \in {Virtual} |-> Virtual]
    OBVIOUS
  <2>2. DOMAIN t = {Virtual} /\ t[Virtual] = Virtual /\ t \in [DOMAIN t -> DOMAIN t]
    BY <2>1
  <2>3. IsTree(DOMAIN t, t, Virtual, [n \in DOMAIN t |-> Index(n)])
    BY <1>1, <2>2, TreeFrom
  <2>4. Place' = [n \in DOMAIN t |-> Index(n)]
    BY <1>4, <1>5, <2>1 DEF Place
  <2>5. Hung'
    BY <1>5, <2>1, <2>2, <2>3, <2>4 DEF Hung
  <2>6. Upheld'
    BY <1>5 DEF Upheld
  <2> QED  BY <1>3, <1>4, <2>5, <2>6 DEF Growing
<1>6. CASE tree' = tree /\ Hung /\ Upheld
  BY <1>3, <1>4, <1>6, TreeStays DEF Growing
<1> QED  BY <1>5, <1>6

LEMMA SweepGrows ==
  ASSUME Settles, Directed, SearchInv, path = << >>, Growing, Sweep
  PROVE  Growing'
<1>1. Listed /\ order \in Seq(live) /\ Len(order) \in Nat /\ Hung /\ Upheld /\ Swept
      /\ sweep \in Seq(live) /\ sweep # << >>
  BY DEF SearchInv, Listed, Growing, Swept, Sweep
<1>2. UNCHANGED << edges, live, passes, path, order, backEdges >>
  BY DEF Sweep, results
<1>3. PICK k : k = Len(sweep)
  OBVIOUS
<1>4. k \in 1 .. Len(order) /\ Head(sweep) = order[k]
  <2>1. k \in Nat /\ k >= 1 /\ k <= Len(order) /\ Head(sweep) = sweep[1]
    BY <1>1, <1>3 DEF Swept
  <2>2. sweep[1] = order[k - 1 + 1] /\ k - 1 + 1 = k
    BY <1>1, <1>3, <2>1 DEF Swept
  <2> QED  BY <1>1, <2>1, <2>2
<1>5. PICK u \in live : u = order[k] /\ u = Head(sweep)
  BY <1>1, <1>4
<1>6. \A j \in k + 1 .. Len(order) :
         order[j] \in DOMAIN tree /\ (~ changed => tree[order[j]] = NewDom(order[j]))
  BY <1>1, <1>3 DEF Swept
<1>7. PICK m \in DOMAIN tree : /\ m = NewDom(u) /\ k < Index(m)
                               /\ \A d \in live : Behind(d, u) /\ d # u => m # Virtual /\ Behind(d, m)
  BY <1>1, <1>4, <1>5, <1>6, NewDomFits
<1>8. PICK t : t = [n \in {u} \cup DOMAIN tree |-> IF n = u THEN m ELSE tree[n]]
  OBVIOUS
<1>9. tree' = t /\ changed' = (changed \/ t # tree) /\ sweep' = Tail(sweep)
  BY <1>5, <1>7, <1>8 DEF Sweep
<1>10. tree \in [DOMAIN tree -> DOMAIN tree] /\ Virtual \in DOMAIN tree /\ tree[Virtual] = Virtual
       /\ \A x \in (DOMAIN tree) \ {Virtual} : Index(x) < Index(tree[x])
  <2>1. IsTree(DOMAIN tree, tree, Virtual, Place)
    BY <1>1 DEF Hung
  <2>2. \A x \in DOMAIN tree : Place[x] = Index(x)
    BY DEF Place
  <2> QED  BY <2>1, <2>2 DEF IsTree
<1>11. u # Virtual /\ u \in Gone
  BY <1>1, <1>4, <1>5, GraphAssumption DEF Settles, Gone
<1>12. Hung'
  <2>1. DOMAIN t \subseteq {Virtual} \cup Gone /\ Virtual \in DOMAIN t /\ t[Virtual] = Virtual
    BY <1>1, <1>8, <1>10, <1>11 DEF Hung
  <2>2. t \in [DOMAIN t -> DOMAIN t]
    <3>1. \A x \in DOMAIN t : t[x] \in DOMAIN t
      BY <1>8, <1>10
    <3> QED  BY <1>8, <3>1
  <2>3. \A x \in (DOMAIN t) \ {Virtual} : Index(x) < Index(t[x])
    <3>1. Index(u) = k
      BY <1>1, <1>4, <1>5, <1>11, IndexIs
    <3> QED  BY <1>7, <1>8, <1>10, <3>1
  <2>4. IsTree(DOMAIN t, t, Virtual, [n \in DOMAIN t |-> Index(n)])
    BY <1>1, <2>1, <2>2, <2>3, TreeFrom DEF Settles
  <2>5. UNCHANGED Gone /\ \A n : UNCHANGED Index(n)
    BY <1>2, TreeStays
  <2>6. Place' = [n \in DOMAIN t |-> Index(n)]
    BY <1>9, <2>5 DEF Place
  <2> QED  BY <1>9, <2>1, <2>4, <2>5, <2>6 DEF Hung
<1>13. Upheld'
  <2>1. \A d, n : Behind(d, n)' = Behind(d, n)
    BY <1>2, TreeStays
  <2>2. \A x \in (DOMAIN t) \ {Virtual}, d \in live :
          Behind(d, x) /\ d # x => t[x] # Virtual /\ Behind(d, t[x])
    BY <1>1, <1>7, <1>8 DEF Upheld
  <2> QED  BY <1>2, <1>9, <2>1, <2>2 DEF Upheld
<1>14. Swept'
  <2>1. /\ sweep' \in Seq(live) /\ Len(sweep') = k - 1
        /\ \A i \in 1 .. k - 1 : sweep'[i] = sweep[i + 1]
    BY <1>1, <1>3, <1>9
  <2>2. \A i \in 1 .. k - 1 : sweep'[i] = order[(k - 1) - i + 1]
    <3> SUFFICES ASSUME NEW i \in 1 .. k - 1 PROVE sweep'[i] = order[(k - 1) - i + 1]
      OBVIOUS
    <3>1. i + 1 \in 1 .. Len(sweep) /\ Len(sweep) - (i + 1) + 1 = (k - 1) - i + 1
      BY <1>1, <1>3, <1>4
    <3> QED  BY <1>1, <2>1, <3>1 DEF Swept
  <2>3. ASSUME NEW j \in k .. Len(order)
        PROVE  /\ order[j] \in DOMAIN t
               /\ ~ changed' => tree'[order[j]] = NewDom(order[j])'
    <3>1. order[j] \in DOMAIN t
      <4>1. j = k \/ j \in k + 1 .. Len(order)
        BY <1>1, <1>4
      <4> QED  BY <1>5, <1>6, <1>8, <4>1
    <3>2. ASSUME ~ changed'
          PROVE  tree'[order[j]] = NewDom(order[j])'
      <4>1. ~ changed /\ t = tree /\ tree' = tree
        BY <1>9, <3>2
      <4>2. NewDom(order[j])' = NewDom(order[j])
        BY <1>2, <4>1, TreeStays
      <4>3. j = k \/ j \in k + 1 .. Len(order)
        BY <1>1, <1>4
      <4>4. tree[u] = NewDom(u)
        BY <1>7, <1>8, <4>1
      <4> QED  BY <1>5, <1>6, <4>1, <4>2, <4>3, <4>4
    <3> QED  BY <3>1, <3>2
  <2>4. (k - 1) + 1 .. Len(order) = k .. Len(order) /\ k - 1 <= Len(order)
    BY <1>1, <1>4
  <2> QED  BY <1>2, <1>9, <2>1, <2>2, <2>3, <2>4 DEF Swept
<1> QED  BY <1>2, <1>12, <1>13, <1>14, TreeStays DEF Growing
LEMMA SearchedWhole ==
  ASSUME SearchInv, path = << >>, Ahead = {}
  PROVE  Whole
BY SearchIsComplete DEF Whole, Gone

LEMMA TreePreserved == FlowInv /\ Planted /\ TreeInv /\ [Next]_vars => TreeInv'
<1> SUFFICES ASSUME FlowInv, Planted, TreeInv, [Next]_vars PROVE TreeInv'
  OBVIOUS
<1>1. SearchInv /\ GraphInv
  BY DEF FlowInv
<1>2. CASE tree' = << >>
  BY <1>2 DEF TreeInv
<1>3. tree # << >> => Growing /\ Settles /\ Directed /\ path = << >>
  <2> SUFFICES ASSUME tree # << >> PROVE Settles /\ Directed /\ path = << >>
    BY DEF TreeInv
  <2>1. Directed
    BY <1>1 DEF GraphInv, Directed
  <2>2. passes # << "process" >>
    BY <2>1 DEF Directed, Pass
  <2> QED  BY <1>1, <2>1, <2>2 DEF GraphInv, SearchInv, Settles
<1>4. CASE UNCHANGED graphVars
  <2>1. CASE tree = << >>
    BY <1>2, <1>4, <2>1 DEF graphVars
  <2>2. CASE tree # << >>
    <3>1. UNCHANGED << edges, live, passes, order, backEdges, tree, sweep, changed >>
      BY <1>4 DEF graphVars, results
    <3>2. Swept'
      <4>1. \A n : UNCHANGED NewDom(n)
        BY <3>1, TreeStays
      <4> QED  BY <1>3, <2>2, <3>1, <4>1 DEF Growing, Swept
    <3> QED  BY <1>3, <2>2, <3>1, <3>2, TreeStays DEF Growing, TreeInv
  <2> QED  BY <2>1, <2>2
<1>5. CASE SearchEnds
  <2>1. CASE NextPass
    BY <1>2, <2>1 DEF NextPass
  <2>2. CASE ~ NextPass
    <3>1. /\ path = << >> /\ Ahead = {}
          /\ UNCHANGED << edges, live, passes, order, backEdges >>
          /\ sweep' = Reverse(order) /\ changed' = FALSE /\ tree' = [n \in {Virtual} |-> Virtual]
      BY <1>5, <2>2 DEF SearchEnds
    <3>2. Whole
      BY <1>1, <3>1, SearchedWhole
    <3>3. live \subseteq Nodes
      BY <1>1 DEF GraphInv
    <3> QED  BY <1>1, <3>1, <3>2, <3>3, SweepBegins DEF TreeInv
  <2> QED  BY <2>1, <2>2
<1>6. CASE Sweep
  <2>1. tree # << >>
    BY <1>6 DEF Sweep, Planted
  <2> QED  BY <1>1, <1>3, <1>6, <2>1, SweepGrows DEF TreeInv
<1>7. CASE SweepEnds
  <2>1. CASE NextPass
    BY <1>2, <2>1 DEF NextPass
  <2>2. CASE ~ NextPass
    <3>1. /\ tree # << >> /\ UNCHANGED << edges, live, passes, order, backEdges, tree >>
          /\ sweep' = Reverse(order) /\ changed' = FALSE
      BY <1>7, <2>2 DEF SweepEnds
    <3> QED  BY <1>1, <1>3, <3>1, SweepBegins DEF TreeInv, Growing, Settles
  <2> QED  BY <2>1, <2>2
<1>8. CASE Process \/ Visit \/ Leave
  <2>1. tree' = tree
    BY <1>8 DEF Process, Visit, Leave
  <2>2. tree = << >>
    <3>1. CASE Process
      <4>1. ~ Pass("dominators") /\ ~ Pass("postdominators")
        BY <3>1 DEF Process, Pass
      <4> QED  BY <1>1, <4>1 DEF GraphInv
    <3>2. CASE Visit \/ Leave
      BY <3>2 DEF Visit, Leave, Searching
    <3> QED  BY <1>8, <3>1, <3>2
  <2> QED  BY <1>2, <2>1, <2>2
<1>9. CASE FreshVars \/ Write
  <2>1. tree' = tree /\ passes = << >>
    BY <1>9 DEF FreshVars, Write, Continue, Done
  <2>2. tree = << >>
    BY <1>1, <2>1 DEF GraphInv, Pass
  <2> QED  BY <1>2, <2>1, <2>2
<1>10. GraphStep => Process \/ SearchEnds \/ Sweep \/ SweepEnds \/ Visit \/ Leave
  BY DEF GraphStep
<1>11. SsaStep => FreshVars \/ UNCHANGED graphVars
  BY DEF SsaStep, FixRead, FixInput, Run, Jump
<1>12. LifetimeStep => Write \/ UNCHANGED graphVars
  BY DEF LifetimeStep, ComputeLiveMap, ComputeDeadMaps, Follow
<1> QED  BY <1>4, <1>5, <1>6, <1>7, <1>8, <1>9, <1>10, <1>11, <1>12 DEF Next, vars
-----------------------------------------------------------------------------
(* What is read off the tree                                               *)

(* c collects the way from a node to below the root.                       *)
Climbs(c, D, up, root) ==
    c = [m \in D \ {root} |-> {m} \cup IF up[m] = root THEN {} ELSE c[up[m]]]

LEMMA UpBelow ==
  ASSUME NEW D, NEW up, NEW root, NEW rank, IsTree(D, up, root, rank), NEW m \in D \ {root}
  PROVE  /\ Up(D, up, m) \ {root}
              = {m} \cup IF up[m] = root THEN {} ELSE Up(D, up, up[m]) \ {root}
         /\ up[m] \in D /\ up[m] # m /\ m \notin Up(D, up, up[m])
<1>1. up \in [D -> D] /\ root \in D /\ up[root] = root /\ up[m] \in D /\ rank \in [D -> Nat]
  BY DEF IsTree
<1>2. Up(D, up, m) = {m} \cup Up(D, up, up[m])
  BY <1>1, UpOpens
<1>3. Up(D, up, root) = {root}
  <2>1. Upward({root}, up, root) /\ {root} \in SUBSET D
    BY <1>1 DEF Upward
  <2>2. Up(D, up, root) \subseteq {root} /\ root \in Up(D, up, root)
    BY <1>1, <2>1, UpIsLeast DEF Upward
  <2> QED  BY <2>2
<1>4. rank[m] < rank[up[m]] /\ rank[m] \in Nat /\ rank[up[m]] \in Nat
  BY <1>1 DEF IsTree
<1>5. \A y \in Up(D, up, up[m]) : y = up[m] \/ rank[up[m]] < rank[y]
  BY <1>1, UpRises
<1>6. m \notin Up(D, up, up[m])
  <2> SUFFICES ASSUME m \in Up(D, up, up[m]) PROVE FALSE
    OBVIOUS
  <2>1. m = up[m] \/ rank[up[m]] < rank[m]
    BY <1>5
  <2> QED  BY <1>4, <2>1
<1> QED  BY <1>1, <1>2, <1>3, <1>4, <1>6

LEMMA ClimbsExists ==
  ASSUME NEW D, NEW up, NEW root, NEW rank, IsTree(D, up, root, rank)
  PROVE  \E c : Climbs(c, D, up, root)
<1>1. PICK c : c = [m \in D \ {root} |-> Up(D, up, m) \ {root}]
  OBVIOUS
<1>2. ASSUME NEW m \in D \ {root}
      PROVE  c[m] = {m} \cup IF up[m] = root THEN {} ELSE c[up[m]]
  <2>1. Up(D, up, m) \ {root}
          = {m} \cup IF up[m] = root THEN {} ELSE Up(D, up, up[m]) \ {root}
    BY UpBelow
  <2>2. up[m] \in D
    BY DEF IsTree
  <2> QED  BY <1>1, <2>1, <2>2
<1>3. c = [m \in D \ {root} |-> c[m]]
  BY <1>1
<1> QED  BY <1>2, <1>3 DEF Climbs

LEMMA ClimbsUp ==
  ASSUME NEW D, NEW up, NEW root, NEW rank, IsTree(D, up, root, rank),
         NEW c, Climbs(c, D, up, root), NEW n \in D \ {root}
  PROVE  c[n] = Up(D, up, n) \ {root}
<1>1. up \in [D -> D] /\ rank \in [D -> Nat] /\ root \in D /\ \A x \in D : rank[x] <= rank[root]
  BY DEF IsTree
<1>2. PICK togo \in [D -> Nat] : \A x \in D : togo[x] = rank[root] - rank[x]
  <2>1. \A x \in D : rank[root] - rank[x] \in Nat
    BY <1>1
  <2>2. [x \in D |-> rank[root] - rank[x]] \in [D -> Nat]
    BY <2>1
  <2> QED  BY <2>2
<1>3. PICK Wrong \in SUBSET D : Wrong = {m \in D \ {root} : c[m] # Up(D, up, m) \ {root}}
  OBVIOUS
<1>4. SUFFICES ASSUME Wrong # {} PROVE FALSE
  BY <1>3
<1>5. PICK m \in Wrong : \A x \in Wrong : togo[m] <= togo[x]
  BY <1>4, LowestIs
<1>6. /\ Up(D, up, m) \ {root}
            = {m} \cup IF up[m] = root THEN {} ELSE Up(D, up, up[m]) \ {root}
      /\ up[m] \in D /\ m \in D \ {root}
  BY <1>3, UpBelow
<1>7. c[m] = {m} \cup IF up[m] = root THEN {} ELSE c[up[m]]
  BY <1>6 DEF Climbs
<1>8. up[m] # root /\ up[m] \in Wrong
  BY <1>3, <1>6, <1>7
<1>9. rank[m] < rank[up[m]] /\ rank[m] \in Nat /\ rank[up[m]] \in Nat /\ rank[root] \in Nat
  BY <1>1, <1>6 DEF IsTree
<1>10. togo[m] <= togo[up[m]]
  BY <1>5, <1>8
<1> QED  BY <1>2, <1>6, <1>9, <1>10

(* The result has a root for itself, and what only the virtual root is     *)
(* above for none.                                                         *)
LEMMA ImmediateIs ==
  ASSUME Hung, DOMAIN tree = {Virtual} \cup live, Gone = live, Virtual \notin live, None \notin live,
         Listed, \A n \in live : n \in Roots => tree[n] = Virtual,
         NEW dom, dom = Immediate
  PROVE  /\ DOMAIN dom = live
         /\ \A m \in live : IF tree[m] = Virtual THEN dom[m] \in {m, None}
                            ELSE dom[m] = tree[m] /\ dom[m] \in live /\ dom[m] \notin {m, None}
         /\ \A n \in live : Chain(dom, n) = Up(DOMAIN tree, tree, n) \ {Virtual}
<1>1. IsTree(DOMAIN tree, tree, Virtual, Place)
  BY DEF Hung
<1>2. ToSet(order) = live
  BY DEF ToSet, Gone, Listed
<1>3. DOMAIN dom = live
  BY <1>2 DEF Immediate
<1>4. ASSUME NEW m \in live
      PROVE  IF tree[m] = Virtual THEN dom[m] \in {m, None}
             ELSE dom[m] = tree[m] /\ dom[m] \in live /\ dom[m] \notin {m, None}
  <2>1. tree[m] \in DOMAIN tree /\ tree[m] # m
    <3>1. m \in (DOMAIN tree) \ {Virtual}
      OBVIOUS
    <3> QED  BY <1>1, <3>1, UpBelow
  <2>2. dom[m] = IF m \in Roots THEN m ELSE IF tree[m] = Virtual THEN None ELSE tree[m]
    BY <1>2 DEF Immediate
  <2> QED  BY <2>1, <2>2
<1>5. PICK D : D = DOMAIN tree
  OBVIOUS
<1> DEFINE chain == CHOOSE c : c = [m \in live |->
                      {m} \cup IF dom[m] \in {m, None} THEN {} ELSE c[dom[m]]]
<1>6. \A n \in live : Chain(dom, n) = chain[n]
  BY <1>3 DEF Chain
<1>7. ASSUME NEW c
      PROVE  Climbs(c, D, tree, Virtual)
             <=> c = [m \in live |-> {m} \cup IF dom[m] \in {m, None} THEN {} ELSE c[dom[m]]]
  <2>1. D \ {Virtual} = live
    BY <1>5
  <2>2. \A m \in live : (IF tree[m] = Virtual THEN {} ELSE c[tree[m]])
                          = (IF dom[m] \in {m, None} THEN {} ELSE c[dom[m]])
    BY <1>4
  <2> QED  BY <2>1, <2>2 DEF Climbs
<1>8. \E c : Climbs(c, D, tree, Virtual)
  BY <1>1, <1>5, ClimbsExists
<1>9. Climbs(chain, D, tree, Virtual)
  BY <1>7, <1>8
<1> HIDE DEF chain
<1>10. \A n \in D \ {Virtual} : chain[n] = Up(D, tree, n) \ {Virtual}
  BY <1>1, <1>5, <1>9, ClimbsUp
<1> QED  BY <1>3, <1>4, <1>5, <1>6, <1>10
(* A tree with one node below the root, which is its own dominator         *)
Topped(D, up, root, dom, top) ==
    /\ top \in D \ {root} /\ up[top] = root /\ dom[top] = top
    /\ \A v \in D \ {root, top} : dom[v] = up[v] /\ up[v] # root

(* c collects the way from a node to below w.                              *)
Rises(c, D, root, dom, w) ==
    c = [v \in D \ {root} |-> IF v = w THEN {} ELSE {v} \cup c[dom[v]]]

LEMMA UpTo ==
  ASSUME NEW D, NEW up, NEW root, NEW rank, IsTree(D, up, root, rank), NEW dom, NEW top,
         Topped(D, up, root, dom, top), NEW w \in D \ {root}, NEW v \in D \ {root}, v # w
  PROVE  /\ v = top => w \notin Up(D, up, v) /\ Up(D, up, v) \ {root} = {v}
         /\ v # top => /\ dom[v] \in D \ {root} /\ dom[v] = up[v]
                       /\ w \in Up(D, up, v) <=> w \in Up(D, up, dom[v])
                       /\ Up(D, up, v) \ {root} = {v} \cup (Up(D, up, dom[v]) \ {root})
                       /\ w \in Up(D, up, v) =>
                            Up(D, up, v) \ Up(D, up, w) = {v} \cup (Up(D, up, dom[v]) \ Up(D, up, w))
<1>1. /\ Up(D, up, v) \ {root} = {v} \cup IF up[v] = root THEN {} ELSE Up(D, up, up[v]) \ {root}
      /\ up[v] \in D /\ up[v] # v /\ v \notin Up(D, up, up[v])
  BY UpBelow
<1>2. up \in [D -> D] /\ rank \in [D -> Nat]
  BY DEF IsTree
<1>3. Up(D, up, v) = {v} \cup Up(D, up, up[v])
  BY <1>2, UpOpens
<1>4. CASE v = top
  <2>1. up[v] = root
    BY <1>4 DEF Topped
  <2> QED  BY <1>1, <1>4, <2>1
<1>5. CASE v # top
  <2>1. dom[v] = up[v] /\ up[v] # root
    BY <1>5 DEF Topped
  <2>2. w \in Up(D, up, v) => v \notin Up(D, up, w)
    <3> SUFFICES ASSUME w \in Up(D, up, v), v \in Up(D, up, w) PROVE FALSE
      OBVIOUS
    <3>1. w = v \/ rank[v] < rank[w]
      BY UpRises
    <3>2. v = w \/ rank[w] < rank[v]
      BY UpRises
    <3>3. rank[v] \in Nat /\ rank[w] \in Nat
      BY <1>2
    <3> QED  BY <3>1, <3>2, <3>3
  <2> QED  BY <1>1, <1>3, <1>5, <2>1, <2>2
<1> QED  BY <1>4, <1>5

LEMMA RisesExists ==
  ASSUME NEW D, NEW up, NEW root, NEW rank, IsTree(D, up, root, rank), NEW dom, NEW top,
         Topped(D, up, root, dom, top), NEW w \in D \ {root}
  PROVE  \E c : Rises(c, D, root, dom, w)
<1>1. PICK c : c = [v \in D \ {root} |-> IF w \in Up(D, up, v) THEN Up(D, up, v) \ Up(D, up, w)
                                          ELSE Up(D, up, v) \ {root}]
  OBVIOUS
<1>2. ASSUME NEW v \in D \ {root}
      PROVE  c[v] = IF v = w THEN {} ELSE {v} \cup c[dom[v]]
  <2>1. up \in [D -> D] /\ w \in Up(D, up, w)
    BY UpIsLeast DEF IsTree, Upward
  <2>2. CASE v = w
    BY <1>1, <2>1, <2>2
  <2>3. CASE v # w /\ v = top
    <3>1. w \notin Up(D, up, v) /\ Up(D, up, v) \ {root} = {v}
      BY <2>3, UpTo
    <3>2. dom[v] = v
      BY <2>3 DEF Topped
    <3> QED  BY <1>1, <2>3, <3>1, <3>2
  <2>4. CASE v # w /\ v # top
    <3>1. PICK y \in D \ {root} : y = dom[v]
      BY <2>4, UpTo
    <3>2. /\ w \in Up(D, up, v) <=> w \in Up(D, up, y)
          /\ Up(D, up, v) \ {root} = {v} \cup (Up(D, up, y) \ {root})
          /\ w \in Up(D, up, v) =>
               Up(D, up, v) \ Up(D, up, w) = {v} \cup (Up(D, up, y) \ Up(D, up, w))
      BY <2>4, <3>1, UpTo
    <3>3. c[y] = IF w \in Up(D, up, y) THEN Up(D, up, y) \ Up(D, up, w) ELSE Up(D, up, y) \ {root}
      BY <1>1
    <3>4. c[v] = IF w \in Up(D, up, v) THEN Up(D, up, v) \ Up(D, up, w) ELSE Up(D, up, v) \ {root}
      BY <1>1
    <3> QED  BY <2>4, <3>1, <3>2, <3>3, <3>4
  <2> QED  BY <2>2, <2>3, <2>4
<1>3. c = [v \in D \ {root} |-> c[v]]
  BY <1>1
<1> QED  BY <1>2, <1>3 DEF Rises

LEMMA RisesUpTo ==
  ASSUME NEW D, NEW up, NEW root, NEW rank, IsTree(D, up, root, rank), NEW dom, NEW top,
         Topped(D, up, root, dom, top), NEW w \in D \ {root}, NEW c, Rises(c, D, root, dom, w),
         NEW n \in D \ {root}, w \in Up(D, up, n)
  PROVE  c[n] = Up(D, up, n) \ Up(D, up, w)
<1>1. up \in [D -> D] /\ rank \in [D -> Nat] /\ root \in D /\ \A x \in D : rank[x] <= rank[root]
  BY DEF IsTree
<1>2. PICK togo \in [D -> Nat] : \A x \in D : togo[x] = rank[root] - rank[x]
  <2>1. \A x \in D : rank[root] - rank[x] \in Nat
    BY <1>1
  <2>2. [x \in D |-> rank[root] - rank[x]] \in [D -> Nat]
    BY <2>1
  <2> QED  BY <2>2
<1>3. PICK Wrong \in SUBSET D :
        Wrong = {v \in D \ {root} : w \in Up(D, up, v) /\ c[v] # Up(D, up, v) \ Up(D, up, w)}
  OBVIOUS
<1>4. SUFFICES ASSUME Wrong # {} PROVE FALSE
  BY <1>3
<1>5. PICK v \in Wrong : \A x \in Wrong : togo[v] <= togo[x]
  BY <1>4, LowestIs
<1>6. v \in D \ {root} /\ w \in Up(D, up, v) /\ c[v] # Up(D, up, v) \ Up(D, up, w)
  BY <1>3
<1>7. c[v] = IF v = w THEN {} ELSE {v} \cup c[dom[v]]
  BY <1>6 DEF Rises
<1>8. v # w
  BY <1>6, <1>7
<1>9. v # top
  BY <1>6, <1>8, UpTo
<1>10. PICK y \in D \ {root} : y = dom[v] /\ y = up[v]
  BY <1>6, <1>8, <1>9, UpTo
<1>11. w \in Up(D, up, y) /\ Up(D, up, v) \ Up(D, up, w) = {v} \cup (Up(D, up, y) \ Up(D, up, w))
  BY <1>6, <1>8, <1>9, <1>10, UpTo
<1>12. y \in Wrong
  BY <1>3, <1>6, <1>7, <1>8, <1>10, <1>11
<1>13. rank[v] < rank[y] /\ rank[v] \in Nat /\ rank[y] \in Nat /\ rank[root] \in Nat
  BY <1>1, <1>6, <1>10 DEF IsTree
<1>14. togo[v] <= togo[y]
  BY <1>5, <1>12
<1> QED  BY <1>2, <1>6, <1>13, <1>14
-----------------------------------------------------------------------------
(* Dominators                                                              *)

DominatorsHold == \A n \in live :
    /\ Chain(idom, n) = {d \in live : Dominates(d, n)}
    /\ Frontier(n) = {u \in live : /\ \E p \in Preds(u) : Dominates(n, p)
                                   /\ ~(u # n /\ Dominates(n, u))}

(* Nothing leads back to the entry.                                        *)
NoReturn == \A e \in edges : e[2] # Entry

(* With one predecessor a node has its dominators.                         *)
LEMMA OneBefore ==
  ASSUME Settles, NEW u \in live \ {Entry}, NEW p \in live, u \in Succs(p),
         \A s \in live : u \in Succs(s) => s = p, NEW n, Cut(n, p)
  PROVE  n # u /\ Cut(n, u)
<1>1. PICK U \in SUBSET live : /\ {Entry} \ {n} \subseteq U
                               /\ \A s \in U : Succs(s) \ {n} \subseteq U
                               /\ p \notin U
  BY DEF Cut
<1>2. \A s \in U : u \notin Succs(s)
  BY <1>1
<1>3. n # u
  <2> SUFFICES ASSUME n = u PROVE FALSE
    OBVIOUS
  <2>1. Entry \in U /\ \A s \in U \cap live : Succs(s) \subseteq U
    BY <1>1, <1>2
  <2>2. live \subseteq U
    BY <2>1, Everywhere
  <2> QED  BY <1>1, <2>2
<1>4. Cut(n, u)
  <2>1. PICK V \in SUBSET live : V = U \ {u}
    OBVIOUS
  <2>2. {Entry} \ {n} \subseteq V /\ u \notin V /\ \A s \in V : Succs(s) \ {n} \subseteq V
    BY <1>1, <1>2, <2>1
  <2> QED  BY <2>2 DEF Cut
<1> QED  BY <1>3, <1>4

(* Fewer than two are one.                                                 *)
LEMMA FewerThanTwo ==
  ASSUME NEW S, IsFiniteSet(S), NEW p \in S, NEW q \in S, p # q
  PROVE  Cardinality(S) >= 2
<1>1. PICK T : T = {q}
  OBVIOUS
<1>2. IsFiniteSet(T) /\ Cardinality(T) = 1
  BY <1>1, FS_Singleton
<1>3. p \notin T /\ T \cup {p} \subseteq S
  BY <1>1
<1>4. Cardinality(T \cup {p}) = 2 /\ IsFiniteSet(T \cup {p})
  <2>1. Cardinality(T \cup {p}) = Cardinality(T) + 1
    BY <1>2, <1>3, FS_AddElement
  <2> QED  BY <1>2, <2>1, FS_AddElement
<1>5. Cardinality(T \cup {p}) <= Cardinality(S)
  BY <1>3, FS_Subset
<1>6. Cardinality(S) \in Nat
  BY FS_CardinalityType
<1> QED  BY <1>4, <1>5, <1>6
(* climb of dominance_frontier(), with the dominators dom                  *)
ClimbOf(dom, u, p) ==
    LET climb[v \in live] == IF v = dom[u] THEN {} ELSE {v} \cup climb[dom[v]]
    IN  climb[p]

(* A tree of the live nodes, above each of which are its dominators        *)
DominatorTree(D, up, rank, dom) ==
    /\ D = {Virtual} \cup live /\ Virtual \notin live
    /\ IsTree(D, up, Virtual, rank) /\ Topped(D, up, Virtual, dom, Entry)
    /\ \A d, n \in live : d \in Up(D, up, n) <=> Cut(d, n)

(* From a predecessor of a node the climb takes what dominates the one and *)
(* does not strictly dominate the other.                                   *)
LEMMA ClimbIs ==
  ASSUME NEW D, NEW up, NEW rank, NEW dom, DominatorTree(D, up, rank, dom),
         NEW u \in live \ {Entry}, NEW p \in live, u \in Succs(p), NEW n \in live
  PROVE  n \in ClimbOf(dom, u, p) <=> Cut(n, p) /\ ~ (n # u /\ Cut(n, u))
<1>1. /\ D \ {Virtual} = live /\ IsTree(D, up, Virtual, rank)
      /\ Topped(D, up, Virtual, dom, Entry)
      /\ \A d, m \in live : d \in Up(D, up, m) <=> Cut(d, m)
  BY DEF DominatorTree
<1>2. PICK w \in live : w = dom[u] /\ w = up[u]
  BY <1>1 DEF Topped, IsTree
<1> DEFINE climb == CHOOSE c : c = [v \in live |-> IF v = dom[u] THEN {} ELSE {v} \cup c[dom[v]]]
<1>3. ClimbOf(dom, u, p) = climb[p]
  BY DEF ClimbOf
<1>4. ASSUME NEW c
      PROVE  Rises(c, D, Virtual, dom, w)
             <=> c = [v \in live |-> IF v = dom[u] THEN {} ELSE {v} \cup c[dom[v]]]
  BY <1>1, <1>2 DEF Rises
<1>5. \E c : Rises(c, D, Virtual, dom, w)
  BY <1>1, <1>2, RisesExists
<1>6. Rises(climb, D, Virtual, dom, w)
  BY <1>4, <1>5
<1> HIDE DEF climb
<1>7. /\ up \in [D -> D] /\ u \in D
      /\ Up(D, up, u) = {u} \cup Up(D, up, w) /\ u \notin Up(D, up, w) /\ w # u
  <2>1. u \in D \ {Virtual} /\ up \in [D -> D]
    BY <1>1 DEF IsTree
  <2> QED  BY <1>1, <1>2, <2>1, UpBelow, UpOpens
<1>8. w \in Up(D, up, w)
  BY <1>1, <1>7, UpIsLeast DEF Upward
<1>9. Cut(w, p)
  BY <1>1, <1>2, <1>7, <1>8, CutBefore
<1>10. climb[p] = Up(D, up, p) \ Up(D, up, w)
  BY <1>1, <1>2, <1>6, <1>9, RisesUpTo
<1> QED  BY <1>1, <1>3, <1>7, <1>10

(* One step up: from a node to what all its other dominators dominate      *)
Immediately(dom) == \E depth \in [live -> Nat] :
    /\ dom[Entry] = Entry
    /\ \A b \in live \ {Entry} :
         /\ dom[b] \in live /\ depth[dom[b]] < depth[b]
         /\ \A d \in live : Cut(d, b) <=> d = b \/ Cut(d, dom[b])

LEMMA ImmediatelyAbove ==
  ASSUME NEW D, NEW up, NEW rank, NEW dom, DominatorTree(D, up, rank, dom)
  PROVE  Immediately(dom)
<1>1. /\ D \ {Virtual} = live /\ live \subseteq D
      /\ \A d, m \in live : d \in Up(D, up, m) <=> Cut(d, m)
  BY DEF DominatorTree
<1>2. /\ rank \in [D -> Nat] /\ up \in [D -> D] /\ \A x \in live : rank[x] < rank[up[x]]
      /\ rank[Virtual] \in Nat /\ \A x \in D : rank[x] <= rank[Virtual]
  BY <1>1 DEF DominatorTree, IsTree
<1>3. PICK depth \in [live -> Nat] : \A x \in live : depth[x] = rank[Virtual] - rank[x]
  <2>1. \A x \in live : rank[Virtual] - rank[x] \in Nat
    BY <1>1, <1>2
  <2>2. [x \in live |-> rank[Virtual] - rank[x]] \in [live -> Nat]
    BY <2>1
  <2> QED  BY <2>2
<1>4. /\ dom[Entry] = Entry
      /\ \A b \in live \ {Entry} : dom[b] = up[b] /\ dom[b] \in live
  BY <1>1, <1>2 DEF DominatorTree, Topped
<1>5. ASSUME NEW b \in live \ {Entry}
      PROVE  /\ dom[b] \in live /\ depth[dom[b]] < depth[b]
             /\ \A d \in live : Cut(d, b) <=> d = b \/ Cut(d, dom[b])
  <2>1. b \in D /\ Up(D, up, b) = {b} \cup Up(D, up, dom[b])
    BY <1>1, <1>2, <1>4, UpOpens
  <2>2. rank[b] < rank[dom[b]] /\ rank[b] \in Nat /\ rank[dom[b]] \in Nat
    BY <1>1, <1>2, <1>4
  <2>3. depth[dom[b]] < depth[b]
    BY <1>2, <1>3, <1>4, <2>2
  <2> QED  BY <1>1, <1>4, <2>1, <2>3
<1> QED  BY <1>3, <1>4, <1>5 DEF Immediately

LEMMA FrontierIs ==
  ASSUME Settles, NoReturn, NEW D, NEW up, NEW rank, NEW dom, DominatorTree(D, up, rank, dom),
         NEW n \in live, NEW u \in live
  PROVE  (Cardinality(Preds(u)) >= 2 /\ \E p \in Preds(u) : n \in ClimbOf(dom, u, p))
         <=> (\E p \in Preds(u) : Cut(n, p)) /\ ~ (u # n /\ Cut(n, u))
<1>1. Preds(u) \subseteq live /\ IsFiniteSet(Preds(u)) /\ \A p \in Preds(u) : u \in Succs(p)
  <2>1. edges \subseteq live \X live /\ live \subseteq Nodes /\ IsFiniteSet(live)
    BY GraphAssumption, FS_Subset DEF Settles, Reached
  <2>2. Preds(u) \subseteq live
    BY <2>1 DEF Preds
  <2>3. IsFiniteSet(Preds(u))
    BY <2>1, <2>2, FS_Subset
  <2> QED  BY <2>1, <2>2, <2>3 DEF Preds, Succs
<1>2. CASE u = Entry
  BY <1>2 DEF NoReturn, Preds
<1>3. CASE u # Entry
  <2>1. \A p \in Preds(u) : n \in ClimbOf(dom, u, p) <=> Cut(n, p) /\ ~ (n # u /\ Cut(n, u))
    BY <1>1, <1>3, ClimbIs
  <2>2. ASSUME ~ (Cardinality(Preds(u)) >= 2), NEW p \in Preds(u), Cut(n, p)
        PROVE  u # n /\ Cut(n, u)
    <3>1. \A q \in Preds(u) : q = p
      BY <1>1, <2>2, FewerThanTwo
    <3>2. \A s \in live : u \in Succs(s) => s \in Preds(u)
      BY DEF Succs, Preds, Settles
    <3> QED  BY <1>1, <1>3, <2>2, <3>1, <3>2, OneBefore
  <2> QED  BY <2>1, <2>2
<1> QED  BY <1>2, <1>3

(* When a sweep changes nothing, the tree is that of the dominators.       *)
LEMMA DominatorsFound ==
  ASSUME FlowInv, TreeInv, NoReturn, SweepEnds, ~ changed, Pass("dominators")
  PROVE  DominatorsHold' /\ Immediately(idom)'
<1>1. /\ tree # << >> /\ sweep = << >> /\ UNCHANGED << edges, live >>
      /\ idom' = Immediate
  BY DEF SweepEnds
<1>2. Settles /\ Directed /\ SearchInv /\ path = << >> /\ Growing
  <2>1. passes # << "process" >> /\ Going
    BY DEF Pass, Going, Analyses
  <2>2. Reached /\ live \subseteq Nodes /\ SearchInv
    BY <2>1 DEF FlowInv, GraphInv
  <2> QED  BY <1>1, <2>2 DEF SearchInv, TreeInv, Settles, Directed
<1>3. Gone = live /\ Virtual \notin live /\ None \notin live /\ Listed /\ Hung
  <2>1. Listed /\ Hung /\ Whole /\ order \in Seq(live)
    BY <1>2 DEF Growing, SearchInv, Listed
  <2>2. Gone \subseteq live
    BY <2>1 DEF Gone
  <2>3. Entry \in Gone /\ \A s \in Gone \cap live : Succs(s) \subseteq Gone
    BY <2>1, ForthAndBack DEF Whole, Gone
  <2>4. live \subseteq Gone
    BY <1>2, <2>3, Everywhere
  <2> QED  BY <1>2, <2>1, <2>2, <2>4, GraphAssumption DEF Settles
<1>4. PICK dom : dom = Immediate
  OBVIOUS
<1>5. PICK D, up : D = DOMAIN tree /\ up = tree
  OBVIOUS
<1>6. /\ D = {Virtual} \cup live
      /\ \A n \in live : n \in Roots => up[n] = Virtual
      /\ \A d, n \in live : d \in Up(D, up, n) <=> Cut(d, n)
  BY <1>1, <1>2, <1>3, <1>5, TreeIsRight, BehindIsCut
<1>7. /\ \A m \in live : IF up[m] = Virtual THEN dom[m] \in {m, None}
                         ELSE dom[m] = up[m] /\ dom[m] \in live /\ dom[m] \notin {m, None}
      /\ \A n \in live : Chain(dom, n) = Up(D, up, n) \ {Virtual}
  BY <1>3, <1>4, <1>5, <1>6, ImmediateIs
<1>8. IsTree(D, up, Virtual, Place) /\ Entry \in live /\ Roots = {Entry}
  BY <1>2, <1>3, <1>5, ForthAndBack DEF Hung, Settles, Reached
<1>9. Topped(D, up, Virtual, dom, Entry)
  <2>1. up[Entry] = Virtual
    BY <1>6, <1>8
  <2>2. dom[Entry] = Entry
    <3>1. order \in Seq(live) /\ Entry \in Gone
      BY <1>3, <1>8 DEF Listed
    <3>2. Entry \in ToSet(order)
      BY <3>1 DEF Gone, ToSet
    <3>3. Entry \in Roots
      BY <1>8
    <3> QED  BY <1>4, <3>2, <3>3 DEF Immediate
  <2>3. ASSUME NEW v \in live \ {Entry}
        PROVE  up[v] # Virtual
    <3>1. Cut(Entry, v)
      <4>1. {} \in SUBSET live
        OBVIOUS
      <4> QED  BY <4>1 DEF Cut
    <3>2. Entry \in Up(D, up, v)
      BY <1>6, <1>8, <3>1
    <3>3. Up(D, up, v) \ {Virtual} = {v} \cup IF up[v] = Virtual THEN {} ELSE Up(D, up, up[v]) \ {Virtual}
      <4>1. v \in D \ {Virtual}
        BY <1>3, <1>6
      <4> QED  BY <1>8, <4>1, UpBelow
    <3> QED  BY <1>3, <1>8, <3>2, <3>3
  <2> QED  BY <1>3, <1>6, <1>7, <1>8, <2>1, <2>2, <2>3 DEF Topped
<1>10. DominatorTree(D, up, Place, dom)
  BY <1>3, <1>6, <1>8, <1>9 DEF DominatorTree
<1>11. idom' = dom /\ live' = live /\ \A u : Preds(u)' = Preds(u)
  BY <1>1, <1>4 DEF Preds
<1>12. \A d, n : Dominates(d, n)' <=> Cut(d, n)
  <2>1. \A d, n : Dominates(d, n)' <=> Dominates(d, n)
    BY <1>1 DEF Dominates, Reach
  <2> QED  BY <1>2, <2>1, DominatesIsCut
<1>13. ASSUME NEW n \in live
       PROVE  Chain(idom, n)' = {d \in live : Cut(d, n)}
  <2>1. Chain(idom, n)' = Chain(dom, n)
    BY <1>11 DEF Chain
  <2>2. PICK A : A = Up(D, up, n)
    OBVIOUS
  <2>3. A \subseteq D /\ \A d \in live : d \in A <=> Cut(d, n)
    BY <1>6, <2>2 DEF Up
  <2>4. A \ {Virtual} = {d \in live : Cut(d, n)}
    BY <1>3, <1>6, <2>3
  <2> QED  BY <1>7, <2>1, <2>2, <2>4
<1>14. ASSUME NEW n \in live
       PROVE  Frontier(n)' = {u \in live : (\E p \in Preds(u) : Cut(n, p)) /\ ~ (u # n /\ Cut(n, u))}
  <2>1. \A u, p : Climb(u, p)' = ClimbOf(dom, u, p)
    BY <1>11 DEF Climb, ClimbOf
  <2>2. Frontier(n)' = {u \in live : Cardinality(Preds(u)) >= 2 /\ \E p \in Preds(u) : n \in ClimbOf(dom, u, p)}
    BY <1>11, <2>1 DEF Frontier
  <2> QED  BY <1>2, <1>10, <2>2, FrontierIs
<1>15. DominatorsHold'
  BY <1>11, <1>12, <1>13, <1>14 DEF DominatorsHold
<1>16. Immediately(idom)'
  <2>1. Immediately(dom)
    BY <1>10, ImmediatelyAbove
  <2>2. \A d, n : Cut(d, n)' = Cut(d, n)
    BY <1>1, CutsStay
  <2>3. PICK depth \in [live -> Nat] :
          /\ dom[Entry] = Entry
          /\ \A b \in live \ {Entry} :
               /\ dom[b] \in live /\ depth[dom[b]] < depth[b]
               /\ \A d \in live : Cut(d, b) <=> d = b \/ Cut(d, dom[b])
    BY <2>1 DEF Immediately
  <2> QED  BY <1>11, <2>2, <2>3 DEF Immediately
<1> QED  BY <1>15, <1>16
-----------------------------------------------------------------------------
(* Where the function ends, or stays for ever                              *)

To(n) == Reach({n}, {})

LEMMA ToIs ==
  ASSUME Settles, NEW n \in live
  PROVE  /\ To(n) \in SUBSET live /\ n \in To(n) /\ \A s \in To(n) : Succs(s) \subseteq To(n)
         /\ \A U : n \in U /\ (\A s \in U \cap live : Succs(s) \subseteq U) => To(n) \subseteq U
         /\ \A m \in To(n) : To(m) \subseteq To(n)
<1>1. edges \subseteq live \X live /\ live \subseteq Nodes
  BY DEF Settles, Reached
<1>2. ASSUME NEW m \in live
      PROVE  /\ To(m) \in SUBSET live /\ m \in To(m) /\ \A s \in To(m) : Succs(s) \subseteq To(m)
             /\ \A U : m \in U /\ (\A s \in U \cap live : Succs(s) \subseteq U) => To(m) \subseteq U
  <2>1. {m} \in SUBSET Nodes /\ {m} \ {} = {m}
    BY <1>1
  <2>2. PICK R \in SUBSET Nodes : R = To(m)
    BY <2>1, ReachIsClosure DEF To
  <2>3. /\ m \in R /\ Closed(R, {})
        /\ \A U \in SUBSET Nodes : m \in U /\ Closed(U, {}) => R \subseteq U
    <3>1. /\ {m} \ {} \subseteq R /\ Closed(R, {})
          /\ \A U \in SUBSET Nodes : {m} \ {} \subseteq U /\ Closed(U, {}) => R \subseteq U
      BY <2>1, <2>2, ReachIsClosure DEF To
    <3> QED  BY <2>1, <3>1
  <2>4. \A s \in R : Succs(s) \subseteq R
    BY <2>3 DEF Closed, Succs
  <2>5. ASSUME NEW U, m \in U, \A s \in U \cap live : Succs(s) \subseteq U
        PROVE  R \subseteq U \cap live
    <3>1. PICK V \in SUBSET Nodes : V = U \cap live
      BY <1>1
    <3>2. m \in V /\ Closed(V, {})
      BY <1>1, <2>5, <3>1 DEF Closed, Succs
    <3> QED  BY <2>3, <3>1, <3>2
  <2>6. R \subseteq live
    <3>1. m \in Nodes /\ \A s \in Nodes \cap live : Succs(s) \subseteq Nodes
      BY <1>1 DEF Succs
    <3> QED  BY <2>5, <3>1
  <2> QED  BY <2>2, <2>3, <2>4, <2>5, <2>6
<1>3. ASSUME NEW m \in To(n)
      PROVE  To(m) \subseteq To(n)
  <2>1. m \in live /\ \A s \in To(n) \cap live : Succs(s) \subseteq To(n)
    BY <1>2, <1>3
  <2> QED  BY <1>2, <1>3, <2>1
<1> QED  BY <1>2, <1>3

LEMMA SettledIs ==
  ASSUME Settles
  PROVE  Settled = {n \in live : \A m \in To(n) : n \in To(m)}
BY DEF Settled, To

(* A node leads to what it dominates.                                      *)
LEMMA CutLeads ==
  ASSUME Settles, NEW h \in live, NEW x \in live, Cut(h, x)
  PROVE  x \in To(h)
<1>1. PICK V \in SUBSET live : /\ {Entry} \ {h} \subseteq V
                               /\ \A s \in V : Succs(s) \ {h} \subseteq V
                               /\ x \notin V
  BY DEF Cut
<1>2. PICK U : U = V \cup To(h)
  OBVIOUS
<1>3. h \in To(h) /\ \A s \in To(h) : Succs(s) \subseteq To(h)
  BY ToIs
<1>4. Entry \in U /\ \A s \in U \cap live : Succs(s) \subseteq U
  BY <1>1, <1>2, <1>3
<1>5. live \subseteq U
  BY <1>4, Everywhere
<1> QED  BY <1>1, <1>2, <1>5

(* What the loop of a header dominates, and what leads to the header       *)
LEMMA BodyLeads ==
  ASSUME Settles, backEdges \in SUBSET edges, \A e \in backEdges : Cut(e[2], e[1]),
         NEW h \in live, NEW x \in Body(h)
  PROVE  x \in live /\ Cut(h, x) /\ h \in To(x)
<1>1. edges \subseteq live \X live /\ live \subseteq Nodes /\ edges \subseteq Nodes \X Nodes
      /\ backEdges \in SUBSET (live \X live)
  BY DEF Settles, Reached
<1>2. \A e \in backEdges : e[1] \in live /\ e[2] \in live /\ << e[1], e[2] >> \in edges
  BY <1>1
<1>3. PICK U : U = {y \in live : Cut(h, y) /\ h \in To(y)}
  OBVIOUS
<1>4. h \in U
  BY <1>3, CutSelf, ToIs
<1>5. ASSUME NEW y \in live, NEW z \in To(y), h \in To(z)
      PROVE  h \in To(y)
  BY <1>5, ToIs
<1>6. ASSUME NEW e \in backEdges, e[2] = h
      PROVE  e[1] \in U
  <2>1. e[1] \in live /\ h \in Succs(e[1]) /\ Cut(h, e[1])
    BY <1>1, <1>2, <1>6 DEF Succs
  <2>2. h \in To(e[1])
    BY <2>1, ToIs
  <2> QED  BY <1>3, <2>1, <2>2
<1>7. ASSUME NEW n \in U \ {h}, NEW p \in Preds(n)
      PROVE  p \in U
  <2>1. p \in live /\ n \in Succs(p) /\ n \in live
    BY <1>1, <1>3 DEF Preds, Succs
  <2>2. Cut(h, p)
    BY <1>3, <1>7, <2>1, CutBefore
  <2>3. n \in To(p)
    BY <2>1, ToIs
  <2>4. h \in To(p)
    BY <1>3, <1>5, <2>1, <2>3
  <2> QED  BY <1>3, <2>1, <2>2, <2>4
<1>8. Loops(U, h)
  BY <1>4, <1>6, <1>7 DEF Loops
<1>9. U \in SUBSET Nodes /\ h \in Nodes
  BY <1>1, <1>3
<1>10. Body(h) \subseteq U
  BY <1>1, <1>8, <1>9, BodyIsLeast
<1> QED  BY <1>3, <1>10

(* An exit point is settled, and a loop without exits is.                  *)
LEMMA RootsAreSettled ==
  ASSUME Settles, backEdges \in SUBSET edges, \A e \in backEdges : Cut(e[2], e[1])
  PROVE  PostRoots \subseteq Settled
<1>1. edges \subseteq live \X live /\ live \subseteq Nodes /\ edges \subseteq Nodes \X Nodes
  BY DEF Settles, Reached
<1>2. ASSUME NEW n \in ExitPoints
      PROVE  n \in Settled
  <2>1. n \in live /\ Succs(n) = {}
    BY DEF ExitPoints
  <2>2. To(n) \subseteq {n}
    BY <2>1, ToIs
  <2> QED  BY <2>1, <2>2, ToIs, SettledIs
<1>3. ASSUME NEW h \in Headers, Exits(h) = {}, NEW n \in Body(h)
      PROVE  n \in Settled
  <2>1. h \in live
    BY <1>1, HeadersAreLive
  <2>2. n \in live /\ Cut(h, n) /\ h \in To(n)
    BY <2>1, BodyLeads
  <2>3. To(n) \subseteq Body(h)
    <3>1. \A s \in Body(h) : Succs(s) \subseteq Body(h)
      BY <1>3 DEF Exits
    <3> QED  BY <2>2, <3>1, ToIs
  <2>4. n \in To(h)
    BY <2>1, <2>2, CutLeads
  <2>5. ASSUME NEW m \in To(n)
        PROVE  n \in To(m)
    <3>1. m \in Body(h)
      BY <2>3
    <3>2. m \in live /\ h \in To(m)
      BY <2>1, <3>1, BodyLeads
    <3> QED  BY <2>4, <3>2, ToIs
  <2> QED  BY <2>2, <2>5, SettledIs
<1> QED  BY <1>2, <1>3 DEF PostRoots
(* A settled node with a successor is in the loop of the header that comes *)
(* first of those that it leads to, and the loop is all it leads to.       *)
LEMMA SettledLoops ==
  ASSUME Settles, backEdges \in SUBSET edges, \A e \in backEdges : Cut(e[2], e[1]),
         NEW r \in [live -> Nat], \A e \in edges \ backEdges : r[e[1]] < r[e[2]],
         NEW n \in Settled, Succs(n) # {}
  PROVE  \E h \in Headers : Exits(h) = {} /\ n \in Body(h)
<1>1. edges \subseteq live \X live /\ live \subseteq Nodes /\ edges \subseteq Nodes \X Nodes
  BY DEF Settles, Reached
<1>2. n \in live /\ \A m \in To(n) : n \in To(m)
  BY SettledIs
<1>3. PICK S \in SUBSET live : S = To(n)
  BY <1>2, ToIs
<1>4. n \in S /\ \A s \in S : Succs(s) \subseteq S
  BY <1>2, <1>3, ToIs
<1>5. ASSUME NEW a \in S, NEW b \in S
      PROVE  b \in To(a)
  BY <1>2, <1>3, ToIs
<1>6. ASSUME NEW T \in SUBSET S, NEW a \in T, NEW b \in S \ T
      PROVE  \E s, d : s \in T /\ d \in Succs(s) /\ d \notin T
  <2> SUFFICES ASSUME \A s \in T : Succs(s) \subseteq T PROVE FALSE
    OBVIOUS
  <2>1. To(a) \subseteq T
    BY ToIs
  <2> QED  BY <1>5, <1>6, <2>1
<1>7. PICK h \in S : \A x \in S : r[h] <= r[x]
  <2>1. PICK T : T = {r[x] : x \in S}
    OBVIOUS
  <2>2. T \subseteq Nat /\ T # {}
    BY <1>3, <1>4, <2>1
  <2>3. PICK k \in T : \A l \in T : k <= l
    BY <2>2, LeastNatural
  <2>4. PICK h \in S : k = r[h]
    BY <2>1, <2>3
  <2> QED  BY <2>1, <2>3, <2>4
<1>8. \E s \in S : h \in Succs(s)
  <2>1. CASE S = {h}
    BY <1>4, <2>1
  <2>2. CASE S # {h}
    <3>1. PICK T \in SUBSET S : T = S \ {h}
      OBVIOUS
    <3>2. PICK a : a \in T
      BY <2>2, <3>1
    <3>3. PICK s, d : s \in T /\ d \in Succs(s) /\ d \notin T
      BY <1>6, <3>1, <3>2
    <3> QED  BY <1>4, <3>1, <3>3
  <2> QED  BY <2>1, <2>2
<1>9. ASSUME NEW s \in S, h \in Succs(s)
      PROVE  << s, h >> \in backEdges
  <2>1. << s, h >> \in edges
    BY <1>9 DEF Succs
  <2>2. r[h] <= r[s] /\ r[h] \in Nat /\ r[s] \in Nat
    BY <1>7
  <2> QED  BY <2>1, <2>2
<1>10. h \in Headers /\ h \in live /\ h \in Nodes
  <2>1. PICK s \in S : h \in Succs(s)
    BY <1>8
  <2>2. PICK e \in backEdges : e = << s, h >>
    BY <1>9, <2>1
  <2> QED  BY <1>1, <2>2 DEF Headers
<1>11. Loops(Body(h), h)
  BY <1>1, <1>10, BodyIsLeast
<1>12. S \subseteq Body(h)
  <2> SUFFICES ASSUME NEW a \in S, a \notin Body(h) PROVE FALSE
    OBVIOUS
  <2>1. PICK T \in SUBSET S : T = S \ Body(h)
    OBVIOUS
  <2>2. h \in S \ T /\ a \in T
    BY <1>11, <2>1 DEF Loops
  <2>3. PICK s, d : s \in T /\ d \in Succs(s) /\ d \notin T
    BY <1>6, <2>2
  <2>4. d \in S /\ d \in Body(h) /\ s \in S /\ s \in live /\ s \notin Body(h)
    BY <1>4, <2>1, <2>3
  <2>5. CASE d = h
    <3>1. << s, h >> \in backEdges
      BY <1>9, <2>3, <2>4, <2>5
    <3> QED  BY <1>11, <2>4, <3>1 DEF Loops
  <2>6. CASE d # h
    <3>1. s \in Preds(d)
      BY <1>1, <2>3, <2>4 DEF Preds, Succs
    <3> QED  BY <1>11, <2>4, <2>6, <3>1 DEF Loops
  <2> QED  BY <2>5, <2>6
<1>13. Body(h) \subseteq S
  <2> SUFFICES ASSUME NEW x \in Body(h) PROVE x \in S
    OBVIOUS
  <2>1. x \in To(h)
    BY <1>10, BodyLeads, CutLeads
  <2>2. h \in live /\ \A s \in S \cap live : Succs(s) \subseteq S
    BY <1>4, <1>10
  <2> QED  BY <2>1, <2>2, ToIs
<1>14. Exits(h) = {}
  BY <1>4, <1>12, <1>13 DEF Exits
<1> QED  BY <1>4, <1>10, <1>12, <1>14

(* In a reducible graph post-dominators start from the settled nodes.      *)
LEMMA PostRootsAreSettled ==
  ASSUME Settles, BackInv, Pass("postdominators"), Reducible
  PROVE  PostRoots = Settled
<1>1. backEdges # None /\ ~ Pass("back")
  BY DEF BackInv, Pass
<1>2. backEdges \in SUBSET edges /\ Ranked
  BY <1>1 DEF BackInv
<1>3. \A e \in backEdges : Cut(e[2], e[1])
  BY <1>1, BackEdgesAreBackward, BackwardIsCut
<1>4. PICK r \in [live -> Nat] : \A e \in edges \ backEdges : r[e[1]] < r[e[2]]
  BY <1>2 DEF Ranked
<1>5. ASSUME NEW n \in Settled
      PROVE  n \in PostRoots
  <2>1. CASE Succs(n) = {}
    BY <2>1 DEF PostRoots, ExitPoints, Settled
  <2>2. CASE Succs(n) # {}
    <3>1. PICK h \in Headers : Exits(h) = {} /\ n \in Body(h)
      BY <1>2, <1>3, <1>4, <2>2, SettledLoops
    <3> QED  BY <3>1 DEF PostRoots
  <2> QED  BY <2>1, <2>2
<1> QED  BY <1>2, <1>3, <1>5, RootsAreSettled

(* Every node leads to a settled one.                                      *)
LEMMA SettlesSomewhere ==
  ASSUME Settles, NEW n \in live
  PROVE  \E m \in To(n) : m \in Settled
<1>1. live \subseteq Nodes /\ IsFiniteSet(Nodes)
  BY GraphAssumption DEF Settles
<1>2. PICK X : X = {To(m) : m \in To(n)}
  OBVIOUS
<1>3. To(n) \in SUBSET live /\ n \in To(n)
  BY ToIs
<1>4. \A m \in To(n) : To(m) \in SUBSET live /\ To(m) \subseteq To(n) /\ m \in live /\ m \in To(m)
  BY <1>3, ToIs
<1>5. X \subseteq SUBSET Nodes /\ X # {}
  BY <1>1, <1>2, <1>3, <1>4
<1>6. PICK S \in X : \A T \in X : T \subseteq S => T = S
  BY <1>1, <1>5, SmallestSet
<1>7. PICK m \in To(n) : S = To(m)
  BY <1>2, <1>6
<1>8. ASSUME NEW q \in To(m)
      PROVE  m \in To(q)
  <2>1. q \in To(n) /\ To(q) \in X
    BY <1>2, <1>4, <1>7
  <2>2. To(q) \subseteq To(m)
    BY <1>4, <1>7, ToIs
  <2>3. To(q) = To(m)
    BY <1>6, <1>7, <2>1, <2>2
  <2> QED  BY <1>4, <1>7, <2>3
<1> QED  BY <1>4, <1>7, <1>8, SettledIs

(* The search against the edges finds all there is.                        *)
LEMMA AllFound ==
  ASSUME Settles, BackInv, Pass("postdominators"), Reducible, Listed, Whole
  PROVE  Gone = live /\ order # << >>
<1>1. Roots = Settled /\ \A s : Onward(s) = Preds(s)
  BY PostRootsAreSettled DEF Roots, Onward, Pass
<1>2. Gone \subseteq live
  BY DEF Gone, Listed
<1>3. ASSUME NEW n \in live, n \notin Gone
      PROVE  FALSE
  <2>1. PICK U : U = live \ Gone
    OBVIOUS
  <2>2. ASSUME NEW s \in U
        PROVE  Succs(s) \subseteq U
    <3> SUFFICES ASSUME NEW d \in Succs(s), d \in Gone PROVE FALSE
      BY <2>1 DEF Succs, Settles, Reached
    <3>1. s \in Preds(d)
      BY <2>1 DEF Preds, Succs, Settles
    <3> QED  BY <1>1, <2>1, <3>1 DEF Whole, Gone
  <2>3. n \in U /\ \A s \in U \cap live : Succs(s) \subseteq U
    BY <1>3, <2>1, <2>2
  <2>4. To(n) \subseteq U
    BY <2>3, ToIs
  <2> QED  BY <1>1, <2>1, <2>4, SettlesSomewhere DEF Whole
<1>4. Entry \in live
  BY DEF Settles, Reached
<1>5. order # << >>
  <2> SUFFICES ASSUME order = << >> PROVE FALSE
    OBVIOUS
  <2>1. Gone = {}
    BY DEF Gone
  <2> QED  BY <1>3, <1>4, <2>1
<1> QED  BY <1>2, <1>3, <1>5
Blockers(n) == {p \in live : Reach({n}, {p}) \cap (Settled \ {p}) = {}}

PostDominatorsHold ==
    /\ DOMAIN ipdom = live
    /\ \A n \in live : Chain(ipdom, n) = IF n \in Settled THEN {n} ELSE Blockers(n)

(* What the search does not find without p is what cannot go where the     *)
(* function ends without p.                                                *)
LEMMA BehindIsBlocked ==
  ASSUME Settles, Roots = Settled, \A s : Onward(s) = Preds(s), NEW n \in live, NEW p \in live
  PROVE  Behind(p, n) <=> Reach({n}, {p}) \cap (Settled \ {p}) = {}
<1>1. edges \subseteq live \X live /\ live \subseteq Nodes /\ Settled \subseteq live /\ {n} \in SUBSET Nodes
  BY DEF Settles, Reached, Settled
<1>2. PICK R \in SUBSET Nodes : R = Reach({n}, {p})
  BY <1>1, ReachIsClosure
<1>3. /\ {n} \ {p} \subseteq R /\ Closed(R, {p})
      /\ \A U \in SUBSET Nodes : {n} \ {p} \subseteq U /\ Closed(U, {p}) => R \subseteq U
  BY <1>1, <1>2, ReachIsClosure
<1>4. ASSUME R \cap (Settled \ {p}) = {}
      PROVE  Behind(p, n)
  <2>1. PICK U \in SUBSET live : U = live \ (R \cup {p})
    OBVIOUS
  <2>2. Roots \ {p} \subseteq U /\ n \notin U
    BY <1>1, <1>3, <1>4, <2>1
  <2>3. ASSUME NEW s \in U
        PROVE  Onward(s) \ {p} \subseteq U
    <3>1. Onward(s) \subseteq live /\ \A x \in Onward(s) : << x, s >> \in edges
      BY <1>1 DEF Preds
    <3>2. \A x \in Onward(s) : x \notin R
      BY <1>1, <1>3, <2>1, <3>1 DEF Closed
    <3> QED  BY <2>1, <3>1, <3>2
  <2> QED  BY <2>2, <2>3 DEF Behind
<1>5. ASSUME Behind(p, n)
      PROVE  R \cap (Settled \ {p}) = {}
  <2>1. PICK U \in SUBSET live : /\ Settled \ {p} \subseteq U
                                 /\ \A s \in U : Preds(s) \ {p} \subseteq U
                                 /\ n \notin U
    BY <1>5 DEF Behind
  <2>2. PICK W \in SUBSET Nodes : W = live \ (U \cup {p})
    BY <1>1
  <2>3. {n} \ {p} \subseteq W
    BY <2>1, <2>2
  <2>4. Closed(W, {p})
    <3> SUFFICES ASSUME NEW s \in W, NEW d \in Nodes \ {p}, << s, d >> \in edges PROVE d \in W
      BY DEF Closed
    <3>1. d \in live /\ s \in live /\ s \in Preds(d)
      BY <1>1 DEF Preds
    <3> QED  BY <2>1, <2>2, <3>1
  <2> QED  BY <1>3, <2>1, <2>2, <2>3, <2>4
<1> QED  BY <1>2, <1>4, <1>5

(* The tree that the sweeps leave is that of the post-dominators.          *)
LEMMA PostDominatorsFound ==
  ASSUME FlowInv, TreeInv, SweepEnds, ~ changed, Pass("postdominators"), Reducible
  PROVE  PostDominatorsHold'
<1>1. /\ tree # << >> /\ sweep = << >> /\ UNCHANGED << edges, live >>
      /\ ipdom' = Immediate
  BY DEF SweepEnds
<1>2. Settles /\ Directed /\ SearchInv /\ BackInv /\ path = << >> /\ Growing
  <2>1. passes # << "process" >> /\ Going
    BY DEF Pass, Going, Analyses
  <2>2. Reached /\ live \subseteq Nodes /\ SearchInv /\ BackInv
    BY <2>1 DEF FlowInv, GraphInv
  <2> QED  BY <1>1, <2>2 DEF SearchInv, TreeInv, Settles, Directed
<1>3. Gone = live /\ Virtual \notin live /\ None \notin live /\ Listed /\ Hung
  <2>1. Listed /\ Hung /\ Whole
    BY <1>2 DEF Growing, SearchInv
  <2> QED  BY <1>2, <2>1, AllFound, GraphAssumption DEF Settles
<1>4. PICK dom : dom = Immediate
  OBVIOUS
<1>5. PICK D, up : D = DOMAIN tree /\ up = tree
  OBVIOUS
<1>6. Roots = Settled /\ \A s : Onward(s) = Preds(s)
  BY <1>2, PostRootsAreSettled DEF Roots, Onward, Pass
<1>7. /\ D = {Virtual} \cup live
      /\ \A n \in live : n \in Roots => up[n] = Virtual
      /\ \A d, n \in live : d \in Up(D, up, n) <=> Behind(d, n)
  BY <1>1, <1>2, <1>3, <1>5, TreeIsRight
<1>8. /\ DOMAIN dom = live
      /\ \A n \in live : Chain(dom, n) = Up(D, up, n) \ {Virtual}
  BY <1>3, <1>4, <1>5, <1>7, ImmediateIs
<1>9. ipdom' = dom /\ live' = live /\ Settled' = Settled /\ \A n : Blockers(n)' = Blockers(n)
  <2>1. Settled' = Settled /\ live' = live
    BY <1>1 DEF Settled, Reach
  <2>2. \A n, p : Reach({n}, {p})' = Reach({n}, {p})
    BY <1>1 DEF Reach
  <2>3. ASSUME NEW n
        PROVE  Blockers(n)' = Blockers(n)
    BY <2>1, <2>2 DEF Blockers
  <2> QED  BY <1>1, <1>4, <2>1, <2>3
<1>10. ASSUME NEW n \in live
       PROVE  Chain(ipdom, n)' = IF n \in Settled THEN {n} ELSE Blockers(n)
  <2>1. Chain(ipdom, n)' = Chain(dom, n)
    BY <1>9 DEF Chain
  <2>2. PICK A : A = Up(D, up, n)
    OBVIOUS
  <2>3. CASE n \in Settled
    <3>1. up[n] = Virtual
      BY <1>6, <1>7, <2>3
    <3>2. A \ {Virtual} = {n} \cup IF up[n] = Virtual THEN {} ELSE Up(D, up, up[n]) \ {Virtual}
      <4>1. n \in D \ {Virtual} /\ IsTree(D, up, Virtual, Place)
        BY <1>3, <1>5, <1>7 DEF Hung
      <4> QED  BY <2>2, <4>1, UpBelow
    <3> QED  BY <1>8, <2>1, <2>2, <2>3, <3>1, <3>2
  <2>4. CASE n \notin Settled
    <3>1. A \subseteq D /\ \A p \in live : p \in A <=> Behind(p, n)
      BY <1>7, <2>2 DEF Up
    <3>2. \A p \in live : p \in A <=> Reach({n}, {p}) \cap (Settled \ {p}) = {}
      BY <1>2, <1>6, <3>1, BehindIsBlocked
    <3>3. A \ {Virtual} = Blockers(n)
      BY <1>3, <1>7, <3>1, <3>2 DEF Blockers
    <3> QED  BY <1>8, <2>1, <2>2, <2>4, <3>3
  <2> QED  BY <2>3, <2>4
<1> QED  BY <1>8, <1>9, <1>10 DEF PostDominatorsHold
-----------------------------------------------------------------------------
(* The results                                                             *)

ResultsInv ==
    /\ NoReturn
    /\ passes = << "process" >> => idom = None /\ ipdom = None
    /\ idom # None => DominatorsHold /\ Immediately(idom)
    /\ ipdom # None /\ Reducible => PostDominatorsHold

LEMMA ResultsInitially == Init => ResultsInv
<1> SUFFICES ASSUME Init PROVE ResultsInv
  OBVIOUS
<1>1. edges \in SUBSET (Nodes \X (Nodes \ {Entry})) /\ idom = None /\ ipdom = None
  BY DEF Init, GraphInit, Graphs
<1> QED  BY <1>1 DEF ResultsInv, NoReturn

(* What is left of L when nodes that no edge of E leads to are taken away  *)
Shrunk(E, L) ==
    LET shrink[S \in SUBSET Nodes] ==
          LET T == {n \in S : \E s \in S : << s, n >> \in E}
          IN  IF T = S THEN S ELSE shrink[T]
    IN  shrink[L]

LEMMA ResultsStay ==
  ASSUME ResultsInv, UNCHANGED << edges, live >>, passes' # << "process" >>
  PROVE  /\ NoReturn' /\ (Reducible' => Reducible)
         /\ UNCHANGED idom /\ idom # None => DominatorsHold' /\ Immediately(idom)'
         /\ UNCHANGED ipdom /\ ipdom # None /\ Reducible => PostDominatorsHold'
<1>1. NoReturn'
  BY DEF ResultsInv, NoReturn
<1>2. /\ \A d, n : Dominates(d, n)' = Dominates(d, n)
      /\ \A n : Preds(n)' = Preds(n)
      /\ Settled' = Settled
  BY DEF Dominates, Reach, Preds, Settled
<1>3. Reducible' => Reducible
  <2>1. Backward' = Backward
    BY <1>2 DEF Backward
  <2>2. Reducible <=> Shrunk(edges \ Backward, live) = {}
    BY DEF Reducible, Shrunk
  <2>3. Reducible' <=> Shrunk((edges \ Backward)', live') = {}
    BY DEF Reducible, Shrunk
  <2>4. (edges \ Backward)' = edges \ Backward
    BY <2>1
  <2> QED  BY <2>2, <2>3, <2>4
<1>4. ASSUME UNCHANGED idom, idom # None
      PROVE  DominatorsHold' /\ Immediately(idom)'
  <2>1. \A n : Chain(idom, n)' = Chain(idom, n)
    BY <1>4 DEF Chain
  <2>2. \A u, p : Climb(u, p)' = Climb(u, p)
    BY <1>4 DEF Climb
  <2>3. \A n : Frontier(n)' = Frontier(n)
    BY <1>2, <2>2 DEF Frontier
  <2>4. DominatorsHold'
    BY <1>2, <1>4, <2>1, <2>3 DEF ResultsInv, DominatorsHold
  <2>5. Immediately(idom)'
    BY <1>4, CutsStay DEF ResultsInv, Immediately
  <2> QED  BY <2>4, <2>5
<1>5. ASSUME UNCHANGED ipdom, ipdom # None, Reducible
      PROVE  PostDominatorsHold'
  <2>1. \A n : Chain(ipdom, n)' = Chain(ipdom, n)
    BY <1>5 DEF Chain
  <2>2. \A n, p : Reach({n}, {p})' = Reach({n}, {p})
    BY DEF Reach
  <2>3. ASSUME NEW n
        PROVE  Blockers(n)' = Blockers(n)
    BY <1>2, <2>2 DEF Blockers
  <2> QED  BY <1>2, <1>5, <2>1, <2>3 DEF ResultsInv, PostDominatorsHold
<1> QED  BY <1>1, <1>3, <1>4, <1>5

LEMMA ResultsPreserved ==
  FlowInv /\ Planted /\ TreeInv /\ ResultsInv /\ [Next]_vars => ResultsInv'
<1> SUFFICES ASSUME FlowInv, Planted, TreeInv, ResultsInv, [Next]_vars PROVE ResultsInv'
  OBVIOUS
<1>1. GraphInv /\ SearchInv /\ BackInv
  BY DEF FlowInv
<1>2. CASE Process
  <2>1. edges' \subseteq edges /\ UNCHANGED << idom, ipdom >> /\ passes = << "process" >> /\ passes' # << "process" >>
    <3>1. passes # << >> /\ Head(passes) = "process" /\ passes \in Agendas
      BY <1>1, <1>2 DEF Process, Pass, GraphInv
    <3>2. passes = << "process" >>
      BY <3>1 DEF Agendas
    <3> QED  BY <1>2, <3>2 DEF Process, results, Requests
  <2> QED  BY <2>1 DEF ResultsInv, NoReturn
<1>3. ASSUME UNCHANGED << edges, live, passes, idom, ipdom >>
      PROVE  ResultsInv'
  <2>1. CASE passes = << "process" >>
    BY <1>3, <2>1 DEF ResultsInv, NoReturn
  <2>2. CASE passes # << "process" >>
    BY <1>3, <2>2, ResultsStay DEF ResultsInv
  <2> QED  BY <2>1, <2>2
<1>4. ASSUME UNCHANGED << edges, live, idom, ipdom >>, passes' # << "process" >>
      PROVE  ResultsInv'
  BY <1>4, ResultsStay DEF ResultsInv
<1>5. CASE UNCHANGED graphVars \/ Visit \/ Leave \/ Sweep
  <2>1. UNCHANGED << edges, live, passes, idom, ipdom >>
    BY <1>5 DEF graphVars, results, Visit, Leave, Sweep
  <2> QED  BY <1>3, <2>1
<1>6. CASE SearchEnds
  <2>1. UNCHANGED << edges, live, idom >> /\ passes \in Agendas /\ Going
        /\ path = << >> /\ Ahead = {}
    BY <1>1, <1>6 DEF SearchEnds, Searching, Going, Done, GraphInv
  <2>2. CASE ~ NextPass
    <3>1. UNCHANGED << passes, ipdom >>
      BY <1>6, <2>2 DEF SearchEnds
    <3> QED  BY <1>3, <2>1, <3>1
  <2>3. CASE NextPass
    <3>1. passes' # << "process" >>
      BY <2>1, <2>3, AgendaEnds DEF NextPass
    <3>2. CASE ~ Pass("postdominators")
      <4>1. ipdom' = ipdom
        BY <1>6, <3>2 DEF SearchEnds
      <4> QED  BY <1>4, <2>1, <3>1, <4>1
    <3>3. CASE Pass("postdominators")
      <4>1. ~ Reducible \/ order # << >>
        <5>1. Settles
          BY <1>1, <2>1 DEF GraphInv, Settles, Going, Analyses
        <5>2. Listed /\ Whole
          BY <1>1, <2>1, SearchedWhole DEF SearchInv
        <5> QED  BY <1>1, <3>3, <5>1, <5>2, AllFound
      <4>2. order # << >> => passes' = passes
        BY <1>6, <3>3 DEF SearchEnds, Pass
      <4>3. passes' # passes
        BY <2>1, <2>3, <3>3, AgendaEnds DEF NextPass, Pass
      <4>4. ~ Reducible
        BY <4>1, <4>2, <4>3
      <4> QED  BY <2>1, <3>1, <4>4, ResultsStay DEF ResultsInv
    <3> QED  BY <3>2, <3>3
  <2> QED  BY <2>2, <2>3
<1>7. CASE SweepEnds
  <2>1. UNCHANGED << edges, live >> /\ tree # << >>
    BY <1>7 DEF SweepEnds
  <2>2. CASE changed
    <3>1. UNCHANGED << passes, idom, ipdom >>
      BY <1>7, <2>2 DEF SweepEnds
    <3> QED  BY <1>3, <2>1, <3>1
  <2>3. CASE ~ changed
    <3>1. /\ NextPass
          /\ idom' = IF Pass("dominators") THEN Immediate ELSE idom
          /\ ipdom' = IF Pass("postdominators") THEN Immediate ELSE ipdom
      BY <1>7, <2>3 DEF SweepEnds
    <3>2. Going /\ passes \in Agendas
      BY <1>1, <2>1 DEF GraphInv, Going, Pass, Analyses
    <3>3. passes' # << "process" >>
      BY <3>1, <3>2, AgendaEnds DEF NextPass
    <3>4. CASE Pass("dominators")
      <4>1. ipdom' = ipdom
        BY <3>1, <3>4 DEF Pass
      <4>2. DominatorsHold' /\ Immediately(idom)'
        BY <1>7, <2>3, <3>4, DominatorsFound DEF ResultsInv
      <4> QED  BY <2>1, <3>3, <4>1, <4>2, ResultsStay DEF ResultsInv
    <3>5. CASE Pass("postdominators")
      <4>1. idom' = idom
        BY <3>1, <3>5 DEF Pass
      <4>2. Reducible => PostDominatorsHold'
        BY <1>7, <2>3, <3>5, PostDominatorsFound
      <4> QED  BY <2>1, <3>3, <4>1, <4>2, ResultsStay DEF ResultsInv
    <3> QED  BY <1>1, <2>1, <3>4, <3>5 DEF GraphInv
  <2> QED  BY <2>2, <2>3
<1>8. CASE FreshVars \/ Write
  <2>1. UNCHANGED << edges, live, idom, ipdom >> /\ passes' # << "process" >>
    BY <1>8 DEF FreshVars, Write, Continue, results
  <2> QED  BY <1>4, <2>1
<1>9. GraphStep => Process \/ SearchEnds \/ Sweep \/ SweepEnds \/ Visit \/ Leave
  BY DEF GraphStep
<1>10. SsaStep => FreshVars \/ UNCHANGED graphVars
  BY DEF SsaStep, FixRead, FixInput, Run, Jump
<1>11. LifetimeStep => Write \/ UNCHANGED graphVars
  BY DEF LifetimeStep, ComputeLiveMap, ComputeDeadMaps, Follow
<1> QED  BY <1>2, <1>5, <1>6, <1>7, <1>8, <1>9, <1>10, <1>11 DEF Next, vars

AnalysesInv == FlowInv /\ Planted /\ TreeInv /\ ResultsInv

LEMMA AnalysesInitially == Init => AnalysesInv
<1>1. Init => TreeInv
  BY DEF Init, GraphInit, TreeInv
<1> QED  BY <1>1, FlowInitially, ResultsInitially DEF AnalysesInv

LEMMA AnalysesPreserved == AnalysesInv /\ [Next]_vars => AnalysesInv'
BY FlowPreserved, PlantedStays, TreePreserved, ResultsPreserved DEF AnalysesInv

(* The results of the graph's analyses are what their definitions ask for, *)
(* of every graph and in whatever order sets are gone through.             *)
THEOREM AnalysesAreRight == Spec => []AnalysesRight
<1>1. AnalysesInv => AnalysesRight
  <2>1. FlowInv => OrderRight
    BY DEF FlowInv, OrderInv, Topological, OrderRight
  <2>2. ResultsInv => DominatorsRight /\ PostDominatorsRight
    BY DEF ResultsInv, DominatorsHold, PostDominatorsHold, Blockers, DominatorsRight,
           PostDominatorsRight
  <2> QED  BY <2>1, <2>2, FlowGivesLoops DEF AnalysesInv, AnalysesRight
<1> QED  BY <1>1, AnalysesInitially, AnalysesPreserved, PTL DEF Spec
=============================================================================
