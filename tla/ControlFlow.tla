----------------------------- MODULE ControlFlow -----------------------------
(***************************************************************************)
(* CFGraph (numba_cuda/core/controlflow.py): the analyses of a function's  *)
(* control-flow graph.  Each is computed when it is first asked for, from  *)
(* others, by a depth-first search with an explicit stack; dominators then *)
(* sweep over the nodes until nothing changes.                             *)
(*                                                                         *)
(* Sets of nodes are iterated in no particular order: a search takes any   *)
(* node that is next.  A search that finds back edges, sorts the nodes or  *)
(* prepares dominators visits the same way, so one pair of actions serves. *)
(***************************************************************************)
EXTENDS Integers, FiniteSets, Sequences, SequencesExt, FiniteSetsExt, TLC

CONSTANTS
    Nodes,          \* the blocks of a function
    Entry,          \* the first
    MaxSuccs,       \* bound: targets of a terminator
    Virtual,        \* the root above the roots of a dominator tree
    None

ASSUME GraphAssumption ==
    /\ Entry \in Nodes /\ IsFiniteSet(Nodes)
    /\ MaxSuccs \in Nat
    /\ Virtual \notin Nodes /\ None \notin Nodes /\ None # Virtual
    /\ \A E \in SUBSET (Nodes \X Nodes) : None # E

VARIABLES
    edges, live,    \* the graph, and its nodes but the dead ones
    passes,         \* the analyses still to do, the present one first
    path,           \* the search's path from a root
    order,          \* the nodes it has left: the post-order
    sweep,          \* the nodes left of a sweep
    changed,        \* whether the sweep has changed anything
    tree,           \* idom while it is computed
    backEdges, topo, idom, ipdom        \* results, None until they are known

results   == << backEdges, topo, idom, ipdom >>
graphVars == << edges, live, passes, path, order, sweep, changed, tree, results >>

Succs(n) == {d \in Nodes : << n, d >> \in edges}
Preds(n) == {s \in Nodes : << s, n >> \in edges}

(* What the search from start reaches when it does not enter avoided       *)
Reach(start, avoided) ==
    LET grow[S \in SUBSET Nodes] ==
          LET T == S \cup {d \in Nodes \ avoided : \E s \in S : << s, d >> \in edges}
          IN  IF T = S THEN S ELSE grow[T]
    IN  grow[start \ avoided]

(* A function's first block is not the target of a jump.                   *)
Graphs == {g \in SUBSET (Nodes \X (Nodes \ {Entry})) :
             \A n \in Nodes : Cardinality({e \in g : e[1] = n}) <= MaxSuccs}

Analyses == {"back", "topo", "dominators", "postdominators"}

(* What the users of the graph ask for, with what that depends on          *)
Requests == { << >>, << "back", "topo" >>, << "back", "postdominators" >>, << "dominators" >> }

GraphInit ==
    /\ edges \in Graphs /\ live = {}
    /\ passes = << "process" >>
    /\ path = << >> /\ order = << >>
    /\ sweep = << >> /\ changed = FALSE /\ tree = << >>
    /\ backEdges = None /\ topo = None /\ idom = None /\ ipdom = None

Pass(p) == passes # << >> /\ Head(passes) = p
Done    == passes = << >>

(* A user of the results goes on with them.                                *)
Continue(user) == Done /\ passes' = << user >>

(* process(): nodes that the entry does not reach go, with their edges.    *)
Process ==
    /\ Pass("process")
    /\ LET alive == Reach({Entry}, {})
       IN  /\ live' = alive
           /\ edges' = {e \in edges : e[1] \in alive}
    /\ passes' \in Requests
    /\ UNCHANGED << path, order, sweep, changed, tree, results >>

-----------------------------------------------------------------------------
(* Loops                                                                   *)

Headers == {e[2] : e \in backEdges}

(* The bodies of a header's back edges, merged: what reaches their sources *)
(* without passing the header                                              *)
Body(h) ==
    LET grow[S \in SUBSET Nodes] ==
          LET T == S \cup UNION {Preds(n) : n \in S \ {h}}
          IN  IF T = S THEN S ELSE grow[T]
    IN  grow[{h} \cup {e[1] : e \in {b \in backEdges : b[2] = h}}]

Entries(h) == (UNION {Preds(n) : n \in Body(h)}) \ Body(h)
Exits(h)   == (UNION {Succs(n) : n \in Body(h)}) \ Body(h)

ExitPoints == {n \in live : Succs(n) = {}}

(* Where post-dominators start: exit points, and the bodies of loops that  *)
(* never exit                                                              *)
PostRoots == ExitPoints \cup UNION {Body(h) : h \in {g \in Headers : Exits(g) = {}}}

-----------------------------------------------------------------------------
(* The search                                                              *)

Roots == IF Pass("postdominators") THEN PostRoots ELSE {Entry}

Forward(n) == {d \in Succs(n) : << n, d >> \notin backEdges}

Onward(n) == CASE Pass("postdominators") -> Preds(n)
               [] Pass("topo")           -> Forward(n)
               [] OTHER                  -> Succs(n)

Searching == ~Done /\ Head(passes) \in Analyses /\ tree = << >>
Seen      == ToSet(path) \cup ToSet(order)
Ahead     == (IF path = << >> THEN Roots ELSE Onward(Last(path))) \ Seen

Visit ==
    /\ Searching
    /\ \E n \in Ahead : path' = Append(path, n)
    /\ UNCHANGED << edges, live, passes, order, sweep, changed, tree, results >>

(* Mutated form: an edge to any node that was seen is a back edge.         *)
MutantClosing(n) == {n} \X (Succs(n) \cap Seen)

(* The edges from the end of the path back to the path                     *)
Closing(n) == {n} \X (Succs(n) \cap ToSet(path))

Leave ==
    /\ Searching /\ path # << >> /\ Ahead = {}
    /\ path' = Front(path)
    /\ order' = Append(order, Last(path))
    /\ backEdges' = IF Pass("back")
                    THEN (IF backEdges = None THEN {} ELSE backEdges) \cup Closing(Last(path))
                    ELSE backEdges
    /\ UNCHANGED << edges, live, passes, sweep, changed, tree, topo, idom, ipdom >>

NextPass ==
    /\ passes' = Tail(passes)
    /\ order' = << >> /\ sweep' = << >> /\ changed' = FALSE /\ tree' = << >>

SearchEnds ==
    /\ Searching /\ path = << >> /\ Ahead = {}
    /\ IF Head(passes) \in {"back", "topo"} \/ order = << >>
       THEN /\ NextPass
            /\ topo' = IF Pass("topo") THEN Reverse(order) ELSE topo
            /\ ipdom' = IF Pass("postdominators") THEN << >> ELSE ipdom
       ELSE /\ sweep' = Reverse(order) /\ changed' = FALSE
            /\ tree' = [n \in {Virtual} |-> Virtual]
            /\ UNCHANGED << passes, order, topo, ipdom >>
    /\ UNCHANGED << edges, live, path, backEdges, idom >>

-----------------------------------------------------------------------------
(* Dominators                                                              *)

Index(n) == IF n = Virtual THEN Len(order) + 1 ELSE CHOOSE i \in DOMAIN order : order[i] = n

(* intersect()                                                             *)
Meet(u, v) ==
    LET meet[p \in (DOMAIN tree) \X (DOMAIN tree)] ==
          IF p[1] = p[2] THEN p[1]
          ELSE IF Index(p[1]) < Index(p[2]) THEN meet[<< tree[p[1]], p[2] >>]
          ELSE meet[<< p[1], tree[p[2]] >>]
    IN  meet[<< u, v >>]

Against(u) == (IF Pass("dominators") THEN Preds(u) ELSE Succs(u)) \cap DOMAIN tree

(* The nodes that u hangs below: those before it that have a place in the  *)
(* tree, and the virtual root above a root.                                *)
Above(u) == Against(u) \cup (IF u \in Roots THEN {Virtual} ELSE {})

NewDom(u) == LET v == CHOOSE v \in Above(u) : TRUE
             IN  FoldSet(Meet, v, Above(u) \ {v})

Sweep ==
    /\ sweep # << >>
    /\ LET u == Head(sweep)
       IN  /\ tree' = [n \in {u} \cup DOMAIN tree |-> IF n = u THEN NewDom(u) ELSE tree[n]]
           /\ changed' = (changed \/ tree' # tree)
    /\ sweep' = Tail(sweep)
    /\ UNCHANGED << edges, live, passes, path, order, results >>

(* A root dominates itself; what only the virtual root dominates has none. *)
Immediate == [u \in ToSet(order) |->
                IF u \in Roots THEN u ELSE IF tree[u] = Virtual THEN None ELSE tree[u]]

SweepEnds ==
    /\ tree # << >> /\ sweep = << >>
    /\ IF changed
       THEN /\ sweep' = Reverse(order) /\ changed' = FALSE
            /\ UNCHANGED << passes, order, tree, idom, ipdom >>
       ELSE /\ NextPass
            /\ idom'  = IF Pass("dominators") THEN Immediate ELSE idom
            /\ ipdom' = IF Pass("postdominators") THEN Immediate ELSE ipdom
    /\ UNCHANGED << edges, live, path, backEdges, topo >>

GraphStep == Process \/ Visit \/ Leave \/ SearchEnds \/ Sweep \/ SweepEnds

-----------------------------------------------------------------------------
(* What is read off the results                                            *)

(* _dominator_sets: the chain of immediate dominators                      *)
Chain(dom, n) ==
    LET chain[m \in live] ==
          {m} \cup IF dom[m] \in {m, None} THEN {} ELSE chain[dom[m]]
    IN  IF n \in DOMAIN dom THEN chain[n] ELSE live

(* dominance_frontier()                                                    *)
Climb(u, p) ==
    LET climb[v \in live] == IF v = idom[u] THEN {} ELSE {v} \cup climb[idom[v]]
    IN  climb[p]

Frontier(n) == {u \in live : /\ Cardinality(Preds(u)) >= 2
                             /\ \E p \in Preds(u) : n \in Climb(u, p)}

-----------------------------------------------------------------------------
(* Properties                                                              *)

(* The textbook's dominance: what the entry reaches only through d         *)
Dominates(d, n) == n \notin Reach({Entry}, {d})

Backward == {e \in edges : Dominates(e[2], e[1])}

(* Without the edges back to a dominator the graph has no cycle.           *)
Reducible ==
    LET shrink[S \in SUBSET Nodes] ==
          LET T == {n \in S : \E s \in S : << s, n >> \in edges \ Backward}
          IN  IF T = S THEN S ELSE shrink[T]
    IN  shrink[live] = {}

(* Nodes that no walk leaves for good                                      *)
Settled == {n \in live : \A m \in Reach({n}, {}) : n \in Reach({m}, {})}

(* In a reducible graph the back edges are those to a dominator, in        *)
(* whatever order the search went, and loops are nested or apart, so that  *)
(* in_loops(), which sorts by size, goes from the inside out.              *)
LoopsRight ==
    Done /\ backEdges # None /\ Reducible =>
        /\ backEdges = Backward
        /\ \A g, h \in Headers :
             g # h /\ Body(g) \cap Body(h) # {} =>
               /\ Body(g) \subseteq Body(h) \/ Body(h) \subseteq Body(g)
               /\ Cardinality(Body(g)) # Cardinality(Body(h))

(* topo_order() has each live node once, and after its predecessors but    *)
(* for back edges: descendents() finds what it looks up.                   *)
OrderRight ==
    Done /\ topo # None =>
        /\ ToSet(topo) = live /\ IsInjective(topo)
        /\ \A i, j \in DOMAIN topo : << topo[i], topo[j] >> \in edges \ backEdges => i < j

(* dominators() are the textbook's, and dominance_frontier() those where   *)
(* dominance ends, also in an irreducible graph.                           *)
DominatorsRight ==
    Done /\ idom # None => \A n \in live :
        /\ Chain(idom, n) = {d \in live : Dominates(d, n)}
        /\ Frontier(n) = {u \in live : /\ \E p \in Preds(u) : Dominates(n, p)
                                       /\ ~(u # n /\ Dominates(n, u))}

(* post_dominators(), in a reducible graph: what every path to where the   *)
(* function ends, or stays for ever, goes through; every block has them.   *)
PostDominatorsRight ==
    Done /\ ipdom # None /\ Reducible =>
        /\ DOMAIN ipdom = live
        /\ \A n \in live :
             Chain(ipdom, n) =
               IF n \in Settled THEN {n}
               ELSE {p \in live : Reach({n}, {p}) \cap (Settled \ {p}) = {}}

(* The analyses give what their definitions ask for.                       *)
AnalysesRight == LoopsRight /\ OrderRight /\ DominatorsRight /\ PostDominatorsRight

GraphTypeOK ==
    /\ edges \subseteq Nodes \X Nodes /\ live \subseteq Nodes
    /\ path \in Seq(Nodes) /\ order \in Seq(Nodes) /\ sweep \in Seq(Nodes)
    /\ changed \in BOOLEAN
    /\ DOMAIN tree \subseteq Nodes \cup {Virtual}
    /\ backEdges = None \/ backEdges \subseteq edges
=============================================================================
