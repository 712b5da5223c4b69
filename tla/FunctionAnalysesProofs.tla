------------------------ MODULE FunctionAnalysesProofs ------------------------
(***************************************************************************)
(* What the users of the control-flow graph rely on, in any function with  *)
(* finitely many blocks.                                                   *)
(*                                                                         *)
(* SSA reconstruction: a read finds the value that the variable was last   *)
(* given, on whatever path a run takes.  A read is given the definition of *)
(* the nearest of its dominators that has one; phi nodes belong where      *)
(* dominance ends, so everywhere else all predecessors find the same.      *)
(*                                                                         *)
(* Lifetimes: no read finds the variable deleted, it is not kept where     *)
(* nothing reads it, and the analysis rejects a function only for a loop   *)
(* without an exit.                                                        *)
(***************************************************************************)
EXTENDS ControlFlowProofs

-----------------------------------------------------------------------------
(* Phi locations                                                           *)

(* What the walk along dominators stops at                                 *)
Stops == assigns \cup phiLocations

(* Where the dominance of a definition ends, a phi node is placed.         *)
Joined == Stops \subseteq live /\ \A n \in Stops : Frontier(n) \subseteq phiLocations

LEMMA IteratedIsClosed ==
  ASSUME live \subseteq Nodes, NEW b
  PROVE  /\ IteratedFrontier(b) \in SUBSET live /\ Frontier(b) \subseteq IteratedFrontier(b)
         /\ \A n \in IteratedFrontier(b) : Frontier(n) \subseteq IteratedFrontier(b)
<1> DEFINE next(S) == S \cup UNION {Frontier(n) : n \in S}
           g == CHOOSE f : f = [S \in SUBSET live |-> IF next(S) = S THEN S ELSE f[next(S)]]
<1>1. IteratedFrontier(b) = g[Frontier(b)]
  BY DEF IteratedFrontier
<1>2. \A n : Frontier(n) \in SUBSET live
  BY DEF Frontier
<1>3. PICK F : F = [T \in SUBSET live |-> {u \in live : \E n \in T : u \in Frontier(n)}]
  OBVIOUS
<1>4. F \in [SUBSET live -> SUBSET live] /\ Monotone(F, live)
  BY <1>3 DEF Monotone
<1>5. \A T \in SUBSET live : next(T) = T \cup F[T]
  <2> TAKE T \in SUBSET live
  <2>1. F[T] = {u \in live : \E n \in T : u \in Frontier(n)}
    BY <1>3
  <2>2. UNION {Frontier(n) : n \in T} = {u \in live : \E n \in T : u \in Frontier(n)}
    BY <1>2
  <2> QED  BY <2>1, <2>2
<1> HIDE DEF next
<1>6. ASSUME NEW f
      PROVE  Grows(f, F, live)
             <=> f = [T \in SUBSET live |-> IF next(T) = T THEN T ELSE f[next(T)]]
  BY <1>5 DEF Grows
<1>7. Grows(g, F, live)
  <2>1. \E f : Grows(f, F, live)
    BY <1>4, GrowsExists
  <2> QED  BY <1>6, <2>1
<1> HIDE DEF g
<1>8. IsFiniteSet(live)
  BY FS_Subset, GraphAssumption
<1>9. PICK L : L = g[Frontier(b)]
  OBVIOUS
<1>10. Least(L, Frontier(b), F, live)
  BY <1>2, <1>4, <1>7, <1>8, <1>9, GrowsToLeast
<1>11. L \in SUBSET live /\ Frontier(b) \subseteq L /\ F[L] \subseteq L
  BY <1>10 DEF Least
<1>12. \A n \in L : Frontier(n) \subseteq F[L]
  BY <1>2, <1>3, <1>11
<1> QED  BY <1>1, <1>9, <1>11, <1>12

LEMMA FreshJoins ==
  ASSUME live \subseteq Nodes, FreshVars
  PROVE  Joined' /\ assigns' \subseteq live /\ phiLocations' \subseteq live
<1>1. PICK defs \in SUBSET live : assigns' = defs /\ phiLocations' = PhiLocations(defs)
  BY DEF FreshVars
<1>2. UNCHANGED << edges, live, idom >>
  BY DEF FreshVars, results
<1>3. \A n : Frontier(n)' = Frontier(n)
  <2>1. \A n : Preds(n)' = Preds(n)
    BY <1>2 DEF Preds
  <2>2. \A u, p : Climb(u, p)' = Climb(u, p)
    BY <1>2 DEF Climb
  <2> QED  BY <1>2, <2>1, <2>2 DEF Frontier
<1>4. \A u : u \in PhiLocations(defs) <=> \E b \in defs : u \in IteratedFrontier(b)
  BY DEF PhiLocations
<1>5. phiLocations' \subseteq live
  BY <1>1, <1>4, IteratedIsClosed
<1>6. \A n \in assigns' \cup phiLocations' : Frontier(n) \subseteq phiLocations'
  BY <1>1, <1>4, IteratedIsClosed
<1> QED  BY <1>1, <1>2, <1>3, <1>5, <1>6 DEF Joined, Stops

-----------------------------------------------------------------------------
(* The walk                                                                *)

(* The definition at the last stop among the dominators of b               *)
Hits(b)  == {d \in Stops : Cut(d, b)}
Nearest(b) == CHOOSE y \in Hits(b) : \A z \in Hits(b) : Cut(z, y)
Found(b) ==
    IF Hits(b) = {} THEN Undefined
    ELSE IF Nearest(b) \in assigns THEN Def(Nearest(b)) ELSE Phi(Nearest(b))

LEMMA FoundAt ==
  ASSUME Settles, Stops \subseteq live, NEW b \in live
  PROVE  /\ b \in Stops => Found(b) = IF b \in assigns THEN Def(b) ELSE Phi(b)
         /\ Found(b) # Def(b) \/ b \in assigns
<1>1. Hits(b) \subseteq live /\ \A z \in Hits(b) : Cut(z, b)
  BY DEF Hits
<1>2. ASSUME b \in Stops
      PROVE  Nearest(b) = b /\ Hits(b) # {}
  <2>1. b \in Hits(b)
    BY <1>2, CutSelf DEF Hits
  <2>2. ASSUME NEW y \in Hits(b), \A z \in Hits(b) : Cut(z, y)
        PROVE  y = b
    BY <1>1, <2>1, <2>2, CutApart
  <2>3. \A z \in Hits(b) : Cut(z, b)
    BY <1>1
  <2>4. PICK y : y = Nearest(b)
    OBVIOUS
  <2>5. y \in Hits(b) /\ \A z \in Hits(b) : Cut(z, y)
    BY <2>1, <2>3, <2>4 DEF Nearest
  <2> QED  BY <2>1, <2>2, <2>4, <2>5
<1>3. Undefined # Def(b) /\ \A y : Phi(y) # Def(b) /\ (Def(y) = Def(b) => y = b)
  <2>1. Def(b) \in Definitions
    BY DEF Def, Definitions, Settles
  <2>2. \A y : << "def", b >>[1] = "def" /\ << "phi", y >>[1] = "phi"
               /\ << "def", b >>[2] = b /\ << "def", y >>[2] = y
    OBVIOUS
  <2> QED  BY <2>1, <2>2, UndefinedAssumption DEF Def, Phi
<1> QED  BY <1>2, <1>3 DEF Found

LEMMA FoundAbove ==
  ASSUME Settles, Immediately(idom), Stops \subseteq live, NEW b \in live \ {Entry}, b \notin Stops
  PROVE  Found(b) = Found(idom[b])
<1>1. \A d \in live : Cut(d, b) <=> d = b \/ Cut(d, idom[b])
  BY DEF Immediately
<1>2. idom[b] \in live /\ idom[b] # b
  BY DEF Immediately
<1>3. Cut(idom[b], b)
  BY <1>1, <1>2, CutSelf
<1>4. Hits(b) = Hits(idom[b])
  BY <1>1 DEF Hits
<1> QED  BY <1>4 DEF Found, Nearest

LEMMA FoundNot ==
  ASSUME Settles, Entry \notin Stops
  PROVE  Found(Entry) = Undefined
BY CutEntry DEF Found, Hits

Walks(w) == w = [b \in live |->
    IF b \in assigns THEN Def(b)
    ELSE IF b \in phiLocations THEN Phi(b)
    ELSE IF idom[b] = b THEN Undefined
    ELSE w[idom[b]]]

LEMMA FromBottomIs ==
  ASSUME Settles, Immediately(idom), Stops \subseteq live, NEW n \in live
  PROVE  FromBottom(n) = Found(n)
<1> DEFINE walk == CHOOSE w : w = [b \in live |->
                     IF b \in assigns THEN Def(b)
                     ELSE IF b \in phiLocations THEN Phi(b)
                     ELSE IF idom[b] = b THEN Undefined
                     ELSE w[idom[b]]]
<1>1. FromBottom(n) = walk[n]
  BY DEF FromBottom
<1>2. PICK depth \in [live -> Nat] :
        /\ idom[Entry] = Entry
        /\ \A b \in live \ {Entry} : idom[b] \in live /\ depth[idom[b]] < depth[b]
  BY DEF Immediately
<1>3. \A b \in live \ {Entry} : idom[b] # b
  <2> TAKE b \in live \ {Entry}
  <2>1. depth[idom[b]] < depth[b] /\ depth[b] \in Nat
    BY <1>2
  <2> QED  BY <2>1
<1>4. ASSUME NEW b \in live
      PROVE  Found(b) = IF b \in assigns THEN Def(b)
                        ELSE IF b \in phiLocations THEN Phi(b)
                        ELSE IF idom[b] = b THEN Undefined
                        ELSE Found(idom[b])
  <2>1. CASE b \in Stops
    BY <2>1, FoundAt DEF Stops
  <2>2. CASE b \notin Stops /\ b = Entry
    BY <1>2, <2>2, FoundNot DEF Stops
  <2>3. CASE b \notin Stops /\ b # Entry
    BY <1>3, <2>3, FoundAbove DEF Stops
  <2> QED  BY <2>1, <2>2, <2>3
<1>5. PICK f : f = [b \in live |-> Found(b)]
  OBVIOUS
<1>6. Walks(f)
  <2>1. ASSUME NEW b \in live
        PROVE  f[b] = IF b \in assigns THEN Def(b)
                      ELSE IF b \in phiLocations THEN Phi(b)
                      ELSE IF idom[b] = b THEN Undefined
                      ELSE f[idom[b]]
    BY <1>2, <1>4, <1>5
  <2>2. f = [b \in live |-> f[b]]
    BY <1>5
  <2> QED  BY <2>1, <2>2 DEF Walks
<1>7. Walks(walk)
  BY <1>6 DEF Walks
<1> HIDE DEF walk
<1>8. PICK Wrong \in SUBSET live : Wrong = {b \in live : walk[b] # Found(b)}
  OBVIOUS
<1>9. SUFFICES ASSUME Wrong # {} PROVE FALSE
  BY <1>1, <1>8
<1>10. PICK b \in Wrong : \A c \in Wrong : depth[b] <= depth[c]
  BY <1>9, LowestIs
<1>11. walk[b] = IF b \in assigns THEN Def(b)
                 ELSE IF b \in phiLocations THEN Phi(b)
                 ELSE IF idom[b] = b THEN Undefined
                 ELSE walk[idom[b]]
  BY <1>7 DEF Walks
<1>12. idom[b] # b /\ walk[idom[b]] # Found(idom[b])
  BY <1>4, <1>8, <1>11
<1>13. idom[b] \in Wrong /\ depth[idom[b]] < depth[b] /\ depth[b] \in Nat /\ depth[idom[b]] \in Nat
  BY <1>2, <1>8, <1>12
<1> QED  BY <1>10, <1>13

(* _walk_def_chain: at the bottom of a block is its own definition or that *)
(* at its top, and that is the nearest of the dominators.                  *)
LEMMA FromTopIs ==
  ASSUME Settles, Immediately(idom), Stops \subseteq live, NEW b \in live
  PROVE  /\ FromBottom(b) = IF b \in assigns THEN Def(b) ELSE FromTop(b)
         /\ b \in phiLocations => FromTop(b) = Phi(b)
         /\ b # Entry /\ b \notin phiLocations => FromTop(b) = Found(idom[b])
         /\ b \notin assigns => FromBottom(b) # Def(b)
<1>1. FromBottom(b) = Found(b) /\ Entry \in live
  BY FromBottomIs DEF Settles, Reached
<1>2. idom[Entry] = Entry /\ (b # Entry => idom[b] \in live /\ idom[b] # b)
  <2>1. PICK depth \in [live -> Nat] :
          /\ idom[Entry] = Entry
          /\ \A c \in live \ {Entry} : idom[c] \in live /\ depth[idom[c]] < depth[c]
    BY DEF Immediately
  <2>2. ASSUME b # Entry
        PROVE  idom[b] \in live /\ idom[b] # b
    <3>1. depth[idom[b]] < depth[b] /\ depth[b] \in Nat /\ idom[b] \in live
      BY <2>1, <2>2
    <3> QED  BY <3>1
  <2> QED  BY <2>1, <2>2
<1>3. b # Entry => FromBottom(idom[b]) = Found(idom[b])
  BY <1>2, FromBottomIs
<1>4. CASE b \in phiLocations
  BY <1>1, <1>4, FoundAt DEF FromTop, Stops
<1>5. CASE b \notin phiLocations /\ b = Entry
  <2>1. FromTop(b) = Undefined
    BY <1>2, <1>5 DEF FromTop
  <2>2. b \notin assigns => Found(b) = Undefined
    BY <1>5, FoundNot DEF Stops
  <2> QED  BY <1>1, <1>5, <2>1, <2>2, FoundAt DEF Stops
<1>6. CASE b \notin phiLocations /\ b # Entry
  <2>1. FromTop(b) = Found(idom[b])
    BY <1>2, <1>3, <1>6 DEF FromTop
  <2>2. b \notin assigns => Found(b) = Found(idom[b])
    BY <1>6, FoundAbove DEF Stops
  <2> QED  BY <1>1, <1>6, <2>1, <2>2, FoundAt DEF Stops
<1> QED  BY <1>4, <1>5, <1>6

(* Where no phi node belongs, every predecessor has the same definition.   *)
LEMMA TopIsBottom ==
  ASSUME Settles, DominatorsHold, Immediately(idom), Joined, NoReturn,
         NEW p \in live, NEW b \in Succs(p), b \notin phiLocations
  PROVE  FromTop(b) = FromBottom(p)
<1>1. b \in live \ {Entry} /\ p \in Preds(b)
  BY DEF Succs, Preds, NoReturn, Settles, Reached
<1>2. /\ idom[b] \in live /\ \A d \in live : Cut(d, b) <=> d = b \/ Cut(d, idom[b])
      /\ idom[b] # b
  <2>1. PICK depth \in [live -> Nat] :
          \A c \in live \ {Entry} : /\ idom[c] \in live /\ depth[idom[c]] < depth[c]
                                    /\ \A d \in live : Cut(d, c) <=> d = c \/ Cut(d, idom[c])
    BY DEF Immediately
  <2>2. depth[idom[b]] < depth[b] /\ depth[b] \in Nat
    BY <1>1, <2>1
  <2> QED  BY <1>1, <2>1, <2>2
<1>3. Stops \subseteq live
  BY DEF Joined
<1>4. ASSUME NEW d \in Stops, Cut(d, p)
      PROVE  Cut(d, idom[b])
  <2>1. d \in live /\ Dominates(d, p) /\ b \notin Frontier(d)
    BY <1>3, <1>4, DominatesIsCut DEF Joined
  <2>2. Frontier(d) = {u \in live : /\ \E q \in Preds(u) : Dominates(d, q)
                                    /\ ~(u # d /\ Dominates(d, u))}
    BY <2>1 DEF DominatorsHold
  <2>3. b # d /\ Dominates(d, b)
    BY <1>1, <2>1, <2>2
  <2> QED  BY <1>2, <2>1, <2>3, DominatesIsCut
<1>5. ASSUME NEW d \in Stops, Cut(d, idom[b])
      PROVE  Cut(d, p)
  <2>1. d \in live /\ Cut(d, b) /\ Cut(idom[b], b)
    BY <1>2, <1>3, <1>5, CutSelf
  <2>2. d # b
    BY <1>1, <1>2, <1>5, <2>1, CutApart
  <2> QED  BY <2>1, <2>2, CutBefore
<1>6. Hits(p) = Hits(idom[b])
  BY <1>4, <1>5 DEF Hits
<1>7. Found(p) = Found(idom[b])
  BY <1>6 DEF Found, Nearest
<1> QED  BY <1>1, <1>2, <1>3, <1>7, FromTopIs, FromBottomIs

-----------------------------------------------------------------------------
(* Rewriting                                                               *)

(* A phi node that is named has been inserted.                             *)
Kept(d) == \A x \in live : d = Phi(x) => x \in phis

(* Reads and phi nodes have what the walk finds, but for those still to do. *)
Fixed == \A b \in reads \ left :
    b \in DOMAIN fixed /\ fixed[b] = FromTop(b) /\ Kept(FromTop(b))
Wired == \A t \in phis : \A p \in Preds(t) :
    \/ << t, p >> \in pending
    \/ /\ << t, p >> \in DOMAIN incoming /\ incoming[<< t, p >>] = FromBottom(p)
       /\ Kept(FromBottom(p))

(* The exports of a block that come first in it                            *)
Early(b) == (Succs(b) \cap phis) \ ExportedLast(b)

(* On entry to a block, what its top finds has the value and, the first    *)
(* exports being made, so have their phi nodes.                            *)
Holding ==
    /\ Kept(FromTop(at)) => FromTop(at) \in current
    /\ \A t \in Early(at) : Phi(t) \in current

SsaInv ==
    /\ stage \in {"analysis", "rewrite", "run"}
    /\ stage = "analysis" => fixed = << >> /\ phis = {} /\ pending = {} /\ incoming = << >>
    /\ stage # "analysis" =>
         passes = << "ssa" >> /\ idom # None /\ Joined /\ Fixed /\ Wired
    /\ stage # "run" => ~ assigned
    /\ stage = "run" => left = {} /\ pending = {} /\ at \in live /\ (assigned => Holding)

LEMMA Distinct ==
  ASSUME NEW b, NEW t
  PROVE  Def(b) # Phi(t) /\ \A c : Phi(c) = Phi(t) => c = t
<1>1. << "def", b >>[1] = "def" /\ << "phi", t >>[1] = "phi" /\ << "phi", t >>[2] = t
      /\ \A c : << "phi", c >>[2] = c
  OBVIOUS
<1> QED  BY <1>1 DEF Def, Phi

LEMMA InsertedKeeps ==
  ASSUME NEW d, NEW rest, Inserted(d, rest), live \subseteq Nodes
  PROVE  /\ phis \subseteq phis' /\ rest \subseteq pending'
         /\ \A t \in phis' \ phis : \A p \in Preds(t) : << t, p >> \in pending'
         /\ \A x \in live : d = Phi(x) => x \in phis'
<1>1. ASSUME NEW x \in live, d = Phi(x)
      PROVE  d # Undefined /\ d[1] = "phi" /\ d[2] = x
  <2>1. d \in Definitions /\ d[1] = "phi" /\ d[2] = x
    BY <1>1 DEF Phi, Definitions
  <2> QED  BY <2>1, UndefinedAssumption
<1>2. CASE d # Undefined /\ d[1] = "phi" /\ d[2] \notin phis
  <2>1. phis' = phis \cup {d[2]} /\ pending' = rest \cup ({d[2]} \X Preds(d[2]))
    BY <1>2 DEF Inserted
  <2>2. PICK t : t = d[2]
    OBVIOUS
  <2>3. \A p \in Preds(t) : << t, p >> \in {t} \X Preds(t)
    OBVIOUS
  <2> QED  BY <1>1, <2>1, <2>2, <2>3
<1>3. CASE ~ (d # Undefined /\ d[1] = "phi" /\ d[2] \notin phis)
  <2>1. phis' = phis /\ pending' = rest
    BY <1>3 DEF Inserted
  <2> QED  BY <1>1, <1>3, <2>1
<1> QED  BY <1>2, <1>3

(* The walk sees only what does not change while reads are fixed.          *)
LEMMA WalkStays ==
  ASSUME UNCHANGED << edges, live, idom, assigns, phiLocations >>
  PROVE  /\ \A b : FromBottom(b)' = FromBottom(b) /\ FromTop(b)' = FromTop(b)
         /\ \A b : Preds(b)' = Preds(b) /\ Succs(b)' = Succs(b)
         /\ Joined => Joined'
<1>1. \A b : FromBottom(b)' = FromBottom(b)
  BY DEF FromBottom, Def, Phi
<1>2. \A b : FromTop(b)' = FromTop(b)
  BY <1>1 DEF FromTop, Phi
<1>3. \A b : Preds(b)' = Preds(b) /\ Succs(b)' = Succs(b)
  BY DEF Preds, Succs
<1>4. \A n : Frontier(n)' = Frontier(n)
  <2>1. \A u, p : Climb(u, p)' = Climb(u, p)
    BY DEF Climb
  <2> QED  BY <1>3, <2>1 DEF Frontier
<1> QED  BY <1>1, <1>2, <1>3, <1>4 DEF Joined, Stops

LEMMA FixReadSsa ==
  ASSUME live \subseteq Nodes, SsaInv, FixRead
  PROVE  SsaInv'
<1>1. PICK b \in left :
        /\ fixed' = [x \in {b} \cup DOMAIN fixed |-> IF x = b THEN FromTop(b) ELSE fixed[x]]
        /\ Inserted(FromTop(b), {}) /\ left' = left \ {b}
  BY DEF FixRead
<1>2. /\ stage = "rewrite" /\ pending = {}
      /\ UNCHANGED << edges, live, passes, idom, stage, reads, assigns, phiLocations,
                      incoming, at, assigned, current >>
  BY DEF FixRead, graphVars, results, program
<1>3. Joined /\ Fixed /\ Wired /\ passes = << "ssa" >> /\ idom # None /\ ~ assigned
  BY <1>2 DEF SsaInv
<1>4. /\ \A c : FromBottom(c)' = FromBottom(c) /\ FromTop(c)' = FromTop(c)
      /\ \A c : Preds(c)' = Preds(c) /\ Joined'
  BY <1>2, <1>3, WalkStays
<1>5. /\ phis \subseteq phis'
      /\ \A t \in phis' \ phis : \A p \in Preds(t) : << t, p >> \in pending'
      /\ \A x \in live : FromTop(b) = Phi(x) => x \in phis'
  BY <1>1, InsertedKeeps
<1>6. \A d : Kept(d) => Kept(d)'
  BY <1>2, <1>5 DEF Kept, Phi
<1>7. Kept(FromTop(b))'
  BY <1>2, <1>4, <1>5 DEF Kept, Phi
<1>8. Fixed'
  <2> SUFFICES ASSUME NEW c \in reads \ (left \ {b})
               PROVE  /\ c \in DOMAIN fixed' /\ fixed'[c] = FromTop(c)'
                      /\ Kept(FromTop(c))'
    BY <1>1, <1>2 DEF Fixed
  <2>1. CASE c = b
    BY <1>1, <1>4, <1>7, <2>1
  <2>2. CASE c # b
    <3>1. c \in DOMAIN fixed /\ fixed[c] = FromTop(c) /\ Kept(FromTop(c))
      BY <1>3, <2>2 DEF Fixed
    <3>2. c \in {b} \cup DOMAIN fixed
      BY <3>1
    <3>3. fixed'[c] = fixed[c] /\ c \in DOMAIN fixed'
      BY <1>1, <2>2, <3>2
    <3> QED  BY <1>4, <1>6, <3>1, <3>3
  <2> QED  BY <2>1, <2>2
<1>9. Wired'
  <2> SUFFICES ASSUME NEW t \in phis', NEW p \in Preds(t)
               PROVE  \/ << t, p >> \in pending'
                      \/ /\ << t, p >> \in DOMAIN incoming /\ incoming[<< t, p >>] = FromBottom(p)
                         /\ Kept(FromBottom(p))'
    BY <1>2, <1>4 DEF Wired
  <2>1. CASE t \in phis
    BY <1>2, <1>3, <1>4, <1>6, <2>1 DEF Wired
  <2>2. CASE t \notin phis
    BY <1>5, <2>2
  <2> QED  BY <2>1, <2>2
<1> QED  BY <1>2, <1>3, <1>4, <1>8, <1>9 DEF SsaInv

LEMMA FixInputSsa ==
  ASSUME live \subseteq Nodes, SsaInv, FixInput
  PROVE  SsaInv'
<1>1. PICK q \in pending :
        /\ incoming' = [x \in {q} \cup DOMAIN incoming |->
                          IF x = q THEN FromBottom(q[2]) ELSE incoming[x]]
        /\ Inserted(FromBottom(q[2]), pending \ {q})
  BY DEF FixInput
<1>2. /\ stage = "rewrite"
      /\ UNCHANGED << edges, live, passes, idom, stage, reads, assigns, phiLocations,
                      left, fixed, at, assigned, current >>
  BY DEF FixInput, graphVars, results, program
<1>3. Joined /\ Fixed /\ Wired /\ passes = << "ssa" >> /\ idom # None /\ ~ assigned
  BY <1>2 DEF SsaInv
<1>4. /\ \A c : FromBottom(c)' = FromBottom(c) /\ FromTop(c)' = FromTop(c)
      /\ \A c : Preds(c)' = Preds(c) /\ Joined'
  BY <1>2, <1>3, WalkStays
<1>5. /\ phis \subseteq phis' /\ pending \ {q} \subseteq pending'
      /\ \A t \in phis' \ phis : \A p \in Preds(t) : << t, p >> \in pending'
      /\ \A x \in live : FromBottom(q[2]) = Phi(x) => x \in phis'
  BY <1>1, InsertedKeeps
<1>6. \A d : Kept(d) => Kept(d)'
  BY <1>2, <1>5 DEF Kept, Phi
<1>7. Kept(FromBottom(q[2]))'
  BY <1>2, <1>4, <1>5 DEF Kept, Phi
<1>8. Fixed'
  BY <1>2, <1>3, <1>4, <1>6 DEF Fixed
<1>9. Wired'
  <2> SUFFICES ASSUME NEW t \in phis', NEW p \in Preds(t)
               PROVE  \/ << t, p >> \in pending'
                      \/ /\ << t, p >> \in DOMAIN incoming'
                         /\ incoming'[<< t, p >>] = FromBottom(p)
                         /\ Kept(FromBottom(p))'
    BY <1>4 DEF Wired
  <2>1. CASE t \in phis /\ << t, p >> = q
    <3>1. q[2] = p
      BY <2>1
    <3>2. q \in DOMAIN incoming' /\ incoming'[q] = FromBottom(q[2])
      BY <1>1
    <3> QED  BY <1>7, <2>1, <3>1, <3>2
  <2>2. CASE t \in phis /\ << t, p >> # q /\ << t, p >> \notin pending
    <3>1. PICK e : e = << t, p >>
      OBVIOUS
    <3>2. e \in DOMAIN incoming /\ incoming[e] = FromBottom(p) /\ Kept(FromBottom(p))
      BY <1>3, <2>2, <3>1 DEF Wired
    <3>3. e \in {q} \cup DOMAIN incoming /\ e # q
      BY <2>2, <3>1, <3>2
    <3>4. e \in DOMAIN incoming' /\ incoming'[e] = incoming[e]
      BY <1>1, <3>3
    <3>5. Kept(FromBottom(p))'
      BY <1>4, <1>6, <3>2
    <3> QED  BY <3>1, <3>2, <3>4, <3>5
  <2>3. CASE t \in phis /\ << t, p >> # q /\ << t, p >> \in pending
    BY <1>5, <2>3
  <2>4. CASE t \notin phis
    BY <1>5, <2>4
  <2> QED  BY <2>1, <2>2, <2>3, <2>4
<1> QED  BY <1>2, <1>3, <1>4, <1>8, <1>9 DEF SsaInv

LEMMA FreshVarsSsa ==
  ASSUME live \subseteq Nodes, SsaInv, FreshVars
  PROVE  SsaInv'
<1>1. /\ passes = << >> /\ passes' = << "ssa" >> /\ idom # None /\ stage' = "rewrite"
      /\ left' = reads'
      /\ UNCHANGED << edges, live, idom, fixed, phis, pending, incoming, assigned >>
  BY DEF FreshVars, Continue, Done, results
<1>2. stage = "analysis"
  BY <1>1 DEF SsaInv
<1>3. phis' = {} /\ ~ assigned'
  BY <1>1, <1>2 DEF SsaInv
<1>4. Fixed' /\ Wired'
  BY <1>1, <1>3 DEF Fixed, Wired
<1>5. Joined'
  BY FreshJoins
<1> QED  BY <1>1, <1>3, <1>4, <1>5 DEF SsaInv

-----------------------------------------------------------------------------
(* Running                                                                 *)

(* When all inputs are found                                               *)
LEMMA WiredUp ==
  ASSUME Wired, pending = {}, edges \subseteq live \X live, live \subseteq Nodes,
         NEW b \in live, NEW t \in Succs(b) \cap phis
  PROVE  incoming[<< t, b >>] = FromBottom(b) /\ Kept(FromBottom(b))
<1>1. b \in Preds(t)
  BY DEF Succs, Preds
<1> QED  BY <1>1 DEF Wired

(* Entering a block                                                        *)
LEMMA EnterHolds ==
  ASSUME Settles, Immediately(idom), Joined, Wired, pending = {}, NEW b \in live, NEW held,
         Kept(FromTop(b)) => FromTop(b) \in held,
         NEW next, next = Exports(b, (Succs(b) \cap phis) \ ExportedLast(b), held)
  PROVE  /\ Kept(FromTop(b)) => FromTop(b) \in next
         /\ \A t \in Early(b) : Phi(t) \in next
<1>1. edges \subseteq live \X live /\ live \subseteq Nodes
  BY DEF Settles, Reached
<1>2. PICK early : early = Early(b)
  OBVIOUS
<1>3. next = (held \ {Phi(t) : t \in early})
               \cup {Phi(t) : t \in {u \in early : incoming[<< u, b >>] \in held}}
  BY <1>2 DEF Exports, Early
<1>4. ASSUME NEW t \in early
      PROVE  Phi(t) \in next
  <2>1. t \in Succs(b) \cap phis /\ incoming[<< t, b >>] # Def(b)
    BY <1>2 DEF Early, ExportedLast
  <2>2. incoming[<< t, b >>] = FromBottom(b) /\ Kept(FromBottom(b))
    BY <1>1, <2>1, WiredUp
  <2>3. FromBottom(b) = FromTop(b)
    BY <2>1, <2>2, FromTopIs DEF Joined
  <2>4. incoming[<< t, b >>] \in held
    BY <2>2, <2>3
  <2> QED  BY <1>3, <2>4
<1>5. ASSUME Kept(FromTop(b))
      PROVE  FromTop(b) \in next
  <2>1. PICK d : d = FromTop(b)
    OBVIOUS
  <2>2. d \in held
    BY <1>5, <2>1
  <2>3. CASE d \in {Phi(t) : t \in early}
    BY <1>4, <2>1, <2>3
  <2>4. CASE d \notin {Phi(t) : t \in early}
    BY <1>3, <2>1, <2>2, <2>4
  <2> QED  BY <2>3, <2>4
<1> QED  BY <1>2, <1>4, <1>5

(* What is held after a block is what its successor finds.                 *)
LEMMA JumpHolds ==
  ASSUME Settles, DominatorsHold, Immediately(idom), Joined, NoReturn, Wired, pending = {},
         at \in live, NEW b \in Succs(at), assigned \/ at \in assigns, assigned => Holding,
         NEW held,
         held = IF at \in assigns THEN Exports(at, ExportedLast(at), {Def(at)}) ELSE current
  PROVE  Kept(FromTop(b)) => FromTop(b) \in held
<1> SUFFICES ASSUME Kept(FromTop(b)) PROVE FromTop(b) \in held
  OBVIOUS
<1>1. edges \subseteq live \X live /\ live \subseteq Nodes /\ Stops \subseteq live
  BY DEF Settles, Reached, Joined
<1>2. b \in live
  BY <1>1 DEF Succs
<1>3. CASE b \in phiLocations
  <2>1. FromTop(b) = Phi(b)
    BY <1>1, <1>2, <1>3, FromTopIs
  <2>2. b \in Succs(at) \cap phis
    BY <1>2, <2>1 DEF Kept
  <2>3. incoming[<< b, at >>] = FromBottom(at)
    BY <1>1, <2>2, WiredUp
  <2>4. CASE at \in assigns
    <3>1. FromBottom(at) = Def(at)
      BY <1>1, <2>4, FromTopIs
    <3>2. b \in ExportedLast(at)
      BY <2>2, <2>3, <3>1 DEF ExportedLast
    <3>3. incoming[<< b, at >>] \in {Def(at)}
      BY <2>3, <3>1
    <3>4. Phi(b) \in Exports(at, ExportedLast(at), {Def(at)})
      BY <3>2, <3>3 DEF Exports
    <3> QED  BY <2>1, <2>4, <3>4
  <2>5. CASE at \notin assigns
    <3>1. FromBottom(at) # Def(at)
      BY <1>1, <2>5, FromTopIs
    <3>2. b \in Early(at)
      BY <2>2, <2>3, <3>1 DEF Early, ExportedLast
    <3> QED  BY <2>1, <2>5, <3>2 DEF Holding
  <2> QED  BY <2>4, <2>5
<1>4. CASE b \notin phiLocations
  <2>1. FromTop(b) = FromBottom(at)
    BY <1>4, TopIsBottom
  <2>2. CASE at \in assigns
    <3>1. FromBottom(at) = Def(at)
      BY <1>1, <2>2, FromTopIs
    <3>2. Def(at) \in Exports(at, ExportedLast(at), {Def(at)})
      <4>1. Def(at) \notin {Phi(t) : t \in ExportedLast(at)}
        BY Distinct
      <4> QED  BY <4>1 DEF Exports
    <3> QED  BY <2>1, <2>2, <3>1, <3>2
  <2>3. CASE at \notin assigns
    <3>1. FromBottom(at) = FromTop(at)
      BY <1>1, <2>3, FromTopIs
    <3> QED  BY <2>1, <2>3, <3>1 DEF Holding
  <2> QED  BY <2>2, <2>3
<1> QED  BY <1>3, <1>4

(* The graph and its dominators, when they are known                       *)
Dominated == Settles /\ NoReturn /\ DominatorsHold /\ Immediately(idom)

LEMMA RunStays ==
  ASSUME UNCHANGED << edges, live, passes, idom, reads, assigns, phiLocations, left, fixed,
                      phis, pending, incoming >>
  PROVE  /\ Joined => Joined'
         /\ Fixed => Fixed'
         /\ Wired => Wired'
         /\ \A d : Kept(d)' = Kept(d)
         /\ \A b : FromTop(b)' = FromTop(b) /\ Early(b)' = Early(b)
<1>1. /\ \A b : FromBottom(b)' = FromBottom(b) /\ FromTop(b)' = FromTop(b)
      /\ \A b : Preds(b)' = Preds(b) /\ Succs(b)' = Succs(b)
      /\ Joined => Joined'
  BY WalkStays
<1>2. \A d : Kept(d)' = Kept(d)
  BY DEF Kept, Phi
<1>3. \A b : Early(b)' = Early(b)
  BY <1>1 DEF Early, ExportedLast, Def
<1> QED  BY <1>1, <1>2, <1>3 DEF Fixed, Wired

LEMMA RunSsa ==
  ASSUME SsaInv, live \subseteq Nodes, Entry \in live, Run
  PROVE  SsaInv'
<1>1. /\ stage = "rewrite" /\ left = {} /\ pending = {} /\ stage' = "run" /\ at' = Entry
      /\ UNCHANGED << edges, live, passes, idom, reads, assigns, phiLocations, left, fixed,
                      phis, pending, incoming, assigned >>
  BY DEF Run, Enter, graphVars, results, program
<1> QED  BY <1>1, RunStays DEF SsaInv

LEMMA JumpSsa ==
  ASSUME SsaInv, Dominated, Jump
  PROVE  SsaInv'
<1>1. /\ stage = "run" /\ stage' = "run" /\ assigned' = (assigned \/ at \in assigns)
      /\ UNCHANGED << edges, live, passes, idom, reads, assigns, phiLocations, left, fixed,
                      phis, pending, incoming >>
  BY DEF Jump, graphVars, results, program
<1>2. PICK held : held = IF at \in assigns THEN Exports(at, ExportedLast(at), {Def(at)}) ELSE current
  OBVIOUS
<1>3. PICK b \in Succs(at) : at' = b
        /\ current' = Exports(b, (Succs(b) \cap phis) \ ExportedLast(b), held)
  BY <1>2 DEF Jump, Enter
<1>4. /\ Joined /\ Fixed /\ Wired /\ pending = {} /\ left = {} /\ at \in live
      /\ passes = << "ssa" >> /\ idom # None /\ (assigned => Holding)
  BY <1>1 DEF SsaInv
<1>5. b \in live
  BY <1>3 DEF Succs, Dominated, Settles, Reached
<1>6. ASSUME assigned'
      PROVE  Holding'
  <2>1. Kept(FromTop(b)) => FromTop(b) \in held
    BY <1>1, <1>2, <1>3, <1>4, <1>6, JumpHolds DEF Dominated
  <2>2. /\ Kept(FromTop(b)) => FromTop(b) \in current'
        /\ \A t \in Early(b) : Phi(t) \in current'
    BY <1>3, <1>4, <1>5, <2>1, EnterHolds DEF Dominated
  <2>3. /\ FromTop(at)' = FromTop(b) /\ Early(at)' = Early(b)
        /\ \A d : Kept(d)' = Kept(d)
    <3>1. \A c : FromTop(c)' = FromTop(c) /\ Early(c)' = Early(c)
      BY <1>1, RunStays
    <3> QED  BY <1>1, <1>3, <3>1, RunStays
  <2> QED  BY <2>2, <2>3 DEF Holding, Phi
<1> QED  BY <1>1, <1>3, <1>4, <1>5, <1>6, RunStays DEF SsaInv

-----------------------------------------------------------------------------
(* The variable's rewriting is faithful                                    *)

LEMMA SsaInitially == Init => SsaInv
<1> SUFFICES ASSUME Init PROVE SsaInv
  OBVIOUS
<1>1. /\ stage = "analysis" /\ fixed = << >> /\ phis = {} /\ pending = {}
      /\ incoming = << >> /\ assigned = FALSE
  BY DEF Init, SsaInit
<1> QED  BY <1>1 DEF SsaInv

LEMMA SsaFrame ==
  ASSUME SsaInv, UNCHANGED ssaVars,
         stage # "analysis" => UNCHANGED << edges, live, passes, idom >>
  PROVE  SsaInv'
<1>1. UNCHANGED << stage, reads, assigns, phiLocations, left, fixed, phis, pending, incoming,
                   at, assigned, current >>
  BY DEF ssaVars, program
<1>2. CASE stage = "analysis"
  BY <1>1, <1>2 DEF SsaInv
<1>3. CASE stage # "analysis"
  <2>1. UNCHANGED << edges, live, passes, idom >>
    BY <1>3
  <2>2. Joined /\ Fixed /\ Wired /\ passes = << "ssa" >> /\ idom # None
    BY <1>3 DEF SsaInv
  <2>3. /\ Joined' /\ Fixed' /\ Wired'
        /\ \A d : Kept(d)' = Kept(d)
        /\ \A b : FromTop(b)' = FromTop(b) /\ Early(b)' = Early(b)
    BY <1>1, <2>1, <2>2, RunStays
  <2>4. Holding' <=> Holding
    <3>1. FromTop(at)' = FromTop(at) /\ Early(at)' = Early(at) /\ \A d : Kept(d)' = Kept(d)
      <4>1. \A b : FromTop(b)' = FromTop(b) /\ Early(b)' = Early(b)
        BY <2>3
      <4> QED  BY <1>1, <2>1, <2>3, <4>1, RunStays
    <3> QED  BY <1>1, <3>1 DEF Holding, Phi
  <2> QED  BY <1>1, <1>3, <2>1, <2>2, <2>3, <2>4 DEF SsaInv
<1> QED  BY <1>2, <1>3

(* Rewriting begins when the graph has nothing left to do, and no other    *)
(* user of it goes on then.                                                *)
LEMMA GraphRests ==
  ASSUME GraphInv, passes = << "ssa" >>
  PROVE  ~ GraphStep /\ ~ FreshVars /\ ~ Write
<1>1. passes # << >> /\ Head(passes) = "ssa"
  OBVIOUS
<1>2. ~ Process /\ ~ Visit /\ ~ Leave /\ ~ SearchEnds
  BY <1>1 DEF Process, Visit, Leave, SearchEnds, Searching, Pass, Analyses
<1>3. ~ Sweep /\ ~ SweepEnds
  BY <1>1 DEF GraphInv, Pass, Sweep, SweepEnds
<1>4. ~ FreshVars /\ ~ Write
  BY <1>1 DEF FreshVars, Write, Continue, Done
<1> QED  BY <1>2, <1>3, <1>4 DEF GraphStep

LEMMA SsaPreserved == AnalysesInv /\ SsaInv /\ [Next]_vars => SsaInv'
<1> SUFFICES ASSUME AnalysesInv, SsaInv, [Next]_vars PROVE SsaInv'
  OBVIOUS
<1>1. GraphInv /\ live \subseteq Nodes
  BY DEF AnalysesInv, FlowInv, GraphInv
<1>2. stage # "analysis" => passes = << "ssa" >> /\ idom # None
  BY DEF SsaInv
<1>3. CASE GraphStep /\ UNCHANGED ssaVars
  <2>1. stage = "analysis"
    BY <1>1, <1>2, <1>3, GraphRests
  <2> QED  BY <1>3, <2>1, SsaFrame
<1>4. CASE LifetimeStep /\ UNCHANGED ssaVars
  <2>1. stage # "analysis" => UNCHANGED graphVars
    <3>1. Write \/ UNCHANGED graphVars
      BY <1>4 DEF LifetimeStep, ComputeLiveMap, ComputeDeadMaps, Follow
    <3> QED  BY <1>1, <1>2, <3>1, GraphRests
  <2> QED  BY <1>4, <2>1, SsaFrame DEF graphVars, results
<1>5. CASE UNCHANGED vars
  BY <1>5, SsaFrame DEF vars, graphVars, results
<1>6. CASE FreshVars
  BY <1>1, <1>6, FreshVarsSsa
<1>7. CASE FixRead
  BY <1>1, <1>7, FixReadSsa
<1>8. CASE FixInput
  BY <1>1, <1>8, FixInputSsa
<1>9. ASSUME stage # "analysis"
      PROVE  Dominated /\ Entry \in live
  <2>1. passes # << "process" >> /\ idom # None
    BY <1>2, <1>9
  <2>2. Settles
    BY <1>1, <2>1 DEF GraphInv, Settles
  <2> QED  BY <2>1, <2>2 DEF AnalysesInv, ResultsInv, Dominated, Settles, Reached
<1>10. CASE Run
  <2>1. stage # "analysis"
    BY <1>10 DEF Run
  <2> QED  BY <1>1, <1>9, <1>10, <2>1, RunSsa
<1>11. CASE Jump
  <2>1. stage # "analysis"
    BY <1>11 DEF Jump
  <2> QED  BY <1>9, <1>11, <2>1, JumpSsa
<1> QED  BY <1>3, <1>4, <1>5, <1>6, <1>7, <1>8, <1>10, <1>11 DEF Next, SsaStep

LEMMA SsaFollows ==
  ASSUME SsaInv
  PROVE  SsaFaithful
<1> SUFFICES ASSUME stage = "run", at \in reads, assigned
             PROVE  fixed[at] \in current
  BY DEF SsaFaithful
<1>1. left = {} /\ Fixed /\ Holding
  BY DEF SsaInv
<1>2. fixed[at] = FromTop(at) /\ Kept(FromTop(at))
  BY <1>1 DEF Fixed
<1> QED  BY <1>1, <1>2 DEF Holding

(* reconstruct_ssa and _strip_phi_nodes, in any function and for any       *)
(* assignments and reads of a variable: on whatever path a run takes, the  *)
(* new variable that a read was given holds the value that the original    *)
(* one would hold.                                                         *)
THEOREM SsaIsFaithful == Spec => []SsaFaithful
<1>1. Init => AnalysesInv /\ SsaInv
  BY AnalysesInitially, SsaInitially
<1>2. AnalysesInv /\ SsaInv /\ [Next]_vars => (AnalysesInv /\ SsaInv)'
  BY AnalysesPreserved, SsaPreserved
<1>3. SsaInv => SsaFaithful
  BY SsaFollows
<1> QED  BY <1>1, <1>2, <1>3, PTL DEF Spec


-----------------------------------------------------------------------------
(* Statements                                                              *)

(* Statements that leave the variable with a value                         *)
Giving == {"set", "update"}

LEMMA BodyShape ==
  ASSUME NEW s \in Bodies
  PROVE  /\ Len(s) \in Nat /\ Len(s) >= 1 /\ DOMAIN s = 1 .. Len(s)
         /\ Last(s) = s[Len(s)] /\ s[Len(s)] \in Terminators
         /\ \A i \in 1 .. Len(s) - 1 : s[i] \in Statements
<1>1. s \in Seq(Statements \cup Terminators) /\ s # << >>
  BY BodiesAssumption
<1>2. Len(s) \in Nat /\ Len(s) >= 1 /\ DOMAIN s = 1 .. Len(s)
  BY <1>1
<1>3. Last(s) = s[Len(s)]
  BY DEF Last
<1> QED  BY <1>2, <1>3, BodiesAssumption

(* Whether what a block is entered with, or has assigned, is still there   *)
(* before statement k                                                      *)
Carried(k, a, s, Kill) ==
    \/ a /\ \A j \in 1 .. k - 1 : j \notin Kill
    \/ \E j \in 1 .. k - 1 : s[j] \in Giving /\ \A m \in j .. k - 1 : m \notin Kill

Carries(f, n, a, s, Kill) ==
    f = [k \in 1 .. n |-> IF k = 1 THEN a
                          ELSE k - 1 \notin Kill /\ (s[k - 1] \in {"set", "update"} \/ f[k - 1])]

LEMMA CarriedStep ==
  ASSUME NEW k \in Nat, k > 1, NEW a, NEW s, NEW Kill
  PROVE  Carried(k, a, s, Kill)
         <=> k - 1 \notin Kill /\ (s[k - 1] \in Giving \/ Carried(k - 1, a, s, Kill))
<1> DEFINE p == k - 1
<1>1. p \in Nat /\ p >= 1 /\ k = p + 1
  OBVIOUS
<1> HIDE DEF p
<1>2. ASSUME Carried(k, a, s, Kill)
      PROVE  p \notin Kill /\ (s[p] \in Giving \/ Carried(p, a, s, Kill))
  <2>1. CASE a /\ \A j \in 1 .. k - 1 : j \notin Kill
    BY <1>1, <2>1 DEF Carried
  <2>2. ASSUME NEW j \in 1 .. k - 1, s[j] \in Giving, \A m \in j .. k - 1 : m \notin Kill
        PROVE  p \notin Kill /\ (s[p] \in Giving \/ Carried(p, a, s, Kill))
    <3>1. p \notin Kill
      BY <1>1, <2>2
    <3>2. CASE j = p
      BY <2>2, <3>1, <3>2
    <3>3. CASE j # p
      <4>1. j \in 1 .. p - 1 /\ \A m \in j .. p - 1 : m \notin Kill
        BY <1>1, <2>2, <3>3
      <4> QED  BY <2>2, <3>1, <4>1 DEF Carried
    <3> QED  BY <3>2, <3>3
  <2> QED  BY <1>2, <2>1, <2>2 DEF Carried
<1>3. ASSUME p \notin Kill, s[p] \in Giving
      PROVE  Carried(k, a, s, Kill)
  <2>1. p \in 1 .. k - 1 /\ \A m \in p .. k - 1 : m = p
    BY <1>1
  <2> QED  BY <1>3, <2>1 DEF Carried
<1>4. ASSUME p \notin Kill, Carried(p, a, s, Kill)
      PROVE  Carried(k, a, s, Kill)
  <2>1. \A j \in Nat : j \in 1 .. k - 1 => j = p \/ j \in 1 .. p - 1
    BY <1>1
  <2>2. CASE a /\ \A j \in 1 .. p - 1 : j \notin Kill
    BY <1>4, <2>1, <2>2 DEF Carried
  <2>3. ASSUME NEW j \in 1 .. p - 1, s[j] \in Giving, \A m \in j .. p - 1 : m \notin Kill
        PROVE  Carried(k, a, s, Kill)
    <3>1. j \in 1 .. k - 1 /\ \A m \in j .. k - 1 : m = p \/ m \in j .. p - 1
      BY <1>1
    <3> QED  BY <1>4, <2>3, <3>1 DEF Carried
  <2> QED  BY <1>4, <2>2, <2>3 DEF Carried
<1> QED  BY <1>2, <1>3, <1>4 DEF p

LEMMA CarriedFirst ==
  ASSUME NEW a, NEW s, NEW Kill
  PROVE  Carried(1, a, s, Kill) <=> a
BY DEF Carried

LEMMA CarriesExists ==
  ASSUME NEW n \in Nat, NEW a \in BOOLEAN, NEW s, NEW Kill
  PROVE  \E f : Carries(f, n, a, s, Kill)
<1> DEFINE f == [k \in 1 .. n |-> Carried(k, a, s, Kill)]
<1>1. ASSUME NEW k \in 1 .. n
      PROVE  f[k] = IF k = 1 THEN a
                    ELSE k - 1 \notin Kill /\ (s[k - 1] \in {"set", "update"} \/ f[k - 1])
  <2>1. CASE k = 1
    <3>1. Carried(1, a, s, Kill) \in BOOLEAN
      BY DEF Carried
    <3>2. Carried(1, a, s, Kill) = a
      BY <3>1, CarriedFirst
    <3> QED  BY <2>1, <3>2
  <2>2. CASE k # 1
    <3>1. k \in Nat /\ k > 1 /\ k - 1 \in 1 .. n
      BY <2>2
    <3>2. Carried(k, a, s, Kill)
          <=> k - 1 \notin Kill /\ (s[k - 1] \in Giving \/ Carried(k - 1, a, s, Kill))
      BY <3>1, CarriedStep
    <3>3. f[k] = Carried(k, a, s, Kill) /\ f[k - 1] = Carried(k - 1, a, s, Kill)
      BY <3>1
    <3>4. Carried(k, a, s, Kill) \in BOOLEAN /\ Carried(k - 1, a, s, Kill) \in BOOLEAN
      BY DEF Carried
    <3> HIDE DEF f
    <3> QED  BY <2>2, <3>2, <3>3, <3>4 DEF Giving
  <2> QED  BY <2>1, <2>2
<1>2. f = [k \in 1 .. n |-> IF k = 1 THEN a
                          ELSE k - 1 \notin Kill /\ (s[k - 1] \in {"set", "update"} \/ f[k - 1])]
  <2> HIDE DEF f
  <2>1. f = [k \in 1 .. n |-> f[k]]
    BY DEF f
  <2> QED  BY <1>1, <2>1
<1> HIDE DEF f
<1> QED  BY <1>2 DEF Carries

LEMMA CarriesAre ==
  ASSUME NEW n \in Nat, NEW a \in BOOLEAN, NEW s, NEW Kill, NEW f, Carries(f, n, a, s, Kill),
         NEW k \in 1 .. n
  PROVE  f[k] <=> Carried(k, a, s, Kill)
<1> DEFINE Wrong == {i \in 1 .. n : ~ (f[i] <=> Carried(i, a, s, Kill))}
<1> SUFFICES ASSUME Wrong # {} PROVE FALSE
  OBVIOUS
<1>1. Wrong \subseteq Nat
  OBVIOUS
<1>2. PICK i \in Wrong : \A m \in Wrong : i <= m
  <2> HIDE DEF Wrong
  <2> QED  BY <1>1, LeastNatural
<1>3. i \in Nat /\ i \in 1 .. n /\ ~ (f[i] <=> Carried(i, a, s, Kill))
  OBVIOUS
<1>4. \A m \in 1 .. n : m < i => m \notin Wrong
  <2> HIDE DEF Wrong
  <2> QED  BY <1>2, <1>3
<1>5. f[i] = IF i = 1 THEN a
             ELSE i - 1 \notin Kill /\ (s[i - 1] \in {"set", "update"} \/ f[i - 1])
  BY <1>3 DEF Carries
<1>6. CASE i = 1
  <2>1. f[1] = a
    BY <1>5, <1>6
  <2> QED  BY <1>3, <1>6, <2>1, CarriedFirst
<1>7. CASE i # 1
  <2>1. i > 1 /\ i - 1 \in 1 .. n /\ i - 1 < i
    BY <1>3, <1>7
  <2>2. f[i - 1] <=> Carried(i - 1, a, s, Kill)
    BY <1>4, <2>1
  <2>3. Carried(i, a, s, Kill)
        <=> i - 1 \notin Kill /\ (s[i - 1] \in Giving \/ Carried(i - 1, a, s, Kill))
    BY <1>3, <2>1, CarriedStep
  <2>4. f[i] <=> i - 1 \notin Kill /\ (s[i - 1] \in Giving \/ f[i - 1])
    BY <1>5, <1>7 DEF Giving
  <2> QED  BY <1>3, <2>2, <2>3, <2>4
<1> QED  BY <1>6, <1>7

(* The state of the variable before statement i of the block that runs     *)
LEMMA AliveIs ==
  ASSUME NEW i \in Nat, i >= 1, alive \in BOOLEAN
  PROVE  AliveAt(i) <=> Carried(i, alive, body[block], DelAfter(block))
<1> DEFINE f == CHOOSE h : h = [k \in 1 .. i |->
                  IF k = 1 THEN alive
                  ELSE /\ k - 1 \notin DelAfter(block)
                       /\ body[block][k - 1] \in {"set", "update"} \/ h[k - 1]]
<1>1. AliveAt(i) = f[i]
  BY DEF AliveAt
<1>2. \E h : Carries(h, i, alive, body[block], DelAfter(block))
  BY CarriesExists
<1>3. Carries(f, i, alive, body[block], DelAfter(block))
  BY <1>2 DEF Carries
<1> HIDE DEF f
<1>4. f[i] <=> Carried(i, alive, body[block], DelAfter(block))
  BY <1>3, CarriesAre
<1> QED  BY <1>1, <1>4

-----------------------------------------------------------------------------
(* The live map                                                            *)

(* Where an assignment or a use leads, or more                             *)
Flows(D) ==
    /\ D \in SUBSET live /\ DefMap \cup UseMap \subseteq D
    /\ \A b \in D : Succs(b) \subseteq D

(* L are the uses and all that has to be live for them within D.           *)
Needs(L, D) ==
    /\ L \in SUBSET live /\ UseMap \subseteq L
    /\ \A b \in L : Passed(b) \cap D \subseteq L
    /\ \A U \in SUBSET live :
         UseMap \subseteq U /\ (\A b \in U : Passed(b) \cap D \subseteq U) => L \subseteq U

LEMMA FlowsIsReached ==
  ASSUME IsFiniteSet(live), edges \subseteq live \X live
  PROVE  Flows(DefReach)
<1> DEFINE next(S) == S \cup UNION {Succs(b) : b \in S}
           g == CHOOSE h : h = [S \in SUBSET live |-> IF next(S) = S THEN S ELSE h[next(S)]]
<1>1. PICK S \in SUBSET live : S = DefMap \cup UseMap
  BY DEF DefMap, UseMap
<1>2. DefReach = g[S]
  BY <1>1 DEF DefReach
<1>3. \A b : Succs(b) \subseteq live
  BY DEF Succs
<1>4. PICK F : F = [T \in SUBSET live |-> UNION {Succs(b) : b \in T}]
  OBVIOUS
<1>5. F \in [SUBSET live -> SUBSET live] /\ Monotone(F, live)
  BY <1>3, <1>4 DEF Monotone
<1>6. \A T \in SUBSET live : next(T) = T \cup F[T]
  BY <1>4
<1> HIDE DEF next
<1>7. ASSUME NEW h
      PROVE  Grows(h, F, live)
             <=> h = [T \in SUBSET live |-> IF next(T) = T THEN T ELSE h[next(T)]]
  BY <1>6 DEF Grows
<1>8. Grows(g, F, live)
  <2>1. \E h : Grows(h, F, live)
    BY <1>5, GrowsExists
  <2> QED  BY <1>7, <2>1
<1> HIDE DEF g
<1>9. Least(g[S], S, F, live)
  BY <1>5, <1>8, GrowsToLeast
<1>10. \A U \in SUBSET live : F[U] \subseteq U => \A b \in U : Succs(b) \subseteq U
  BY <1>4
<1> QED  BY <1>1, <1>2, <1>9, <1>10 DEF Least, Flows

LEMMA PassedWithin ==
  ASSUME NEW T, NEW D
  PROVE  (UNION {Passed(b) : b \in T}) \cap D = {p \in D : \E b \in T : p \in Passed(b)}
OBVIOUS

LEMMA NeedsIsLiveMap ==
  ASSUME IsFiniteSet(live), edges \subseteq live \X live
  PROVE  Needs(LiveMap, DefReach)
<1> DEFINE next(S) == S \cup ((UNION {Passed(b) : b \in S}) \cap DefReach)
           g == CHOOSE h : h = [S \in SUBSET live |-> IF next(S) = S THEN S ELSE h[next(S)]]
<1>1. PICK S \in SUBSET live : S = UseMap
  BY DEF UseMap
<1>2. LiveMap = g[S]
  BY <1>1 DEF LiveMap
<1>3. PICK D \in SUBSET live : D = DefReach
  BY FlowsIsReached DEF Flows
<1>4. PICK F : F = [T \in SUBSET live |-> {p \in D : \E b \in T : p \in Passed(b)}]
  OBVIOUS
<1>5. F \in [SUBSET live -> SUBSET live] /\ Monotone(F, live)
  BY <1>4 DEF Monotone
<1>6. \A T \in SUBSET live : next(T) = T \cup F[T]
  <2> TAKE T \in SUBSET live
  <2>1. F[T] = {p \in D : \E b \in T : p \in Passed(b)}
    BY <1>4
  <2>2. (UNION {Passed(b) : b \in T}) \cap D = {p \in D : \E b \in T : p \in Passed(b)}
    BY PassedWithin
  <2>3. (UNION {Passed(b) : b \in T}) \cap D = F[T]
    BY <2>1, <2>2
  <2> QED  BY <1>3, <2>3
<1> HIDE DEF next
<1>7. ASSUME NEW h
      PROVE  Grows(h, F, live)
             <=> h = [T \in SUBSET live |-> IF next(T) = T THEN T ELSE h[next(T)]]
  BY <1>6 DEF Grows
<1>8. Grows(g, F, live)
  <2>1. \E h : Grows(h, F, live)
    BY <1>5, GrowsExists
  <2> QED  BY <1>7, <2>1
<1> HIDE DEF g
<1>9. Least(g[S], S, F, live)
  BY <1>5, <1>8, GrowsToLeast
<1>10. \A U \in SUBSET live : F[U] \subseteq U <=> \A b \in U : Passed(b) \cap D \subseteq U
  BY <1>4
<1> QED  BY <1>1, <1>2, <1>3, <1>9, <1>10 DEF Least, Needs

(* Where the variable is live without a use, it is live in a successor.    *)
LEMMA LiveForSuccessor ==
  ASSUME NEW L, NEW D, Needs(L, D), NEW b \in L, b \notin UseMap
  PROVE  Succs(b) \cap L # {}
<1> SUFFICES ASSUME Succs(b) \cap L = {} PROVE FALSE
  OBVIOUS
<1>1. PICK U \in SUBSET live : U = L \ {b}
  BY DEF Needs
<1>2. UseMap \subseteq U
  BY <1>1 DEF Needs
<1>3. ASSUME NEW x \in U, NEW p \in Passed(x) \cap D
      PROVE  p \in U
  <2>1. p \in L
    BY <1>1, <1>3 DEF Needs
  <2>2. p = b => x \in Succs(b)
    BY <1>1, <1>3 DEF Passed, Preds, Succs, Needs
  <2> QED  BY <1>1, <2>1, <2>2
<1>4. L \subseteq U
  BY <1>2, <1>3 DEF Needs
<1> QED  BY <1>1, <1>4

-----------------------------------------------------------------------------
(* The invariant                                                           *)

(* What is known of the variable at the entry of the block that runs: it   *)
(* is alive where it is live and has a value, and only where the dead maps *)
(* have it.                                                                *)
AtEntry(D) ==
    /\ block \in live
    /\ valued => block \in D
    /\ valued /\ block \in liveMap => alive
    /\ alive => block \in Present

LifeInv ==
    /\ phase \in {"written", "live", "run", "raised"}
    /\ valued \in BOOLEAN /\ alive \in BOOLEAN
    /\ phase # "written" => passes = << "lifetimes" >>
    /\ passes = << "lifetimes" >> => body \in [live -> Bodies]
    /\ phase # "run" => block = Entry /\ ~ valued /\ ~ alive
    /\ phase # "written" => \E D : Flows(D) /\ Needs(liveMap, D) /\ AtEntry(D)
    /\ phase = "raised" =>
         liveMap # {} /\ Internal = {} /\ Escaping = {} /\ ExitDead = {} /\ ExitPoints # {}

(* A block's statements                                                    *)
LEMMA BodyOf ==
  ASSUME LifeInv, passes = << "lifetimes" >>, NEW b \in live
  PROVE  body[b] \in Bodies
BY DEF LifeInv

(* A block with an assignment or a use is one where the variable flows.    *)
LEMMA UsedOrDefined ==
  ASSUME NEW b \in live, body[b] \in Bodies, NEW i \in DOMAIN body[b], body[b][i] \in Mentions
  PROVE  b \in DefMap \cup UseMap
<1>1. CASE body[b][i] = "set"
  BY <1>1 DEF DefMap
<1>2. CASE body[b][i] # "set"
  <2>1. body[b][i] \in Reading
    BY <1>2 DEF Mentions
  <2>2. CASE SetBefore(b, i)
    <3>1. PICK j \in 1 .. i - 1 : body[b][j] = "set"
      BY <2>2 DEF SetBefore
    <3>2. j \in DOMAIN body[b]
      BY <3>1, BodyShape
    <3> QED  BY <3>1, <3>2 DEF DefMap
  <2>3. CASE ~ SetBefore(b, i)
    BY <2>1, <2>3 DEF UseMap
  <2> QED  BY <2>2, <2>3
<1> QED  BY <1>1, <1>2

LEMMA GivingPresent ==
  ASSUME NEW b \in live, body[b] \in Bodies, NEW i \in DOMAIN body[b], body[b][i] \in Giving
  PROVE  b \in DefMap \cup UseMap
BY UsedOrDefined DEF Giving, Mentions, Reading

(* No Del precedes a read in its block.                                    *)
LEMMA NoDelBeforeRead ==
  ASSUME NEW b \in live, body[b] \in Bodies, NEW i \in DOMAIN body[b], body[b][i] \in Reading
  PROVE  \A j \in 1 .. i - 1 : j \notin DelAfter(b)
<1> DEFINE s == body[b]
<1>1. Len(s) \in Nat /\ i \in 1 .. Len(s) /\ Last(s) = s[Len(s)]
  BY BodyShape
<1>2. CASE i = Len(s)
  <2>1. Last(s) = "branch"
    BY <1>1, <1>2, BodyShape DEF Terminators, Reading
  <2>2. b \notin Internal
    BY <2>1 DEF Internal, Outgoing
  <2> QED  BY <2>2 DEF DelAfter
<1>3. CASE i # Len(s)
  <2>1. i \in Nat /\ i <= Len(s) - 1 /\ s[i] \in Mentions
    BY <1>1, <1>3 DEF Mentions
  <2>2. ASSUME NEW j \in 1 .. i - 1, j \in DelAfter(b)
        PROVE  FALSE
    <3>1. \A k \in j + 1 .. Len(s) - 1 : s[k] \notin Mentions
      BY <2>2 DEF DelAfter
    <3>2. i \in j + 1 .. Len(s) - 1
      BY <1>1, <2>1
    <3> QED  BY <2>1, <3>1, <3>2
  <2> QED  BY <2>2
<1> QED  BY <1>2, <1>3

(* A variable that a block mentions and that dies in it is deleted in it.  *)
LEMMA DelComes ==
  ASSUME NEW b \in live, body[b] \in Bodies, b \in Internal,
         NEW i \in 1 .. Len(body[b]) - 1, body[b][i] \in Mentions
  PROVE  \E k \in 1 .. Len(body[b]) - 1 :
           /\ k \in DelAfter(b)
           /\ \A j \in k + 1 .. Len(body[b]) - 1 : body[b][j] \notin Mentions
<1> DEFINE s == body[b]
           n == Len(s)
           Rest == {n - j : j \in {m \in 1 .. n - 1 : s[m] \in Mentions}}
<1>1. n \in Nat
  BY BodyShape
<1> HIDE DEF n
<1>2. Rest \subseteq Nat /\ Rest # {}
  <2>1. n - i \in Rest
    BY DEF n
  <2> QED  BY <1>1, <2>1
<1>3. PICK r \in Rest : \A m \in Rest : r <= m
  <2> HIDE DEF Rest
  <2> QED  BY <1>2, LeastNatural
<1>4. PICK k \in 1 .. n - 1 : s[k] \in Mentions /\ r = n - k
  BY <1>3
<1>5. ASSUME NEW j \in k + 1 .. n - 1, s[j] \in Mentions
      PROVE  FALSE
  <2>1. j \in 1 .. n - 1 /\ j > k
    BY <1>1, <1>4
  <2>2. n - j \in Rest
    BY <1>5, <2>1
  <2>3. n - k <= n - j
    BY <1>3, <1>4, <2>2
  <2> QED  BY <1>1, <2>1, <2>3
<1>6. k \in DelAfter(b)
  BY <1>4, <1>5 DEF DelAfter, n
<1> QED  BY <1>4, <1>5, <1>6 DEF n

-----------------------------------------------------------------------------
(* Running                                                                 *)

(* The block that runs, and how it leaves the variable                     *)
LEMMA RunsABlock ==
  ASSUME LifeInv, phase = "run", NEW D, AtEntry(D)
  PROVE  /\ passes = << "lifetimes" >> /\ block \in live /\ body[block] \in Bodies
         /\ Len(body[block]) \in Nat /\ Len(body[block]) >= 1
         /\ DOMAIN body[block] = 1 .. Len(body[block])
         /\ AliveAt(Len(body[block]))
              <=> Carried(Len(body[block]), alive, body[block], DelAfter(block))
<1>1. passes = << "lifetimes" >> /\ block \in live /\ alive \in BOOLEAN
  BY DEF LifeInv, AtEntry
<1>2. body[block] \in Bodies
  BY <1>1, BodyOf
<1>3. /\ Len(body[block]) \in Nat /\ Len(body[block]) >= 1
      /\ DOMAIN body[block] = 1 .. Len(body[block])
  BY <1>2, BodyShape
<1> QED  BY <1>1, <1>2, <1>3, AliveIs

(* A variable that flows into the next block and is live there is carried. *)
LEMMA LiveIsCarried ==
  ASSUME LifeInv, live \subseteq Nodes, phase = "run", NEW D, Flows(D), Needs(liveMap, D),
         AtEntry(D), NEW b \in Succs(block), b \in liveMap, ValuedAt(Len(body[block]))
  PROVE  AliveAt(Len(body[block])) /\ b \notin Escaping
<1> DEFINE s == body[block]
           n == Len(s)
<1>1. block \in live /\ s \in Bodies /\ n \in Nat /\ DOMAIN s = 1 .. n
      /\ (AliveAt(n) <=> Carried(n, alive, s, DelAfter(block)))
  BY RunsABlock
<1>2. block \in Outgoing
  BY <1>1 DEF Outgoing
<1>3. DelAfter(block) = {}
  BY <1>2 DEF DelAfter, Internal
<1>4. b \notin Escaping
  BY DEF Escaping, Present
<1> HIDE DEF n
<1>5. CASE \E j \in 1 .. n - 1 : s[j] \in Giving
  BY <1>1, <1>3, <1>4, <1>5 DEF Carried, n
<1>6. CASE \A j \in 1 .. n - 1 : s[j] \notin Giving
  <2>1. valued
    BY <1>6 DEF ValuedAt, Giving, n
  <2>2. block \in D
    BY <2>1 DEF AtEntry
  <2>3. block \notin DefMap
    <3>1. SUFFICES ASSUME NEW i \in DOMAIN s, s[i] = "set" PROVE FALSE
      BY DEF DefMap
    <3>2. i \in 1 .. n - 1
      BY <1>1, <3>1, BodyShape DEF n, Terminators
    <3> QED  BY <1>6, <3>1, <3>2 DEF Giving
  <2>4. block \in Passed(b)
    BY <1>1, <2>3 DEF Passed, Preds, Succs
  <2>5. block \in liveMap
    BY <2>2, <2>4 DEF Needs
  <2>6. alive
    BY <2>1, <2>5 DEF AtEntry
  <2> QED  BY <1>1, <1>3, <1>4, <2>6 DEF Carried, n
<1> QED  BY <1>5, <1>6

(* A variable that the present block does not delete is in what the next   *)
(* one finds.                                                              *)
LEMMA CarriedIsPresent ==
  ASSUME LifeInv, phase = "run", NEW D, Flows(D), Needs(liveMap, D), AtEntry(D),
         NEW b \in Succs(block), b \notin Escaping, AliveAt(Len(body[block]))
  PROVE  b \in Present
<1> DEFINE s == body[block]
           n == Len(s)
<1>1. block \in live /\ s \in Bodies /\ n \in Nat /\ DOMAIN s = 1 .. n
      /\ (AliveAt(n) <=> Carried(n, alive, s, DelAfter(block)))
  BY RunsABlock
<1> HIDE DEF n
<1>2. Carried(n, alive, s, DelAfter(block))
  BY <1>1 DEF n
<1>3. block \in Present
  <2>1. CASE alive
    BY <2>1 DEF AtEntry
  <2>2. CASE \E j \in 1 .. n - 1 : s[j] \in Giving
    <3>1. block \in DefMap \cup UseMap
      BY <1>1, <2>2, GivingPresent
    <3> QED  BY <3>1 DEF Present, Needs
  <2> QED  BY <1>2, <2>1, <2>2 DEF Carried
<1>4. CASE block \in Outgoing
  BY <1>3, <1>4 DEF Escaping
<1>5. CASE block \notin Outgoing
  <2>1. block \in Internal
    BY <1>3, <1>5 DEF Internal
  <2>2. CASE \E i \in 1 .. n - 1 : s[i] \in Mentions
    <3>1. PICK k \in 1 .. n - 1 : k \in DelAfter(block)
                                  /\ \A j \in k + 1 .. n - 1 : s[j] \notin Mentions
      BY <1>1, <2>1, <2>2, DelComes DEF n
    <3>2. CASE \A j \in 1 .. n - 1 : j \notin DelAfter(block)
      BY <3>1, <3>2
    <3>3. ASSUME NEW j \in 1 .. n - 1, s[j] \in Giving,
                 \A m \in j .. n - 1 : m \notin DelAfter(block)
          PROVE  FALSE
      <4>1. j \notin k + 1 .. n - 1
        BY <3>1, <3>3 DEF Giving, Mentions, Reading
      <4>2. k \in j .. n - 1
        BY <1>1, <4>1
      <4> QED  BY <3>1, <3>3, <4>2
    <3> QED  BY <1>2, <3>2, <3>3 DEF Carried
  <2>3. CASE \A i \in 1 .. n - 1 : s[i] \notin Mentions
    <3>1. \A i \in DOMAIN s : s[i] \notin Mentions
      <4>1. s[n] \in Terminators /\ s[n] # "branch"
        BY <1>1, <1>5, BodyShape DEF Outgoing, n
      <4>2. s[n] \notin Mentions
        BY <4>1 DEF Terminators, Mentions, Reading
      <4> QED  BY <1>1, <2>3, <4>2
    <3>2. block \notin DefMap /\ block \notin UseMap
      BY <3>1 DEF DefMap, UseMap, Mentions
    <3>3. block \in liveMap
      BY <1>3, <3>2 DEF Present
    <3>4. Succs(block) \cap liveMap # {}
      BY <3>2, <3>3, LiveForSuccessor
    <3> QED  BY <1>1, <1>5, <3>4 DEF Outgoing
  <2> QED  BY <2>2, <2>3
<1> QED  BY <1>4, <1>5

(* No read of the block that runs finds the variable deleted.              *)
LEMMA ReadIsAlive ==
  ASSUME LifeInv, phase = "run", NEW D, Flows(D), Needs(liveMap, D), AtEntry(D),
         NEW i \in DOMAIN body[block], body[block][i] \in Reading, ValuedAt(i)
  PROVE  AliveAt(i)
<1> DEFINE s == body[block]
<1>1. block \in live /\ s \in Bodies /\ Len(s) \in Nat /\ DOMAIN s = 1 .. Len(s)
  BY RunsABlock
<1>2. i \in Nat /\ i >= 1 /\ alive \in BOOLEAN
  BY <1>1 DEF LifeInv
<1>3. AliveAt(i) <=> Carried(i, alive, s, DelAfter(block))
  BY <1>2, AliveIs
<1>4. \A j \in 1 .. i - 1 : j \notin DelAfter(block)
  BY <1>1, NoDelBeforeRead
<1>5. CASE \E j \in 1 .. i - 1 : s[j] \in Giving
  <2>1. PICK j \in 1 .. i - 1 : s[j] \in Giving
    BY <1>5
  <2>2. \A m \in j .. i - 1 : m \in 1 .. i - 1
    BY <1>2
  <2> QED  BY <1>3, <1>4, <2>1, <2>2 DEF Carried
<1>6. CASE \A j \in 1 .. i - 1 : s[j] \notin Giving
  <2>1. valued
    BY <1>6 DEF ValuedAt, Giving
  <2>2. block \in UseMap
    BY <1>1, <1>6 DEF UseMap, SetBefore, Giving
  <2>3. alive
    BY <2>1, <2>2 DEF AtEntry, Needs
  <2> QED  BY <1>3, <1>4, <2>3 DEF Carried
<1> QED  BY <1>5, <1>6

-----------------------------------------------------------------------------
(* The steps                                                               *)

LEMMA LifeInitially == Init => LifeInv
<1> SUFFICES ASSUME Init PROVE LifeInv
  OBVIOUS
<1>1. passes = << "process" >> /\ phase = "written" /\ block = Entry /\ valued = FALSE
      /\ alive = FALSE
  BY DEF Init, GraphInit, LifetimeInit
<1>2. passes # << "lifetimes" >>
  BY <1>1
<1> QED  BY <1>1, <1>2 DEF LifeInv

(* While the graph and the bodies stay, so does what is computed of them.  *)
LEMMA MapsStay ==
  ASSUME UNCHANGED << edges, live, body >>
  PROVE  /\ \A b : UNCHANGED << Succs(b), Passed(b) >>
         /\ UNCHANGED << DefMap, UseMap, ExitPoints, ExitDead >>
         /\ \A D : Flows(D)' = Flows(D)
         /\ \A L, D : Needs(L, D)' = Needs(L, D)
<1>1. \A b : UNCHANGED Succs(b)
  BY DEF Succs
<1>2. UNCHANGED DefMap
  BY DEF DefMap
<1>3. UNCHANGED UseMap
  BY DEF UseMap, SetBefore
<1>4. \A b : UNCHANGED Passed(b)
  BY <1>2 DEF Passed, Preds
<1>5. UNCHANGED ExitPoints
  BY <1>1 DEF ExitPoints
<1>6. UNCHANGED ExitDead
  BY <1>5 DEF ExitDead
<1>7. \A D : Flows(D)' = Flows(D)
  BY <1>1, <1>2, <1>3 DEF Flows
<1>8. \A L, D : Needs(L, D)' = Needs(L, D)
  BY <1>3, <1>4 DEF Needs
<1> QED  BY <1>1, <1>2, <1>3, <1>4, <1>5, <1>6, <1>7, <1>8

LEMMA DeadMapsStay ==
  ASSUME UNCHANGED << edges, live, body, liveMap >>
  PROVE  UNCHANGED << Present, Internal, Escaping >>
<1>1. /\ \A b : UNCHANGED Succs(b)
      /\ UNCHANGED << DefMap, UseMap >>
  BY MapsStay
<1>2. UNCHANGED Present
  BY <1>1 DEF Present
<1>3. UNCHANGED Outgoing
  BY <1>1 DEF Outgoing
<1> QED  BY <1>1, <1>2, <1>3 DEF Internal, Escaping

LEMMA LifeFrame ==
  ASSUME LifeInv, UNCHANGED << edges, live, passes, lifetimeVars >>
  PROVE  LifeInv'
<1>1. UNCHANGED << body, liveMap, phase, block, valued, alive >>
  BY DEF lifetimeVars
<1>2. /\ UNCHANGED << Present, Internal, Escaping, ExitDead, ExitPoints >>
      /\ \A D : Flows(D)' = Flows(D)
      /\ \A L, D : Needs(L, D)' = Needs(L, D)
  BY <1>1, MapsStay, DeadMapsStay
<1>3. \A D : AtEntry(D)' = AtEntry(D)
  BY <1>1, <1>2 DEF AtEntry
<1>4. phase # "written" => \E D : Flows(D)' /\ Needs(liveMap, D)' /\ AtEntry(D)'
  <2> SUFFICES ASSUME phase # "written"
               PROVE  \E D : Flows(D)' /\ Needs(liveMap, D)' /\ AtEntry(D)'
    OBVIOUS
  <2>1. PICK D : Flows(D) /\ Needs(liveMap, D) /\ AtEntry(D)
    BY DEF LifeInv
  <2> QED  BY <1>1, <1>2, <1>3, <2>1
<1> QED  BY <1>1, <1>2, <1>4 DEF LifeInv

(* Before Write nothing of the lifetimes is known but their start.         *)
LEMMA LifeBegins ==
  ASSUME LifeInv, passes # << "lifetimes" >>, UNCHANGED << liveMap, phase, block, valued, alive >>,
         passes' = << "lifetimes" >> => body' \in [live' -> Bodies]
  PROVE  LifeInv'
BY DEF LifeInv

LEMMA WriteLife ==
  ASSUME GraphInv, LifeInv, Write
  PROVE  LifeInv'
<1>1. passes = << >> /\ UNCHANGED << live, liveMap, phase, block, valued, alive >>
      /\ body' \in [live -> Bodies]
  BY DEF Write, Continue, Done
<1> QED  BY <1>1, LifeBegins

LEMMA ComputeLiveMapLife ==
  ASSUME GraphInv, LifeInv, ComputeLiveMap
  PROVE  LifeInv'
<1>1. /\ passes # << >> /\ Head(passes) = "lifetimes" /\ phase = "written"
      /\ liveMap' = LiveMap /\ phase' = "live"
      /\ UNCHANGED << edges, live, passes, body, block, valued, alive >>
  BY DEF ComputeLiveMap, Pass, graphVars
<1>2. passes = << "lifetimes" >>
  BY <1>1 DEF GraphInv, Agendas
<1>3. IsFiniteSet(live) /\ edges \subseteq live \X live /\ Entry \in live
  BY <1>2, GraphAssumption, FS_Subset DEF GraphInv, Reached
<1>4. Flows(DefReach) /\ Needs(LiveMap, DefReach)
  BY <1>3, FlowsIsReached, NeedsIsLiveMap
<1>5. PICK D : D = DefReach
  OBVIOUS
<1>6. PICK L : L = LiveMap
  OBVIOUS
<1>7. Flows(D)' /\ Needs(L, D)'
  BY <1>1, <1>4, <1>5, <1>6, MapsStay
<1>8. Needs(liveMap, D)'
  BY <1>1, <1>6, <1>7 DEF Needs
<1>9. AtEntry(D)'
  BY <1>1, <1>3 DEF AtEntry, LifeInv
<1> QED  BY <1>1, <1>2, <1>7, <1>8, <1>9 DEF LifeInv

LEMMA ComputeDeadMapsLife ==
  ASSUME LifeInv, ComputeDeadMaps
  PROVE  LifeInv'
<1>1. phase = "live" /\ UNCHANGED << edges, live, passes, body, liveMap, block, valued, alive >>
  BY DEF ComputeDeadMaps, graphVars
<1>2. /\ UNCHANGED << Present, Internal, Escaping, ExitDead, ExitPoints >>
      /\ \A D : Flows(D)' = Flows(D)
      /\ \A L, D : Needs(L, D)' = Needs(L, D)
  BY <1>1, MapsStay, DeadMapsStay
<1>3. PICK D : Flows(D) /\ Needs(liveMap, D) /\ AtEntry(D)
  BY <1>1 DEF LifeInv
<1>4. Flows(D)' /\ Needs(liveMap, D)' /\ AtEntry(D)'
  BY <1>1, <1>2, <1>3 DEF AtEntry
<1>5. \/ phase' = "run"
      \/ phase' = "raised" /\ liveMap # {} /\ Internal \cup Escaping \cup ExitDead = {}
         /\ ExitPoints # {}
  BY DEF ComputeDeadMaps
<1> QED  BY <1>1, <1>2, <1>4, <1>5 DEF LifeInv

LEMMA FollowLife ==
  ASSUME GraphInv, LifeInv, Follow
  PROVE  LifeInv'
<1>1. /\ phase = "run" /\ valued' = ValuedAt(Len(body[block]))
      /\ UNCHANGED << edges, live, passes, body, liveMap, phase >>
  BY DEF Follow, graphVars
<1>2. PICK b \in Succs(block) : block' = b /\ alive' = (AliveAt(Len(body[block])) /\ b \notin Escaping)
  BY DEF Follow, Arrive
<1>3. PICK D : Flows(D) /\ Needs(liveMap, D) /\ AtEntry(D)
  BY <1>1 DEF LifeInv
<1>4. passes = << "lifetimes" >> /\ block \in live /\ body[block] \in Bodies
      /\ DOMAIN body[block] = 1 .. Len(body[block]) /\ Len(body[block]) \in Nat
  BY <1>1, <1>3, RunsABlock
<1>5. live \subseteq Nodes /\ edges \subseteq live \X live
  BY <1>4 DEF GraphInv, Reached
<1>6. /\ UNCHANGED << Present, Internal, Escaping, ExitDead, ExitPoints >>
      /\ Flows(D)' = Flows(D) /\ Needs(liveMap, D)' = Needs(liveMap, D)
  <2>1. \A L : Needs(L, D)' = Needs(L, D)
    BY <1>1, MapsStay
  <2>2. Needs(liveMap, D)'
    BY <1>1, <1>3, <2>1 DEF Needs
  <2> QED  BY <1>1, <1>3, <2>2, MapsStay, DeadMapsStay
<1>7. b \in live
  BY <1>5 DEF Succs
<1>8. valued' => b \in D
  <2> SUFFICES ASSUME valued' PROVE block \in D
    BY <1>2, <1>3 DEF Flows
  <2>1. CASE valued
    BY <1>3, <2>1 DEF AtEntry
  <2>2. CASE \E j \in 1 .. Len(body[block]) - 1 : body[block][j] \in {"set", "update"}
    <3>1. PICK j \in DOMAIN body[block] : body[block][j] \in Giving
      BY <1>4, <2>2 DEF Giving
    <3>2. block \in DefMap \cup UseMap
      BY <1>4, <3>1, GivingPresent
    <3> QED  BY <1>3, <3>2 DEF Flows
  <2> QED  BY <1>1, <2>1, <2>2 DEF ValuedAt
<1>9. valued' /\ b \in liveMap => alive'
  <2> SUFFICES ASSUME valued', b \in liveMap PROVE alive'
    OBVIOUS
  <2>1. ValuedAt(Len(body[block]))
    BY <1>1
  <2> QED  BY <1>1, <1>2, <1>3, <1>5, <2>1, LiveIsCarried
<1>10. alive' => b \in Present
  BY <1>1, <1>2, <1>3, CarriedIsPresent
<1>11. AtEntry(D)'
  BY <1>1, <1>2, <1>6, <1>7, <1>8, <1>9, <1>10 DEF AtEntry
<1>12. valued' \in BOOLEAN /\ alive' \in BOOLEAN
  <2>1. ValuedAt(Len(body[block])) \in BOOLEAN
    BY DEF ValuedAt, LifeInv
  <2> QED  BY <1>1, <1>2, <2>1
<1>13. Flows(D)' /\ Needs(liveMap, D)'
  BY <1>3, <1>6
<1> QED  BY <1>1, <1>4, <1>11, <1>12, <1>13 DEF LifeInv

LEMMA LifePreserved == GraphInv /\ LifeInv /\ [Next]_vars => LifeInv'
<1> SUFFICES ASSUME GraphInv, LifeInv, [Next]_vars PROVE LifeInv'
  OBVIOUS
<1>1. CASE UNCHANGED << edges, live, passes, lifetimeVars >>
  BY <1>1, LifeFrame
<1>2. ASSUME passes # << "lifetimes" >>, passes' # << "lifetimes" >>, UNCHANGED lifetimeVars
      PROVE  LifeInv'
  BY <1>2, LifeBegins DEF lifetimeVars
<1>3. CASE Process /\ UNCHANGED lifetimeVars
  <2>1. passes = << "process" >> /\ passes' \in Requests
    BY <1>3 DEF Process, Pass, GraphInv, Agendas
  <2>2. passes # << "lifetimes" >> /\ passes' # << "lifetimes" >>
    BY <2>1 DEF Requests
  <2> QED  BY <1>2, <1>3, <2>2
<1>4. ASSUME passes # << >>, Head(passes) \in Analyses, passes' = Tail(passes),
             UNCHANGED lifetimeVars
      PROVE  LifeInv'
  <2>1. passes # << "lifetimes" >> /\ Tail(passes) # << "lifetimes" >>
    BY <1>4, NoLifetimesBehind DEF GraphInv
  <2> QED  BY <1>2, <1>4, <2>1
<1>5. CASE SearchEnds /\ UNCHANGED lifetimeVars
  <2>1. passes # << >> /\ Head(passes) \in Analyses /\ UNCHANGED << edges, live >>
    BY <1>5 DEF SearchEnds, Searching, Done
  <2>2. passes' = passes \/ passes' = Tail(passes)
    BY <1>5 DEF SearchEnds, NextPass
  <2> QED  BY <1>1, <1>4, <1>5, <2>1, <2>2
<1>6. CASE SweepEnds /\ UNCHANGED lifetimeVars
  <2>1. passes # << >> /\ Head(passes) \in Analyses /\ UNCHANGED << edges, live >>
    BY <1>6 DEF SweepEnds, GraphInv, Pass, Analyses
  <2>2. passes' = passes \/ passes' = Tail(passes)
    BY <1>6 DEF SweepEnds, NextPass
  <2> QED  BY <1>1, <1>4, <1>6, <2>1, <2>2
<1>7. CASE (Visit \/ Leave \/ Sweep) /\ UNCHANGED lifetimeVars
  BY <1>1, <1>7 DEF Visit, Leave, Sweep
<1>8. CASE FreshVars /\ UNCHANGED lifetimeVars
  <2>1. passes = << >> /\ passes' = << "ssa" >>
    BY <1>8 DEF FreshVars, Continue, Done
  <2>2. passes # << "lifetimes" >> /\ passes' # << "lifetimes" >>
    BY <2>1
  <2> QED  BY <1>2, <1>8, <2>2
<1>9. CASE UNCHANGED graphVars /\ UNCHANGED lifetimeVars
  BY <1>1, <1>9 DEF graphVars
<1>10. GraphStep => Process \/ SearchEnds \/ SweepEnds \/ Visit \/ Leave \/ Sweep
  BY DEF GraphStep
<1>11. SsaStep => FreshVars \/ UNCHANGED graphVars
  BY DEF SsaStep, FixRead, FixInput, Run, Jump
<1>12. LifetimeStep => Write \/ ComputeLiveMap \/ ComputeDeadMaps \/ Follow
  BY DEF LifetimeStep
<1> QED  BY <1>3, <1>5, <1>6, <1>7, <1>8, <1>9, <1>10, <1>11, <1>12, WriteLife,
             ComputeLiveMapLife, ComputeDeadMapsLife, FollowLife DEF Next, vars

-----------------------------------------------------------------------------
(* Rejected functions                                                      *)

(* What the variable reaches and no block lets go of goes round in a loop. *)
LEMMA KeptGoesRound ==
  ASSUME IsFiniteSet(Nodes), live \subseteq Nodes, edges \subseteq live \X live,
         NEW K, K \subseteq live, K # {}, \A n \in K : Succs(n) \subseteq K
  PROVE  \E C \in SUBSET K :
           /\ C # {} /\ C \subseteq Settled
           /\ \A n \in C : Succs(n) \subseteq C
<1>1. ASSUME NEW m \in Nodes
      PROVE  /\ Reach({m}, {}) \in SUBSET Nodes /\ m \in Reach({m}, {})
             /\ Closed(Reach({m}, {}), {})
             /\ \A U \in SUBSET Nodes : m \in U /\ Closed(U, {}) => Reach({m}, {}) \subseteq U
  <2>1. {m} \in SUBSET Nodes /\ {m} \ {} = {m}
    OBVIOUS
  <2> QED  BY <2>1, ReachIsClosure
<1>2. PICK from : from = [m \in Nodes |-> Reach({m}, {})]
  OBVIOUS
<1>3. PICK n \in K : \A m \in K : Reach({m}, {}) \subseteq Reach({n}, {})
                                    => Reach({m}, {}) = Reach({n}, {})
  <2>1. PICK X : X = {from[m] : m \in K}
    OBVIOUS
  <2>2. \A m \in K : m \in Nodes /\ from[m] = Reach({m}, {})
    BY <1>2
  <2>3. \A m \in K : from[m] \in SUBSET Nodes
    BY <1>1, <2>2
  <2>4. X \subseteq SUBSET Nodes /\ X # {}
    BY <2>1, <2>3
  <2>5. PICK S \in X : \A T \in X : T \subseteq S => T = S
    BY <2>4, SmallestSet
  <2>6. PICK n \in K : S = from[n]
    BY <2>1
  <2>7. \A m \in K : from[m] \subseteq from[n] => from[m] = from[n]
    BY <2>1, <2>5, <2>6
  <2>8. ASSUME NEW m \in K, Reach({m}, {}) \subseteq Reach({n}, {})
        PROVE  Reach({m}, {}) = Reach({n}, {})
    <3>1. from[m] = Reach({m}, {}) /\ from[n] = Reach({n}, {})
      BY <2>2
    <3> QED  BY <2>7, <2>8, <3>1
  <2> QED  BY <2>8
<1>4. PICK C : C = Reach({n}, {})
  OBVIOUS
<1>5. C \in SUBSET Nodes /\ n \in C /\ Closed(C, {})
  BY <1>1, <1>4
<1>6. Closed(K, {})
  BY DEF Closed, Succs
<1>7. C \subseteq K
  BY <1>1, <1>4, <1>6
<1>8. ASSUME NEW m \in C
      PROVE  Reach({m}, {}) = C
  <2>1. Reach({m}, {}) \subseteq C
    BY <1>1, <1>5
  <2> QED  BY <1>3, <1>4, <1>7, <2>1
<1>9. C \subseteq Settled
  BY <1>5, <1>7, <1>8 DEF Settled
<1>10. \A m \in C : Succs(m) \subseteq C
  BY <1>5 DEF Closed, Succs
<1> QED  BY <1>5, <1>7, <1>9, <1>10

LEMMA RejectedIsEarned ==
  ASSUME GraphInv, LifeInv, phase = "raised"
  PROVE  (UseMap \cup DefMap) \cap (Settled \ ExitPoints) # {}
<1>1. PICK D : Flows(D) /\ Needs(liveMap, D)
  BY DEF LifeInv
<1>2. liveMap # {} /\ Internal = {} /\ Escaping = {} /\ ExitDead = {}
  BY DEF LifeInv
<1>3. IsFiniteSet(Nodes) /\ live \subseteq Nodes /\ edges \subseteq live \X live
  <2>1. passes = << "lifetimes" >>
    BY DEF LifeInv
  <2>2. passes # << "process" >>
    BY <2>1
  <2> QED  BY <2>2, GraphAssumption DEF GraphInv, Reached
<1>4. Present \subseteq live /\ Present # {}
  BY <1>1, <1>2 DEF Present, Needs, DefMap
<1>5. Present \subseteq Outgoing
  BY <1>2 DEF Internal
<1>6. \A n \in Present : Succs(n) \subseteq Present
  BY <1>2, <1>5 DEF Escaping
<1>7. Present \cap ExitPoints = {}
  <2> SUFFICES ASSUME NEW n \in Present, n \in ExitPoints PROVE FALSE
    OBVIOUS
  <2>1. Succs(n) = {}
    BY DEF ExitPoints
  <2>2. Last(body[n]) = "branch"
    BY <1>5, <2>1 DEF Outgoing
  <2> QED  BY <1>2, <2>2 DEF ExitDead
<1>8. PICK C \in SUBSET Present : C # {} /\ C \subseteq Settled
                                  /\ \A n \in C : Succs(n) \subseteq C
  BY <1>3, <1>4, <1>6, KeptGoesRound
<1>9. SUFFICES ASSUME C \cap (UseMap \cup DefMap) = {} PROVE FALSE
  BY <1>7, <1>8
<1>10. C \subseteq liveMap
  BY <1>9 DEF Present
<1>11. PICK U \in SUBSET live : U = liveMap \ C
  BY <1>1 DEF Needs
<1>12. UseMap \subseteq U
  BY <1>1, <1>9, <1>11 DEF Needs
<1>13. ASSUME NEW x \in U, NEW p \in Passed(x) \cap D
       PROVE  p \in U
  <2>1. p \in liveMap
    BY <1>1, <1>11, <1>13 DEF Needs
  <2>2. x \in Succs(p)
    BY <1>3, <1>11, <1>13 DEF Passed, Preds, Succs
  <2>3. p \notin C
    BY <1>8, <1>11, <2>2
  <2> QED  BY <1>11, <2>1, <2>3
<1>14. liveMap \subseteq U
  BY <1>1, <1>12, <1>13 DEF Needs
<1> QED  BY <1>8, <1>10, <1>11, <1>14

-----------------------------------------------------------------------------
(* The theorem                                                             *)

LEMMA LifetimesFollow ==
  ASSUME GraphInv, LifeInv
  PROVE  LifetimesRight
<1>1. phase # "written" => \E D : Flows(D) /\ Needs(liveMap, D) /\ AtEntry(D)
  BY DEF LifeInv
<1>2. ReadsAlive
  BY <1>1, ReadIsAlive DEF ReadsAlive
<1>3. NotKept
  BY <1>1 DEF NotKept, AtEntry
<1>4. RejectionIsEarned
  BY RejectedIsEarned DEF RejectionIsEarned
<1> QED  BY <1>2, <1>3, <1>4 DEF LifetimesRight

(* compute_live_map, compute_dead_maps and _patch_var_dels, in any         *)
(* function: on whatever path a run takes, no statement reads a variable   *)
(* after its Del; a variable is handed on only to a block that reads it    *)
(* first, leads to such a read, or assigns it; and "liveness info missing  *)
(* for vars" is raised only if a loop without an exit mentions the         *)
(* variable.                                                               *)
THEOREM LifetimesAreRight == Spec => []LifetimesRight
<1>1. Init => GraphInv /\ LifeInv
  BY GraphInitially, LifeInitially
<1>2. GraphInv /\ LifeInv /\ [Next]_vars => (GraphInv /\ LifeInv)'
  BY GraphPreserved, LifePreserved
<1>3. GraphInv /\ LifeInv => LifetimesRight
  BY LifetimesFollow
<1> QED  BY <1>1, <1>2, <1>3, PTL DEF Spec
=============================================================================
