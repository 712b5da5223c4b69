-------------------------- MODULE SsaReconstruction --------------------------
(***************************************************************************)
(* reconstruct_ssa (numba_cuda/core/ssa.py) for one variable that violates *)
(* SSA form, and _strip_phi_nodes of PreLowerStripPhis (typed_passes.py),  *)
(* after which the function is lowered.  Both use the control-flow graph.  *)
(*                                                                         *)
(* A block may read the variable and then may assign it; a read after an   *)
(* assignment in the same block always finds that one.  The function is    *)
(* then run: `current` are the new variables that hold what the original   *)
(* variable would hold now, so that a value is never represented itself.   *)
(***************************************************************************)
EXTENDS ControlFlow

CONSTANT Undefined      \* no definition

VARIABLES
    stage,          \* "analysis", "rewrite" or "run"
    reads, assigns, \* the blocks that read first and that assign
    phiLocations,   \* the blocks where a phi node belongs
    left,           \* blocks whose read has still to be fixed
    fixed,          \* the definition that each read was given
    phis,           \* blocks that begin with a phi node
    pending,        \* << block, predecessor >> whose phi input is searched
    incoming,       \* the phi inputs found
    at,             \* the block that runs
    assigned,       \* whether the original variable has a value
    current         \* the new variables that hold it

program == << reads, assigns, phiLocations >>
ssaVars == << stage, program, left, fixed, phis, pending, incoming, at, assigned, current >>

(* New variables: one per assignment and one per phi node                  *)
Def(b) == << "def", b >>
Phi(b) == << "phi", b >>
Definitions == {"def", "phi"} \X Nodes

ASSUME UndefinedAssumption == Undefined \notin Definitions

SsaInit ==
    /\ stage = "analysis"
    /\ reads = {} /\ assigns = {} /\ phiLocations = {} /\ left = {}
    /\ fixed = << >> /\ phis = {} /\ pending = {} /\ incoming = << >>
    /\ at = Entry /\ assigned = FALSE /\ current = {}

(* _iterated_domfronts and _compute_phi_locations                          *)
IteratedFrontier(b) ==
    LET grow[S \in SUBSET live] ==
          LET T == S \cup UNION {Frontier(n) : n \in S}
          IN  IF T = S THEN S ELSE grow[T]
    IN  grow[Frontier(b)]

PhiLocations(defs) == UNION {IteratedFrontier(b) : b \in defs}

(* _find_defs_violators: several assignments, or a read that the only one  *)
(* does not dominate                                                       *)
Violates(defs, uses) ==
    \/ Cardinality(defs) > 1
    \/ \E u \in uses : Chain(idom, u) \cap defs = {}

(* Some variable is one of the violators, and its assignments get fresh    *)
(* names.                                                                  *)
FreshVars ==
    /\ idom # None /\ Continue("ssa")
    /\ \E defs, uses \in SUBSET live :
         /\ Violates(defs, uses)
         /\ assigns' = defs /\ reads' = uses /\ left' = uses
         /\ phiLocations' = PhiLocations(defs)
    /\ stage' = "rewrite"
    /\ UNCHANGED << edges, live, path, order, sweep, changed, tree, results, fixed, phis,
                    pending, incoming, at, assigned, current >>

(* _walk_def_chain: from the bottom of a block its last definition; from   *)
(* its top a phi node where one belongs, or else the immediate dominator's *)
(* definition.                                                             *)
FromBottom(block) ==
    LET walk[b \in live] ==
          IF b \in assigns THEN Def(b)
          ELSE IF b \in phiLocations THEN Phi(b)
          ELSE IF idom[b] = b THEN Undefined
          ELSE walk[idom[b]]
    IN  walk[block]

FromTop(b) ==
    IF b \in phiLocations THEN Phi(b)
    ELSE IF idom[b] = b THEN Undefined
    ELSE FromBottom(idom[b])

(* A phi node that is new has its inputs searched after the rest.          *)
Inserted(d, rest) ==
    IF d # Undefined /\ d[1] = "phi" /\ d[2] \notin phis
    THEN phis' = phis \cup {d[2]} /\ pending' = rest \cup ({d[2]} \X Preds(d[2]))
    ELSE pending' = rest /\ UNCHANGED phis

(* _find_def for the read in b                                             *)
FixRead ==
    /\ stage = "rewrite" /\ pending = {}
    /\ \E b \in left :
         /\ fixed' = [x \in {b} \cup DOMAIN fixed |-> IF x = b THEN FromTop(b) ELSE fixed[x]]
         /\ Inserted(FromTop(b), {})
         /\ left' = left \ {b}
    /\ UNCHANGED << graphVars, stage, program, incoming, at, assigned, current >>

(* The worklist of _find_def_from_top; its order only numbers variables.   *)
FixInput ==
    /\ stage = "rewrite"
    /\ \E p \in pending :
         /\ incoming' = [x \in {p} \cup DOMAIN incoming |->
                           IF x = p THEN FromBottom(p[2]) ELSE incoming[x]]
         /\ Inserted(FromBottom(p[2]), pending \ {p})
    /\ UNCHANGED << graphVars, stage, program, left, fixed, at, assigned, current >>

-----------------------------------------------------------------------------
(* Running the function, its phi nodes stripped                            *)

(* Block b exports to the phi nodes of its successors what each takes from *)
(* it, held being the variables with the present value.                    *)
Exports(b, targets, held) ==
    (held \ {Phi(t) : t \in targets})
        \cup {Phi(t) : t \in {u \in targets : incoming[<< u, b >>] \in held}}

(* Mutated form: every export comes first in its block.                    *)
MutantExportedLast(b) == {}

(* An export comes after the last assignment of what it exports, when that *)
(* is in the block, and else first in the block.                           *)
ExportedLast(b) == {t \in Succs(b) \cap phis : incoming[<< t, b >>] = Def(b)}

Enter(b, held) ==
    /\ at' = b
    /\ current' = Exports(b, (Succs(b) \cap phis) \ ExportedLast(b), held)

Run ==
    /\ stage = "rewrite" /\ left = {} /\ pending = {}
    /\ stage' = "run"
    /\ Enter(Entry, {})
    /\ UNCHANGED << graphVars, program, left, fixed, phis, pending, incoming, assigned >>

(* The block's assignment makes a new value; one of its successors is next.*)
Jump ==
    /\ stage = "run"
    /\ assigned' = (assigned \/ at \in assigns)
    /\ \E b \in Succs(at) :
         Enter(b, IF at \in assigns THEN Exports(at, ExportedLast(at), {Def(at)}) ELSE current)
    /\ UNCHANGED << graphVars, stage, program, left, fixed, phis, pending, incoming >>

SsaStep == FreshVars \/ FixRead \/ FixInput \/ Run \/ Jump

-----------------------------------------------------------------------------
(* Properties                                                              *)

SsaTypeOK ==
    /\ stage \in {"analysis", "rewrite", "run"}
    /\ {reads, assigns, phiLocations, left, phis} \subseteq SUBSET live
    /\ \A b \in DOMAIN fixed : b \in reads /\ fixed[b] \in Definitions \cup {Undefined}
    /\ DOMAIN incoming \cup pending \subseteq phis \X live
    /\ at \in Nodes /\ assigned \in BOOLEAN /\ current \subseteq Definitions

(* Whatever way a run takes, a read of the variable finds the value it was *)
(* last given, though assignments, phi nodes and the exports that replace  *)
(* these have put it into several variables.                               *)
SsaFaithful == stage = "run" /\ at \in reads /\ assigned => fixed[at] \in current
=============================================================================
