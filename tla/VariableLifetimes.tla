-------------------------- MODULE VariableLifetimes --------------------------
(***************************************************************************)
(* The lifetime of a variable: compute_use_defs, compute_live_map and      *)
(* compute_dead_maps (numba_cuda/core/analysis.py), and the Del statements *)
(* that PostProcessor._patch_var_dels (postproc.py) inserts.  All of them  *)
(* treat each variable by itself, so one variable is modelled.             *)
(*                                                                         *)
(* The function with its Dels is then run, along any path of its graph.    *)
(***************************************************************************)
EXTENDS ControlFlow

CONSTANT Bodies     \* the statements that a block can have, its terminator last

(* What a statement does with the variable.  An update is one assignment   *)
(* with the variable on both sides; a branch is a terminator that reads.   *)
Statements  == {"use", "set", "update", "other"}
Terminators == {"jump", "branch"}

ASSUME BodiesAssumption == \A s \in Bodies :
    /\ s \in Seq(Statements \cup Terminators) /\ s # << >>
    /\ Last(s) \in Terminators
    /\ \A i \in 1 .. Len(s) - 1 : s[i] \in Statements

VARIABLES
    body,           \* the statements of each block
    liveMap,        \* the blocks at whose entry the variable is live
    phase,          \* "written", "live", "run" or "raised"
    block,          \* the block that runs
    valued,         \* whether the variable has been assigned
    alive           \* assigned and not deleted since

lifetimeVars == << body, liveMap, phase, block, valued, alive >>

LifetimeInit ==
    /\ body = << >> /\ liveMap = {}
    /\ phase = "written"
    /\ block = Entry
    /\ valued = FALSE /\ alive = FALSE

-----------------------------------------------------------------------------
(* Analyses.  A set of variables per block is here a set of blocks.        *)

Reading == {"use", "update", "branch"}
Mentions == Reading \cup {"set"}

SetBefore(b, i) == \E j \in 1 .. i - 1 : body[b][j] = "set"

(* compute_use_defs: an update is a use and not a definition.              *)
DefMap == {b \in live : \E i \in DOMAIN body[b] : body[b][i] = "set"}
UseMap == {b \in live : \E i \in DOMAIN body[b] : body[b][i] \in Reading /\ ~SetBefore(b, i)}

(* compute_live_map, its two fixed points                                  *)
DefReach ==
    LET grow[S \in SUBSET live] ==
          LET T == S \cup UNION {Succs(b) : b \in S}
          IN  IF T = S THEN S ELSE grow[T]
    IN  grow[DefMap \cup UseMap]

Passed(b) == Preds(b) \ DefMap

LiveMap ==
    LET grow[S \in SUBSET live] ==
          LET T == S \cup ((UNION {Passed(b) : b \in S}) \cap DefReach)
          IN  IF T = S THEN S ELSE grow[T]
    IN  grow[UseMap]

(* Mutated form: what the terminator reads is forgotten.                   *)
MutantOutgoing == {b \in live : Succs(b) \cap liveMap # {}}

(* compute_dead_maps.  What lives on in a successor or is read by the      *)
(* terminator leaves the block; the rest dies in it.                       *)
Outgoing == {b \in live : Succs(b) \cap liveMap # {} \/ Last(body[b]) = "branch"}
Present == liveMap \cup DefMap
Internal == Present \ Outgoing
Escaping == (UNION {Succs(b) : b \in Present \cap Outgoing}) \ Present
ExitDead == {b \in ExitPoints : Last(body[b]) = "branch"}

-----------------------------------------------------------------------------
(* Running                                                                 *)

(* Where _patch_var_dels puts the Del of a variable that dies in b         *)
DelAfter(b) ==
    IF b \in Internal
    THEN {i \in 1 .. Len(body[b]) - 1 :
            /\ body[b][i] \in Mentions
            /\ \A j \in i + 1 .. Len(body[b]) - 1 : body[b][j] \notin Mentions}
    ELSE {}

(* Entering b, the Dels of what its predecessors left have run.            *)
Arrive(b, a) ==
    /\ block' = b
    /\ alive' = (a /\ b \notin Escaping)

Write ==
    /\ idom = None /\ backEdges = None /\ Continue("lifetimes")
    /\ body' \in [live -> Bodies]
    /\ UNCHANGED << edges, live, path, order, sweep, changed, tree, results, liveMap, phase,
                    block, valued, alive >>

ComputeLiveMap ==
    /\ Pass("lifetimes") /\ phase = "written"
    /\ liveMap' = LiveMap
    /\ phase' = "live"
    /\ UNCHANGED << graphVars, body, block, valued, alive >>

(* "liveness info missing for vars", unless nothing can be verified        *)
ComputeDeadMaps ==
    /\ phase = "live"
    /\ phase' = IF liveMap # {} /\ Internal \cup Escaping \cup ExitDead = {} /\ ExitPoints # {}
                THEN "raised" ELSE "run"
    /\ UNCHANGED << graphVars, body, liveMap, block, valued, alive >>

(* Whether the variable is alive before statement i of the present block   *)
AliveAt(i) ==
    LET before[k \in 1 .. i] ==
          IF k = 1 THEN alive
          ELSE /\ k - 1 \notin DelAfter(block)
               /\ body[block][k - 1] \in {"set", "update"} \/ before[k - 1]
    IN  before[i]

ValuedAt(i) == valued \/ \E j \in 1 .. i - 1 : body[block][j] \in {"set", "update"}

Follow ==
    /\ phase = "run"
    /\ valued' = ValuedAt(Len(body[block]))
    /\ \E b \in Succs(block) : Arrive(b, AliveAt(Len(body[block])))
    /\ UNCHANGED << graphVars, body, liveMap, phase >>

LifetimeStep == Write \/ ComputeLiveMap \/ ComputeDeadMaps \/ Follow

-----------------------------------------------------------------------------
(* Properties                                                              *)

LifetimeTypeOK ==
    /\ body = << >> \/ body \in [live -> Bodies]
    /\ phase \in {"written", "live", "run", "raised"}
    /\ liveMap \subseteq live
    /\ block \in Nodes /\ valued \in BOOLEAN /\ alive \in BOOLEAN

(* A statement that reads a variable which has been assigned on the way to *)
(* it does not find it deleted.                                            *)
ReadsAlive ==
    phase = "run" => \A i \in DOMAIN body[block] :
        body[block][i] \in Reading /\ ValuedAt(i) => AliveAt(i)

(* No variable is kept that no path reads: a block is entered with one     *)
(* only if it is read first on some way from there, or assigned in it.     *)
NotKept ==
    phase = "run" /\ alive => block \in Present

(* The analysis gives up only on functions where some loop without an exit *)
(* reads or assigns the variable.                                          *)
RejectionIsEarned ==
    phase = "raised" => (UseMap \cup DefMap) \cap (Settled \ ExitPoints) # {}

LifetimesRight == ReadsAlive /\ NotKept /\ RejectionIsEarned

(* Some path from the entry reads the variable before it has a value.      *)
MayReadUnassigned ==
    LET unset == Reach({Entry}, DefMap)
    IN  UseMap \cap ({Entry} \cup unset \cup UNION {Succs(b) : b \in unset}) # {}

(* analysis.py: "Verify that the dead maps cover all live variables", when *)
(* there are exit points; the program assigns what it reads.               *)
DeadMapsCover == phase = "raised" => MayReadUnassigned
=============================================================================
