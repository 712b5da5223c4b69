-------------------------- MODULE FunctionAnalyses --------------------------
(***************************************************************************)
(* A function's control-flow graph and its users.  A cached result of the  *)
(* graph is computed for whoever asks first: the requests of ControlFlow   *)
(* are those of loops and their order, of post-dominators, of SSA          *)
(* reconstruction, and of lifetimes, which only follow edges.              *)
(***************************************************************************)
EXTENDS SsaReconstruction, VariableLifetimes

vars == << graphVars, ssaVars, lifetimeVars >>

Init == GraphInit /\ SsaInit /\ LifetimeInit

Next ==
    \/ GraphStep /\ UNCHANGED << ssaVars, lifetimeVars >>
    \/ SsaStep /\ UNCHANGED lifetimeVars
    \/ LifetimeStep /\ UNCHANGED ssaVars

Spec == Init /\ [][Next]_vars

(* The variables have their types.                                         *)
TypeOK == GraphTypeOK /\ SsaTypeOK /\ LifetimeTypeOK
=============================================================================
