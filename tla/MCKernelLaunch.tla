--------------------------- MODULE MCKernelLaunch ---------------------------
(* Instances of KernelLaunch for TLC.                                      *)
EXTENDS KernelLaunch, TLC

CONSTANTS m1, k1, k2

(* The first marshaller is configured for k1, every other one for k2.      *)
MCKeyOf == [m \in Objects |-> IF m = m1 THEN k1 ELSE k2]

(* All marshallers are configured for the same launch configuration.       *)
SameKey == [m \in Objects |-> k1]

Symmetry == Permutations(Threads)
=============================================================================
