-------------------------- MODULE MCKernelDiskCache --------------------------
(* Instances of KernelDiskCache for TLC.                                   *)
EXTENDS KernelDiskCache, TLC

Symmetry == Permutations(Processes) \cup Permutations(Keys)
=============================================================================
