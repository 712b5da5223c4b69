-------------------------- MODULE MCNativeLauncher --------------------------
(* Instances of NativeLauncher for TLC.                                    *)
EXTENDS NativeLauncher, TLC

CONSTANTS int, arr, rec

(* One profile of each kind, each of a family of its own.                  *)
MCKindOf == [p \in Profiles |-> CASE p = int -> "scalar"
                                  [] p = arr -> "array"
                                  [] OTHER -> "record"]
MCFamilyOf == [p \in Profiles |-> p]

Symmetry == Permutations(Threads)
=============================================================================
