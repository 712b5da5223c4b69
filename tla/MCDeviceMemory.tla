--------------------------- MODULE MCDeviceMemory ---------------------------
(* Instances of DeviceMemory for TLC.                                      *)
EXTENDS DeviceMemory, TLC

CONSTANTS d1, d2, h1, p1

(* Two blocks of device memory, one of mapped and one of pinned host       *)
(* memory; any other is registered.                                        *)
MCKindOf == [b \in Blocks |-> CASE b \in {d1, d2} -> "device"
                               [] b = h1 -> "mapped"
                               [] b = p1 -> "pinned"
                               [] OTHER -> "registered"]

Symmetry == Permutations(Threads) \cup Permutations({d1, d2} \cap Blocks)
=============================================================================
