-------------------------- MODULE MCConfigureCache --------------------------
(* Instances of ConfigureCache for TLC.                                    *)
EXTENDS ConfigureCache, TLC

CONSTANTS k1, k2

(* Configurations 1 and 2 differ only in their stream, which is no part of *)
(* the launch-config key; configuration 3 has another grid.                *)
MCLcKeyOf == [cfg \in Configs |-> IF cfg <= 2 THEN k1 ELSE k2]

Symmetry == Permutations(Threads) \cup Permutations(Events)
=============================================================================
