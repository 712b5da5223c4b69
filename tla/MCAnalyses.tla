----------------------------- MODULE MCAnalyses -----------------------------
EXTENDS FunctionAnalyses

CONSTANTS n1, n2, n3, n4

(* What a block can do with a variable that one has to carry, loop or test *)
MCBodies == { << "jump" >>, << "use", "jump" >>, << "set", "jump" >>, << "update", "jump" >>,
              << "use", "set", "jump" >>, << "branch" >>, << "set", "branch" >> }

Symmetry == Permutations(Nodes \ {Entry})
=============================================================================
