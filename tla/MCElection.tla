----------------------------- MODULE MCElection -----------------------------
(* Small instances of Election.  Elections treat all node ids alike, so the   *)
(* permutations of the nodes that are configured alike are a symmetry.        *)
EXTENDS Election, TLC

NodeSymmetry == Permutations(Node \ Seed)

=============================================================================
