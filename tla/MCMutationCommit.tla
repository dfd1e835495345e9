-------------------------- MODULE MCMutationCommit --------------------------
(* Three requests on two servers of one process, over two grants.           *)
EXTENDS MutationCommit, TLC

CONSTANTS r1, r2, r3, s1, s2

MCServerOf == r1 :> s1 @@ r2 :> s1 @@ r3 :> s2
Symmetry == Permutations({r1, r2})
=============================================================================
