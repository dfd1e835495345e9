---------------------------- MODULE MCGrantReplay ----------------------------
(* A small instance of GrantReplay: two equivalent authorities, a third one *)
(* of their namespace with another capacity, and one of another namespace.  *)
(* The registry has room for one namespace: whoever comes first takes it.   *)
EXTENDS GrantReplay, TLC

CONSTANTS n1, n2, a1, a2, a3, a4, g1, g2, s1, s2, w1, w2

MCNamespaceOf == a1 :> n1 @@ a2 :> n1 @@ a3 :> n2 @@ a4 :> n1
MCCapacityOf == a1 :> 2 @@ a2 :> 2 @@ a3 :> 1 @@ a4 :> 1
MCClockValues == 0..1
MCLifetimes == {1, 2}
Symmetry == Permutations({g1, g2}) \cup Permutations({s1, s2})
            \cup Permutations({w1, w2}) \cup Permutations({a1, a2})
=============================================================================
