--------------------------- MODULE MCSessionStore ---------------------------
(* Small instances of SessionStore: one about time, one about SSE replay.   *)
EXTENDS SessionStore

CONSTANTS r1, r2, s1, s2, x1, x2, x3

Symmetry == Permutations(Requests) \cup Permutations(SessionIds)
            \cup Permutations(StreamIds)
=============================================================================
