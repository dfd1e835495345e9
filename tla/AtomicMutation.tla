--------------------------- MODULE AtomicMutation ---------------------------
(***************************************************************************)
(* What the live mutation tools promise, without threads, timeouts, locks  *)
(* or permits: every request is decided once.  It is either void, and then *)
(* it never spends a grant, or it commits by spending a grant nobody spent *)
(* before, and then it succeeds or fails.                                  *)
(***************************************************************************)
CONSTANTS Requests, Grants

VARIABLES
    status,  \* how far each request got
    spentBy  \* the requests that spent each grant

vars == <<status, spentBy>>

Status == {"undecided", "void", "committed", "succeeded", "failed"}

Init ==
    /\ status = [r \in Requests |-> "undecided"]
    /\ spentBy = [g \in Grants |-> {}]

\* A denial, a failure before the commit point, or a cancellation.
Void(r) ==
    /\ status[r] = "undecided"
    /\ status' = [status EXCEPT ![r] = "void"]
    /\ UNCHANGED spentBy

\* The commit point: the one place where a grant is spent.
Commit(r, g) ==
    /\ status[r] = "undecided"
    /\ spentBy[g] = {}
    /\ status' = [status EXCEPT ![r] = "committed"]
    /\ spentBy' = [spentBy EXCEPT ![g] = {r}]

Decide(r, verdict) ==
    /\ status[r] = "committed"
    /\ status' = [status EXCEPT ![r] = verdict]
    /\ UNCHANGED spentBy

Next ==
    \E r \in Requests :
        \/ Void(r)
        \/ \E g \in Grants : Commit(r, g)
        \/ \E verdict \in {"succeeded", "failed"} : Decide(r, verdict)

Spec == Init /\ [][Next]_vars
=============================================================================
