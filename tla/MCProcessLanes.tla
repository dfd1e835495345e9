--------------------------- MODULE MCProcessLanes ---------------------------
EXTENDS ProcessLanes

\* One permit per lane: the second call meets a full lane.
MCPermits == [l \in {"command", "rish"} |-> 1]

\* Calls of different lanes share nothing, so each lane is met by itself.
MCMixes == [Calls -> {"command"}] \cup [Calls -> {"rish"}]
           \cup {[c \in Calls |-> IF c \in Noisy THEN "provider" ELSE "none"]}
=============================================================================
