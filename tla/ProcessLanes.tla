---------------------------- MODULE ProcessLanes ----------------------------
(***************************************************************************)
(* The tools that start a child process: run_command_profile               *)
(* (command_execution.rs), android_rish_status (rish_backend.rs) and the   *)
(* provider reads (android_provider.rs, android_battery.rs), all of them   *)
(* on top of the supervisor of bounded_process.rs.                         *)
(*                                                                         *)
(* Four parties run concurrently: the caller's future, which may be        *)
(* dropped at an await; the supervisor task, which owns the child and      *)
(* which nobody can drop; for rish a blocking validation; and the process  *)
(* group itself, a leader and possibly a descendant that keeps the pipes   *)
(* open.  The command lane keeps its permit in the caller's future, the    *)
(* rish lane hands it on to validation and then to the supervisor, and the *)
(* provider reads have no lane.                                            *)
(*                                                                         *)
(* Time is the age of each child, 0 at its spawn.  A process that leaves   *)
(* its process group and the recycling of process ids are not modelled.    *)
(***************************************************************************)
EXTENDS Naturals, FiniteSets, FiniteSetsExt

CONSTANTS
    Calls,    \* tool calls
    Permits,  \* lane -> permits of its semaphore
    Timeout,  \* final deadline of a child
    Reserve,  \* cleanup_reserve: the part of Timeout kept for cleanup
    Chunks,   \* reads it takes to copy the DEX file
    MaxEdits, \* bound on writes of others to the DEX file
    Noisy,    \* calls whose children act by themselves; the others' hang
              \* until they are killed
    Mixes     \* the tools called together: Calls -> lane, or "none"

ASSUME LanesAssumption ==
    /\ Permits \in [{"command", "rish"} -> Nat]
    /\ Timeout \in Nat /\ Reserve \in 1 .. Timeout /\ Chunks \in Nat \ {0}
    /\ IsFiniteSet(Calls) /\ MaxEdits \in Nat /\ Noisy \subseteq Calls
    /\ Mixes \subseteq [Calls -> {"command", "rish", "provider", "none"}]

VARIABLES
    lane,      \* the tool of the call: it decides who holds the permit
    caller,    \* the caller's future
    answer,    \* what the call returned
    permits,   \* calls whose permit is taken
    check,     \* the blocking validation of a rish call
    snapshot,  \* chunks copied into the memfd of a rish call
    dex,       \* the pinned DEX file: contents, and whether metadata still match
    edits,     \* writes of others so far
    sup,       \* the supervisor task
    terminal,  \* SupervisorTerminal
    taken,     \* completions the supervisor has observed
    leader,    \* the direct child
    helper,    \* a descendant in the child's process group lives
    signalled, \* the process group was sent SIGKILL
    pipe,      \* the two output pipes
    age        \* time since the spawn, capped behind the final deadline

callerVars == <<lane, caller, answer>>
rishVars == <<check, snapshot>>
dexVars == <<dex, edits>>
supVars == <<sup, terminal, taken>>
groupVars == <<leader, helper, signalled, pipe>>
vars == <<callerVars, permits, rishVars, dexVars, supVars, groupVars, age>>

Lanes == {"command", "rish", "provider"}
Pipes == {"stdout", "stderr"}
Failures == {"timed_out", "stdout_limit", "stderr_limit", "program_failed", "wait_failed"}
Terminals == {"none", "complete", "cancelled"} \cup Failures
Refusals == {"busy", "dex_invalid", "unavailable", "spawn_failed", "bad_output"}

TypeOK ==
    /\ lane \in [Calls -> Lanes \cup {"none"}]
    /\ caller \in [Calls -> {"new", "validating", "starting", "awaiting", "answered", "dropped"}]
    /\ answer \in [Calls -> {"none", "ok"} \cup Failures \cup Refusals]
    /\ permits \subseteq Calls
    /\ check \in [Calls -> {"none", "opened", "copying", "copied", "sealed", "valid", "invalid"}]
    /\ snapshot \in [Calls -> [1 .. Chunks -> {"none", "good", "bad"}]]
    /\ dex \in [bytes : [1 .. Chunks -> {"good", "bad"}], same : BOOLEAN]
    /\ edits \in 0 .. MaxEdits
    /\ sup \in [Calls -> {"none", "watching", "reaping", "finished"}]
    /\ terminal \in [Calls -> Terminals]
    /\ taken \in [Calls -> SUBSET (Pipes \cup {"child"})]
    /\ leader \in [Calls -> {"none", "running", "exited", "failed", "killed", "reaped", "lost"}]
    /\ helper \in [Calls -> BOOLEAN]
    /\ signalled \in [Calls -> BOOLEAN]
    /\ pipe \in [Calls -> [Pipes -> {"open", "over", "broken", "closed"}]]
    /\ age \in [Calls -> 0 .. Timeout + 1]

Init ==
    /\ lane = [c \in Calls |-> "none"]
    /\ caller = [c \in Calls |-> "new"]
    /\ answer = [c \in Calls |-> "none"]
    /\ permits = {}
    /\ check = [c \in Calls |-> "none"]
    /\ snapshot = [c \in Calls |-> [i \in 1 .. Chunks |-> "none"]]
    /\ dex = [bytes |-> [i \in 1 .. Chunks |-> "good"], same |-> TRUE]
    /\ edits = 0
    /\ sup = [c \in Calls |-> "none"]
    /\ terminal = [c \in Calls |-> "none"]
    /\ taken = [c \in Calls |-> {}]
    /\ leader = [c \in Calls |-> "none"]
    /\ helper = [c \in Calls |-> FALSE]
    /\ signalled = [c \in Calls |-> FALSE]
    /\ pipe = [c \in Calls |-> [p \in Pipes |-> "open"]]
    /\ age = [c \in Calls |-> 0]

-----------------------------------------------------------------------------
(* The caller's future: admission *)

Holders(l) == {c \in permits : lane[c] = l}

Answer(c, a) ==
    /\ caller' = [caller EXCEPT ![c] = "answered"]
    /\ answer' = [answer EXCEPT ![c] = a]

Arrive(c, l) ==
    /\ caller[c] = "new"
    /\ \E m \in Mixes : m[c] = l /\ \A d \in Calls : lane[d] \in {"none", m[d]}
    /\ lane' = [lane EXCEPT ![c] = l]

\* Mutant: the permit is not bound to the future and dropped at once.
ExecuteCommandUnheld(c) ==
    /\ Arrive(c, "command")
    /\ caller' = [caller EXCEPT ![c] = "starting"]
    /\ UNCHANGED <<answer, permits, rishVars, dexVars, supVars, groupVars, age>>

\* Neither lane queues: try_acquire_owned or an error at once.
ExecuteCommand(c) ==
    /\ Arrive(c, "command")
    /\ \/ /\ Cardinality(Holders("command")) < Permits["command"]
          /\ permits' = permits \cup {c}
          /\ caller' = [caller EXCEPT ![c] = "starting"]
          /\ UNCHANGED answer
       \/ /\ Cardinality(Holders("command")) >= Permits["command"]
          /\ Answer(c, "busy")
          /\ UNCHANGED permits
    /\ UNCHANGED <<rishVars, dexVars, supVars, groupVars, age>>

Probe(c) ==
    /\ Arrive(c, "rish")
    /\ \/ /\ Cardinality(Holders("rish")) < Permits["rish"]
          /\ permits' = permits \cup {c}
          /\ caller' = [caller EXCEPT ![c] = "validating"]
          /\ check' = [check EXCEPT ![c] = "opened"]
          /\ UNCHANGED answer
       \/ /\ Cardinality(Holders("rish")) >= Permits["rish"]
          /\ Answer(c, "busy")
          /\ UNCHANGED <<permits, check>>
    /\ UNCHANGED <<snapshot, dexVars, supVars, groupVars, age>>

CollectStdout(c) ==
    /\ Arrive(c, "provider")
    /\ caller' = [caller EXCEPT ![c] = "starting"]
    /\ UNCHANGED <<answer, permits, rishVars, dexVars, supVars, groupVars, age>>

-----------------------------------------------------------------------------
(* rish: the blocking validation, which owns the permit *)

\* The pinned file changes under the server.  A write through an existing
\* mapping need not move the timestamps that FileIdentity compares; a rename
\* over the path or a change of the parent directory always does.  Only
\* validations read the file, so that changes between two of them are changes
\* at the start of the second.
EditDex ==
    /\ edits < MaxEdits
    /\ \E c \in Calls : check[c] \in {"opened", "copying", "copied", "sealed"}
    /\ edits' = edits + 1
    /\ \/ \E i \in 1 .. Chunks, v \in {"good", "bad"}, noticed \in BOOLEAN :
             dex' = [dex EXCEPT !.bytes[i] = v, !.same = @ /\ ~noticed]
       \/ dex' = [dex EXCEPT !.same = FALSE]
    /\ UNCHANGED <<callerVars, permits, rishVars, supVars, groupVars, age>>

\* The worker ends.  Its result goes to the waiter; without one the permit in
\* it is dropped, as it is with any error, and so is the memfd.
EndCheck(c, valid) ==
    /\ check' = [check EXCEPT ![c] = IF valid THEN "valid" ELSE "invalid"]
    /\ permits' = IF valid /\ caller[c] = "validating" THEN permits ELSE permits \ {c}
    /\ snapshot' = IF valid THEN snapshot
                   ELSE [snapshot EXCEPT ![c] = [i \in 1 .. Chunks |-> "none"]]
    /\ IF valid \/ caller[c] # "validating" THEN UNCHANGED <<caller, answer>>
       ELSE Answer(c, "dex_invalid")

ExpectedBytes == [i \in 1 .. Chunks |-> "good"]

\* Parent, descriptor and path metadata as pinned at start-up, and the digest.
DexIdentityHolds == dex.same /\ dex.bytes = ExpectedBytes

ValidateDexIdentity(c) ==
    /\ check[c] = "opened"
    /\ \/ /\ DexIdentityHolds
          /\ check' = [check EXCEPT ![c] = "copying"]
          /\ UNCHANGED <<permits, caller, answer, snapshot>>
       \/ EndCheck(c, FALSE)
    /\ UNCHANGED <<lane, dexVars, supVars, groupVars, age>>

\* One read of the source and its write to the memfd.
CopyAndHash(c) ==
    /\ check[c] = "copying"
    /\ \E i \in 1 .. Chunks :
          /\ \A j \in 1 .. Chunks : (snapshot[c][j] = "none") <=> (j >= i)
          /\ snapshot' = [snapshot EXCEPT ![c][i] = dex.bytes[i]]
          /\ check' = [check EXCEPT ![c] = IF i = Chunks THEN "copied" ELSE "copying"]
    /\ UNCHANGED <<callerVars, permits, dexVars, supVars, groupVars, age>>

\* Mutant: the digest of the copy is not compared.
SnapshotUnchecked(c) == TRUE

\* Digest of what was copied, seals, digest of the sealed file and of the file
\* reopened through /proc; any of these calls may also fail.
SnapshotQualified(c) == snapshot[c] = ExpectedBytes

SealSnapshot(c) ==
    /\ check[c] = "copied"
    /\ \/ /\ SnapshotQualified(c)
          /\ check' = [check EXCEPT ![c] = "sealed"]
          /\ UNCHANGED <<permits, caller, answer, snapshot>>
       \/ EndCheck(c, FALSE)
    /\ UNCHANGED <<lane, dexVars, supVars, groupVars, age>>

RevalidateSource(c) ==
    /\ check[c] = "sealed"
    /\ EndCheck(c, DexIdentityHolds)
    /\ UNCHANGED <<lane, dexVars, supVars, groupVars, age>>

-----------------------------------------------------------------------------
(* BoundedProcess::run_inner *)

Startable(c) == caller[c] = "starting" \/ (caller[c] = "validating" /\ check[c] = "valid")

Spawn(c) ==
    /\ Startable(c)
    /\ \/ /\ caller' = [caller EXCEPT ![c] = "awaiting"]
          /\ sup' = [sup EXCEPT ![c] = "watching"]
          /\ leader' = [leader EXCEPT ![c] = "running"]
          /\ UNCHANGED <<answer, permits>>
       \/ /\ \E a \in {"unavailable", "spawn_failed"} : Answer(c, a)
          /\ permits' = permits \ {c}
          /\ UNCHANGED <<sup, leader>>
    /\ UNCHANGED <<lane, rishVars, dexVars, terminal, taken, helper, signalled, pipe, age>>

\* What the caller makes of the captured output.
CaptureClasses == [stdout : {"empty", "uid", "document", "other", "not_utf8"},
                   stderr : {"empty", "uid", "other", "not_utf8"}]

UidTokenIsExactlyOneCapture(out) ==
    \/ out.stdout = "uid" /\ out.stderr = "empty"
    \/ out.stderr = "uid" /\ out.stdout = "empty"

OutputAccepted(l, out) ==
    CASE l = "command" -> out.stdout # "not_utf8" /\ out.stderr # "not_utf8"
      [] l = "rish" -> UidTokenIsExactlyOneCapture(out)
      [] l = "provider" -> out.stdout = "document"

Verdict(t) == IF t = "cancelled" THEN "wait_failed" ELSE t

\* The supervisor's result reaches its caller, whose permit, if it still has
\* one, goes with its future.
Deliver(c) ==
    /\ caller[c] = "awaiting" /\ sup[c] = "finished"
    /\ \/ /\ terminal[c] # "complete"
          /\ Answer(c, Verdict(terminal[c]))
       \/ /\ terminal[c] = "complete"
          /\ \E accepted \in {OutputAccepted(lane[c], out) : out \in CaptureClasses} :
                Answer(c, IF accepted THEN "ok" ELSE "bad_output")
    /\ permits' = permits \ {c}
    /\ UNCHANGED <<lane, rishVars, dexVars, supVars, groupVars, age>>

\* Mutant: dropping the future frees every lane.
DropCallerFreesLane(c) ==
    /\ caller[c] \in {"validating", "awaiting"}
    /\ caller' = [caller EXCEPT ![c] = "dropped"]
    /\ permits' = permits \ {c}
    /\ terminal' = [terminal EXCEPT ![c] = IF sup[c] = "finished" THEN "none" ELSE @]
    /\ UNCHANGED <<lane, answer, rishVars, dexVars, sup, taken, groupVars, age>>

\* The request times out or the client disconnects: the future is dropped at
\* one of its awaits.  Dropping it drops the command permit, or the result of
\* a validation that nobody collected, and with it the permit inside.
DropCaller(c) ==
    /\ caller[c] \in {"validating", "awaiting"}
    /\ caller' = [caller EXCEPT ![c] = "dropped"]
    /\ permits' = IF lane[c] = "command" \/ (caller[c] = "validating" /\ check[c] = "valid")
                  THEN permits \ {c} ELSE permits
    /\ terminal' = [terminal EXCEPT ![c] = IF sup[c] = "finished" THEN "none" ELSE @]
    /\ UNCHANGED <<lane, answer, rishVars, dexVars, sup, taken, groupVars, age>>

-----------------------------------------------------------------------------
(* The process group *)

Alive(c) == leader[c] = "running" \/ helper[c]

Fork(c) ==
    /\ leader[c] = "running" /\ ~helper[c] /\ ~signalled[c] /\ c \in Noisy
    /\ helper' = [helper EXCEPT ![c] = TRUE]
    /\ UNCHANGED <<callerVars, permits, rishVars, dexVars, supVars, leader, signalled, pipe, age>>

\* A pipe ends when its writers are gone or have closed it; while one lives it
\* may also carry more than the limit or break.
PipeEvent(c, p) ==
    /\ sup[c] = "watching" /\ pipe[c][p] = "open" /\ c \in Noisy
    /\ \E s \in {"closed"} \cup (IF Alive(c) THEN {"over", "broken"} ELSE {}) :
          pipe' = [pipe EXCEPT ![c][p] = s]
    /\ UNCHANGED <<callerVars, permits, rishVars, dexVars, supVars, leader, helper, signalled, age>>

Exit(c) ==
    /\ leader[c] = "running" /\ ~signalled[c] /\ c \in Noisy
    /\ \E s \in {"exited", "failed"} : leader' = [leader EXCEPT ![c] = s]
    /\ UNCHANGED <<callerVars, permits, rishVars, dexVars, supVars, helper, signalled, pipe, age>>

HelperExit(c) ==
    /\ helper[c] /\ ~signalled[c]
    /\ helper' = [helper EXCEPT ![c] = FALSE]
    /\ UNCHANGED <<callerVars, permits, rishVars, dexVars, supVars, leader, signalled, pipe, age>>

\* SIGKILL takes effect, possibly long after it was sent.
Die(c) ==
    /\ signalled[c] /\ Alive(c)
    /\ leader' = [leader EXCEPT ![c] = IF @ = "running" THEN "killed" ELSE @]
    /\ helper' = [helper EXCEPT ![c] = FALSE]
    /\ UNCHANGED <<callerVars, permits, rishVars, dexVars, supVars, signalled, pipe, age>>

Tick ==
    /\ \E c \in Calls : sup[c] \in {"watching", "reaping"} /\ age[c] <= Timeout
    /\ age' = [c \in Calls |->
                  IF sup[c] \in {"watching", "reaping"} /\ age[c] <= Timeout
                  THEN age[c] + 1 ELSE age[c]]
    /\ UNCHANGED <<callerVars, permits, rishVars, dexVars, supVars, groupVars>>

-----------------------------------------------------------------------------
(* supervise_process *)

OperationDeadline == Timeout - Reserve

\* Mutant: completions come before the deadline.
PrecedenceOutputFirst == <<"cancel", "stdout", "stderr", "child", "deadline">>

\* The arms of the biased select, in their order.
Precedence == <<"cancel", "deadline", "stdout", "stderr", "child">>

\* Mutant: no arm for the operation deadline.
ReadyUntimed(c) ==
    {e \in {"cancel"} : caller[c] = "dropped"}
    \cup {p \in Pipes \ taken[c] : pipe[c][p] # "open"}
    \cup {e \in {"child"} \ taken[c] : leader[c] \in {"exited", "failed"}}

Ready(c) ==
    {e \in {"cancel"} : caller[c] = "dropped"}
    \cup {e \in {"deadline"} : age[c] >= OperationDeadline}
    \cup {p \in Pipes \ taken[c] : pipe[c][p] # "open"}
    \cup {e \in {"child"} \ taken[c] : leader[c] \in {"exited", "failed"}}

\* A terminal event: the readers are dropped and the group is killed at once.
EndSupervision(c, t) ==
    /\ terminal' = [terminal EXCEPT ![c] = t]
    /\ sup' = [sup EXCEPT ![c] = "reaping"]
    /\ signalled' = [signalled EXCEPT ![c] = TRUE]
    /\ pipe' = [pipe EXCEPT ![c] = [p \in Pipes |-> "closed"]]

\* A completion: the loop ends when it is the last of the three.
Observe(c, e) ==
    /\ taken' = [taken EXCEPT ![c] = @ \cup {e}]
    /\ IF taken'[c] = Pipes \cup {"child"} THEN EndSupervision(c, "complete")
       ELSE UNCHANGED <<terminal, sup, signalled, pipe>>

Limit(p) == IF p = "stdout" THEN "stdout_limit" ELSE "stderr_limit"

PollPipe(c, p) ==
    \/ pipe[c][p] = "closed" /\ Observe(c, p)
    \/ pipe[c][p] = "over" /\ EndSupervision(c, Limit(p)) /\ UNCHANGED taken
    \/ pipe[c][p] = "broken" /\ EndSupervision(c, "wait_failed") /\ UNCHANGED taken

\* child.wait() collects the child, whatever its status.
PollChild(c) ==
    \/ /\ leader[c] = "exited" /\ Observe(c, "child")
       /\ leader' = [leader EXCEPT ![c] = "reaped"]
    \/ /\ leader[c] = "failed" /\ EndSupervision(c, "program_failed") /\ UNCHANGED taken
       /\ leader' = [leader EXCEPT ![c] = "reaped"]
    \/ /\ c \in Noisy /\ EndSupervision(c, "wait_failed") /\ UNCHANGED taken
       /\ leader' = [leader EXCEPT ![c] = "lost"]

Poll(c) ==
    /\ sup[c] = "watching" /\ Ready(c) # {}
    /\ LET first == Precedence[Min({i \in DOMAIN Precedence : Precedence[i] \in Ready(c)})] IN
       \/ first = "cancel" /\ EndSupervision(c, "cancelled") /\ UNCHANGED <<taken, leader>>
       \/ first = "deadline" /\ EndSupervision(c, "timed_out") /\ UNCHANGED <<taken, leader>>
       \/ first \in Pipes /\ PollPipe(c, first) /\ UNCHANGED leader
       \/ first = "child" /\ PollChild(c)
    /\ UNCHANGED <<callerVars, permits, rishVars, dexVars, helper, age>>

\* The end of terminate_process_group_and_reap and of the task: a child that
\* is not confirmed dead by the final deadline turns any result into
\* WaitFailed.  At the deadline itself either of wait and timer may win.  The
\* completion guard, the permit of a rish call, is dropped here, with the
\* locals of the task; so is the result if nobody waits for it.
FinishSupervision(c, within) ==
    /\ sup' = [sup EXCEPT ![c] = "finished"]
    /\ terminal' = [terminal EXCEPT ![c] = IF caller[c] = "dropped" THEN "none"
                                           ELSE IF within THEN @ ELSE "wait_failed"]
    /\ permits' = IF lane[c] = "rish" THEN permits \ {c} ELSE permits
    /\ taken' = [taken EXCEPT ![c] = {}]
    /\ age' = [age EXCEPT ![c] = 0]

Reap(c) ==
    /\ sup[c] = "reaping"
    /\ leader[c] \in {"exited", "failed", "killed", "reaped"}
    /\ leader' = [leader EXCEPT ![c] = "reaped"]
    /\ \/ age[c] <= Timeout /\ FinishSupervision(c, TRUE)
       \/ age[c] >= Timeout /\ FinishSupervision(c, FALSE)
    /\ UNCHANGED <<callerVars, rishVars, dexVars, helper, signalled, pipe>>

ReapFailed(c) ==
    /\ sup[c] = "reaping" /\ leader[c] # "reaped" /\ c \in Noisy
    /\ leader' = [leader EXCEPT ![c] = "lost"]
    /\ FinishSupervision(c, FALSE)
    /\ UNCHANGED <<callerVars, rishVars, dexVars, helper, signalled, pipe>>

-----------------------------------------------------------------------------
Validation(c) == ValidateDexIdentity(c) \/ CopyAndHash(c) \/ SealSnapshot(c) \/ RevalidateSource(c)

System(c) == Validation(c) \/ Spawn(c) \/ Poll(c) \/ Die(c) \/ Reap(c)
             \/ ReapFailed(c) \/ Deliver(c)

Next ==
    \/ \E c \in Calls :
          \/ ExecuteCommand(c) \/ Probe(c) \/ CollectStdout(c)
          \/ ValidateDexIdentity(c) \/ CopyAndHash(c) \/ SealSnapshot(c) \/ RevalidateSource(c)
          \/ Spawn(c) \/ Deliver(c) \/ DropCaller(c)
          \/ Fork(c) \/ Exit(c) \/ HelperExit(c) \/ Die(c)
          \/ \E p \in Pipes : PipeEvent(c, p)
          \/ Poll(c) \/ Reap(c) \/ ReapFailed(c)
    \/ EditDex \/ Tick

Spec == Init /\ [][Next]_vars

\* Scheduled tasks and threads run, a timer advances, and a process that was
\* sent SIGKILL dies.  Nothing is assumed of what a child does by itself, of
\* clients, or of writers of the DEX file.  Every step below can happen only a
\* bounded number of times, so it is enough that some of them is taken.
FairSpec == Spec /\ WF_vars(Tick \/ \E c \in Calls : System(c))

-----------------------------------------------------------------------------
(* Properties *)

\* A child that may still do something: it runs or waits to be collected.
Uncollected(c) == leader[c] \in {"running", "exited", "failed", "killed"}

\* Probes never overlap: a second rish validation or child does not exist
\* while an earlier one is unfinished, whether or not its client is still
\* there (README: cancelling a request cannot admit an overlapping probe).
ProbesNeverOverlap ==
    Cardinality({c \in Calls : lane[c] = "rish"
                    /\ (check[c] \in {"opened", "copying", "copied", "sealed"} \/ Uncollected(c))})
        <= Permits["rish"]

\* The command lane frees its permit when the future is dropped, so that more
\* children than permits may exist for a while.  The surplus belongs to dropped
\* futures only: callers that wait, or were answered, never share the lane with
\* more children than it has permits.
CommandLaneBounded ==
    Cardinality({c \in Calls : lane[c] = "command" /\ caller[c] # "dropped" /\ Uncollected(c)})
        <= Permits["command"]

\* Whatever is done to the DEX file while it is validated and copied, a rish
\* child only ever runs on the bytes whose digest the operator configured.
OnlyExpectedDexRuns ==
    \A c \in Calls : lane[c] = "rish" /\ leader[c] # "none" => snapshot[c] = ExpectedBytes

\* An end that is neither cancellation nor timeout is decided only while the
\* caller is there and the operation budget lasts.
Decided(c) ==
    sup[c] = "watching" /\ sup'[c] = "reaping" /\ terminal'[c] \notin {"cancelled", "timed_out"}
        => caller[c] # "dropped" /\ age[c] < OperationDeadline

\* A complete result stands only on a collected child, two pipes read to their
\* end and a cleanup confirmed by the final deadline.
Confirmed(c) ==
    sup'[c] = "finished" /\ terminal'[c] = "complete" /\ sup[c] # "finished" =>
        /\ taken[c] = Pipes \cup {"child"} /\ signalled[c]
        /\ leader'[c] = "reaped" /\ age[c] <= Timeout

\* Only a complete result becomes a success.
Accepted(c) == answer'[c] = "ok" => answer[c] = "ok" \/ terminal[c] = "complete"

\* A verdict is earned.  Of simultaneous events the select prefers cancellation
\* and the deadline, so that no other end is decided for a caller that is gone
\* or once the operation budget is used up; and success is reported only when
\* the child exited with status 0 and was collected, both pipes were read to
\* their end and cleanup was confirmed by the final deadline.
VerdictsEarned == [][\A c \in Calls : Decided(c) /\ Confirmed(c) /\ Accepted(c)]_vars

\* Every call that was admitted is answered or was dropped, and every child
\* that was started is collected, with its descendants, and its permit returned.
EveryCallEnds ==
    \A c \in Calls :
        (caller[c] \in {"validating", "starting", "awaiting"} \/ sup[c] = "watching")
            ~> /\ caller[c] \in {"answered", "dropped"} /\ c \notin permits
               /\ leader[c] \in {"none", "reaped", "lost"} /\ ~Alive(c)

-----------------------------------------------------------------------------
(* The inductive invariant behind the lanes and the verdicts *)

Checking == {"opened", "copying", "copied", "sealed"}
Supervised == {"watching", "reaping"}

\* A call that has not arrived, and what a future at an await stands on.
FutureInv(c) ==
    /\ caller[c] = "new" =>
          lane[c] = "none" /\ check[c] = "none" /\ sup[c] = "none" /\ c \notin permits
    /\ caller[c] = "validating" =>
          lane[c] = "rish" /\ check[c] \in Checking \cup {"valid"} /\ sup[c] = "none" /\ c \in permits
    /\ caller[c] = "starting" =>
          lane[c] \in {"command", "provider"} /\ sup[c] = "none" /\ (lane[c] = "command" => c \in permits)
    /\ caller[c] = "awaiting" => sup[c] # "none"

\* A validation owns the permit and precedes the child; only the expected bytes
\* get past the seals.
CheckInv(c) ==
    /\ check[c] # "none" => lane[c] = "rish"
    /\ check[c] \in Checking => caller[c] \in {"validating", "dropped"} /\ sup[c] = "none" /\ c \in permits
    /\ check[c] \in {"sealed", "valid"} => snapshot[c] = ExpectedBytes

\* The supervisor has a child until it is finished, and the permit with it:
\* that of a rish call always, that of a command while its caller waits.
SupervisorInv(c) ==
    /\ sup[c] = "none" <=> leader[c] = "none"
    /\ sup[c] = "finished" => leader[c] \in {"reaped", "lost"}
    /\ sup[c] # "none" /\ lane[c] = "rish" => check[c] = "valid"
    /\ sup[c] \in Supervised =>
          /\ caller[c] \in {"awaiting", "dropped"}
          /\ lane[c] = "rish" => c \in permits
          /\ lane[c] = "command" /\ caller[c] = "awaiting" => c \in permits
    /\ sup[c] = "reaping" /\ terminal[c] = "complete" =>
          taken[c] = Pipes \cup {"child"} /\ signalled[c]

\* try_acquire keeps both semaphores within their permits.
LanesWithin == \A l \in {"command", "rish"} : Cardinality(Holders(l)) <= Permits[l]

IInv ==
    /\ TypeOK
    /\ \A c \in Calls : FutureInv(c) /\ CheckInv(c) /\ SupervisorInv(c)
    /\ LanesWithin
=============================================================================
