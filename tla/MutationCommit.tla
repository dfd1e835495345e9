--------------------------- MODULE MutationCommit ---------------------------
(***************************************************************************)
(* A live filesystem mutation from the HTTP request to its answer: the     *)
(* request limits of request_limits.rs, the handlers, the two-party commit *)
(* guard, the audit guards and the blocking workers of mcp_transport.rs,   *)
(* and the process-wide publication lock of tools/filesystem.rs.           *)
(*                                                                         *)
(* A request is served by an async task that may be dropped at any await   *)
(* (timeout or disconnect).  Its worker is a blocking closure nobody can   *)
(* stop.  The two meet in one atomic cell, `commit'.  Several transport    *)
(* states (Servers) live in one process: permits are per server, the       *)
(* publication lock and the spent grants are shared (module GrantReplay    *)
(* says why a grant is spent once; module FilesystemPublication what the   *)
(* publication itself does).                                               *)
(***************************************************************************)
EXTENDS Naturals, FiniteSets

CONSTANTS
    Requests,    \* live create, copy, trash and write calls
    Servers,     \* transport states of the process
    ServerOf,    \* the server a request is sent to
    Grants,      \* capability grants
    NoGrant,     \* a request without the grant header
    NoOne,       \* the publication lock is free
    MaxRequests, \* max_concurrent_requests
    MaxWorkers   \* MAX_CONCURRENT_FILESYSTEM_MUTATION_WORKERS

ASSUME InstanceAssumption ==
    /\ ServerOf \in [Requests -> Servers]
    /\ MaxRequests \in Nat /\ MaxWorkers \in Nat
    /\ NoGrant \notin Grants /\ NoOne \notin Requests
    /\ IsFiniteSet(Requests)

VARIABLES
    http,           \* the async task of each request
    answer,         \* what the client of a finished request was told
    grant,          \* the grant the request carries
    requestPermits, \* requests holding a permit of the request semaphore
    workerPermits,  \* requests whose worker holds a worker permit
    commit,         \* the AtomicU8 shared by the waiter and its worker
    worker,         \* where the blocking closure is
    outcome,        \* the Result the closure is about to return
    lock,           \* holder of FILESYSTEM_PUBLICATION_LOCK
    poisoned,       \* the lock was dropped by a panicking thread
    consumed,       \* requests whose grant was consumed
    applied,        \* requests whose mutation is visible in the filesystem
    audit           \* audit records written for each request

httpVars == <<http, answer, requestPermits>>
workVars == <<commit, worker, outcome, workerPermits>>
lockVars == <<lock, poisoned>>
dataVars == <<consumed, applied, audit>>
vars == <<httpVars, grant, workVars, lockVars, dataVars>>

CriticalSteps == {"locked", "revalidated", "claimed", "authorized"}
LiveSteps == {"queued", "prepared", "leaving", "audited"} \cup CriticalSteps
WorkerSteps == {"none", "finished"} \cup LiveSteps

Outcomes == {"none", "ok", "filesystem", "unauthorized", "cancelled", "panicked"}

Answers == {"none", "ok", "denied", "busy", "filesystem", "unauthorized",
            "cancelled", "panicked", "gone", "dropped"}

TypeOK ==
    /\ http \in [Requests -> {"new", "handling", "waiting", "done"}]
    /\ answer \in [Requests -> Answers]
    /\ grant \in [Requests -> Grants \cup {NoGrant}]
    /\ requestPermits \subseteq Requests
    /\ workerPermits \subseteq Requests
    /\ commit \in [Requests -> {"none", "pending", "cancelled", "owned"}]
    /\ worker \in [Requests -> WorkerSteps]
    /\ outcome \in [Requests -> Outcomes]
    /\ lock \in Requests \cup {NoOne}
    /\ poisoned \in BOOLEAN
    /\ consumed \subseteq Requests
    /\ applied \subseteq Requests
    /\ audit \in [Requests -> [allowed : Nat, denied : Nat]]

Init ==
    /\ http = [r \in Requests |-> "new"]
    /\ answer = [r \in Requests |-> "none"]
    /\ grant = [r \in Requests |-> NoGrant]
    /\ requestPermits = {}
    /\ workerPermits = {}
    /\ commit = [r \in Requests |-> "none"]
    /\ worker = [r \in Requests |-> "none"]
    /\ outcome = [r \in Requests |-> "none"]
    /\ lock = NoOne
    /\ poisoned = FALSE
    /\ consumed = {}
    /\ applied = {}
    /\ audit = [r \in Requests |-> [allowed |-> 0, denied |-> 0]]

-----------------------------------------------------------------------------
(* The async side.                                                         *)

\* Semaphore::try_acquire_owned: a permit now or a refusal, never a queue.
Available(r, holders, limit) ==
    Cardinality({q \in holders : ServerOf[q] = ServerOf[r]}) < limit

\* The response leaves and the request permit is dropped with it.
End(r, told) ==
    /\ http' = [http EXCEPT ![r] = "done"]
    /\ answer' = [answer EXCEPT ![r] = told]
    /\ requestPermits' = requestPermits \ {r}

\* Mutant: the counter of denials runs the wrong way.
UnrecordDenied(r) == audit' = [audit EXCEPT ![r].denied = @ - 1]

RecordDenied(r) == audit' = [audit EXCEPT ![r].denied = @ + 1]

\* enforce_mcp_request_limits: fail fast when no request permit is left.
Arrive(r, g) ==
    /\ http[r] = "new"
    /\ grant' = [grant EXCEPT ![r] = g]
    /\ \/ /\ Available(r, requestPermits, MaxRequests)
          /\ http' = [http EXCEPT ![r] = "handling"]
          /\ requestPermits' = requestPermits \cup {r}
          /\ UNCHANGED answer
       \/ /\ ~Available(r, requestPermits, MaxRequests)
          /\ End(r, "busy")
    /\ UNCHANGED <<workVars, lockVars, dataVars>>

\* The handler's refusals before a worker exists: arguments, disabled
\* authority, missing grant, a response that would not fit.  Each is audited.
Deny(r) ==
    /\ http[r] = "handling"
    /\ End(r, "denied")
    /\ RecordDenied(r)
    /\ UNCHANGED <<grant, workVars, lockVars, consumed, applied>>

\* No worker permit: refused and audited before anything is prepared.
NoWorker(r) ==
    /\ http[r] = "handling"
    /\ grant[r] # NoGrant
    /\ ~Available(r, workerPermits, MaxWorkers)
    /\ End(r, "busy")
    /\ RecordDenied(r)
    /\ UNCHANGED <<grant, workVars, lockVars, consumed, applied>>

\* The worker owns its permit, its audit guard and one half of the commit
\* guard; the handler awaits the JoinHandle with the other half.
SpawnWorker(r) ==
    /\ http[r] = "handling"
    /\ grant[r] # NoGrant
    /\ Available(r, workerPermits, MaxWorkers)
    /\ http' = [http EXCEPT ![r] = "waiting"]
    /\ workerPermits' = workerPermits \cup {r}
    /\ commit' = [commit EXCEPT ![r] = "pending"]
    /\ worker' = [worker EXCEPT ![r] = "queued"]
    /\ UNCHANGED <<answer, grant, requestPermits, outcome, lockVars, dataVars>>

\* Mutant: the waiter stores `cancelled' whatever the worker has done.
CancelledAlways(r) == [commit EXCEPT ![r] = "cancelled"]

\* FilesystemMutationWaiterGuard::drop: pending becomes cancelled, a commit
\* the worker owns stays owned.
Cancelled(r) ==
    [commit EXCEPT ![r] = IF @ = "pending" THEN "cancelled" ELSE @]

\* Mutant: the worker permit belongs to the request and goes with it.
DropWaiterAndPermit(r) ==
    /\ http[r] \in {"handling", "waiting"}
    /\ End(r, "dropped")
    /\ commit' = Cancelled(r)
    /\ workerPermits' = workerPermits \ {r}
    /\ UNCHANGED <<grant, worker, outcome, lockVars, dataVars>>

\* The request timeout fires or the client disconnects: the future is dropped
\* with its permit and its half of the guard.  The worker goes on.
DropWaiter(r) ==
    /\ http[r] \in {"handling", "waiting"}
    /\ End(r, "dropped")
    /\ commit' = Cancelled(r)
    /\ UNCHANGED <<grant, worker, outcome, workerPermits, lockVars, dataVars>>

\* The handler maps the joined outcome to a response.  When the client asked
\* for an event stream and its session is gone by now, it is told 404.
Respond(r) ==
    /\ http[r] = "waiting"
    /\ worker[r] = "finished"
    /\ \E told \in {outcome[r], "gone"} : End(r, told)
    /\ UNCHANGED <<grant, workVars, lockVars, dataVars>>

-----------------------------------------------------------------------------
(* The blocking worker.                                                    *)

Goto(r, step) == worker' = [worker EXCEPT ![r] = step]

\* Mutant: the lock guard is leaked.
LeaveLocked(r, result) ==
    /\ Goto(r, "leaving")
    /\ outcome' = [outcome EXCEPT ![r] = result]
    /\ UNCHANGED lock

\* The closure's Result is decided; the publication lock, if held, is dropped.
Leave(r, result) ==
    /\ Goto(r, "leaving")
    /\ outcome' = [outcome EXCEPT ![r] = result]
    /\ lock' = IF lock = r THEN NoOne ELSE lock

\* prepare_..._mutation_blocking: descriptors are opened, nothing is changed.
Prepare(r) ==
    /\ worker[r] = "queued"
    /\ \/ Goto(r, "prepared") /\ UNCHANGED <<outcome, lock>>
       \/ Leave(r, "filesystem")
    /\ UNCHANGED <<httpVars, grant, commit, workerPermits, poisoned, dataVars>>

\* Mutant: the poison of the lock is ignored.
AcquirePoisoned(r) ==
    /\ worker[r] = "prepared"
    /\ lock = NoOne
    /\ lock' = r
    /\ Goto(r, "locked")
    /\ UNCHANGED <<httpVars, grant, commit, outcome, workerPermits, poisoned, dataVars>>

\* acquire_publication_lock: blocks while another worker publishes.
Acquire(r) ==
    /\ worker[r] = "prepared"
    /\ lock = NoOne
    /\ \/ /\ ~poisoned
          /\ lock' = r
          /\ Goto(r, "locked")
          /\ UNCHANGED outcome
       \/ /\ poisoned
          /\ Leave(r, "filesystem")
    /\ UNCHANGED <<httpVars, grant, commit, workerPermits, poisoned, dataVars>>

\* The prepared posture of the target is checked again under the lock.
Revalidate(r) ==
    /\ worker[r] = "locked"
    /\ \/ Goto(r, "revalidated") /\ UNCHANGED <<outcome, lock>>
       \/ Leave(r, "filesystem")
    /\ UNCHANGED <<httpVars, grant, commit, workerPermits, poisoned, dataVars>>

\* Mutant: the worker goes on without asking who owns the commit.
ClaimUnchecked(r) ==
    /\ worker[r] = "revalidated"
    /\ Goto(r, "claimed")
    /\ UNCHANGED <<httpVars, grant, commit, outcome, lockVars, workerPermits, dataVars>>

\* FilesystemMutationWorkerCommitGuard::claim: pending becomes owned, or the
\* waiter was here first and the worker gives up.
Claim(r) ==
    /\ worker[r] = "revalidated"
    /\ \/ /\ commit[r] = "pending"
          /\ commit' = [commit EXCEPT ![r] = "owned"]
          /\ Goto(r, "claimed")
          /\ UNCHANGED <<outcome, lock>>
       \/ /\ commit[r] # "pending"
          /\ Leave(r, "cancelled")
          /\ UNCHANGED commit
    /\ UNCHANGED <<httpVars, grant, workerPermits, poisoned, dataVars>>

\* Mutant: a spent grant is forgotten with the worker that spent it.
SpentByRunning == {grant[q] : q \in consumed \cap workerPermits}

SpentGrants == {grant[q] : q \in consumed}

\* Mutant: the grant is spent before it is found to be acceptable.
ConsumeGrantFirst(r) ==
    /\ worker[r] = "claimed"
    /\ consumed' = consumed \cup {r}
    /\ \/ /\ grant[r] \notin SpentGrants
          /\ Goto(r, "authorized")
          /\ UNCHANGED <<outcome, lock>>
       \/ Leave(r, "unauthorized")
    /\ UNCHANGED <<httpVars, grant, commit, workerPermits, poisoned, applied,
                   audit>>

\* authority.consume: a grant that was spent is refused, one that was not may
\* still be refused (expired, bound to something else, replay table full).
ConsumeGrant(r) ==
    /\ worker[r] = "claimed"
    /\ \/ /\ grant[r] \notin SpentGrants
          /\ consumed' = consumed \cup {r}
          /\ Goto(r, "authorized")
          /\ UNCHANGED <<outcome, lock>>
       \/ /\ Leave(r, "unauthorized")
          /\ UNCHANGED consumed
    /\ UNCHANGED <<httpVars, grant, commit, workerPermits, poisoned, applied,
                   audit>>

\* execute_after_authorization, still under the lock.  A failure after the
\* rename may leave the mutation visible although an error is returned.
Publish(r) ==
    /\ worker[r] = "authorized"
    /\ \/ /\ Leave(r, "ok")
          /\ applied' = applied \cup {r}
       \/ /\ Leave(r, "filesystem")
          /\ applied' \in {applied, applied \cup {r}}
    /\ UNCHANGED <<httpVars, grant, commit, workerPermits, poisoned, consumed,
                   audit>>

\* Mutant: the audit guard has no Drop.
PanicUnaudited(r) ==
    /\ worker[r] \in {"queued", "prepared"} \cup CriticalSteps
    /\ Goto(r, "finished")
    /\ outcome' = [outcome EXCEPT ![r] = "panicked"]
    /\ workerPermits' = workerPermits \ {r}
    /\ poisoned' = (poisoned \/ lock = r)
    /\ lock' = IF lock = r THEN NoOne ELSE lock
    /\ UNCHANGED <<httpVars, grant, commit, dataVars>>

\* A panic in a build that unwinds: the audit guard's Drop records the
\* failure, a held publication lock is poisoned, the permit is dropped.
Panic(r) ==
    /\ worker[r] \in {"queued", "prepared"} \cup CriticalSteps
    /\ Goto(r, "finished")
    /\ outcome' = [outcome EXCEPT ![r] = "panicked"]
    /\ workerPermits' = workerPermits \ {r}
    /\ RecordDenied(r)
    /\ poisoned' = (poisoned \/ lock = r)
    /\ lock' = IF lock = r THEN NoOne ELSE lock
    /\ \/ UNCHANGED applied
       \/ worker[r] = "authorized" /\ applied' = applied \cup {r}
    /\ UNCHANGED <<httpVars, grant, commit, consumed>>

\* audit.finish or audit.cancelled.
Audit(r) ==
    /\ worker[r] = "leaving"
    /\ Goto(r, "audited")
    /\ \/ /\ outcome[r] = "ok"
          /\ audit' = [audit EXCEPT ![r].allowed = @ + 1]
       \/ /\ outcome[r] # "ok"
          /\ RecordDenied(r)
    /\ UNCHANGED <<httpVars, grant, commit, outcome, workerPermits, lockVars,
                   consumed, applied>>

\* The closure returns: the permit is dropped, the JoinHandle is ready.
ReturnWorker(r) ==
    /\ worker[r] = "audited"
    /\ Goto(r, "finished")
    /\ workerPermits' = workerPermits \ {r}
    /\ UNCHANGED <<httpVars, grant, commit, outcome, lockVars, dataVars>>

-----------------------------------------------------------------------------

WorkerStep(r) ==
    \/ Prepare(r) \/ Acquire(r) \/ Revalidate(r) \/ Claim(r)
    \/ ConsumeGrant(r) \/ Publish(r) \/ Audit(r) \/ ReturnWorker(r)

Next ==
    \E r \in Requests :
        \/ \E g \in Grants \cup {NoGrant} : Arrive(r, g)
        \/ Deny(r) \/ NoWorker(r) \/ SpawnWorker(r)
        \/ DropWaiter(r) \/ Respond(r)
        \/ WorkerStep(r) \/ Panic(r)

Spec == Init /\ [][Next]_vars

\* A blocking thread is scheduled until it returns, and a request's timer
\* fires whatever its worker does.  Nothing forces a request to arrive or a
\* thread to panic.
Fairness ==
    \A r \in Requests : WF_vars(WorkerStep(r)) /\ WF_vars(DropWaiter(r))

FairSpec == Spec /\ Fairness

-----------------------------------------------------------------------------
(* Properties.                                                             *)

\* A request whose future was dropped before its worker claimed the commit
\* spends no grant and changes nothing, however late the worker gets there;
\* a worker touches the grant or the filesystem only as the owner.
CancelledIsClean ==
    \A r \in consumed \cup applied : r \in consumed /\ commit[r] = "owned"

\* Over all servers of the process, no two requests (a retry after a timeout
\* included) make their mutation visible with one grant.
OneMutationPerGrant ==
    \A r, q \in applied : grant[r] = grant[q] => r = q

\* Every worker that ended, normally, cancelled or by unwinding, wrote exactly
\* one audit record, also when nobody waited for it; `allowed' is recorded
\* exactly for the mutations that succeeded.
AuditedOnce ==
    \A r \in Requests :
        /\ worker[r] \in {"audited", "finished"} =>
              audit[r].allowed + audit[r].denied = 1
        /\ audit[r].allowed = 1 => outcome[r] = "ok" /\ r \in applied

\* What the client is told is true: `ok' means the mutation is visible, a
\* refusal means it is not and the grant is still good, and a client that is
\* still waiting is never told that its request was cancelled.
HonestAnswers ==
    \A r \in Requests :
        /\ answer[r] = "ok" => r \in applied /\ audit[r].allowed = 1
        /\ answer[r] \in {"denied", "busy", "unauthorized"} =>
              r \notin consumed /\ r \notin applied
        /\ answer[r] # "cancelled"

\* Requests and workers stay within their limits: a worker whose request timed
\* out still counts, and no path of a request or a worker leaks its permit.
PermitsExact ==
    /\ requestPermits = {r \in Requests : http[r] \in {"handling", "waiting"}}
    /\ workerPermits = {r \in Requests : worker[r] \in LiveSteps}
    /\ \A s \in Servers :
          /\ Cardinality({r \in requestPermits : ServerOf[r] = s}) <= MaxRequests
          /\ Cardinality({r \in workerPermits : ServerOf[r] = s}) <= MaxWorkers

\* From revalidation to the end of the publication a worker is alone, across
\* all servers, and once the lock is poisoned no grant is spent any more.
PublicationExclusive ==
    \A r \in Requests : worker[r] \in CriticalSteps => lock = r /\ ~poisoned

\* Every worker ends and every request that was let in gets its answer or is
\* dropped: no permit is held for ever and no thread waits for the lock for
\* ever.
EverythingEnds ==
    \A r \in Requests :
        /\ worker[r] \in LiveSteps ~> worker[r] = "finished"
        /\ http[r] \in {"handling", "waiting"} ~> http[r] = "done"

-----------------------------------------------------------------------------
(* The inductive invariant behind the safety properties.                   *)

NotAudited(r) == audit[r] = [allowed |-> 0, denied |-> 0]

\* What is known of a request at each step of its worker.
WorkerInv(r) ==
    /\ worker[r] = "none" =>
          /\ commit[r] = "none"
          /\ http[r] # "waiting"
          /\ http[r] # "done" => NotAudited(r)
    /\ worker[r] # "none" => grant[r] \in Grants /\ http[r] \in {"waiting", "done"}
    /\ worker[r] \in {"queued", "prepared", "locked", "revalidated"} =>
          commit[r] \in {"pending", "cancelled"}
    /\ worker[r] \in {"claimed", "authorized"} => commit[r] = "owned"
    /\ worker[r] = "authorized" => r \in consumed
    /\ worker[r] \in {"queued", "prepared"} \cup CriticalSteps => NotAudited(r)
    /\ worker[r] = "leaving" => NotAudited(r)
    /\ worker[r] \in {"audited", "finished"} =>
          /\ audit[r].allowed + audit[r].denied = 1
          /\ outcome[r] = "ok" => audit[r].allowed = 1
    /\ outcome[r] = "none" <=>
          worker[r] \in {"none", "queued", "prepared"} \cup CriticalSteps

\* What a decision, taken or missed, implies for ever.
DecisionInv(r) ==
    /\ r \in consumed =>
          /\ commit[r] = "owned"
          /\ worker[r] \in {"authorized", "leaving", "audited", "finished"}
          /\ outcome[r] \in {"none", "ok", "filesystem", "panicked"}
    /\ r \in applied => r \in consumed /\ outcome[r] # "none"
    /\ outcome[r] = "ok" => r \in applied
    /\ outcome[r] = "cancelled" => commit[r] = "cancelled"
    /\ commit[r] = "cancelled" => http[r] = "done"
    /\ audit[r].allowed >= 1 => outcome[r] = "ok"

\* An answer is the outcome of the worker or says that there is none.
AnswerInv(r) ==
    /\ answer[r] = "none" <=> http[r] # "done"
    /\ answer[r] \in {"denied", "busy"} => worker[r] = "none"
    /\ answer[r] \notin {"none", "denied", "busy", "gone", "dropped"} =>
          /\ answer[r] = outcome[r]
          /\ worker[r] = "finished"
          /\ commit[r] # "cancelled"

\* A grant is consumed by one request at most.
ConsumersDiffer == \A r, q \in consumed : grant[r] = grant[q] => r = q

IInv ==
    /\ TypeOK
    /\ \A r \in Requests : WorkerInv(r) /\ DecisionInv(r) /\ AnswerInv(r)
    /\ ConsumersDiffer
    /\ PublicationExclusive

-----------------------------------------------------------------------------
(* The refinement of AtomicMutation.                                       *)

StatusOf(r) ==
    IF r \in consumed
    THEN IF outcome[r] = "none" THEN "committed"
         ELSE IF outcome[r] = "ok" THEN "succeeded" ELSE "failed"
    ELSE IF \/ commit[r] = "cancelled"
            \/ outcome[r] # "none"
            \/ http[r] = "done" /\ worker[r] = "none"
         THEN "void" ELSE "undecided"

Atomic == INSTANCE AtomicMutation WITH
    status <- [r \in Requests |-> StatusOf(r)],
    spentBy <- [g \in Grants |-> {r \in consumed : grant[r] = g}]

\* Timeouts, late workers, panics and lock contention included, a request is
\* decided once, at the consumption of its grant.
ImplementsAtomic == Atomic!Spec
=============================================================================
