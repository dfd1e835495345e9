------------------------- MODULE MutationCommitProofs -------------------------
(***************************************************************************)
(* Proofs about MutationCommit for every number of requests, servers,      *)
(* grants and permits.                                                     *)
(***************************************************************************)
EXTENDS MutationCommit, FiniteSetTheorems, TLAPS

\* The type invariant: every step of a handler or of a worker keeps the state
\* well typed.
LEMMA TypeStep == TypeOK /\ [Next]_vars => TypeOK'
<1> SUFFICES ASSUME TypeOK, [Next]_vars PROVE TypeOK'
  OBVIOUS
<1> USE InstanceAssumption
<1>1. ASSUME NEW r \in Requests, NEW g \in Grants \cup {NoGrant}, Arrive(r, g)
      PROVE  TypeOK'
  BY <1>1 DEF Arrive, End, TypeOK, Outcomes, Answers, WorkerSteps,
     LiveSteps, CriticalSteps, httpVars, workVars, lockVars, dataVars
<1>2. ASSUME NEW r \in Requests, Deny(r) PROVE TypeOK'
  BY <1>2 DEF Deny, End, RecordDenied, TypeOK, Outcomes, Answers,
     WorkerSteps, LiveSteps, CriticalSteps, httpVars, workVars, lockVars,
     dataVars
<1>3. ASSUME NEW r \in Requests, NoWorker(r) PROVE TypeOK'
  BY <1>3 DEF NoWorker, End, RecordDenied, TypeOK, Outcomes, Answers,
     WorkerSteps, LiveSteps, CriticalSteps, httpVars, workVars, lockVars,
     dataVars
<1>4. ASSUME NEW r \in Requests, SpawnWorker(r) PROVE TypeOK'
  BY <1>4 DEF SpawnWorker, TypeOK, Outcomes, Answers, WorkerSteps,
     LiveSteps, CriticalSteps, httpVars, workVars, lockVars, dataVars
<1>5. ASSUME NEW r \in Requests, DropWaiter(r) PROVE TypeOK'
  BY <1>5 DEF DropWaiter, End, Cancelled, TypeOK, Outcomes, Answers,
     WorkerSteps, LiveSteps, CriticalSteps, httpVars, workVars, lockVars,
     dataVars
<1>6. ASSUME NEW r \in Requests, Respond(r) PROVE TypeOK'
  BY <1>6 DEF Respond, End, TypeOK, Outcomes, Answers, WorkerSteps,
     LiveSteps, CriticalSteps, httpVars, workVars, lockVars, dataVars
<1>7. ASSUME NEW r \in Requests, Prepare(r) PROVE TypeOK'
  BY <1>7 DEF Prepare, Goto, Leave, TypeOK, Outcomes, Answers,
     WorkerSteps, LiveSteps, CriticalSteps, httpVars, workVars, lockVars,
     dataVars
<1>8. ASSUME NEW r \in Requests, Acquire(r) PROVE TypeOK'
  BY <1>8 DEF Acquire, Goto, Leave, TypeOK, Outcomes, Answers,
     WorkerSteps, LiveSteps, CriticalSteps, httpVars, workVars, lockVars,
     dataVars
<1>9. ASSUME NEW r \in Requests, Revalidate(r) PROVE TypeOK'
  BY <1>9 DEF Revalidate, Goto, Leave, TypeOK, Outcomes, Answers,
     WorkerSteps, LiveSteps, CriticalSteps, httpVars, workVars, lockVars,
     dataVars
<1>10. ASSUME NEW r \in Requests, Claim(r) PROVE TypeOK'
  BY <1>10 DEF Claim, Goto, Leave, TypeOK, Outcomes, Answers, WorkerSteps,
     LiveSteps, CriticalSteps, httpVars, workVars, lockVars, dataVars
<1>11. ASSUME NEW r \in Requests, ConsumeGrant(r) PROVE TypeOK'
  BY <1>11 DEF ConsumeGrant, Goto, Leave, SpentGrants, TypeOK, Outcomes,
     Answers, WorkerSteps, LiveSteps, CriticalSteps, httpVars, workVars,
     lockVars, dataVars
<1>12. ASSUME NEW r \in Requests, Publish(r) PROVE TypeOK'
  BY <1>12 DEF Publish, Goto, Leave, TypeOK, Outcomes, Answers,
     WorkerSteps, LiveSteps, CriticalSteps, httpVars, workVars, lockVars,
     dataVars
<1>13. ASSUME NEW r \in Requests, Audit(r) PROVE TypeOK'
  BY <1>13 DEF Audit, Goto, RecordDenied, TypeOK, Outcomes, Answers,
     WorkerSteps, LiveSteps, CriticalSteps, httpVars, workVars, lockVars,
     dataVars
<1>14. ASSUME NEW r \in Requests, ReturnWorker(r) PROVE TypeOK'
  BY <1>14 DEF ReturnWorker, Goto, TypeOK, Outcomes, Answers, WorkerSteps,
     LiveSteps, CriticalSteps, httpVars, workVars, lockVars, dataVars
<1>15. ASSUME NEW r \in Requests, Panic(r) PROVE TypeOK'
  BY <1>15 DEF Panic, Goto, RecordDenied, TypeOK, Outcomes, Answers,
     WorkerSteps, LiveSteps, CriticalSteps, httpVars, workVars, lockVars,
     dataVars
<1>16. CASE UNCHANGED vars
  BY <1>16 DEF vars, TypeOK, Outcomes, Answers, WorkerSteps, LiveSteps,
     CriticalSteps, httpVars, workVars, lockVars, dataVars
<1> QED
  BY <1>1, <1>2, <1>3, <1>4, <1>5, <1>6, <1>7, <1>8, <1>9,
     <1>10, <1>11, <1>12, <1>13, <1>14, <1>15, <1>16
     DEF Next, WorkerStep

\* A step keeps what is known of each request: of the one it serves by the
\* case of its worker's step, of any other because nothing of it changes.
LEMMA RequestStep ==
    ASSUME IInv, [Next]_vars, NEW q \in Requests
    PROVE  WorkerInv(q)' /\ DecisionInv(q)' /\ AnswerInv(q)'
<1> DEFINE Known == WorkerInv(q)' /\ DecisionInv(q)' /\ AnswerInv(q)'
<1> USE InstanceAssumption
<1>a. TypeOK /\ (\A r \in Requests : WorkerInv(r) /\ DecisionInv(r) /\ AnswerInv(r))
  BY DEF IInv
<1>1. ASSUME NEW r \in Requests, NEW g \in Grants \cup {NoGrant}, Arrive(r, g)
      PROVE  Known
  BY <1>1, <1>a DEF Arrive, End, TypeOK, WorkerInv, DecisionInv,
     AnswerInv, NotAudited, Outcomes, Answers, WorkerSteps, LiveSteps,
     CriticalSteps, httpVars, workVars, lockVars, dataVars
<1>2. ASSUME NEW r \in Requests, Deny(r) PROVE Known
  BY <1>2, <1>a DEF Deny, End, RecordDenied, TypeOK, WorkerInv,
     DecisionInv, AnswerInv, NotAudited, Outcomes, Answers, WorkerSteps,
     LiveSteps, CriticalSteps, httpVars, workVars, lockVars, dataVars
<1>3. ASSUME NEW r \in Requests, NoWorker(r) PROVE Known
  BY <1>3, <1>a DEF NoWorker, End, RecordDenied, TypeOK, WorkerInv,
     DecisionInv, AnswerInv, NotAudited, Outcomes, Answers, WorkerSteps,
     LiveSteps, CriticalSteps, httpVars, workVars, lockVars, dataVars
<1>4. ASSUME NEW r \in Requests, SpawnWorker(r) PROVE Known
  BY <1>4, <1>a DEF SpawnWorker, TypeOK, WorkerInv, DecisionInv,
     AnswerInv, NotAudited, Outcomes, Answers, WorkerSteps, LiveSteps,
     CriticalSteps, httpVars, workVars, lockVars, dataVars
<1>5. ASSUME NEW r \in Requests, DropWaiter(r) PROVE Known
  BY <1>5, <1>a DEF DropWaiter, End, Cancelled, TypeOK, WorkerInv,
     DecisionInv, AnswerInv, NotAudited, Outcomes, Answers, WorkerSteps,
     LiveSteps, CriticalSteps, httpVars, workVars, lockVars, dataVars
<1>6. ASSUME NEW r \in Requests, Respond(r) PROVE Known
  BY <1>6, <1>a DEF Respond, End, TypeOK, WorkerInv, DecisionInv,
     AnswerInv, NotAudited, Outcomes, Answers, WorkerSteps, LiveSteps,
     CriticalSteps, httpVars, workVars, lockVars, dataVars
<1>7. ASSUME NEW r \in Requests, Prepare(r) PROVE Known
  BY <1>7, <1>a DEF Prepare, Goto, Leave, TypeOK, WorkerInv, DecisionInv,
     AnswerInv, NotAudited, Outcomes, Answers, WorkerSteps, LiveSteps,
     CriticalSteps, httpVars, workVars, lockVars, dataVars
<1>8. ASSUME NEW r \in Requests, Acquire(r) PROVE Known
  BY <1>8, <1>a DEF Acquire, Goto, Leave, TypeOK, WorkerInv, DecisionInv,
     AnswerInv, NotAudited, Outcomes, Answers, WorkerSteps, LiveSteps,
     CriticalSteps, httpVars, workVars, lockVars, dataVars
<1>9. ASSUME NEW r \in Requests, Revalidate(r) PROVE Known
  BY <1>9, <1>a DEF Revalidate, Goto, Leave, TypeOK, WorkerInv,
     DecisionInv, AnswerInv, NotAudited, Outcomes, Answers, WorkerSteps,
     LiveSteps, CriticalSteps, httpVars, workVars, lockVars, dataVars
<1>10. ASSUME NEW r \in Requests, Claim(r) PROVE Known
  BY <1>10, <1>a DEF Claim, Goto, Leave, TypeOK, WorkerInv, DecisionInv,
     AnswerInv, NotAudited, Outcomes, Answers, WorkerSteps, LiveSteps,
     CriticalSteps, httpVars, workVars, lockVars, dataVars
<1>11. ASSUME NEW r \in Requests, ConsumeGrant(r) PROVE Known
  BY <1>11, <1>a DEF ConsumeGrant, Goto, Leave, SpentGrants, TypeOK,
     WorkerInv, DecisionInv, AnswerInv, NotAudited, Outcomes, Answers,
     WorkerSteps, LiveSteps, CriticalSteps, httpVars, workVars, lockVars,
     dataVars
<1>12. ASSUME NEW r \in Requests, Publish(r) PROVE Known
  BY <1>12, <1>a DEF Publish, Goto, Leave, TypeOK, WorkerInv, DecisionInv,
     AnswerInv, NotAudited, Outcomes, Answers, WorkerSteps, LiveSteps,
     CriticalSteps, httpVars, workVars, lockVars, dataVars
<1>13. ASSUME NEW r \in Requests, Audit(r) PROVE Known
  BY <1>13, <1>a DEF Audit, Goto, RecordDenied, TypeOK, WorkerInv,
     DecisionInv, AnswerInv, NotAudited, Outcomes, Answers, WorkerSteps,
     LiveSteps, CriticalSteps, httpVars, workVars, lockVars, dataVars
<1>14. ASSUME NEW r \in Requests, ReturnWorker(r) PROVE Known
  BY <1>14, <1>a DEF ReturnWorker, Goto, TypeOK, WorkerInv, DecisionInv,
     AnswerInv, NotAudited, Outcomes, Answers, WorkerSteps, LiveSteps,
     CriticalSteps, httpVars, workVars, lockVars, dataVars
<1>15. ASSUME NEW r \in Requests, Panic(r) PROVE Known
  BY <1>15, <1>a DEF Panic, Goto, RecordDenied, TypeOK, WorkerInv,
     DecisionInv, AnswerInv, NotAudited, Outcomes, Answers, WorkerSteps,
     LiveSteps, CriticalSteps, httpVars, workVars, lockVars, dataVars
<1>16. CASE UNCHANGED vars
  BY <1>16, <1>a DEF vars, TypeOK, WorkerInv, DecisionInv, AnswerInv,
     NotAudited, Outcomes, Answers, WorkerSteps, LiveSteps, CriticalSteps,
     httpVars, workVars, lockVars, dataVars
<1> QED
  BY <1>1, <1>2, <1>3, <1>4, <1>5, <1>6, <1>7, <1>8, <1>9,
     <1>10, <1>11, <1>12, <1>13, <1>14, <1>15, <1>16
     DEF Next, WorkerStep

\* A grant is consumed once: only ConsumeGrant adds a consumer, and it looks
\* at what was spent; a request that arrives has consumed nothing yet.
LEMMA ConsumersStep == IInv /\ [Next]_vars => ConsumersDiffer'
<1> SUFFICES ASSUME IInv, [Next]_vars PROVE ConsumersDiffer'
  OBVIOUS
<1> USE DEF ConsumersDiffer, IInv, TypeOK
<1>1. ASSUME NEW r \in Requests, NEW g \in Grants \cup {NoGrant}, Arrive(r, g)
      PROVE  ConsumersDiffer'
  <2>1. r \notin consumed
    BY <1>1 DEF Arrive, WorkerInv, DecisionInv
  <2> QED BY <1>1, <2>1 DEF Arrive, dataVars
<1>2. ASSUME NEW r \in Requests, ConsumeGrant(r) PROVE ConsumersDiffer'
  <2>1. UNCHANGED grant
    BY <1>2 DEF ConsumeGrant
  <2>2. \/ UNCHANGED consumed
        \/ consumed' = consumed \cup {r} /\ grant[r] \notin SpentGrants
    BY <1>2 DEF ConsumeGrant
  <2> QED BY <2>1, <2>2 DEF SpentGrants
<1>3. ASSUME UNCHANGED <<consumed, grant>> PROVE ConsumersDiffer'
  BY <1>3
<1>4. ASSUME NEW r \in Requests,
             \/ Deny(r) \/ NoWorker(r) \/ SpawnWorker(r) \/ DropWaiter(r)
             \/ Respond(r) \/ Panic(r)
      PROVE  UNCHANGED <<consumed, grant>>
  BY <1>4 DEF Deny, NoWorker, SpawnWorker, DropWaiter, Respond, Panic, dataVars
<1>5. ASSUME NEW r \in Requests,
             \/ Prepare(r) \/ Acquire(r) \/ Revalidate(r) \/ Claim(r)
             \/ Publish(r) \/ Audit(r) \/ ReturnWorker(r)
      PROVE  UNCHANGED <<consumed, grant>>
  BY <1>5 DEF Prepare, Acquire, Revalidate, Claim, Publish, Audit, ReturnWorker,
     dataVars
<1>6. CASE UNCHANGED vars
  BY <1>6 DEF vars, dataVars
<1> QED
  BY <1>1, <1>2, <1>3, <1>4, <1>5, <1>6 DEF Next, WorkerStep

\* The publication lock: a worker enters the critical steps by taking a free,
\* unpoisoned lock, and gives back no lock but its own.
LEMMA LockStep == IInv /\ [Next]_vars => PublicationExclusive'
<1> SUFFICES ASSUME IInv, [Next]_vars PROVE PublicationExclusive'
  OBVIOUS
<1> USE InstanceAssumption DEF PublicationExclusive, IInv, TypeOK
<1>1. ASSUME NEW r \in Requests,
             \/ Prepare(r) \/ Acquire(r) \/ Revalidate(r) \/ Claim(r)
      PROVE  PublicationExclusive'
  BY <1>1 DEF Prepare, Acquire, Revalidate, Claim, Goto, Leave, CriticalSteps
<1>2. ASSUME NEW r \in Requests,
             \/ ConsumeGrant(r) \/ Publish(r) \/ Audit(r) \/ ReturnWorker(r)
             \/ Panic(r) \/ SpawnWorker(r)
      PROVE  PublicationExclusive'
  BY <1>2 DEF ConsumeGrant, Publish, Audit, ReturnWorker, Panic, SpawnWorker,
     Goto, Leave, CriticalSteps, lockVars
<1>3. ASSUME UNCHANGED <<worker, lock, poisoned>> PROVE PublicationExclusive'
  BY <1>3
<1>4. ASSUME NEW r \in Requests, NEW g \in Grants \cup {NoGrant}, Arrive(r, g)
      PROVE  UNCHANGED <<worker, lock, poisoned>>
  BY <1>4 DEF Arrive, workVars, lockVars
<1>5. ASSUME NEW r \in Requests,
             Deny(r) \/ NoWorker(r) \/ DropWaiter(r) \/ Respond(r)
      PROVE  UNCHANGED <<worker, lock, poisoned>>
  BY <1>5 DEF Deny, NoWorker, DropWaiter, Respond, workVars, lockVars
<1>6. CASE UNCHANGED vars
  BY <1>6 DEF vars, workVars, lockVars
<1> QED
  BY <1>1, <1>2, <1>3, <1>4, <1>5, <1>6 DEF Next, WorkerStep

\* The inductive invariant of handlers, workers, commit cells and the lock
\* holds in every reachable state.
THEOREM InductiveInvariant == Spec => []IInv
<1>1. Init => IInv
  <2> SUFFICES ASSUME Init PROVE IInv
    OBVIOUS
  <2>1. TypeOK
    BY DEF Init, TypeOK, Outcomes, Answers, WorkerSteps, LiveSteps
  <2>2. ASSUME NEW r \in Requests
        PROVE  WorkerInv(r) /\ DecisionInv(r) /\ AnswerInv(r)
    BY DEF Init, WorkerInv, DecisionInv, AnswerInv, NotAudited, CriticalSteps
  <2>3. ConsumersDiffer /\ PublicationExclusive
    BY DEF Init, ConsumersDiffer, PublicationExclusive, CriticalSteps
  <2> QED BY <2>1, <2>2, <2>3 DEF IInv
<1>2. IInv /\ [Next]_vars => IInv'
  <2> SUFFICES ASSUME IInv, [Next]_vars PROVE IInv'
    OBVIOUS
  <2>1. TypeOK'
    BY TypeStep DEF IInv
  <2>2. \A r \in Requests : WorkerInv(r)' /\ DecisionInv(r)' /\ AnswerInv(r)'
    BY RequestStep
  <2> QED
    BY <2>1, <2>2, ConsumersStep, LockStep DEF IInv
<1> QED
  BY <1>1, <1>2, PTL DEF Spec

\* The tasks, workers, permits, commit cells and audit records are well typed.
THEOREM TypeCorrect == Spec => []TypeOK
<1>1. IInv => TypeOK
  BY DEF IInv
<1> QED BY <1>1, InductiveInvariant, PTL


\* A dropped request whose worker had not claimed the commit never spends a
\* grant or changes the filesystem, for any number of requests and servers.
THEOREM CancellationSafety == Spec => []CancelledIsClean
<1>1. IInv => CancelledIsClean
  BY DEF IInv, TypeOK, DecisionInv, CancelledIsClean
<1> QED BY <1>1, InductiveInvariant, PTL

\* No two requests of the process publish with one grant.
THEOREM GrantPublishesOnce == Spec => []OneMutationPerGrant
<1>1. IInv => OneMutationPerGrant
  BY DEF IInv, TypeOK, DecisionInv, ConsumersDiffer, OneMutationPerGrant
<1> QED BY <1>1, InductiveInvariant, PTL

\* Workers of all servers publish one at a time, never through a poisoned lock.
THEOREM Exclusion == Spec => []PublicationExclusive
<1>1. IInv => PublicationExclusive
  BY DEF IInv
<1> QED BY <1>1, InductiveInvariant, PTL

\* Every worker that ended wrote one audit record, and `allowed' only for a
\* mutation that succeeded.
THEOREM AuditTrail == Spec => []AuditedOnce
<1>1. IInv => AuditedOnce
  BY DEF IInv, TypeOK, WorkerInv, DecisionInv, AuditedOnce
<1> QED BY <1>1, InductiveInvariant, PTL

\* Clients are told the truth about their mutation.
THEOREM AnswersHonest == Spec => []HonestAnswers
<1>1. IInv => HonestAnswers
  BY DEF IInv, TypeOK, WorkerInv, DecisionInv, AnswerInv, HonestAnswers,
     Answers, Outcomes
<1> QED BY <1>1, InductiveInvariant, PTL

-----------------------------------------------------------------------------
(* Permits.                                                                *)

\* try_acquire keeps every server within its limit.
LEMMA AcquireBounded ==
    ASSUME NEW r \in Requests, NEW holders \in SUBSET Requests, NEW limit \in Nat,
           Available(r, holders, limit),
           \A s \in Servers : Cardinality({q \in holders : ServerOf[q] = s}) <= limit
    PROVE  \A s \in Servers :
              Cardinality({q \in holders \cup {r} : ServerOf[q] = s}) <= limit
<1> SUFFICES ASSUME NEW s \in Servers
             PROVE  Cardinality({q \in holders \cup {r} : ServerOf[q] = s}) <= limit
  OBVIOUS
<1> DEFINE Held == {q \in holders : ServerOf[q] = s}
           Grown == {q \in holders \cup {r} : ServerOf[q] = s}
<1>1. IsFiniteSet(Held)
  BY InstanceAssumption, FS_Subset
<1>2. CASE ServerOf[r] = s
  <2>1. Grown = Held \cup {r}
    BY <1>2
  <2>2. Cardinality(Held) < limit
    BY <1>2 DEF Available
  <2>3. Cardinality(Held) \in Nat
    BY <1>1, FS_CardinalityType
  <2>4. Cardinality(Held \cup {r}) \in {Cardinality(Held), Cardinality(Held) + 1}
    BY <1>1, FS_AddElement
  <2>5. Cardinality(Grown) = Cardinality(Held \cup {r})
    BY <2>1
  <2> HIDE DEF Held, Grown
  <2>6. Cardinality(Grown) <= limit
    BY <2>2, <2>3, <2>4, <2>5
  <2> QED BY <2>6 DEF Grown
<1>3. CASE ServerOf[r] # s
  <2>1. Grown = Held
    BY <1>3
  <2> QED BY <2>1
<1> QED BY <1>2, <1>3

\* Dropping a permit keeps every server within its limit.
LEMMA ReleaseBounded ==
    ASSUME NEW r \in Requests, NEW holders \in SUBSET Requests, NEW limit \in Nat,
           \A s \in Servers : Cardinality({q \in holders : ServerOf[q] = s}) <= limit
    PROVE  \A s \in Servers :
              Cardinality({q \in holders \ {r} : ServerOf[q] = s}) <= limit
<1> SUFFICES ASSUME NEW s \in Servers
             PROVE  Cardinality({q \in holders \ {r} : ServerOf[q] = s}) <= limit
  OBVIOUS
<1> DEFINE Held == {q \in holders : ServerOf[q] = s}
           Kept == {q \in holders \ {r} : ServerOf[q] = s}
<1>1. IsFiniteSet(Held)
  BY InstanceAssumption, FS_Subset
<1>2. Kept \subseteq Held
  OBVIOUS
<1>3. IsFiniteSet(Kept) /\ Cardinality(Kept) <= Cardinality(Held)
  BY <1>1, <1>2, FS_Subset
<1>4. Cardinality(Kept) \in Nat /\ Cardinality(Held) \in Nat
  BY <1>1, <1>3, FS_CardinalityType
<1>5. Cardinality(Held) <= limit
  OBVIOUS
<1> HIDE DEF Held, Kept
<1>6. Cardinality(Kept) <= limit
  BY <1>3, <1>4, <1>5
<1> QED BY <1>6 DEF Kept

\* Every step holds on to exactly the permits of what is still running, and
\* takes one only where there is one.
LEMMA PermitsStep == IInv /\ PermitsExact /\ [Next]_vars => PermitsExact'
<1> SUFFICES ASSUME IInv, PermitsExact, [Next]_vars PROVE PermitsExact'
  OBVIOUS
<1> DEFINE Within(holders, limit) ==
             \A s \in Servers : Cardinality({q \in holders : ServerOf[q] = s}) <= limit
           Holders == /\ requestPermits' = {q \in Requests : http'[q] \in {"handling", "waiting"}}
                      /\ workerPermits' = {q \in Requests : worker'[q] \in LiveSteps}
           Move(old, new, limit) ==
             \/ new = old
             \/ \E r \in Requests : new = old \cup {r} /\ Available(r, old, limit)
             \/ \E r \in Requests : new = old \ {r}
           Goal == /\ Holders
                   /\ Move(requestPermits, requestPermits', MaxRequests)
                   /\ Move(workerPermits, workerPermits', MaxWorkers)
<1>a. /\ TypeOK
      /\ \A r \in Requests : WorkerInv(r)
      /\ requestPermits = {q \in Requests : http[q] \in {"handling", "waiting"}}
      /\ workerPermits = {q \in Requests : worker[q] \in LiveSteps}
  BY DEF IInv, PermitsExact
<1>1. ASSUME NEW r \in Requests, NEW g \in Grants \cup {NoGrant}, Arrive(r, g)
      PROVE  Goal
  <2>1. UNCHANGED <<worker, workerPermits>>
    BY <1>1 DEF Arrive, workVars
  <2>2. CASE /\ Available(r, requestPermits, MaxRequests)
             /\ http' = [http EXCEPT ![r] = "handling"]
             /\ requestPermits' = requestPermits \cup {r}
    BY <1>a, <2>1, <2>2 DEF TypeOK
  <2>3. CASE End(r, "busy")
    BY <1>a, <2>1, <2>3 DEF End, TypeOK
  <2> QED BY <1>1, <2>2, <2>3 DEF Arrive
<1>2. ASSUME NEW r \in Requests,
             \/ Deny(r) \/ NoWorker(r) \/ DropWaiter(r) \/ Respond(r)
      PROVE  Goal
  BY <1>a, <1>2 DEF Deny, NoWorker, DropWaiter, Respond, End, TypeOK, workVars
<1>3. ASSUME NEW r \in Requests, SpawnWorker(r) PROVE Goal
  BY <1>a, <1>3 DEF SpawnWorker, TypeOK, LiveSteps
<1>4. ASSUME NEW r \in Requests,
             \/ Prepare(r) \/ Acquire(r) \/ Revalidate(r) \/ Claim(r)
      PROVE  Goal
  BY <1>a, <1>4 DEF Prepare, Acquire, Revalidate, Claim, Goto, Leave, TypeOK,
     LiveSteps, CriticalSteps, httpVars
<1>5. ASSUME NEW r \in Requests, ConsumeGrant(r) \/ Publish(r) \/ Audit(r)
      PROVE  Goal
  BY <1>a, <1>5 DEF ConsumeGrant, Publish, Audit, Goto, Leave, TypeOK,
     LiveSteps, CriticalSteps, httpVars
<1>6. ASSUME NEW r \in Requests, ReturnWorker(r) \/ Panic(r) PROVE Goal
  BY <1>a, <1>6 DEF ReturnWorker, Panic, Goto, TypeOK, LiveSteps, CriticalSteps,
     httpVars
<1>7. ASSUME UNCHANGED vars PROVE Goal
  BY <1>a, <1>7 DEF vars, httpVars, workVars
<1>8. Goal
  BY <1>1, <1>2, <1>3, <1>4, <1>5, <1>6, <1>7 DEF Next, WorkerStep
<1>9. ASSUME NEW old \in SUBSET Requests, NEW new, NEW limit \in Nat,
             Within(old, limit), Move(old, new, limit)
      PROVE  Within(new, limit)
  <2>1. CASE new = old
    BY <1>9, <2>1
  <2>2. ASSUME NEW r \in Requests, new = old \cup {r}, Available(r, old, limit)
        PROVE  Within(new, limit)
    BY <1>9, <2>2, AcquireBounded
  <2>3. ASSUME NEW r \in Requests, new = old \ {r}
        PROVE  Within(new, limit)
    <3>1. Within(old \ {r}, limit)
      BY <1>9, ReleaseBounded
    <3> QED BY <2>3, <3>1
  <2> QED BY <1>9, <2>1, <2>2, <2>3
<1>10. /\ requestPermits \in SUBSET Requests /\ workerPermits \in SUBSET Requests
       /\ MaxRequests \in Nat /\ MaxWorkers \in Nat
       /\ Within(requestPermits, MaxRequests) /\ Within(workerPermits, MaxWorkers)
  BY <1>a, InstanceAssumption DEF TypeOK, PermitsExact
<1>11. Within(requestPermits', MaxRequests) /\ Within(workerPermits', MaxWorkers)
  <2> HIDE DEF Within, Move, Holders
  <2> QED BY <1>8, <1>9, <1>10
<1> QED BY <1>8, <1>11 DEF PermitsExact

\* The request and worker limits hold on every server although workers outlive
\* their requests, and no path leaks a permit.
THEOREM PermitsSafe == Spec => []PermitsExact
<1>1. Init => PermitsExact
  <2> SUFFICES ASSUME Init PROVE PermitsExact
    OBVIOUS
  <2>1. \A s : {q \in {} : ServerOf[q] = s} = {}
    OBVIOUS
  <2>2. Cardinality({}) = 0
    BY FS_EmptySet
  <2> QED
    BY <2>1, <2>2, InstanceAssumption DEF Init, PermitsExact, LiveSteps, CriticalSteps
<1> QED BY <1>1, PermitsStep, InductiveInvariant, PTL DEF Spec

-----------------------------------------------------------------------------
(* Refinement.                                                             *)

\* A step of request r that spends no grant moves only the status of r, and
\* only along an edge of the abstract machine.
LEMMA QuietStep ==
    ASSUME NEW r \in Requests,
           UNCHANGED consumed, \A q \in consumed : grant'[q] = grant[q],
           \A q \in Requests : q # r => StatusOf(q)' = StatusOf(q),
           \/ StatusOf(r)' = StatusOf(r)
           \/ StatusOf(r) = "undecided" /\ StatusOf(r)' = "void"
           \/ StatusOf(r) = "committed" /\ StatusOf(r)' \in {"succeeded", "failed"}
    PROVE  [Atomic!Next]_(Atomic!vars)
<1> DEFINE st == [q \in Requests |-> StatusOf(q)]
           sp == [g \in Grants |-> {q \in consumed : grant[q] = g}]
<1>1. sp' = sp
  OBVIOUS
<1>2. st' = [st EXCEPT ![r] = StatusOf(r)']
  OBVIOUS
<1>3. CASE StatusOf(r)' = StatusOf(r)
  <2>1. st' = st
    BY <1>3
  <2> QED BY <1>1, <2>1 DEF Atomic!vars
<1>4. CASE StatusOf(r) = "undecided" /\ StatusOf(r)' = "void"
  <2>1. Atomic!Void(r)
    BY <1>1, <1>2, <1>4 DEF Atomic!Void
  <2> QED BY <2>1 DEF Atomic!Next
<1>5. CASE StatusOf(r) = "committed" /\ StatusOf(r)' \in {"succeeded", "failed"}
  <2>1. Atomic!Decide(r, StatusOf(r)')
    BY <1>1, <1>2, <1>5 DEF Atomic!Decide
  <2> QED BY <1>5, <2>1 DEF Atomic!Next
<1> QED BY <1>3, <1>4, <1>5

\* Every step of a handler, a waiter or a worker is a step of AtomicMutation
\* or leaves its variables alone.
LEMMA RefinementStep == IInv /\ [Next]_vars => [Atomic!Next]_(Atomic!vars)
<1> SUFFICES ASSUME IInv, [Next]_vars PROVE [Atomic!Next]_(Atomic!vars)
  OBVIOUS
<1> DEFINE Quiet(r) ==
      /\ UNCHANGED consumed
      /\ \A q \in consumed : grant'[q] = grant[q]
      /\ \A q \in Requests : q # r => StatusOf(q)' = StatusOf(q)
      /\ \/ StatusOf(r)' = StatusOf(r)
         \/ StatusOf(r) = "undecided" /\ StatusOf(r)' = "void"
         \/ StatusOf(r) = "committed" /\ StatusOf(r)' \in {"succeeded", "failed"}
<1>a. TypeOK /\ (\A r \in Requests : WorkerInv(r) /\ DecisionInv(r))
  BY DEF IInv
<1>b. ASSUME NEW r \in Requests, Quiet(r) PROVE [Atomic!Next]_(Atomic!vars)
  BY <1>b, QuietStep
<1>1. ASSUME NEW r \in Requests, NEW g \in Grants \cup {NoGrant}, Arrive(r, g)
      PROVE  Quiet(r)
  BY <1>a, <1>1 DEF Arrive, End, StatusOf, TypeOK, WorkerInv, DecisionInv,
     CriticalSteps, workVars, dataVars
<1>2. ASSUME NEW r \in Requests, Deny(r) \/ NoWorker(r) PROVE Quiet(r)
  BY <1>a, <1>2 DEF Deny, NoWorker, End, StatusOf, TypeOK, WorkerInv,
     DecisionInv, CriticalSteps, httpVars, workVars, dataVars
<1>3. ASSUME NEW r \in Requests, SpawnWorker(r) PROVE Quiet(r)
  BY <1>a, <1>3 DEF SpawnWorker, StatusOf, TypeOK, WorkerInv,
     DecisionInv, CriticalSteps, httpVars, workVars, dataVars
<1>4. ASSUME NEW r \in Requests, DropWaiter(r) PROVE Quiet(r)
  BY <1>a, <1>4 DEF DropWaiter, End, Cancelled, StatusOf, TypeOK, WorkerInv,
     DecisionInv, CriticalSteps, httpVars, workVars, dataVars
<1>5. ASSUME NEW r \in Requests, Respond(r) PROVE Quiet(r)
  BY <1>a, <1>5 DEF Respond, End, StatusOf, TypeOK, WorkerInv,
     DecisionInv, CriticalSteps, httpVars, workVars, dataVars
<1>6. ASSUME NEW r \in Requests, Prepare(r) PROVE Quiet(r)
  BY <1>a, <1>6 DEF Prepare, Goto, Leave, StatusOf, TypeOK, WorkerInv,
     DecisionInv, CriticalSteps, httpVars, workVars, dataVars
<1>7. ASSUME NEW r \in Requests, Acquire(r) PROVE Quiet(r)
  BY <1>a, <1>7 DEF Acquire, Goto, Leave, StatusOf, TypeOK, WorkerInv,
     DecisionInv, CriticalSteps, httpVars, workVars, dataVars
<1>8. ASSUME NEW r \in Requests, Revalidate(r) PROVE Quiet(r)
  BY <1>a, <1>8 DEF Revalidate, Goto, Leave, StatusOf, TypeOK, WorkerInv,
     DecisionInv, CriticalSteps, httpVars, workVars, dataVars
<1>9. ASSUME NEW r \in Requests, Claim(r) PROVE Quiet(r)
  BY <1>a, <1>9 DEF Claim, Goto, Leave, StatusOf, TypeOK, WorkerInv,
     DecisionInv, CriticalSteps, httpVars, workVars, dataVars
<1>10. ASSUME NEW r \in Requests, Publish(r) PROVE Quiet(r)
  BY <1>a, <1>10 DEF Publish, Goto, Leave, StatusOf, TypeOK, WorkerInv,
     DecisionInv, CriticalSteps, httpVars, workVars, dataVars
<1>11. ASSUME NEW r \in Requests, Audit(r) PROVE Quiet(r)
  BY <1>a, <1>11 DEF Audit, Goto, StatusOf, TypeOK, WorkerInv,
     DecisionInv, CriticalSteps, httpVars, workVars, dataVars
<1>12. ASSUME NEW r \in Requests, ReturnWorker(r) PROVE Quiet(r)
  BY <1>a, <1>12 DEF ReturnWorker, Goto, StatusOf, TypeOK, WorkerInv,
     DecisionInv, CriticalSteps, httpVars, workVars, dataVars
<1>13. ASSUME NEW r \in Requests, Panic(r) PROVE Quiet(r)
  BY <1>a, <1>13 DEF Panic, Goto, StatusOf, TypeOK, WorkerInv,
     DecisionInv, CriticalSteps, httpVars, workVars, dataVars
<1>14. ASSUME NEW r \in Requests, ConsumeGrant(r)
      PROVE  [Atomic!Next]_(Atomic!vars)
  <2>1. CASE /\ grant[r] \notin SpentGrants
             /\ consumed' = consumed \cup {r}
             /\ Goto(r, "authorized")
             /\ UNCHANGED <<outcome, lock>>
    <3> DEFINE st == [q \in Requests |-> StatusOf(q)]
               sp == [g \in Grants |-> {q \in consumed : grant[q] = g}]
    <3>1. /\ grant[r] \in Grants /\ UNCHANGED <<grant, http, commit, outcome>>
          /\ r \notin consumed /\ outcome[r] = "none" /\ commit[r] = "owned"
          /\ worker[r] # "none"
      BY <1>a, <1>14, <2>1 DEF ConsumeGrant, WorkerInv, DecisionInv, CriticalSteps,
         httpVars
    <3>2. StatusOf(r) = "undecided" /\ StatusOf(r)' = "committed"
      BY <2>1, <3>1 DEF StatusOf
    <3>3. \A q \in Requests : q # r => StatusOf(q)' = StatusOf(q)
      BY <1>a, <2>1, <3>1 DEF StatusOf, Goto, TypeOK
    <3>4. st' = [st EXCEPT ![r] = "committed"]
      BY <3>2, <3>3
    <3>5. PICK h \in Grants : h = grant[r]
      BY <3>1
    <3>6. sp[h] = {}
      BY <2>1, <3>5 DEF SpentGrants
    <3>7. sp' = [sp EXCEPT ![h] = {r}]
      BY <2>1, <3>1, <3>5, <3>6 DEF SpentGrants
    <3>8. Atomic!Commit(r, h)
      BY <3>2, <3>4, <3>6, <3>7 DEF Atomic!Commit
    <3>9. Atomic!Next
      BY <3>8 DEF Atomic!Next
    <3> QED BY <3>9
  <2>2. CASE Leave(r, "unauthorized") /\ UNCHANGED consumed
    <3>1. Quiet(r)
      BY <1>a, <1>14, <2>2 DEF ConsumeGrant, Goto, Leave, StatusOf, TypeOK,
         WorkerInv, DecisionInv, CriticalSteps, httpVars
    <3> QED BY <1>b, <3>1
  <2> QED BY <1>14, <2>1, <2>2 DEF ConsumeGrant
<1>15. CASE UNCHANGED vars
  BY <1>15 DEF vars, httpVars, workVars, dataVars, Atomic!vars, StatusOf
<1> HIDE DEF Quiet
<1> QED
  BY <1>b, <1>1, <1>2, <1>3, <1>4, <1>5, <1>6, <1>7, <1>8, <1>9, <1>10,
     <1>11, <1>12, <1>13, <1>14, <1>15 DEF Next, WorkerStep

\* The protocol of handlers, commit guards, workers and lock implements the
\* specification in which every mutation request is decided in one step.
THEOREM Refinement == Spec => ImplementsAtomic
<1>1. Init => Atomic!Init
  BY DEF Init, Atomic!Init, StatusOf
<1> QED
  BY <1>1, RefinementStep, InductiveInvariant, PTL
     DEF Spec, ImplementsAtomic, Atomic!Spec
=============================================================================
