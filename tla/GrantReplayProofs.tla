--------------------------- MODULE GrantReplayProofs ---------------------------
(***************************************************************************)
(* Proofs about GrantReplay for every number of namespaces, authorities,   *)
(* grants, sessions and workers, and for every clock.                      *)
(***************************************************************************)
EXTENDS GrantReplay, FiniteSetTheorems, TLAPS

USE DEF NeverObserved

\* The type invariant: every step of the registry, of the issuer and of a
\* worker's consume call keeps the state well typed.
LEMMA TypeStep == TypeOK /\ CallsWellFormed /\ [Next]_vars => TypeOK'
<1> SUFFICES ASSUME TypeOK, CallsWellFormed, [Next]_vars PROVE TypeOK'
  OBVIOUS
<1> USE CapacityAssumption, TimeAssumption
<1>1. ASSUME NEW t \in ClockValues, ClockJump(t) PROVE TypeOK'
  BY <1>1 DEF ClockJump, TypeOK, registryVars
<1>2. ASSUME NEW s \in Sessions, SessionCreated(s) PROVE TypeOK'
  BY <1>2 DEF SessionCreated, TypeOK, registryVars
<1>3. ASSUME NEW s \in Sessions, SessionEnded(s) PROVE TypeOK'
  BY <1>3 DEF SessionEnded, TypeOK, registryVars
<1>4. ASSUME NEW g \in GrantIds, NEW n \in Namespaces, NEW s \in Sessions,
             NEW t \in Targets, NEW lifetime \in Lifetimes,
             Issue(g, n, s, t, lifetime)
      PROVE  TypeOK'
  <2>1. [namespace |-> n, session |-> s, target |-> t,
         issued |-> clock, expires |-> clock + lifetime] \in Grant
    BY DEF Grant, TypeOK
  <2>2. DOMAIN grants' = DOMAIN grants \cup {g}
    BY <1>4 DEF Issue
  <2>3. \A h \in DOMAIN grants' : grants'[h] \in Grant
    BY <1>4, <2>1 DEF Issue, TypeOK
  <2> QED
    BY <1>4, <2>2, <2>3 DEF Issue, TypeOK, registryVars
<1>5. ASSUME NEW a \in Authorities, Construct(a) PROVE TypeOK'
  BY <1>5 DEF Construct, InsertNamespace, TypeOK, registryVars
<1>6. ASSUME NEW w \in Workers, NEW a \in Authorities, NEW g \in GrantIds,
             NEW s \in Sessions, NEW t \in Targets, Admit(w, a, g, s, t)
      PROVE  TypeOK'
  <2>1. [pc |-> "admitted", authority |-> a, grant |-> g, session |-> s,
         target |-> t] \in Call
    BY DEF Call
  <2> QED
    BY <1>6, <2>1 DEF Admit, TypeOK, registryVars
<1>7. ASSUME NEW w \in Workers, ReadClock(w) PROVE TypeOK'
  <2>1. IdleCall \in Call
    BY DEF Call
  <2>2. call[w] \in [pc : {"admitted"}, authority : Authorities,
                     grant : GrantIds, session : Sessions, target : Targets]
    BY <1>7 DEF ReadClock, TypeOK, Call, IdleCall
  <2>3. [pc |-> "timed", authority |-> call[w].authority,
         grant |-> call[w].grant, session |-> call[w].session,
         target |-> call[w].target, now |-> clock] \in Call
    BY <2>2 DEF Call, TypeOK
  <2>4. call' \in [Workers -> Call]
    BY <1>7, <2>1, <2>3 DEF ReadClock, TypeOK
  <2> QED
    BY <1>7, <2>4 DEF ReadClock, TypeOK, registryVars
<1>8. ASSUME NEW w \in Workers, Consume(w) PROVE TypeOK'
  <2>1. IdleCall \in Call
    BY DEF Call
  <2>2. call[w] \in [pc : {"timed"}, authority : Authorities, grant : GrantIds,
                     session : Sessions, target : Targets, now : Nat]
    BY <1>8 DEF Consume, TypeOK, Call, IdleCall
  <2> DEFINE c == call[w]
             n == NamespaceOf[c.authority]
             kept == Retained(consumed[n], c.now)
  <2>3. /\ n \in Namespaces /\ c.grant \in GrantIds /\ c.now \in Nat
        /\ c.grant \in DOMAIN grants
    BY <1>8, <2>2 DEF Consume, CallsWellFormed
  <2>4. [id |-> c.grant, expiry |-> grants[c.grant].expires] \in Entry
    BY <2>3 DEF Entry, TypeOK, Grant
  <2>5. kept \subseteq Entry
    BY <2>3 DEF Retained, TypeOK
  <2>6. consumed' \in [Namespaces -> SUBSET Entry]
    <3>1. \/ consumed' = consumed
          \/ consumed' = [consumed EXCEPT ![n] = kept]
          \/ consumed' = [consumed EXCEPT ![n] = kept \cup
               {[id |-> c.grant, expiry |-> grants[c.grant].expires]}]
      BY <1>8 DEF Consume
    <3> QED BY <2>3, <2>4, <2>5, <3>1 DEF TypeOK
  <2>7. lastObserved' \in [Namespaces -> Nat \cup {NeverObserved}]
    BY <1>8, <2>3 DEF Consume, TypeOK
  <2>8. accepted' \in [GrantIds -> Nat]
    BY <1>8, <2>3 DEF Consume, TypeOK
  <2>9. call' \in [Workers -> Call]
    BY <1>8, <2>1 DEF Consume, TypeOK
  <2> QED
    BY <1>8, <2>6, <2>7, <2>8, <2>9 DEF Consume, TypeOK
<1>9. CASE Restart
  <2>1. IdleCall \in Call
    BY DEF Call
  <2> QED BY <1>9, <2>1 DEF Restart, TypeOK
<1>10. CASE UNCHANGED vars
  BY <1>10 DEF vars, registryVars, TypeOK
<1> QED
  BY <1>1, <1>2, <1>3, <1>4, <1>5, <1>6, <1>7, <1>8, <1>9, <1>10 DEF Next

-----------------------------------------------------------------------------
(* Facts about a worker's call and about consume.                          *)

\* A call with a clock reading carries the fields consume uses.
LEMMA TimedCall ==
    ASSUME TypeOK, NEW w \in Workers, call[w].pc = "timed"
    PROVE  call[w] \in [pc : {"timed"}, authority : Authorities,
                        grant : GrantIds, session : Sessions,
                        target : Targets, now : Nat]
  BY DEF TypeOK, Call, IdleCall

\* A call waiting for its clock reading carries authority, grant and binding.
LEMMA AdmittedCall ==
    ASSUME TypeOK, NEW w \in Workers, call[w].pc = "admitted"
    PROVE  call[w] \in [pc : {"admitted"}, authority : Authorities,
                        grant : GrantIds, session : Sessions, target : Targets]
  BY DEF TypeOK, Call, IdleCall

\* consume accepts a grant only when the namespace does not refuse it: a grant
\* it remembers survives the pruning of its own window, and a grant whose
\* expiry the observed clock has passed would need a clock set back.
LEMMA OkMeansNotRefused ==
    ASSUME TypeOK, CallsWellFormed, NEW w \in Workers, call[w].pc = "timed",
           Verdict(NamespaceOf[call[w].authority], call[w].grant, call[w].now)
             = "Ok"
    PROVE  ~Refuses(call[w].grant)
<1> USE CapacityAssumption
<1> DEFINE c == call[w]
           g == c.grant
           n == NamespaceOf[c.authority]
           entry == [id |-> g, expiry |-> grants[g].expires]
<1>1. /\ g \in DOMAIN grants /\ grants[g] \in Grant /\ c.now \in Nat
      /\ n \in Namespaces /\ grants[g].namespace = n
  BY TimedCall DEF CallsWellFormed, BindingMatches, TypeOK
<1>2. /\ ~RolledBack(n, c.now)
      /\ ~(c.now >= grants[g].expires)
      /\ g \notin ConsumedIds(Retained(consumed[n], c.now))
  BY Zenon DEF Verdict
<1>3. grants[g].expires \in Nat /\ c.now < grants[g].expires
  BY <1>1, <1>2 DEF Grant
<1>4. ~(lastObserved[n] >= grants[g].expires)
  <2>1. lastObserved[n] \in Nat \cup {NeverObserved}
    BY <1>1 DEF TypeOK
  <2> QED BY <1>1, <1>2, <1>3, <2>1 DEF RolledBack
<1>5. entry \notin consumed[n]
  <2> SUFFICES ASSUME entry \in consumed[n] PROVE FALSE
    OBVIOUS
  <2>1. entry \in Retained(consumed[n], c.now)
    BY <1>3 DEF Retained
  <2> QED BY <1>2, <2>1 DEF ConsumedIds
<1> QED
  BY <1>1, <1>4, <1>5 DEF Refuses

\* Every step keeps running calls tied to a bound authority, a session that
\* was handed out, an issued grant and a registered namespace.
LEMMA CallsStep == TypeOK /\ CallsWellFormed /\ [Next]_vars => CallsWellFormed'
<1> SUFFICES ASSUME TypeOK, CallsWellFormed, [Next]_vars
             PROVE  CallsWellFormed'
  OBVIOUS
<1> USE CapacityAssumption
<1>1. ASSUME NEW t \in ClockValues, ClockJump(t) PROVE CallsWellFormed'
  BY <1>1 DEF ClockJump, CallsWellFormed, BindingMatches, registryVars
<1>2. ASSUME NEW s \in Sessions, SessionCreated(s) PROVE CallsWellFormed'
  BY <1>2 DEF SessionCreated, CallsWellFormed, BindingMatches, registryVars
<1>3. ASSUME NEW s \in Sessions, SessionEnded(s) PROVE CallsWellFormed'
  BY <1>3 DEF SessionEnded, CallsWellFormed, BindingMatches, registryVars
<1>4. ASSUME NEW g \in GrantIds, NEW n \in Namespaces, NEW s \in Sessions,
             NEW t \in Targets, NEW lifetime \in Lifetimes,
             Issue(g, n, s, t, lifetime)
      PROVE  CallsWellFormed'
  <2>1. \A h \in DOMAIN grants : h \in DOMAIN grants' /\ grants'[h] = grants[h]
    BY <1>4 DEF Issue
  <2> QED BY <1>4, <2>1 DEF Issue, CallsWellFormed, BindingMatches, registryVars
<1>5. ASSUME NEW a \in Authorities, Construct(a) PROVE CallsWellFormed'
  <2>1. states \subseteq states'
    BY <1>5 DEF Construct, InsertNamespace, registryVars
  <2>2. \A b \in Authorities : authority'[b] = "bound" =>
           authority[b] = "bound" \/ (b = a /\ NamespaceOf[a] \in states')
    BY <1>5 DEF Construct, InsertNamespace, registryVars, TypeOK
  <2>3. \A b \in Authorities : authority[b] = "bound" => authority'[b] = "bound"
    BY <1>5 DEF Construct, TypeOK
  <2>4. ASSUME NEW v \in Workers, call[v].pc \in {"admitted", "timed"}
        PROVE  call[v].authority \in Authorities
    BY <2>4, TimedCall, AdmittedCall
  <2>5. UNCHANGED <<call, grants, usedSessions>>
    BY <1>5 DEF Construct
  <2> QED
    BY <2>1, <2>2, <2>3, <2>4, <2>5 DEF CallsWellFormed, BindingMatches
<1>6. ASSUME NEW w \in Workers, NEW a \in Authorities, NEW g \in GrantIds,
             NEW s \in Sessions, NEW t \in Targets, Admit(w, a, g, s, t)
      PROVE  CallsWellFormed'
  BY <1>6 DEF Admit, CallsWellFormed, BindingMatches, registryVars, TypeOK
<1>7. ASSUME NEW w \in Workers, ReadClock(w) PROVE CallsWellFormed'
  BY <1>7 DEF ReadClock, CallsWellFormed, BindingMatches, registryVars, TypeOK,
              IdleCall
<1>8. ASSUME NEW w \in Workers, Consume(w) PROVE CallsWellFormed'
  BY <1>8 DEF Consume, CallsWellFormed, BindingMatches, TypeOK, IdleCall
<1>9. CASE Restart
  BY <1>9 DEF Restart, CallsWellFormed, IdleCall
<1>10. CASE UNCHANGED vars
  BY <1>10 DEF vars, registryVars, CallsWellFormed, BindingMatches
<1> QED
  BY <1>1, <1>2, <1>3, <1>4, <1>5, <1>6, <1>7, <1>8, <1>9, <1>10 DEF Next

-----------------------------------------------------------------------------
(* The heart of the argument.                                              *)

\* Every step keeps a used grant refused while its session can still be
\* presented.
LEMMA UsedStep == IInv /\ [Next]_vars => UsedGrantsRefused'
<1> SUFFICES ASSUME IInv, [Next]_vars,
                    NEW h \in GrantIds, accepted'[h] > 0
             PROVE  /\ accepted'[h] = 1
                    /\ h \in DOMAIN grants'
                    /\ grants'[h].session \in usedSessions'
                    /\ grants'[h].session \in (liveSessions \cup InFlightSessions)'
                          => Refuses(h)'
  BY DEF UsedGrantsRefused
<1> USE CapacityAssumption, TimeAssumption
<1> DEFINE Goal == /\ accepted'[h] = 1
                   /\ h \in DOMAIN grants'
                   /\ grants'[h].session \in usedSessions'
                   /\ grants'[h].session \in (liveSessions \cup InFlightSessions)'
                         => Refuses(h)'
<1>t. TypeOK /\ CallsWellFormed
  BY DEF IInv
<1>u. accepted[h] > 0 =>
        /\ accepted[h] = 1
        /\ h \in DOMAIN grants
        /\ grants[h].session \in usedSessions
        /\ grants[h].session \in liveSessions \cup InFlightSessions => Refuses(h)
  BY DEF IInv, UsedGrantsRefused
<1>1. ASSUME NEW t \in ClockValues, ClockJump(t) PROVE Goal
  BY <1>1, <1>u DEF ClockJump, registryVars, InFlightSessions, Refuses
<1>2. ASSUME NEW s \in Sessions, SessionCreated(s) PROVE Goal
  \* A new session is not the session of a grant used before.
  BY <1>2, <1>u DEF SessionCreated, registryVars, InFlightSessions, Refuses
<1>3. ASSUME NEW s \in Sessions, SessionEnded(s) PROVE Goal
  BY <1>3, <1>u DEF SessionEnded, registryVars, InFlightSessions, Refuses
<1>4. ASSUME NEW g \in GrantIds, NEW n \in Namespaces, NEW s \in Sessions,
             NEW t \in Targets, NEW lifetime \in Lifetimes,
             Issue(g, n, s, t, lifetime)
      PROVE  Goal
  <2>1. h \in DOMAIN grants
    BY <1>4, <1>u DEF Issue
  <2>2. h \in DOMAIN grants' /\ grants'[h] = grants[h]
    BY <1>4, <2>1 DEF Issue
  <2> QED
    BY <1>4, <1>u, <2>2 DEF Issue, registryVars, InFlightSessions, Refuses
<1>5. ASSUME NEW a \in Authorities, Construct(a) PROVE Goal
  <2>1. UNCHANGED <<accepted, grants, usedSessions, liveSessions, call>>
    BY <1>5 DEF Construct
  <2>2. ASSUME Refuses(h) PROVE Refuses(h)'
    <3>1. CASE UNCHANGED registryVars
      BY <2>1, <2>2, <3>1 DEF Refuses, registryVars
    <3>2. CASE /\ NamespaceOf[a] \notin states
               /\ InsertNamespace(NamespaceOf[a], CapacityOf[a])
      BY <1>t, <2>1, <2>2, <3>2 DEF Refuses, InsertNamespace, TypeOK
    <3> QED BY <1>5, <3>1, <3>2 DEF Construct
  <2> QED BY <1>u, <2>1, <2>2 DEF InFlightSessions
<1>6. ASSUME NEW w \in Workers, NEW a \in Authorities, NEW g \in GrantIds,
             NEW s \in Sessions, NEW t \in Targets, Admit(w, a, g, s, t)
      PROVE  Goal
  \* The admitted session is live, so nothing new can be presented.
  <2>1. InFlightSessions' \subseteq InFlightSessions \cup {s}
    BY <1>6, <1>t DEF Admit, InFlightSessions, TypeOK
  <2> QED
    BY <1>6, <1>u, <2>1 DEF Admit, registryVars, Refuses
<1>7. ASSUME NEW w \in Workers, ReadClock(w) PROVE Goal
  <2>1. InFlightSessions' \subseteq InFlightSessions
    BY <1>7, <1>t DEF ReadClock, InFlightSessions, TypeOK, IdleCall
  <2> QED
    BY <1>7, <1>u, <2>1 DEF ReadClock, registryVars, Refuses
<1>8. ASSUME NEW w \in Workers, Consume(w) PROVE Goal
  <2> DEFINE c == call[w]
             g == c.grant
             n == NamespaceOf[c.authority]
             v == Verdict(n, g, c.now)
             kept == Retained(consumed[n], c.now)
             own == [id |-> g, expiry |-> grants[g].expires]
  <2>1. /\ c.pc = "timed" /\ c.authority \in Authorities /\ c.now \in Nat
        /\ g \in GrantIds /\ n \in Namespaces
    BY <1>8, <1>t, TimedCall DEF Consume
  <2>2. /\ n \in states /\ g \in DOMAIN grants /\ grants[g] \in Grant
        /\ grants[g].namespace = n /\ grants[g].session = c.session
        /\ c.session \in usedSessions
    BY <2>1, <1>t DEF CallsWellFormed, BindingMatches, TypeOK
  <2>3. c.session \in InFlightSessions
    BY <2>1 DEF InFlightSessions
  <2>4. InFlightSessions' \subseteq InFlightSessions
    BY <1>8, <1>t DEF Consume, InFlightSessions, TypeOK, IdleCall
  <2>5. UNCHANGED <<grants, usedSessions, liveSessions, states>>
    BY <1>8 DEF Consume
  <2>6. CASE v = "Ok" /\ h = g
    <3>1. ~Refuses(g)
      BY <1>t, <2>1, <2>6, OkMeansNotRefused
    <3>2. ~(accepted[g] > 0)
      BY <1>u, <2>2, <2>3, <2>6, <3>1
    <3>3. accepted[g] \in Nat
      BY <1>t, <2>1 DEF TypeOK
    <3>4. accepted'[g] = accepted[g] + 1
      BY <1>8, <1>t, <2>1, <2>6 DEF Consume, TypeOK
    <3>5. own \in consumed'[n]
      BY <1>8, <1>t, <2>1, <2>6 DEF Consume, TypeOK
    <3> QED
      BY <2>2, <2>5, <2>6, <3>2, <3>3, <3>4, <3>5 DEF Refuses
  <2>7. CASE ~(v = "Ok" /\ h = g)
    <3>1. accepted'[h] = accepted[h]
      BY <1>8, <1>t, <2>1, <2>7 DEF Consume, TypeOK
    <3>2. h \in DOMAIN grants /\ grants[h] \in Grant
      BY <1>t, <1>u, <3>1 DEF TypeOK
    <3>3. ASSUME Refuses(h) PROVE Refuses(h)'
      <4> DEFINE m == grants[h].namespace
                 entry == [id |-> h, expiry |-> grants[h].expires]
      <4>1. m \in Namespaces /\ grants[h].expires \in Nat
        BY <3>2 DEF Grant
      <4>2. CASE m # n
        <5>1. consumed'[m] = consumed[m] /\ lastObserved'[m] = lastObserved[m]
          BY <1>8, <1>t, <2>1, <4>1, <4>2 DEF Consume, TypeOK
        <5> QED BY <2>5, <3>3, <5>1 DEF Refuses
      <4>3. CASE m = n
        <5>1. lastObserved[n] \in Nat \cup {NeverObserved}
          BY <1>t, <2>1 DEF TypeOK
        <5>2. CASE v = "ClockRollback"
          <6>1. UNCHANGED <<consumed, lastObserved>>
            BY <1>8, <5>2 DEF Consume
          <6> QED BY <2>5, <3>3, <6>1 DEF Refuses
        <5>3. CASE v # "ClockRollback"
          <6>1. ~RolledBack(n, c.now)
            BY <5>3 DEF Verdict
          <6>2. lastObserved'[n] = c.now
            BY <1>8, <1>t, <2>1, <5>3 DEF Consume, TypeOK
          <6>3. c.now >= lastObserved[n]
            BY <2>1, <5>1, <6>1 DEF RolledBack
          <6>4. kept \subseteq consumed'[n]
            BY <1>8, <1>t, <2>1 DEF Consume, TypeOK, Retained
          <6>5. CASE lastObserved[n] >= grants[h].expires
            <7>1. lastObserved'[m] >= grants[h].expires
              BY <2>1, <4>1, <4>3, <5>1, <6>2, <6>3, <6>5
            <7> QED BY <2>5, <3>3, <7>1 DEF Refuses
          <6>6. CASE entry \in consumed[n]
            <7>1. CASE entry.expiry > c.now
              <8>1. entry \in consumed'[m]
                BY <4>3, <6>4, <6>6, <7>1 DEF Retained
              <8> QED BY <2>5, <3>3, <8>1 DEF Refuses
            <7>2. CASE ~(entry.expiry > c.now)
              <8>1. lastObserved'[m] >= grants[h].expires
                BY <2>1, <4>1, <4>3, <6>2, <7>2
              <8> QED BY <2>5, <3>3, <8>1 DEF Refuses
            <7> QED BY <7>1, <7>2
          <6> QED BY <3>3, <4>3, <6>5, <6>6 DEF Refuses
        <5> QED BY <5>2, <5>3
      <4> QED BY <4>2, <4>3
    <3> QED
      BY <1>u, <2>4, <2>5, <3>1, <3>3
  <2> QED BY <2>6, <2>7
<1>9. CASE Restart
  <2>1. InFlightSessions' = {} /\ liveSessions' = {}
    BY <1>9 DEF Restart, InFlightSessions, IdleCall
  <2> QED BY <1>9, <1>u, <2>1 DEF Restart
<1>10. CASE UNCHANGED vars
  BY <1>10, <1>u DEF vars, registryVars, InFlightSessions, Refuses
<1> QED
  BY <1>1, <1>2, <1>3, <1>4, <1>5, <1>6, <1>7, <1>8, <1>9, <1>10 DEF Next

\* Type correctness of the registry, the authorities, the calls and the
\* history, together with the facts the replay argument rests on.
THEOREM InductiveInvariant == Spec => []IInv
<1>1. Init => IInv
  <2> SUFFICES ASSUME Init PROVE IInv
    OBVIOUS
  <2> USE CapacityAssumption, TimeAssumption
  <2>1. IdleCall \in Call
    BY DEF Call
  <2>2. TypeOK
    BY <2>1 DEF Init, TypeOK
  <2>3. CallsWellFormed
    BY DEF Init, CallsWellFormed, IdleCall
  <2>4. UsedGrantsRefused
    BY DEF Init, UsedGrantsRefused
  <2> QED BY <2>2, <2>3, <2>4 DEF IInv
<1>2. IInv /\ [Next]_vars => IInv'
  BY TypeStep, CallsStep, UsedStep DEF IInv
<1> QED BY <1>1, <1>2, PTL DEF Spec

\* The state of every replay state, authority, grant and call is well typed.
THEOREM TypeCorrect == Spec => []TypeOK
<1>1. IInv => TypeOK
  BY DEF IInv
<1> QED BY <1>1, InductiveInvariant, PTL

\* SharedReplayState::consume, with the registry and the session identifiers
\* around it, never lets one grant authorize two mutations.
THEOREM ReplaySafety == Spec => []AtMostOnce
<1>1. IInv => AtMostOnce
  <2> SUFFICES ASSUME IInv, NEW g \in GrantIds PROVE accepted[g] <= 1
    BY DEF AtMostOnce
  <2>1. accepted[g] \in Nat
    BY DEF IInv, TypeOK
  <2>2. accepted[g] > 0 => accepted[g] = 1
    BY DEF IInv, UsedGrantsRefused
  <2> QED BY <2>1, <2>2
<1> QED BY <1>1, InductiveInvariant, PTL

\* A grant is remembered as consumed only if it moved a mutation: whatever the
\* reason of a denial (rollback, window, replay, capacity), it leaves no entry
\* behind that would refuse the grant when it is presented again.
THEOREM UnspentSafety == Spec => []DenialLeavesUnspent
<1>1. Init => DenialLeavesUnspent
  BY DEF Init, DenialLeavesUnspent, ConsumedIds
<1>2. IInv /\ DenialLeavesUnspent /\ [Next]_vars => DenialLeavesUnspent'
  <2> SUFFICES ASSUME IInv, DenialLeavesUnspent, [Next]_vars,
                      NEW m \in Namespaces, NEW e \in consumed'[m]
               PROVE  e.id \in GrantIds /\ accepted'[e.id] > 0
    BY DEF DenialLeavesUnspent, ConsumedIds
  <2> USE CapacityAssumption
  <2>t. TypeOK /\ CallsWellFormed
    BY DEF IInv
  <2>1. ASSUME NEW d \in consumed[m]
        PROVE  d.id \in GrantIds /\ accepted[d.id] > 0
    BY <2>1 DEF DenialLeavesUnspent, ConsumedIds
  <2>2. CASE UNCHANGED <<consumed, accepted>>
    BY <2>1, <2>2
  <2>3. ASSUME NEW a \in Authorities, Construct(a)
        PROVE  e.id \in GrantIds /\ accepted'[e.id] > 0
    BY <2>t, <2>1, <2>3 DEF Construct, InsertNamespace, registryVars, TypeOK
  <2>4. ASSUME NEW w \in Workers, Consume(w)
        PROVE  e.id \in GrantIds /\ accepted'[e.id] > 0
    <3> DEFINE c == call[w]
               n == NamespaceOf[c.authority]
               own == [id |-> c.grant, expiry |-> grants[c.grant].expires]
               ok == Verdict(n, c.grant, c.now) = "Ok"
    <3>1. c.grant \in GrantIds /\ n \in Namespaces
      BY <2>t, <2>4, TimedCall DEF Consume
    <3>2. \A g \in GrantIds : accepted[g] \in Nat
      BY <2>t DEF TypeOK
    <3>3. accepted' = IF ok THEN [accepted EXCEPT ![c.grant] = @ + 1] ELSE accepted
      BY <2>4 DEF Consume
    <3>4. ASSUME NEW g \in GrantIds, accepted[g] > 0 PROVE accepted'[g] > 0
      BY <2>t, <3>1, <3>2, <3>3, <3>4 DEF TypeOK
    <3>5. e \in consumed[m] \/ (ok /\ e = own)
      BY <2>t, <2>4, <3>1 DEF Consume, TypeOK, Retained
    <3>6. ok => accepted'[c.grant] > 0
      BY <2>t, <3>1, <3>2, <3>3 DEF TypeOK
    <3> QED BY <2>1, <3>1, <3>4, <3>5, <3>6
  <2>5. CASE Restart
    BY <2>5 DEF Restart
  <2> QED
    BY <2>2, <2>3, <2>4, <2>5
       DEF Next, vars, registryVars, ClockJump, SessionCreated, SessionEnded, Issue, Admit, ReadClock
<1> QED BY <1>1, <1>2, InductiveInvariant, PTL DEF Spec

\* A registered namespace forgets an entry only when the observed clock has
\* reached its expiry: neither a full table, nor a second authority, nor a
\* clock set back displaces a grant that could still be presented.
THEOREM EntriesKept == Spec => LiveEntriesKept
<1> DEFINE Kept == \A n \in states \cap states' : \A e \in consumed[n] :
                     e.expiry > lastObserved'[n] => e \in consumed'[n]
<1>1. IInv /\ [Next]_vars => [Kept]_vars
  <2> SUFFICES ASSUME IInv, [Next]_vars,
                      NEW m \in states \cap states', NEW e \in consumed[m],
                      e.expiry > lastObserved'[m]
               PROVE  e \in consumed'[m]
    OBVIOUS
  <2> USE CapacityAssumption
  <2>t. TypeOK /\ CallsWellFormed
    BY DEF IInv
  <2>1. CASE UNCHANGED consumed
    BY <2>1
  <2>2. ASSUME NEW a \in Authorities, Construct(a) PROVE e \in consumed'[m]
    BY <2>t, <2>2 DEF Construct, InsertNamespace, registryVars, TypeOK
  <2>3. ASSUME NEW w \in Workers, Consume(w) PROVE e \in consumed'[m]
    <3> DEFINE c == call[w]
               n == NamespaceOf[c.authority]
               kept == Retained(consumed[n], c.now)
    <3>1. n \in Namespaces /\ m \in Namespaces
      BY <2>t, <2>3, TimedCall DEF Consume, TypeOK
    <3>2. CASE m # n
      BY <2>t, <2>3, <3>1, <3>2 DEF Consume, TypeOK
    <3>3. CASE m = n /\ ~UNCHANGED consumed
      <4>1. Verdict(n, c.grant, c.now) # "ClockRollback"
        BY <2>3, <3>3 DEF Consume
      <4>2. lastObserved'[n] = c.now
        BY <2>t, <2>3, <3>1, <4>1 DEF Consume, TypeOK
      <4>3. e \in kept
        BY <3>3, <4>2 DEF Retained
      <4>4. kept \subseteq consumed'[n]
        BY <2>t, <2>3, <3>1, <3>3 DEF Consume, TypeOK
      <4> QED BY <3>3, <4>3, <4>4
    <3> QED BY <2>1, <3>2, <3>3
  <2>4. CASE Restart
    BY <2>4 DEF Restart
  <2> QED
    BY <2>1, <2>2, <2>3, <2>4
       DEF Next, vars, registryVars, ClockJump, SessionCreated, SessionEnded, Issue, Admit, ReadClock
<1> QED BY <1>1, InductiveInvariant, PTL DEF Spec, LiveEntriesKept
=============================================================================
