----------------------------- MODULE GrantReplay -----------------------------
(***************************************************************************)
(* One-shot capability grants: the process-global replay registry of       *)
(* grant_replay.rs and the authorities of the five grant families that     *)
(* share it (create_directory_grant.rs and its siblings).                  *)
(*                                                                         *)
(* A grant is issued offline for one session and one target, presented on  *)
(* a tools/call request and consumed by a blocking worker immediately      *)
(* before the mutation.  The registry lives in memory only: a restart of   *)
(* the server forgets every consumed grant.  The wall clock the windows    *)
(* are measured with may jump either way.                                  *)
(***************************************************************************)
EXTENDS Integers, FiniteSets

CONSTANTS
    Namespaces,        \* classes of equivalent (family, key id, key, principal)
    NamespaceCapacity, \* MAX_SHARED_REPLAY_NAMESPACES
    Authorities,       \* authority objects an embedder may construct
    NamespaceOf,       \* replay_namespace: authority -> namespace
    CapacityOf,        \* replay_capacity an authority is constructed with
    GrantIds,          \* 128-bit random grant identifiers
    Sessions,          \* session UUIDs
    Targets,           \* operation bindings (root, path, content, disposition)
    Lifetimes,         \* expires - issued of the grants the key holder signs
    MaximumLifetime,   \* MAX_..._GRANT_LIFETIME_SECONDS
    MaximumFutureSkew, \* MAX_..._GRANT_FUTURE_SKEW_SECONDS
    ClockValues,       \* readings of the wall clock, in seconds
    Workers            \* concurrent executions that reach a consume

ASSUME CapacityAssumption ==
    /\ NamespaceCapacity \in Nat
    /\ NamespaceOf \in [Authorities -> Namespaces]
    /\ CapacityOf \in [Authorities -> Nat]

ASSUME TimeAssumption ==
    /\ Lifetimes \subseteq Nat
    /\ MaximumLifetime \in Nat
    /\ MaximumFutureSkew \in Nat
    /\ ClockValues \subseteq Nat

VARIABLES
    clock,        \* the wall clock
    liveSessions, \* sessions in the session store
    usedSessions, \* every session UUID handed out so far, over all restarts
    grants,       \* issued grants: a partial function from GrantIds
    authority,    \* "absent", "bound" or "refused" per authority
    states,       \* ReplayRegistry.states: namespaces with a replay state
    capacity,     \* ReplayState.capacity per namespace
    lastObserved, \* ReplayState.last_observed_unix_seconds per namespace
    consumed,     \* ReplayState.consumed per namespace: {[id, expiry]}
    call,         \* the consume call each worker is executing
    accepted      \* history: how often each grant was consumed, ever

registryVars == <<states, capacity, lastObserved, consumed>>
vars == <<clock, liveSessions, usedSessions, grants, authority, registryVars,
          call, accepted>>

NeverObserved == -1     \* Option::None of last_observed_unix_seconds

Grant == [namespace : Namespaces, session : Sessions, target : Targets,
          issued : Nat, expires : Nat]

Entry == [id : GrantIds, expiry : Nat]

IdleCall == [pc |-> "idle"]

Call == {IdleCall}
        \cup [pc : {"admitted"}, authority : Authorities, grant : GrantIds,
              session : Sessions, target : Targets]
        \cup [pc : {"timed"}, authority : Authorities, grant : GrantIds,
              session : Sessions, target : Targets, now : Nat]

TypeOK ==
    /\ clock \in Nat
    /\ liveSessions \subseteq usedSessions
    /\ usedSessions \subseteq Sessions
    /\ DOMAIN grants \subseteq GrantIds
    /\ \A g \in DOMAIN grants : grants[g] \in Grant
    /\ authority \in [Authorities -> {"absent", "bound", "refused"}]
    /\ states \subseteq Namespaces
    /\ capacity \in [Namespaces -> Nat]
    /\ lastObserved \in [Namespaces -> Nat \cup {NeverObserved}]
    /\ consumed \in [Namespaces -> SUBSET Entry]
    /\ call \in [Workers -> Call]
    /\ accepted \in [GrantIds -> Nat]

Init ==
    /\ clock \in ClockValues
    /\ liveSessions = {}
    /\ usedSessions = {}
    /\ grants = [g \in {} |-> <<>>]
    /\ authority = [a \in Authorities |-> "absent"]
    /\ states = {}
    /\ capacity = [n \in Namespaces |-> 0]
    /\ lastObserved = [n \in Namespaces |-> NeverObserved]
    /\ consumed = [n \in Namespaces |-> {}]
    /\ call = [w \in Workers |-> IdleCall]
    /\ accepted = [g \in GrantIds |-> 0]

-----------------------------------------------------------------------------
(* The environment: the clock, sessions and the offline issuer.            *)

\* SystemTime is not monotonic: NTP or the user may set it to any value.
ClockJump(t) ==
    /\ t # clock
    /\ clock' = t
    /\ UNCHANGED <<liveSessions, usedSessions, grants, authority, registryVars,
                   call, accepted>>

\* McpSessionStore::create hands out a fresh UUID.
SessionCreated(s) ==
    /\ s \notin usedSessions
    /\ usedSessions' = usedSessions \cup {s}
    /\ liveSessions' = liveSessions \cup {s}
    /\ UNCHANGED <<clock, grants, authority, registryVars, call, accepted>>

\* DELETE /mcp or idle expiry; a worker already admitted keeps running.
SessionEnded(s) ==
    /\ s \in liveSessions
    /\ liveSessions' = liveSessions \ {s}
    /\ UNCHANGED <<clock, usedSessions, grants, authority, registryVars, call,
                   accepted>>

\* issue_at: a fresh grant id, signed for one session and target.  It runs in
\* the operator's own process and touches no replay state of the server.
Issue(g, n, s, t, lifetime) ==
    /\ g \notin DOMAIN grants
    /\ grants' = [h \in DOMAIN grants \cup {g} |->
                    IF h = g
                    THEN [namespace |-> n, session |-> s, target |-> t,
                          issued |-> clock, expires |-> clock + lifetime]
                    ELSE grants[h]]
    /\ UNCHANGED <<clock, liveSessions, usedSessions, authority, registryVars,
                   call, accepted>>

-----------------------------------------------------------------------------
(* Authorities and the registry.                                           *)

\* ReplayRegistry::resolve for an unseen namespace.
InsertNamespace(n, requested) ==
    /\ states' = states \cup {n}
    /\ capacity' = [capacity EXCEPT ![n] = requested]
    /\ lastObserved' = [lastObserved EXCEPT ![n] = NeverObserved]
    /\ consumed' = [consumed EXCEPT ![n] = {}]

\* require_capacity for a namespace the registry already holds, room otherwise.
Resolvable(n, requested) ==
    /\ requested # 0
    /\ IF n \in states THEN capacity[n] = requested
                       ELSE Cardinality(states) < NamespaceCapacity

\* from_hex_key_with_capacity: construction fails closed when the shared
\* replay state cannot be resolved.
Construct(a) ==
    LET n == NamespaceOf[a] IN
    /\ authority[a] = "absent"
    /\ \/ /\ Resolvable(n, CapacityOf[a])
          /\ authority' = [authority EXCEPT ![a] = "bound"]
          /\ IF n \in states THEN UNCHANGED registryVars
                             ELSE InsertNamespace(n, CapacityOf[a])
       \/ /\ ~Resolvable(n, CapacityOf[a])
          /\ authority' = [authority EXCEPT ![a] = "refused"]
          /\ UNCHANGED registryVars
    /\ UNCHANGED <<clock, liveSessions, usedSessions, grants, call, accepted>>

\* A live tools/call passed validate_session_request for its session and was
\* handed to a worker with the grant of its header.
Admit(w, a, g, s, t) ==
    /\ call[w].pc = "idle"
    /\ authority[a] = "bound"
    /\ g \in DOMAIN grants
    /\ s \in liveSessions
    /\ call' = [call EXCEPT ![w] = [pc |-> "admitted", authority |-> a,
                                    grant |-> g, session |-> s, target |-> t]]
    /\ UNCHANGED <<clock, liveSessions, usedSessions, grants, authority,
                   registryVars, accepted>>

\* The checks of consume_at before the replay state is touched: version, key
\* id, signature and principal (the namespace), session and target.
BindingMatches(a, g, s, t) ==
    /\ grants[g].namespace = NamespaceOf[a]
    /\ grants[g].session = s
    /\ grants[g].target = t

\* Mutant: a tolerance is subtracted from the clock reading.
ReadClockSkewed(w) ==
    /\ call[w].pc = "admitted"
    /\ call' = [call EXCEPT ![w] =
                  [pc |-> "timed", authority |-> call[w].authority,
                   grant |-> call[w].grant, session |-> call[w].session,
                   target |-> call[w].target, now |-> clock - 1]]
    /\ UNCHANGED <<clock, liveSessions, usedSessions, grants, authority,
                   registryVars, accepted>>

\* consume reads the clock as an argument, before the replay lock is taken.
ReadClock(w) ==
    LET c == call[w] IN
    /\ c.pc = "admitted"
    /\ \/ /\ BindingMatches(c.authority, c.grant, c.session, c.target)
          /\ call' = [call EXCEPT ![w] =
                        [pc |-> "timed", authority |-> c.authority,
                         grant |-> c.grant, session |-> c.session,
                         target |-> c.target, now |-> clock]]
       \/ /\ ~BindingMatches(c.authority, c.grant, c.session, c.target)
          /\ call' = [call EXCEPT ![w] = IdleCall]
    /\ UNCHANGED <<clock, liveSessions, usedSessions, grants, authority,
                   registryVars, accepted>>

\* Mutant: entries are dropped one second early.
RetainedTooFew(entries, now) == {e \in entries : e.expiry > now + 1}

\* consumed.retain: expired entries are forgotten.
Retained(entries, now) == {e \in entries : e.expiry > now}

\* Mutant: the wall clock is trusted to be monotonic.
ClockTrusted(n, now) == FALSE

\* The observed time of a namespace never moves backwards.
RolledBack(n, now) == lastObserved[n] # NeverObserved /\ now < lastObserved[n]

ConsumedIds(entries) == {e.id : e \in entries}

\* SharedReplayState::consume, its decision in the order of the code.
Verdict(n, g, now) ==
    LET grant == grants[g]
        kept  == Retained(consumed[n], now)
    IN  IF RolledBack(n, now) THEN "ClockRollback"
        ELSE IF grant.expires - grant.issued \notin 1..MaximumLifetime
             THEN "LifetimeExceeded"
        ELSE IF grant.issued > now + MaximumFutureSkew THEN "FutureIssued"
        ELSE IF now >= grant.expires THEN "Expired"
        ELSE IF g \in ConsumedIds(kept) THEN "Replayed"
        ELSE IF Cardinality(kept) >= capacity[n] THEN "CapacityExhausted"
        ELSE "Ok"

\* Mutant: the entry is inserted before the replay and capacity checks.
ConsumeEarly(w) ==
    LET c == call[w]
        n == NamespaceOf[c.authority]
        v == Verdict(n, c.grant, c.now)
    IN  /\ c.pc = "timed"
        /\ v # "ClockRollback"
        /\ lastObserved' = [lastObserved EXCEPT ![n] = c.now]
        /\ consumed' = [consumed EXCEPT ![n] = Retained(@, c.now)
                          \cup {[id |-> c.grant, expiry |-> grants[c.grant].expires]}]
        /\ accepted' = IF v = "Ok" THEN [accepted EXCEPT ![c.grant] = @ + 1]
                                   ELSE accepted
        /\ call' = [call EXCEPT ![w] = IdleCall]
        /\ UNCHANGED <<clock, liveSessions, usedSessions, grants, authority,
                       states, capacity>>

\* The critical section of consume: the observed time advances on every path
\* but a rollback; pruning happens once the grant is inside its own window.
Consume(w) ==
    LET c == call[w]
        g == c.grant
        n == NamespaceOf[c.authority]
        v == Verdict(n, g, c.now)
        kept == Retained(consumed[n], c.now)
    IN  /\ c.pc = "timed"
        /\ lastObserved' = IF v = "ClockRollback" THEN lastObserved
                           ELSE [lastObserved EXCEPT ![n] = c.now]
        /\ \/ /\ v = "Ok"
              /\ consumed' = [consumed EXCEPT ![n] =
                    kept \cup {[id |-> g, expiry |-> grants[g].expires]}]
              /\ accepted' = [accepted EXCEPT ![g] = @ + 1]
           \/ /\ v \in {"Replayed", "CapacityExhausted"}
              /\ consumed' = [consumed EXCEPT ![n] = kept]
              /\ UNCHANGED accepted
           \/ /\ v \notin {"Ok", "Replayed", "CapacityExhausted"}
              /\ UNCHANGED <<consumed, accepted>>
        /\ call' = [call EXCEPT ![w] = IdleCall]
        /\ UNCHANGED <<clock, liveSessions, usedSessions, grants, authority,
                       states, capacity>>

\* The process dies and is started again: every in-memory structure is empty.
Restart ==
    /\ liveSessions' = {}
    /\ authority' = [a \in Authorities |-> "absent"]
    /\ states' = {}
    /\ capacity' = [n \in Namespaces |-> 0]
    /\ lastObserved' = [n \in Namespaces |-> NeverObserved]
    /\ consumed' = [n \in Namespaces |-> {}]
    /\ call' = [w \in Workers |-> IdleCall]
    /\ UNCHANGED <<clock, usedSessions, grants, accepted>>

Next ==
    \/ \E t \in ClockValues : ClockJump(t)
    \/ \E s \in Sessions : SessionCreated(s) \/ SessionEnded(s)
    \/ \E g \in GrantIds, n \in Namespaces, s \in Sessions, t \in Targets,
          lifetime \in Lifetimes : Issue(g, n, s, t, lifetime)
    \/ \E a \in Authorities : Construct(a)
    \/ \E w \in Workers, a \in Authorities, g \in GrantIds, s \in Sessions,
          t \in Targets : Admit(w, a, g, s, t)
    \/ \E w \in Workers : ReadClock(w) \/ Consume(w)
    \/ Restart

Spec == Init /\ [][Next]_vars

-----------------------------------------------------------------------------
(* Properties.                                                             *)

\* No grant authorizes two mutations: not through two equivalent authorities,
\* two workers racing with clock readings taken in the other order, a clock
\* set back after the entry was pruned, or a restart that forgets the registry
\* (the session the grant names died with it).
AtMostOnce == \A g \in GrantIds : accepted[g] <= 1

\* A grant is remembered as consumed (and so answered "Replayed") only if it
\* really authorized a mutation: a denial of any kind leaves it unspent.
DenialLeavesUnspent ==
    \A n \in Namespaces : ConsumedIds(consumed[n]) \subseteq {g \in GrantIds : accepted[g] > 0}

\* While a namespace is registered (resolve never replaces its state), an
\* entry is forgotten only when the observed clock has reached its expiry.
LiveEntriesKept ==
    [][\A n \in states \cap states' : \A e \in consumed[n] :
         e.expiry > lastObserved'[n] => e \in consumed'[n]]_vars

-----------------------------------------------------------------------------
(* The inductive invariant behind AtMostOnce.                              *)

InFlightSessions ==
    {call[w].session : w \in {v \in Workers : call[v].pc \in {"admitted", "timed"}}}

\* A namespace still refuses a grant: it remembers it, or its observed clock
\* has passed the grant's expiry for good.
Refuses(g) ==
    LET n == grants[g].namespace IN
    /\ n \in states
    /\ \/ [id |-> g, expiry |-> grants[g].expires] \in consumed[n]
       \/ lastObserved[n] >= grants[g].expires

\* A used grant is refused as long as its session can still be presented.
UsedGrantsRefused ==
    \A g \in GrantIds : accepted[g] > 0 =>
        /\ accepted[g] = 1
        /\ g \in DOMAIN grants
        /\ grants[g].session \in usedSessions
        /\ grants[g].session \in liveSessions \cup InFlightSessions => Refuses(g)

\* A running call holds a session that was handed out and an authority whose
\* namespace is registered; its bindings were checked once it has a clock
\* reading.
CallsWellFormed ==
    /\ \A a \in Authorities : authority[a] = "bound" => NamespaceOf[a] \in states
    /\ \A w \in Workers : call[w].pc \in {"admitted", "timed"} =>
          /\ authority[call[w].authority] = "bound"
          /\ call[w].session \in usedSessions
          /\ call[w].grant \in DOMAIN grants
    /\ \A w \in Workers : call[w].pc = "timed" =>
          BindingMatches(call[w].authority, call[w].grant, call[w].session,
                         call[w].target)

IInv == TypeOK /\ CallsWellFormed /\ UsedGrantsRefused
=============================================================================
