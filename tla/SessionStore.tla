---------------------------- MODULE SessionStore ----------------------------
(***************************************************************************)
(* The session store of mcp_session.rs as the legacy (session-bound) HTTP  *)
(* requests of mcp_transport.rs use it: initialize, POST messages, GET     *)
(* resumption and DELETE.                                                  *)
(*                                                                         *)
(* The store is one mutex around a map, so each of its operations is one   *)
(* step.  But every operation reads the monotonic clock before it takes    *)
(* the mutex, and every request makes at least two operations: it          *)
(* validates its session, then (after the tool has run) activates,         *)
(* terminates, records or replays.  Between the two, other requests may    *)
(* touch, fill, terminate or expire the same session.                      *)
(***************************************************************************)
EXTENDS Integers, FiniteSets, Sequences, SequencesExt

CONSTANTS
    Requests,       \* requests that can be in progress at one time
    SessionIds,     \* session UUIDs
    StreamIds,      \* SSE stream UUIDs
    DataSizes,      \* sizes of serialized responses
    MaxSessions,    \* MAX_MCP_SESSIONS
    IdleTimeout,    \* MCP_SESSION_IDLE_TIMEOUT
    MaxStreams,     \* MAX_MCP_SSE_STREAMS_PER_SESSION
    MaxEventBytes,  \* MAX_MCP_SSE_EVENT_DATA_BYTES
    MaxReplayBytes, \* MAX_MCP_SSE_REPLAY_BYTES_PER_SESSION
    Framing,        \* wire bytes of a stream beyond its response data
    RequestTimeout, \* request_timeout of the request limits
    LockDelay,      \* longest time from a clock reading to its operation
    MaxClock,       \* bound of the explored time
    SseEnabled      \* MCP__TRANSPORT__SSE_ENABLED

ASSUME BoundsAssumption ==
    /\ MaxSessions \in Nat /\ MaxStreams \in Nat \ {0}
    /\ DataSizes \subseteq Nat
    /\ MaxEventBytes \in Nat /\ Framing \in Nat /\ MaxReplayBytes \in Nat
    /\ MaxEventBytes + Framing <= MaxReplayBytes

ASSUME TimingAssumption ==
    /\ IdleTimeout \in Nat /\ RequestTimeout \in Nat /\ LockDelay \in Nat
    /\ RequestTimeout + 2 * LockDelay < IdleTimeout
    /\ MaxClock \in Nat

VARIABLES
    clock,      \* Instant::now()
    sessions,   \* SessionRegistry.sessions: a partial function of SessionIds
    used,       \* session UUIDs handed out so far
    request,    \* the request each slot is serving
    reply,      \* what the last request of each slot was answered
    deleted,    \* history: sessions removed by terminate
    newest,     \* history: latest clock reading that touched each session
    owner,      \* history: the session each SSE stream was recorded for
    history     \* history: all streams recorded for each session, in order

vars == <<clock, sessions, used, request, reply, deleted, newest, owner, history>>

Kinds == {"initialize", "ping", "call", "initialized", "other", "get", "delete"}

Stream == [id : StreamIds, bytes : Nat]

Record == [phase : {"AwaitingInitialized", "Active"}, lastActivity : Nat,
           streams : Seq(Stream), replayBytes : Nat]

NoSession == "no session"
NoStream == "no stream"

ASSUME NamesAssumption == NoSession \notin SessionIds /\ NoStream \notin StreamIds

Request == [pc : {"idle", "entering", "working", "finishing"}, kind : Kinds,
            session : SessionIds \cup {NoSession}, now : Nat, started : Nat]

Idle == [pc |-> "idle", kind |-> "other", session |-> NoSession,
         now |-> 0, started |-> 0]

\* An event is a stream and its sequence number: 0 primes, 1 carries the data.
Event(x, i) == [stream |-> x, index |-> i]

NoReply == [status |-> "none", session |-> NoSession, cursor |-> Event(NoStream, 0),
            events |-> {}]

Statuses == {"none", "full", "unknown", "accepted", "inactive", "plain", "dropped", "gone",
             "no cursor", "stream"}

Reply == [status : Statuses, session : SessionIds \cup {NoSession},
          cursor : [stream : StreamIds \cup {NoStream}, index : 0..2],
          events : SUBSET [stream : StreamIds, index : 0..1]]

StoreTypeOK ==
    /\ clock \in 0..MaxClock
    /\ used \subseteq SessionIds
    /\ \E live \in SUBSET used : sessions \in [live -> Record]
    /\ request \in [Requests -> Request]
    /\ reply \in [Requests -> Reply]
    /\ deleted \subseteq used
    /\ newest \in [SessionIds -> Nat]
    /\ owner \in [StreamIds -> SessionIds \cup {NoSession}]

TypeOK == StoreTypeOK /\ history \in [SessionIds -> Seq(Stream)]

Init ==
    /\ clock = 0
    /\ sessions = [s \in {} |-> NoSession]
    /\ used = {}
    /\ request = [r \in Requests |-> Idle]
    /\ reply = [r \in Requests |-> NoReply]
    /\ deleted = {}
    /\ newest = [s \in SessionIds |-> 0]
    /\ owner = [x \in StreamIds |-> NoSession]
    /\ history = [s \in SessionIds |-> <<>>]

-----------------------------------------------------------------------------
(* Time.  A clock reading is used within LockDelay; a request that is still *)
(* working when its timeout elapses is dropped.                             *)

Tick ==
    /\ clock < MaxClock
    /\ \A r \in Requests :
          /\ request[r].pc \in {"entering", "finishing"} =>
                clock - request[r].now < LockDelay
          /\ request[r].pc = "working" =>
                clock - request[r].started < RequestTimeout
    /\ clock' = clock + 1
    /\ UNCHANGED <<sessions, used, request, reply, deleted, newest, owner, history>>

-----------------------------------------------------------------------------
(* The operations of McpSessionStore on its map, under the mutex.           *)

Put(map, s, record) ==
    [t \in DOMAIN map \cup {s} |-> IF t = s THEN record ELSE map[t]]

\* Mutant: a session expires one unit before its timeout.
PrunedEarly(now) ==
    [s \in {t \in DOMAIN sessions : now - sessions[t].lastActivity < IdleTimeout - 1}
        |-> sessions[s]]

\* SessionRegistry::prune_expired; a reading older than the last activity
\* never expires a session.
Pruned(now) ==
    [s \in {t \in DOMAIN sessions : now - sessions[t].lastActivity < IdleTimeout}
        |-> sessions[s]]

\* Mutant: a new session is backdated.
NewRecordBackdated(now) ==
    [phase |-> "AwaitingInitialized", lastActivity |-> now - 1, streams |-> <<>>,
     replayBytes |-> 0]

NewRecord(now) ==
    [phase |-> "AwaitingInitialized", lastActivity |-> now, streams |-> <<>>,
     replayBytes |-> 0]

\* Mutant: using a session does not refresh it.
Untouched(record, now) == record

\* session.last_activity = now, also when now is older than what it replaces.
Touch(record, now) == [record EXCEPT !.lastActivity = now]

WireLen(data) == Framing + data

\* Wire bytes of a sequence of streams.
BytesOf(streams) ==
    LET sum[n \in 0..Len(streams)] == IF n = 0 THEN 0 ELSE sum[n - 1] + streams[n].bytes
    IN  sum[Len(streams)]

\* Mutant: the loop evicts one stream more than the limit asks for.
EvictedOneMore(record, retained) ==
    CHOOSE k \in 0..Len(record.streams) :
        LET fits(n) ==
              /\ Len(record.streams) - n < MaxStreams - 1
              /\ record.replayBytes - BytesOf(SubSeq(record.streams, 1, n))
                     + retained <= MaxReplayBytes
        IN  fits(k) /\ \A n \in 0..(k - 1) : ~fits(n)

\* The eviction loop: the fewest oldest streams whose removal makes room.
Evicted(record, retained) ==
    CHOOSE k \in 0..Len(record.streams) :
        LET fits(n) ==
              /\ Len(record.streams) - n < MaxStreams
              /\ record.replayBytes - BytesOf(SubSeq(record.streams, 1, n))
                     + retained <= MaxReplayBytes
        IN  fits(k) /\ \A n \in 0..(k - 1) : ~fits(n)

\* Mutant: the bytes of evicted streams are not given back.
RecordedUncounted(record, x, retained) ==
    LET k == Evicted(record, retained) IN
    [record EXCEPT
        !.replayBytes = @ + retained,
        !.streams = Append(SubSeq(@, k + 1, Len(@)), [id |-> x, bytes |-> retained])]

\* record_sse_response_at: evict, account, append.
Recorded(record, x, retained) ==
    LET k == Evicted(record, retained) IN
    [record EXCEPT
        !.replayBytes = @ - BytesOf(SubSeq(record.streams, 1, k)) + retained,
        !.streams = Append(SubSeq(@, k + 1, Len(@)), [id |-> x, bytes |-> retained])]

\* Mutant: the cursor is looked up over all sessions.
CursorKnownAnywhere(record, cursor) ==
    owner[cursor.stream] # NoSession /\ cursor.index \in 0..1

\* replay_sse_after_at: the cursor is the id of a retained event.
CursorKnown(record, cursor) ==
    /\ cursor.stream \in {record.streams[i].id : i \in DOMAIN record.streams}
    /\ cursor.index \in 0..1

\* What follows the cursor in the stream it belongs to.
EventsAfter(cursor) ==
    {Event(cursor.stream, j) : j \in (cursor.index + 1)..1}

-----------------------------------------------------------------------------
(* Requests.                                                                *)

Answer(r, status) ==
    /\ request' = [request EXCEPT ![r] = Idle]
    /\ reply' = [reply EXCEPT ![r] = [NoReply EXCEPT !.status = status,
                                                     !.session = request[r].session]]

Touched(s, now) ==
    newest' = [newest EXCEPT ![s] = IF now > @ THEN now ELSE @]

\* A request arrives; its first store operation has read the clock.
Start(r, kind, s) ==
    /\ request[r].pc = "idle"
    /\ kind = "initialize" <=> s = NoSession
    /\ request' = [request EXCEPT ![r] = [pc |-> "entering", kind |-> kind,
                     session |-> s, now |-> clock, started |-> clock]]
    /\ reply' = [reply EXCEPT ![r] = NoReply]
    /\ UNCHANGED <<clock, sessions, used, deleted, newest, owner, history>>

\* create_at refuses a session beyond the limit, expired ones not counted.
Full(now) == Cardinality(DOMAIN Pruned(now)) >= MaxSessions

\* initialize_response: prune, then a fresh session or HTTP 503.
CreateSession(r) ==
    LET now == request[r].now IN
    /\ request[r].pc = "entering"
    /\ request[r].kind = "initialize"
    /\ \/ /\ Full(now)
          /\ sessions' = Pruned(now)
          /\ Answer(r, "full")
          /\ UNCHANGED <<used, newest>>
       \/ /\ ~Full(now)
          /\ \E s \in SessionIds \ used :
                /\ sessions' = Put(Pruned(now), s, NewRecord(now))
                /\ used' = used \cup {s}
                /\ Touched(s, now)
                /\ request' = [request EXCEPT ![r].pc = "working", ![r].session = s]
          /\ UNCHANGED reply
    /\ UNCHANGED <<clock, deleted, owner, history>>

\* Which requests go on after validate_session_request returned their phase.
Proceeds(kind, phase) ==
    \/ kind \in {"ping", "initialized", "delete"}
    \/ kind \in {"call", "get"} /\ phase = "Active"

\* validate_session_request touches the session and takes its phase; a session
\* that is unknown, expired or terminated is answered 404.
Validate(r) ==
    LET now == request[r].now
        s == request[r].session
    IN  /\ request[r].pc = "entering"
        /\ request[r].kind # "initialize"
        /\ \/ /\ s \notin DOMAIN Pruned(now)
              /\ sessions' = Pruned(now)
              /\ Answer(r, "unknown")
              /\ UNCHANGED newest
           \/ /\ s \in DOMAIN Pruned(now)
              /\ sessions' = Put(Pruned(now), s, Touch(sessions[s], now))
              /\ Touched(s, now)
              /\ \/ /\ Proceeds(request[r].kind, sessions[s].phase)
                    /\ request' = [request EXCEPT ![r].pc = "working"]
                    /\ UNCHANGED reply
                 \/ /\ ~Proceeds(request[r].kind, sessions[s].phase)
                    /\ Answer(r, IF sessions[s].phase = "Active" THEN "accepted"
                                                                 ELSE "inactive")
        /\ UNCHANGED <<clock, used, deleted, owner, history>>

ResponseKinds == {"initialize", "ping", "call"}

\* No second operation: the response stays plain JSON (SSE is off, the status
\* is not 200, the data are too large for an event), the GET is answered 405
\* (SSE is off, there is no cursor) or 400 (the cursor is malformed), or the
\* notification carries a grant header and is refused.
AnswerPlain(r) ==
    /\ request[r].pc = "working"
    /\ request[r].kind \in ResponseKinds \cup {"get", "initialized"}
    /\ Answer(r, "plain")
    /\ UNCHANGED <<clock, sessions, used, deleted, newest, owner, history>>

\* The request timeout or a disconnect while the tool runs.
DropRequest(r) ==
    /\ request[r].pc = "working"
    /\ request[r].kind = "call"
    /\ Answer(r, "dropped")
    /\ UNCHANGED <<clock, sessions, used, deleted, newest, owner, history>>

\* The second store operation reads the clock.
ReadClock(r) ==
    /\ request[r].pc = "working"
    /\ request[r].kind \in ResponseKinds \cup {"get"} => SseEnabled
    /\ request' = [request EXCEPT ![r].pc = "finishing", ![r].now = clock]
    /\ UNCHANGED <<clock, sessions, used, reply, deleted, newest, owner, history>>

\* The second operation finds its session gone, whatever it was.
FinishGone(r) ==
    LET now == request[r].now IN
    /\ request[r].pc = "finishing"
    /\ request[r].session \notin DOMAIN Pruned(now)
    /\ sessions' = Pruned(now)
    /\ Answer(r, "gone")
    /\ UNCHANGED <<clock, used, deleted, newest, owner, history>>

\* The second operation of request r finds its session, among the unexpired.
FinishOn(r, kinds) ==
    /\ request[r].pc = "finishing"
    /\ request[r].kind \in kinds
    /\ request[r].session \in DOMAIN Pruned(request[r].now)

\* notifications/initialized.
Activate(r) ==
    LET now == request[r].now
        s == request[r].session
    IN  /\ FinishOn(r, {"initialized"})
        /\ sessions' = Put(Pruned(now), s,
                           [Touch(sessions[s], now) EXCEPT !.phase = "Active"])
        /\ Touched(s, now)
        /\ Answer(r, "accepted")
        /\ UNCHANGED <<clock, used, deleted, owner, history>>

\* DELETE: the record goes and its replay state with it.
Terminate(r) ==
    LET kept == Pruned(request[r].now)
        s == request[r].session
    IN  /\ FinishOn(r, {"delete"})
        /\ sessions' = [t \in DOMAIN kept \ {s} |-> kept[t]]
        /\ deleted' = deleted \cup {s}
        /\ Answer(r, "accepted")
        /\ UNCHANGED <<clock, used, newest, owner, history>>

\* maybe_sse_response: the response becomes a retained two-event stream.
RecordSse(r, data, x) ==
    LET now == request[r].now
        s == request[r].session
    IN  /\ FinishOn(r, ResponseKinds)
        /\ data <= MaxEventBytes
        /\ owner[x] = NoSession
        /\ sessions' = Put(Pruned(now), s,
                           Touch(Recorded(sessions[s], x, WireLen(data)), now))
        /\ owner' = [owner EXCEPT ![x] = s]
        /\ history' = [history EXCEPT ![s] = Append(@, [id |-> x, bytes |-> WireLen(data)])]
        /\ Touched(s, now)
        /\ request' = [request EXCEPT ![r] = Idle]
        /\ reply' = [reply EXCEPT ![r] =
                [status |-> "stream", session |-> s, cursor |-> Event(NoStream, 0),
                 events |-> {Event(x, 0), Event(x, 1)}]]
        /\ UNCHANGED <<clock, used, deleted>>

\* GET with a Last-Event-ID.  An unknown cursor does not touch the session.
Resume(r, cursor) ==
    LET now == request[r].now
        s == request[r].session
    IN  /\ FinishOn(r, {"get"})
        /\ \/ /\ CursorKnown(sessions[s], cursor)
              /\ sessions' = Put(Pruned(now), s, Touch(sessions[s], now))
              /\ Touched(s, now)
              /\ request' = [request EXCEPT ![r] = Idle]
              /\ reply' = [reply EXCEPT ![r] =
                    [status |-> "stream", session |-> s, cursor |-> cursor,
                     events |-> EventsAfter(cursor)]]
           \/ /\ ~CursorKnown(sessions[s], cursor)
              /\ sessions' = Pruned(now)
              /\ Answer(r, "no cursor")
              /\ UNCHANGED newest
        /\ UNCHANGED <<clock, used, deleted, owner, history>>

Next ==
    \/ Tick
    \/ \E r \in Requests :
        \/ \E kind \in Kinds, s \in SessionIds \cup {NoSession} : Start(r, kind, s)
        \/ CreateSession(r) \/ Validate(r) \/ AnswerPlain(r) \/ DropRequest(r)
        \/ ReadClock(r) \/ FinishGone(r) \/ Activate(r) \/ Terminate(r)
        \/ \E data \in DataSizes, x \in StreamIds : RecordSse(r, data, x)
        \/ \E x \in StreamIds, i \in 0..2 : Resume(r, Event(x, i))

Spec == Init /\ [][Next]_vars

-----------------------------------------------------------------------------
(* Properties.                                                             *)

\* The store is bounded and its accounts are right: the byte counter of every
\* session is the sum of what it retains (so the eviction loop never runs out
\* of streams, and the subtraction never wraps) and no limit is exceeded.
StoreBounded ==
    /\ Cardinality(DOMAIN sessions) <= MaxSessions
    /\ \A s \in DOMAIN sessions :
          /\ sessions[s].replayBytes = BytesOf(sessions[s].streams)
          /\ sessions[s].replayBytes <= MaxReplayBytes
          /\ Len(sessions[s].streams) <= MaxStreams

\* A response is replayed only to the session it was produced for, and only
\* the events after the presented cursor in the cursor's own stream.
ReplayIsolated ==
    \A r \in Requests : \A e \in reply[r].events :
        /\ owner[e.stream] = reply[r].session
        /\ reply[r].cursor.stream # NoStream =>
              e.stream = reply[r].cursor.stream /\ e.index > reply[r].cursor.index

\* What a session may retain at one time.
WithinLimits(streams) ==
    Len(streams) <= MaxStreams /\ BytesOf(streams) <= MaxReplayBytes

\* While its session lives, a response can be resumed from either of its events
\* if it and all later ones of the session are within the two limits, and the
\* newest can in any case: record_sse_response_at evicts the oldest streams,
\* only those, and no more than the limits ask for, whatever responses of
\* whatever sizes, uses and resumptions of the session come between.
NewestReplayable ==
    \A s \in DOMAIN sessions : \A i \in DOMAIN history[s] :
        (i = Len(history[s]) \/ WithinLimits(SubSeq(history[s], i, Len(history[s])))) =>
            \A j \in 0..1 : CursorKnown(sessions[s], Event(history[s][i].id, j))

\* A session that a request has validated does not expire under it: when the
\* second operation answers 404, somebody terminated the session.
InFlightKept ==
    \A r \in Requests : reply[r].status = "gone" => reply[r].session \in deleted

\* A session that this step removes was terminated or idle for long enough.
ExpiredLate ==
    \A s \in DOMAIN sessions \ DOMAIN sessions' :
        s \notin deleted' => clock - newest[s] >= IdleTimeout - LockDelay

\* Clock readings used out of order move last_activity back, but a session is
\* never expired before it was idle for the timeout less the delay of a lock.
ExpiryNotEarly == [][ExpiredLate]_vars

-----------------------------------------------------------------------------
(* The inductive invariant behind the store *)

\* Every retained stream, and every event that was sent, is of the session it
\* was recorded for.
OwnersKept ==
    /\ \A s \in DOMAIN sessions : \A i \in DOMAIN sessions[s].streams :
          owner[sessions[s].streams[i].id] = s
    /\ \A r \in Requests : reply[r].events # {} => reply[r].session \in SessionIds

\* No reading is of the future, and none is used later than LockDelay.
ReadingFresh(r) ==
    /\ request[r].started <= request[r].now /\ request[r].now <= clock
    /\ request[r].pc \in {"entering", "finishing"} => clock - request[r].now <= LockDelay
    /\ request[r].pc = "entering" => request[r].started = request[r].now

\* last_activity may go back, by the delay of a lock at most.
ActivityRecent ==
    /\ \A s \in SessionIds : newest[s] <= clock
    /\ \A s \in DOMAIN sessions : newest[s] - LockDelay <= sessions[s].lastActivity

\* What keeps the session of request r, once validated, from expiring under it:
\* the session was active when the request started and, unless the request is
\* in its own time, more recently.
Alive(r) ==
    LET at == IF request[r].pc = "working" THEN clock ELSE request[r].now
        active == sessions[request[r].session].lastActivity
    IN  /\ request[r].session \in DOMAIN sessions
        /\ request[r].started - LockDelay <= active
        /\ at <= request[r].started + RequestTimeout \/ at - LockDelay <= active

InFlightAlive(r) ==
    /\ request[r].pc \in {"working", "finishing"} => request[r].session \in used
    /\ request[r].pc \in {"working", "finishing"} /\ request[r].session \notin deleted => Alive(r)

IInv ==
    /\ StoreTypeOK /\ IsFiniteSet(DOMAIN sessions) /\ StoreBounded
    /\ OwnersKept /\ ReplayIsolated
    /\ ActivityRecent /\ InFlightKept
    /\ \A r \in Requests : ReadingFresh(r) /\ InFlightAlive(r)

-----------------------------------------------------------------------------
(* The inductive invariant behind NewestReplayable *)

\* What is retained is the end of what was recorded, at least its last stream,
\* and from no earlier stream on would it be within the limits.
KeepsNewest(streams, all) ==
    \E k \in 0..Len(all) :
        /\ streams = SubSeq(all, k + 1, Len(all))
        /\ Len(all) > 0 => k < Len(all)
        /\ \A i \in 1..k : ~WithinLimits(SubSeq(all, i, Len(all)))

RetentionInv ==
    /\ history \in [SessionIds -> Seq(Stream)]
    /\ \A s \in SessionIds \ used : history[s] = <<>>
    /\ \A s \in DOMAIN sessions : KeepsNewest(sessions[s].streams, history[s])
=============================================================================
