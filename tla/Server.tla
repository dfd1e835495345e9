------------------------------- MODULE Server -------------------------------
(***************************************************************************)
(* The program as a whole: one process that is started, serves requests    *)
(* and is stopped or killed, the offline issuer that its operator runs     *)
(* beside it, and the files both look at.  Requests pass the layers of     *)
(* McpRequests and the handlers of ToolCalls; grants are the tokens of     *)
(* GrantTokens; a start is Main of Configuration.                          *)
(*                                                                         *)
(* A mutation is one step here: its races with other writers and with the  *)
(* end of its request are the subject of MutationCommit, VolumeControl and *)
(* FilesystemPublication, lifetimes of grants of GrantReplay, lifetimes    *)
(* and replay of sessions of SessionStore.                                 *)
(*                                                                         *)
(* Clients, operator and outside programs follow a correct course except   *)
(* for a bounded number of deviations, each of which replaces one part of  *)
(* a request, of an environment or of a grant, restarts the server, opens  *)
(* a second session, ends one, or changes a file.                          *)
(***************************************************************************)
EXTENDS ToolCalls

CONSTANTS MaxDeviations, MaxGrants, MaxEffects

VARIABLES
    phase,       \* "stopped", "failed", "health_only" or "serving"
    server,      \* what McpTransportState keeps of the configuration
    sessions,    \* phase of every session id; ids are never used twice
    spent,       \* ids of consumed grants: in the memory of the process
    grants,      \* everything the issuer has signed
    world,       \* identity of every file, 0 if it does not exist
    ctime,       \* the change time that the next change will give a file
    pending,     \* the tool call that is awaited
    last,        \* how the last request ended, until it is delivered
    effects,     \* history: what live calls have done
    deviations

vars == <<phase, server, sessions, spent, grants, world, ctime, pending, last, effects, deviations>>

SessionIds == {"s1", "s2"}
Files == {"old", "old2", "new", "new2", "copy", "copy2"}
NoServer == [principal |-> "none"]
NoCall == [tool |-> "none"]
Nothing == [kind |-> "none", ctx |-> "none", answer |-> "none", audit |-> <<>>, live |-> FALSE, effect |-> FALSE]

Init ==
    /\ phase = "stopped" /\ server = NoServer
    /\ sessions = [s \in SessionIds |-> "none"]
    /\ spent = {} /\ grants = <<>>
    /\ world = [f \in Files |-> CASE f = "old" -> 1 [] f = "old2" -> 2 [] OTHER -> 0]
    /\ ctime = 3
    /\ pending = NoCall /\ last = Nothing /\ effects = <<>> /\ deviations = 0

Charge(n) ==
    /\ deviations + n <= MaxDeviations
    /\ deviations' = deviations + n

-----------------------------------------------------------------------------
(* Starting and stopping *)

LocalEnvironment ==
    [v \in Switches |-> IF v = "allow_unauthenticated" THEN "true" ELSE "unset"] @@
    [token |-> "unset", key_id |-> "unset", key |-> "unset", dex_path |-> "unset", dex_sha256 |-> "unset"] @@
    FullEnvironment
PlainEnvironment ==
    [v \in Switches |-> "unset"] @@
    [key_id |-> "unset", key |-> "unset", dex_path |-> "unset", dex_sha256 |-> "unset",
     build |-> "runtime_only"] @@ FullEnvironment
Environments == {FullEnvironment, LocalEnvironment, PlainEnvironment}

Start(env, n) ==
    /\ phase = "stopped"
    /\ Charge(n)
    /\ phase' = Main(env)
    /\ server' = IF Main(env) = "serving" THEN ServerOf(env) ELSE NoServer
    /\ UNCHANGED <<sessions, spent, grants, world, ctime, pending, last, effects>>

\* A signal, or a kill in the middle of a call: everything in memory is gone.
Stop ==
    /\ phase \in {"serving", "health_only"} /\ last = Nothing
    /\ Charge(1)
    /\ phase' = "stopped" /\ server' = NoServer
    /\ sessions' = [s \in SessionIds |-> IF sessions[s] = "none" THEN "none" ELSE "ended"]
    /\ spent' = {}
    /\ pending' = NoCall
    /\ UNCHANGED <<grants, world, ctime, last, effects>>

StartAny ==
    \/ \E env \in Environments : Start(env, 0)
    \/ \E env \in Environments, v \in DOMAIN FullEnvironment :
          \E class \in Alternatives(v) : Start([env EXCEPT ![v] = class], MaxDeviations)

-----------------------------------------------------------------------------
(* Targets: what the prepare functions of tools/filesystem.rs find *)

PathError(target) == target = "outside"

PrepareCreateDirectory(target, w) ==
    LET name == IF target = "plain" THEN "new" ELSE "new2"
    IN  IF PathError(target) THEN [error |-> "path_traversal"]
        ELSE IF w[name] # 0 THEN [error |-> "exists"]
        ELSE CreateDirectoryTarget("home", <<name>>)

PrepareCopyFile(target, w) ==
    LET name == IF target = "plain" THEN "copy" ELSE "copy2"
    IN  IF PathError(target) THEN [error |-> "path_traversal"]
        ELSE IF w["old"] = 0 THEN [error |-> "not_found"]
        ELSE IF w[name] # 0 THEN [error |-> "exists"]
        ELSE CopyFileTarget("home", <<"old">>, w["old"], <<"content", w["old"]>>, "home", <<name>>)

PrepareTrashFile(target, w) ==
    LET name == IF target = "plain" THEN "old" ELSE "old2"
    IN  IF PathError(target) THEN [error |-> "path_traversal"]
        ELSE IF w[name] = 0 THEN [error |-> "not_found"]
        ELSE TrashFileTarget("home", <<name>>, w[name], <<"content", w[name]>>)

\* "other" is the same file with other content.
PrepareWriteFile(target, w) ==
    IF PathError(target) THEN [error |-> "path_traversal"]
    ELSE WriteFileTarget("home", <<"old">>, target,
                         IF w["old"] = 0 THEN "create" ELSE "replace", w["old"])

PrepareVolume(target) ==
    CASE target = "plain" -> AndroidVolumeTarget("music", 3)
      [] target = "other" -> AndroidVolumeTarget("music", 4)
      [] target = "outside" -> AndroidVolumeTarget("music", -1)

Target(f, target, w) ==
    CASE f = "create_directory" -> PrepareCreateDirectory(target, w)
      [] f = "copy_file" -> PrepareCopyFile(target, w)
      [] f = "trash_file" -> PrepareTrashFile(target, w)
      [] f = "write_file" -> PrepareWriteFile(target, w)
      [] f = "android_volume" -> PrepareVolume(target)

\* The identity of the file that a grant of this family is bound to.
IdentityOf(f, target, w) ==
    IF f \in {"create_directory", "android_volume"} THEN 0
    ELSE w[IF f = "trash_file" /\ target = "other" THEN "old2" ELSE "old"]

\* What the files are after the mutation.  Every change makes a new identity.
After(f, target, w) ==
    CASE f = "create_directory" -> [w EXCEPT ![IF target = "plain" THEN "new" ELSE "new2"] = ctime]
      [] f = "copy_file" -> [w EXCEPT ![IF target = "plain" THEN "copy" ELSE "copy2"] = ctime]
      [] f = "trash_file" -> [w EXCEPT ![IF target = "plain" THEN "old" ELSE "old2"] = 0]
      [] f = "write_file" -> [w EXCEPT !["old"] = ctime]
      [] f = "android_volume" -> w

-----------------------------------------------------------------------------
(* The issuer *)

IssuerEnvironments ==
    {<<FullEnvironment, 0>>} \cup
    {<<[FullEnvironment EXCEPT ![change[1]] = change[2]], 1>> :
        change \in {<<"token", "t2">>, <<"key_id", "k2">>, <<"key", "h2">>,
                   <<"trash_file", "unset">>, <<"roots", "symlink">>, <<"token", "invalid">>}}

\* The private file with the content of a write, and its alias checks.
ReadWriteGrantContent(file) == file \notin {"public", "too_large", "changed_while_read", "not_utf8"}
RejectConfigAlias(file) == file # "config"
EnsureDistinctSourceIdentity(file) == file # "target"

IssuerReady(env, f) == LoadOfflineIssuerConfig("private", env) /\ Enabled(env, f)

\* The token an issuer prints, or none when it exits with an error.  The
\* operator states the disposition of a write; it must be what is found.
IssueFor(env, f, id, session, target) ==
    LET t == Target(f, target, world)
        a == ConfiguredAuthority(env, f)
    IN  IF \/ ~ HasAuthority(a) \/ ~ RequiredGrantEnvironment(session)
           \/ f # "android_volume" /\ ~ validated_safe_root_labels(env)
           \/ IsError(t)
        THEN NoToken ELSE IssueAt(a, id, session, t)

IssueCreateDirectoryGrant(env, id, session, target) ==
    IF IssuerReady(env, "create_directory")
    THEN IssueFor(env, "create_directory", id, session, target) ELSE NoToken
IssueCopyFileGrant(env, id, session, target) ==
    IF IssuerReady(env, "copy_file") THEN IssueFor(env, "copy_file", id, session, target) ELSE NoToken
IssueTrashFileGrant(env, id, session, target) ==
    IF IssuerReady(env, "trash_file") THEN IssueFor(env, "trash_file", id, session, target) ELSE NoToken
IssueWriteFileGrant(env, id, session, target, file, disposition) ==
    IF /\ IssuerReady(env, "write_file")
       /\ ReadWriteGrantContent(file) /\ RejectConfigAlias(file) /\ EnsureDistinctSourceIdentity(file)
       /\ disposition = (IF world["old"] = 0 THEN "create" ELSE "replace")
    THEN IssueFor(env, "write_file", id, session, target) ELSE NoToken
IssueAndroidVolumeGrant(env, id, session, target) ==
    IF IssuerReady(env, "android_volume")
    THEN IssueFor(env, "android_volume", id, session, target) ELSE NoToken

GrantNames == <<"g1", "g2", "g3">>
GrantIds == 1..Len(grants)

\* The grant as the operator meant it, beside the token.
Issued(f, env, session, target, token) ==
    [token |-> token, family |-> f, principal |-> Token(env), key |-> <<env["key_id"], env["key"]>>,
     session |-> session, target |-> target,
     identity |-> IdentityOf(f, target, world)]

IssueGrant(f, env, session, target, file, disposition, n) ==
    LET id == Len(grants) + 1
        token == CASE f = "create_directory" -> IssueCreateDirectoryGrant(env, id, session, target)
                   [] f = "copy_file" -> IssueCopyFileGrant(env, id, session, target)
                   [] f = "trash_file" -> IssueTrashFileGrant(env, id, session, target)
                   [] f = "write_file" -> IssueWriteFileGrant(env, id, session, target, file, disposition)
                   [] f = "android_volume" -> IssueAndroidVolumeGrant(env, id, session, target)
    IN  /\ Len(grants) < MaxGrants
        /\ Charge(n + MaxDeviations * Len(grants))
        /\ token # NoToken
        /\ grants' = Append(grants, Issued(f, env, session, target, token))
        /\ UNCHANGED <<phase, server, sessions, spent, world, ctime, pending, last, effects>>

IssueAny ==
    /\ last = Nothing
    /\ \E f \in Families, s \in {x \in SessionIds : sessions[x] # "none"} :
          \/ \E e \in IssuerEnvironments : IssueGrant(f, e[1], s, "plain", "private", "replace", e[2])
          \/ IssueGrant(f, FullEnvironment, s, "other", "private", "replace", 1)
          \/ f = "write_file" /\ \E file \in {"private", "target", "config", "changed_while_read"},
                                    disposition \in {"create", "replace"} :
                 IssueGrant(f, FullEnvironment, s, "plain", file, disposition, 1)

\* Another program rewrites the file.
OutsideChange ==
    /\ last = Nothing /\ world["old"] # 0
    /\ Charge(1)
    /\ world' = [world EXCEPT !["old"] = ctime]
    /\ ctime' = ctime + 1
    /\ UNCHANGED <<phase, server, sessions, spent, grants, pending, last, effects>>

-----------------------------------------------------------------------------
(* Requests *)

TokenOf(name) ==
    IF \E i \in GrantIds : GrantNames[i] = name
    THEN grants[CHOOSE i \in GrantIds : GrantNames[i] = name].token
    ELSE IF name = "absent" THEN NoToken ELSE MalformedToken

\* The requests of a client that makes no mistake, each with its session.
Initialize == [SessionRequest EXCEPT !.rpc = "initialize", !.session = "absent"]
Initialized == [SessionRequest EXCEPT !.rpc = "notifications/initialized", !.id = "absent"]
ClientResponse == [SessionRequest EXCEPT !.rpc = "absent", !.result = "object", !.params = "absent"]
Resume == [SessionRequest EXCEPT !.http = "GET", !.accept = "sse", !.last_event = "event"]
Terminate == [SessionRequest EXCEPT !.http = "DELETE"]
Discover == [StatelessRequest EXCEPT !.rpc = "server/discover", !.mcp_name = "absent"]
StatelessList == [StatelessRequest EXCEPT !.rpc = "tools/list", !.mcp_name = "absent"]
Plain ==
    {Initialize, Initialized, ClientResponse, Resume, Discover, StatelessList,
     [SessionRequest EXCEPT !.rpc = "ping"], [SessionRequest EXCEPT !.rpc = "tools/list"]}
Previews == {[base EXCEPT !.tool = t] : base \in {SessionRequest, StatelessRequest}, t \in Tools}
LiveCalls == {[SessionRequest EXCEPT !.tool = t, !.dry_run = "false"] : t \in MutationTools}
\* Those that stand for all others where the layers before the tools go.
Probes == {Initialize, Initialized, ClientResponse, Resume, SessionRequest, StatelessRequest}
LiveProbe == [SessionRequest EXCEPT !.tool = "create_directory", !.dry_run = "false"]

LayerFields ==
    [http |-> {"PUT"}, bearer |-> {"absent", "twice", "other_scheme", "invalid", "t2"},
     peer |-> {"remote"}, slot |-> {"taken"}, length |-> {"too_long", "too_long_unannounced"},
     host |-> {"absent", "twice", "malformed", "other"}, origin |-> {"absent", "twice", "with_path", "other"},
     content_type |-> {"other"}, accept |-> {"json", "sse", "sse_refused", "none"},
     version |-> {"absent", "twice", "stateless", "stateless_and_other", "legacy", "other"},
     session |-> {"absent", "twice", "malformed", "unknown"},
     last_event |-> {"absent", "twice", "malformed"},
     mcp_method |-> {"absent", "matches", "other"},
     mcp_name |-> {"absent", "matches_encoded", "other", "bad_encoding"},
     body |-> {"not_json", "not_an_object"}, jsonrpc |-> {"1.0"},
     rpc |-> {"not_a_string", "other", "absent"}, id |-> {"absent", "bad", "large"},
     params |-> {"absent", "not_an_object"},
     meta |-> {"complete", "no_version", "bad_capabilities", "bad_client_info", "bad_log_level"},
     result |-> {"absent", "array"}, error |-> {"object", "array"},
     grant |-> {"twice", "oversized", "malformed"}]

CallFields ==
    [slot |-> {"workers_taken"}, params |-> {"unfit"}, id |-> {"long"}, grant |-> {"absent", "malformed"},
     tool |-> {"unknown"}, args |-> {"absent", "unfit", "out_of_range"},
     dry_run |-> {"true", "false"}, target |-> {"other", "outside"}]

-----------------------------------------------------------------------------
(* Serving *)

Ended(kind, ctx, outcome) ==
    [kind |-> kind, ctx |-> ctx, answer |-> outcome.answer, audit |-> outcome.audit,
     live |-> FALSE, effect |-> FALSE]

CallTool(r) ==
    LET ctx == ToolInvocationContext(server, r)
        out == HandleToolCall(server, r, ctx)
    IN  IF out.answer = "await"
        THEN /\ pending = NoCall
             /\ pending' = IF r.tool \in MutationTools /\ Live(r)
                           THEN [tool |-> r.tool, live |-> TRUE, id |-> r.id, ctx |-> ctx,
                                 target |-> r.target, grant |-> r.grant,
                                 principal |-> ExtractBearerToken(r), admitted |-> PhaseOf(sessions, r)]
                           ELSE [tool |-> r.tool, live |-> FALSE, id |-> r.id, ctx |-> ctx]
             /\ UNCHANGED last
        ELSE /\ last' = [Ended(IF out.audit = <<>> THEN "refused" ELSE "handled", ctx, out) EXCEPT
                            !.live = r.tool \in MutationTools /\ Live(r)]
             /\ UNCHANGED pending

CreateSession ==
    \E s \in SessionIds :
        /\ sessions[s] = "none" /\ (s = "s2" => sessions["s1"] # "none")
        /\ sessions' = [sessions EXCEPT ![s] = "initializing"]
        /\ Charge(IF s = "s1" THEN 0 ELSE 1)

Receive(r) ==
    LET out == Route(server, sessions, r)
    IN  /\ phase = "serving" /\ last = Nothing
        /\ CASE out.do = "nothing" ->
                  /\ last' = Ended("refused", "none", [answer |-> out.answer, audit |-> <<>>])
                  /\ UNCHANGED <<sessions, pending, deviations>>
             [] out.do = "create_session" -> CreateSession /\ UNCHANGED <<pending, last>>
             [] out.do = "activate" ->
                  /\ sessions' = [sessions EXCEPT ![r.session] = "active"]
                  /\ UNCHANGED <<pending, last, deviations>>
             [] out.do = "terminate" ->
                  /\ sessions' = [sessions EXCEPT ![r.session] = "ended"]
                  /\ Charge(1)
                  /\ UNCHANGED <<pending, last>>
             [] out.do = "call_tool" -> CallTool(r) /\ UNCHANGED <<sessions, deviations>>
        /\ UNCHANGED <<phase, server, spent, grants, world, ctime, effects>>

\* A request, or one with a single field that departs from it.
ReceiveNear(r, fields) ==
    \/ Receive(r)
    \/ /\ deviations = 0
       /\ \E f \in DOMAIN fields : \E q \in {[r EXCEPT ![f] = c] : c \in fields[f]} : Receive(q)

InSession(requests, sid) ==
    {IF r.session = "s1" THEN [r EXCEPT !.session = sid] ELSE r : r \in requests}
Holding(requests, i) == {[r EXCEPT !.grant = GrantNames[i]] : r \in requests}

\* While a call is awaited only the end of its session can matter to it; and
\* nothing that a call without grant looks at depends on the grants there are.
ReceiveAny ==
    /\ phase = "serving" /\ last = Nothing
    /\ \E sid \in {s \in SessionIds : s = "s1" \/ sessions[s] # "none"} :
          \/ \E r \in InSession({Terminate}, sid) : Receive(r)
          \/ pending = NoCall /\ \E r \in InSession({Initialize, Initialized}, sid) : Receive(r)
          \/ /\ pending = NoCall /\ grants = <<>>
             /\ \/ \E r \in InSession(Plain \ Probes, sid) : Receive(r)
                \/ \E r \in InSession(Probes, sid) : ReceiveNear(r, LayerFields)
                \/ \E r \in InSession(Previews, sid) : ReceiveNear(r, CallFields)
          \/ /\ pending = NoCall
             /\ \E i \in GrantIds :
                   \/ \E r \in Holding(InSession({LiveProbe}, sid), i) : ReceiveNear(r, LayerFields)
                   \/ \E r \in Holding(InSession(LiveCalls, sid), i) : ReceiveNear(r, CallFields)

\* Outcomes of the awaited work, as classes of AppError.
Outcomes ==
    {"ok", "oversized", "path_traversal", "not_found", "unsupported_path_type", "invalid_range",
     "encoding", "file_too_large", "changed_during_read", "invalid_query", "exists", "io"}

\* The record is written; the answer still goes through maybe_sse_response.
Answered(done, fits) ==
    [answer |-> MaybeSseResponse(server, sessions, pending.ctx, done.answer, fits), audit |-> done.audit]

\* A call that changes nothing ends.  Only what was read can be too large for
\* an event.
Finish(outcome, fits) ==
    /\ pending # NoCall /\ ~ pending.live /\ last = Nothing
    /\ outcome = "oversized" => pending.tool \notin MutationTools
    /\ ~ fits => outcome = "ok" /\ pending.tool \notin MutationTools
    /\ last' = Ended("handled", pending.ctx, Answered(Done(pending, outcome), fits))
    /\ pending' = NoCall
    /\ UNCHANGED <<phase, server, sessions, spent, grants, world, ctime, effects, deviations>>

Effect(id) ==
    [grant |-> id, family |-> FamilyOf(pending.tool), session |-> pending.ctx, target |-> pending.target,
     principal |-> pending.principal, key |-> <<server.authority[FamilyOf(pending.tool)].key_id,
                                               server.authority[FamilyOf(pending.tool)].key>>,
     admitted |-> pending.admitted,
     identity |-> IdentityOf(FamilyOf(pending.tool), pending.target, world)]

\* The worker of a live call: prepare, consume the grant, mutate.  The waiter
\* may be gone by then; it may also have cancelled the worker before the
\* grant is consumed.  A failure after the grant is spent leaves it spent,
\* and may come after the effect (a directory that cannot be synchronised).
RunMutation(outcome, waiter) ==
    LET f == FamilyOf(pending.tool)
        t == Target(f, pending.target, world)
        c == IF IsError(t) THEN t ELSE ConsumeAt(server.authority[f], TokenOf(pending.grant), pending.ctx, t)
        replayed == ~ IsError(c) /\ c.spend \in spent
        reached == ~ IsError(c) /\ ~ replayed
        e == IF IsError(t) THEN (IF f = "android_volume" THEN "unauthorized" ELSE t.error)
             ELSE IF ~ reached THEN "unauthorized" ELSE outcome
        effect == reached /\ outcome \in {"ok", "late_failure"}
        done == LiveDone(pending.tool, pending, e)
    IN  /\ pending # NoCall /\ pending.live /\ last = Nothing
        /\ ~ reached => outcome = "ok"
        /\ Len(effects) < MaxEffects
        /\ spent' = IF reached THEN spent \cup {c.spend} ELSE spent
        /\ effects' = IF effect THEN Append(effects, Effect(c.spend)) ELSE effects
        /\ world' = IF effect THEN After(f, pending.target, world) ELSE world
        /\ ctime' = IF effect THEN ctime + 1 ELSE ctime
        /\ last' = IF waiter = "waits"
                   THEN [Ended("handled", pending.ctx, Answered(done, TRUE)) EXCEPT !.live = TRUE, !.effect = effect]
                   ELSE [kind |-> "dropped", ctx |-> pending.ctx, answer |-> "timeout", live |-> TRUE, effect |-> effect,
                         audit |-> IF e = "ok" THEN <<"allowed">> ELSE <<"denied">>]
        /\ pending' = NoCall
        /\ UNCHANGED <<phase, server, sessions, grants, deviations>>

\* The deadline, or a client that goes away, before the work is done.  A file
\* worker that has not claimed its commit is cancelled and says so; a volume
\* call that has not spent its grant is simply dropped.
DropRequest ==
    /\ pending # NoCall /\ last = Nothing
    /\ last' = [kind |-> "dropped", ctx |-> pending.ctx, answer |-> "timeout", live |-> pending.live, effect |-> FALSE,
                audit |-> IF pending.live /\ pending.tool # "set_android_volume" THEN <<"denied">> ELSE <<>>]
    /\ pending' = NoCall
    /\ UNCHANGED <<phase, server, sessions, spent, grants, world, ctime, effects, deviations>>

Deliver ==
    /\ last # Nothing
    /\ last' = Nothing
    /\ UNCHANGED <<phase, server, sessions, spent, grants, world, ctime, pending, effects, deviations>>

Next ==
    \/ StartAny
    \/ Stop
    \/ IssueAny
    \/ OutsideChange
    \/ ReceiveAny
    \/ \E outcome \in Outcomes, fits \in BOOLEAN : Finish(outcome, fits)
    \/ \E outcome \in {"ok", "changed", "io", "late_failure"}, waiter \in {"waits", "gone"} :
          RunMutation(outcome, waiter)
    \/ DropRequest
    \/ Deliver

Spec == Init /\ [][Next]_vars

-----------------------------------------------------------------------------
(* Properties *)

\* Every mutation was authorised by a grant of its own, which the operator
\* issued for this tool, this principal, this key, this session and exactly
\* this target in the state in which the mutation found it (consume_at of the
\* five authorities); no grant moves two mutations, not even across a restart
\* that empties the replay state; and the session that asked had completed
\* its initialisation and spoke for the server's principal.
EffectsAuthorised ==
    \A i \in 1..Len(effects) :
        LET e == effects[i] g == grants[e.grant]
        IN  /\ e.family = g.family /\ e.session = g.session /\ e.target = g.target
            /\ e.principal = g.principal /\ e.key = g.key
            /\ e.identity = g.identity
            /\ e.admitted = "active"
            /\ \A j \in 1..Len(effects) : effects[j].grant = e.grant => i = j

\* The one way in which a caller is not told of a success that was recorded:
\* SSE is on, and its session was ended while the call was awaited.
AnswerLost ==
    /\ last.answer = "session_not_found" /\ server.sse
    /\ last.ctx \in SessionIds /\ sessions[last.ctx] = "ended"

\* A call that reached a handler leaves exactly one audit record.  It says
\* "allowed" when the caller is answered with success, and otherwise only if
\* maybe_sse_response could not record the answer any more (AnswerLost); a live
\* record says "allowed" only for a mutation that happened; a mutation never
\* goes unrecorded, even when nobody waits for the answer; a request refused
\* before it reached a handler leaves none.
AuditTruthful ==
    /\ last.kind = "handled" =>
          /\ Len(last.audit) = 1
          /\ last.answer = "ok" => last.audit[1] = "allowed"
          /\ last.audit[1] = "allowed" => last.answer = "ok" \/ AnswerLost
    /\ last.kind = "refused" => last.audit = <<>> /\ ~ last.effect
    /\ last.live /\ last.audit = <<"allowed">> => last.effect
    /\ last.effect => Len(last.audit) = 1

\* The tools a serving process lists are those it counts as available and
\* those whose handlers do not answer "unavailable"; it offers a live
\* mutation exactly when the handler would get as far as the grant; and a
\* server without a principal is bound to the loopback interface.
CatalogueConsistent ==
    phase = "serving" /\ pending = NoCall /\ last = Nothing =>
        /\ tools_list_response(server) = available_tools(server)
        /\ tools_list_response(server) =
             {t \in Tools : HandleToolCall(server, [SessionRequest EXCEPT !.tool = t], "s1").answer # "unavailable"}
        /\ \A t \in MutationTools :
             (FamilyOf(t) \in LiveMutationsListed(server, FALSE)) =
             (HandleToolCall(server, [SessionRequest EXCEPT !.tool = t, !.dry_run = "false", !.grant = "g1"],
                             "s1").answer = "await")
        /\ server.principal = "none" => server.loopback

-----------------------------------------------------------------------------
(* The inductive invariant behind EffectsAuthorised *)

Targets == {"plain", "other", "outside"}

\* The authority of a family with a key, for a principal.
AuthorityOf(f, keyId, key, principal) ==
    CASE f = "create_directory" -> CreateDirectoryAuthority(keyId, key, principal)
      [] f = "copy_file" -> CopyFileAuthority(keyId, key, principal)
      [] f = "trash_file" -> TrashFileAuthority(keyId, key, principal)
      [] f = "write_file" -> WriteFileAuthority(keyId, key, principal)
      [] f = "android_volume" -> AndroidVolumeAuthority(keyId, key, principal)

\* What is bound in a grant for an operation on a file of an identity.
Meant(f, target, identity) ==
    CASE f = "create_directory" ->
            CreateDirectoryTarget("home", <<IF target = "plain" THEN "new" ELSE "new2">>)
      [] f = "copy_file" ->
            CopyFileTarget("home", <<"old">>, identity, <<"content", identity>>, "home",
                           <<IF target = "plain" THEN "copy" ELSE "copy2">>)
      [] f = "trash_file" ->
            TrashFileTarget("home", <<IF target = "plain" THEN "old" ELSE "old2">>, identity,
                            <<"content", identity>>)
      [] f = "write_file" ->
            WriteFileTarget("home", <<"old">>, target,
                            IF identity = 0 THEN "create" ELSE "replace", identity)
      [] f = "android_volume" -> AndroidVolumeTarget("music", IF target = "plain" THEN 3 ELSE 4)

\* An authority of the server is that of its principal, and only a server with
\* one has the volume gate open.
AuthoritySound(s) ==
    /\ \A f \in Families : HasAuthority(s.authority[f]) =>
          s.authority[f] = AuthorityOf(f, s.authority[f].key_id, s.authority[f].key, s.principal)
    /\ "android_volume" \in s.gates => HasAuthority(s.authority["android_volume"])

\* A token is what an authority of its operator's key and principal signs for
\* the operation that was meant.
TokenSound(g, id) ==
    LET a == AuthorityOf(g.family, g.key[1], g.key[2], g.principal)
    IN  /\ g.family \in Families /\ g.target \in {"plain", "other"} /\ g.session \in SessionIds
        /\ g.family \in {"create_directory", "android_volume"} => g.identity = 0
        /\ g.key = <<g.key[1], g.key[2]>>
        /\ HasAuthority(a)
        /\ g.token = IssueAt(a, id, g.session, Meant(g.family, g.target, g.identity))

LivePending == pending # NoCall /\ pending.live

\* A live call that is awaited came with an active session from the server's
\* principal, for a tool that has an authority.
PendingSound ==
    /\ phase = "serving"
    /\ pending.tool \in MutationTools /\ pending.target \in Targets
    /\ HasAuthority(server.authority[FamilyOf(pending.tool)])
    /\ pending.principal = server.principal
    /\ pending.ctx \in SessionIds /\ sessions[pending.ctx] # "none" /\ pending.admitted = "active"

\* A used grant is remembered as spent, or its session is over and no call of
\* it is awaited any more.
EffectRefused(e) ==
    \/ e.grant \in spent
    \/ sessions[e.session] = "ended" /\ (LivePending => pending.ctx # e.session)

IInv ==
    /\ sessions \in [SessionIds -> {"none", "initializing", "active", "ended"}]
    /\ grants \in Seq(Range(grants)) /\ effects \in Seq(Range(effects))
    /\ phase = "serving" => AuthoritySound(server)
    /\ \A i \in 1..Len(grants) : TokenSound(grants[i], i)
    /\ LivePending => PendingSound
    /\ \A i \in 1..Len(effects) :
          effects[i].grant \in 1..Len(grants) /\ sessions[effects[i].session] # "none" /\ EffectRefused(effects[i])
    /\ EffectsAuthorised

-----------------------------------------------------------------------------
(* The inductive invariant behind AuditTruthful *)

AnsweredAtOnce == {"runtime_status", "platform_info", "android_status", "project_service_status"}

\* An awaited call is of a tool that awaits.  The answer of a live one fits
\* with the caller's id, or only a refusal can be its answer: after the
\* mutation is recorded as allowed, it is too late for an answer that does not.
PendingAnswerable ==
    /\ phase = "serving" /\ pending.ctx \in SessionIds \cup {"stateless"}
    /\ pending.ctx \in SessionIds => sessions[pending.ctx] # "none"
    /\ pending.tool \in Tools \ AnsweredAtOnce
    /\ pending.live => pending.tool \in MutationTools
    /\ pending.live /\ pending.id = "long" =>
          \/ pending.tool = "set_android_volume"
          \/ pending.tool = "create_directory" /\ pending.target = "outside"

AuditInv ==
    /\ pending # NoCall => PendingAnswerable
    /\ last # Nothing => phase = "serving"
    /\ AuditTruthful

-----------------------------------------------------------------------------
(* The inductive invariant behind CatalogueConsistent *)

OptionalGates == {"battery", "volume_status", "android_volume", "rish", "command"}

\* The gates that are open are compiled in, and a server without a principal
\* is bound to the loopback interface.
ServerConsistent(s) ==
    /\ \A g \in OptionalGates : g \in s.gates => GateFeature[g] \in s.features
    /\ s.principal = "none" => s.loopback

CatalogueInv == phase = "serving" => ServerConsistent(server)
=============================================================================
