----------------------------- MODULE McpRequests -----------------------------
(***************************************************************************)
(* What stands between a connection and a tool: the layers protect_router  *)
(* installs (authentication, then limits, then the handler), the host and  *)
(* origin policy, the JSON-RPC envelope, and the two POST handlers, the    *)
(* one of the sessions and the stateless one.                              *)
(*                                                                         *)
(* A request is a record of classes of its parts.  A handler is the list   *)
(* of its early returns in the order of the code, and what it does when    *)
(* none of them applies.                                                   *)
(***************************************************************************)
EXTENDS Configuration

BaseTools ==
    {"runtime_status", "platform_info", "android_status", "project_service_status",
     "list_directory", "path_metadata", "read_file", "read_binary_file", "read_binary_range",
     "read_text_range", "find_paths", "hash_file", "search_text",
     "create_directory", "copy_file", "trash_file", "write_file"}
OptionalTools ==
    {"android_battery_status", "android_volume_status", "set_android_volume",
     "android_rish_status", "run_command_profile"}
Tools == BaseTools \cup OptionalTools
MutationTools == {"create_directory", "copy_file", "trash_file", "write_file", "set_android_volume"}

\* The answer of the first of a list of early returns that applies.
First(returns, otherwise) ==
    IF \E i \in DOMAIN returns : returns[i][1]
    THEN returns[CHOOSE i \in DOMAIN returns : returns[i][1] /\ \A j \in 1..(i - 1) : ~ returns[j][1]][2]
    ELSE otherwise

\* What a handler does in the end: an answer, and a call on another component.
Answer(a) == [do |-> "nothing", answer |-> a]
Do(what) == [do |-> what, answer |-> "ok"]

-----------------------------------------------------------------------------
(* A well-formed request of a session, and one without session *)

SessionRequest ==
    [http |-> "POST", bearer |-> "t1", peer |-> "loopback", slot |-> "free", length |-> "fits",
     host |-> "allowed", origin |-> "allowed", content_type |-> "json", accept |-> "both",
     version |-> "legacy", session |-> "s1", last_event |-> "absent", grant |-> "absent",
     mcp_method |-> "absent", mcp_name |-> "absent",
     body |-> "object", jsonrpc |-> "2.0", rpc |-> "tools/call", id |-> "short",
     params |-> "object", meta |-> "absent", result |-> "absent", error |-> "absent",
     tool |-> "runtime_status", args |-> "ok", dry_run |-> "omitted", target |-> "plain"]

StatelessRequest ==
    [SessionRequest EXCEPT !.version = "stateless", !.session = "absent", !.mcp_method = "matches",
                           !.mcp_name = "matches", !.meta = "complete"]

-----------------------------------------------------------------------------
(* auth.rs *)

ExtractBearerToken(r) ==
    IF r.bearer \in {"absent", "twice", "other_scheme", "invalid"} THEN "none" ELSE r.bearer

ConnectionMatchesBoundary(r) == r.peer = "loopback"  \* and the expected local address

require_mcp_auth(s, r) ==
    IF s.principal = "none"
    THEN IF ConnectionMatchesBoundary(r) THEN "admitted" ELSE "localhost_peer_required"
    ELSE IF ExtractBearerToken(r) = s.principal THEN "admitted" ELSE "unauthorized"

(* request_limits.rs: the semaphore and the deadline are the subject of    *)
(* MutationCommit and ProcessLanes; here another request may hold the slot *)

EnforceMcpRequestLimits(r) ==
    First(<< <<r.length = "too_long", "mcp_request_body_too_large">>,
             <<r.slot = "taken", "mcp_concurrency_limit_reached">>,
             <<r.length = "too_long_unannounced", "mcp_request_body_too_large">> >>,
          "admitted")

(* transport_security.rs *)

\* A header that occurs twice is refused before the policy is asked.
SingleHeader(value) == value # "twice"

NormalizeAuthority(value) == IF value = "malformed" THEN "none" ELSE value

NormalizeOrigin(value) == IF value = "with_path" THEN "none" ELSE NormalizeAuthority(value)

ValidateTransport(s, r) ==
    First(<< <<~ SingleHeader(r.host) \/ ~ SingleHeader(r.origin), FALSE>>,
             <<r.host = "absent" \/ NormalizeAuthority(r.host) # "allowed", FALSE>>,
             <<r.origin = "absent", s.allow_missing_origin>> >>,
          NormalizeOrigin(r.origin) = "allowed")

(* json_rpc.rs *)

\* A short id, one too long for some answers, and one over the limit for ids.
ValidRequestId(r) == r.id \in {"short", "long", "large"}

ValidateRequestOrNotification(r) ==
    First(<< <<r.rpc = "not_a_string", "invalid_request">>,
             <<r.params = "not_an_object", "invalid_request">>,
             <<r.id = "absent", "notification">>,
             <<~ ValidRequestId(r), "invalid_request">> >>,
          "request")

ValidateResponse(r) ==
    First(<< <<r.params # "absent", "invalid_request">>,
             <<(r.result = "absent") = (r.error = "absent"), "invalid_request">>,
             <<r.result # "absent" /\ (r.result # "object" \/ ~ ValidRequestId(r)), "invalid_request">>,
             <<r.error # "absent" /\ (r.error # "object" \/ r.id = "bad"), "invalid_request">> >>,
          "response")

ParseIncomingMessage(r) ==
    First(<< <<r.body = "not_json", "parse_error">>,
             <<r.body = "not_an_object" \/ r.jsonrpc # "2.0", "invalid_request">> >>,
          IF r.rpc = "absent" THEN ValidateResponse(r) ELSE ValidateRequestOrNotification(r))

-----------------------------------------------------------------------------
(* mcp_transport.rs: the tools a server offers *)

available_tools(s) ==
    BaseTools
    \cup (IF "battery" \in s.gates THEN {"android_battery_status"} ELSE {})
    \cup (IF "volume_status" \in s.gates THEN {"android_volume_status"} ELSE {})
    \cup (IF "android_volume" \in s.gates THEN {"set_android_volume"} ELSE {})
    \cup (IF "rish" \in s.gates THEN {"android_rish_status"} ELSE {})
    \cup (IF "command" \in s.gates THEN {"run_command_profile"} ELSE {})

\* Mutant: the command tool is listed by its feature, not by its gate.
OptionalToolListedByFeature(s, t) ==
    CASE t = "android_battery_status" -> "battery" \in s.gates
      [] t = "android_volume_status" -> "volume_status" \in s.gates
      [] t = "set_android_volume" -> "android_volume" \in s.gates
      [] t = "android_rish_status" -> "rish" \in s.gates
      [] t = "run_command_profile" -> "command-execution" \in s.features

OptionalToolListed(s, t) ==
    CASE t = "android_battery_status" -> "battery" \in s.gates
      [] t = "android_volume_status" -> "volume_status" \in s.gates
      [] t = "set_android_volume" -> "android_volume" \in s.gates
      [] t = "android_rish_status" -> "rish" \in s.gates
      [] t = "run_command_profile" -> "command" \in s.gates

\* The schema of a mutation tool admits dry_run = false only when the server
\* has the authority for it; the stateless transport pins it to true.
LiveMutationsListed(s, stateless) ==
    IF stateless THEN {}
    ELSE {f \in Families \ {"android_volume"} : HasAuthority(s.authority[f])}
         \cup (IF "android_volume" \in s.gates THEN {"android_volume"} ELSE {})

tools_list_response(s) == BaseTools \cup {t \in OptionalTools : OptionalToolListed(s, t)}

-----------------------------------------------------------------------------
(* Headers *)

HasJsonContentType(r) == r.content_type = "json"

\* A media range counts with a quality above zero.
AcceptsMediaType(r, type) ==
    r.accept = "both" \/ r.accept = type \/ (r.accept = "sse_refused" /\ type = "json")

DeclaresExactStatelessHeader(r) == r.version \in {"stateless", "stateless_and_other"}

DeclaresStatelessRequest(s, r) ==
    \/ DeclaresExactStatelessHeader(r)
    \/ r.mcp_method # "absent"
    \/ r.mcp_name # "absent"
    \/ s.stateless /\ r.body = "object" /\ r.meta = "complete"

\* phases: what the session store knows
ValidateSessionRequest(phases, r) ==
    First(<< <<r.version = "absent", "protocol_version_required">>,
             <<r.version \in {"twice", "stateless_and_other"}, "invalid_protocol_version">>,
             <<r.version # "legacy", "unsupported_protocol_version">>,
             <<r.session = "absent", "session_required">>,
             <<r.session \in {"twice", "malformed"}, "session_not_found">>,
             <<r.session \notin DOMAIN phases, "session_not_found">>,
             <<phases[IF r.session \in DOMAIN phases THEN r.session ELSE "s1"] \in {"none", "ended"},
               "session_not_found">> >>,
          "found")

\* Plain visible ASCII, or canonical padded base64 between =? and ?=.
StatelessNameHeader(r) ==
    IF r.mcp_name \in {"matches", "matches_encoded"} THEN "matches"
    ELSE IF r.mcp_name = "other" THEN "other" ELSE "error"

ValidInitializeParams(r) == r.params = "object"

-----------------------------------------------------------------------------
(* The POST handlers *)

stateless_live_mutation_requested(r) == r.tool \in MutationTools /\ r.dry_run = "false"

InitializeResponse(r) ==
    First(<< <<r.grant # "absent", Answer("capability_context_not_allowed")>>,
             <<r.session # "absent", Answer("session_not_allowed")>>,
             <<~ ValidInitializeParams(r), Answer("invalid_params")>> >>,
          Do("create_session"))

LegacyRequest(phase, r) ==
    First(<< <<r.grant # "absent" /\ r.rpc # "tools/call", Answer("capability_context_not_allowed")>>,
             <<r.rpc = "ping", Answer("ok")>>,
             <<phase # "active", Answer("server_not_initialized")>>,
             <<r.rpc = "tools/list", Answer("ok")>>,
             <<r.rpc # "tools/call", Answer("method_not_available")>> >>,
          Do("call_tool"))

LegacyNotification(phase, r) ==
    First(<< <<r.grant # "absent", Answer("capability_context_not_allowed")>>,
             <<r.rpc = "notifications/initialized", Do("activate")>>,
             <<phase # "active", Answer("server_not_initialized")>> >>,
          Answer("accepted"))

LegacyResponse(phase, r) ==
    First(<< <<r.grant # "absent", Answer("capability_context_not_allowed")>>,
             <<phase # "active", Answer("server_not_initialized")>> >>,
          Answer("accepted"))

PhaseOf(phases, r) == IF r.session \in DOMAIN phases THEN phases[r.session] ELSE "none"

HandleLegacyMcpPost(phases, r) ==
    LET message == ParseIncomingMessage(r)
        found   == ValidateSessionRequest(phases, r)
        phase   == PhaseOf(phases, r)
    IN  First(<< <<~ HasJsonContentType(r), Answer("unsupported_content_type")>>,
                 <<~ AcceptsMediaType(r, "json") \/ ~ AcceptsMediaType(r, "sse"), Answer("unsupported_accept")>>,
                 <<r.grant \in {"twice", "oversized"}, Answer("invalid_capability_grant_header")>>,
                 <<message \in {"parse_error", "invalid_request"}, Answer(message)>>,
                 <<message = "request" /\ r.id = "large", Answer("payload_too_large")>> >>,
              IF message = "request" /\ r.rpc = "initialize" THEN InitializeResponse(r)
              ELSE IF found # "found" THEN Answer(found)
              ELSE CASE message = "request" -> LegacyRequest(phase, r)
                     [] message = "notification" -> LegacyNotification(phase, r)
                     [] message = "response" -> LegacyResponse(phase, r))

StatelessMetadata(r) ==
    First(<< <<r.params = "absent" \/ r.meta = "absent", "invalid_params">>,
             <<r.meta \in {"no_version", "bad_capabilities", "bad_client_info",
                           "bad_progress_token", "bad_log_level"}, "invalid_params">> >>,
          "valid")

StatelessRouting(s, r) ==
    First(<< <<r.version \in {"absent", "twice", "stateless_and_other"}, "header_mismatch">>,
             <<(r.version = "stateless") # (r.meta = "complete"), "header_mismatch">>,
             <<r.version # "stateless" \/ ~ s.stateless, "unsupported_protocol_version">>,
             <<r.mcp_method # "matches", "header_mismatch">>,
             <<r.rpc = "tools/call" /\ StatelessNameHeader(r) # "matches", "header_mismatch">>,
             <<r.rpc # "tools/call" /\ r.mcp_name # "absent", "header_mismatch">>,
             <<r.grant # "absent", "invalid_params">> >>,
          "valid")

StatelessMethod(s, r) ==
    First(<< <<r.rpc \in {"server/discover", "tools/list"},
               Answer(IF r.params = "object" THEN "ok" ELSE "invalid_params")>>,
             <<r.rpc # "tools/call", Answer("method_not_found")>>,
             <<r.tool \notin available_tools(s), Answer("invalid_params")>>,
             <<stateless_live_mutation_requested(r), Answer("invalid_params")>> >>,
          Do("call_tool"))

HandleStatelessMcpPost(s, r) ==
    LET message == ParseIncomingMessage(r)
        metadata == StatelessMetadata(r)
        routing == StatelessRouting(s, r)
    IN  First(<< <<~ HasJsonContentType(r), Answer("unsupported_content_type")>>,
                 <<~ AcceptsMediaType(r, "json") \/ ~ AcceptsMediaType(r, "sse"), Answer("unsupported_accept")>>,
                 <<message = "parse_error", Answer(message)>>,
                 <<message # "request", Answer("invalid_request")>>,
                 <<r.id = "large", Answer("payload_too_large")>>,
                 <<metadata # "valid", Answer(metadata)>>,
                 <<routing # "valid", Answer(routing)>> >>,
              StatelessMethod(s, r))

-----------------------------------------------------------------------------
(* GET and DELETE *)

HandleMcpGet(s, phases, r) ==
    LET found == ValidateSessionRequest(phases, r)
    IN  First(<< <<~ AcceptsMediaType(r, "sse"), Answer("unsupported_accept")>>,
                 <<found # "found", Answer(found)>>,
                 <<PhaseOf(phases, r) # "active", Answer("server_not_initialized")>>,
                 <<~ s.sse \/ r.last_event = "absent", Answer("method_not_allowed")>>,
                 <<r.last_event \in {"twice", "malformed"}, Answer("invalid_last_event_id")>> >>,
              Answer("replayed"))

HandleMcpDelete(phases, r) ==
    LET found == ValidateSessionRequest(phases, r)
    IN  IF found # "found" THEN Answer(found) ELSE Do("terminate")

HandleMcpRequest(s, phases, r) ==
    First(<< <<~ ValidateTransport(s, r), Answer("transport_security_rejected")>>,
             <<r.http # "POST" /\ DeclaresExactStatelessHeader(r), Answer("method_not_allowed")>>,
             <<r.http # "POST" /\ r.grant # "absent", Answer("capability_context_not_allowed")>>,
             <<r.http \notin {"GET", "DELETE", "POST"}, Answer("method_not_allowed")>> >>,
          CASE r.http = "GET" -> HandleMcpGet(s, phases, r)
            [] r.http = "DELETE" -> HandleMcpDelete(phases, r)
            [] r.http = "POST" -> IF DeclaresStatelessRequest(s, r) THEN HandleStatelessMcpPost(s, r)
                                  ELSE HandleLegacyMcpPost(phases, r))

\* protect_router: the layers from the outside in.
Route(s, phases, r) ==
    LET auth == require_mcp_auth(s, r) limits == EnforceMcpRequestLimits(r)
    IN  First(<< <<auth # "admitted", Answer(auth)>>, <<limits # "admitted", Answer(limits)>> >>,
              HandleMcpRequest(s, phases, r))

\* The transport that carries an admitted tool call.
ToolInvocationContext(s, r) == IF DeclaresStatelessRequest(s, r) THEN "stateless" ELSE r.session

\* maybe_sse_response: with SSE, what a session is answered with status 200 (a
\* success, or a tool result that reports an error) is recorded for replay,
\* unless it is too large for an event; when the session has ended during the
\* call there is nothing to record it in, and the answer is replaced.
MaybeSseResponse(s, phases, ctx, answer, fits) ==
    IF /\ s.sse /\ ctx # "stateless" /\ answer \in {"ok", "unavailable"} /\ fits
       /\ phases[ctx] \in {"none", "ended"}
    THEN "session_not_found" ELSE answer
=============================================================================
