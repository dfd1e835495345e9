------------------------------ MODULE ToolCalls ------------------------------
(***************************************************************************)
(* The tool handlers of mcp_transport.rs.  Each is split where it awaits:  *)
(* the part before decides from the server, the request and its context    *)
(* (a session, or "stateless") whether the call is answered at once; the   *)
(* part after turns the outcome of the awaited work into an answer.  Both  *)
(* say what they write to the audit counters.                              *)
(*                                                                         *)
(* Outcomes of the file tools are classes of AppError, "ok", or "oversized"*)
(* for a success whose response is over the tool's own limit.              *)
(***************************************************************************)
EXTENDS McpRequests

\* The three ways a handler ends, and the one in which it goes on.
Allowed == [answer |-> "ok", audit |-> <<"allowed">>]
Denied(a) == [answer |-> a, audit |-> <<"denied">>]
Unrecorded(a) == [answer |-> a, audit |-> <<>>]
Await == [answer |-> "await", audit |-> <<>>]

ArgumentsRefused(r) == << <<r.args \in {"absent", "unfit"}, Denied("invalid_params")>> >>

-----------------------------------------------------------------------------
(* Tools that answer at once *)

\* The record is written before the snapshot of the counters is taken.
IsOmittedOrEmptyObject(r) == r.args \in {"ok", "absent"}
RuntimeStatus(r) == IF IsOmittedOrEmptyObject(r) THEN Allowed ELSE Denied("invalid_params")
NoArgumentTool(r) == IF IsOmittedOrEmptyObject(r) THEN Allowed ELSE Denied("invalid_params")

ProjectServiceStatus(r) ==
    First(ArgumentsRefused(r) \o << <<r.target = "other", Denied("invalid_params")>> >>, Allowed)

(* Tools behind a gate that start a program *)

\* The gate of a tool: compiled in, and enabled at run time.
GateOpen(s, g) == GateFeature[g] \in s.features /\ g \in s.gates

GatedRead(s, r, g) ==
    First(<< <<~ IsOmittedOrEmptyObject(r), Denied("invalid_params")>>,
             <<~ GateOpen(s, g), Denied("unavailable")>> >>, Await)

AndroidBatteryStatus(s, r) == GatedRead(s, r, "battery")
AndroidVolumeStatus(s, r) == GatedRead(s, r, "volume_status")
AndroidRishStatus(s, r) == GatedRead(s, r, "rish")

GatedReadDone(outcome) == IF outcome = "ok" THEN Allowed ELSE Denied("unavailable")

\* CommandExecutionPolicy::evaluate: a closed gate hides the allowlist.
EvaluateCommandPolicy(s, r) ==
    First(<< <<"command" \notin s.gates, "runtime_disabled">>,
             <<r.target = "other", "profile_not_allowlisted">> >>, "allowed")

RunCommandProfile(s, r) ==
    LET policy == EvaluateCommandPolicy(s, r)
    IN  First(ArgumentsRefused(r) \o
              << <<"command-execution" \notin s.features, Denied("unavailable")>>,
                 <<policy = "profile_not_allowlisted", Denied("invalid_params")>>,
                 <<policy # "allowed", Denied("unavailable")>> >>, Await)

RunCommandProfileDone(outcome) == IF outcome = "ok" THEN Allowed ELSE Denied("unavailable")

-----------------------------------------------------------------------------
(* File tools that read: arguments, the bounds of the arguments, for some   *)
(* tools first the largest answer the caller's id still permits.            *)

ReadDone(outcome, invalid, too_large, changed) ==
    First(<< <<outcome = "ok", Allowed>>,
             <<outcome \in {"oversized"} \cup too_large, Denied("payload_too_large")>>,
             <<outcome \in invalid, Denied("invalid_params")>>,
             <<outcome \in changed, Denied("resource_changed")>> >>,
          Denied("internal_error"))

OutOfRange(r) == << <<r.args = "out_of_range", Denied("invalid_params")>> >>
EnvelopeTooLarge(r) == << <<r.id = "long", Denied("payload_too_large")>> >>

ListDirectory(r) == First(ArgumentsRefused(r) \o OutOfRange(r), Await)
ListDirectoryDone(outcome) == ReadDone(outcome, {"path_traversal"}, {}, {})

PathMetadata(r) == First(ArgumentsRefused(r), Await)
PathMetadataDone(outcome) ==
    ReadDone(outcome, {"path_traversal", "not_found", "unsupported_path_type"}, {}, {})

ReadBinaryFile(r) == First(EnvelopeTooLarge(r) \o ArgumentsRefused(r), Await)
ReadBinaryFileDone(outcome) ==
    ReadDone(outcome, {"path_traversal", "not_found", "unsupported_path_type"}, {"file_too_large"}, {})

ReadBinaryRange(r) == First(EnvelopeTooLarge(r) \o ArgumentsRefused(r), Await)
ReadBinaryRangeDone(outcome) ==
    ReadDone(outcome, {"path_traversal", "not_found", "unsupported_path_type", "invalid_range"},
             {"file_too_large"}, {"changed_during_read"})

ReadTextRange(r) == First(EnvelopeTooLarge(r) \o ArgumentsRefused(r), Await)
ReadTextRangeDone(outcome) ==
    ReadDone(outcome, {"path_traversal", "not_found", "unsupported_path_type", "invalid_range", "encoding"},
             {"file_too_large"}, {"changed_during_read"})

ReadFile(r) == First(ArgumentsRefused(r), Await)
ReadFileDone(outcome) == ReadDone(outcome, {"path_traversal", "encoding"}, {"file_too_large"}, {})

FindPaths(r) == First(EnvelopeTooLarge(r) \o ArgumentsRefused(r) \o OutOfRange(r), Await)
FindPathsDone(outcome) == ReadDone(outcome, {"path_traversal", "invalid_query"}, {}, {})

HashFile(r) == First(EnvelopeTooLarge(r) \o ArgumentsRefused(r), Await)
HashFileDone(outcome) ==
    ReadDone(outcome, {"path_traversal", "not_found", "unsupported_path_type"}, {"file_too_large"}, {})

SearchText(r) == First(ArgumentsRefused(r) \o OutOfRange(r), Await)
SearchTextDone(outcome) == ReadDone(outcome, {"path_traversal", "invalid_query"}, {}, {})

-----------------------------------------------------------------------------
(* Tools that change something.  dry_run is true unless it is given as     *)
(* false; a live call needs a session, an authority and a grant, in this   *)
(* order, and an answer that still fits with the id of the caller.         *)

FamilyOf(tool) == IF tool = "set_android_volume" THEN "android_volume" ELSE tool
Live(r) == r.dry_run = "false"

\* copy_file and trash_file refuse a grant that comes without a live call.
BadArguments(r) ==
    << <<r.args # "ok" /\ r.grant # "absent", Denied("capability_context_not_allowed")>>,
       <<r.args # "ok", Denied("invalid_params")>> >>
StatelessLive(r, ctx) == << <<Live(r) /\ ctx = "stateless", Denied("invalid_params")>> >>
GrantWithPreview(r) ==
    << <<r.grant # "absent" /\ ~ Live(r), Denied("capability_context_not_allowed")>> >>
Unauthorised(s, r, f) ==
    << <<Live(r) /\ ~ HasAuthority(s.authority[f]), Denied("capability_denied")>>,
       <<Live(r) /\ r.grant = "absent", Denied("capability_denied")>> >>
WorkersBusy(r) == << <<Live(r) /\ r.slot = "workers_taken", Denied("worker_capacity")>> >>

CreateDirectory(s, r, ctx) ==
    First(ArgumentsRefused(r) \o StatelessLive(r, ctx) \o Unauthorised(s, r, "create_directory")
          \o << <<r.target # "outside" /\ r.id = "long", Denied("payload_too_large")>> >>
          \o WorkersBusy(r), Await)

\* Mutant: the answer is not measured before the work.
CopyFileNoPreflight(s, r, ctx) ==
    First(BadArguments(r) \o StatelessLive(r, ctx) \o GrantWithPreview(r)
          \o Unauthorised(s, r, "copy_file")
          \o << <<r.target = "outside", Denied("invalid_params")>> >>
          \o WorkersBusy(r), Await)

CopyFile(s, r, ctx) ==
    First(BadArguments(r) \o StatelessLive(r, ctx) \o GrantWithPreview(r)
          \o Unauthorised(s, r, "copy_file") \o EnvelopeTooLarge(r)
          \o << <<r.target = "outside", Denied("invalid_params")>> >>
          \o WorkersBusy(r), Await)

TrashFile(s, r, ctx) ==
    First(BadArguments(r) \o StatelessLive(r, ctx) \o GrantWithPreview(r)
          \o Unauthorised(s, r, "trash_file") \o EnvelopeTooLarge(r) \o WorkersBusy(r), Await)

WriteFile(s, r, ctx) ==
    First(ArgumentsRefused(r) \o StatelessLive(r, ctx) \o Unauthorised(s, r, "write_file")
          \o EnvelopeTooLarge(r) \o WorkersBusy(r), Await)

\* A missing grant is found by consume_at, after the volumes have been read.
SetAndroidVolume(s, r, ctx) ==
    First(ArgumentsRefused(r) \o StatelessLive(r, ctx) \o
          << <<~ GateOpen(s, "android_volume"), Denied("unavailable")>>,
             <<r.target = "outside", Denied("invalid_params")>> >>, Await)

CreateDirectoryError(e) ==
    IF e \in {"path_traversal", "not_found", "exists"} THEN "invalid_params" ELSE "internal_error"
CopyFileError(e) ==
    CASE e \in {"path_traversal", "not_found", "parent_not_found", "same_path", "exists",
                "unsupported_path_type"} -> "invalid_params"
      [] e = "file_too_large" -> "payload_too_large"
      [] e \in {"source_changed", "changed"} -> "resource_changed"
      [] e \in {"quarantine_full", "quarantine_busy"} -> e
      [] OTHER -> "internal_error"
TrashFileError(e) ==
    CASE e \in {"path_traversal", "not_found", "unsupported_path_type"} -> "invalid_params"
      [] e = "file_too_large" -> "payload_too_large"
      [] e = "changed" -> "resource_changed"
      [] e = "authorization_required" -> "capability_denied"
      [] e \in {"quarantine_full", "quarantine_busy"} -> e
      [] OTHER -> "internal_error"
WriteFileError(e) ==
    CASE e \in {"path_traversal", "not_found", "unsupported_path_type"} -> "invalid_params"
      [] e = "file_too_large" -> "payload_too_large"
      [] e \in {"exists", "changed"} -> "resource_changed"
      [] e \in {"quarantine_full", "quarantine_busy"} -> e
      [] OTHER -> "internal_error"

\* An authorization error and a cancelled commit have answers of their own.
MutationError(tool, e) ==
    CASE e = "unauthorized" -> "capability_denied"
      [] e = "cancelled" -> "cancelled"
      [] tool = "create_directory" -> CreateDirectoryError(e)
      [] tool = "copy_file" -> CopyFileError(e)
      [] tool = "trash_file" -> TrashFileError(e)
      [] tool = "write_file" -> WriteFileError(e)
      [] tool = "set_android_volume" -> "unavailable"

\* The end of a preview: the handler itself writes the record.
PreviewDone(tool, r, e) ==
    First(<< <<e # "ok", Denied(MutationError(tool, e))>>,
             <<r.id = "long" /\ tool # "set_android_volume", Denied("payload_too_large")>> >>,
          Allowed)

\* The end of a live call: the worker's guard has written the record of the
\* outcome.  create_directory and copy_file would add one of their own for an
\* answer that does not fit.
LiveDone(tool, r, e) ==
    IF e # "ok" THEN Denied(MutationError(tool, e))
    ELSE IF r.id = "long" /\ tool # "set_android_volume"
    THEN [answer |-> "payload_too_large",
          audit |-> <<"allowed">> \o (IF tool \in {"create_directory", "copy_file"}
                                     THEN <<"denied">> ELSE <<>>)]
    ELSE Allowed

-----------------------------------------------------------------------------
(* Dispatch *)

MatchTool(s, r, ctx) ==
    LET t == r.tool
    IN  CASE t = "runtime_status" -> RuntimeStatus(r)
          [] t \in {"platform_info", "android_status"} -> NoArgumentTool(r)
          [] t = "project_service_status" -> ProjectServiceStatus(r)
          [] t = "android_battery_status" -> AndroidBatteryStatus(s, r)
          [] t = "android_volume_status" -> AndroidVolumeStatus(s, r)
          [] t = "android_rish_status" -> AndroidRishStatus(s, r)
          [] t = "run_command_profile" -> RunCommandProfile(s, r)
          [] t = "list_directory" -> ListDirectory(r)
          [] t = "path_metadata" -> PathMetadata(r)
          [] t = "read_binary_file" -> ReadBinaryFile(r)
          [] t = "read_binary_range" -> ReadBinaryRange(r)
          [] t = "read_text_range" -> ReadTextRange(r)
          [] t = "read_file" -> ReadFile(r)
          [] t = "find_paths" -> FindPaths(r)
          [] t = "hash_file" -> HashFile(r)
          [] t = "search_text" -> SearchText(r)
          [] t = "create_directory" -> CreateDirectory(s, r, ctx)
          [] t = "copy_file" -> CopyFile(s, r, ctx)
          [] t = "trash_file" -> TrashFile(s, r, ctx)
          [] t = "write_file" -> WriteFile(s, r, ctx)
          [] t = "set_android_volume" -> SetAndroidVolume(s, r, ctx)
          [] t \notin Tools -> Unrecorded("method_not_available")

HandleToolCall(s, r, ctx) ==
    First(<< <<r.params = "absent", Unrecorded("invalid_params")>>,
             <<r.params = "unfit", Unrecorded("invalid_params")>>,
             <<r.grant # "absent" /\ r.tool \notin MutationTools,
               Unrecorded("capability_context_not_allowed")>> >>, MatchTool(s, r, ctx))

\* What an awaited call that changes nothing answers, by its outcome.
Done(r, outcome) ==
    LET t == r.tool
    IN  CASE t \in {"android_battery_status", "android_volume_status", "android_rish_status"} ->
                 GatedReadDone(outcome)
          [] t = "run_command_profile" -> RunCommandProfileDone(outcome)
          [] t = "list_directory" -> ListDirectoryDone(outcome)
          [] t = "path_metadata" -> PathMetadataDone(outcome)
          [] t = "read_binary_file" -> ReadBinaryFileDone(outcome)
          [] t = "read_binary_range" -> ReadBinaryRangeDone(outcome)
          [] t = "read_text_range" -> ReadTextRangeDone(outcome)
          [] t = "read_file" -> ReadFileDone(outcome)
          [] t = "find_paths" -> FindPathsDone(outcome)
          [] t = "hash_file" -> HashFileDone(outcome)
          [] t = "search_text" -> SearchTextDone(outcome)
          [] t \in MutationTools -> PreviewDone(t, r, outcome)
=============================================================================
