---------------------------- MODULE Configuration ----------------------------
(***************************************************************************)
(* From the environment of the process to a server, or to an exit with an  *)
(* error: AppConfig::load (config.rs), main (main.rs), the safe-root check *)
(* (tools/mod.rs) and McpRouterBuilder (mcp_transport.rs).                 *)
(*                                                                         *)
(* An environment maps the names of variables to classes of text: "unset", *)
(* or a word for what the text parses to.  Every failure ends the process, *)
(* so the order of the checks does not matter and each is a predicate.     *)
(***************************************************************************)
EXTENDS GrantTokens, SequencesExt, TLC

\* The gates that are Boolean variables, and the cargo feature each needs.
GateFeature ==
    [create_directory |-> "mcp-runtime", write_file |-> "mcp-runtime", copy_file |-> "mcp-runtime",
     trash_file |-> "mcp-runtime", android_volume |-> "android-volume-control",
     battery |-> "android-battery-status", volume_status |-> "android-volume-status",
     rish |-> "android-rish", command |-> "command-execution"]
Gates == DOMAIN GateFeature
Switches == Gates \cup {"allow_unauthenticated", "allow_missing_origin", "sse", "stateless"}

\* An environment that configures everything, and nothing beyond it.
FullEnvironment ==
    [v \in Switches \ {"allow_unauthenticated", "allow_missing_origin"} |-> "true"] @@
    [allow_unauthenticated |-> "unset", allow_missing_origin |-> "unset",
     host |-> "unset", port |-> "unset", token |-> "t1", key_id |-> "k1", key |-> "h1",
     roots |-> "unset", dex_path |-> "outside", dex_sha256 |-> "d1",
     hosts |-> "unset", origins |-> "unset",
     max_concurrent |-> "unset", timeout |-> "unset", max_body |-> "unset",
     build |-> "full", system |-> "sound"]

\* The other classes of text each variable may have.
Alternatives(v) ==
    CASE v \in Gates -> {"unset", "junk"}
      [] v \in {"sse", "stateless"} -> {"unset", "junk"}
      [] v \in {"allow_unauthenticated", "allow_missing_origin"} -> {"true", "junk"}
      [] v = "host" -> {"remote", "localhost", "misresolved_localhost"}
      [] v = "port" -> {"zero", "junk"}
      [] v = "token" -> {"unset", "invalid", "t2", "not_unicode"}
      [] v = "key_id" -> {"unset", "bad", "k2"}
      [] v = "key" -> {"unset", "bad", "h2"}
      [] v = "roots" -> {"empty_entry", "relative", "slash", "too_many", "reserved", "dotdot", "symlink", "file"}
      [] v = "dex_path" -> {"unset", "relative", "inside", "inside_by_dots"}
      [] v = "dex_sha256" -> {"unset", "bad"}
      [] v \in {"hosts", "origins"} -> {"empty_entry", "bad"}
      [] v \in {"max_concurrent", "timeout", "max_body"} -> {"zero", "too_large", "junk"}
      [] v = "build" -> {"runtime_only", "no_runtime"}
      [] v = "system" -> {"port_taken", "no_provider", "no_rish", "no_safe_root"}

CompiledIn(build) ==
    CASE build = "full" -> {GateFeature[g] : g \in Gates}
      [] build = "runtime_only" -> {"mcp-runtime"}
      [] build = "no_runtime" -> {}

-----------------------------------------------------------------------------
(* Reading variables *)

ReadEnv(env, v) == env[v] # "not_unicode"
EnvPort(env) == env["port"] \notin {"zero", "junk"}
EnvNumber(env, v) == env[v] # "junk"
EnvBool(env, v) == env[v] \in {"unset", "true", "false"}
SplitExactEnvList(env, v) == env[v] # "empty_entry"
Enabled(env, v) == env[v] = "true"
Token(env) == IF env["token"] = "unset" THEN "none" ELSE env["token"]

VariablesParse(env) ==
    /\ \A v \in DOMAIN env : ReadEnv(env, v)
    /\ EnvPort(env)
    /\ \A v \in Switches : EnvBool(env, v)
    /\ \A v \in {"max_concurrent", "timeout", "max_body"} : EnvNumber(env, v)
    /\ \A v \in {"roots", "hosts", "origins"} : SplitExactEnvList(env, v)

\* A private literal file in place of the environment: the same variables,
\* after the checks that the file is absolute, regular, private, bounded,
\* and made of allowlisted NAME=value lines without repetition.
LoadFromLiteralFile(file, env) ==
    file = "private" /\ VariablesParse(env)

-----------------------------------------------------------------------------
(* Checks across variables: config.rs *)

validate_bearer_token(token) == token # "invalid"

\* Paths as sequences of components below "/".
RootPath(env) == IF env["roots"] = "dotdot" THEN <<"home", "..", "home">> ELSE <<"home">>
DexPath(env) ==
    CASE env["dex_path"] = "inside" -> <<"home", "rish.dex">>
      [] env["dex_path"] = "inside_by_dots" -> <<"opt", "..", ".", "home", "rish.dex">>
      [] OTHER -> <<"opt", "rish.dex">>

NormalizeLexically(path) ==
    FoldLeft(LAMBDA done, c : IF c = "." THEN done
                              ELSE IF c # ".." THEN Append(done, c)
                              ELSE IF done = <<>> THEN done ELSE Front(done),
             <<>>, path)

validate_file_safe_roots(env) == env["roots"] \notin {"relative", "slash", "too_many"}

validate_capability_key_configuration(env) ==
    /\ env["key_id"] # "bad" /\ env["key"] # "bad"
    /\ (env["key_id"] = "unset") = (env["key"] = "unset")

validate_mutation_static_token(env) ==
    Token(env) # "none" /\ validate_bearer_token(Token(env))

MutationGateConfigured(env, gate) ==
    Enabled(env, gate) =>
        /\ GateFeature[gate] \in CompiledIn(env["build"])
        /\ validate_mutation_static_token(env)
        /\ env["key_id"] # "unset"

validate_create_directory_mutation_capability(env) == MutationGateConfigured(env, "create_directory")
validate_write_file_mutation_capability(env) == MutationGateConfigured(env, "write_file")
validate_copy_file_mutation_capability(env) == MutationGateConfigured(env, "copy_file")
validate_trash_file_mutation_capability(env) == MutationGateConfigured(env, "trash_file")

validate_android_capabilities(env) ==
    \A g \in {"battery", "volume_status", "android_volume"} :
        Enabled(env, g) => GateFeature[g] \in CompiledIn(env["build"])

validate_android_volume_control_capability(env) ==
    Enabled(env, "android_volume") =>
        validate_mutation_static_token(env) /\ env["key_id"] # "unset"

validate_android_rish_configuration(env) ==
    /\ (env["dex_path"] = "unset") = (env["dex_sha256"] = "unset")
    /\ env["dex_sha256"] # "bad"
    /\ env["dex_path"] # "unset" =>
          /\ env["dex_path"] # "relative"
          /\ ~ IsPrefix(NormalizeLexically(RootPath(env)), NormalizeLexically(DexPath(env)))
    /\ Enabled(env, "rish") =>
          /\ env["dex_path"] # "unset"
          /\ "android-rish" \in CompiledIn(env["build"])
          /\ validate_mutation_static_token(env)

validate_command_capability(env) ==
    Enabled(env, "command") => "command-execution" \in CompiledIn(env["build"])

validate_transport_security(env) ==
    /\ env["hosts"] # "bad" /\ env["origins"] # "bad"
    /\ \A v \in {"max_concurrent", "timeout", "max_body"} : env[v] \notin {"zero", "too_large"}

Load(env) ==
    /\ VariablesParse(env)
    /\ validate_file_safe_roots(env)
    /\ validate_capability_key_configuration(env)
    /\ validate_create_directory_mutation_capability(env)
    /\ validate_write_file_mutation_capability(env)
    /\ validate_copy_file_mutation_capability(env)
    /\ validate_trash_file_mutation_capability(env)
    /\ validate_android_capabilities(env)
    /\ validate_android_volume_control_capability(env)
    /\ validate_android_rish_configuration(env)
    /\ validate_command_capability(env)
    /\ validate_transport_security(env)

is_loopback_host(env) == env["host"] # "remote"
ListenerIsLoopback(env) == env["host"] \in {"unset", "localhost"}

validate_runtime_auth_posture(env) ==
    IF Token(env) # "none"
    THEN IF validate_bearer_token(Token(env)) THEN "static_token" ELSE "invalid"
    ELSE IF Enabled(env, "allow_unauthenticated") /\ is_loopback_host(env)
         THEN "unauthenticated_localhost_only" ELSE "invalid"

-----------------------------------------------------------------------------
(* Start-up: main.rs and McpRouterBuilder *)

validated_safe_root_labels(env) ==
    env["roots"] \notin {"relative", "slash", "too_many", "reserved", "dotdot", "symlink", "file"}

NoAuthority == [none |-> TRUE]

ConfiguredCreateDirectoryAuthority(env) ==
    IF Enabled(env, "create_directory")
    THEN CreateDirectoryAuthority(env["key_id"], env["key"], Token(env)) ELSE NoAuthority
ConfiguredWriteFileAuthority(env) ==
    IF Enabled(env, "write_file")
    THEN WriteFileAuthority(env["key_id"], env["key"], Token(env)) ELSE NoAuthority
ConfiguredCopyFileAuthority(env) ==
    IF Enabled(env, "copy_file")
    THEN CopyFileAuthority(env["key_id"], env["key"], Token(env)) ELSE NoAuthority
ConfiguredTrashFileAuthority(env) ==
    IF Enabled(env, "trash_file")
    THEN TrashFileAuthority(env["key_id"], env["key"], Token(env)) ELSE NoAuthority
ConfiguredAndroidVolumeAuthority(env) ==
    IF Enabled(env, "android_volume")
    THEN AndroidVolumeAuthority(env["key_id"], env["key"], Token(env)) ELSE NoAuthority

ConfiguredAuthority(env, f) ==
    CASE f = "create_directory" -> ConfiguredCreateDirectoryAuthority(env)
      [] f = "write_file" -> ConfiguredWriteFileAuthority(env)
      [] f = "copy_file" -> ConfiguredCopyFileAuthority(env)
      [] f = "trash_file" -> ConfiguredTrashFileAuthority(env)
      [] f = "android_volume" -> ConfiguredAndroidVolumeAuthority(env)

HasAuthority(a) == "family" \in DOMAIN a

\* McpRouterBuilder::try_new
BoundariesSound(env) ==
    /\ validate_runtime_auth_posture(env) = "unauthenticated_localhost_only" => ListenerIsLoopback(env)
    /\ validated_safe_root_labels(env)

\* try_with_*_authority and try_with_rish_backend
AuthoritiesSound(env) ==
    LET principal == Token(env)
    IN  /\ \A f \in Families : Enabled(env, f) =>
              /\ HasAuthority(ConfiguredAuthority(env, f))
              /\ binds_static_principal(ConfiguredAuthority(env, f), principal)
        /\ Enabled(env, "rish") => principal # "none"

\* McpTransportState::try_new: every compiled-in client must exist, whether
\* its gate is open or not; the command client only when it is.
ClientsSound(env) ==
    /\ \A g \in {"battery", "volume_status", "command"} :
          Enabled(env, g) => GateFeature[g] \in CompiledIn(env["build"])
    /\ env["system"] = "no_provider" => CompiledIn(env["build"]) \cap
          {"android-battery-status", "android-volume-status", "android-volume-control"} = {}
    /\ env["system"] = "no_safe_root" => ~ Enabled(env, "command")

\* main: how a start ends.  A binary without the MCP runtime serves its
\* health routes only.
Main(env) ==
    IF \/ ~ Load(env) \/ validate_runtime_auth_posture(env) = "invalid"
       \/ env["system"] = "port_taken"
       \/ ~ validated_safe_root_labels(env)
    THEN "failed"
    ELSE IF "mcp-runtime" \notin CompiledIn(env["build"]) THEN "health_only"
    ELSE IF /\ BoundariesSound(env)
            /\ Enabled(env, "rish") => env["system"] # "no_rish"
            /\ AuthoritiesSound(env)
            /\ ClientsSound(env)
         THEN "serving" ELSE "failed"

\* What the server keeps of its configuration.  The gates of the volume
\* control and of rish are open when their authority or client is there.
ServerOf(env) ==
    [principal |-> Token(env), loopback |-> ListenerIsLoopback(env),
     gates |-> {g \in Gates \ {"android_volume"} : Enabled(env, g)}
               \cup {g \in {"android_volume"} : HasAuthority(ConfiguredAuthority(env, g))},
     features |-> CompiledIn(env["build"]),
     authority |-> [f \in Families |-> ConfiguredAuthority(env, f)],
     sse |-> Enabled(env, "sse"), stateless |-> Enabled(env, "stateless"),
     allow_missing_origin |-> Enabled(env, "allow_missing_origin")]

-----------------------------------------------------------------------------
(* The offline issuer: the same binary, started with --issue-*-grant *)

\* From the environment, or from the literal file that CONFIG_FILE names.
LoadOfflineIssuerConfig(file, env) ==
    /\ file = "none" \/ LoadFromLiteralFile(file, env)
    /\ Load(env)
    /\ validate_runtime_auth_posture(env) # "invalid"

RequiredGrantEnvironment(value) == value \notin {"unset", "empty", "not_unicode"}
=============================================================================
