---------------------------- MODULE ServerConfig ----------------------------
(***************************************************************************)
(* The configuration of agate-server: the layers it is loaded from, the    *)
(* checks it has to pass, and the settings of the bounded contexts it is   *)
(* mapped onto.                                                            *)
(*                                                                         *)
(* A configuration is a function on its fully qualified keys.  Numbers are *)
(* kept as small numbers (zero is the case the checks tell apart); a text  *)
(* is "", which stands for every blank text, "ok", or "bad" when its       *)
(* parser refuses it; None is an absent option.                            *)
(***************************************************************************)
EXTENDS Naturals, Sequences, FiniteSets, TLC

CONSTANTS Features   \* the Cargo features of the build

None == "none"
Absent == {None, ""}

-----------------------------------------------------------------------------
(* The sections: their fields and enumerations *)

ProxySection ==
    {"proxy.agent_endpoint", "proxy.bind", "proxy.connect_timeout_secs", "proxy.read_timeout_secs",
     "proxy.max_body_bytes", "proxy.api_key", "proxy.api_keys", "proxy.max_concurrent_requests",
     "proxy.max_response_events", "proxy.max_response_bytes", "proxy.max_frame_bytes",
     "proxy.rate_limit_per_second", "proxy.rate_limit_burst"}

AuditSection ==
    {"audit.backend", "audit.database_url", "audit.max_connections", "audit.acquire_timeout_secs",
     "audit.connect_max_retries", "audit.connect_backoff_secs", "audit.checkpoint_interval_secs",
     "audit.checkpoint_key_id", "audit.outbox_capacity", "audit.outbox_on_full"}

PolicySection ==
    {"policy.redact", "policy.redact_regex", "policy.fail_mode", "policy.decision_timeout_ms",
     "policy.on_malformed_event", "policy.backend"}
CelSection == {"policy.cel.policy_path", "policy.cel.watch", "policy.cel.max_rules"}
RegoSection == {"policy.rego.policy_path", "policy.rego.watch"}
SessionMemorySection ==
    {"policy.session_memory.enabled", "policy.session_memory.ttl_secs",
     "policy.session_memory.backend", "policy.session_memory.redis_url"}
ToolsSection ==
    {"policy.tools.mode", "policy.tools.names", "policy.tools.deny_arguments",
     "policy.tools.deny_results"}

TlsConfig == {"tls.enabled", "tls.cert", "tls.key"}
LoggingConfig == {"observability.logging.enabled"}
TracingConfig == {"observability.tracing.enabled", "observability.tracing.endpoint"}
MetricsConfig ==
    {"observability.metrics.enabled", "observability.metrics.exporter", "observability.metrics.bind"}

AppConfig ==
    UNION {ProxySection, AuditSection, PolicySection, CelSection, RegoSection,
           SessionMemorySection, ToolsSection, TlsConfig, LoggingConfig, TracingConfig,
           MetricsConfig}

AuditBackend == {"postgres"}
OnFull == {"Block", "Shed"}
PolicyBackendKind == {"ruleset", "cel", "rego"}
SessionMemoryBackendKind == {"memory", "redis"}
MalformedMode == {"Forward", "Drop", "Terminate"}
PolicyFailMode == {"Open", "Closed"}
ToolMode == {"AllowAll", "Allowlist", "Denylist"}
MetricsExporter == {"prometheus", "none"}

-----------------------------------------------------------------------------
(* Defaults and layers *)

ProxyDefault ==
    ("proxy.agent_endpoint" :> "") @@ ("proxy.bind" :> "ok")
    @@ ("proxy.connect_timeout_secs" :> 5) @@ ("proxy.read_timeout_secs" :> 60)
    @@ ("proxy.max_body_bytes" :> 1024)
    @@ ("proxy.api_key" :> None) @@ ("proxy.api_keys" :> {})
    @@ ("proxy.max_concurrent_requests" :> 256)
    @@ ("proxy.max_response_events" :> 1000) @@ ("proxy.max_response_bytes" :> 6400)
    @@ ("proxy.max_frame_bytes" :> 1024)
    @@ ("proxy.rate_limit_per_second" :> 0) @@ ("proxy.rate_limit_burst" :> 0)

AuditDefault ==
    ("audit.backend" :> "postgres") @@ ("audit.checkpoint_key_id" :> "ok")
    @@ ("audit.database_url" :> "") @@ ("audit.max_connections" :> 10)
    @@ ("audit.acquire_timeout_secs" :> 30)
    @@ ("audit.connect_max_retries" :> 10) @@ ("audit.connect_backoff_secs" :> 1)
    @@ ("audit.checkpoint_interval_secs" :> 0)
    @@ ("audit.outbox_capacity" :> 1024) @@ ("audit.outbox_on_full" :> "Block")

PolicyDefault ==
    ("policy.redact" :> <<>>) @@ ("policy.redact_regex" :> <<>>)
    @@ ("policy.fail_mode" :> "Closed") @@ ("policy.decision_timeout_ms" :> 5000)
    @@ ("policy.on_malformed_event" :> "Terminate") @@ ("policy.backend" :> "ruleset")

CelDefault ==
    ("policy.cel.policy_path" :> None) @@ ("policy.cel.watch" :> FALSE)
    @@ ("policy.cel.max_rules" :> 1000)

RegoDefault == ("policy.rego.policy_path" :> None) @@ ("policy.rego.watch" :> FALSE)

SessionMemoryDefault ==
    ("policy.session_memory.enabled" :> FALSE) @@ ("policy.session_memory.ttl_secs" :> 3600)
    @@ ("policy.session_memory.backend" :> "memory")
    @@ ("policy.session_memory.redis_url" :> None)

ToolsDefault ==
    ("policy.tools.mode" :> "AllowAll") @@ ("policy.tools.names" :> <<>>)
    @@ ("policy.tools.deny_arguments" :> <<>>) @@ ("policy.tools.deny_results" :> <<>>)

TlsDefault == ("tls.enabled" :> FALSE) @@ ("tls.cert" :> "") @@ ("tls.key" :> "")

LoggingDefault == ("observability.logging.enabled" :> TRUE)
TracingDefault ==
    ("observability.tracing.enabled" :> FALSE) @@ ("observability.tracing.endpoint" :> "ok")
MetricsDefault ==
    ("observability.metrics.enabled" :> FALSE)
    @@ ("observability.metrics.exporter" :> "prometheus") @@ ("observability.metrics.bind" :> "ok")

Defaults ==
    ProxyDefault @@ AuditDefault @@ PolicyDefault @@ CelDefault @@ RegoDefault
    @@ SessionMemoryDefault @@ ToolsDefault @@ TlsDefault
    @@ LoggingDefault @@ TracingDefault @@ MetricsDefault

\* `figment`: environment over file over built-in defaults, key by key.  A key that no
\* section has is ignored, whichever layer it is in.
Layered(file, env) == [key \in AppConfig |-> (env @@ file @@ Defaults)[key]]

\* `load` fails on a name that is none of its enumeration's.
Extracts(c) ==
    /\ c["audit.backend"] \in AuditBackend /\ c["audit.outbox_on_full"] \in OnFull
    /\ c["policy.backend"] \in PolicyBackendKind
    /\ c["policy.session_memory.backend"] \in SessionMemoryBackendKind
    /\ c["policy.on_malformed_event"] \in MalformedMode
    /\ c["policy.fail_mode"] \in PolicyFailMode /\ c["policy.tools.mode"] \in ToolMode
    /\ c["observability.metrics.exporter"] \in MetricsExporter
-----------------------------------------------------------------------------
(* Checks: what each section's `validate` refuses *)

Positive(c, key) == c[key] > 0

ProxyValid(c) ==
    /\ c["proxy.agent_endpoint"] # ""
    /\ \A key \in {"proxy.max_body_bytes", "proxy.connect_timeout_secs",
                   "proxy.read_timeout_secs", "proxy.max_concurrent_requests",
                   "proxy.max_frame_bytes"} : Positive(c, key)
    /\ c["proxy.rate_limit_burst"] # 0 => c["proxy.rate_limit_per_second"] # 0

PostgresValid(c) ==
    /\ c["audit.database_url"] # ""
    /\ \A key \in {"audit.max_connections", "audit.acquire_timeout_secs",
                   "audit.connect_backoff_secs"} : Positive(c, key)

AuditValid(c) == Positive(c, "audit.outbox_capacity") /\ PostgresValid(c)

\* An engine that is not compiled in, and its options when it is.
EngineValid(c) ==
    /\ c["policy.backend"] = "cel" =>
         /\ "policy-cel" \in Features
         /\ c["policy.cel.policy_path"] \notin Absent
         /\ Positive(c, "policy.cel.max_rules")
    /\ c["policy.backend"] = "rego" =>
         /\ "policy-rego" \in Features
         /\ c["policy.rego.policy_path"] \notin Absent

SessionMemoryValid(c) ==
    c["policy.session_memory.enabled"] =>
        /\ Positive(c, "policy.session_memory.ttl_secs")
        /\ c["policy.session_memory.backend"] = "redis" =>
             c["policy.session_memory.redis_url"] \notin Absent

PolicyValid(c) ==
    Positive(c, "policy.decision_timeout_ms") /\ EngineValid(c) /\ SessionMemoryValid(c)

TlsValid(c) == c["tls.enabled"] => c["tls.cert"] # "" /\ c["tls.key"] # ""

\* AppConfig::validate
Valid(c) == ProxyValid(c) /\ AuditValid(c) /\ PolicyValid(c) /\ TlsValid(c)
-----------------------------------------------------------------------------
(* What is parsed later: the ruleset, addresses, files *)

\* tool_matchers: an exact name, a glob or a regex; "ok" when it compiles.
MatchersParse(names) == \A i \in DOMAIN names : names[i] = "ok"

\* One deny rule: scope and path are optional, of contains and matches exactly one
\* is given.
RuleParses(r) ==
    /\ r.tool \in Absent \cup {"ok"}
    /\ r.path \in Absent \cup {"ok"}
    /\ \/ r.contains = "ok" /\ r.matches = None
       \/ r.contains = None /\ r.matches = "ok"

\* policy_ruleset.  With AllowAll the tool names are not looked at.
RulesetBuilds(c) ==
    /\ c["policy.tools.mode"] # "AllowAll" => MatchersParse(c["policy.tools.names"])
    /\ \A key \in {"policy.tools.deny_arguments", "policy.tools.deny_results"} :
         \A i \in DOMAIN c[key] : RuleParses(c[key][i])
    /\ \A key \in {"policy.redact", "policy.redact_regex"} :
         \A i \in DOMAIN c[key] : c[key][i] = "ok"

\* `endpoint`: the address the exporter should listen on, if it should.
MetricsOn(c) == c["observability.metrics.enabled"] /\ c["observability.metrics.exporter"] # "none"
MetricsBuild(c) == MetricsOn(c) => c["observability.metrics.bind"] = "ok"

BindParses(c) == c["proxy.bind"] = "ok"
TlsLoads(c) == c["tls.enabled"] => c["tls.cert"] = "ok" /\ c["tls.key"] = "ok"

\* build_session_memory: the ledger for the configured backend can be made.
LedgerBuilds(c) ==
    c["policy.session_memory.enabled"] /\ c["policy.session_memory.backend"] = "redis"
        => "redis" \in Features /\ c["policy.session_memory.redis_url"] = "ok"
-----------------------------------------------------------------------------
(* The settings the contexts are given *)

\* accepted_api_keys: both forms of the option, blanks removed.
AcceptedApiKeys(c) == ({c["proxy.api_key"]} \cup c["proxy.api_keys"]) \ Absent

SessionMemoryConfig(c) ==
    IF c["policy.session_memory.enabled"]
    THEN [backend |-> c["policy.session_memory.backend"],
          ttl |-> c["policy.session_memory.ttl_secs"]]
    ELSE [backend |-> None, ttl |-> 0]

ProxyConfig(c) ==
    [timeouts |-> {c["proxy.connect_timeout_secs"], c["proxy.read_timeout_secs"]},
     body |-> c["proxy.max_body_bytes"],
     keys |-> AcceptedApiKeys(c),
     permits |-> c["proxy.max_concurrent_requests"],
     malformed |-> c["policy.on_malformed_event"],
     budget |-> [events |-> c["proxy.max_response_events"],
                 bytes |-> c["proxy.max_response_bytes"]],
     frame |-> c["proxy.max_frame_bytes"],
     rate |-> c["proxy.rate_limit_per_second"],
     burst |-> c["proxy.rate_limit_burst"],
     memory |-> SessionMemoryConfig(c)]

OutboxSettings(c) ==
    [capacity |-> c["audit.outbox_capacity"], onFull |-> c["audit.outbox_on_full"]]

\* The interval of checkpoint_settings; 0 is None, the scheduler is not started.
CheckpointPeriod(c) == c["audit.checkpoint_interval_secs"]

PoolConfig(c) ==
    [size |-> c["audit.max_connections"], retries |-> c["audit.connect_max_retries"],
     backoff |-> c["audit.connect_backoff_secs"]]

ServerSettings(c) ==
    [proxy |-> ProxyConfig(c), outbox |-> OutboxSettings(c), checkpoint |-> CheckpointPeriod(c),
     failMode |-> c["policy.fail_mode"], deadline |-> c["policy.decision_timeout_ms"]]
=============================================================================
