------------------------------ MODULE MCServer ------------------------------
(***************************************************************************)
(* Small instances of Server: a sound file, spoilt by one option in the    *)
(* file or in the environment, or spoilt in the file and repaired by the   *)
(* environment.                                                            *)
(***************************************************************************)
EXTENDS Server

NoOverride == [k \in {} |-> 0]
Base ==
    ("proxy.agent_endpoint" :> "ok") @@ ("audit.database_url" :> "ok")
    @@ ("audit.connect_max_retries" :> 1)

Zeroable ==
    {"proxy.max_body_bytes", "proxy.connect_timeout_secs", "proxy.read_timeout_secs",
     "proxy.max_concurrent_requests", "proxy.max_frame_bytes", "audit.max_connections",
     "audit.acquire_timeout_secs", "audit.connect_backoff_secs", "audit.outbox_capacity",
     "policy.decision_timeout_ms"}
Rule(t, p, c, m) == [tool |-> t, path |-> p, contains |-> c, matches |-> m]

Cel == ("policy.backend" :> "cel") @@ ("policy.cel.policy_path" :> "ok")
Rego == ("policy.backend" :> "rego") @@ ("policy.rego.policy_path" :> "ok")
Memory(b, url, ttl) ==
    ("policy.session_memory.enabled" :> TRUE) @@ ("policy.session_memory.backend" :> b)
    @@ ("policy.session_memory.redis_url" :> url) @@ ("policy.session_memory.ttl_secs" :> ttl)
Tls(c, k) == ("tls.enabled" :> TRUE) @@ ("tls.cert" :> c) @@ ("tls.key" :> k)

Flaws ==
    {(k :> 0) : k \in Zeroable}
    \cup {(k :> "") : k \in {"proxy.agent_endpoint", "audit.database_url"}}
    \cup {(k :> "other") : k \in {"policy.fail_mode", "policy.session_memory.backend"}}
    \cup {("proxy.rate_limit_burst" :> 5), ("proxy.bind" :> "bad"),
          ("policy.backend" :> "cel"), Cel @@ ("policy.cel.max_rules" :> 0),
          ("policy.backend" :> "rego"), ("observability.metrics.enabled" :> TRUE) @@ ("observability.metrics.bind" :> "bad"),
          ("policy.redact_regex" :> <<"bad">>),
          ("policy.tools.mode" :> "Denylist") @@ ("policy.tools.names" :> <<"ok", "bad">>),
          ("policy.tools.deny_results" :> <<Rule("ok", "", "ok", "ok")>>),
          ("policy.tools.deny_arguments" :> <<Rule(None, "bad", "ok", None)>>),
          Tls("ok", ""), Tls("ok", "bad"),
          Memory("memory", None, 0), Memory("redis", "", 60), Memory("redis", "bad", 60)}

Variants ==
    {NoOverride, ("proxy.api_kye" :> "ok"), Memory("redis", "ok", 60) @@ Tls("ok", "ok"),
     ("proxy.api_keys" :> {"", "ok"}) @@ ("proxy.rate_limit_per_second" :> 3)
       @@ ("policy.tools.names" :> <<"bad">>) @@ ("observability.metrics.enabled" :> TRUE)
       @@ ("policy.tools.deny_results" :> <<Rule("", None, None, "ok")>>)}
Engines ==
    {Cel, Cel @@ ("policy.cel.watch" :> TRUE), Rego @@ ("policy.rego.watch" :> TRUE)}

Repair(o) == [k \in DOMAIN o \cap AppConfig |-> (Base @@ Defaults)[k]]
Layer(file, env) == [file |-> file @@ Base, env |-> env, pinned |-> None]
AllLayers ==
    {Layer(NoOverride, o) : o \in Flaws \cup Variants \cup Engines}
    \cup {Layer(o, NoOverride) : o \in Flaws}
    \cup {Layer(o, Repair(o)) : o \in Flaws}
    \cup {[Layer(NoOverride, o) EXCEPT !.pinned = p] :
             o \in Variants \cup {Tls("ok", "bad")}, p \in {"ok", "bad"}}
LedgerLayers == {Layer(NoOverride, Memory("redis", "bad", 60))}
=============================================================================
