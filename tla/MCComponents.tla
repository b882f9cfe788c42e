---------------------------- MODULE MCComponents ----------------------------
(***************************************************************************)
(* Model checking of the parts that do not share state: a behaviour is     *)
(* about one of them, its subject, and the others stay as they start.      *)
(***************************************************************************)
EXTENDS AuditApi, CryptoUse, SseDecoder, UrlScreen, EventPolicy, TLC

VARIABLE subject

vars == <<subject, apiVars, cryptoVars, sseVars, screenVars, policyVars>>

-----------------------------------------------------------------------------
(* Audit API: the seed in the environment, good and cut short *)

MCSeeds == {[hex |-> TRUE, len |-> 64], [hex |-> TRUE, len |-> 63]}

Symmetry == Permutations(Client) \cup Permutations(LogIds)

(* Cryptography: two keys of the right length and a short one; nonces of both lengths, *)
(* the top bit set or not *)

MCKeys == {[id |-> "k1", len |-> 32], [id |-> "k2", len |-> 32], [id |-> "k3", len |-> 16]}
MCNonces == {[id |-> "n1", len |-> 12, top |-> FALSE], [id |-> "n2", len |-> 16, top |-> FALSE],
             [id |-> "n3", len |-> 16, top |-> TRUE], [id |-> "n4", len |-> 8, top |-> FALSE]}

-----------------------------------------------------------------------------
(* Request bodies *)

Host(domain, ip) == [domain |-> domain, ip |-> ip]
Url(scheme, host) == [url |-> TRUE, parses |-> TRUE, scheme |-> scheme, host |-> host]
V6(first, last) == <<first, 0, 0, 0, 0, 0, 0, last>>
Word == [url |-> FALSE, parses |-> TRUE, scheme |-> "file", host |-> Host(<<>>, <<>>)]

\* Addresses on both sides of every border.
MCAddresses ==
    {<<10, 0, 0, 1>>, <<11, 0, 0, 0>>, <<127, 1, 2, 3>>, <<128, 0, 0, 1>>, <<169, 254, 169, 254>>,
     <<169, 253, 0, 1>>, <<172, 15, 0, 1>>, <<172, 16, 0, 1>>, <<172, 31, 0, 1>>,
     <<172, 32, 0, 1>>, <<192, 168, 0, 1>>, <<192, 169, 0, 1>>, <<0, 0, 0, 0>>, <<0, 0, 0, 1>>,
     <<255, 255, 255, 255>>}
    \cup {V6(first, 1) : first \in {0, 64511, 64512, 65023, 65024, 65151, 65152, 65215, 65216}}
    \cup {V6(0, 0), V6(0, 2)}
    \cup {<<0, 0, 0, 0, 0, 65535, seg, 1>> : seg \in {127 * 256, 128 * 256, 172 * 256 + 31}}

MCTokens ==
    {Word, [Word EXCEPT !.url = TRUE, !.parses = FALSE], Url("ftp", Host(<<"example", "com">>, <<>>)),
     Url("http", Host(<<>>, <<>>))}
    \cup {Url("https", Host(d, <<>>)) : d \in
            {<<"localhost">>, <<"x", "localhost">>, <<"localhost", "com">>,
             <<"metadata", "google", "internal">>, <<"google", "internal">>}}
    \cup {Url("http", Host(<<>>, ip)) : ip \in MCAddresses}

MCLookups == {<<>>} \cup {<<ip>> : ip \in MCAddresses}
             \cup {<<<<11, 0, 0, 0>>, V6(65152, 1)>>, <<V6(65152, 1), <<11, 0, 0, 0>>>>}

Json(t, text, items) == [t |-> t, text |-> text, items |-> items]
Str(tokens) == Json("string", tokens, <<>>)
Message(role, content) == [role |-> role, content |-> content]
Body(messages, tools, hidden) ==
    [broken |-> FALSE, messages |-> messages, tools |-> tools, hidden |-> hidden]
Domain == Url("http", Host(<<"example", "com">>, <<>>))

MCAllTokens == MCTokens \cup {Domain}
MCRequests ==
    {Body(<<Message(role, Str(<<Word, token>>))>>, <<"search">>, <<>>) :
        role \in {"user", "system", "assistant"}, token \in MCTokens}
    \cup {Body(<<Message("user", Str(<<Domain, Word>>))>>, <<>>,
               <<Json("object", <<>>, <<Json("number", <<>>, <<>>),
                                        Json("array", <<>>, <<Str(<<>>), Str(<<token>>)>>)>>)>>) :
              token \in MCTokens}
    \cup {Body(<<>>, <<>>, <<Str(<<Domain, Domain>>)>>), Body(<<>>, <<"missing">>, <<Str(<<Domain>>)>>),
          Body(<<Message("missing", Str(<<Word>>))>>, <<>>, <<>>),
          Body(<<Message("user", Json("array", <<>>, <<Str(<<Word>>)>>))>>, <<>>, <<>>),
          [Body(<<>>, <<>>, <<>>) EXCEPT !.broken = TRUE]}

-----------------------------------------------------------------------------
(* Events and policies *)

Strings(S, n) == UNION {[1..k -> S] : k \in 0..n}
Plain(text) == [keys |-> <<>>, leaf |-> text]
Payloads == {Plain(text) : text \in Strings({"a", "A", "b"}, 3)}
            \cup {[keys |-> keys, leaf |-> leaf] :
                     keys \in {<<"a">>, <<"b", "a">>}, leaf \in Strings({"a", "b"}, 2)}

Wire(type, id, tool, payload) ==
    [type |-> type, id |-> id, missing |-> {}, tool |-> tool, payload |-> payload, ops |-> <<>>]
Op(op, path, value, from) == [op |-> op, path |-> path, value |-> value, from |-> from]
Delta(op) == [Wire("STATE_DELTA", "none", NoName, Plain(<<"b">>)) EXCEPT !.ops = <<op>>]

MCToolCalls ==
    {Wire("TOOL_CALL", "c1", tool, payload) :
        tool \in Strings({"a", "b"}, 3) \ {NoName}, payload \in {Plain(<<"b">>), Plain(<<"b", "A">>)}}
    \cup {Wire("TOOL_CALL", "c1", tool, payload) : tool \in {<<"a">>, <<"non-ASCII">>}, payload \in Payloads}

MCWireEvents ==
    {Wire(type, "m1", NoName, payload) :
        type \in {"TEXT_MESSAGE_CHUNK", "STATE_SNAPSHOT"}, payload \in Payloads}
    \cup {Wire(type, "m1", NoName, Plain(<<"a">>)) : type \in KnownTypes \cup {"UNHEARD_OF", "missing"}}
    \cup {Wire("TOOL_CALL_RESULT", "c1", tool, payload) :
             tool \in {NoName, <<"a">>}, payload \in Payloads}
    \cup {Wire(type, "blank", NoName, Plain(<<"a">>)) : type \in KnownTypes}
    \cup {[Wire(type, "m1", NoName, Plain(<<"a">>)) EXCEPT !.missing = {field}] :
             type \in KnownTypes, field \in {"id", "delta", "content"}}
    \cup {Delta(Op(op, "p", value, from)) :
             op \in PATCH_OPS \cup {"upsert"}, value, from \in {"missing", "p"}}

Literal(needle) == [kind |-> "literal", needle |-> needle]
Regex(needle) == [kind |-> "regex", needle |-> needle]
Patterns == {Literal(<<"a">>), Literal(<<"a", "B">>), Literal(<<"A", "b">>), Literal(<<"b", "a">>),
             Regex(<<"A">>), Regex(<<"b", "b">>)}
Rules == {[tool |-> tool, path |-> path, marker |-> marker] :
             tool \in {NoName, <<"a">>}, path \in {<<>>, <<"a">>, <<"b">>, <<"b", "a">>},
             marker \in {Literal(<<"A", "b">>), Regex(<<"b">>)}}
Matchers == {[kind |-> "exact", source |-> <<"a">>]}
            \cup {[kind |-> "glob", source |-> g] : g \in Strings({"a", "*", "?"}, 2) \ {<<>>}}
            \cup {[kind |-> "regex", source |-> r] : r \in {<<"a", ".">>, <<".*", "b", ".*">>}}

Effects == {"allow", "deny", "redact", "unheard of", "undefined", "no object"}
EventKinds == {"ToolCall", "ToolResult", "MessageChunk", "StateMutation", "Opaque", "Lifecycle"}
CelRule(when, effect, replacement) ==
    [when |-> [k \in EventKinds |-> when], effect |-> effect, replacement |-> replacement]
CelRules == {CelRule(when, effect, replacement) :
                when \in {"true", "false", "error", "no boolean"},
                effect \in {"allow", "deny", "redact"}, replacement \in {<<>>, <<"b">>}}

AllowsAll ==
    [backend |-> "ruleset", tools |-> [mode |-> "AllowAll", matchers |-> <<>>], arguments |-> <<>>,
     results |-> <<>>, secrets |-> <<>>, cel |-> <<>>,
     rego |-> [k \in EventKinds |-> [effect |-> "undefined", replacement |-> <<>>]]]

MCPolicies ==
    {[AllowsAll EXCEPT !.secrets = s] : s \in Strings(Patterns, 2)}
    \cup {[AllowsAll EXCEPT !.arguments = <<r>>, !.results = <<r>>, !.secrets = <<Literal(<<"a">>)>>] :
             r \in Rules}
    \cup {[AllowsAll EXCEPT !.tools = [mode |-> mode, matchers |-> <<m>>]] :
             mode \in {"Allowlist", "Denylist"}, m \in Matchers}
    \cup {[AllowsAll EXCEPT !.backend = "cel", !.cel = <<r, CelRule("true", "deny", <<>>)>>] :
             r \in CelRules}
    \cup {[AllowsAll EXCEPT !.backend = "rego",
                            !.rego = [k \in EventKinds |-> [effect |-> e, replacement |-> r]]] :
             e \in Effects, r \in {<<>>, <<"b">>}}

-----------------------------------------------------------------------------
(* One subject at a time *)

OneOf(S) == CHOOSE x \in S : TRUE

ApiIdle ==
    /\ logs = <<>> /\ leaves = <<>> /\ anchored = {} /\ heads = {} /\ seed = OneOf(Seeds)
    /\ call = [c \in Client |-> NoCall] /\ count = [appended |-> 0, dropped |-> 0, stored |-> 0]
ScreenIdle ==
    body = OneOf(RunRequests) /\ texts = <<>> /\ resolving = <<>> /\ outcome = "received" /\ found = {}
PolicyIdle == policy = AllowsAll /\ wire = OneOf(WireEvents) /\ verdict = Pending

Init ==
    /\ subject \in {"api", "crypto", "sse", "screen", "policy"}
    /\ CryptoInit /\ SseInit
    /\ IF subject = "api" THEN ApiInit ELSE ApiIdle
    /\ IF subject = "screen" THEN ScreenInit ELSE ScreenIdle
    /\ IF subject = "policy" THEN PolicyInit ELSE PolicyIdle

Next ==
    /\ UNCHANGED subject
    /\ \/ subject = "api" /\ ApiNext /\ UNCHANGED <<cryptoVars, sseVars, screenVars, policyVars>>
       \/ subject = "crypto" /\ CryptoNext /\ UNCHANGED <<apiVars, sseVars, screenVars, policyVars>>
       \/ subject = "sse" /\ SseNext /\ UNCHANGED <<apiVars, cryptoVars, screenVars, policyVars>>
       \/ subject = "screen" /\ ScreenNext /\ UNCHANGED <<apiVars, cryptoVars, sseVars, policyVars>>
       \/ subject = "policy" /\ PolicyNext /\ UNCHANGED <<apiVars, cryptoVars, sseVars, screenVars>>

Spec == Init /\ [][Next]_vars
=============================================================================
