----------------------------- MODULE EventPolicy -----------------------------
(***************************************************************************)
(* One event of the agent's response on its way through the AG-UI mapper   *)
(* and the policy: wire event, fragment, agent event, decision of one of   *)
(* the three backends, verdict, and the wire event the client gets.  (How  *)
(* events are ordered, held and ended is in ResponseStream.)               *)
(*                                                                         *)
(* Texts are sequences of characters; "#" is the redaction mask in one     *)
(* piece.  A payload is [keys, leaf]: a text, wrapped in one JSON object   *)
(* per key.  Without keys it is not JSON.  A tool name is a text; the name *)
(* of a tool that is not known is NoName.                                  *)
(***************************************************************************)
EXTENDS Naturals, Sequences, SequencesExt, FiniteSets

CONSTANTS Policies,     \* what can be configured, see PolicyInit
          WireEvents,   \* events of the agent
          ToolCalls     \* tool calls, as the run assembles them from their fragments

VARIABLES policy,   \* the configured backend and its rules
          wire,     \* the event under inspection
          verdict   \* what became of it

policyVars == <<policy, wire, verdict>>

REDACTION_MASK == <<"#">>
NoName == <<>>
Pending == [kind |-> "pending"]

Raw(p) ==
    FlattenSeq([i \in DOMAIN p.keys |-> <<"{", p.keys[i], ":">>])
    \o p.leaf \o [i \in DOMAIN p.keys |-> "}"]

-----------------------------------------------------------------------------
(* The mapper.  A wire event has a type and fields; an absent field, or one *)
(* of another JSON type than the mapper asks for, is "missing".             *)

PATCH_OPS == {"add", "remove", "replace", "move", "copy", "test"}

\* The string fields an event of a type has to have; "id" is its message or tool call id.
RequiredFields(type) ==
    CASE type \in {"STEP_STARTED", "STEP_FINISHED"} -> {"stepName"}
      [] type \in {"TEXT_MESSAGE_CONTENT", "TEXT_MESSAGE_CHUNK"} -> {"id", "delta"}
      [] type = "TOOL_CALL_START" -> {"id", "toolCallName"}
      [] type = "TOOL_CALL_ARGS" -> {"id", "delta"}
      [] type = "TOOL_CALL_END" -> {"id"}
      [] type = "TOOL_CALL_RESULT" -> {"id", "content"}
      [] type = "STATE_SNAPSHOT" -> {"snapshot"}
      [] type = "STATE_DELTA" -> {"delta"}
      [] OTHER -> {}

KnownTypes == {"RUN_STARTED", "RUN_FINISHED", "RUN_ERROR", "STEP_STARTED", "STEP_FINISHED",
               "TEXT_MESSAGE_CONTENT", "TEXT_MESSAGE_CHUNK", "TOOL_CALL_START",
               "TOOL_CALL_ARGS", "TOOL_CALL_END", "TOOL_CALL_RESULT", "STATE_SNAPSHOT",
               "STATE_DELTA", "RAW", "CUSTOM", "REASONING_ENCRYPTED_VALUE"}

\* measure_delta refuses an operation without the operands RFC 6902 asks for.
OpMalformed(op) ==
    \/ op.op \notin PATCH_OPS \/ op.path = "missing"
    \/ op.op \in {"add", "replace", "test"} /\ op.value = "missing"
    \/ op.op \in {"move", "copy"} /\ op.from = "missing"

\* An AgUiError, whichever.
MalformedEvent(w) ==
    \/ w.type = "missing"
    \/ /\ w.type \in KnownTypes
       /\ \/ RequiredFields(w.type) \cap w.missing # {}
          \/ "id" \in RequiredFields(w.type) /\ w.id = "blank"
          \/ w.type = "STATE_DELTA" /\ \E i \in DOMAIN w.ops : OpMalformed(w.ops[i])

\* The fragment, as the agent event the run makes of it; `tool` is the name the run
\* knows for the call a result answers.
ToAgentEvent(w) ==
    [kind |-> CASE w.type \in {"TEXT_MESSAGE_CONTENT", "TEXT_MESSAGE_CHUNK"} -> "MessageChunk"
                [] w.type = "TOOL_CALL_RESULT" -> "ToolResult"
                [] w.type = "TOOL_CALL" -> "ToolCall"
                [] w.type \in {"STATE_SNAPSHOT", "STATE_DELTA"} -> "StateMutation"
                [] w.type \in {"RAW", "CUSTOM", "REASONING_ENCRYPTED_VALUE"} -> "Opaque"
                [] OTHER -> "Lifecycle",
     id |-> w.id, tool |-> w.tool, payload |-> w.payload]

\* to_event: both forms of assistant text come back as the same one.
ToEvent(e) ==
    [type |-> IF e.kind = "MessageChunk" THEN "TEXT_MESSAGE_CONTENT" ELSE "TOOL_CALL_RESULT",
     id |-> e.id, payload |-> e.payload]

-----------------------------------------------------------------------------
(* Patterns *)

Lower(text) == [i \in DOMAIN text |-> IF text[i] = "A" THEN "a" ELSE text[i]]

OccursAt(needle, text, i) ==
    i + Len(needle) <= Len(text) + 1 /\ SubSeq(text, i, i + Len(needle) - 1) = needle
Occurs(needle, text) == \E i \in DOMAIN text : OccursAt(needle, text, i)

\* What the pattern compares: a literal ignores ASCII case; the regular expressions of
\* an instance are plain words, which do not.
Folded(pattern, text) == IF pattern.kind = "literal" THEN Lower(text) ELSE text

PatternMatches(pattern, text) ==
    Occurs(Folded(pattern, pattern.needle), Folded(pattern, text))

RECURSIVE MaskFrom(_, _, _)

\* mask_literal and replace_all: occurrences from left to right, each after the end of
\* the one before; what is between them is copied from the text as it was.
MaskFrom(pattern, text, cursor) ==
    LET needle == Folded(pattern, pattern.needle)
        at == {i \in cursor..Len(text) : OccursAt(needle, Folded(pattern, text), i)}
        start == CHOOSE i \in at : \A j \in at : i <= j
    IN  IF at = {} THEN SubSeq(text, cursor, Len(text))
        ELSE SubSeq(text, cursor, start - 1) \o REDACTION_MASK
             \o MaskFrom(pattern, text, start + Len(needle))

Mask(pattern, text) == MaskFrom(pattern, text, 1)

Detects(patterns, text) == \E i \in DOMAIN patterns : PatternMatches(patterns[i], text)

Allow == [effect |-> "Allow"]
DenyIt == [effect |-> "Deny"]
RedactText(text) == [effect |-> "Redact", text |-> text]

\* A slip: every pattern masks the text as it came, and the last one that hits wins.
RedactEach(patterns, text) ==
    IF Detects(patterns, text)
    THEN RedactText(FoldLeft(LAMBDA t, p : IF PatternMatches(p, text) THEN Mask(p, text) ELSE t,
                             text, patterns))
    ELSE Allow

\* TextRedactor::redact: every pattern masks what the ones before it have left.
Redact(patterns, text) ==
    LET step(r, p) == [text |-> Mask(p, r.text), hit |-> r.hit \/ PatternMatches(p, r.text)]
        masked == FoldLeft(step, [text |-> text, hit |-> FALSE], patterns)
    IN  IF masked.hit THEN RedactText(masked.text) ELSE Allow

-----------------------------------------------------------------------------
(* Tools: names, globs and anchored regular expressions *)

\* glob_to_regex; every other character is escaped.
GlobToRegex(glob) ==
    [i \in DOMAIN glob |-> CASE glob[i] = "*" -> ".*" [] glob[i] = "?" -> "." [] OTHER -> glob[i]]

RECURSIVE RegexMatches(_, _)

\* The regex engine, for the expressions above between ^ and $.
RegexMatches(re, s) ==
    IF re = <<>> THEN s = <<>>
    ELSE \/ re[1] = ".*" /\ RegexMatches(Tail(re), s)
         \/ /\ s # <<>> /\ re[1] \in {".", ".*", s[1]}
            /\ RegexMatches(IF re[1] = ".*" THEN re ELSE Tail(re), Tail(s))

ToolMatches(matcher, name) ==
    CASE matcher.kind = "exact" -> matcher.source = name
      [] matcher.kind = "glob" -> RegexMatches(GlobToRegex(matcher.source), name)
      [] matcher.kind = "regex" -> RegexMatches(matcher.source, name)

IsAscii(name) == \A i \in DOMAIN name : name[i] # "non-ASCII"

\* ToolPolicy::permits
Permits(tools, name) ==
    LET listed == \E i \in DOMAIN tools.matchers : ToolMatches(tools.matchers[i], name)
    IN  CASE tools.mode = "AllowAll" -> TRUE
          [] tools.mode = "Allowlist" -> listed
          [] tools.mode = "Denylist" -> IsAscii(name) /\ ~listed

-----------------------------------------------------------------------------
(* Rules on arguments and results: [tool, path, marker] *)

\* JsonPath::get_text, as a sequence of at most one text.
AtPath(p, path) ==
    IF IsPrefix(path, p.keys)
    THEN <<Raw([p EXCEPT !.keys = SubSeq(p.keys, Len(path) + 1, Len(p.keys))])>>
    ELSE <<>>

\* ContentMatch::matches.  A rule for one tool does not fire on a payload whose tool is
\* not known, a rule with a path not on one that is not JSON.
ContentMatches(rule, name, p) ==
    /\ rule.tool # NoName => name = rule.tool
    /\ IF rule.path = <<>> THEN PatternMatches(rule.marker, Raw(p))
       ELSE \E i \in DOMAIN AtPath(p, rule.path) :
              PatternMatches(rule.marker, AtPath(p, rule.path)[i])

\* ArgumentInspector and ResultInspector
RuleFires(rules, name, p) == \E i \in DOMAIN rules : ContentMatches(rules[i], name, p)

\* PolicyEvaluator::evaluate
Evaluate(rules, e) ==
    CASE e.kind = "ToolCall" ->
           IF Permits(rules.tools, e.tool) /\ ~RuleFires(rules.arguments, e.tool, e.payload)
           THEN Allow ELSE DenyIt
      [] e.kind = "ToolResult" ->
           IF RuleFires(rules.results, e.tool, e.payload) THEN DenyIt
           ELSE Redact(rules.secrets, Raw(e.payload))
      [] e.kind = "MessageChunk" -> Redact(rules.secrets, Raw(e.payload))
      [] e.kind = "StateMutation" ->
           IF Detects(rules.secrets, Raw(e.payload)) THEN DenyIt ELSE Allow
      [] OTHER -> Allow

-----------------------------------------------------------------------------
(* The engines *)

\* CelPolicyAdapter::evaluate.  `when` is what the condition of a rule comes to for
\* this kind of event: true, false, another value, an error.  The first rule that is
\* true decides.
CelEvaluate(rules, e) ==
    LET holds(i) == rules[i].when[e.kind] = "true"
        matched == {i \in DOMAIN rules : holds(i)}
        rule == rules[CHOOSE i \in matched : \A j \in matched : i <= j]
    IN  CASE matched = {} -> Allow
          [] rule.effect = "allow" -> Allow
          [] rule.effect = "deny" -> DenyIt
          [] rule.effect = "redact" ->
               RedactText(IF rule.replacement = <<>> THEN REDACTION_MASK ELSE rule.replacement)

\* RegoPolicyAdapter::evaluate and to_decision.  An effect that is missing or not known,
\* and a decision that is no object, deny.
RegoEvaluate(decision) ==
    CASE decision.effect \in {"undefined", "allow"} -> Allow
      [] decision.effect = "redact" ->
           RedactText(IF decision.replacement = <<>> THEN REDACTION_MASK
                      ELSE decision.replacement)
      [] OTHER -> DenyIt

\* lift_decision: only assistant text and results can be rewritten.
LiftDecision(e, d) ==
    CASE d.effect = "Allow" -> [kind |-> "Allow", event |-> e]
      [] d.effect = "Deny" -> [kind |-> "Deny", event |-> e]
      [] d.effect = "Redact" ->
           IF e.kind \in {"MessageChunk", "ToolResult"}
           THEN [kind |-> "Transform",
                 event |-> [e EXCEPT !.payload = [keys |-> <<>>, leaf |-> d.text]]]
           ELSE [kind |-> "Deny", event |-> e]

\* PolicyPort::decide of the three adapters.  An engine that panics, or cannot be given
\* the event, denies.
Decides(p, e, faulty) ==
    LiftDecision(e, CASE p.backend = "ruleset" -> Evaluate(p, e)
                      [] faulty -> DenyIt
                      [] p.backend = "cel" -> CelEvaluate(p.cel, e)
                      [] p.backend = "rego" -> RegoEvaluate(p.rego[e.kind]))

-----------------------------------------------------------------------------
(* The steps *)

PolicyInit ==
    /\ policy \in Policies
    /\ wire \in WireEvents \cup ToolCalls
    /\ verdict = Pending

\* An event of a type the mapper does not know is relayed without a verdict; a broken
\* one is handled by the stream.
NotMapped ==
    /\ verdict = Pending /\ wire \in WireEvents
    /\ \/ MalformedEvent(wire) /\ verdict' = [kind |-> "Malformed"]
       \/ wire.type \notin KnownTypes \cup {"missing"} /\ verdict' = [kind |-> "Unknown"]
    /\ UNCHANGED <<policy, wire>>

JudgeEvent ==
    /\ verdict = Pending
    /\ wire \in ToolCalls \/ (wire.type \in KnownTypes /\ ~MalformedEvent(wire))
    /\ \E faulty \in {FALSE, policy.backend # "ruleset"} :
         verdict' = Decides(policy, ToAgentEvent(wire), faulty)
    /\ UNCHANGED <<policy, wire>>

PolicyNext == NotMapped \/ JudgeEvent

-----------------------------------------------------------------------------
(* Reference: occurrences by position, names by a division into pieces *)

Same(pattern, x, y) == x = y \/ (pattern.kind = "literal" /\ {x, y} = {"a", "A"})

\* The positions of a text that lie in an occurrence of a pattern.
Covered(patterns, text) ==
    UNION {i..(i + Len(p.needle) - 1) : <<p, i>> \in
        {<<p, i>> \in Range(patterns) \X DOMAIN text :
            \A j \in DOMAIN p.needle :
                i + j - 1 \in DOMAIN text /\ Same(p, p.needle[j], text[i + j - 1])}}

\* A name matches if it can be cut into one piece per element of the expression.
Divides(source, star, one, name) ==
    \E cut \in [0..Len(source) -> 0..Len(name)] :
        /\ cut[0] = 0 /\ cut[Len(source)] = Len(name)
        /\ \A i \in DOMAIN source :
             CASE source[i] = star -> cut[i - 1] <= cut[i]
               [] source[i] = one -> cut[i] = cut[i - 1] + 1
               [] OTHER -> cut[i] = cut[i - 1] + 1 /\ name[cut[i]] = source[i]

Listed(tools, name) ==
    \E m \in Range(tools.matchers) :
        CASE m.kind = "exact" -> m.source = name
          [] m.kind = "glob" -> Divides(m.source, "*", "?", name)
          [] m.kind = "regex" -> Divides(m.source, ".*", ".", name)

Forbidden(rules, e) ==
    \E r \in Range(rules) :
        /\ r.tool \in {NoName, e.tool}
        /\ Len(r.path) <= Len(e.payload.keys)
        /\ \A i \in DOMAIN r.path : r.path[i] = e.payload.keys[i]
        /\ LET n == Len(r.path)
           IN  Covered(<<r.marker>>, Raw([e.payload EXCEPT !.keys = SubSeq(@, n + 1, Len(@))])) # {}

\* The text without its masks is the original without some of its secrets.
OnlySecretsMasked(patterns, text, masked) ==
    LET letter(c) == c \notin Range(REDACTION_MASK)
        rest == SelectSeq(masked, letter)
    IN  \E kept \in SUBSET DOMAIN text :
          /\ DOMAIN text \ kept \subseteq Covered(patterns, text)
          /\ rest = [i \in 1..Cardinality(kept) |->
                        text[CHOOSE k \in kept : Cardinality({j \in kept : j <= k}) = i]]

\* A verdict of the ruleset has its cause and nothing else: a call is denied exactly if
\* its name is not permitted or a rule fires; a text or result that gets to the client
\* holds no secret in any spelling, has lost nothing but secrets, and is untouched if
\* it had none; a state mutation with a secret, which cannot be masked, is denied.
\* Whatever the backend, only texts and results are ever rewritten, and they keep their
\* identity.
VerdictExplained ==
    verdict.kind \in {"Allow", "Deny", "Transform"} =>
        LET e == ToAgentEvent(wire)
            text == Raw(e.payload)
            sent == Raw(verdict.event.payload)
            secret == Covered(policy.secrets, text) # {}
            listed == Listed(policy.tools, e.tool)
            denied == verdict.kind = "Deny"
        IN  /\ verdict.kind = "Transform" =>
                 /\ e.kind \in {"MessageChunk", "ToolResult"}
                 /\ ToEvent(verdict.event).id = wire.id /\ verdict.event.tool = e.tool
            /\ policy.backend = "ruleset" =>
                 CASE e.kind = "ToolCall" ->
                        denied <=> \/ Forbidden(policy.arguments, e)
                                   \/ policy.tools.mode = "Allowlist" /\ ~listed
                                   \/ policy.tools.mode = "Denylist" /\ listed
                                   \/ policy.tools.mode = "Denylist" /\ "non-ASCII" \in Range(e.tool)
                   [] e.kind = "StateMutation" -> denied <=> secret
                   [] e.kind \in {"MessageChunk", "ToolResult"} ->
                        /\ denied <=> e.kind = "ToolResult" /\ Forbidden(policy.results, e)
                        /\ ~denied => /\ Covered(policy.secrets, sent) = {}
                                      /\ (sent = text) <=> ~secret
                                      /\ OnlySecretsMasked(policy.secrets, text, sent)
                   [] OTHER -> verdict.kind = "Allow"
=============================================================================
