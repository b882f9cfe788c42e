------------------------------ MODULE UrlScreen ------------------------------
(***************************************************************************)
(* The structural half of the request leg: the body of a run request is    *)
(* parsed into the texts to inspect, and every URL in them is classified,  *)
(* its domain resolved and its addresses judged.  (What the policy, the    *)
(* session memory and the audit do with a request is in RequestLeg.)       *)
(*                                                                         *)
(* A JSON value is [t, text, items]: its type, the tokens of a string and  *)
(* the elements of an array or the fields of an object.  A token is a      *)
(* piece of text between separators, its URL already taken apart: the host *)
(* is a domain, as a sequence of labels, or an address, as 4 octets or 8   *)
(* segments, or nothing.                                                   *)
(***************************************************************************)
EXTENDS Naturals, Sequences, SequencesExt, FiniteSets

CONSTANTS Tokens,        \* pieces of text
          RunRequests,   \* request bodies
          MaxDepth,      \* the nesting serde_json accepts; a deeper body is broken
          Lookups        \* answers of the resolver: sequences of addresses

VARIABLES body,       \* the request
          texts,      \* tokens that are still to be screened
          resolving,  \* the domain whose lookup is awaited, or <<>>
          outcome,    \* of the request so far
          found       \* addresses the lookups have returned (history)

screenVars == <<body, texts, resolving, outcome, found>>

-----------------------------------------------------------------------------
(* parse_request *)

\* The values k levels inside v, for every k, and those at any level.
Inside(S) == UNION {Range(w.items) : w \in S}
Levels(v) ==
    LET Level[k \in 0..MaxDepth] == IF k = 0 THEN {v} ELSE Inside(Level[k - 1]) IN Level
Reachable(v) == UNION {Levels(v)[k] : k \in 0..MaxDepth}

\* collect_string_leaves
StringLeaves(v) ==
    LET Leaves[w \in Reachable(v)] ==
            IF w.t = "string" THEN <<w.text>>
            ELSE IF w.t \in {"array", "object"}
                 THEN FlattenSeq([i \in DOMAIN w.items |-> Leaves[w.items[i]]])
            ELSE <<>>
    IN  Leaves[v]

\* A message is inspected when its role says so; then its content has to be a string.
MessageMalformed(m) ==
    \/ m.role = "missing"
    \/ m.role \in {"user", "system"} /\ m.content.t # "string"

\* parse_messages, for one of the two roles
MessagesOf(role, b) ==
    FlattenSeq([i \in DOMAIN b.messages |->
                    IF b.messages[i].role = role THEN <<b.messages[i].content.text>> ELSE <<>>])

\* Neither an absent field nor an unknown role is an error.
MalformedRequest(b) ==
    \/ b.broken
    \/ \E i \in DOMAIN b.messages : MessageMalformed(b.messages[i])
    \/ \E i \in DOMAIN b.tools : b.tools[i] = "missing"

HiddenFields(b) ==
    MessagesOf("system", b)
    \o FlattenSeq([i \in DOMAIN b.hidden |-> StringLeaves(b.hidden[i])])

\* The texts in the order inspect_request screens them.
InspectedTexts(b) == MessagesOf("user", b) \o HiddenFields(b)

-----------------------------------------------------------------------------
(* Addresses *)

IsLoopbackV4(ip) == ip[1] = 127
IsPrivateV4(ip) ==
    ip[1] = 10 \/ (ip[1] = 172 /\ ip[2] \div 16 = 1) \/ (ip[1] = 192 /\ ip[2] = 168)
IsLinkLocalV4(ip) == ip[1] = 169 /\ ip[2] = 254

IsBlockedV4(ip) ==
    \/ IsLoopbackV4(ip) \/ IsPrivateV4(ip) \/ IsLinkLocalV4(ip)
    \/ ip = <<0, 0, 0, 0>> \/ ip = <<255, 255, 255, 255>>

\* A segment, from its two bytes.
U16(high, low) == high * 256 + low

IsMapped(ip) == SubSeq(ip, 1, 6) = <<0, 0, 0, 0, 0, U16(255, 255)>>
Mapped(ip) == <<ip[7] \div 256, ip[7] % 256, ip[8] \div 256, ip[8] % 256>>

\* A mask keeps the leading bits: 7 of them for fc00::/7, 10 for fe80::/10.
IsBlockedV6(ip) ==
    IF IsMapped(ip) THEN IsBlockedV4(Mapped(ip))
    ELSE \/ SubSeq(ip, 1, 7) = <<0, 0, 0, 0, 0, 0, 0>> /\ ip[8] \in {0, 1}
         \/ ip[1] \div 512 = U16(252, 0) \div 512
         \/ ip[1] \div 64 = U16(254, 128) \div 64

IsBlocked(ip) == IF Len(ip) = 4 THEN IsBlockedV4(ip) ELSE IsBlockedV6(ip)

-----------------------------------------------------------------------------
(* classify_url *)

BlockedDomain(domain) ==
    \/ Last(domain) = "localhost"
    \/ domain = <<"metadata", "google", "internal">>

UrlVerdict(token) ==
    IF ~token.parses THEN "Allowed"
    ELSE IF token.scheme \notin {"http", "https"} THEN "Blocked"
    ELSE IF token.host.domain # <<>>
         THEN IF BlockedDomain(token.host.domain) THEN "Blocked" ELSE "Resolve"
    ELSE IF token.host.ip # <<>> /\ IsBlocked(token.host.ip) THEN "Blocked"
    ELSE "Allowed"

-----------------------------------------------------------------------------
(* What a parser can return *)

Octet == 0..255
Segment == 0..U16(255, 255)
Address == [1..4 -> Octet] \cup [1..8 -> Segment]

\* A host is a domain or an address, not both.
IsToken(token) ==
    /\ token.url \in BOOLEAN /\ token.parses \in BOOLEAN
    /\ token.host.ip \in Address \cup {<<>>}
    /\ token.host.domain # <<>> => token.host.ip = <<>>

\* A value has a text if it is a string, and items if it is an array or an object.
IsJson(v) ==
    /\ v.text \in Seq(Tokens) /\ (v.t # "string" => v.text = <<>>)
    /\ v.items \in Seq(Range(v.items)) /\ (v.t \notin {"array", "object"} => v.items = <<>>)

IsRequest(b) ==
    /\ b.messages \in Seq(Range(b.messages)) /\ b.hidden \in Seq(Range(b.hidden))
    /\ \A m \in Range(b.messages) : IsJson(m.content)
    /\ \A h \in Range(b.hidden) :
         Inside(Levels(h)[MaxDepth]) = {} /\ \A v \in Reachable(h) : IsJson(v)

ASSUME ScreenAssumption ==
    /\ MaxDepth \in Nat
    /\ \A token \in Tokens : IsToken(token)
    /\ \A b \in RunRequests : IsRequest(b)
    /\ Lookups \subseteq Seq(Address)

-----------------------------------------------------------------------------
(* The steps: one token, or one answer of the resolver *)

ScreenInit ==
    /\ body \in RunRequests
    /\ texts = <<>> /\ resolving = <<>> /\ found = {}
    /\ outcome = "received"

ParseRequest ==
    /\ outcome = "received"
    /\ texts' = IF MalformedRequest(body) THEN <<>> ELSE FlattenSeq(InspectedTexts(body))
    /\ outcome' = IF MalformedRequest(body) THEN "malformed" ELSE "screening"
    /\ UNCHANGED <<body, resolving, found>>

\* first_disallowed_url up to its next await: tokens without "://" are not looked at.
ScreenToken ==
    /\ outcome = "screening" /\ resolving = <<>> /\ texts # <<>>
    /\ LET token == Head(texts)
           verdict == IF token.url THEN UrlVerdict(token) ELSE "Allowed"
       IN  /\ outcome' = IF verdict = "Blocked" THEN "rejected" ELSE "screening"
           /\ resolving' = IF verdict = "Resolve" THEN token.host.domain ELSE <<>>
    /\ texts' = Tail(texts)
    /\ UNCHANGED <<body, found>>

\* A slip: only the first address of the answer is judged.
ResolvedFirstOnly(ips) ==
    /\ resolving # <<>>
    /\ resolving' = <<>>
    /\ found' = found \cup Range(ips)
    /\ outcome' = IF ips # <<>> /\ IsBlocked(ips[1]) THEN "rejected" ELSE "screening"
    /\ UNCHANGED <<body, texts>>

\* The resolver answers.  A failure and a timeout are an answer without addresses.
Resolved(ips) ==
    /\ resolving # <<>>
    /\ resolving' = <<>>
    /\ found' = found \cup Range(ips)
    /\ outcome' = IF \E i \in DOMAIN ips : IsBlocked(ips[i]) THEN "rejected" ELSE "screening"
    /\ UNCHANGED <<body, texts>>

ScreenPasses ==
    /\ outcome = "screening" /\ resolving = <<>> /\ texts = <<>>
    /\ outcome' = "clear"
    /\ UNCHANGED <<body, texts, resolving, found>>

ScreenNext ==
    \/ ParseRequest \/ ScreenToken \/ ScreenPasses
    \/ \E ips \in Lookups : Resolved(ips)

ScreenSpec == ScreenInit /\ [][ScreenNext]_screenVars

-----------------------------------------------------------------------------
(* Reference: networks as ranges, leaves as paths *)

\* The high 16 bits of the networks a request may not name.
InternalV4 == U16(127, 0)..U16(127, 255) \cup U16(10, 0)..U16(10, 255)
              \cup U16(172, 16)..U16(172, 31) \cup {U16(192, 168), U16(169, 254)}
InternalV6 == U16(252, 0)..U16(253, 255) \cup U16(254, 128)..U16(254, 191)

InternalAddress(ip) ==
    LET v4(a) == U16(a[1], a[2]) \in InternalV4
                 \/ \E o \in {0, 255} : \A i \in 1..4 : a[i] = o
        zeros == Cardinality({i \in DOMAIN ip : ip[i] = 0})
    IN  IF Len(ip) = 4 THEN v4(ip)
        ELSE IF ip[6] = U16(255, 255) /\ \A i \in 1..5 : ip[i] = 0
             THEN v4(<<ip[7] \div 256, ip[7] % 256, ip[8] \div 256, ip[8] % 256>>)
             ELSE ip[1] \in InternalV6 \/ zeros = 8 \/ (zeros = 7 /\ ip[8] = 1)

\* What a token names without being resolved.
NamesInternal(token) ==
    /\ token.url /\ token.parses
    /\ \/ token.scheme \notin {"http", "https"}
       \/ token.host.ip # <<>> /\ InternalAddress(token.host.ip)
       \/ /\ token.host.domain # <<>>
          /\ \/ token.host.domain[Len(token.host.domain)] = "localhost"
             \/ token.host.domain = <<"metadata", "google", "internal">>

\* Everything that is to be inspected: the text of the user's and the system's messages,
\* and every string at any level of the hidden fields.
MessageTokens(b) ==
    UNION {Range(m.content.text) : m \in {n \in Range(b.messages) : n.role \in {"user", "system"}}}
HiddenTokens(b) ==
    UNION {UNION {Range(v.text) : v \in Reachable(h)} : h \in Range(b.hidden)}
InspectedTokens(b) == MessageTokens(b) \cup HiddenTokens(b)

\* A request gets past the screen exactly if nothing it carries, at any depth of its
\* hidden fields and in any message of the user or the system, names an internal
\* target, and none of the addresses the lookups returned is one: an answer is judged
\* whole, an early address does not excuse a later one, and a lookup that failed does
\* not stop the literal checks of the tokens after it.
InternalTargetsRefused ==
    LET internal == {token \in InspectedTokens(body) : NamesInternal(token)}
        bad == {ip \in found : InternalAddress(ip)}
    IN  /\ outcome = "clear" => internal = {} /\ bad = {}
        /\ outcome = "rejected" => internal # {} \/ bad # {}
        /\ outcome = "malformed" => found = {}
=============================================================================
