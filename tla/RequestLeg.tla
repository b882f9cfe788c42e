------------------------------ MODULE RequestLeg ------------------------------
(***************************************************************************)
(* The requests of one proxy: the ingress guards of the router, the        *)
(* request leg of the Inspector, its judgement of streamed events, and the *)
(* session memory that carries a denial from one run to the next.          *)
(*                                                                         *)
(* An action is the code between two awaits.  A slot of Req is one         *)
(* connection: once its request is over, it may carry another.  What a     *)
(* request asks to be judged is a sequence of items: offered tools first,  *)
(* then texts; an item that carries a URL may or may not resolve to a      *)
(* blocked address.                                                        *)
(***************************************************************************)
EXTENDS Integers, Sequences, FiniteSets

CONSTANTS Req,        \* connections
          Session,    \* sessions (threadId)
          Tool,       \* tool names
          NoTool,     \* an item that is not a tool call
          Content,    \* what a request may offer: sequences of items
          Streamed,   \* what a run may stream: items
          Verdicts,   \* what the policy may answer
          Settings,   \* the configurations a proxy may start with
          Ttl,        \* the session memory's time-to-live, in ticks
          Cooldown,   \* CONNECT_COOLDOWN, in ticks
          MaxFaults   \* bound: failing Redis commands

Item == [kind : {"tool"}, tool : Tool, url : {"clean", "url"}]
        \cup [kind : {"text"}, tool : {NoTool}, url : {"clean", "url"}]
Verdict == {"Allow", "Deny", "Transform", "Terminate"}
Reason == {"Deny", "Transform", "Terminate", "Url"}

NoReason == "none"
Never == -1

ASSUME ContentAssumption == Content \subseteq Seq(Item) /\ Streamed \subseteq Item
ASSUME ToolAssumption == NoTool \notin Tool
ASSUME SlotsAssumption == IsFiniteSet(Req) /\ Session # {}
ASSUME SettingsAssumption ==
    Settings \subseteq [backend : {"noop", "memory", "redis"},
                        permits : Nat, failMode : {"Open", "Closed"}]
ASSUME VerdictsAssumption == Verdicts \subseteq Verdict
ASSUME BoundsAssumption ==
    Ttl \in Nat \ {0} /\ Cooldown \in Nat \ {0} /\ MaxFaults \in Nat

VARIABLES cfg,       \* the settings the proxy runs with
          permits,   \* free permits of the semaphore
          pc,        \* where each request is
          session,   \* the session its body named
          todo,      \* the items it still has to judge, the current one first
          leg,       \* "request" or "response"
          verdict,   \* the verdict being recorded
          reason,    \* its reason
          left,      \* ticks until the ledger of a session lapses, or Never
          denied,    \* the ledger: the reason each tool was first denied for
          conn,      \* the Redis connection: "none" or "up"
          cooling,   \* ticks until cooldown_until
          faults,    \* Redis commands that have failed
          audit,     \* denials of tools recorded: <<session, tool, reason>>
          idle,      \* history: ticks since a session was last active, at most Ttl
          known,     \* history: tools a session must still refuse
          torn       \* history: sessions with a write cut short

memVars == <<left, denied, conn, cooling, faults, idle, known, torn>>
reqVars == <<pc, session, todo, leg, verdict, reason>>
vars == <<cfg, permits, reqVars, memVars, audit>>

Empty == [t \in Tool |-> NoReason]

Init ==
    /\ cfg \in Settings
    /\ permits = cfg.permits
    /\ pc = [r \in Req |-> "idle"]
    /\ session = [r \in Req |-> CHOOSE s \in Session : TRUE]
    /\ todo = [r \in Req |-> <<>>]
    /\ leg = [r \in Req |-> "request"]
    /\ verdict = [r \in Req |-> "Allow"]
    /\ reason = [r \in Req |-> NoReason]
    /\ left = [s \in Session |-> 0]
    /\ denied = [s \in Session |-> Empty]
    /\ conn = "none" /\ cooling = 0 /\ faults = 0
    /\ audit = {}
    /\ idle = [s \in Session |-> Ttl]
    /\ known = [s \in Session |-> {}]
    /\ torn = {}

-----------------------------------------------------------------------------
(* Time *)

\* Redis drops a hash as it lapses; the in-memory map keeps its ledger until a
\* recall or the pruner meets it.
Evicted(s) == cfg.backend = "redis" /\ left[s] = 1

Less(n) == IF n > 0 THEN n - 1 ELSE n

\* Time passes.
Tick ==
    /\ left' = [s \in Session |-> Less(left[s])]
    /\ denied' = [s \in Session |-> IF Evicted(s) THEN Empty ELSE denied[s]]
    /\ cooling' = Less(cooling)
    /\ idle' = [s \in Session |-> IF idle[s] < Ttl THEN idle[s] + 1 ELSE Ttl]
    /\ UNCHANGED <<cfg, permits, reqVars, conn, faults, known, torn, audit>>

\* The ledger of s exists and has not lapsed.
Live(s) == left[s] # 0

-----------------------------------------------------------------------------
(* The router's guards, outermost first *)

\* The limiter has no cell left for the client's address: 429, no permit taken.
RateLimited(r) ==
    /\ pc[r] = "idle"
    /\ UNCHANGED vars

\* try_acquire_owned fails: 503, the request unread.
Shed(r) ==
    /\ pc[r] = "idle"
    /\ permits = 0
    /\ UNCHANGED vars

\* Through the limiter, and with a permit, which is held from here on.
Admit(r) ==
    /\ pc[r] = "idle"
    /\ permits > 0
    /\ permits' = permits - 1
    /\ pc' = [pc EXCEPT ![r] = "body"]
    /\ UNCHANGED <<cfg, session, todo, leg, verdict, reason, memVars, audit>>

\* The response is over, or its connection is: the body is dropped, and with
\* it the permit and all the request held.
Over(r) ==
    /\ pc' = [pc EXCEPT ![r] = "idle"]
    /\ todo' = [todo EXCEPT ![r] = <<>>]
    /\ leg' = [leg EXCEPT ![r] = "request"]
    /\ verdict' = [verdict EXCEPT ![r] = "Allow"]
    /\ reason' = [reason EXCEPT ![r] = NoReason]
    /\ permits' = permits + 1
    /\ UNCHANGED session

\* The request goes on to `where`, with verdict v for reason w.
Goes(r, where, v, w) ==
    /\ pc' = [pc EXCEPT ![r] = where]
    /\ verdict' = [verdict EXCEPT ![r] = v]
    /\ reason' = [reason EXCEPT ![r] = w]
    /\ UNCHANGED <<permits, session, leg>>

\* Where the judgement of an item starts: only a tool has a replay guard.
Entry(i) == IF i.kind = "tool" THEN "recall" ELSE "screen"

\* Take up the items in q; with none left the request leg is through.
Takes(r, q) ==
    /\ todo' = [todo EXCEPT ![r] = q]
    /\ Goes(r, IF q = <<>> THEN "upstream" ELSE Entry(Head(q)), "Allow", NoReason)

\* No accepted key: 401, the body unread.
Unauthorized(r) ==
    /\ pc[r] = "body"
    /\ Over(r)
    /\ UNCHANGED <<cfg, memVars, audit>>

\* The body is too large or is not a RunAgentInput: 413 or 400.
BodyRejected(r) ==
    /\ pc[r] = "body"
    /\ Over(r)
    /\ UNCHANGED <<cfg, memVars, audit>>

\* The body is read: threadId names the session, and inspect_request starts.
BodyRead(r) ==
    /\ pc[r] = "body"
    /\ \E s \in Session, q \in Content :
        /\ session' = [session EXCEPT ![r] = s]
        /\ todo' = [todo EXCEPT ![r] = q]
        /\ pc' = [pc EXCEPT ![r] = IF q = <<>> THEN "upstream" ELSE Entry(Head(q))]
    /\ UNCHANGED <<cfg, permits, leg, verdict, reason, memVars, audit>>

-----------------------------------------------------------------------------
(* Session memory: recall *)

Tl(r) == Head(todo[r]).tool
Ledger(r) == denied[session[r]]

\* History: the session of r is active now; after a gap of a TTL or more what
\* it had been refused is over.  A write adds the tool it quarantines.
ActiveWith(r, tools) ==
    LET s == session[r] IN
    /\ idle' = [idle EXCEPT ![s] = 0]
    /\ known' = [known EXCEPT ![s] = tools \cup IF idle[s] < Ttl THEN @ ELSE {}]

\* Nothing is remembered: a streamed call meets the URL screen next, an
\* offered tool the policy.
Missed(r) ==
    /\ Goes(r, IF leg[r] = "request" THEN "decide" ELSE "screen", "Allow", NoReason)
    /\ UNCHANGED todo

\* The tool is quarantined: refused for the first reason.
Hit(r, where) ==
    /\ Goes(r, where, "Deny", Ledger(r)[Tl(r)])
    /\ UNCHANGED todo

Quarantined(r) == Ledger(r)[Tl(r)] # NoReason

RecallNoop(r) ==
    /\ pc[r] = "recall"
    /\ cfg.backend = "noop"
    /\ Missed(r)
    /\ ActiveWith(r, {})
    /\ UNCHANGED <<cfg, left, denied, conn, cooling, faults, torn, audit>>

\* A slip: a ledger that has lapsed is honoured until it is pruned.
RecallMemoryLapsed(r) ==
    LET s == session[r] IN
    /\ pc[r] = "recall"
    /\ cfg.backend = "memory"
    /\ IF denied[s] = Empty
          THEN Missed(r) /\ UNCHANGED left
          ELSE /\ left' = [left EXCEPT ![s] = Ttl]
               /\ IF Quarantined(r) THEN Hit(r, "replay") ELSE Missed(r)
    /\ ActiveWith(r, {})
    /\ UNCHANGED <<cfg, denied, conn, cooling, faults, torn, audit>>

\* Under the map's lock: a lapsed ledger is removed, a live one refreshed.
RecallMemory(r) ==
    LET s == session[r] IN
    /\ pc[r] = "recall"
    /\ cfg.backend = "memory"
    /\ IF Live(s)
          THEN /\ left' = [left EXCEPT ![s] = Ttl]
               /\ IF Quarantined(r) THEN Hit(r, "replay") ELSE Missed(r)
               /\ UNCHANGED denied
          ELSE /\ left' = [left EXCEPT ![s] = 0]
               /\ denied' = [denied EXCEPT ![s] = Empty]
               /\ Missed(r)
    /\ ActiveWith(r, {})
    /\ UNCHANGED <<cfg, conn, cooling, faults, torn, audit>>

\* A Redis command fails or times out.
Fault == faults < MaxFaults /\ faults' = faults + 1

\* HGET over the cached connection.  A hit goes on to refresh the TTL.
RecallRedis(r) ==
    /\ pc[r] = "recall"
    /\ cfg.backend = "redis"
    /\ conn = "up"
    /\ \/ UNCHANGED faults /\ IF Quarantined(r) THEN Hit(r, "touch") ELSE Missed(r)
       \/ Fault /\ Missed(r)
    /\ ActiveWith(r, {})
    /\ UNCHANGED <<cfg, left, denied, conn, cooling, torn, audit>>

\* EXPIRE; nothing to do on a hash that is gone.
SetTtl(s) ==
    left' = [left EXCEPT ![s] = IF Live(s) THEN Ttl ELSE @]

\* The EXPIRE after a hit, best-effort.
TouchRedis(r) ==
    /\ pc[r] = "touch"
    /\ \/ SetTtl(session[r]) /\ UNCHANGED faults
       \/ Fault /\ UNCHANGED left
    /\ Goes(r, "replay", verdict[r], reason[r])
    /\ ActiveWith(r, {Tl(r)} \cap {t \in Tool : Ledger(r)[t] # NoReason})
    /\ UNCHANGED <<cfg, todo, denied, conn, cooling, torn, audit>>

\* connection(): no connection yet, and an operation wants one.
Unconnected(r) ==
    /\ pc[r] \in {"recall", "remember"}
    /\ cfg.backend = "redis"
    /\ conn = "none"

\* Past the cooldown: try to connect.
StartConnect(r) ==
    /\ Unconnected(r)
    /\ cooling = 0
    /\ Goes(r, IF pc[r] = "recall" THEN "connectToRecall" ELSE "connectToRemember",
            verdict[r], reason[r])
    /\ UNCHANGED <<cfg, todo, memVars, audit>>

\* The operation goes back to its command.
ConnectOk(r) ==
    /\ pc[r] \in {"connectToRecall", "connectToRemember"}
    /\ conn' = "up"
    /\ Goes(r, IF pc[r] = "connectToRecall" THEN "recall" ELSE "remember",
            verdict[r], reason[r])
    /\ UNCHANGED <<cfg, todo, left, denied, cooling, faults,
                   idle, known, torn, audit>>

-----------------------------------------------------------------------------
(* Judging *)

\* What follows a judgement that is not an Allow of the request leg: 403, or
\* the stream goes on unless the verdict ends it.
Settles(r) ==
    IF leg[r] = "request" \/ verdict[r] = "Terminate"
    THEN Over(r)
    ELSE /\ Goes(r, "stream", "Allow", NoReason)
         /\ todo' = [todo EXCEPT ![r] = <<>>]

\* A connection that is not to be had degrades to no memory: in the cooldown
\* without an attempt, else after a failed one, which starts the cooldown.
NoMemory(r) ==
    /\ \/ Unconnected(r) /\ cooling > 0 /\ UNCHANGED <<cooling, faults>>
       \/ /\ pc[r] \in {"connectToRecall", "connectToRemember"}
          /\ conn = "none"
          /\ Fault
          /\ cooling' = Cooldown
    /\ IF pc[r] \in {"recall", "connectToRecall"} THEN Missed(r) ELSE Settles(r)
    /\ ActiveWith(r, {})
    /\ UNCHANGED <<cfg, left, denied, conn, torn, audit>>

\* first_disallowed_url: a literal rule or a resolved address blocks it; a host
\* that does not resolve in time passes.
Screen(r) ==
    /\ pc[r] = "screen"
    /\ \/ Goes(r, "decide", "Allow", NoReason)
       \/ Head(todo[r]).url = "url" /\ Goes(r, "record", "Deny", "Url")
    /\ UNCHANGED <<cfg, todo, memVars, audit>>

\* The policy's verdict v.  The request leg records only what it refuses, the
\* response leg every verdict.
Decided(r, v) ==
    IF leg[r] = "request"
    THEN IF v = "Allow"
         THEN Takes(r, Tail(todo[r]))
         ELSE Goes(r, "record", v, v) /\ UNCHANGED todo
    ELSE Goes(r, "record", v, IF v \in {"Deny", "Terminate"} THEN v ELSE NoReason)
         /\ UNCHANGED todo

PolicyAnswers(r) ==
    /\ pc[r] = "decide"
    /\ \E v \in Verdicts : Decided(r, v)
    /\ UNCHANGED <<cfg, memVars, audit>>

\* The decision's deadline passes first.
FailMode(r) ==
    /\ pc[r] = "decide"
    /\ Decided(r, IF cfg.failMode = "Open" THEN "Allow" ELSE "Terminate")
    /\ UNCHANGED <<cfg, memVars, audit>>

\* The record's place in the trail of tool denials.
Trail(r) == {<<session[r], t, w>> : t \in {Tl(r)} \cap Tool, w \in {reason[r]} \cap Reason}

\* A denial of a tool call that is not itself a replay is remembered: on the
\* request leg whatever refused the tool, on the response leg only a Deny.
Remembers(r) ==
    /\ Head(todo[r]).kind = "tool"
    /\ leg[r] = "request" \/ verdict[r] = "Deny"

\* A slip: a denial is remembered in place of being recorded.
RecordLost(r) ==
    /\ pc[r] = "record"
    /\ audit' = IF Remembers(r) THEN audit ELSE audit \cup Trail(r)
    /\ IF Remembers(r)
          THEN Goes(r, "remember", verdict[r], reason[r]) /\ UNCHANGED todo
          ELSE Settles(r)
    /\ UNCHANGED <<cfg, memVars>>

\* AuditSink::record has returned.
Record(r) ==
    /\ pc[r] = "record"
    /\ audit' = audit \cup Trail(r)
    /\ IF Remembers(r)
          THEN Goes(r, "remember", verdict[r], reason[r]) /\ UNCHANGED todo
          ELSE Settles(r)
    /\ UNCHANGED <<cfg, memVars>>

\* A replay is recorded as a denial and not remembered again.
RecordReplay(r) ==
    /\ pc[r] = "replay"
    /\ audit' = audit \cup Trail(r)
    /\ Settles(r)
    /\ UNCHANGED <<cfg, memVars>>

-----------------------------------------------------------------------------
(* Session memory: remember *)

\* A slip: the last reason replaces the first.
LastReason(l, t, w) == [l EXCEPT ![t] = w]

\* A tool keeps the reason it was first denied for.
FirstReason(l, t, w) == [l EXCEPT ![t] = IF @ = NoReason THEN w ELSE @]

RememberNoop(r) ==
    /\ pc[r] = "remember"
    /\ cfg.backend = "noop"
    /\ Settles(r)
    /\ ActiveWith(r, {})
    /\ UNCHANGED <<cfg, left, denied, conn, cooling, faults, torn, audit>>

\* A slip: only a new ledger gets an expiry.
RememberMemoryUnrefreshed(r) ==
    LET s == session[r] IN
    /\ pc[r] = "remember"
    /\ cfg.backend = "memory"
    /\ denied' = [denied EXCEPT ![s] = FirstReason(@, Tl(r), reason[r])]
    /\ left' = [left EXCEPT ![s] = IF @ = 0 THEN Ttl ELSE @]
    /\ torn' = IF denied[s] # Empty /\ ~Live(s) THEN torn \cup {s} ELSE torn
    /\ Settles(r)
    /\ ActiveWith(r, {Tl(r)})
    /\ UNCHANGED <<cfg, conn, cooling, faults, audit>>

\* Under the map's lock.  A ledger that has lapsed but is still in the map is
\* taken up again with all it holds.
RememberMemory(r) ==
    LET s == session[r] IN
    /\ pc[r] = "remember"
    /\ cfg.backend = "memory"
    /\ denied' = [denied EXCEPT ![s] = FirstReason(@, Tl(r), reason[r])]
    /\ left' = [left EXCEPT ![s] = Ttl]
    /\ torn' = IF denied[s] # Empty /\ ~Live(s) THEN torn \cup {s} ELSE torn
    /\ Settles(r)
    /\ ActiveWith(r, {Tl(r)})
    /\ UNCHANGED <<cfg, conn, cooling, faults, audit>>

\* HSETNX: a new hash has no expiry until the EXPIRE that follows.
RememberRedis(r) ==
    LET s == session[r] IN
    /\ pc[r] = "remember"
    /\ cfg.backend = "redis"
    /\ conn = "up"
    /\ \/ /\ denied' = [denied EXCEPT ![s] = FirstReason(@, Tl(r), reason[r])]
          /\ left' = [left EXCEPT ![s] = IF @ = 0 THEN Never ELSE @]
          /\ Goes(r, "expire", verdict[r], reason[r])
          /\ ActiveWith(r, {Tl(r)})
          /\ UNCHANGED <<faults, todo>>
       \/ /\ Fault
          /\ Settles(r)
          /\ ActiveWith(r, {})
          /\ UNCHANGED <<denied, left>>
    /\ UNCHANGED <<cfg, conn, cooling, torn, audit>>

\* The EXPIRE after an HSETNX, best-effort.
ExpireRedis(r) ==
    LET s == session[r] IN
    /\ pc[r] = "expire"
    /\ \/ SetTtl(s) /\ UNCHANGED <<faults, torn>>
       \/ Fault /\ torn' = torn \cup {s} /\ UNCHANGED left
    /\ Settles(r)
    /\ ActiveWith(r, {Tl(r)} \cap {t \in Tool : Ledger(r)[t] # NoReason})
    /\ UNCHANGED <<cfg, denied, conn, cooling, audit>>

\* The pruner's tick.
Prune ==
    /\ cfg.backend = "memory"
    /\ \E s \in Session : denied[s] # Empty /\ ~Live(s)
    /\ denied' = [s \in Session |-> IF Live(s) THEN denied[s] ELSE Empty]
    /\ UNCHANGED <<cfg, permits, reqVars, left, conn, cooling, faults,
                   idle, known, torn, audit>>

-----------------------------------------------------------------------------
(* The run *)

\* The agent answers: the response streams, each event judged as it completes.
UpstreamOk(r) ==
    /\ pc[r] = "upstream"
    /\ pc' = [pc EXCEPT ![r] = "stream"]
    /\ leg' = [leg EXCEPT ![r] = "response"]
    /\ UNCHANGED <<cfg, permits, session, todo, verdict, reason, memVars, audit>>

\* A slip: the error response leaves the permit behind.
UpstreamFailsLeaking(r) ==
    /\ pc[r] = "upstream"
    /\ pc' = [pc EXCEPT ![r] = "idle"]
    /\ UNCHANGED <<cfg, permits, session, todo, leg, verdict, reason,
                   memVars, audit>>

\* 502 or 504.
UpstreamFails(r) ==
    /\ pc[r] = "upstream"
    /\ Over(r)
    /\ UNCHANGED <<cfg, memVars, audit>>

StreamJudges(r) ==
    /\ pc[r] = "stream"
    /\ \E i \in Streamed : Takes(r, <<i>>)
    /\ UNCHANGED <<cfg, memVars, audit>>

StreamEnds(r) ==
    /\ pc[r] = "stream"
    /\ Over(r)
    /\ UNCHANGED <<cfg, memVars, audit>>

\* The client disconnects: the future of the handler or of the body is dropped
\* at the await it has reached.
ClientGone(r) ==
    /\ pc[r] # "idle"
    /\ Over(r)
    /\ torn' = IF pc[r] = "expire" THEN torn \cup {session[r]} ELSE torn
    /\ UNCHANGED <<cfg, left, denied, conn, cooling, faults,
                   idle, known, audit>>

-----------------------------------------------------------------------------
Guards(r) == RateLimited(r) \/ Shed(r) \/ Admit(r) \/ Unauthorized(r)

Recall(r) == RecallNoop(r) \/ RecallMemory(r) \/ RecallRedis(r) \/ TouchRedis(r)

Connect(r) == StartConnect(r) \/ ConnectOk(r) \/ NoMemory(r)

Remember(r) == RememberNoop(r) \/ RememberMemory(r) \/ RememberRedis(r) \/ ExpireRedis(r)

Judge(r) ==
    \/ Recall(r) \/ Connect(r) \/ Screen(r)
    \/ PolicyAnswers(r) \/ FailMode(r)
    \/ Record(r) \/ RecordReplay(r) \/ Remember(r)

Forward(r) == UpstreamOk(r) \/ UpstreamFails(r)

Next ==
    \/ \E r \in Req :
        \/ Guards(r) \/ BodyRejected(r) \/ BodyRead(r)
        \/ Judge(r) \/ Forward(r)
        \/ StreamJudges(r) \/ StreamEnds(r) \/ ClientGone(r)
    \/ Tick \/ Prune

Spec == Init /\ [][Next]_vars

-----------------------------------------------------------------------------
(* Properties *)

InFlight == {r \in Req : pc[r] # "idle"}

\* The permit of a request is taken by the guards and released exactly once,
\* whichever way the request ends: refused, malformed, failed upstream, cut
\* off by its client at any await, terminated, or streamed to its end.
PermitsAccounted == permits + Cardinality(InFlight) = cfg.permits

Refused(s) == {t \in Tool : denied[s][t] # NoReason}

\* A quarantined tool stays refused for as long as the session keeps coming
\* back within the TTL, whatever tool or run it comes back with
\* (policy_section.rs: the quarantine lasts while there is activity).
SlidingQuarantine ==
    \A s \in Session : \A t \in known[s] :
        idle[s] < Ttl => Live(s) /\ t \in Refused(s)

\* The in-memory ledger keeps that promise under every interleaving of runs,
\* clock, pruner and disconnections.
MemoryQuarantineLasts == cfg.backend = "memory" => SlidingQuarantine

\* A session that was idle for a TTL is forgotten: a ledger that still counts
\* holds only tools denied since then and lapses at the latest a TTL after
\* the session's last activity.  Two writes escape: one whose EXPIRE failed or
\* was cut off after its HSETNX, and one that reaches a ledger which lapsed
\* while the judgement was under way.
IdleIsForgotten ==
    \A s \in Session \ torn :
        Live(s) /\ (\A r \in Req : session[r] = s => pc[r] # "expire") =>
            Refused(s) \subseteq known[s] /\ left[s] \in 1..(Ttl - idle[s])

\* What the memory refuses has an audit trail: the reason a tool is
\* quarantined for was recorded as a denial of that tool in that session
\* before it was remembered.
QuarantineWasRecorded ==
    \A s \in Session : \A t \in Refused(s) : <<s, t, denied[s][t]>> \in audit

\* "Keep the first reason": two denials of one tool that overlap leave the
\* reason that was stored first, until the whole ledger is forgotten.
FirstReasonKept ==
    [][\A s \in Session : \A t \in Refused(s) :
           denied'[s][t] = denied[s][t] \/ denied'[s] = Empty]_vars
=============================================================================
