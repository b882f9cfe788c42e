------------------------- MODULE RequestLegProofs -------------------------
(***************************************************************************)
(* Proofs about RequestLeg, for any number of connections, sessions and    *)
(* tools, any offers, verdicts and settings, and any time-to-live.         *)
(***************************************************************************)
EXTENDS RequestLeg, FiniteSetTheorems, TLAPS

WithTool == {"recall", "connectToRecall", "touch", "replay", "remember",
             "connectToRemember", "expire"}
InRedis == {"touch", "expire", "connectToRecall", "connectToRemember"}
Judging == WithTool \cup {"screen", "decide", "record"}
Pc == Judging \cup {"idle", "body", "upstream", "stream"}

\* A request at p with the items q to judge: there is one wherever it is
\* judged, a tool where the ledger is asked, and only Redis has commands in
\* flight.
WayOK(p, q) ==
    /\ p \in Judging => q # <<>>
    /\ p \in WithTool => Head(q).kind = "tool"
    /\ p \in InRedis => cfg.backend = "redis"

ReqOK ==
    /\ cfg \in Settings /\ permits \in Int
    /\ pc \in [Req -> Pc] /\ session \in [Req -> Session]
    /\ todo \in [Req -> Seq(Item)]
    /\ leg \in [Req -> {"request", "response"}]
    /\ verdict \in [Req -> Verdict]
    /\ reason \in [Req -> Reason \cup {NoReason}]
    /\ \A r \in Req : WayOK(pc[r], todo[r])

MemOK ==
    /\ left \in [Session -> Nat \cup {Never}]
    /\ denied \in [Session -> [Tool -> Reason \cup {NoReason}]]
    /\ cooling \in Nat /\ faults \in Nat
    /\ idle \in [Session -> 0..Ttl]
    /\ known \in [Session -> SUBSET Tool]
    /\ torn \subseteq Session

LEMMA ItemFacts ==
  ASSUME NEW q \in Seq(Item), q # <<>>
  PROVE  /\ Head(q) \in Item /\ Tail(q) \in Seq(Item)
         /\ Head(q).kind \in {"tool", "text"}
         /\ Head(q).kind = "tool" => Head(q).tool \in Tool
         /\ Head(q).tool \in Tool \cup {NoTool}
  BY DEF Item

LEMMA InitOK == Init => ReqOK /\ MemOK
  BY SlotsAssumption, SettingsAssumption, BoundsAssumption
  DEF Init, ReqOK, MemOK, WayOK, Empty, Pc, Judging, WithTool, InRedis, Verdict,
      NoReason, Never

-----------------------------------------------------------------------------
(* The pieces the actions are made of *)

LEMMA OverOK ==
  ASSUME NEW r \in Req, ReqOK, Over(r), cfg' = cfg
  PROVE  ReqOK'
  BY DEF ReqOK, WayOK, Over, Pc, Judging, WithTool, InRedis, Verdict

LEMMA GoesOK ==
  ASSUME NEW r \in Req, ReqOK, cfg' = cfg,
         NEW where \in Pc, NEW v \in Verdict, NEW w \in Reason \cup {NoReason},
         NEW q \in Seq(Item), Goes(r, where, v, w),
         todo' = [todo EXCEPT ![r] = q], WayOK(where, q)
  PROVE  ReqOK'
<1>1. \A x \in Req : pc'[x] = IF x = r THEN where ELSE pc[x]
  BY DEF ReqOK, Goes
<1>2. \A x \in Req : todo'[x] = IF x = r THEN q ELSE todo[x]
  BY DEF ReqOK
<1>3. \A x \in Req : WayOK(pc[x], todo[x])'
  BY <1>1, <1>2 DEF ReqOK, WayOK
<1> QED
  BY <1>3 DEF ReqOK, Goes

LEMMA StaysOK ==
  ASSUME NEW r \in Req, ReqOK, cfg' = cfg,
         NEW where \in Pc, NEW v \in Verdict, NEW w \in Reason \cup {NoReason},
         Goes(r, where, v, w), UNCHANGED todo, WayOK(where, todo[r])
  PROVE  ReqOK'
<1>1. todo[r] \in Seq(Item) /\ todo' = [todo EXCEPT ![r] = todo[r]]
  BY DEF ReqOK
<1> QED
  BY <1>1, GoesOK

LEMMA TakesOK ==
  ASSUME NEW r \in Req, ReqOK, cfg' = cfg, NEW q \in Seq(Item), Takes(r, q)
  PROVE  ReqOK'
<1> DEFINE where == IF q = <<>> THEN "upstream" ELSE Entry(Head(q))
<1>1. where \in Pc /\ WayOK(where, q)
  BY ItemFacts DEF Entry, WayOK, Pc, Judging, WithTool, InRedis
<1>2. Goes(r, where, "Allow", NoReason) /\ todo' = [todo EXCEPT ![r] = q]
  BY DEF Takes
<1> QED
  BY <1>1, <1>2, GoesOK DEF Verdict

LEMMA SettlesOK ==
  ASSUME NEW r \in Req, ReqOK, cfg' = cfg, Settles(r)
  PROVE  ReqOK'
<1>1. CASE Over(r)
  BY <1>1, OverOK
<1>2. CASE Goes(r, "stream", "Allow", NoReason) /\ todo' = [todo EXCEPT ![r] = <<>>]
  <2>1. WayOK("stream", <<>>) /\ "stream" \in Pc /\ <<>> \in Seq(Item)
    BY DEF WayOK, Pc, Judging, WithTool, InRedis
  <2> QED
    BY <1>2, <2>1, GoesOK DEF Verdict
<1> QED
  BY <1>1, <1>2 DEF Settles

LEMMA ActiveOK ==
  ASSUME NEW r \in Req, ReqOK, MemOK, NEW T \in SUBSET Tool, ActiveWith(r, T)
  PROVE  idle' \in [Session -> 0..Ttl] /\ known' \in [Session -> SUBSET Tool]
  BY BoundsAssumption DEF ReqOK, MemOK, ActiveWith

\* The tool a request asks the ledger about.
LEMMA ToolFacts ==
  ASSUME NEW r \in Req, ReqOK, pc[r] \in Judging
  PROVE  /\ todo[r] \in Seq(Item) /\ todo[r] # <<>> /\ session[r] \in Session
         /\ Tail(todo[r]) \in Seq(Item)
         /\ Head(todo[r]).kind \in {"tool", "text"}
         /\ Head(todo[r]).kind = "tool" => Tl(r) \in Tool
         /\ pc[r] \in WithTool => Tl(r) \in Tool
  BY ItemFacts DEF ReqOK, WayOK, Tl

LEMMA MissedOK ==
  ASSUME NEW r \in Req, ReqOK, cfg' = cfg, Missed(r), pc[r] \in Judging
  PROVE  ReqOK'
<1> DEFINE where == IF leg[r] = "request" THEN "decide" ELSE "screen"
<1>1. where \in Pc /\ WayOK(where, todo[r])
  BY ToolFacts DEF WayOK, Pc, Judging, WithTool, InRedis
<1> QED
  BY <1>1, StaysOK DEF Missed, Verdict

LEMMA HitOK ==
  ASSUME NEW r \in Req, ReqOK, MemOK, cfg' = cfg, NEW where \in {"touch", "replay"},
         Hit(r, where), pc[r] = "recall", where = "touch" => cfg.backend = "redis"
  PROVE  ReqOK'
<1>1. where \in Pc /\ WayOK(where, todo[r])
  BY DEF ReqOK, WayOK, Pc, Judging, WithTool, InRedis
<1>2. Ledger(r)[Tl(r)] \in Reason \cup {NoReason}
  BY ToolFacts DEF MemOK, Ledger, Judging, WithTool
<1> QED
  BY <1>1, <1>2, StaysOK DEF Hit, Verdict

-----------------------------------------------------------------------------
(* Every step keeps the types *)

LEMMA RecallReq ==
  ASSUME NEW r \in Req, ReqOK, MemOK, Recall(r)
  PROVE  ReqOK'
<1>1. CASE RecallNoop(r)
  BY <1>1, MissedOK DEF RecallNoop, Judging, WithTool
<1>2. CASE RecallMemory(r)
  <2>1. cfg' = cfg /\ pc[r] = "recall" /\ (Missed(r) \/ Hit(r, "replay"))
    BY <1>2 DEF RecallMemory
  <2> QED
    BY <2>1, MissedOK, HitOK DEF Judging, WithTool
<1>3. CASE RecallRedis(r)
  <2>1. cfg' = cfg /\ pc[r] = "recall" /\ cfg.backend = "redis"
        /\ (Missed(r) \/ Hit(r, "touch"))
    BY <1>3 DEF RecallRedis
  <2> QED
    BY <2>1, MissedOK, HitOK DEF Judging, WithTool
<1>4. CASE TouchRedis(r)
  <2>1. WayOK("replay", todo[r]) /\ "replay" \in Pc
    BY <1>4 DEF TouchRedis, ReqOK, WayOK, Pc, Judging, WithTool, InRedis
  <2>2. cfg' = cfg /\ UNCHANGED todo /\ Goes(r, "replay", verdict[r], reason[r])
    BY <1>4 DEF TouchRedis
  <2>3. verdict[r] \in Verdict /\ reason[r] \in Reason \cup {NoReason}
    BY DEF ReqOK
  <2> QED
    BY <2>1, <2>2, <2>3, StaysOK
<1> QED
  BY <1>1, <1>2, <1>3, <1>4 DEF Recall

LEMMA ConnectReq ==
  ASSUME NEW r \in Req, ReqOK, Connect(r)
  PROVE  ReqOK'
<1>1. verdict[r] \in Verdict /\ reason[r] \in Reason \cup {NoReason}
  BY DEF ReqOK
<1>2. CASE StartConnect(r)
  <2> DEFINE where == IF pc[r] = "recall" THEN "connectToRecall" ELSE "connectToRemember"
  <2>1. where \in Pc /\ WayOK(where, todo[r])
    BY <1>2 DEF StartConnect, Unconnected, ReqOK, WayOK, Pc, Judging, WithTool, InRedis
  <2>2. cfg' = cfg /\ UNCHANGED todo /\ Goes(r, where, verdict[r], reason[r])
    BY <1>2 DEF StartConnect
  <2> QED
    BY <1>1, <2>1, <2>2, StaysOK
<1>3. CASE ConnectOk(r)
  <2> DEFINE where == IF pc[r] = "connectToRecall" THEN "recall" ELSE "remember"
  <2>1. where \in Pc /\ WayOK(where, todo[r])
    BY <1>3 DEF ConnectOk, ReqOK, WayOK, Pc, Judging, WithTool, InRedis
  <2>2. cfg' = cfg /\ UNCHANGED todo /\ Goes(r, where, verdict[r], reason[r])
    BY <1>3 DEF ConnectOk
  <2> QED
    BY <1>1, <2>1, <2>2, StaysOK
<1>4. CASE NoMemory(r)
  <2>1. cfg' = cfg /\ pc[r] \in Judging /\ (Missed(r) \/ Settles(r))
    BY <1>4 DEF NoMemory, Unconnected, Judging, WithTool
  <2> QED
    BY <2>1, MissedOK, SettlesOK
<1> QED
  BY <1>2, <1>3, <1>4 DEF Connect

LEMMA DecidedReq ==
  ASSUME NEW r \in Req, ReqOK, cfg' = cfg, pc[r] = "decide", NEW v \in Verdict,
         Decided(r, v)
  PROVE  ReqOK'
<1>1. CASE Takes(r, Tail(todo[r]))
  BY <1>1, ToolFacts, TakesOK DEF Judging
<1>2. CASE UNCHANGED todo /\ \E w \in Reason \cup {NoReason} : Goes(r, "record", v, w)
  <2>1. "record" \in Pc /\ WayOK("record", todo[r])
    BY DEF ReqOK, WayOK, Pc, Judging, WithTool, InRedis
  <2> QED
    BY <1>2, <2>1, StaysOK
<1> QED
  BY <1>1, <1>2 DEF Decided, Verdict, Reason

LEMMA RecordReq ==
  ASSUME NEW r \in Req, ReqOK, Record(r)
  PROVE  ReqOK'
<1>1. CASE Settles(r)
  BY <1>1, SettlesOK DEF Record
<1>2. CASE Remembers(r) /\ Goes(r, "remember", verdict[r], reason[r]) /\ UNCHANGED todo
  <2>1. "remember" \in Pc /\ WayOK("remember", todo[r])
    BY <1>2 DEF Record, Remembers, ReqOK, WayOK, Pc, Judging, WithTool, InRedis
  <2>2. verdict[r] \in Verdict /\ reason[r] \in Reason \cup {NoReason} /\ cfg' = cfg
    BY DEF ReqOK, Record
  <2> QED
    BY <1>2, <2>1, <2>2, StaysOK
<1> QED
  BY <1>1, <1>2 DEF Record

LEMMA RememberReq ==
  ASSUME NEW r \in Req, ReqOK, Remember(r)
  PROVE  ReqOK'
<1>1. cfg' = cfg
  BY DEF Remember, RememberNoop, RememberMemory, RememberRedis, ExpireRedis
<1>2. CASE Settles(r)
  BY <1>1, <1>2, SettlesOK
<1>3. CASE RememberRedis(r) /\ Goes(r, "expire", verdict[r], reason[r]) /\ UNCHANGED todo
  <2>1. "expire" \in Pc /\ WayOK("expire", todo[r])
    BY <1>3 DEF RememberRedis, ReqOK, WayOK, Pc, Judging, WithTool, InRedis
  <2>2. verdict[r] \in Verdict /\ reason[r] \in Reason \cup {NoReason}
    BY DEF ReqOK
  <2> QED
    BY <1>1, <1>3, <2>1, <2>2, StaysOK
<1> QED
  BY <1>2, <1>3
  DEF Remember, RememberNoop, RememberMemory, RememberRedis, ExpireRedis

LEMMA JudgeReq ==
  ASSUME NEW r \in Req, ReqOK, MemOK, Judge(r)
  PROVE  ReqOK'
<1>1. CASE Screen(r)
  <2>1. \A where \in {"decide", "record"} : where \in Pc /\ WayOK(where, todo[r])
    BY <1>1 DEF Screen, ReqOK, WayOK, Pc, Judging, WithTool, InRedis
  <2>2. /\ cfg' = cfg /\ UNCHANGED todo
        /\ \/ Goes(r, "decide", "Allow", NoReason)
           \/ Goes(r, "record", "Deny", "Url")
    BY <1>1 DEF Screen
  <2> QED
    BY <2>1, <2>2, StaysOK DEF Verdict, Reason
<1>2. CASE PolicyAnswers(r)
  BY <1>2, DecidedReq, VerdictsAssumption DEF PolicyAnswers
<1>3. CASE FailMode(r)
  BY <1>3, DecidedReq DEF FailMode, Verdict
<1>4. CASE RecordReplay(r)
  BY <1>4, SettlesOK DEF RecordReplay
<1> QED
  BY <1>1, <1>2, <1>3, <1>4, RecallReq, ConnectReq, RecordReq, RememberReq DEF Judge

LEMMA StepReq ==
  ASSUME ReqOK, MemOK, Next
  PROVE  ReqOK'
<1>1. ASSUME NEW r \in Req, Guards(r) \/ BodyRejected(r) \/ UpstreamFails(r)
                            \/ StreamEnds(r) \/ ClientGone(r)
      PROVE  ReqOK'
  <2>1. CASE Over(r) /\ cfg' = cfg
    BY <2>1, OverOK
  <2>2. CASE RateLimited(r) \/ Shed(r)
    BY <2>2 DEF RateLimited, Shed, vars, reqVars, ReqOK, WayOK
  <2>3. CASE Admit(r)
    BY <2>3 DEF Admit, ReqOK, WayOK, Pc, Judging, WithTool, InRedis
  <2> QED
    BY <1>1, <2>1, <2>2, <2>3
    DEF Guards, Unauthorized, BodyRejected, UpstreamFails, StreamEnds, ClientGone
<1>2. ASSUME NEW r \in Req, BodyRead(r)
      PROVE  ReqOK'
  <2>1. PICK s \in Session, q \in Content :
          /\ session' = [session EXCEPT ![r] = s]
          /\ todo' = [todo EXCEPT ![r] = q]
          /\ pc' = [pc EXCEPT ![r] = IF q = <<>> THEN "upstream" ELSE Entry(Head(q))]
    BY <1>2 DEF BodyRead
  <2> DEFINE where == IF q = <<>> THEN "upstream" ELSE Entry(Head(q))
  <2>2. q \in Seq(Item)
    BY ContentAssumption
  <2>3. where \in Pc /\ WayOK(where, q)
    BY <2>2, ItemFacts DEF Entry, WayOK, Pc, Judging, WithTool, InRedis
  <2>4. cfg' = cfg
    BY <1>2 DEF BodyRead
  <2>5. \A x \in Req : pc'[x] = (IF x = r THEN where ELSE pc[x])
                       /\ todo'[x] = (IF x = r THEN q ELSE todo[x])
    BY <2>1 DEF ReqOK
  <2>6. \A x \in Req : WayOK(pc[x], todo[x])'
    BY <2>3, <2>4, <2>5 DEF ReqOK, WayOK
  <2> HIDE DEF where
  <2> QED
    BY <1>2, <2>1, <2>2, <2>3, <2>6 DEF BodyRead, ReqOK, where
<1>3. ASSUME NEW r \in Req, UpstreamOk(r)
      PROVE  ReqOK'
  BY <1>3 DEF UpstreamOk, ReqOK, WayOK, Pc, Judging, WithTool, InRedis
<1>4. ASSUME NEW r \in Req, StreamJudges(r)
      PROVE  ReqOK'
  <2>1. PICK i \in Streamed : Takes(r, <<i>>)
    BY <1>4 DEF StreamJudges
  <2>2. <<i>> \in Seq(Item) /\ cfg' = cfg
    BY <1>4, ContentAssumption DEF StreamJudges
  <2> QED
    BY <2>1, <2>2, TakesOK
<1>5. CASE Tick \/ Prune
  BY <1>5 DEF Tick, Prune, reqVars, ReqOK, WayOK
<1> QED
  BY <1>1, <1>2, <1>3, <1>4, <1>5, JudgeReq DEF Next, Forward

LEMMA RecallMem ==
  ASSUME NEW r \in Req, ReqOK, MemOK, Recall(r)
  PROVE  MemOK'
<1>1. session[r] \in Session
  BY DEF ReqOK
<1>2. CASE RecallNoop(r)
  BY <1>2, ActiveOK DEF RecallNoop, MemOK
<1>3. CASE RecallMemory(r)
  <2>1. idle' \in [Session -> 0..Ttl] /\ known' \in [Session -> SUBSET Tool]
    BY <1>3, ActiveOK DEF RecallMemory
  <2>2. left' \in [Session -> Nat \cup {Never}]
    BY <1>1, <1>3, BoundsAssumption DEF RecallMemory, MemOK
  <2>3. denied' \in [Session -> [Tool -> Reason \cup {NoReason}]]
    BY <1>1, <1>3 DEF RecallMemory, MemOK, Empty
  <2> QED
    BY <1>3, <2>1, <2>2, <2>3 DEF RecallMemory, MemOK
<1>4. CASE RecallRedis(r)
  BY <1>4, ActiveOK DEF RecallRedis, Fault, MemOK
<1>5. CASE TouchRedis(r)
  <2>1. idle' \in [Session -> 0..Ttl] /\ known' \in [Session -> SUBSET Tool]
    BY <1>5, ActiveOK DEF TouchRedis
  <2>2. left' \in [Session -> Nat \cup {Never}] /\ faults' \in Nat
    BY <1>1, <1>5, BoundsAssumption DEF TouchRedis, SetTtl, Fault, MemOK
  <2> QED
    BY <1>5, <2>1, <2>2 DEF TouchRedis, MemOK
<1> QED
  BY <1>2, <1>3, <1>4, <1>5 DEF Recall

LEMMA RememberMem ==
  ASSUME NEW r \in Req, ReqOK, MemOK, Remember(r)
  PROVE  MemOK'
<1>1. session[r] \in Session /\ reason[r] \in Reason \cup {NoReason}
  BY DEF ReqOK
<1>2. pc[r] \in Judging /\ pc[r] \in WithTool /\ Tl(r) \in Tool
  <2>1. pc[r] \in Judging /\ pc[r] \in WithTool
    BY DEF Remember, RememberNoop, RememberMemory, RememberRedis, ExpireRedis,
           Judging, WithTool
  <2> QED
    BY <2>1, ToolFacts
<1>3. [denied EXCEPT ![session[r]] = FirstReason(@, Tl(r), reason[r])]
        \in [Session -> [Tool -> Reason \cup {NoReason}]]
  BY <1>1, <1>2 DEF MemOK, FirstReason
<1>4. CASE RememberNoop(r)
  BY <1>4, ActiveOK DEF RememberNoop, MemOK
<1>5. CASE RememberMemory(r)
  <2>1. idle' \in [Session -> 0..Ttl] /\ known' \in [Session -> SUBSET Tool]
    BY <1>2, <1>5, ActiveOK DEF RememberMemory
  <2>2. left' \in [Session -> Nat \cup {Never}] /\ torn' \subseteq Session
    BY <1>1, <1>5, BoundsAssumption DEF RememberMemory, MemOK
  <2> QED
    BY <1>3, <1>5, <2>1, <2>2 DEF RememberMemory, MemOK
<1>6. CASE RememberRedis(r)
  <2>1. idle' \in [Session -> 0..Ttl] /\ known' \in [Session -> SUBSET Tool]
    BY <1>2, <1>6, ActiveOK DEF RememberRedis
  <2>2. left' \in [Session -> Nat \cup {Never}]
    <3>1. left' = left \/ left' = [left EXCEPT ![session[r]] = IF @ = 0 THEN Never ELSE @]
      BY <1>6 DEF RememberRedis
    <3> QED
      BY <1>1, <3>1 DEF MemOK
  <2>3. faults' \in Nat
    BY <1>6 DEF RememberRedis, Fault, MemOK
  <2> QED
    BY <1>3, <1>6, <2>1, <2>2, <2>3 DEF RememberRedis, MemOK
<1>7. CASE ExpireRedis(r)
  <2>1. idle' \in [Session -> 0..Ttl] /\ known' \in [Session -> SUBSET Tool]
    BY <1>7, ActiveOK DEF ExpireRedis
  <2>2. /\ left' \in [Session -> Nat \cup {Never}] /\ faults' \in Nat
        /\ torn' \subseteq Session
    BY <1>1, <1>7, BoundsAssumption DEF ExpireRedis, SetTtl, Fault, MemOK
  <2> QED
    BY <1>7, <2>1, <2>2 DEF ExpireRedis, MemOK
<1> QED
  BY <1>4, <1>5, <1>6, <1>7 DEF Remember

LEMMA ConnectMem ==
  ASSUME NEW r \in Req, ReqOK, MemOK, Connect(r)
  PROVE  MemOK'
<1>1. CASE StartConnect(r) \/ ConnectOk(r)
  BY <1>1 DEF StartConnect, ConnectOk, memVars, MemOK
<1>2. CASE NoMemory(r)
  <2>1. idle' \in [Session -> 0..Ttl] /\ known' \in [Session -> SUBSET Tool]
    BY <1>2, ActiveOK DEF NoMemory
  <2> QED
    BY <1>2, <2>1, BoundsAssumption DEF NoMemory, Fault, MemOK
<1> QED
  BY <1>1, <1>2 DEF Connect

LEMMA StepMem ==
  ASSUME ReqOK, MemOK, Next
  PROVE  MemOK'
<1>1. CASE UNCHANGED memVars
  BY <1>1 DEF memVars, MemOK
<1>2. ASSUME NEW r \in Req, ClientGone(r)
      PROVE  MemOK'
  BY <1>2 DEF ClientGone, MemOK, ReqOK
<1>3. CASE Tick
  BY <1>3, BoundsAssumption DEF Tick, Less, Empty, MemOK, Never
<1>4. CASE Prune
  BY <1>4 DEF Prune, Empty, MemOK
<1>5. ASSUME NEW r \in Req, Judge(r)
      PROVE  MemOK'
  BY <1>1, <1>5, RecallMem, RememberMem, ConnectMem
  DEF Judge, Screen, PolicyAnswers, FailMode, Record, RecordReplay
<1> QED
  BY <1>1, <1>2, <1>3, <1>4, <1>5
  DEF Next, Guards, RateLimited, Shed, Admit, Unauthorized, BodyRejected, BodyRead,
      Forward, UpstreamOk, UpstreamFails, StreamJudges, StreamEnds, vars

TypeOK == ReqOK /\ MemOK

\* Every variable keeps to its type, whatever the connections, the clock, the
\* pruner and the Redis server do: a request that is being judged has an item
\* to judge, one that asks the ledger has a tool to ask about, and no Redis
\* command is in flight unless Redis is the configured backend.
THEOREM TypeCorrect == Spec => []TypeOK
<1>1. Init => TypeOK
  BY InitOK DEF TypeOK
<1>2. TypeOK /\ [Next]_vars => TypeOK'
  <2>1. TypeOK /\ UNCHANGED vars => TypeOK'
    BY DEF TypeOK, ReqOK, MemOK, WayOK, vars, reqVars, memVars
  <2> QED
    BY <2>1, StepReq, StepMem DEF TypeOK
<1> QED
  BY <1>1, <1>2, PTL DEF Spec

-----------------------------------------------------------------------------
(* Permits *)

\* What a step does to the requests in flight: one ends, giving its permit
\* back; one moves on, keeping it; one is admitted, taking one; or none moves.
Ends(r) == pc[r] # "idle" /\ pc' = [pc EXCEPT ![r] = "idle"] /\ permits' = permits + 1
Moves(r) ==
    /\ pc[r] # "idle"
    /\ \E where \in Pc \ {"idle"} : pc' = [pc EXCEPT ![r] = where]
    /\ UNCHANGED permits

LEMMA SettlesMoves ==
  ASSUME NEW r \in Req, Settles(r), pc[r] # "idle"
  PROVE  Ends(r) \/ Moves(r)
  BY DEF Settles, Over, Goes, Ends, Moves, Pc

LEMMA JudgeMoves ==
  ASSUME NEW r \in Req, ReqOK, Judge(r)
  PROVE  Ends(r) \/ Moves(r)
<1>1. ASSUME NEW where \in Pc \ {"idle"}, NEW v, NEW w, Goes(r, where, v, w), pc[r] # "idle"
      PROVE  Moves(r)
  BY <1>1 DEF Goes, Moves
<1>2. \A where \in Judging \cup {"stream", "upstream"} : where \in Pc \ {"idle"}
  BY DEF Judging, WithTool, Pc
<1>3. ASSUME Missed(r), pc[r] # "idle"
      PROVE  Moves(r)
  BY <1>1, <1>2, <1>3 DEF Missed, Judging
<1>4. CASE Recall(r)
  <2>1. CASE TouchRedis(r)
    BY <1>1, <1>2, <2>1 DEF TouchRedis, Judging, WithTool
  <2>2. /\ pc[r] # "idle"
        /\ Missed(r) \/ Hit(r, "touch") \/ Hit(r, "replay") \/ TouchRedis(r)
    BY <1>4 DEF Recall, RecallNoop, RecallMemory, RecallRedis, TouchRedis
  <2> QED
    BY <1>1, <1>2, <1>3, <2>1, <2>2 DEF Hit, Judging, WithTool
<1>5. CASE Connect(r)
  <2>1. pc[r] # "idle"
    BY <1>5 DEF Connect, StartConnect, ConnectOk, NoMemory, Unconnected
  <2>2. CASE Missed(r) \/ Settles(r)
    BY <1>3, <2>1, <2>2, SettlesMoves
  <2>3. CASE \E where \in WithTool : Goes(r, where, verdict[r], reason[r])
    BY <1>1, <1>2, <2>1, <2>3 DEF Judging
  <2> QED
    BY <1>5, <2>2, <2>3 DEF Connect, StartConnect, ConnectOk, NoMemory, WithTool
<1>6. CASE Screen(r)
  BY <1>1, <1>2, <1>6 DEF Screen, Judging
<1>7. ASSUME NEW v \in Verdict, Decided(r, v), pc[r] = "decide"
      PROVE  Moves(r)
  <2>1. CASE Takes(r, Tail(todo[r]))
    <3>1. Entry(Head(Tail(todo[r]))) \in Judging /\ pc[r] # "idle"
      BY <1>7 DEF Entry, Judging, WithTool
    <3> QED
      BY <1>1, <1>2, <2>1, <3>1 DEF Takes
  <2> QED
    BY <1>1, <1>2, <1>7, <2>1 DEF Decided, Judging
<1>8. CASE Record(r)
  BY <1>1, <1>2, <1>8, SettlesMoves DEF Record, Judging, WithTool
<1>9. CASE Remember(r)
  <2>1. pc[r] # "idle" /\ (Settles(r) \/ Goes(r, "expire", verdict[r], reason[r]))
    BY <1>9 DEF Remember, RememberNoop, RememberMemory, RememberRedis, ExpireRedis
  <2> QED
    BY <1>1, <1>2, <2>1, SettlesMoves DEF Judging, WithTool
<1> QED
  BY <1>4, <1>5, <1>6, <1>7, <1>8, <1>9, SettlesMoves, VerdictsAssumption
  DEF Judge, PolicyAnswers, FailMode, RecordReplay, Verdict

LEMMA StepMoves ==
  ASSUME ReqOK, Next
  PROVE  \/ \E r \in Req : Ends(r) \/ Moves(r) \/ Admit(r)
         \/ UNCHANGED <<pc, permits>>
<1>1. ASSUME NEW r \in Req, Over(r), pc[r] # "idle"
      PROVE  Ends(r)
  BY <1>1 DEF Over, Ends
<1>2. ASSUME NEW r \in Req, BodyRead(r)
      PROVE  Moves(r)
  <2>1. \A i : Entry(i) \in Pc \ {"idle"}
    BY DEF Entry, Pc, Judging, WithTool
  <2> QED
    BY <1>2, <2>1 DEF BodyRead, Moves, Pc
<1>3. ASSUME NEW r \in Req, UpstreamOk(r)
      PROVE  Moves(r)
  BY <1>3 DEF UpstreamOk, Moves, Pc
<1>4. ASSUME NEW r \in Req, StreamJudges(r)
      PROVE  Moves(r)
  <2>1. \A i : Entry(i) \in Pc \ {"idle"}
    BY DEF Entry, Pc, Judging, WithTool
  <2>2. PICK i \in Streamed : Takes(r, <<i>>)
    BY <1>4 DEF StreamJudges
  <2>3. pc[r] # "idle"
    BY <1>4 DEF StreamJudges
  <2> QED
    BY <2>1, <2>2, <2>3 DEF Takes, Goes, Moves, Pc
<1> QED
  BY <1>1, <1>2, <1>3, <1>4, JudgeMoves
  DEF Next, Guards, RateLimited, Shed, Unauthorized, BodyRejected, Forward, vars,
      UpstreamFails, StreamEnds, ClientGone, Tick, Prune, reqVars

\* For any number of connections: the semaphore's free permits and the requests
\* in flight add up to the configured limit in every state, so no way a request
\* can end loses a permit or gives one back twice.
THEOREM PermitsNeverLeak == Spec => []PermitsAccounted
<1>1. Init => PermitsAccounted
  <2> SUFFICES ASSUME Init PROVE PermitsAccounted
    OBVIOUS
  <2>1. InFlight = {}
    BY DEF Init, InFlight
  <2>2. cfg.permits \in Nat
    BY SettingsAssumption DEF Init
  <2> QED
    BY <2>1, <2>2, FS_EmptySet DEF Init, PermitsAccounted
<1>2. TypeOK /\ PermitsAccounted /\ Next => PermitsAccounted'
  <2> SUFFICES ASSUME TypeOK, PermitsAccounted, Next PROVE PermitsAccounted'
    OBVIOUS
  <2>1. IsFiniteSet(InFlight) /\ Cardinality(InFlight) \in Nat /\ permits \in Int
    BY SlotsAssumption, FS_Subset, FS_CardinalityType DEF InFlight, TypeOK, ReqOK
  <2>2. cfg' = cfg
    BY DEF Next, Guards, RateLimited, Shed, Admit, Unauthorized, BodyRejected, BodyRead,
           Forward, UpstreamOk, UpstreamFails, StreamJudges, StreamEnds, ClientGone,
           Judge, Recall, RecallNoop, RecallMemory, RecallRedis, TouchRedis,
           Connect, StartConnect, ConnectOk, NoMemory, Screen, PolicyAnswers, FailMode,
           Record, RecordReplay, Remember, RememberNoop, RememberMemory, RememberRedis,
           ExpireRedis, Tick, Prune, vars
  <2>3. ASSUME NEW r \in Req, Ends(r)
        PROVE  PermitsAccounted'
    <3>1. InFlight' = InFlight \ {r} /\ r \in InFlight
      BY <2>3 DEF Ends, InFlight, TypeOK, ReqOK
    <3>2. Cardinality(InFlight') = Cardinality(InFlight) - 1
      BY <2>1, <3>1, FS_RemoveElement
    <3> QED
      BY <2>1, <2>2, <2>3, <3>2 DEF Ends, PermitsAccounted
  <2>4. ASSUME NEW r \in Req, Moves(r)
        PROVE  PermitsAccounted'
    <3>1. InFlight' = InFlight
      BY <2>4 DEF Moves, InFlight, TypeOK, ReqOK
    <3> QED
      BY <2>2, <2>4, <3>1 DEF Moves, PermitsAccounted
  <2>5. ASSUME NEW r \in Req, Admit(r)
        PROVE  PermitsAccounted'
    <3>1. InFlight' = InFlight \cup {r} /\ r \notin InFlight
      BY <2>5 DEF Admit, InFlight, TypeOK, ReqOK
    <3>2. Cardinality(InFlight') = Cardinality(InFlight) + 1
      BY <2>1, <3>1, FS_AddElement
    <3> QED
      BY <2>1, <2>2, <2>5, <3>2 DEF Admit, PermitsAccounted
  <2>6. CASE UNCHANGED <<pc, permits>>
    BY <2>2, <2>6 DEF PermitsAccounted, InFlight
  <2> QED
    BY <2>3, <2>4, <2>5, <2>6, StepMoves DEF TypeOK
<1>3. PermitsAccounted /\ UNCHANGED vars => PermitsAccounted'
  BY DEF PermitsAccounted, InFlight, vars, reqVars
<1> QED
  BY <1>1, <1>2, <1>3, TypeCorrect, PTL DEF Spec

-----------------------------------------------------------------------------
(* The ledger and the audit trail *)

\* What a step may do to the ledger of a session: keep it, forget it whole, or
\* remember the denial that a request at "remember" carries.
Remembered(r) ==
    /\ pc[r] = "remember"
    /\ denied' = [denied EXCEPT ![session[r]] = FirstReason(@, Tl(r), reason[r])]

LEMMA LedgerSteps ==
  ASSUME MemOK, ReqOK, Next
  PROVE  \/ \A s \in Session : denied'[s] = denied[s] \/ denied'[s] = Empty
         \/ \E r \in Req : Remembered(r)
<1>1. CASE UNCHANGED denied
  BY <1>1
<1>2. CASE Tick \/ Prune
  BY <1>2 DEF Tick, Prune
<1>3. ASSUME NEW r \in Req, RecallMemory(r)
      PROVE  \A s \in Session : denied'[s] = denied[s] \/ denied'[s] = Empty
  BY <1>3 DEF RecallMemory, MemOK
<1>4. ASSUME NEW r \in Req, RememberMemory(r) \/ RememberRedis(r)
      PROVE  Remembered(r) \/ UNCHANGED denied
  BY <1>4 DEF RememberMemory, RememberRedis, Remembered
<1> QED
  BY <1>1, <1>2, <1>3, <1>4
  DEF Next, Guards, RateLimited, Shed, Admit, Unauthorized, BodyRejected, BodyRead,
      Forward, UpstreamOk, UpstreamFails, StreamJudges, StreamEnds, ClientGone,
      Judge, Recall, RecallNoop, RecallRedis, TouchRedis, Connect, StartConnect,
      ConnectOk, NoMemory, Screen, PolicyAnswers, FailMode, Record, RecordReplay,
      Remember, RememberNoop, ExpireRedis, vars, memVars

LEMMA RememberedIs ==
  ASSUME NEW r \in Req, ReqOK, MemOK, Remembered(r), NEW s \in Session, NEW t \in Tool
  PROVE  denied'[s][t] =
           IF s = session[r] /\ t = Tl(r) /\ denied[s][t] = NoReason
           THEN reason[r] ELSE denied[s][t]
<1>1. session[r] \in Session /\ Tl(r) \in Tool
  BY ToolFacts DEF Remembered, Judging, WithTool
<1> QED
  BY <1>1 DEF Remembered, FirstReason, MemOK

\* For any sessions, tools and interleaving of overlapping denials: the reason
\* a ledger holds for a tool is never replaced; it goes only when the whole
\* ledger is forgotten.
THEOREM FirstReasonIsKept == Spec => FirstReasonKept
<1>1. TypeOK /\ [Next]_vars =>
        [\A s \in Session : \A t \in Refused(s) :
            denied'[s][t] = denied[s][t] \/ denied'[s] = Empty]_vars
  <2> SUFFICES ASSUME TypeOK, Next, NEW s \in Session, NEW t \in Refused(s)
               PROVE  denied'[s][t] = denied[s][t] \/ denied'[s] = Empty
    OBVIOUS
  <2>1. t \in Tool /\ denied[s][t] # NoReason
    BY DEF Refused
  <2>2. ASSUME NEW r \in Req, Remembered(r)
        PROVE  denied'[s][t] = denied[s][t]
    BY <2>1, <2>2, RememberedIs DEF TypeOK
  <2> QED
    BY <2>2, LedgerSteps DEF TypeOK
<1> QED
  BY <1>1, TypeCorrect, PTL DEF Spec, FirstReasonKept

\* What a request carries to the ledger: a reason, already in the audit trail
\* once the record has returned.
Carries(r) ==
    /\ pc[r] = "record" /\ Remembers(r) => reason[r] \in Reason
    /\ pc[r] \in {"remember", "connectToRemember"} =>
          reason[r] \in Reason /\ <<session[r], Tl(r), reason[r]>> \in audit

Trailed == \A r \in Req : Carries(r)

\* The state of the requests other than r stays.
Alone(r) ==
    \A x \in Req \ {r} :
        /\ pc'[x] = pc[x] /\ session'[x] = session[x] /\ todo'[x] = todo[x]
        /\ leg'[x] = leg[x] /\ verdict'[x] = verdict[x] /\ reason'[x] = reason[x]

LEMMA CarriesAlone ==
  ASSUME NEW r \in Req, Trailed, Alone(r), audit \subseteq audit', Carries(r)'
  PROVE  Trailed'
<1>1. ASSUME NEW x \in Req \ {r}
      PROVE  Carries(x)'
  BY <1>1 DEF Trailed, Alone, Carries, Remembers, Tl
<1> QED
  BY <1>1 DEF Trailed

LEMMA GoesAlone ==
  ASSUME NEW r \in Req, ReqOK, NEW where, NEW v, NEW w, Goes(r, where, v, w),
         UNCHANGED todo \/ \E q : todo' = [todo EXCEPT ![r] = q]
  PROVE  Alone(r) /\ pc'[r] = where /\ verdict'[r] = v /\ reason'[r] = w
  BY DEF Goes, Alone, ReqOK

LEMMA OverAlone ==
  ASSUME NEW r \in Req, ReqOK, Over(r)
  PROVE  Alone(r) /\ pc'[r] = "idle"
  BY DEF Over, Alone, ReqOK

LEMMA SettlesAlone ==
  ASSUME NEW r \in Req, ReqOK, Settles(r)
  PROVE  Alone(r) /\ pc'[r] \in {"idle", "stream"}
  BY OverAlone, GoesAlone DEF Settles

\* The places where a request carries nothing to the ledger.
Light == Pc \ {"record", "remember", "connectToRemember"}

LEMMA LightCarries ==
  ASSUME NEW r \in Req, pc'[r] \in Light
  PROVE  Carries(r)'
  BY DEF Light, Carries

LEMMA JudgeTrailed ==
  ASSUME NEW r \in Req, ReqOK, MemOK, Trailed, Judge(r)
  PROVE  Trailed'
<1>1. audit \subseteq audit'
  BY DEF Judge, Recall, RecallNoop, RecallMemory, RecallRedis, TouchRedis,
         Connect, StartConnect, ConnectOk, NoMemory, Screen, PolicyAnswers, FailMode,
         Record, RecordReplay, Remember, RememberNoop, RememberMemory, RememberRedis,
         ExpireRedis, memVars
<1> SUFFICES Alone(r) /\ Carries(r)'
  BY <1>1, CarriesAlone
<1>2. CASE Settles(r)
  BY <1>2, SettlesAlone, LightCarries DEF Light, Pc
<1>3. CASE \E where \in Light : \E v, w : Goes(r, where, v, w) /\ UNCHANGED todo
  BY <1>3, GoesAlone, LightCarries
<1>4. CASE Missed(r) \/ Hit(r, "touch") \/ Hit(r, "replay")
  BY <1>3, <1>4 DEF Missed, Hit, Light, Pc, Judging, WithTool
<1>5. CASE StartConnect(r) \/ ConnectOk(r)
  <2>1. PICK where \in {"connectToRecall", "recall", "connectToRemember", "remember"} :
          /\ Goes(r, where, verdict[r], reason[r]) /\ UNCHANGED <<todo, audit>>
          /\ where \in {"connectToRemember", "remember"} =>
                pc[r] \in {"connectToRemember", "remember"}
    BY <1>5 DEF StartConnect, Unconnected, ConnectOk
  <2>2. Alone(r) /\ pc'[r] = where /\ reason'[r] = reason[r] /\ session' = session
    BY <2>1, GoesAlone DEF Goes
  <2>3. Carries(r)'
    BY <2>1, <2>2 DEF Trailed, Carries, Tl
  <2> QED
    BY <2>2, <2>3
<1>6. CASE Screen(r)
  <2>1. CASE Goes(r, "decide", "Allow", NoReason) /\ UNCHANGED todo
    BY <1>3, <2>1 DEF Light, Pc, Judging
  <2>2. CASE Goes(r, "record", "Deny", "Url") /\ UNCHANGED todo
    <3>1. Alone(r) /\ pc'[r] = "record" /\ reason'[r] = "Url"
      BY <2>2, GoesAlone
    <3> QED
      BY <3>1 DEF Carries, Reason
  <2> QED
    BY <1>6, <2>1, <2>2 DEF Screen
<1>7. ASSUME NEW v \in Verdict, Decided(r, v), pc[r] = "decide"
      PROVE  Alone(r) /\ Carries(r)'
  <2>1. CASE Takes(r, Tail(todo[r]))
    <3> DEFINE where == IF Tail(todo[r]) = <<>> THEN "upstream"
                        ELSE Entry(Head(Tail(todo[r])))
    <3>1. where \in Light
      BY DEF Entry, Light, Pc, Judging, WithTool
    <3>2. Goes(r, where, "Allow", NoReason) /\ todo' = [todo EXCEPT ![r] = Tail(todo[r])]
      BY <2>1 DEF Takes
    <3> HIDE DEF where
    <3> QED
      BY <3>1, <3>2, GoesAlone, LightCarries
  <2>2. CASE leg[r] = "request" /\ v # "Allow" /\ Goes(r, "record", v, v) /\ UNCHANGED todo
    <3>1. Alone(r) /\ pc'[r] = "record" /\ reason'[r] = v
      BY <2>2, GoesAlone
    <3> QED
      BY <2>2, <3>1 DEF Carries, Reason, Verdict
  <2>3. CASE /\ leg[r] # "request" /\ UNCHANGED todo
             /\ Goes(r, "record", v, IF v \in {"Deny", "Terminate"} THEN v ELSE NoReason)
    <3> DEFINE w == IF v \in {"Deny", "Terminate"} THEN v ELSE NoReason
    <3>1. Alone(r) /\ pc'[r] = "record" /\ reason'[r] = w /\ verdict'[r] = v
      BY <2>3, GoesAlone
    <3>2. leg' = leg
      BY <2>3 DEF Goes
    <3> QED
      BY <2>3, <3>1, <3>2 DEF Carries, Remembers, Reason, Verdict
  <2> QED
    BY <1>7, <2>1, <2>2, <2>3 DEF Decided
<1>8. CASE Record(r) /\ Remembers(r)
  <2>1. Goes(r, "remember", verdict[r], reason[r]) /\ UNCHANGED todo /\ pc[r] = "record"
        /\ audit' = audit \cup Trail(r)
    BY <1>8 DEF Record
  <2>2. Alone(r) /\ pc'[r] = "remember" /\ reason'[r] = reason[r] /\ session' = session
    BY <2>1, GoesAlone DEF Goes
  <2>3. reason[r] \in Reason /\ Tl(r) \in Tool
    BY <1>8, <2>1, ToolFacts DEF Trailed, Carries, Judging, Remembers
  <2>4. <<session[r], Tl(r), reason[r]>> \in Trail(r)
    BY <2>3 DEF Trail
  <2> QED
    BY <2>1, <2>2, <2>3, <2>4 DEF Carries, Tl
<1>9. CASE Recall(r)
  <2>1. CASE TouchRedis(r)
    BY <1>3, <2>1 DEF TouchRedis, Light, Pc, Judging, WithTool
  <2> QED
    BY <1>4, <1>9, <2>1 DEF Recall, RecallNoop, RecallMemory, RecallRedis
<1>10. CASE Connect(r)
  BY <1>2, <1>4, <1>5, <1>10 DEF Connect, NoMemory
<1>11. CASE Remember(r)
  <2>1. Settles(r) \/ (Goes(r, "expire", verdict[r], reason[r]) /\ UNCHANGED todo)
    BY <1>11 DEF Remember, RememberNoop, RememberMemory, RememberRedis, ExpireRedis
  <2> QED
    BY <1>2, <1>3, <2>1 DEF Light, Pc, Judging, WithTool
<1> QED
  BY <1>2, <1>6, <1>7, <1>8, <1>9, <1>10, <1>11, VerdictsAssumption
  DEF Judge, PolicyAnswers, FailMode, Record, RecordReplay, Verdict

LEMMA StepTrailed ==
  ASSUME ReqOK, MemOK, Trailed, Next
  PROVE  Trailed' /\ audit \subseteq audit'
<1>1. CASE UNCHANGED <<reqVars, audit>>
  BY <1>1 DEF Trailed, Carries, Remembers, Tl, reqVars
<1>2. ASSUME NEW r \in Req, UNCHANGED audit, Alone(r), pc'[r] \in Light
      PROVE  Trailed'
  BY <1>2, CarriesAlone, LightCarries
<1>3. ASSUME NEW r \in Req, UNCHANGED audit, Over(r)
      PROVE  Trailed'
  BY <1>2, <1>3, OverAlone DEF Light, Pc
<1>4. ASSUME NEW r \in Req, Admit(r) \/ UpstreamOk(r)
      PROVE  Trailed' /\ UNCHANGED audit
  BY <1>2, <1>4 DEF Admit, UpstreamOk, Alone, ReqOK, Light, Pc
<1>5. ASSUME NEW r \in Req, BodyRead(r)
      PROVE  Trailed' /\ UNCHANGED audit
  <2>1. \A i : Entry(i) \in Light
    BY DEF Entry, Light, Pc, Judging, WithTool
  <2>2. Alone(r) /\ pc'[r] \in Light
    BY <1>5, <2>1 DEF BodyRead, Alone, ReqOK, Light, Pc
  <2> QED
    BY <1>2, <1>5, <2>2 DEF BodyRead
<1>6. ASSUME NEW r \in Req, StreamJudges(r)
      PROVE  Trailed' /\ UNCHANGED audit
  <2>1. \A i : Entry(i) \in Light
    BY DEF Entry, Light, Pc, Judging, WithTool
  <2>2. PICK i \in Streamed : Takes(r, <<i>>)
    BY <1>6 DEF StreamJudges
  <2>3. Alone(r) /\ pc'[r] \in Light
    BY <2>1, <2>2, GoesAlone DEF Takes, Light, Pc
  <2> QED
    BY <1>2, <1>6, <2>3 DEF StreamJudges
<1>7. ASSUME NEW r \in Req, Judge(r)
      PROVE  audit \subseteq audit'
  BY <1>7
  DEF Judge, Recall, RecallNoop, RecallMemory, RecallRedis, TouchRedis,
      Connect, StartConnect, ConnectOk, NoMemory, Screen, PolicyAnswers, FailMode,
      Record, RecordReplay, Remember, RememberNoop, RememberMemory, RememberRedis,
      ExpireRedis, memVars
<1> QED
  BY <1>1, <1>3, <1>4, <1>5, <1>6, <1>7, JudgeTrailed
  DEF Next, Guards, RateLimited, Shed, Unauthorized, BodyRejected, Forward, vars,
      UpstreamFails, StreamEnds, ClientGone, Tick, Prune

RecInv == TypeOK /\ Trailed /\ QuarantineWasRecorded

LEMMA RecInvHolds == Spec => []RecInv
<1>1. Init => RecInv
  <2> SUFFICES ASSUME Init PROVE RecInv
    OBVIOUS
  <2>1. Trailed
    BY DEF Init, Trailed, Carries
  <2>2. QuarantineWasRecorded
    BY DEF Init, QuarantineWasRecorded, Refused, Empty
  <2> QED
    BY <2>1, <2>2, InitOK DEF RecInv, TypeOK
<1>2. RecInv /\ Next => RecInv'
  <2> SUFFICES ASSUME RecInv, Next PROVE RecInv'
    OBVIOUS
  <2>1. TypeOK' /\ Trailed' /\ audit \subseteq audit'
    BY StepReq, StepMem, StepTrailed DEF RecInv, TypeOK
  <2>2. ASSUME NEW s \in Session, NEW t \in Tool, denied'[s][t] # NoReason
        PROVE  <<s, t, denied'[s][t]>> \in audit'
    <3>1. CASE denied'[s] = denied[s]
      BY <2>1, <2>2, <3>1 DEF RecInv, QuarantineWasRecorded, Refused
    <3>2. CASE denied'[s] = Empty
      BY <2>2, <3>2 DEF Empty
    <3>3. ASSUME NEW r \in Req, Remembered(r)
          PROVE  <<s, t, denied'[s][t]>> \in audit'
      <4>1. CASE denied'[s][t] = denied[s][t]
        BY <2>1, <2>2, <4>1 DEF RecInv, QuarantineWasRecorded, Refused
      <4>2. CASE s = session[r] /\ t = Tl(r) /\ denied'[s][t] = reason[r]
        BY <2>1, <3>3, <4>2 DEF RecInv, Trailed, Carries, Remembered
      <4> QED
        BY <3>3, <4>1, <4>2, RememberedIs DEF RecInv, TypeOK
    <3> QED
      BY <3>1, <3>2, <3>3, LedgerSteps DEF RecInv, TypeOK
  <2> QED
    BY <2>1, <2>2 DEF RecInv, QuarantineWasRecorded, Refused
<1>3. RecInv /\ UNCHANGED vars => RecInv'
  BY DEF RecInv, TypeOK, ReqOK, MemOK, WayOK, Trailed, Carries, Remembers, Tl,
         QuarantineWasRecorded, Refused, vars, reqVars, memVars
<1> QED
  BY <1>1, <1>2, <1>3, PTL DEF Spec

\* For any sessions, tools, backends and interleaving: no tool is quarantined
\* for a reason that is not already in the audit trail of its session.
THEOREM QuarantineIsTrailed == Spec => []QuarantineWasRecorded
  BY RecInvHolds, PTL DEF RecInv

-----------------------------------------------------------------------------
(* The in-memory quarantine *)

\* In the in-memory ledger a session that is not idle has at least as long to
\* live as it may yet stay idle, and refuses all it is known to refuse.
Lasting(s) ==
    /\ left[s] \in Nat
    /\ known[s] # {} /\ idle[s] < Ttl =>
          left[s] >= Ttl - idle[s] /\ known[s] \subseteq Refused(s)

InMemory == cfg.backend = "memory" => \A s \in Session : Lasting(s)

\* What a session that comes back now is still to refuse.
Kept(s) == IF idle[s] < Ttl THEN known[s] ELSE {}

LEMMA ActiveIs ==
  ASSUME NEW r \in Req, ReqOK, MemOK, NEW T, ActiveWith(r, T), NEW s \in Session
  PROVE  /\ s = session[r] =>
              /\ idle'[s] = 0
              /\ known'[s] = T \cup Kept(s)
         /\ s # session[r] => idle'[s] = idle[s] /\ known'[s] = known[s]
  BY DEF ReqOK, MemOK, ActiveWith, Kept

LEMMA RecallLasting ==
  ASSUME NEW r \in Req, TypeOK, cfg.backend = "memory", NEW s \in Session, Lasting(s),
         RecallMemory(r)
  PROVE  Lasting(s)'
<1>1. left[s] \in Nat /\ idle[s] \in 0..Ttl /\ Ttl \in Nat \ {0} /\ session[r] \in Session
  BY BoundsAssumption DEF Lasting, TypeOK, MemOK, ReqOK
<1>2. CASE s # session[r]
  <2>1. left'[s] = left[s] /\ denied'[s] = denied[s]
    BY <1>1, <1>2 DEF RecallMemory, TypeOK, MemOK
  <2>2. idle'[s] = idle[s] /\ known'[s] = known[s]
    BY <1>2, ActiveIs DEF RecallMemory, TypeOK
  <2> QED
    BY <2>1, <2>2 DEF Lasting, Refused
<1>3. CASE s = session[r]
  <2>1. idle'[s] = 0 /\ known'[s] = Kept(s)
    <3>1. ActiveWith(r, {})
      BY DEF RecallMemory
    <3>2. idle'[s] = 0 /\ known'[s] = {} \cup Kept(s)
      BY <1>3, <3>1, ActiveIs DEF TypeOK
    <3> QED
      BY <3>2
  <2>2. CASE Live(s)
    <3>1. left'[s] = Ttl /\ denied'[s] = denied[s]
      BY <1>1, <1>3, <2>2 DEF RecallMemory, TypeOK, MemOK
    <3>2. Refused(s)' = Refused(s)
      BY <3>1 DEF Refused
    <3>3. Kept(s) \subseteq Refused(s)
      BY DEF Kept, Lasting
    <3>4. left'[s] = Ttl /\ idle'[s] = 0 /\ Ttl \in Nat
      BY <2>1, <3>1, BoundsAssumption
    <3>5. left'[s] \in Nat /\ left'[s] >= Ttl - idle'[s]
      BY <3>4
    <3> QED
      BY <2>1, <3>2, <3>3, <3>5 DEF Lasting
  <2>3. CASE ~Live(s)
    <3>1. left[s] = 0 /\ left'[s] = 0
      BY <1>1, <1>3, <2>3 DEF RecallMemory, Live, TypeOK, MemOK
    <3>2. ~(left[s] >= Ttl - idle[s]) \/ ~(idle[s] < Ttl)
      BY <1>1, <3>1
    <3>3. known'[s] = {}
      BY <2>1, <3>2 DEF Lasting, Kept
    <3> QED
      BY <3>1, <3>3 DEF Lasting
  <2> QED
    BY <2>2, <2>3
<1> QED
  BY <1>2, <1>3

LEMMA RememberLasting ==
  ASSUME NEW r \in Req, TypeOK, Trailed, cfg.backend = "memory", NEW s \in Session,
         Lasting(s), RememberMemory(r)
  PROVE  Lasting(s)'
<1>1. left[s] \in Nat /\ idle[s] \in 0..Ttl /\ Ttl \in Nat \ {0} /\ session[r] \in Session
  BY BoundsAssumption DEF Lasting, TypeOK, MemOK, ReqOK
<1>2. Remembered(r) /\ ActiveWith(r, {Tl(r)}) /\ pc[r] = "remember"
  BY DEF RememberMemory, Remembered
<1>3. Tl(r) \in Tool /\ reason[r] # NoReason
  <2>1. Tl(r) \in Tool
    BY <1>2, ToolFacts DEF TypeOK, Judging, WithTool
  <2>2. reason[r] \in Reason
    BY <1>2 DEF Trailed, Carries
  <2> QED
    BY <2>1, <2>2 DEF Reason, NoReason
<1>4. Refused(s) \subseteq Refused(s)'
  BY <1>2, <1>3, RememberedIs DEF TypeOK, Refused
<1>5. CASE s # session[r]
  <2>1. left'[s] = left[s]
    BY <1>1, <1>5 DEF RememberMemory, TypeOK, MemOK
  <2>2. idle'[s] = idle[s] /\ known'[s] = known[s]
    BY <1>2, <1>5, ActiveIs DEF TypeOK
  <2> QED
    BY <1>4, <2>1, <2>2 DEF Lasting
<1>6. CASE s = session[r]
  <2>1. idle'[s] = 0 /\ known'[s] = {Tl(r)} \cup Kept(s)
    BY <1>2, <1>6, ActiveIs DEF TypeOK
  <2>2. left'[s] = Ttl
    BY <1>1, <1>6 DEF RememberMemory, TypeOK, MemOK
  <2>3. Tl(r) \in Refused(s)'
    BY <1>2, <1>3, <1>6, RememberedIs DEF TypeOK, Refused
  <2>4. known'[s] \subseteq Refused(s)'
    BY <1>4, <2>1, <2>3 DEF Lasting, Kept
  <2> QED
    BY <1>1, <2>1, <2>2, <2>4 DEF Lasting
<1> QED
  BY <1>5, <1>6

\* The steps that touch neither the memory nor its history, in-memory.
LEMMA OtherSteps ==
  ASSUME TypeOK, cfg.backend = "memory", Next
  PROVE  \/ UNCHANGED <<left, denied, idle, known>>
         \/ Tick \/ Prune
         \/ \E r \in Req : RecallMemory(r) \/ RememberMemory(r)
<1>1. ASSUME NEW r \in Req, pc[r] \in InRedis
      PROVE  FALSE
  BY <1>1 DEF TypeOK, ReqOK, WayOK
<1>2. ASSUME NEW r \in Req, Recall(r)
      PROVE  RecallMemory(r)
  BY <1>1, <1>2 DEF Recall, RecallNoop, RecallRedis, TouchRedis, InRedis
<1>3. ASSUME NEW r \in Req, Remember(r)
      PROVE  RememberMemory(r)
  BY <1>1, <1>3 DEF Remember, RememberNoop, RememberRedis, ExpireRedis, InRedis
<1>4. ASSUME NEW r \in Req, Connect(r)
      PROVE  FALSE
  BY <1>1, <1>4 DEF Connect, StartConnect, ConnectOk, NoMemory, Unconnected, InRedis
<1> QED
  BY <1>2, <1>3, <1>4
  DEF Next, Guards, RateLimited, Shed, Admit, Unauthorized, BodyRejected, BodyRead,
      Forward, UpstreamOk, UpstreamFails, StreamJudges, StreamEnds, ClientGone,
      Judge, Screen, PolicyAnswers, FailMode, Record, RecordReplay, vars, memVars

LEMMA StepLasting ==
  ASSUME RecInv, InMemory, Next
  PROVE  InMemory'
<1>1. cfg' = cfg
  BY DEF Next, Guards, RateLimited, Shed, Admit, Unauthorized, BodyRejected, BodyRead,
         Forward, UpstreamOk, UpstreamFails, StreamJudges, StreamEnds, ClientGone,
         Judge, Recall, RecallNoop, RecallMemory, RecallRedis, TouchRedis,
         Connect, StartConnect, ConnectOk, NoMemory, Screen, PolicyAnswers, FailMode,
         Record, RecordReplay, Remember, RememberNoop, RememberMemory, RememberRedis,
         ExpireRedis, Tick, Prune, vars
<1> SUFFICES ASSUME cfg.backend = "memory", NEW s \in Session PROVE Lasting(s)'
  BY <1>1 DEF InMemory
<1>2. TypeOK /\ Trailed /\ Lasting(s)
  BY DEF RecInv, InMemory
<1>3. left[s] \in Nat /\ idle[s] \in 0..Ttl /\ Ttl \in Nat \ {0}
  BY <1>2, BoundsAssumption DEF Lasting, TypeOK, MemOK
<1>4. CASE UNCHANGED <<left, denied, idle, known>>
  BY <1>2, <1>4 DEF Lasting, Refused
<1>5. CASE Tick
  <2>1. /\ left'[s] = (IF left[s] > 0 THEN left[s] - 1 ELSE left[s])
        /\ denied'[s] = denied[s] /\ known'[s] = known[s]
        /\ idle'[s] = IF idle[s] < Ttl THEN idle[s] + 1 ELSE Ttl
    BY <1>5 DEF Tick, Less, Evicted
  <2>2. Refused(s)' = Refused(s)
    BY <2>1 DEF Refused
  <2>3. left'[s] \in Nat
    BY <1>3, <2>1
  <2>4. ASSUME known[s] # {}, idle'[s] < Ttl
        PROVE  left'[s] >= Ttl - idle'[s] /\ known[s] \subseteq Refused(s)
    <3>1. idle[s] < Ttl /\ idle'[s] = idle[s] + 1
      BY <1>3, <2>1, <2>4
    <3>2. left[s] >= Ttl - idle[s] /\ known[s] \subseteq Refused(s)
      BY <1>2, <2>4, <3>1 DEF Lasting
    <3> QED
      BY <1>3, <2>1, <3>1, <3>2
  <2> QED
    BY <2>1, <2>2, <2>3, <2>4 DEF Lasting
<1>6. CASE Prune
  <2>1. /\ left' = left /\ idle' = idle /\ known' = known
        /\ Live(s) => denied'[s] = denied[s]
    BY <1>6 DEF Prune
  <2>2. Live(s) => Refused(s)' = Refused(s)
    BY <2>1 DEF Refused
  <2>3. known[s] # {} /\ idle[s] < Ttl => Live(s)
    BY <1>2, <1>3 DEF Lasting, Live
  <2> QED
    BY <1>2, <2>1, <2>2, <2>3 DEF Lasting
<1> QED
  BY <1>2, <1>4, <1>5, <1>6, OtherSteps, RecallLasting, RememberLasting

\* For any number of runs, sessions and tools and any time-to-live: with the
\* in-memory ledger a tool once quarantined stays refused for as long as its
\* session never stays away for a whole time-to-live.
THEOREM InMemoryQuarantineLasts == Spec => []MemoryQuarantineLasts
<1>1. Init => InMemory
  BY BoundsAssumption DEF Init, InMemory, Lasting
<1>2. InMemory /\ UNCHANGED vars => InMemory'
  BY DEF InMemory, Lasting, Refused, vars, memVars
<1>3. TypeOK /\ InMemory => MemoryQuarantineLasts
  <2> SUFFICES ASSUME TypeOK, InMemory, cfg.backend = "memory",
                      NEW s \in Session, NEW t \in known[s], idle[s] < Ttl
               PROVE  Live(s) /\ t \in Refused(s)
    BY DEF MemoryQuarantineLasts, SlidingQuarantine
  <2>1. left[s] \in Nat /\ left[s] >= Ttl - idle[s] /\ t \in Refused(s)
    BY DEF InMemory, Lasting
  <2>2. idle[s] \in 0..Ttl /\ Ttl \in Nat
    BY BoundsAssumption DEF TypeOK, MemOK
  <2> QED
    BY <2>1, <2>2 DEF Live
<1> QED
  BY <1>1, <1>2, <1>3, StepLasting, RecInvHolds, TypeCorrect, PTL DEF Spec

-----------------------------------------------------------------------------
(* Forgetting *)

\* The tools whose HSETNX is done and whose EXPIRE is still to come.
Pending(s) == {Tl(r) : r \in {x \in Req : pc[x] = "expire" /\ session[x] = s}}

\* A ledger lapses a TTL after the last activity at the latest.  One without an
\* expiry is Redis's, and holds nothing but writes whose EXPIRE is still to
\* come; one that lapsed in Redis is gone; any other holds what the session is
\* known to refuse and such writes.
Forgets(s) ==
    /\ left[s] <= Ttl - idle[s]
    /\ left[s] = Never => cfg.backend = "redis" /\ (s \in torn \/ Pending(s) # {})
    /\ cfg.backend = "redis" /\ left[s] = 0 => Refused(s) = {}
    /\ s \notin torn /\ left[s] = Never => Refused(s) \subseteq Pending(s)
    /\ s \notin torn /\ left[s] > 0 => Refused(s) \subseteq known[s] \cup Pending(s)

Forgetful == \A s \in Session : Forgets(s)

LEMMA TakesAlone ==
  ASSUME NEW r \in Req, ReqOK, NEW q, Takes(r, q)
  PROVE  Alone(r)
  BY GoesAlone DEF Takes

LEMMA DecidedAlone ==
  ASSUME NEW r \in Req, ReqOK, NEW v, Decided(r, v)
  PROVE  Alone(r)
  BY GoesAlone, TakesAlone DEF Decided

\* A step of a request leaves the others where they are.
LEMMA JudgeAlone ==
  ASSUME NEW r \in Req, ReqOK, Judge(r)
  PROVE  Alone(r)
<1>1. Missed(r) \/ Hit(r, "touch") \/ Hit(r, "replay") \/ Settles(r) => Alone(r)
  BY GoesAlone, SettlesAlone DEF Missed, Hit
<1>2. ASSUME NEW where, NEW v, NEW w, Goes(r, where, v, w), UNCHANGED todo
      PROVE  Alone(r)
  BY <1>2, GoesAlone
<1>3. Recall(r) => Alone(r)
  BY <1>1, <1>2 DEF Recall, RecallNoop, RecallMemory, RecallRedis, TouchRedis
<1>4. Connect(r) => Alone(r)
  BY <1>1, <1>2 DEF Connect, StartConnect, ConnectOk, NoMemory
<1>5. Screen(r) \/ PolicyAnswers(r) \/ FailMode(r) => Alone(r)
  BY <1>2, DecidedAlone DEF Screen, PolicyAnswers, FailMode
<1>6. Record(r) \/ RecordReplay(r) => Alone(r)
  BY <1>1, <1>2 DEF Record, RecordReplay
<1>7. Remember(r) => Alone(r)
  BY <1>1, <1>2 DEF Remember, RememberNoop, RememberMemory, RememberRedis, ExpireRedis
<1> QED
  BY <1>3, <1>4, <1>5, <1>6, <1>7 DEF Judge

\* A write stays pending until its own request moves on.
LEMMA PendingStays ==
  ASSUME NEW r \in Req, ReqOK, Alone(r), NEW s
  PROVE  /\ Pending(s) \ {Tl(r)} \subseteq Pending(s)'
         /\ pc[r] # "expire" \/ session[r] # s => Pending(s) \subseteq Pending(s)'
<1>1. ASSUME NEW x \in Req \ {r}, pc[x] = "expire", session[x] = s
      PROVE  Tl(x) \in Pending(s)'
  <2>1. Tl(x)' = Tl(x) /\ pc'[x] = "expire" /\ session'[x] = s
    BY <1>1 DEF Alone, Tl
  <2> QED
    BY <2>1 DEF Pending
<1> QED
  BY <1>1 DEF Pending

LEMMA ForgetsTypes ==
  ASSUME TypeOK, NEW s \in Session
  PROVE  /\ left[s] \in Nat \/ left[s] = -1
         /\ idle[s] \in 0..Ttl /\ Ttl \in Nat \ {0} /\ Never = -1
         /\ known[s] \subseteq Tool
  BY BoundsAssumption DEF TypeOK, MemOK, Never

\* The session of r is active.
Awake(s, T) == idle'[s] = 0 /\ known'[s] = T \cup Kept(s)

LEMMA ActiveNow ==
  ASSUME NEW r \in Req, TypeOK, NEW T, ActiveWith(r, T), NEW s \in Session, s = session[r]
  PROVE  Awake(s, T)
<1>1. ReqOK /\ MemOK
  BY DEF TypeOK
<1> QED
  BY <1>1, ActiveIs DEF Awake

\* A ledger with time left belongs to a session that is not idle.
LEMMA LiveIsKept ==
  ASSUME TypeOK, NEW s \in Session, Forgets(s), left[s] > 0
  PROVE  Kept(s) = known[s]
  BY ForgetsTypes DEF Forgets, Kept

\* Steps that leave the ledger of s alone, and only add to what is pending.
LEMMA QuietForgets ==
  ASSUME TypeOK, NEW s \in Session, Forgets(s), cfg' = cfg,
         left'[s] = left[s], denied'[s] = denied[s],
         idle'[s] = idle[s], known'[s] = known[s], s \in torn => s \in torn',
         s \in torn' \/ Pending(s) \subseteq Pending(s)'
  PROVE  Forgets(s)'
<1>1. Refused(s)' = Refused(s)
  BY DEF Refused
<1>2. left'[s] <= Ttl - idle'[s]
  BY DEF Forgets
<1>3. left'[s] = Never => cfg'.backend = "redis" /\ (s \in torn' \/ Pending(s)' # {})
  BY DEF Forgets
<1>4. cfg'.backend = "redis" /\ left'[s] = 0 => Refused(s)' = {}
  BY <1>1 DEF Forgets
<1>5. s \notin torn' /\ left'[s] = Never => Refused(s)' \subseteq Pending(s)'
  BY <1>1 DEF Forgets
<1>6. s \notin torn' /\ left'[s] > 0 => Refused(s)' \subseteq known'[s] \cup Pending(s)'
  BY <1>1 DEF Forgets
<1> QED
  BY <1>2, <1>3, <1>4, <1>5, <1>6 DEF Forgets

\* The session of r is active, and its ledger stays, or is refreshed.
LEMMA ActiveForgets ==
  ASSUME NEW r \in Req, TypeOK, NEW s \in Session, Forgets(s), cfg' = cfg, NEW T,
         ActiveWith(r, T), denied'[s] = denied[s], s \in torn' <=> s \in torn,
         left'[s] = left[s] \/ (s = session[r] /\ left[s] # 0 /\ left'[s] = Ttl),
         Pending(s) \subseteq Pending(s)'
  PROVE  Forgets(s)'
<1>1. CASE s # session[r]
  BY <1>1, ActiveIs, QuietForgets DEF TypeOK
<1>2. CASE s = session[r]
  <2>1. idle'[s] = 0 /\ known'[s] = T \cup Kept(s)
    <3>1. Awake(s, T)
      BY <1>2, ActiveNow
    <3> QED
      BY <3>1 DEF Awake
  <2>2. Refused(s)' = Refused(s)
    BY DEF Refused
  <2>3. left'[s] <= Ttl - idle'[s]
    <3>1. /\ left[s] \in Nat \/ left[s] = -1
          /\ idle[s] \in 0..Ttl /\ Ttl \in Nat \ {0} /\ Never = -1
      BY ForgetsTypes
    <3>2. left[s] <= Ttl - idle[s]
      BY DEF Forgets
    <3>3. idle'[s] = 0 /\ (left'[s] = left[s] \/ left'[s] = Ttl)
      BY <2>1
    <3> QED
      BY <3>1, <3>2, <3>3
  <2>4. /\ left'[s] = Never => left[s] = Never
        /\ left'[s] = 0 => left[s] = 0
        /\ left'[s] > 0 => left[s] > 0 \/ left[s] = Never
    BY ForgetsTypes
  <2>5. left'[s] = Never => cfg'.backend = "redis" /\ (s \in torn' \/ Pending(s)' # {})
    BY <2>4 DEF Forgets
  <2>6. cfg'.backend = "redis" /\ left'[s] = 0 => Refused(s)' = {}
    BY <2>2, <2>4 DEF Forgets
  <2>7. s \notin torn' /\ left'[s] = Never => Refused(s)' \subseteq Pending(s)'
    BY <2>2, <2>4 DEF Forgets
  <2>8. s \notin torn' /\ left'[s] > 0 => Refused(s)' \subseteq known'[s] \cup Pending(s)'
    BY <2>1, <2>2, <2>4, LiveIsKept DEF Forgets
  <2> QED
    BY <2>3, <2>5, <2>6, <2>7, <2>8 DEF Forgets
<1> QED
  BY <1>1, <1>2

LEMMA TickForgets ==
  ASSUME TypeOK, NEW s \in Session, Forgets(s), Tick
  PROVE  Forgets(s)'
<1>1. /\ left'[s] = (IF left[s] > 0 THEN left[s] - 1 ELSE left[s])
      /\ denied'[s] = (IF Evicted(s) THEN Empty ELSE denied[s])
      /\ known'[s] = known[s] /\ torn' = torn /\ cfg' = cfg
      /\ idle'[s] = (IF idle[s] < Ttl THEN idle[s] + 1 ELSE Ttl)
  BY DEF Tick, Less
<1>2. Pending(s)' = Pending(s)
  BY DEF Tick, Pending, Tl, reqVars
<1>3. Refused(s)' = IF Evicted(s) THEN {} ELSE Refused(s)
  BY <1>1 DEF Refused, Empty
<1>4. left'[s] <= Ttl - idle'[s]
  <2>1. /\ left[s] \in Nat \/ left[s] = -1
        /\ idle[s] \in 0..Ttl /\ Ttl \in Nat \ {0} /\ Never = -1
    BY ForgetsTypes
  <2>2. left[s] <= Ttl - idle[s]
    BY DEF Forgets
  <2> QED
    BY <1>1, <2>1, <2>2
<1>5. /\ left'[s] = Never <=> left[s] = Never
      /\ left'[s] > 0 => left[s] > 0
      /\ left'[s] = 0 => left[s] \in {0, 1}
  BY <1>1, ForgetsTypes
<1>6. left'[s] = Never => cfg'.backend = "redis" /\ (s \in torn' \/ Pending(s)' # {})
  BY <1>1, <1>2, <1>5 DEF Forgets
<1>7. cfg'.backend = "redis" /\ left'[s] = 0 => Refused(s)' = {}
  BY <1>1, <1>3, <1>5 DEF Forgets, Evicted
<1>8. s \notin torn' /\ left'[s] = Never => Refused(s)' \subseteq Pending(s)'
  BY <1>1, <1>2, <1>3, <1>5 DEF Forgets
<1>9. s \notin torn' /\ left'[s] > 0 => Refused(s)' \subseteq known'[s] \cup Pending(s)'
  BY <1>1, <1>2, <1>3, <1>5 DEF Forgets
<1> QED
  BY <1>4, <1>6, <1>7, <1>8, <1>9 DEF Forgets

LEMMA PruneForgets ==
  ASSUME TypeOK, NEW s \in Session, Forgets(s), Prune
  PROVE  Forgets(s)'
<1>1. /\ left' = left /\ known' = known /\ torn' = torn /\ cfg' = cfg /\ idle' = idle
      /\ denied'[s] = (IF Live(s) THEN denied[s] ELSE Empty)
  BY DEF Prune
<1>2. Pending(s)' = Pending(s)
  BY DEF Prune, Pending, Tl, reqVars
<1>3. Refused(s)' \subseteq Refused(s)
  BY <1>1 DEF Refused, Empty
<1> QED
  BY <1>1, <1>2, <1>3 DEF Forgets

LEMMA RecallMemoryForgets ==
  ASSUME NEW r \in Req, TypeOK, NEW s \in Session, Forgets(s), RecallMemory(r),
         Pending(s) \subseteq Pending(s)'
  PROVE  Forgets(s)'
<1>1. ActiveWith(r, {}) /\ cfg' = cfg /\ torn' = torn /\ session[r] \in Session
  BY DEF RecallMemory, TypeOK, ReqOK
<1>2. left[s] # Never
  BY DEF RecallMemory, Forgets
<1>3. CASE s = session[r] /\ ~Live(s)
  <2>1. left'[s] = 0 /\ denied'[s] = Empty
    BY <1>1, <1>3 DEF RecallMemory, TypeOK, MemOK
  <2>2. Refused(s)' = {}
    BY <2>1 DEF Refused, Empty
  <2>3. idle'[s] = 0
    <3>1. Awake(s, {})
      BY <1>1, <1>3, ActiveNow
    <3> QED
      BY <3>1 DEF Awake
  <2>4. left'[s] <= Ttl - idle'[s] /\ left'[s] # Never /\ ~(left'[s] > 0)
    <3>1. /\ left[s] \in Nat \/ left[s] = -1
          /\ idle[s] \in 0..Ttl /\ Ttl \in Nat \ {0} /\ Never = -1
      BY ForgetsTypes
    <3> QED
      BY <2>1, <2>3, <3>1
  <2> QED
    BY <2>2, <2>4 DEF Forgets
<1>4. CASE s # session[r] \/ Live(s)
  <2>1. denied'[s] = denied[s]
    BY <1>1, <1>4 DEF RecallMemory, TypeOK, MemOK
  <2>2. left'[s] = left[s] \/ (s = session[r] /\ left'[s] = Ttl)
    BY <1>1, <1>4 DEF RecallMemory, TypeOK, MemOK
  <2>3. s = session[r] => left[s] # 0
    BY <1>4 DEF Live
  <2> QED
    BY <1>1, <2>1, <2>2, <2>3, ActiveForgets
<1> QED
  BY <1>3, <1>4

\* What a write adds to the ledger of its session.
LEMMA WriteRefuses ==
  ASSUME NEW r \in Req, TypeOK, Remembered(r), NEW s \in Session
  PROVE  /\ Refused(s)' \subseteq Refused(s) \cup {Tl(r)}
         /\ s # session[r] => Refused(s)' = Refused(s)
  BY RememberedIs DEF Refused, TypeOK

LEMMA RememberMemoryForgets ==
  ASSUME NEW r \in Req, TypeOK, NEW s \in Session, Forgets(s), RememberMemory(r),
         Pending(s) \subseteq Pending(s)'
  PROVE  Forgets(s)'
<1>1. /\ ActiveWith(r, {Tl(r)}) /\ cfg' = cfg /\ session[r] \in Session
      /\ Remembered(r) /\ torn \subseteq torn'
  BY DEF RememberMemory, Remembered, TypeOK, ReqOK
<1>2. left[s] # Never
  BY DEF RememberMemory, Forgets
<1>3. CASE s # session[r]
  <2>1. left'[s] = left[s] /\ denied'[s] = denied[s]
    BY <1>1, <1>3 DEF RememberMemory, TypeOK, MemOK
  <2>2. idle'[s] = idle[s] /\ known'[s] = known[s]
    BY <1>1, <1>3, ActiveIs DEF TypeOK
  <2> QED
    BY <1>1, <2>1, <2>2, QuietForgets
<1>4. CASE s = session[r]
  <2>1. idle'[s] = 0 /\ known'[s] = {Tl(r)} \cup Kept(s)
    <3>1. Awake(s, {Tl(r)})
      BY <1>1, <1>4, ActiveNow
    <3> QED
      BY <3>1 DEF Awake
  <2>2. left'[s] = Ttl
    BY <1>1, <1>4 DEF RememberMemory, TypeOK, MemOK
  <2>3. left'[s] <= Ttl - idle'[s] /\ left'[s] # Never /\ left'[s] # 0
    <3>1. /\ left[s] \in Nat \/ left[s] = -1
          /\ idle[s] \in 0..Ttl /\ Ttl \in Nat \ {0} /\ Never = -1
      BY ForgetsTypes
    <3>2. idle'[s] = 0
      BY <2>1
    <3> QED
      BY <2>2, <3>1, <3>2
  <2>4. ASSUME s \notin torn'
        PROVE  Refused(s)' \subseteq known'[s] \cup Pending(s)'
    <3>1. CASE Live(s)
      <4>1. left[s] > 0
        BY <1>2, <3>1, ForgetsTypes DEF Live
      <4>2. Refused(s) \subseteq known[s] \cup Pending(s)
        BY <1>1, <2>4, <4>1 DEF Forgets
      <4> QED
        BY <1>1, <2>1, <4>1, <4>2, LiveIsKept, WriteRefuses
    <3>2. CASE ~Live(s)
      <4>1. denied[s] = Empty
        BY <1>4, <2>4, <3>2 DEF RememberMemory
      <4>2. Refused(s) = {}
        BY <4>1 DEF Refused, Empty
      <4> QED
        BY <1>1, <2>1, <4>2, WriteRefuses
    <3> QED
      BY <3>1, <3>2
  <2> QED
    BY <2>3, <2>4 DEF Forgets
<1> QED
  BY <1>3, <1>4

\* The key does not outlive the session's idle time, and only one that is new has no
\* time to live.
Lasts(old, new, i, ttl) ==
  /\ new <= ttl - i /\ new # 0
  /\ new = Never => old = 0 \/ old = Never
  /\ new > 0 => old > 0

LEMMA FirstWriteLasts ==
  ASSUME NEW old, NEW new, NEW ttl \in Nat \ {0}, NEW i, NEW j \in 0..ttl,
         old \in Nat \/ old = -1, old <= ttl - j, Never = -1, i = 0,
         new = IF old = 0 THEN Never ELSE old
  PROVE  Lasts(old, new, i, ttl)
<1>1. CASE old = 0
  <2>1. new = -1
    BY <1>1
  <2> QED
    BY <1>1, <2>1 DEF Lasts
<1>2. CASE old # 0
  <2>1. new = old
    BY <1>2
  <2> QED
    BY <1>2, <2>1 DEF Lasts
<1> QED
  BY <1>1, <1>2

\* HSETNX: the write is pending from here on.
LEMMA HsetnxForgets ==
  ASSUME NEW r \in Req, TypeOK, NEW s \in Session, Forgets(s), cfg' = cfg, torn' = torn,
         cfg.backend = "redis", Remembered(r), ActiveWith(r, {Tl(r)}),
         left' = [left EXCEPT ![session[r]] = IF @ = 0 THEN Never ELSE @],
         Goes(r, "expire", verdict[r], reason[r]), UNCHANGED todo,
         Pending(s) \subseteq Pending(s)'
  PROVE  Forgets(s)'
<1>1. session[r] \in Session
  BY DEF TypeOK, ReqOK
<1>2. CASE s # session[r]
  <2>1. left'[s] = left[s] /\ Refused(s)' = Refused(s) /\ denied'[s] = denied[s]
    BY <1>1, <1>2, WriteRefuses DEF Remembered, TypeOK, MemOK
  <2>2. idle'[s] = idle[s] /\ known'[s] = known[s]
    BY <1>2, ActiveIs DEF TypeOK
  <2> QED
    BY <2>1, <2>2, QuietForgets
<1>3. CASE s = session[r]
  <2>1. idle'[s] = 0 /\ known'[s] = {Tl(r)} \cup Kept(s)
    <3>1. Awake(s, {Tl(r)})
      BY <1>3, ActiveNow
    <3> QED
      BY <3>1 DEF Awake
  <2>2. left'[s] = IF left[s] = 0 THEN Never ELSE left[s]
    BY <1>3 DEF TypeOK, MemOK
  <2>3. Tl(r) \in Pending(s)'
    <3>1. pc'[r] = "expire" /\ session'[r] = s /\ Tl(r)' = Tl(r)
      BY <1>3 DEF Goes, TypeOK, ReqOK, Tl
    <3> QED
      BY <3>1 DEF Pending
  <2>4. /\ left'[s] <= Ttl - idle'[s] /\ left'[s] # 0
        /\ left'[s] = Never => left[s] = 0 \/ left[s] = Never
        /\ left'[s] > 0 => left[s] > 0
    <3>1. /\ left[s] \in Nat \/ left[s] = -1
          /\ idle[s] \in 0..Ttl /\ Ttl \in Nat \ {0} /\ Never = -1
      BY ForgetsTypes
    <3>2. left[s] <= Ttl - idle[s]
      BY DEF Forgets
    <3>3. idle'[s] = 0
      BY <2>1
    <3>4. Lasts(left[s], left'[s], idle'[s], Ttl)
      BY <2>2, <3>1, <3>2, <3>3, FirstWriteLasts
    <3> QED
      BY <3>4 DEF Lasts
  <2>5. Refused(s)' \subseteq Refused(s) \cup {Tl(r)}
    BY WriteRefuses
  <2>6. left'[s] = Never /\ s \notin torn => Refused(s)' \subseteq Pending(s)'
    BY <2>3, <2>4, <2>5 DEF Forgets
  <2>7. left'[s] > 0 /\ s \notin torn => Refused(s)' \subseteq known'[s] \cup Pending(s)'
    BY <2>1, <2>3, <2>4, <2>5, LiveIsKept DEF Forgets
  <2> QED
    BY <2>3, <2>4, <2>6, <2>7 DEF Forgets
<1> QED
  BY <1>2, <1>3

\* EXPIRE: what was pending is known from here on, or the write is torn.
LEMMA ExpireForgets ==
  ASSUME NEW r \in Req, TypeOK, NEW s \in Session, Forgets(s), ExpireRedis(r)
  PROVE  Forgets(s)'
<1> DEFINE T == {Tl(r)} \cap {t \in Tool : Ledger(r)[t] # NoReason}
<1>1. /\ ActiveWith(r, T) /\ cfg' = cfg /\ denied' = denied /\ torn \subseteq torn'
      /\ pc[r] = "expire" /\ session[r] \in Session /\ Alone(r)
      /\ cfg.backend = "redis"
  BY SettlesAlone DEF ExpireRedis, TypeOK, ReqOK, WayOK, InRedis
<1>2. Refused(s)' = Refused(s)
  BY <1>1 DEF Refused
<1>3. s = session[r] => T = {Tl(r)} \cap Refused(s)
  BY DEF Refused, Ledger
<1> HIDE DEF T
<1>4. CASE s # session[r]
  <2>1. left'[s] = left[s]
    BY <1>1, <1>4 DEF ExpireRedis, SetTtl, TypeOK, MemOK
  <2>2. idle'[s] = idle[s] /\ known'[s] = known[s]
    BY <1>1, <1>4, ActiveIs DEF TypeOK
  <2> QED
    BY <1>1, <1>4, <2>1, <2>2, QuietForgets, PendingStays DEF TypeOK
<1>5. CASE s = session[r]
  <2>1. idle'[s] = 0 /\ known'[s] = T \cup Kept(s)
    <3>1. Awake(s, T)
      BY <1>1, <1>5, ActiveNow
    <3> QED
      BY <3>1 DEF Awake
  <2>2. CASE s \in torn' /\ left' = left
    <3>1. left'[s] <= Ttl - idle'[s]
      <4>1. /\ left[s] \in Nat \/ left[s] = -1
            /\ idle[s] \in 0..Ttl /\ Ttl \in Nat \ {0} /\ Never = -1
        BY ForgetsTypes
      <4>2. left[s] <= Ttl - idle[s]
        BY DEF Forgets
      <4>3. idle'[s] = 0 /\ left'[s] = left[s]
        BY <2>1, <2>2
      <4> QED
        BY <4>1, <4>2, <4>3
    <3> QED
      BY <1>1, <1>2, <2>2, <3>1 DEF Forgets
  <2>3. CASE SetTtl(session[r]) /\ torn' = torn
    <3>1. left'[s] = IF left[s] # 0 THEN Ttl ELSE left[s]
      BY <1>5, <2>3 DEF SetTtl, Live, TypeOK, MemOK
    <3>2. left'[s] <= Ttl - idle'[s] /\ left'[s] # Never /\ (left'[s] = 0 => left[s] = 0)
      <4>1. /\ left[s] \in Nat \/ left[s] = -1
            /\ idle[s] \in 0..Ttl /\ Ttl \in Nat \ {0} /\ Never = -1
        BY ForgetsTypes
      <4>2. idle'[s] = 0
        BY <2>1
      <4> QED
        BY <3>1, <4>1, <4>2
    <3>3. ASSUME s \notin torn', left'[s] > 0
          PROVE  Refused(s)' \subseteq known'[s] \cup Pending(s)'
      <4>1. left[s] = Never \/ left[s] > 0
        BY <3>1, <3>3, ForgetsTypes
      <4>2. Pending(s) \ {Tl(r)} \subseteq Pending(s)'
        BY <1>1, PendingStays DEF TypeOK
      <4>3. CASE left[s] = Never
        <5>1. Refused(s) \subseteq Pending(s)
          BY <2>3, <3>3, <4>3 DEF Forgets
        <5> QED
          BY <1>2, <1>3, <1>5, <2>1, <4>2, <5>1
      <4>4. CASE left[s] > 0
        <5>1. Refused(s) \subseteq known[s] \cup Pending(s)
          BY <2>3, <3>3, <4>4 DEF Forgets
        <5> QED
          BY <1>2, <1>3, <1>5, <2>1, <4>2, <4>4, <5>1, LiveIsKept
      <4> QED
        BY <4>1, <4>3, <4>4
    <3>4. cfg'.backend = "redis" /\ left'[s] = 0 => Refused(s)' = {}
      BY <1>1, <1>2, <3>2 DEF Forgets
    <3> QED
      BY <3>2, <3>3, <3>4 DEF Forgets
  <2> QED
    BY <1>5, <2>2, <2>3 DEF ExpireRedis
<1> QED
  BY <1>4, <1>5

\* The recalls of Redis, the memory that is not there, and writes that fail:
\* the session is active, and its ledger stays or is refreshed.
LEMMA PlainForgets ==
  ASSUME NEW r \in Req, TypeOK, NEW s \in Session, Forgets(s),
         Pending(s) \subseteq Pending(s)',
         \/ RecallNoop(r) \/ RecallRedis(r) \/ TouchRedis(r)
         \/ NoMemory(r) \/ RememberNoop(r)
  PROVE  Forgets(s)'
<1>1. ASSUME NEW T, ActiveWith(r, T), cfg' = cfg, torn' = torn, denied' = denied,
             left' = left \/ SetTtl(session[r])
      PROVE  Forgets(s)'
  <2>1. session[r] \in Session
    BY DEF TypeOK, ReqOK
  <2>2. left'[s] = left[s] \/ (s = session[r] /\ left[s] # 0 /\ left'[s] = Ttl)
    BY <1>1, <2>1 DEF SetTtl, Live, TypeOK, MemOK
  <2> QED
    BY <1>1, <2>2, ActiveForgets
<1> QED
  BY <1>1 DEF RecallNoop, RecallRedis, TouchRedis, NoMemory, RememberNoop

LEMMA JudgeForgets ==
  ASSUME NEW r \in Req, TypeOK, NEW s \in Session, Forgets(s), Judge(r)
  PROVE  Forgets(s)'
<1>1. Alone(r)
  BY JudgeAlone DEF TypeOK
<1>2. pc[r] # "expire" => Pending(s) \subseteq Pending(s)'
  BY <1>1, PendingStays DEF TypeOK
<1>3. CASE RecallNoop(r) \/ RecallRedis(r) \/ TouchRedis(r)
  BY <1>2, <1>3, PlainForgets DEF RecallNoop, RecallRedis, TouchRedis
<1>4. CASE NoMemory(r) \/ RememberNoop(r)
  BY <1>2, <1>4, PlainForgets DEF NoMemory, Unconnected, RememberNoop
<1>5. CASE RecallMemory(r)
  BY <1>2, <1>5, RecallMemoryForgets DEF RecallMemory
<1>6. CASE RememberMemory(r)
  BY <1>2, <1>6, RememberMemoryForgets DEF RememberMemory
<1>7. CASE RememberRedis(r)
  <2>1. pc[r] = "remember" /\ cfg.backend = "redis" /\ cfg' = cfg /\ torn' = torn
    BY <1>7 DEF RememberRedis
  <2>2. CASE ActiveWith(r, {}) /\ UNCHANGED <<denied, left>>
    BY <1>2, <2>1, <2>2, ActiveForgets
  <2>3. CASE /\ denied' = [denied EXCEPT ![session[r]] = FirstReason(@, Tl(r), reason[r])]
             /\ left' = [left EXCEPT ![session[r]] = IF @ = 0 THEN Never ELSE @]
             /\ Goes(r, "expire", verdict[r], reason[r])
             /\ ActiveWith(r, {Tl(r)}) /\ UNCHANGED todo
    BY <1>2, <2>1, <2>3, HsetnxForgets DEF Remembered
  <2> QED
    BY <1>7, <2>2, <2>3 DEF RememberRedis
<1>8. CASE ExpireRedis(r)
  BY <1>8, ExpireForgets
<1>9. CASE pc[r] # "expire" /\ UNCHANGED <<cfg, memVars>>
  BY <1>2, <1>9, QuietForgets DEF memVars
<1>10. CASE \/ StartConnect(r) \/ Screen(r) \/ PolicyAnswers(r) \/ FailMode(r)
            \/ Record(r) \/ RecordReplay(r)
  BY <1>9, <1>10 DEF StartConnect, Unconnected, Screen, PolicyAnswers, FailMode,
                    Record, RecordReplay
<1>11. CASE ConnectOk(r)
  BY <1>2, <1>11, QuietForgets DEF ConnectOk
<1> QED
  BY <1>3, <1>4, <1>5, <1>6, <1>7, <1>8, <1>10, <1>11
  DEF Judge, Recall, Connect, Remember

LEMMA StepForgets ==
  ASSUME TypeOK, Forgetful, Next
  PROVE  Forgetful'
<1> SUFFICES ASSUME NEW s \in Session PROVE Forgets(s)'
  BY DEF Forgetful
<1>1. Forgets(s)
  BY DEF Forgetful
<1>2. ASSUME NEW r \in Req, UNCHANGED <<cfg, memVars>>, Alone(r), pc[r] # "expire"
      PROVE  Forgets(s)'
  BY <1>1, <1>2, PendingStays, QuietForgets DEF memVars, TypeOK
<1>3. ASSUME NEW r \in Req,
             \/ Admit(r) \/ Unauthorized(r) \/ BodyRejected(r) \/ BodyRead(r)
             \/ Forward(r) \/ StreamJudges(r) \/ StreamEnds(r)
      PROVE  Forgets(s)'
  <2>1. pc[r] # "expire" /\ UNCHANGED <<cfg, memVars>>
    BY <1>3 DEF Admit, Unauthorized, BodyRejected, BodyRead, Forward, UpstreamOk,
                UpstreamFails, StreamJudges, StreamEnds
  <2>2. CASE Over(r)
    BY <1>2, <2>1, <2>2, OverAlone DEF TypeOK
  <2>3. CASE StreamJudges(r)
    BY <1>2, <2>1, <2>3, TakesAlone DEF StreamJudges, TypeOK
  <2>4. CASE Admit(r) \/ BodyRead(r) \/ UpstreamOk(r)
    <3>1. Alone(r)
      BY <2>4 DEF Admit, BodyRead, UpstreamOk, Alone, TypeOK, ReqOK
    <3> QED
      BY <1>2, <2>1, <3>1
  <2> QED
    BY <1>3, <2>2, <2>3, <2>4 DEF Unauthorized, BodyRejected, Forward, UpstreamFails,
                                  StreamEnds
<1>4. ASSUME NEW r \in Req, ClientGone(r)
      PROVE  Forgets(s)'
  <2>1. Alone(r) /\ UNCHANGED <<cfg, left, denied, idle, known>>
    BY <1>4, OverAlone DEF ClientGone, TypeOK
  <2>2. s \in torn => s \in torn'
    BY <1>4 DEF ClientGone
  <2>3. s \in torn' \/ Pending(s) \subseteq Pending(s)'
    BY <1>4, <2>1, PendingStays DEF ClientGone, TypeOK
  <2> QED
    BY <1>1, <2>1, <2>2, <2>3, QuietForgets
<1>5. CASE UNCHANGED vars
  <2>1. Pending(s)' = Pending(s)
    BY <1>5 DEF Pending, Tl, vars, reqVars
  <2> QED
    BY <1>1, <1>5, <2>1, QuietForgets DEF vars, memVars
<1> QED
  BY <1>1, <1>3, <1>4, <1>5, JudgeForgets, TickForgets, PruneForgets
  DEF Next, Guards, RateLimited, Shed

\* For any number of runs, sessions and tools, any time-to-live, either backend
\* and any failing or interrupted Redis commands: a ledger that still counts
\* holds only what was denied since the session was last idle for a whole
\* time-to-live, and lapses in time, unless a write to it was torn.
THEOREM IdleSessionsAreForgotten == Spec => []IdleIsForgotten
<1>1. Init => Forgetful
  <2> SUFFICES ASSUME Init, NEW s \in Session PROVE Forgets(s)
    BY DEF Forgetful
  <2>1. left[s] = 0 /\ idle[s] = Ttl /\ Ttl \in Nat /\ Refused(s) = {}
    BY BoundsAssumption DEF Init, Refused, Empty
  <2> QED
    BY <2>1 DEF Forgets, Never
<1>2. Forgetful /\ UNCHANGED vars => Forgetful'
  <2> SUFFICES ASSUME Forgetful, UNCHANGED vars, NEW s \in Session PROVE Forgets(s)'
    BY DEF Forgetful
  <2>1. /\ cfg' = cfg /\ left' = left /\ denied' = denied /\ idle' = idle /\ known' = known
        /\ torn' = torn /\ pc' = pc /\ session' = session /\ todo' = todo
    BY DEF vars, memVars, reqVars
  <2>2. Refused(s)' = Refused(s)
    BY <2>1 DEF Refused
  <2>3. Pending(s)' = Pending(s)
    BY <2>1 DEF Pending, Tl
  <2> QED
    BY <2>1, <2>2, <2>3 DEF Forgets, Forgetful
<1>3. TypeOK /\ Forgetful => IdleIsForgotten
  <2> SUFFICES ASSUME TypeOK, Forgetful, NEW s \in Session \ torn, Live(s),
                      \A r \in Req : session[r] = s => pc[r] # "expire"
               PROVE  Refused(s) \subseteq known[s] /\ left[s] \in 1..(Ttl - idle[s])
    BY DEF IdleIsForgotten
  <2>1. Pending(s) = {} /\ Forgets(s)
    BY DEF Pending, Forgetful
  <2>2. left[s] > 0
    BY <2>1, ForgetsTypes DEF Forgets, Live
  <2>3. left[s] <= Ttl - idle[s] /\ Refused(s) \subseteq known[s]
    BY <2>1, <2>2 DEF Forgets
  <2> QED
    BY <2>2, <2>3, ForgetsTypes
<1> QED
  BY <1>1, <1>2, <1>3, StepForgets, TypeCorrect, PTL DEF Spec
=============================================================================
