------------------------ MODULE AuditPipelineProofs ------------------------
(***************************************************************************)
(* Proofs about AuditPipeline, for any number of runs and decisions, any   *)
(* capacity and both policies for a full channel.                          *)
(***************************************************************************)
EXTENDS AuditPipeline, SequenceTheorems, FiniteSetTheorems, TLAPS

\* The records of the sequences the actions build.
LEMMA RangeEmpty == Range(<<>>) = {}
BY DEF Range

LEMMA RangeOne == \A x : Range(<<x>>) = {x}
BY DEF Range

LEMMA RangeAppend ==
  ASSUME NEW S, NEW s \in Seq(S), NEW x \in S
  PROVE  Range(Append(s, x)) = Range(s) \cup {x}
<1>1. ASSUME NEW i \in DOMAIN s PROVE Append(s, x)[i] = s[i] /\ i \in DOMAIN Append(s, x)
  OBVIOUS
<1>2. Append(s, x)[Len(s) + 1] = x /\ Len(s) + 1 \in DOMAIN Append(s, x)
  OBVIOUS
<1>3. ASSUME NEW i \in DOMAIN Append(s, x) PROVE i \in DOMAIN s \/ i = Len(s) + 1
  OBVIOUS
<1> QED
  BY <1>1, <1>2, <1>3 DEF Range

LEMMA RangeConcat ==
  ASSUME NEW S, NEW s \in Seq(S), NEW t \in Seq(S)
  PROVE  Range(s \o t) = Range(s) \cup Range(t)
<1>1. ASSUME NEW x \in Range(s) PROVE x \in Range(s \o t)
  <2>1. PICK i \in DOMAIN s : x = s[i]
    BY DEF Range
  <2>2. (s \o t)[i] = s[i] /\ i \in DOMAIN (s \o t)
    OBVIOUS
  <2> QED
    BY <2>1, <2>2 DEF Range
<1>2. ASSUME NEW x \in Range(t) PROVE x \in Range(s \o t)
  <2>1. PICK i \in DOMAIN t : x = t[i]
    BY DEF Range
  <2>2. (s \o t)[Len(s) + i] = t[i] /\ Len(s) + i \in DOMAIN (s \o t)
    OBVIOUS
  <2> QED
    BY <2>1, <2>2 DEF Range
<1>3. ASSUME NEW x \in Range(s \o t) PROVE x \in Range(s) \cup Range(t)
  <2>1. PICK i \in DOMAIN (s \o t) : x = (s \o t)[i]
    BY DEF Range
  <2>2. \/ i \in DOMAIN s /\ (s \o t)[i] = s[i]
        \/ i - Len(s) \in DOMAIN t /\ (s \o t)[i] = t[i - Len(s)]
    OBVIOUS
  <2> QED
    BY <2>1, <2>2 DEF Range
<1> QED
  BY <1>1, <1>2, <1>3

LEMMA RangeHeadTail ==
  ASSUME NEW S, NEW s \in Seq(S), s # <<>>
  PROVE  /\ Range(s) = {Head(s)} \cup Range(Tail(s))
         /\ Head(s) \in S /\ Tail(s) \in Seq(S) /\ Len(Tail(s)) = Len(s) - 1
<1>1. /\ Head(s) = s[1] /\ Head(s) \in S /\ Tail(s) \in Seq(S)
      /\ Len(Tail(s)) = Len(s) - 1 /\ 1 \in DOMAIN s
  OBVIOUS
<1>2. Head(s) \in Range(s)
  BY <1>1 DEF Range
<1>3. ASSUME NEW x \in Range(Tail(s)) PROVE x \in Range(s)
  <2>1. PICK i \in DOMAIN Tail(s) : x = Tail(s)[i]
    BY DEF Range
  <2>2. Tail(s)[i] = s[i + 1] /\ i + 1 \in DOMAIN s
    BY <1>1
  <2> QED
    BY <2>1, <2>2 DEF Range
<1>4. ASSUME NEW x \in Range(s), x # Head(s) PROVE x \in Range(Tail(s))
  <2>1. PICK i \in DOMAIN s : x = s[i]
    BY DEF Range
  <2>2. i - 1 \in DOMAIN Tail(s) /\ Tail(s)[i - 1] = s[i]
    BY <1>1, <1>4, <2>1
  <2> QED
    BY <2>1, <2>2 DEF Range
<1>5. Range(s) = {Head(s)} \cup Range(Tail(s))
  BY <1>2, <1>3, <1>4
<1> QED
  BY <1>1, <1>5

\* The records of a sequence are no more than its length.
LEMMA RangeBound ==
  ASSUME NEW S, NEW s \in Seq(S)
  PROVE  IsFiniteSet(Range(s)) /\ Cardinality(Range(s)) <= Len(s)
<1>1. IsFiniteSet(1..Len(s)) /\ Cardinality(1..Len(s)) = Len(s)
  <2>1. Len(s) \in Nat
    OBVIOUS
  <2> QED
    BY <2>1, FS_Interval
<1>2. s \in Surjection(1..Len(s), Range(s))
  <2>1. s \in [1..Len(s) -> Range(s)]
    BY DEF Range
  <2> QED
    BY <2>1 DEF Surjection, Range
<1> QED
  BY <1>1, <1>2, FS_Surjection

LEMMA RangeTyped ==
  ASSUME NEW S, NEW s \in Seq(S)
  PROVE  Range(s) \subseteq S
BY DEF Range
-----------------------------------------------------------------------------
\* Types.  A run that waits for a slot waits with a decision.
TypeInv ==
  /\ TypeOK
  /\ \A n \in Run : run[n] = "sending" => decided[n] > 0

LEMMA TypeInit == Init => TypeInv
<1> SUFFICES ASSUME Init PROVE TypeInv
  OBVIOUS
<1> USE DEF Init
<1>1. /\ run \in [Run -> {"new", "active", "sending", "done"}]
      /\ decided \in [Run -> 0..MaxDecisions]
      /\ \A n \in Run : run[n] # "sending"
  BY DecisionsAssumption
<1>2. /\ queue \in Seq(Records) /\ Len(queue) <= Capacity
      /\ hand \in Seq(Records) /\ Len(hand) = (IF outbox = "append" THEN 1 ELSE 0)
      /\ log \in Seq(Records)
  BY CapacityAssumption
<1>3. loaded \in Nat /\ lastSize \in Nat \cup {-1} /\ heads \subseteq Nat
  OBVIOUS
<1> QED
  BY <1>1, <1>2, <1>3 DEF TypeInv, TypeOK

\* What the k-th decision of a run is recorded as.
LEMMA NewestTyped ==
  ASSUME TypeInv, NEW n \in Run
  PROVE  /\ decided[n] < MaxDecisions => Newest(n) \in Records
         /\ run[n] = "sending" => <<n, decided[n]>> \in Records
BY DecisionsAssumption DEF TypeInv, TypeOK, Newest, Records

LEMMA TypeStep == TypeInv /\ [Next]_vars => TypeInv'
<1> SUFFICES ASSUME TypeInv, [Next]_vars PROVE TypeInv'
  OBVIOUS
<1> USE DecisionsAssumption, CapacityAssumption
<1> USE DEF TypeInv, TypeOK, runVars, outboxVars, schedVars
<1>1. ASSUME NEW n \in Run, Connect(n) PROVE TypeInv'
  BY <1>1 DEF Connect
<1>2. ASSUME NEW n \in Run, RecordEnqueued(n) PROVE TypeInv'
  <2>1. Newest(n) \in Records
    BY <1>2, NewestTyped DEF RecordEnqueued, Decides
  <2>2. queue' \in Seq(Records) /\ Len(queue') <= Capacity /\ relayed' \subseteq Records
    <3> HIDE DEF Newest
    <3> QED BY <1>2, <2>1 DEF RecordEnqueued, HasRoom
  <2>3. decided' \in [Run -> 0..MaxDecisions] /\ \A m \in Run : decided'[m] >= decided[m]
    BY <1>2 DEF RecordEnqueued, Decides
  <2> QED
    BY <1>2, <2>2, <2>3 DEF RecordEnqueued
<1>3. ASSUME NEW n \in Run, RecordShed(n) PROVE TypeInv'
  <2>1. Newest(n) \in Records
    BY <1>3, NewestTyped DEF RecordShed, Decides
  <2>2. dropped' \subseteq Records /\ relayed' \subseteq Records
    BY <1>3, <2>1 DEF RecordShed
  <2>3. decided' \in [Run -> 0..MaxDecisions] /\ \A m \in Run : decided'[m] >= decided[m]
    BY <1>3 DEF RecordShed, Decides
  <2> QED
    BY <1>3, <2>2, <2>3 DEF RecordShed
<1>4. ASSUME NEW n \in Run, RecordBlocks(n) PROVE TypeInv'
  BY <1>4 DEF RecordBlocks, Decides
<1>5. ASSUME NEW n \in Run, SendCompletes(n) PROVE TypeInv'
  <2>1. <<n, decided[n]>> \in Records
    BY <1>5, NewestTyped DEF SendCompletes
  <2>2. queue' \in Seq(Records) /\ Len(queue') <= Capacity /\ relayed' \subseteq Records
    <3> DEFINE r == <<n, decided[n]>>
    <3>1. queue' = Append(queue, r) /\ relayed' = relayed \cup {r} /\ r \in Records
      BY <1>5, <2>1 DEF SendCompletes
    <3> HIDE DEF r
    <3> QED BY <1>5, <3>1 DEF SendCompletes, HasRoom
  <2> QED
    BY <1>5, <2>2 DEF SendCompletes
<1>6. ASSUME NEW n \in Run, RunEnds(n) \/ ClientGone(n) PROVE TypeInv'
  BY <1>6 DEF RunEnds, ClientGone
<1>7. CASE Receive
  <2>1. Head(queue) \in Records /\ Tail(queue) \in Seq(Records)
        /\ Len(Tail(queue)) = Len(queue) - 1
    BY <1>7, RangeHeadTail DEF Receive
  <2>2. hand' \in Seq(Records) /\ Len(hand') = 1
    BY <1>7, <2>1 DEF Receive
  <2> QED
    BY <1>7, <2>1, <2>2 DEF Receive
<1>8. CASE AppendEnds
  <2>1. log \o hand \in Seq(Records) /\ Range(hand) \subseteq Records
    BY RangeTyped
  <2>2. /\ log' \in Seq(Records) /\ appended' \subseteq Records /\ dropped' \subseteq Records
    BY <1>8, <2>1 DEF AppendEnds, AppendOk, AppendFails, AppendInDoubt
  <2>3. Appending
    BY <1>8 DEF AppendEnds, AppendOk, AppendFails, AppendInDoubt
  <2>4. hand' \in Seq(Records) /\ Len(hand') = 0 /\ outbox' = "recv"
    BY <2>3 DEF Appending
  <2> QED
    BY <2>2, <2>3, <2>4 DEF Appending
<1>9. CASE OutboxStops
  BY <1>9 DEF OutboxStops
<1>10. CASE Tick \/ SchedulerStops
  <2>1. Len(log) \in Nat
    OBVIOUS
  <2>2. loaded' \in Nat /\ sched' \in {"idle", "issue", "stopped"}
    BY <1>10, <2>1 DEF Tick, SchedulerStops
  <2> QED
    BY <1>10, <2>2 DEF Tick, SchedulerStops
<1>11. CASE IssueEnds
  <2>1. heads' \subseteq Nat /\ lastSize' \in Nat \cup {-1}
    BY <1>11 DEF IssueEnds, IssueOk, IssueFails, IssueInDoubt
  <2>2. Issuing
    BY <1>11 DEF IssueEnds, IssueOk, IssueFails, IssueInDoubt
  <2> QED
    BY <2>1, <2>2 DEF Issuing
<1>12. CASE Signal \/ Shutdown
  BY <1>12 DEF Signal, Shutdown, StopAccepting, ServeReturns, Exit
<1>13. CASE Crash
  <2>1. log' \in Seq(Records)
    <3>1. log \o hand \in Seq(Records)
      OBVIOUS
    <3> QED
      BY <1>13, <3>1 DEF Crash
  <2>2. heads' \subseteq Nat
    BY <1>13 DEF Crash
  <2>3. /\ queue' \in Seq(Records) /\ Len(queue') <= Capacity
        /\ hand' \in Seq(Records) /\ Len(hand') = 0 /\ outbox' = "stopped"
    BY <1>13 DEF Crash
  <2>4. run' \in [Run -> {"done"}]
    BY <1>13 DEF Crash
  <2> QED
    BY <1>13, <2>1, <2>2, <2>3, <2>4 DEF Crash
<1>14. CASE UNCHANGED vars
  BY <1>14 DEF vars
<1> QED
  BY <1>1, <1>2, <1>3, <1>4, <1>5, <1>6, <1>7, <1>8, <1>9, <1>10, <1>11, <1>12, <1>13,
     <1>14 DEF Next, RunStep

\* Every reachable state of the pipeline is well typed; in particular the channel
\* never holds more than its capacity, whatever waits for a slot.
THEOREM TypeCorrect == Spec => []TypeOK
<1>1. TypeInv => TypeOK
  BY DEF TypeInv
<1> QED
  BY <1>1, TypeInit, TypeStep, PTL DEF Spec
-----------------------------------------------------------------------------
\* Order.  Decisions of one run stand in a sequence in the order they were taken;
\* and so they do when the records of X stand before those of Y.
Sorted(s) ==
  \A i, j \in DOMAIN s : i < j /\ s[i][1] = s[j][1] => s[i][2] < s[j][2]
Before(X, Y) == \A x \in X, y \in Y : x[1] = y[1] => x[2] < y[2]

LEMMA SortedConcat ==
  ASSUME NEW s \in Seq(Records), NEW t \in Seq(Records), Sorted(s), Sorted(t),
         Before(Range(s), Range(t))
  PROVE  Sorted(s \o t)
<1> SUFFICES ASSUME NEW i \in DOMAIN (s \o t), NEW j \in DOMAIN (s \o t), i < j,
                    (s \o t)[i][1] = (s \o t)[j][1]
             PROVE  (s \o t)[i][2] < (s \o t)[j][2]
  BY DEF Sorted
<1>1. ASSUME NEW k \in DOMAIN (s \o t)
      PROVE  \/ k \in DOMAIN s /\ (s \o t)[k] = s[k]
             \/ k > Len(s) /\ k - Len(s) \in DOMAIN t /\ (s \o t)[k] = t[k - Len(s)]
  OBVIOUS
<1>2. CASE j \in DOMAIN s
  BY <1>1, <1>2 DEF Sorted
<1>3. CASE i \in DOMAIN s /\ j \notin DOMAIN s
  <2>1. (s \o t)[i] \in Range(s) /\ (s \o t)[j] \in Range(t)
    BY <1>1, <1>3 DEF Range
  <2> QED
    BY <2>1 DEF Before
<1>4. CASE i \notin DOMAIN s /\ j \notin DOMAIN s
  <2>1. /\ i - Len(s) \in DOMAIN t /\ (s \o t)[i] = t[i - Len(s)]
        /\ j - Len(s) \in DOMAIN t /\ (s \o t)[j] = t[j - Len(s)]
        /\ i - Len(s) < j - Len(s)
    BY <1>1, <1>4
  <2> QED
    BY <2>1 DEF Sorted
<1> QED
  BY <1>2, <1>3, <1>4

LEMMA SortedShort ==
  ASSUME NEW s \in Seq(Records), Len(s) <= 1
  PROVE  Sorted(s)
BY DEF Sorted

LEMMA SortedTail ==
  ASSUME NEW s \in Seq(Records), s # <<>>, Sorted(s)
  PROVE  Sorted(Tail(s)) /\ Before({Head(s)}, Range(Tail(s)))
<1>1. ASSUME NEW i \in DOMAIN Tail(s)
      PROVE  Tail(s)[i] = s[i + 1] /\ i + 1 \in DOMAIN s /\ 1 < i + 1
  OBVIOUS
<1>2. Head(s) = s[1] /\ 1 \in DOMAIN s
  OBVIOUS
<1>3. Sorted(Tail(s))
  <2> SUFFICES ASSUME NEW i \in DOMAIN Tail(s), NEW j \in DOMAIN Tail(s), i < j,
                      Tail(s)[i][1] = Tail(s)[j][1]
               PROVE  Tail(s)[i][2] < Tail(s)[j][2]
    BY DEF Sorted
  <2>1. i + 1 < j + 1
    OBVIOUS
  <2> QED
    BY <1>1, <2>1 DEF Sorted
<1>4. ASSUME NEW y \in Range(Tail(s)), Head(s)[1] = y[1] PROVE Head(s)[2] < y[2]
  <2>1. PICK i \in DOMAIN Tail(s) : y = Tail(s)[i]
    BY DEF Range
  <2> QED
    BY <1>1, <1>2, <1>4, <2>1 DEF Sorted
<1> QED
  BY <1>3, <1>4 DEF Before

\* Everything the pipeline has seen of the decisions taken so far.
Seen == Range(log) \cup InFlight \cup dropped \cup appended

OrderInv ==
  /\ Sorted(log) /\ Sorted(queue)
  /\ Before(Range(log), InFlight) /\ Before(Range(hand), Range(queue))
KnownInv ==
  \A x \in Seen : /\ x[2] <= decided[x[1]]
                  /\ run[x[1]] = "sending" => x[2] < decided[x[1]]
UncountedInv == InFlight \cap (dropped \cup appended) = {}
AccountInv ==
  /\ OrderInv /\ KnownInv /\ UncountedInv
  /\ RelayedAccounted /\ CountersBracketLog

LEMMA OrderGivesLine ==
  ASSUME TypeInv, OrderInv
  PROVE  PerRunOrder
<1>1. log \in Seq(Records) /\ hand \in Seq(Records) /\ queue \in Seq(Records) /\ Len(hand) <= 1
  BY DEF TypeInv, TypeOK
<1>2. Sorted(log \o hand)
  BY <1>1, SortedShort, SortedConcat DEF OrderInv, InFlight, Before
<1>3. Range(log \o hand) = Range(log) \cup Range(hand) /\ log \o hand \in Seq(Records)
  BY <1>1, RangeConcat
<1>4. Sorted((log \o hand) \o queue)
  BY <1>1, <1>2, <1>3, SortedConcat DEF OrderInv, InFlight, Before
<1> DEFINE line == log \o hand \o queue
<1>5. Sorted(line)
  BY <1>4
<1> HIDE DEF line
<1>6. \A i, j \in 1..Len(line) :
        i < j /\ line[i][1] = line[j][1] => line[i][2] < line[j][2]
  BY <1>5 DEF Sorted
<1> QED
  BY <1>6 DEF PerRunOrder, line

LEMMA AccountInit == Init => AccountInv
<1> SUFFICES ASSUME Init PROVE AccountInv
  OBVIOUS
<1>1. Range(log) = {} /\ Range(queue) = {} /\ Range(hand) = {}
  BY RangeEmpty DEF Init
<1>2. Sorted(log) /\ Sorted(queue)
  BY DEF Init, Sorted
<1> QED
  BY <1>1, <1>2 DEF Init, AccountInv, OrderInv, KnownInv, UncountedInv, RelayedAccounted,
     CountersBracketLog, Seen, InFlight, Before

\* A decision newer than all that was seen joins the channel.
LEMMA EnqueueKeeps ==
  ASSUME TypeInv, AccountInv, NEW x \in Records,
         \A y \in Seen : y[1] = x[1] => y[2] < x[2],
         queue' = Append(queue, x), relayed' = relayed \cup {x},
         UNCHANGED <<outboxVars, dropped, main>>
  PROVE  /\ OrderInv' /\ UncountedInv' /\ RelayedAccounted' /\ CountersBracketLog'
         /\ Seen' = Seen \cup {x}
<1>1. /\ queue \in Seq(Records) /\ log' = log /\ hand' = hand /\ appended' = appended
      /\ dropped' = dropped
  BY DEF TypeInv, TypeOK, outboxVars
<1>2. Range(queue') = Range(queue) \cup {x}
  BY <1>1, RangeAppend
<1>3. InFlight' = InFlight \cup {x} /\ Seen' = Seen \cup {x}
  BY <1>1, <1>2 DEF InFlight, Seen
<1>4. Sorted(queue')
  <2>1. Sorted(queue) /\ Sorted(<<x>>) /\ <<x>> \in Seq(Records)
    <3>1. <<x>> \in Seq(Records) /\ Len(<<x>>) = 1
      OBVIOUS
    <3>2. Sorted(<<x>>)
      <4> DEFINE one == <<x>>
      <4>1. one \in Seq(Records) /\ Len(one) <= 1
        BY <3>1
      <4> HIDE DEF one
      <4>2. Sorted(one)
        BY <4>1, SortedShort
      <4> QED
        BY <4>2 DEF one
    <3> QED
      BY <3>1, <3>2 DEF AccountInv, OrderInv
  <2>2. Before(Range(queue), Range(<<x>>))
    BY RangeOne DEF Before, Seen, InFlight
  <2>3. queue' = queue \o <<x>>
    BY <1>1
  <2> QED
    BY <1>1, <2>1, <2>2, <2>3, SortedConcat
<1>5. OrderInv'
  BY <1>1, <1>2, <1>3, <1>4 DEF AccountInv, OrderInv, Before, Seen, InFlight
<1>6. x \notin dropped \cup appended
  <2>1. x[2] \in Nat
    BY DecisionsAssumption DEF Records
  <2> QED
    BY <2>1 DEF Seen
<1>7. UncountedInv'
  BY <1>1, <1>3, <1>6 DEF AccountInv, UncountedInv
<1>8. RelayedAccounted' /\ CountersBracketLog'
  BY <1>1, <1>3 DEF AccountInv, RelayedAccounted, CountersBracketLog
<1> QED
  BY <1>3, <1>5, <1>7, <1>8

\* The record in hand leaves memory for the log, a counter, or both.
LEMMA AppendKeeps ==
  ASSUME TypeInv, AccountInv, AppendEnds
  PROVE  AccountInv'
<1>1. /\ log \in Seq(Records) /\ hand \in Seq(Records) /\ Len(hand) <= 1
      /\ main # "crashed"
  BY DEF TypeInv, TypeOK, AppendEnds, AppendOk, AppendFails, AppendInDoubt, Appending, Alive
<1>2. /\ hand' = <<>> /\ queue' = queue /\ decided' = decided /\ run' = run
      /\ relayed' = relayed
      /\ log' \in {log, log \o hand}
      /\ appended' \subseteq appended \cup Range(hand) /\ appended \subseteq appended'
      /\ dropped' \subseteq dropped \cup Range(hand) /\ dropped \subseteq dropped'
      /\ Range(hand) \subseteq appended' \cup dropped'
      /\ appended' = appended \/ dropped' = dropped
      /\ log' = log \o hand \/ (log' = log /\ appended' = appended)
  BY DEF AppendEnds, AppendOk, AppendFails, AppendInDoubt, Appending, runVars
<1>3. Range(hand') = {} /\ InFlight' = Range(queue)
  BY <1>2, RangeEmpty DEF InFlight
<1>4. Range(log \o hand) = Range(log) \cup Range(hand)
  BY <1>1, RangeConcat
<1>5. Sorted(log')
  <2>1. Sorted(log \o hand)
    BY <1>1, SortedShort, SortedConcat DEF AccountInv, OrderInv, InFlight, Before
  <2> QED
    BY <1>2, <2>1 DEF AccountInv, OrderInv
<1>6. OrderInv'
  BY <1>2, <1>3, <1>4, <1>5 DEF AccountInv, OrderInv, Before, InFlight
<1>7. KnownInv'
  <2>1. Seen' \subseteq Seen
    BY <1>2, <1>3, <1>4 DEF Seen, InFlight
  <2> QED
    BY <1>2, <2>1 DEF AccountInv, KnownInv
<1>8. Range(hand) \cap Range(queue) = {}
  <2>1. ASSUME NEW x \in Range(hand), x \in Range(queue) PROVE FALSE
    <3>1. x[2] < x[2]
      BY <2>1 DEF AccountInv, OrderInv, Before
    <3>2. x[2] \in Nat
      BY <1>1, <2>1, RangeTyped, DecisionsAssumption DEF Records
    <3> QED
      BY <3>1, <3>2
  <2> QED
    BY <2>1
<1>9. UncountedInv'
  BY <1>2, <1>3, <1>8 DEF AccountInv, UncountedInv, InFlight
<1>10. RelayedAccounted'
  BY <1>1, <1>2, <1>3, <1>4 DEF AccountInv, RelayedAccounted, InFlight, AppendEnds, AppendOk,
     AppendFails, AppendInDoubt, Appending
<1>11. CountersBracketLog'
  <2>1. main' = main
    BY DEF AppendEnds, AppendOk, AppendFails, AppendInDoubt, Appending
  <2> QED
    BY <1>1, <1>2, <1>4, <2>1 DEF AccountInv, CountersBracketLog, UncountedInv, InFlight
<1> QED
  BY <1>6, <1>7, <1>9, <1>10, <1>11 DEF AccountInv

LEMMA AccountStep == TypeInv /\ AccountInv /\ [Next]_vars => AccountInv'
<1> SUFFICES ASSUME TypeInv, AccountInv, [Next]_vars PROVE AccountInv'
  OBVIOUS
<1> USE DEF runVars, outboxVars, schedVars
<1>0. /\ Seen \subseteq Records /\ decided \in [Run -> 0..MaxDecisions]
      /\ run \in [Run -> {"new", "active", "sending", "done"}]
      /\ \A x \in Records : x[1] \in Run /\ x[2] \in Nat
  BY RangeTyped, DecisionsAssumption DEF TypeInv, TypeOK, Seen, InFlight, Records
<1>1. ASSUME UNCHANGED <<queue, log, hand, appended, dropped, relayed, main>>, KnownInv'
      PROVE  AccountInv'
  BY <1>1 DEF AccountInv, OrderInv, UncountedInv, RelayedAccounted, CountersBracketLog,
     InFlight
<1>2. ASSUME NEW n \in Run, Connect(n) \/ RunEnds(n) \/ ClientGone(n) PROVE AccountInv'
  <2>1. decided' = decided /\ Seen' = Seen
        /\ \A m \in Run : run'[m] = "sending" => run[m] = "sending"
    BY <1>0, <1>2 DEF Connect, RunEnds, ClientGone, Seen, InFlight
  <2>2. KnownInv'
    BY <1>0, <2>1 DEF AccountInv, KnownInv
  <2> QED
    BY <1>1, <1>2, <2>2 DEF Connect, RunEnds, ClientGone
<1>3. ASSUME NEW n \in Run, Decides(n)
      PROVE  /\ Newest(n) \in Records
             /\ \A y \in Seen : y[1] = Newest(n)[1] => y[2] < Newest(n)[2]
             /\ decided'[n] = decided[n] + 1
             /\ \A m \in Run : m # n => decided'[m] = decided[m]
  <2>1. Newest(n) \in Records
    BY <1>3, NewestTyped DEF Decides
  <2>2. \A y \in Seen : y[1] = n => y[2] <= decided[n]
    BY DEF AccountInv, KnownInv
  <2> QED
    BY <1>0, <1>3, <2>1, <2>2 DEF Decides, Newest
<1>4. ASSUME NEW n \in Run, RecordEnqueued(n) PROVE AccountInv'
  <2>1. /\ OrderInv' /\ UncountedInv' /\ RelayedAccounted' /\ CountersBracketLog'
        /\ Seen' = Seen \cup {Newest(n)}
    BY <1>3, <1>4, EnqueueKeeps DEF RecordEnqueued
  <2>2. run' = run /\ run[n] = "active"
    BY <1>4 DEF RecordEnqueued, Decides
  <2>3. /\ decided'[n] = decided[n] + 1 /\ Newest(n)[1] = n /\ Newest(n)[2] = decided'[n]
        /\ \A m \in Run : m # n => decided'[m] = decided[m]
    BY <1>3, <1>4 DEF RecordEnqueued, Newest
  <2>4. KnownInv'
    BY <1>0, <2>1, <2>2, <2>3 DEF AccountInv, KnownInv
  <2> QED
    BY <2>1, <2>4 DEF AccountInv
<1>5. ASSUME NEW n \in Run, RecordShed(n) PROVE AccountInv'
  <2>0. /\ decided'[n] = decided[n] + 1 /\ Newest(n)[1] = n /\ Newest(n)[2] = decided'[n]
        /\ \A m \in Run : m # n => decided'[m] = decided[m]
        /\ run' = run /\ run[n] = "active"
    BY <1>3, <1>5 DEF RecordShed, Decides, Newest
  <2>1. /\ Seen' = Seen \cup {Newest(n)} /\ InFlight' = InFlight /\ Newest(n) \notin Seen
    <3>1. Newest(n) \notin Seen
      BY <1>0, <1>3, <1>5 DEF RecordShed
    <3>2. InFlight' = InFlight
      BY <1>5 DEF RecordShed, InFlight
    <3>3. Seen' = Seen \cup {Newest(n)}
      BY <1>5, <3>2 DEF RecordShed, Seen
    <3> QED
      BY <3>1, <3>2, <3>3
  <2>2. KnownInv'
    BY <1>0, <2>0, <2>1 DEF AccountInv, KnownInv
  <2>3. OrderInv' /\ UncountedInv'
    BY <1>5, <2>1 DEF RecordShed, AccountInv, OrderInv, UncountedInv, Seen
  <2>4. RelayedAccounted' /\ CountersBracketLog'
    BY <1>5, <2>1 DEF RecordShed, AccountInv, RelayedAccounted, CountersBracketLog, Seen
  <2> QED
    BY <2>2, <2>3, <2>4 DEF AccountInv
<1>6. ASSUME NEW n \in Run, RecordBlocks(n) PROVE AccountInv'
  <2>1. Seen' = Seen /\ \A m \in Run : m # n => run'[m] = run[m]
    BY <1>0, <1>6 DEF RecordBlocks, Seen, InFlight
  <2>2. \A y \in Seen : y[1] = n => y[2] < decided'[n]
    BY <1>0, <1>3, <1>6 DEF RecordBlocks, Newest
  <2>3. KnownInv'
    BY <1>0, <1>3, <1>6, <2>1, <2>2 DEF AccountInv, KnownInv, RecordBlocks
  <2> QED
    BY <1>1, <1>6, <2>3 DEF RecordBlocks
<1>7. ASSUME NEW n \in Run, SendCompletes(n) PROVE AccountInv'
  <2> DEFINE x == <<n, decided[n]>>
  <2>1. x \in Records /\ \A y \in Seen : y[1] = x[1] => y[2] < x[2]
    BY <1>7, NewestTyped DEF SendCompletes, AccountInv, KnownInv
  <2>2. /\ OrderInv' /\ UncountedInv' /\ RelayedAccounted' /\ CountersBracketLog'
        /\ Seen' = Seen \cup {x}
    BY <1>7, <2>1, EnqueueKeeps DEF SendCompletes
  <2>3. KnownInv'
    BY <1>0, <1>7, <2>2 DEF AccountInv, KnownInv, SendCompletes
  <2> QED
    BY <2>2, <2>3 DEF AccountInv
<1>8. CASE Receive
  <2>1. /\ queue \in Seq(Records) /\ queue # <<>> /\ hand = <<>>
        /\ hand' = <<Head(queue)>> /\ queue' = Tail(queue)
    BY <1>8, EmptySeq DEF Receive, TypeInv, TypeOK
  <2>2. Range(hand) = {} /\ Range(hand') = {Head(queue)}
    BY <2>1, RangeEmpty, RangeOne
  <2>3. Range(queue) = Range(hand') \cup Range(queue')
    BY <2>1, <2>2, RangeHeadTail
  <2>4. InFlight' = InFlight /\ Seen' = Seen
    BY <1>8, <2>2, <2>3 DEF InFlight, Seen, Receive
  <2>5. OrderInv'
    BY <1>8, <2>1, <2>2, <2>4, SortedTail DEF Receive, AccountInv, OrderInv
  <2> QED
    BY <1>8, <2>4, <2>5 DEF Receive, AccountInv, KnownInv, UncountedInv, RelayedAccounted,
       CountersBracketLog
<1>9. CASE AppendEnds
  BY <1>9, AppendKeeps
<1>10. CASE OutboxStops \/ Tick \/ IssueEnds \/ SchedulerStops \/ Signal
  <2>1. /\ UNCHANGED <<queue, log, hand, appended, dropped, relayed, main>>
        /\ UNCHANGED <<run, decided>>
    BY <1>10 DEF OutboxStops, Tick, IssueEnds, IssueOk, IssueFails, IssueInDoubt, Issuing,
       SchedulerStops, Signal
  <2> QED
    BY <1>1, <2>1 DEF AccountInv, KnownInv, Seen, InFlight
<1>11. CASE Shutdown
  BY <1>11 DEF Shutdown, StopAccepting, ServeReturns, Exit, AccountInv, OrderInv, KnownInv,
     UncountedInv, RelayedAccounted, CountersBracketLog, Seen, InFlight
<1>12. CASE Crash
  <2>1. /\ log \in Seq(Records) /\ hand \in Seq(Records) /\ Len(hand) <= 1
        /\ main' = "crashed" /\ UNCHANGED <<decided, appended, dropped>>
    BY <1>12 DEF Crash, TypeInv, TypeOK
  <2>2. /\ Range(queue') = {} /\ Range(hand') = {} /\ queue' = <<>>
        /\ log' \in {log, log \o hand} /\ \A n \in Run : run'[n] = "done"
    BY <1>12, RangeEmpty DEF Crash
  <2>3. Range(log \o hand) = Range(log) \cup Range(hand) /\ Sorted(log \o hand)
    BY <2>1, RangeConcat, SortedShort, SortedConcat DEF AccountInv, OrderInv, InFlight, Before
  <2>4. /\ Range(log) \subseteq Range(log') /\ Seen' \subseteq Seen /\ InFlight' = {}
        /\ Sorted(log') /\ Sorted(queue')
    <3>1. Sorted(log') /\ Sorted(queue')
      <4>1. Sorted(<<>>)
        BY DEF Sorted
      <4> QED
        BY <2>2, <2>3, <4>1 DEF AccountInv, OrderInv
    <3>2. Range(log) \subseteq Range(log') /\ Range(log') \subseteq Range(log) \cup Range(hand)
      BY <2>2, <2>3
    <3>3. InFlight' = {}
      BY <2>2 DEF InFlight
    <3> QED
      BY <2>1, <3>1, <3>2, <3>3 DEF Seen, InFlight
  <2>5. OrderInv'
    BY <2>2, <2>4 DEF OrderInv, Before
  <2>6. KnownInv'
    BY <1>0, <2>1, <2>2, <2>4 DEF AccountInv, KnownInv
  <2> QED
    BY <2>1, <2>4, <2>5, <2>6 DEF AccountInv, UncountedInv, RelayedAccounted, CountersBracketLog
<1>13. CASE UNCHANGED vars
  BY <1>1, <1>13 DEF vars, AccountInv, KnownInv, Seen, InFlight
<1> QED
  BY <1>2, <1>4, <1>5, <1>6, <1>7, <1>8, <1>9, <1>10, <1>11, <1>12, <1>13 DEF Next, RunStep

LEMMA AccountAlways == Spec => [](TypeInv /\ AccountInv)
<1>1. Init => TypeInv /\ AccountInv
  BY TypeInit, AccountInit
<1>2. TypeInv /\ AccountInv /\ [Next]_vars => TypeInv' /\ AccountInv'
  BY TypeStep, AccountStep
<1> QED
  BY <1>1, <1>2, PTL DEF Spec

\* A decision a run has acted upon is stored, in flight or counted as dropped, as
\* long as the process lives: AuditLogSink::record returns only then.
THEOREM RelayedIsAccounted == Spec => []RelayedAccounted
<1>1. AccountInv => RelayedAccounted
  BY DEF AccountInv
<1> QED
  BY <1>1, AccountAlways, PTL

\* The two counters of the outbox bracket the stored log, and never count a record
\* twice.
THEOREM CountersAreHonest == Spec => []CountersBracketLog
<1>1. AccountInv => CountersBracketLog
  BY DEF AccountInv
<1> QED
  BY <1>1, AccountAlways, PTL

\* One outbox task on one channel keeps the decisions of a run in order, without a
\* repetition, on the whole way into the log.
THEOREM OrderIsKept == Spec => []PerRunOrder
<1>1. TypeInv /\ AccountInv => PerRunOrder
  BY OrderGivesLine DEF AccountInv
<1> QED
  BY <1>1, AccountAlways, PTL
-----------------------------------------------------------------------------
\* What a crash loses.
Exposed == relayed \ (Range(log) \cup dropped)
ExposedInv == IsFiniteSet(Exposed) /\ Cardinality(Exposed) <= Capacity + 1

LEMMA ExposedWhileAlive ==
  ASSUME TypeInv, AccountInv, main # "crashed"
  PROVE  ExposedInv
<1>1. /\ queue \in Seq(Records) /\ hand \in Seq(Records)
      /\ Len(queue) <= Capacity /\ Len(hand) <= 1
  BY DEF TypeInv, TypeOK
<1>2. /\ IsFiniteSet(Range(queue)) /\ Cardinality(Range(queue)) <= Len(queue)
      /\ IsFiniteSet(Range(hand)) /\ Cardinality(Range(hand)) <= Len(hand)
  BY <1>1, RangeBound
<1>3. /\ IsFiniteSet(InFlight)
      /\ Cardinality(InFlight) = Cardinality(Range(queue)) + Cardinality(Range(hand))
                                   - Cardinality(Range(queue) \cap Range(hand))
  BY <1>2, FS_Union DEF InFlight
<1>4. IsFiniteSet(Range(queue) \cap Range(hand))
  BY <1>2, FS_Subset
<1>5. /\ Cardinality(Range(queue) \cap Range(hand)) \in Nat
      /\ Cardinality(Range(queue)) \in Nat /\ Cardinality(Range(hand)) \in Nat
      /\ Cardinality(InFlight) \in Nat
  BY <1>2, <1>3, <1>4, FS_CardinalityType
<1>6. Cardinality(InFlight) <= Capacity + 1
  <2>1. Len(queue) \in Nat /\ Len(hand) \in Nat /\ Capacity \in Nat
    BY <1>1, CapacityAssumption
  <2> QED
    BY <1>1, <1>2, <1>3, <1>5, <2>1
<1>7. Exposed \subseteq InFlight
  BY DEF AccountInv, RelayedAccounted, Exposed
<1>8. IsFiniteSet(Exposed) /\ Cardinality(Exposed) <= Cardinality(InFlight)
      /\ Cardinality(Exposed) \in Nat
  BY <1>3, <1>7, FS_Subset, FS_CardinalityType
<1> QED
  BY <1>5, <1>6, <1>8, CapacityAssumption DEF ExposedInv

LEMMA ExposedStep ==
  TypeInv /\ AccountInv /\ TypeInv' /\ AccountInv' /\ ExposedInv /\ [Next]_vars => ExposedInv'
<1> SUFFICES ASSUME TypeInv, AccountInv, TypeInv', AccountInv', ExposedInv, [Next]_vars
             PROVE  ExposedInv'
  OBVIOUS
<1>1. CASE main' # "crashed"
  <2>1. (TypeInv /\ AccountInv /\ main # "crashed" => ExposedInv)'
    BY ExposedWhileAlive, PTL
  <2> QED
    BY <1>1, <2>1
<1>2. CASE main' = "crashed"
  <2>1. Crash \/ UNCHANGED <<relayed, log, dropped>>
    BY <1>2 DEF Next, RunStep, Connect, RecordEnqueued, RecordShed, RecordBlocks, SendCompletes,
       RunEnds, ClientGone, Decides, Receive, AppendEnds, AppendOk, AppendFails, AppendInDoubt,
       Appending, OutboxStops, Tick, IssueEnds, IssueOk, IssueFails, IssueInDoubt, Issuing,
       SchedulerStops, Signal, Shutdown, StopAccepting, ServeReturns, Exit, Alive, vars,
       runVars, outboxVars
  <2>2. Range(log) \subseteq Range(log') /\ relayed' = relayed /\ dropped' = dropped
    <3>1. Range(log \o hand) = Range(log) \cup Range(hand)
      BY RangeConcat DEF TypeInv, TypeOK
    <3> QED
      BY <2>1, <3>1 DEF Crash
  <2>3. Exposed' \subseteq Exposed
    BY <2>2 DEF Exposed
  <2>4. /\ IsFiniteSet(Exposed') /\ Cardinality(Exposed') <= Cardinality(Exposed)
        /\ Cardinality(Exposed') \in Nat /\ Cardinality(Exposed) \in Nat
    BY <2>3, FS_Subset, FS_CardinalityType DEF ExposedInv
  <2> QED
    BY <2>4, CapacityAssumption DEF ExposedInv
<1> QED
  BY <1>1, <1>2

\* Whatever dies with the process, at most Capacity + 1 decisions that were acted
\* upon are neither stored nor counted, before the crash and after it.
THEOREM CrashLossIsBounded == Spec => []ExposureBound
<1>1. Init => ExposedInv
  BY TypeInit, AccountInit, ExposedWhileAlive DEF Init
<1>2. ExposedInv => ExposureBound
  BY DEF ExposedInv, ExposureBound, Exposed
<1> QED
  BY <1>1, <1>2, ExposedStep, AccountAlways, PTL DEF Spec
-----------------------------------------------------------------------------
\* Shutdown: which task may have stopped at each stage of main.
StagesInv ==
  /\ main \in {"waiting", "exited", "crashed"} => \A n \in Run : ~Busy(n)
  /\ outbox = "stopped" => main \in {"waiting", "exited", "crashed"} /\ InFlight = {}
  /\ main = "exited" => outbox = "stopped" /\ sched = "stopped"

LEMMA StagesStep == TypeInv /\ StagesInv /\ [Next]_vars => StagesInv'
<1> SUFFICES ASSUME TypeInv, StagesInv, [Next]_vars PROVE StagesInv'
  OBVIOUS
<1> USE DEF StagesInv, runVars, outboxVars, schedVars, Alive
<1>0. run \in [Run -> {"new", "active", "sending", "done"}]
  BY DEF TypeInv, TypeOK
<1>1. ASSUME NEW n \in Run, RunStep(n) PROVE StagesInv'
  <2>1. main \notin {"waiting", "exited", "crashed"} \/ UNCHANGED <<queue, hand, outbox>>
    BY <1>1 DEF RunStep, Connect, RecordEnqueued, RecordShed, RecordBlocks, SendCompletes,
       RunEnds, ClientGone, Decides, Busy
  <2>2. ~Busy(n) => main = "serving"
    BY <1>1 DEF RunStep, Connect, RecordEnqueued, RecordShed, RecordBlocks, SendCompletes,
       RunEnds, ClientGone, Decides, Busy
  <2>3. UNCHANGED <<main, outbox, hand, sched>>
    BY <1>1 DEF RunStep, Connect, RecordEnqueued, RecordShed, RecordBlocks, SendCompletes,
       RunEnds, ClientGone, Decides
  <2>4. main \notin {"waiting", "exited", "crashed"}
    BY <2>2
  <2> QED
    BY <2>3, <2>4
<1>2. CASE Receive \/ AppendEnds
  BY <1>2 DEF Receive, AppendEnds, AppendOk, AppendFails, AppendInDoubt, Appending, Busy
<1>3. CASE OutboxStops
  <2>1. queue' = <<>> /\ hand' = <<>>
    BY <1>3, EmptySeq DEF OutboxStops, TypeInv, TypeOK
  <2>2. InFlight' = {}
    BY <2>1, RangeEmpty DEF InFlight
  <2> QED
    BY <1>3, <2>2 DEF OutboxStops, Busy
<1>4. CASE Tick \/ IssueEnds \/ SchedulerStops \/ Signal
  BY <1>4 DEF Tick, IssueEnds, IssueOk, IssueFails, IssueInDoubt, Issuing, SchedulerStops,
     Signal, Busy, InFlight
<1>5. CASE Shutdown
  BY <1>5 DEF Shutdown, StopAccepting, ServeReturns, Exit, Busy, InFlight
<1>6. CASE Crash
  <2>1. queue' = <<>> /\ hand' = <<>> /\ main' = "crashed" /\ \A n \in Run : run'[n] = "done"
    BY <1>6 DEF Crash
  <2>2. InFlight' = {}
    BY <2>1, RangeEmpty DEF InFlight
  <2> QED
    BY <2>1, <2>2 DEF Busy
<1>7. CASE UNCHANGED vars
  BY <1>7 DEF vars, Busy, InFlight
<1> QED
  BY <1>1, <1>2, <1>3, <1>4, <1>5, <1>6, <1>7 DEF Next

LEMMA StagesAlways == Spec => []StagesInv
<1>1. Init => StagesInv
  BY DEF Init, StagesInv
<1> QED
  BY <1>1, StagesStep, TypeInit, TypeStep, PTL DEF Spec

\* The outbox stops after the last run: no run ever meets a closed channel.
THEOREM OutboxStopsLast == Spec => []OutboxOutlivesRuns
<1>1. StagesInv => OutboxOutlivesRuns
  BY DEF StagesInv, OutboxOutlivesRuns
<1> QED
  BY <1>1, StagesAlways, PTL

\* A process that exits by itself has flushed the outbox: every decision acted upon
\* is stored or counted.
THEOREM ExitFlushes == Spec => []ExitIsFlushed
<1>1. StagesInv /\ AccountInv => ExitIsFlushed
  BY DEF StagesInv, AccountInv, RelayedAccounted, ExitIsFlushed
<1> QED
  BY <1>1, StagesAlways, AccountAlways, PTL
-----------------------------------------------------------------------------
\* Checkpoints: the log only grows, so a size once loaded stays covered.
HeadsInv ==
  /\ \A h \in heads : h <= Len(log)
  /\ loaded <= Len(log)
  /\ lastSize # -1 => lastSize \in heads

LEMMA HeadsStep == TypeInv /\ HeadsInv /\ [Next]_vars => HeadsInv'
<1> SUFFICES ASSUME TypeInv, HeadsInv, [Next]_vars PROVE HeadsInv'
  OBVIOUS
<1>0. /\ log \in Seq(Records) /\ hand \in Seq(Records) /\ Len(log) \in Nat
      /\ loaded \in Nat /\ heads \subseteq Nat
  BY DEF TypeInv, TypeOK
<1>1. Len(log \o hand) \in Nat /\ Len(log \o hand) >= Len(log)
  BY <1>0
<1>2. CASE AppendEnds
  <2>1. log' \in {log, log \o hand} /\ UNCHANGED schedVars
    BY <1>2 DEF AppendEnds, AppendOk, AppendFails, AppendInDoubt, Appending
  <2> QED
    BY <1>0, <1>1, <2>1 DEF HeadsInv, schedVars
<1>3. CASE Tick \/ SchedulerStops
  <2>1. UNCHANGED <<log, heads, lastSize>> /\ loaded' \in {loaded, Len(log)}
    BY <1>3 DEF Tick, SchedulerStops, outboxVars
  <2> QED
    BY <1>0, <2>1 DEF HeadsInv
<1>4. CASE IssueEnds
  <2>1. log' = log /\ loaded' = 0
    BY <1>4 DEF IssueEnds, IssueOk, IssueFails, IssueInDoubt, Issuing, outboxVars
  <2>2. heads' \in {heads, heads \cup {loaded}}
    BY <1>4 DEF IssueEnds, IssueOk, IssueFails, IssueInDoubt
  <2>3. lastSize' # -1 => lastSize' \in heads'
    <3>1. loaded # -1
      BY <1>0
    <3> QED
      BY <1>4, <3>1 DEF IssueEnds, IssueOk, IssueFails, IssueInDoubt, HeadsInv
  <2>4. \A h \in heads' : h <= Len(log')
    BY <2>1, <2>2 DEF HeadsInv
  <2> QED
    BY <1>0, <2>1, <2>3, <2>4 DEF HeadsInv
<1>5. CASE Crash
  <2>1. /\ log' \in {log, log \o hand} /\ lastSize' = lastSize /\ loaded' = 0
        /\ heads' \in {heads, heads \cup {loaded}}
    BY <1>5 DEF Crash
  <2> QED
    BY <1>0, <1>1, <2>1 DEF HeadsInv
<1>6. CASE UNCHANGED <<log, schedVars>>
  BY <1>6 DEF HeadsInv, schedVars
<1>7. ASSUME NEW n \in Run, RunStep(n) PROVE UNCHANGED <<log, schedVars>>
  BY <1>7 DEF RunStep, Connect, RecordEnqueued, RecordShed, RecordBlocks, SendCompletes,
     RunEnds, ClientGone, outboxVars
<1>8. ASSUME Receive \/ OutboxStops \/ Signal \/ Shutdown \/ UNCHANGED vars
      PROVE  UNCHANGED <<log, schedVars>>
  BY <1>8 DEF Receive, OutboxStops, Signal, Shutdown, StopAccepting, ServeReturns, Exit,
     vars, outboxVars, schedVars
<1> QED
  BY <1>2, <1>3, <1>4, <1>5, <1>6, <1>7, <1>8 DEF Next

\* A checkpoint covers only what is stored, and the size of the idle skip is one
\* that has a checkpoint.
THEOREM CheckpointsFollowLog == Spec => []CheckpointsTrailLog
<1>1. Init => HeadsInv
  BY DEF Init, HeadsInv
<1>2. HeadsInv => CheckpointsTrailLog
  BY DEF HeadsInv, CheckpointsTrailLog
<1> QED
  BY <1>1, <1>2, HeadsStep, TypeInit, TypeStep, PTL DEF Spec
============================================================================
