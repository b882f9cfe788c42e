------------------------- MODULE StreamRecordProofs -------------------------
(***************************************************************************)
(* Proofs about what ResponseStream records: every call once, a result     *)
(* under the tool of its call, nothing past the budget; and that a tool    *)
(* call is relayed as it was recorded.                                     *)
(***************************************************************************)
EXTENDS ResponseStreamProofs, WellFoundedInduction

\* The calls opened and not yet judged.
Unjudged == open \cup drained
Recorded(a, n) == \E j \in DOMAIN a : a[j].subject = n

OnlyOnce(a) == \A i, j \in DOMAIN a : a[i].subject = a[j].subject => i = j
Received(a, k) == \A j \in DOMAIN a : a[j].subject \in 1..k

\* Each unjudged call has a START of its own, not yet recorded.
CallsInv ==
  Live => /\ \A c \in Unjudged :
               /\ buf[c].start \in 1..Len(rcvd) /\ rcvd[buf[c].start].kind = "Start"
               /\ ~Recorded(audit, buf[c].start)
          /\ \A c, d \in Unjudged : buf[c].start = buf[d].start => c = d

\* So has the run end behind a sweep.
EndingInv ==
  pc = "sweep" /\ ending # 0 => rcvd[ending].kind \in RunEndKind /\ ~Recorded(audit, ending)

\* No START is forgotten unless the run is broken off.
StartsInv ==
  /\ pc \in {"read", "sweep", "eof"} =>
       \A n \in DOMAIN rcvd : rcvd[n].kind = "Start" =>
         Recorded(audit, n) \/ \E c \in Unjudged : buf[c].start = n
  /\ pc = "eof" => Unjudged = {}

RecordInv == Received(audit, Len(rcvd)) /\ OnlyOnce(audit) /\ CallsInv /\ EndingInv /\ StartsInv

LEMMA RecordedGrows ==
  ASSUME NEW a \in Seq(Record), NEW r \in Record, NEW n
  PROVE  Recorded(Append(a, r), n) <=> Recorded(a, n) \/ n = r.subject
<1>1. ASSUME NEW j \in DOMAIN Append(a, r)
      PROVE  Append(a, r)[j] = r \/ (j \in DOMAIN a /\ Append(a, r)[j] = a[j])
  BY <1>1
<1>2. Len(a) + 1 \in DOMAIN Append(a, r) /\ Append(a, r)[Len(a) + 1] = r
  OBVIOUS
<1>3. \A j \in DOMAIN a : j \in DOMAIN Append(a, r) /\ Append(a, r)[j] = a[j]
  OBVIOUS
<1> QED
  BY <1>1, <1>2, <1>3 DEF Recorded

\* A new record about something received and not yet recorded.
LEMMA RecordAdds ==
  ASSUME NEW a \in Seq(Record), NEW r \in Record, NEW k \in Nat, NEW m \in Nat, k <= m,
         Received(a, k), OnlyOnce(a), r.subject \in 1..m, ~Recorded(a, r.subject)
  PROVE  Received(Append(a, r), m) /\ OnlyOnce(Append(a, r))
<1> DEFINE b == Append(a, r)
<1>1. ASSUME NEW j \in DOMAIN b
      PROVE  (j = Len(a) + 1 /\ b[j] = r) \/ (j \in DOMAIN a /\ b[j] = a[j])
  BY <1>1
<1> HIDE DEF b
<1>2. ASSUME NEW j \in DOMAIN b PROVE b[j].subject \in 1..m
  <2>1. CASE j \in DOMAIN a /\ b[j] = a[j]
    <3>1. a[j].subject \in 1..k
      BY <2>1 DEF Received
    <3> QED
      BY <2>1, <3>1
  <2> QED
    BY <1>1, <1>2, <2>1
<1>3. ASSUME NEW i \in DOMAIN b, NEW j \in DOMAIN b, b[i].subject = b[j].subject PROVE i = j
  BY <1>1, <1>3 DEF OnlyOnce, Recorded
<1>4. Received(b, m) /\ OnlyOnce(b)
  BY <1>2, <1>3 DEF Received, OnlyOnce
<1> QED
  BY <1>4 DEF b

LEMMA ReceivedMore ==
  ASSUME NEW a, NEW k \in Nat, NEW m \in Nat, k <= m, Received(a, k)
  PROVE  Received(a, m)
<1>1. ASSUME NEW j \in DOMAIN a PROVE a[j].subject \in 1..m
  <2>1. a[j].subject \in 1..k
    BY <1>1 DEF Received
  <2> QED
    BY <2>1
<1> QED
  BY <1>1 DEF Received

\* An event number past the last one received is recorded nowhere.
LEMMA NewIsUnrecorded ==
  ASSUME NEW a, NEW k \in Nat, Received(a, k)
  PROVE  ~Recorded(a, k + 1)
<1>1. ASSUME NEW j \in DOMAIN a, a[j].subject = k + 1 PROVE FALSE
  <2>1. a[j].subject \in 1..k
    BY <1>1 DEF Received
  <2> QED
    BY <1>1, <2>1
<1> QED
  BY <1>1 DEF Recorded

LEMMA RecordInit == Init => RecordInv
BY DEF Init, RecordInv, Received, OnlyOnce, CallsInv, EndingInv, StartsInv, Unjudged

\* What a read event changes of the events received.
LEMMA ReadEvents ==
  ASSUME TypeOK, NEW f \in Fragment, Read(f)
  PROVE  /\ Len(rcvd) \in Nat /\ Len(rcvd') = Len(rcvd) + 1 /\ SeenEvents = Len(rcvd)
         /\ DOMAIN rcvd = 1..Len(rcvd) /\ DOMAIN rcvd' = 1..(Len(rcvd) + 1)
         /\ rcvd'[Len(rcvd) + 1] = f
         /\ \A n \in 1..Len(rcvd) : rcvd'[n] = rcvd[n]
         /\ pc = "read"
BY DEF TypeOK, Read, SeenEvents

Sound == Received(audit, Len(rcvd)) /\ OnlyOnce(audit)

LEMMA SoundKept ==
  ASSUME TypeOK, RecordInv, Forward, audit' = audit
  PROVE  Sound'
BY ForwardLen, ReceivedMore DEF RecordInv, Sound

LEMMA SoundAdds ==
  ASSUME TypeOK, RecordInv, Forward, NEW r \in Record, audit' = Append(audit, r),
         r.subject \in 1..Len(rcvd'), ~Recorded(audit, r.subject)
  PROVE  Sound' /\ \A n : Recorded(audit', n) <=> Recorded(audit, n) \/ n = r.subject
<1>1. audit \in Seq(Record)
  BY DEF TypeOK
<1>2. Sound'
  BY <1>1, ForwardLen, RecordAdds DEF RecordInv, Sound
<1>3. \A n : Recorded(audit', n) <=> Recorded(audit, n) \/ n = r.subject
  BY <1>1, RecordedGrows
<1> QED
  BY <1>2, <1>3

\* A run broken off owes no more records.
LEMMA BrokenOff ==
  ASSUME Sound', pc' \in {"error", "dropped"}
  PROVE  RecordInv'
BY DEF Sound, RecordInv, CallsInv, EndingInv, StartsInv, Live

\* The judgement of an unjudged call c.
LEMMA CallJudged ==
  ASSUME TypeOK, RecordInv, Forward, NEW c \in CallId, c \in Unjudged, NEW v \in Verdict,
         audit' = Append(audit, CallRecord(c, v)), ForgetCall(c),
         \A n \in 1..Len(rcvd) : rcvd'[n] = rcvd[n]
  PROVE  /\ Sound'
         /\ \A n : Recorded(audit', n) <=> Recorded(audit, n) \/ n = buf[c].start
         /\ \A d \in CallId \ {c} : buf'[d] = buf[d]
         /\ \A d \in Unjudged \ {c} :
              /\ buf[d].start \in 1..Len(rcvd') /\ rcvd'[buf[d].start].kind = "Start"
              /\ ~Recorded(audit', buf[d].start)
         /\ buf[c].start \in 1..Len(rcvd) /\ rcvd[buf[c].start].kind = "Start"
<1>1. /\ \A d \in Unjudged : /\ buf[d].start \in 1..Len(rcvd) /\ rcvd[buf[d].start].kind = "Start"
                            /\ ~Recorded(audit, buf[d].start)
      /\ \A d \in Unjudged : buf[c].start = buf[d].start => c = d
  BY DEF RecordInv, CallsInv, Forward
<1>2. Len(rcvd) \in Nat /\ Len(rcvd') \in Nat /\ Len(rcvd) <= Len(rcvd')
  BY ForwardLen
<1>3. \A d \in Unjudged : buf[d].start \in 1..Len(rcvd')
  BY <1>1, <1>2
<1>4. CallRecord(c, v) \in Record /\ CallRecord(c, v).subject = buf[c].start
  BY CallRecordTyped DEF CallRecord
<1>5. Sound' /\ \A n : Recorded(audit', n) <=> Recorded(audit, n) \/ n = buf[c].start
  BY <1>1, <1>3, <1>4, SoundAdds
<1>6. \A d \in CallId \ {c} : buf'[d] = buf[d]
  BY DEF ForgetCall, TypeOK
<1> QED
  BY <1>1, <1>3, <1>5, <1>6

LEMMA RecordStep ==
  ASSUME TypeOK, RelayInv, WaitInv, RecordInv, Next
  PROVE  RecordInv'
<1>0. Forward
  BY SendsStep
<1>1. open \subseteq CallId /\ drained \subseteq CallId /\ Unjudged \subseteq CallId
  BY DEF TypeOK, Unjudged
<1>2. Live => (pc = "read" => Unjudged = open) /\ (pc = "sweep" => Unjudged = drained)
  BY DEF RelayInv, SweepExclusive, Unjudged
<1>3. ASSUME NEW f \in Fragment, OverBudget(f) \/ MalformedTerminate(f) \/ StructuralReject(f)
      PROVE  RecordInv'
  BY <1>0, <1>3, SoundKept, BrokenOff
     DEF OverBudget, MalformedTerminate, StructuralReject, TerminateRun
<1>4. CASE UpstreamError \/ FrameLimitExceeded \/ ClientGone \/ RejectRunEnd
  BY <1>0, <1>4, SoundKept, BrokenOff
     DEF UpstreamError, FrameLimitExceeded, TerminateRun, ClientGone, RejectRunEnd
<1>5. ASSUME NEW f \in Fragment, Read(f), f.kind # "Start", audit' = audit, Unjudged' = Unjudged,
             \A c \in Unjudged : buf'[c].start = buf[c].start,
             pc' = "read" \/ (pc' = "sweep" /\ ending' = Len(rcvd) + 1 /\ f.kind \in RunEndKind)
      PROVE  RecordInv'
  <2>1. Sound'
    BY <1>0, <1>5, SoundKept
  <2>2. /\ Len(rcvd) \in Nat /\ Len(rcvd') = Len(rcvd) + 1 /\ DOMAIN rcvd = 1..Len(rcvd)
        /\ DOMAIN rcvd' = 1..(Len(rcvd) + 1) /\ rcvd'[Len(rcvd) + 1] = f
        /\ (\A n \in 1..Len(rcvd) : rcvd'[n] = rcvd[n]) /\ pc = "read"
    BY <1>5, ReadEvents
  <2>3. CallsInv'
    <3>1. \A c \in Unjudged : buf'[c].start \in 1..Len(rcvd) /\ rcvd[buf'[c].start].kind = "Start"
                              /\ ~Recorded(audit, buf'[c].start)
      BY <1>5, <2>2 DEF RecordInv, CallsInv, Live
    <3>2. \A c \in Unjudged : buf'[c].start \in 1..Len(rcvd') /\ rcvd'[buf'[c].start].kind = "Start"
      BY <2>2, <3>1
    <3>3. \A c, d \in Unjudged : buf'[c].start = buf'[d].start => c = d
      BY <1>5, <2>2 DEF RecordInv, CallsInv, Live
    <3> QED
      BY <1>5, <3>1, <3>2, <3>3 DEF CallsInv
  <2>4. EndingInv'
    BY <1>5, <2>2, NewIsUnrecorded DEF EndingInv, RecordInv
  <2>5. StartsInv'
    <3>1. ASSUME NEW n \in DOMAIN rcvd', rcvd'[n].kind = "Start"
          PROVE  Recorded(audit, n) \/ \E c \in Unjudged : buf[c].start = n
      <4>1. n \in 1..Len(rcvd)
        BY <1>5, <2>2, <3>1
      <4> QED
        BY <2>2, <3>1, <4>1 DEF RecordInv, StartsInv
    <3>2. pc' # "eof"
      BY <1>5
    <3> QED
      BY <1>5, <3>1, <3>2 DEF StartsInv
  <2> QED
    BY <2>1, <2>3, <2>4, <2>5 DEF RecordInv, Sound
<1>6. ASSUME NEW f \in Fragment, PassThrough(f) \/ MalformedDrop(f) PROVE RecordInv'
  <2>1. /\ Read(f) /\ f.kind # "Start" /\ audit' = audit /\ Unjudged' = Unjudged /\ pc' = pc
        /\ buf' = buf
    BY <1>6 DEF PassThrough, MalformedDrop, runVars, sweepVars, Unjudged
  <2>2. pc = "read"
    BY <2>1 DEF Read
  <2> QED
    BY <1>5, <2>1, <2>2
<1>7. ASSUME NEW f \in Fragment, ToolCallArgs(f) PROVE RecordInv'
  <2>1. /\ Read(f) /\ f.kind = "Args" /\ audit' = audit /\ Unjudged' = Unjudged /\ pc' = pc
        /\ f.call \in CallId /\ buf' = [buf EXCEPT ![f.call] = WithDelta(buf[f.call], SeenEvents + 1, f.bytes)]
    BY <1>7, FragmentTyped DEF ToolCallArgs, Inspected, sweepVars, Unjudged, ToolCallKind
  <2>2. pc = "read"
    BY <2>1 DEF Read
  <2>3. \A c \in CallId : buf'[c].start = buf[c].start
    BY <2>1 DEF WithDelta, TypeOK, ToolCallBuffer
  <2> QED
    BY <1>1, <1>5, <2>1, <2>2, <2>3
<1>8. ASSUME NEW f \in Fragment, RunEnd(f) PROVE RecordInv'
  <2>1. Read(f) /\ f.kind \in RunEndKind /\ UNCHANGED <<audit, buf>> /\ StartSweep(SeenEvents + 1)
    BY <1>8 DEF RunEnd
  <2>2. pc = "read" /\ SeenEvents = Len(rcvd)
    BY <2>1, ReadEvents
  <2>3. Unjudged = open /\ Unjudged' = open
    BY <1>0, <1>2, <2>1, <2>2 DEF StartSweep, Unjudged, Live
  <2> QED
    BY <1>5, <2>1, <2>2, <2>3 DEF StartSweep, RunEndKind
<1>9. ASSUME NEW f \in Fragment, ToolCallStarted(f) PROVE RecordInv'
  <2> DEFINE m == Len(rcvd) + 1
             b == [name |-> f.tool, start |-> SeenEvents + 1, args |-> <<>>, bytes |-> 0]
  <2>1. /\ Read(f) /\ f.kind = "Start" /\ audit' = audit /\ pc' = pc /\ f.call \in CallId
        /\ open' = open \cup {f.call} /\ drained' = drained /\ f.call \notin open
        /\ buf' = [buf EXCEPT ![f.call] = b]
    BY <1>9, FragmentTyped DEF ToolCallStarted, Inspected, Rejected, sweepVars, ToolCallKind
  <2>2. /\ Len(rcvd) \in Nat /\ Len(rcvd') = m /\ DOMAIN rcvd = 1..Len(rcvd)
        /\ DOMAIN rcvd' = 1..m /\ rcvd'[m] = f /\ SeenEvents = Len(rcvd)
        /\ (\A n \in 1..Len(rcvd) : rcvd'[n] = rcvd[n]) /\ pc = "read"
    BY <2>1, ReadEvents
  <2>3. Unjudged' = Unjudged \cup {f.call} /\ f.call \notin Unjudged
    BY <1>2, <2>1, <2>2 DEF Unjudged, Live
  <2>4. buf'[f.call].start = m /\ \A c \in Unjudged : buf'[c] = buf[c]
    BY <1>1, <2>1, <2>2, <2>3 DEF TypeOK
  <2>5. \A c \in Unjudged : buf[c].start \in 1..Len(rcvd) /\ rcvd[buf[c].start].kind = "Start"
                            /\ ~Recorded(audit, buf[c].start)
    BY <2>2 DEF RecordInv, CallsInv, Live
  <2>6. ~Recorded(audit, m)
    BY <2>2, NewIsUnrecorded DEF RecordInv
  <2>7. Sound'
    BY <1>0, <2>1, SoundKept
  <2>8. CallsInv'
    <3>1. \A c \in Unjudged : buf[c].start # m /\ buf[c].start \in 1..m
                              /\ rcvd'[buf[c].start].kind = "Start"
      BY <2>2, <2>5
    <3>2. m \in 1..m
      BY <2>2
    <3>3. \A c, d \in Unjudged : buf[c].start = buf[d].start => c = d
      BY <2>2 DEF RecordInv, CallsInv, Live
    <3> HIDE DEF m, b
    <3>4. \A c \in Unjudged' : /\ buf'[c].start \in 1..Len(rcvd') /\ rcvd'[buf'[c].start].kind = "Start"
                               /\ ~Recorded(audit', buf'[c].start)
      BY <2>1, <2>2, <2>3, <2>4, <2>5, <2>6, <3>1, <3>2
    <3>5. \A c, d \in Unjudged' : buf'[c].start = buf'[d].start => c = d
      BY <2>3, <2>4, <3>1, <3>3
    <3> QED
      BY <3>4, <3>5 DEF CallsInv
  <2>9. EndingInv'
    BY <2>1, <2>2 DEF EndingInv
  <2>10. StartsInv'
    <3>1. ASSUME NEW n \in DOMAIN rcvd', rcvd'[n].kind = "Start"
          PROVE  Recorded(audit, n) \/ \E c \in Unjudged' : buf'[c].start = n
      <4>1. CASE n = m
        BY <2>3, <2>4, <4>1
      <4>2. CASE n \in 1..Len(rcvd)
        <5>1. Recorded(audit, n) \/ \E c \in Unjudged : buf[c].start = n
          BY <2>2, <3>1, <4>2 DEF RecordInv, StartsInv
        <5> QED
          BY <2>3, <2>4, <5>1
      <4> QED
        BY <2>2, <3>1, <4>1, <4>2
    <3> QED
      BY <2>1, <2>2, <3>1 DEF StartsInv
  <2> QED
    BY <2>7, <2>8, <2>9, <2>10 DEF RecordInv, Sound
<1>10. CASE UpstreamEof
  <2>1. pc = "read" /\ StartSweep(0) /\ UNCHANGED <<audit, buf, rcvd>>
    BY <1>10 DEF UpstreamEof
  <2>2. Unjudged' = Unjudged
    BY <1>2, <2>1 DEF StartSweep, Unjudged, Live
  <2> QED
    BY <2>1, <2>2 DEF RecordInv, CallsInv, EndingInv, StartsInv, StartSweep, Live
<1>11. ASSUME NEW c \in CallId, NEW v \in Verdict, c \in Unjudged,
              audit' = Append(audit, CallRecord(c, v)), ForgetCall(c),
              Unjudged' = Unjudged \ {c}, pc' \in {pc, "error"},
              \/ rcvd' = rcvd /\ ending' = ending
              \/ pc = "read" /\ \E f \in Fragment : Read(f) /\ f.kind # "Start"
       PROVE  RecordInv'
  <2>1. /\ Len(rcvd) \in Nat /\ DOMAIN rcvd = 1..Len(rcvd)
        /\ \A n \in 1..Len(rcvd) : rcvd'[n] = rcvd[n]
    BY <1>11, ReadEvents DEF TypeOK
  <2>2. \A n \in DOMAIN rcvd' : rcvd'[n].kind = "Start" => n \in 1..Len(rcvd)
    <3>1. CASE rcvd' = rcvd
      BY <2>1, <3>1
    <3>2. ASSUME NEW f \in Fragment, Read(f), f.kind # "Start", NEW n \in DOMAIN rcvd',
                 rcvd'[n].kind = "Start"
          PROVE  n \in 1..Len(rcvd)
      <4>1. DOMAIN rcvd' = 1..(Len(rcvd) + 1) /\ rcvd'[Len(rcvd) + 1] = f
        BY <3>2, ReadEvents
      <4> QED
        BY <2>1, <3>2, <4>1
    <3> QED
      BY <1>11, <3>1, <3>2
  <2>3. /\ Sound'
        /\ \A n : Recorded(audit', n) <=> Recorded(audit, n) \/ n = buf[c].start
        /\ \A d \in CallId \ {c} : buf'[d] = buf[d]
        /\ \A d \in Unjudged \ {c} :
             /\ buf[d].start \in 1..Len(rcvd') /\ rcvd'[buf[d].start].kind = "Start"
             /\ ~Recorded(audit', buf[d].start)
        /\ buf[c].start \in 1..Len(rcvd) /\ rcvd[buf[c].start].kind = "Start"
    BY <1>0, <1>11, <2>1, CallJudged
  <2>4. CallsInv'
    <3>1. \A d \in Unjudged' : buf'[d] = buf[d] /\ d \in Unjudged /\ d # c
      BY <1>1, <1>11, <2>3
    <3>2. \A d, e \in Unjudged : buf[d].start = buf[e].start => d = e
      BY <1>0 DEF RecordInv, CallsInv, Forward
    <3> QED
      BY <2>3, <3>1, <3>2 DEF CallsInv
  <2>5. EndingInv'
    <3> SUFFICES ASSUME pc' = "sweep", ending' # 0
                 PROVE  rcvd'[ending'].kind \in RunEndKind /\ ~Recorded(audit', ending')
      BY DEF EndingInv
    <3>1. pc = "sweep" /\ rcvd' = rcvd /\ ending' = ending
      BY <1>11
    <3>2. rcvd[ending].kind \in RunEndKind /\ ~Recorded(audit, ending)
      BY <3>1 DEF RecordInv, EndingInv
    <3>3. ending # buf[c].start
      BY <2>3, <3>2 DEF RunEndKind
    <3> QED
      BY <2>3, <3>1, <3>2, <3>3
  <2>6. StartsInv'
    <3>1. pc \in {"read", "sweep"} /\ pc' # "eof"
      BY <1>0, <1>11 DEF Forward, Live
    <3>2. ASSUME NEW n \in DOMAIN rcvd', rcvd'[n].kind = "Start"
          PROVE  Recorded(audit', n) \/ \E d \in Unjudged' : buf'[d].start = n
      <4>1. n \in DOMAIN rcvd /\ rcvd[n].kind = "Start"
        BY <2>1, <2>2, <3>2
      <4>2. Recorded(audit, n) \/ \E d \in Unjudged : buf[d].start = n
        BY <3>1, <4>1 DEF RecordInv, StartsInv
      <4> QED
        BY <1>1, <1>11, <2>3, <4>2
    <3> QED
      BY <3>1, <3>2 DEF StartsInv
  <2> QED
    BY <2>3, <2>4, <2>5, <2>6 DEF RecordInv, Sound
<1>12. ASSUME NEW f \in Fragment, ToolCallEnded(f) PROVE RecordInv'
  <2>1. /\ Read(f) /\ f.kind = "End" /\ f.call \in open /\ open' = open \ {f.call} /\ ForgetCall(f.call)
        /\ drained' = drained
    BY <1>12 DEF ToolCallEnded, Inspected, Rejected, sweepVars
  <2>2. PICK v \in Verdict : audit' = Append(audit, CallRecord(f.call, v)) /\ pc' \in {pc, "error"}
    BY <1>12 DEF ToolCallEnded, VerdictsFor, TerminateRun
  <2>3. pc = "read" /\ f.call \in CallId /\ f.call \in Unjudged
    BY <1>1, <2>1 DEF Read, Unjudged
  <2>4. Unjudged' = Unjudged \ {f.call}
    BY <1>2, <2>1, <2>3 DEF RelayInv, SweepExclusive, Unjudged
  <2> QED
    BY <1>11, <2>1, <2>2, <2>3, <2>4
<1>13. ASSUME NEW c \in CallId, SweepCall(c) PROVE RecordInv'
  <2>1. /\ c \in drained /\ drained' = drained \ {c} /\ ForgetCall(c) /\ pc = "sweep"
        /\ UNCHANGED <<open, rcvd, ending>>
    BY <1>13 DEF SweepCall
  <2>2. PICK v \in Verdict : audit' = Append(audit, CallRecord(c, v)) /\ pc' \in {pc, "error"}
    BY <1>13 DEF SweepCall, VerdictsFor
  <2>3. c \in Unjudged /\ Unjudged' = Unjudged \ {c}
    BY <2>1 DEF RelayInv, SweepExclusive, Unjudged
  <2> QED
    BY <1>11, <2>1, <2>2, <2>3
<1>14. CASE FinishEof
  <2>1. pc = "sweep" /\ pc' = "eof" /\ drained = {} /\ UNCHANGED <<open, buf, drained, rcvd, audit>>
    BY <1>14 DEF FinishEof, SweptAll, runVars
  <2>2. Unjudged = {} /\ Unjudged' = {}
    BY <2>1 DEF RelayInv, SweepExclusive, Unjudged
  <2> QED
    BY <2>1, <2>2 DEF RecordInv, CallsInv, EndingInv, StartsInv, Live
\* A new record about the last event, which opens and judges no call.
<1>15. ASSUME NEW r \in Record, audit' = Append(audit, r), r.subject = Len(rcvd'),
              ~Recorded(audit, r.subject), UNCHANGED <<open, buf, drained>>,
              pc' \in {"read", "error"},
              \A n \in 1..Len(rcvd) : rcvd'[n] = rcvd[n],
              Len(rcvd') > 0, rcvd'[Len(rcvd')].kind # "Start",
              Len(rcvd') \in {Len(rcvd), Len(rcvd) + 1}
       PROVE  RecordInv'
  <2>1. Len(rcvd) \in Nat /\ Len(rcvd') \in Nat /\ Len(rcvd) <= Len(rcvd')
    BY <1>0, ForwardLen
  <2>2. DOMAIN rcvd = 1..Len(rcvd) /\ DOMAIN rcvd' = 1..Len(rcvd')
    BY <1>0 DEF TypeOK, Forward
  <2>3. Sound' /\ \A n : Recorded(audit', n) <=> Recorded(audit, n) \/ n = r.subject
    <3>1. r.subject \in 1..Len(rcvd')
      BY <1>15, <2>1
    <3> QED
      BY <1>0, <1>15, <3>1, SoundAdds
  <2>4. Unjudged' = Unjudged /\ pc' # "sweep" /\ pc' # "eof"
    BY <1>15 DEF Unjudged
  <2>5. CallsInv'
    <3>1. \A c \in Unjudged : /\ buf[c].start \in 1..Len(rcvd) /\ rcvd[buf[c].start].kind = "Start"
                              /\ ~Recorded(audit, buf[c].start)
      BY <1>0 DEF RecordInv, CallsInv, Forward
    <3>2. \A c \in Unjudged : buf[c].start \in 1..Len(rcvd') /\ rcvd'[buf[c].start].kind = "Start"
      BY <1>15, <2>1, <3>1
    <3>3. \A c \in Unjudged : buf[c].start # r.subject
      BY <1>15, <3>2
    <3>4. \A c, d \in Unjudged : buf[c].start = buf[d].start => c = d
      BY <1>0 DEF RecordInv, CallsInv, Forward
    <3> QED
      BY <1>15, <2>3, <2>4, <3>1, <3>2, <3>3, <3>4 DEF CallsInv
  <2>6. StartsInv'
    <3>1. ASSUME NEW n \in DOMAIN rcvd', rcvd'[n].kind = "Start"
          PROVE  Recorded(audit', n) \/ \E c \in Unjudged' : buf'[c].start = n
      <4>1. n \in 1..Len(rcvd)
        <5>1. n # Len(rcvd') /\ n \in 1..Len(rcvd')
          BY <1>15, <2>2, <3>1
        <5>2. Len(rcvd') = Len(rcvd) \/ Len(rcvd') = Len(rcvd) + 1
          BY <1>15
        <5> QED
          BY <2>1, <5>1, <5>2
      <4>2. pc \in {"read", "sweep"} /\ rcvd[n].kind = "Start"
        BY <1>0, <1>15, <3>1, <4>1 DEF Forward, Live
      <4>3. Recorded(audit, n) \/ \E c \in Unjudged : buf[c].start = n
        BY <2>2, <4>1, <4>2 DEF RecordInv, StartsInv
      <4> QED
        BY <1>15, <2>3, <2>4, <4>3
    <3> QED
      BY <2>4, <3>1 DEF StartsInv
  <2> QED
    BY <2>3, <2>4, <2>5, <2>6 DEF RecordInv, Sound, EndingInv
<1>16. ASSUME NEW f \in Fragment, StandaloneEvent(f) PROVE RecordInv'
  <2> DEFINE t == IF f.kind = "Result" THEN toolNames[f.call] ELSE NoTool
  <2>1. Read(f) /\ f.kind # "Start" /\ UNCHANGED <<open, buf, drained>>
    BY <1>16 DEF StandaloneEvent, Inspected, sweepVars, ContentKind
  <2>2. PICK v \in Verdict : /\ audit' = Append(audit, EventRecord(SeenEvents + 1, t, v))
                             /\ pc' \in {pc, "error"}
    BY <1>16 DEF StandaloneEvent, VerdictsFor, JudgeEvent
  <2>3. /\ Len(rcvd) \in Nat /\ Len(rcvd') = Len(rcvd) + 1 /\ SeenEvents = Len(rcvd)
        /\ rcvd'[Len(rcvd) + 1] = f /\ (\A n \in 1..Len(rcvd) : rcvd'[n] = rcvd[n])
        /\ pc = "read"
    BY <2>1, ReadEvents
  <2>4. t \in Tool \cup {NoTool}
    <3>1. f.kind = "Result" => f.call \in CallId
      BY FragmentTyped
    <3> QED
      BY <3>1 DEF TypeOK
  <2> DEFINE r == EventRecord(SeenEvents + 1, t, v)
  <2> HIDE DEF t
  <2>5. r \in Record /\ r.subject = Len(rcvd) + 1
    BY <2>3, <2>4 DEF EventRecord, Record
  <2>6. ~Recorded(audit, Len(rcvd) + 1)
    BY <2>3, NewIsUnrecorded DEF RecordInv
  <2>7. audit' = Append(audit, r)
    BY <2>2
  <2>8. Len(rcvd') > 0 /\ pc' \in {"read", "error"}
    BY <2>2, <2>3
  <2> HIDE DEF r
  <2> QED
    BY <1>15, <2>1, <2>3, <2>5, <2>6, <2>7, <2>8
<1>17. CASE FinishRun
  <2>1. /\ pc = "sweep" /\ ending # 0 /\ UNCHANGED <<open, buf, drained, rcvd>>
        /\ pc' \in {"read", "error"}
    BY <1>17 DEF FinishRun, SweptAll
  <2>2. PICK v \in Verdict : audit' = Append(audit, EventRecord(ending, NoTool, v))
    BY <1>17 DEF FinishRun, VerdictsFor, JudgeEvent
  <2>3. ending = Len(rcvd) /\ rcvd[ending].kind \in RunEndKind /\ ~Recorded(audit, ending)
    BY <2>1 DEF WaitInv, RecordInv, EndingInv
  <2>4. Len(rcvd) \in Nat /\ ending \in Nat
    BY DEF TypeOK
  <2> DEFINE r == EventRecord(ending, NoTool, v)
  <2>5. r \in Record /\ r.subject = ending
    BY <2>4 DEF EventRecord, Record
  <2>6. audit' = Append(audit, r)
    BY <2>2
  <2>7. rcvd'[Len(rcvd')].kind # "Start" /\ Len(rcvd') > 0
    BY <2>1, <2>3, <2>4 DEF RunEndKind
  <2> HIDE DEF r
  <2> QED
    BY <1>15, <2>1, <2>3, <2>5, <2>6, <2>7
<1> QED
  BY <1>3, <1>4, <1>6, <1>7, <1>8, <1>9, <1>10, <1>12, <1>13, <1>14, <1>16, <1>17
     DEF Next, HandleEvent, Sweep

JudgeInv == OrderInv /\ RecordInv

LEMMA JudgeInductive ==
  /\ Init => JudgeInv
  /\ JudgeInv /\ [Next]_vars => JudgeInv'
<1>1. Init => JudgeInv
  BY OrderInductive, RecordInit DEF JudgeInv
<1>2. ASSUME JudgeInv, Next PROVE JudgeInv'
  BY <1>2, OrderInductive, RecordStep DEF JudgeInv, OrderInv
<1>3. ASSUME JudgeInv, UNCHANGED vars PROVE JudgeInv'
  <2>1. OrderInv'
    BY <1>3, OrderInductive DEF JudgeInv
  <2>2. RecordInv'
    BY <1>3 DEF JudgeInv, vars, RecordInv, Received, OnlyOnce, Recorded, CallsInv, EndingInv,
       StartsInv, Unjudged, Live
  <2> QED
    BY <2>1, <2>2 DEF JudgeInv
<1> QED
  BY <1>1, <1>2, <1>3

\* No event and no assembled call is recorded twice, and a stream that ends by itself has
\* recorded every call that was started, however calls interleave and ids are reused.
THEOREM JudgedExactlyOnce == Spec => []JudgedOnce
<1>1. ASSUME JudgeInv PROVE JudgedOnce
  <2>1. \A i, j \in DOMAIN audit : audit[i].subject = audit[j].subject => i = j
    BY <1>1 DEF JudgeInv, RecordInv, OnlyOnce
  <2>2. ASSUME pc = "eof", NEW n \in DOMAIN rcvd, rcvd[n].kind = "Start"
        PROVE  \E v \in Verdict : Judged(audit, n, v)
    <3>1. Recorded(audit, n)
      BY <1>1, <2>2 DEF JudgeInv, RecordInv, StartsInv
    <3>2. PICK j \in DOMAIN audit : audit[j].subject = n
      BY <3>1 DEF Recorded
    <3>3. audit[j] \in Record
      BY <1>1, <3>2 DEF JudgeInv, OrderInv, TypeOK
    <3>4. audit[j].verdict \in Verdict
      BY <3>3 DEF Record
    <3> QED
      BY <3>2, <3>4 DEF Judged
  <2> QED
    BY <2>1, <2>2 DEF JudgedOnce
<1> QED
  BY <1>1, JudgeInductive, PTL DEF Spec
-----------------------------------------------------------------------------
(***************************************************************************)
(* The response budget: seen_bytes is the sum over what was received, and  *)
(* only the step that ends the stream leaves it past the budget.           *)
(***************************************************************************)
\* What holds of 0, and of n + 1 if it holds of n, holds of every natural number.
LEMMA CountInduction ==
  ASSUME NEW S, 0 \in S, \A n \in Nat : n \in S => n + 1 \in S
  PROVE  Nat \subseteq S
<1> SUFFICES ASSUME ~(Nat \subseteq S) PROVE FALSE
  OBVIOUS
<1> DEFINE T == {n \in Nat : n \notin S}
           R == OpToRel(<, Nat)
<1>1. IsWellFoundedOn(R, Nat)
  BY NatLessThanWellFounded
<1>2. \A x, y \in Nat : y < x => <<y, x>> \in R
  BY DEF OpToRel
<1>3. T \subseteq Nat /\ T # {}
  OBVIOUS
<1> HIDE DEF R
<1>4. PICK x \in T : \A y \in T : ~(<<y, x>> \in R)
  <2> HIDE DEF T
  <2> QED
    BY <1>1, <1>3, WFMin
<1>5. x # 0 /\ x \in Nat
  BY <1>4
<1>6. x - 1 \in Nat /\ x - 1 < x /\ x = (x - 1) + 1
  BY <1>5
<1>7. x - 1 \notin T
  BY <1>2, <1>4, <1>5, <1>6
<1> QED
  BY <1>4, <1>6, <1>7

\* The recursion of BytesUpTo has a solution.
LEMMA BytesDef ==
  ASSUME NEW r \in Seq(Fragment)
  PROVE  BytesUpTo(r) =
           [n \in 0..Len(r) |-> IF n = 0 THEN 0 ELSE RawLen(r[n]) + BytesUpTo(r)[n - 1]]
<1> DEFINE Body(g, n) == IF n = 0 THEN 0 ELSE RawLen(r[n]) + g[n - 1]
           Sol(g, k) == \A n \in 0..Len(r) : n < k => g[n] = Body(g, n)
           S == {k \in Nat : \E g : Sol(g, k)}
<1>1. 0 \in S
  <2>1. Sol(0, 0)
    OBVIOUS
  <2> QED
    BY <2>1
<1>2. ASSUME NEW k \in Nat, k \in S PROVE k + 1 \in S
  <2>1. PICK g : Sol(g, k)
    BY <1>2
  <2> DEFINE h == [n \in 0..Len(r) |-> IF n < k THEN g[n] ELSE Body(g, n)]
  <2>2. ASSUME NEW n \in 0..Len(r), n < k + 1 PROVE h[n] = Body(h, n)
    <3>1. h[n] = Body(g, n)
      BY <2>1
    <3>2. n # 0 => n - 1 \in 0..Len(r) /\ n - 1 < k
      BY <2>2
    <3>3. n # 0 => h[n - 1] = g[n - 1]
      BY <3>2
    <3> QED
      BY <3>1, <3>3
  <2>3. Sol(h, k + 1)
    BY <2>2
  <2> HIDE DEF h
  <2> QED
    BY <2>3
<1>3. Nat \subseteq S
  <2> HIDE DEF S
  <2> QED
    BY <1>1, <1>2, CountInduction
<1>4. PICK g : Sol(g, Len(r) + 1)
  <2>1. Len(r) + 1 \in S
    <3> HIDE DEF S
    <3> QED
      BY <1>3
  <2> QED
    BY <2>1
<1> DEFINE f == [n \in 0..Len(r) |-> g[n]]
<1>5. f = [n \in 0..Len(r) |-> Body(f, n)]
  <2>1. ASSUME NEW n \in 0..Len(r) PROVE f[n] = Body(f, n)
    <3>1. f[n] = Body(g, n)
      BY <1>4
    <3>2. n # 0 => n - 1 \in 0..Len(r)
      OBVIOUS
    <3> QED
      BY <3>1, <3>2
  <2> QED
    BY <2>1
<1> HIDE DEF f
<1> QED
  BY <1>5 DEF BytesUpTo

LEMMA BytesAt ==
  ASSUME NEW r \in Seq(Fragment), NEW n \in 0..Len(r)
  PROVE  BytesUpTo(r)[n] = IF n = 0 THEN 0 ELSE RawLen(r[n]) + BytesUpTo(r)[n - 1]
<1> DEFINE F == [i \in 0..Len(r) |-> IF i = 0 THEN 0 ELSE RawLen(r[i]) + BytesUpTo(r)[i - 1]]
<1>1. BytesUpTo(r) = F
  BY BytesDef
<1>2. F[n] = IF n = 0 THEN 0 ELSE RawLen(r[n]) + BytesUpTo(r)[n - 1]
  OBVIOUS
<1> HIDE DEF F
<1> QED
  BY <1>1, <1>2

\* The sum is a number and only grows.
LEMMA BytesGrow ==
  ASSUME NEW r \in Seq(Fragment), NEW m \in Nat, NEW n \in Nat, m <= n, n <= Len(r)
  PROVE  /\ BytesUpTo(r)[m] \in Nat /\ BytesUpTo(r)[n] \in Nat
         /\ BytesUpTo(r)[m] <= BytesUpTo(r)[n]
<1> DEFINE B == BytesUpTo(r)
           S == {k \in Nat : k <= Len(r) =>
                   B[k] \in Nat /\ \A i \in 0..k : B[i] \in Nat /\ B[i] <= B[k]}
<1>1. 0 \in S
  <2>1. B[0] = 0
    BY BytesAt
  <2> HIDE DEF B
  <2>2. \A i \in 0..0 : i = 0
    OBVIOUS
  <2> QED
    BY <2>1, <2>2
<1>2. ASSUME NEW k \in Nat, k \in S PROVE k + 1 \in S
  <2> SUFFICES ASSUME k + 1 <= Len(r)
               PROVE  B[k + 1] \in Nat /\ \A i \in 0..(k + 1) : B[i] \in Nat /\ B[i] <= B[k + 1]
    OBVIOUS
  <2>1. B[k] \in Nat /\ \A i \in 0..k : B[i] \in Nat /\ B[i] <= B[k]
    BY <1>2
  <2>2. k + 1 \in 0..Len(r) /\ k + 1 \in 1..Len(r) /\ (k + 1) - 1 = k /\ k + 1 # 0
    OBVIOUS
  <2>3. RawLen(r[k + 1]) \in Nat
    BY <2>2, FragmentTyped
  <2>4. B[k + 1] = RawLen(r[k + 1]) + B[k]
    <3>1. B[k + 1] = RawLen(r[k + 1]) + B[(k + 1) - 1]
      BY <2>2, BytesAt
    <3> QED
      BY <2>2, <3>1
  <2> HIDE DEF B
  <2>5. B[k + 1] \in Nat /\ B[k] <= B[k + 1]
    BY <2>1, <2>3, <2>4
  <2>6. ASSUME NEW i \in 0..(k + 1) PROVE B[i] \in Nat /\ B[i] <= B[k + 1]
    <3>1. CASE i = k + 1
      BY <2>5, <3>1
    <3>2. CASE i # k + 1
      <4>1. i \in 0..k
        BY <3>2
      <4>2. B[i] \in Nat /\ B[i] <= B[k]
        BY <2>1, <4>1
      <4> QED
        BY <2>1, <2>5, <4>2
    <3> QED
      BY <3>1, <3>2
  <2> QED
    BY <2>5, <2>6
<1>3. Nat \subseteq S
  <2> HIDE DEF S
  <2> QED
    BY <1>1, <1>2, CountInduction
<1>4. n \in S
  <2> HIDE DEF S
  <2> QED
    BY <1>3
<1>5. m \in 0..n
  OBVIOUS
<1> HIDE DEF B
<1>6. B[n] \in Nat /\ B[m] \in Nat /\ B[m] <= B[n]
  BY <1>4, <1>5
<1> QED
  BY <1>6 DEF B

\* A further event does not change the sums before it.
LEMMA BytesKept ==
  ASSUME NEW r \in Seq(Fragment), NEW f \in Fragment, NEW n \in 0..Len(r)
  PROVE  BytesUpTo(Append(r, f))[n] = BytesUpTo(r)[n]
<1> DEFINE q == Append(r, f)
           B == BytesUpTo(r)
           C == BytesUpTo(q)
           S == {k \in Nat : k <= Len(r) => C[k] = B[k]}
<1>0. q \in Seq(Fragment) /\ Len(q) = Len(r) + 1 /\ \A i \in 1..Len(r) : q[i] = r[i]
  OBVIOUS
<1> HIDE DEF q
<1>1. 0 \in S
  <2>1. B[0] = 0 /\ C[0] = 0
    BY <1>0, BytesAt
  <2> QED
    BY <2>1
<1>2. ASSUME NEW k \in Nat, k \in S PROVE k + 1 \in S
  <2> SUFFICES ASSUME k + 1 <= Len(r) PROVE C[k + 1] = B[k + 1]
    OBVIOUS
  <2>1. C[k] = B[k]
    BY <1>2
  <2>2. /\ k + 1 \in 0..Len(r) /\ k + 1 \in 0..Len(q) /\ (k + 1) - 1 = k /\ k + 1 # 0
        /\ k + 1 \in 1..Len(r)
    BY <1>0
  <2>3. q[k + 1] = r[k + 1]
    BY <1>0, <2>2
  <2>4. B[k + 1] = RawLen(r[k + 1]) + B[(k + 1) - 1]
    BY <2>2, BytesAt
  <2>5. C[k + 1] = RawLen(q[k + 1]) + C[(k + 1) - 1]
    BY <1>0, <2>2, BytesAt
  <2> QED
    BY <2>1, <2>2, <2>3, <2>4, <2>5
<1>3. Nat \subseteq S
  <2> HIDE DEF S
  <2> QED
    BY <1>1, <1>2, CountInduction
<1>4. n \in S
  <2> HIDE DEF S
  <2> QED
    BY <1>3
<1> QED
  BY <1>4 DEF q

LEMMA BytesNext ==
  ASSUME NEW r \in Seq(Fragment), NEW f \in Fragment
  PROVE  BytesUpTo(Append(r, f))[Len(r) + 1] = BytesUpTo(r)[Len(r)] + RawLen(f)
<1> DEFINE q == Append(r, f)
<1>1. /\ q \in Seq(Fragment) /\ Len(q) = Len(r) + 1 /\ q[Len(r) + 1] = f
      /\ Len(r) + 1 \in 0..Len(q) /\ Len(r) \in 0..Len(r) /\ Len(r) + 1 # 0
      /\ (Len(r) + 1) - 1 = Len(r) /\ Len(r) \in Nat
  OBVIOUS
<1>2. BytesUpTo(q)[Len(r)] = BytesUpTo(r)[Len(r)]
  BY <1>1, BytesKept
<1> HIDE DEF q
<1>3. BytesUpTo(q)[Len(r) + 1] = RawLen(q[Len(r) + 1]) + BytesUpTo(q)[(Len(r) + 1) - 1]
  BY <1>1, BytesAt
<1>4. BytesUpTo(q)[Len(r) + 1] = RawLen(f) + BytesUpTo(r)[Len(r)]
  BY <1>1, <1>2, <1>3
<1>5. RawLen(f) \in Nat /\ BytesUpTo(r)[Len(r)] \in Nat
  BY <1>1, BytesGrow, FragmentTyped
<1> QED
  BY <1>4, <1>5 DEF q

\* Event n of the events r is within the budget of s, and everything sent and recorded.
Passes(s, r, n) ==
  /\ ~(s.maxEvents # 0 /\ n > s.maxEvents)
  /\ ~(s.maxBytes # 0 /\ BytesUpTo(r)[n] > s.maxBytes)
AllPass(s, r, o, a) ==
  /\ \A p \in DOMAIN o : Passes(s, r, o[p].n)
  /\ \A j \in DOMAIN a : Passes(s, r, a[j].subject)

BudgetInv ==
  /\ seenBytes = BytesUpTo(rcvd)[Len(rcvd)]
  /\ Live => Passes(setting, rcvd, Len(rcvd))
  /\ AllPass(setting, rcvd, out, audit)

\* What comes before an event within the budget is within it.
LEMMA PassesEarlier ==
  ASSUME NEW s \in Settings, NEW r \in Seq(Fragment), NEW n \in Nat, n <= Len(r),
         Passes(s, r, Len(r))
  PROVE  Passes(s, r, n)
<1>1. Len(r) \in Nat
  OBVIOUS
<1>2. /\ BytesUpTo(r)[n] \in Nat /\ BytesUpTo(r)[Len(r)] \in Nat
      /\ BytesUpTo(r)[n] <= BytesUpTo(r)[Len(r)]
  BY <1>1, BytesGrow
<1>3. s.maxEvents \in Nat /\ s.maxBytes \in Nat
  BY SettingAssumption DEF SettingType
<1> QED
  BY <1>1, <1>2, <1>3 DEF Passes

\* So with the last event received, everything sent and recorded is within the budget.
LEMMA PassesAll ==
  ASSUME NEW s \in Settings, NEW r \in Seq(Fragment), NEW o \in Seq(Frame), NEW a,
         \A p \in DOMAIN o : o[p].n <= Len(r), Received(a, Len(r)), Passes(s, r, Len(r))
  PROVE  AllPass(s, r, o, a)
<1>1. ASSUME NEW p \in DOMAIN o PROVE Passes(s, r, o[p].n)
  <2>1. o[p] \in Frame /\ o[p].n <= Len(r)
    BY <1>1
  <2>2. o[p].n \in Nat
    BY <2>1 DEF Frame
  <2> QED
    BY <2>1, <2>2, PassesEarlier
<1>2. ASSUME NEW j \in DOMAIN a PROVE Passes(s, r, a[j].subject)
  <2>1. a[j].subject \in 1..Len(r)
    BY <1>2 DEF Received
  <2>2. a[j].subject \in Nat /\ a[j].subject <= Len(r)
    BY <2>1
  <2> QED
    BY <2>2, PassesEarlier
<1> QED
  BY <1>1, <1>2 DEF AllPass

\* One more event, and RUN_ERROR in answer to it, leave everything before within it.
LEMMA PassesCut ==
  ASSUME NEW s \in Settings, NEW r \in Seq(Fragment), NEW o \in Seq(Frame), NEW a,
         NEW f \in Fragment, \A p \in DOMAIN o : o[p].n <= Len(r), Received(a, Len(r)),
         AllPass(s, r, o, a)
  PROVE  AllPass(s, Append(r, f), Append(o, RunErrorFrame), a)
<1> DEFINE q == Append(r, f)
<1>1. ASSUME NEW n \in 0..Len(r), Passes(s, r, n) PROVE Passes(s, q, n)
  <2>1. BytesUpTo(q)[n] = BytesUpTo(r)[n]
    BY BytesKept
  <2> QED
    BY <1>1, <2>1 DEF Passes
<1>2. Passes(s, q, 0)
  <2>1. q \in Seq(Fragment) /\ 0 \in 0..Len(q)
    OBVIOUS
  <2> HIDE DEF q
  <2>2. BytesUpTo(q)[0] = 0
    BY <2>1, BytesAt
  <2>3. s.maxEvents \in Nat /\ s.maxBytes \in Nat
    BY SettingAssumption DEF SettingType
  <2> QED
    BY <2>2, <2>3 DEF Passes
<1> HIDE DEF q
<1>3. ASSUME NEW p \in DOMAIN Append(o, RunErrorFrame)
      PROVE  Passes(s, q, Append(o, RunErrorFrame)[p].n)
  <2>1. \/ p \in DOMAIN o /\ Append(o, RunErrorFrame)[p] = o[p]
        \/ Append(o, RunErrorFrame)[p] = RunErrorFrame
    BY <1>3, RunErrorTyped
  <2>2. CASE p \in DOMAIN o /\ Append(o, RunErrorFrame)[p] = o[p]
    <3>1. o[p] \in Frame /\ o[p].n <= Len(r) /\ Passes(s, r, o[p].n)
      BY <2>2 DEF AllPass
    <3>2. o[p].n \in 0..Len(r)
      BY <3>1 DEF Frame
    <3> QED
      BY <1>1, <2>2, <3>1, <3>2
  <2>3. CASE Append(o, RunErrorFrame)[p] = RunErrorFrame
    BY <1>2, <2>3, RunErrorTyped
  <2> QED
    BY <2>1, <2>2, <2>3
<1>4. ASSUME NEW j \in DOMAIN a PROVE Passes(s, q, a[j].subject)
  <2>1. a[j].subject \in 1..Len(r) /\ Passes(s, r, a[j].subject)
    BY <1>4 DEF Received, AllPass
  <2>2. a[j].subject \in 0..Len(r)
    BY <2>1
  <2> QED
    BY <1>1, <2>1, <2>2
<1>5. AllPass(s, q, Append(o, RunErrorFrame), a)
  BY <1>3, <1>4 DEF AllPass
<1> QED
  BY <1>5 DEF q

LEMMA BudgetInit == Init => BudgetInv
<1> SUFFICES ASSUME Init PROVE BudgetInv
  OBVIOUS
<1>1. rcvd = <<>> /\ seenBytes = 0 /\ out = <<>> /\ audit = <<>> /\ setting \in Settings
  BY DEF Init
<1>2. <<>> \in Seq(Fragment) /\ 0 \in 0..Len(<<>>) /\ Len(<<>>) = 0
  OBVIOUS
<1>3. BytesUpTo(<<>>)[0] = 0
  BY <1>2, BytesAt
<1>4. setting.maxEvents \in Nat /\ setting.maxBytes \in Nat
  BY <1>1, SettingAssumption DEF SettingType
<1>5. Passes(setting, <<>>, 0)
  BY <1>3, <1>4 DEF Passes
<1>6. AllPass(setting, <<>>, <<>>, <<>>)
  BY DEF AllPass
<1> QED
  BY <1>1, <1>2, <1>3, <1>5, <1>6 DEF BudgetInv

\* A step reads an event within the budget, or reads none, or ends the stream on one
\* past the budget.
LEMMA BudgetCases ==
  ASSUME Next
  PROVE  /\ setting' = setting
         /\ \/ \E f \in Fragment : Read(f) /\ WithinBudget(f)
            \/ Live /\ rcvd' = rcvd /\ seenBytes' = seenBytes
            \/ \E f \in Fragment : /\ Read(f) /\ pc' = "error" /\ audit' = audit
                                   /\ out' = Append(out, RunErrorFrame)
<1>1. ASSUME NEW f \in Fragment, HandleEvent(f)
      PROVE  \/ Read(f) /\ WithinBudget(f)
             \/ Read(f) /\ pc' = "error" /\ audit' = audit /\ out' = Append(out, RunErrorFrame)
  BY <1>1 DEF HandleEvent, OverBudget, PassThrough, MalformedDrop, MalformedTerminate,
     StructuralReject, ToolCallStarted, ToolCallArgs, ToolCallEnded, StandaloneEvent, RunEnd,
     Inspected, TerminateRun
<1>2. ASSUME UpstreamEof \/ Sweep \/ UpstreamError \/ FrameLimitExceeded \/ ClientGone
      PROVE  Live /\ rcvd' = rcvd /\ seenBytes' = seenBytes
  BY <1>2 DEF UpstreamEof, Sweep, SweepCall, FinishEof, RejectRunEnd, FinishRun, SweptAll,
     UpstreamError, FrameLimitExceeded, ClientGone, Live
<1> QED
  BY <1>1, <1>2 DEF Next

LEMMA BudgetStep ==
  ASSUME JudgeInv, JudgeInv', BudgetInv, Next
  PROVE  BudgetInv'
<1>1. /\ setting \in Settings /\ setting' = setting /\ seenBytes \in Nat
      /\ rcvd \in Seq(Fragment) /\ rcvd' \in Seq(Fragment) /\ Len(rcvd) \in Nat
      /\ out \in Seq(Frame) /\ out' \in Seq(Frame)
  BY BudgetCases DEF JudgeInv, OrderInv, TypeOK
<1>2. /\ \A p \in DOMAIN out : out[p].n <= Len(rcvd)
      /\ \A p \in DOMAIN out' : out'[p].n <= Len(rcvd')
      /\ Received(audit, Len(rcvd)) /\ Received(audit', Len(rcvd'))
  BY DEF JudgeInv, OrderInv, EndInv, RecordInv, Received
<1>3. ASSUME NEW f \in Fragment, Read(f)
      PROVE  /\ rcvd' = Append(rcvd, f) /\ Len(rcvd') = Len(rcvd) + 1
             /\ seenBytes' = BytesUpTo(rcvd')[Len(rcvd')]
             /\ seenBytes' = seenBytes + RawLen(f)
  <2>1. rcvd' = Append(rcvd, f) /\ seenBytes' = seenBytes + RawLen(f)
    BY <1>3 DEF Read
  <2>2. Len(rcvd') = Len(rcvd) + 1
    BY <1>1, <2>1
  <2>3. BytesUpTo(Append(rcvd, f))[Len(rcvd) + 1] = BytesUpTo(rcvd)[Len(rcvd)] + RawLen(f)
    BY <1>1, BytesNext
  <2> QED
    BY <2>1, <2>2, <2>3 DEF BudgetInv
<1>4. ASSUME NEW f \in Fragment, Read(f), WithinBudget(f) PROVE BudgetInv'
  <2>1. Passes(setting', rcvd', Len(rcvd'))
    BY <1>1, <1>3, <1>4 DEF WithinBudget, Exceeded, SeenEvents, Passes
  <2>2. AllPass(setting', rcvd', out', audit')
    BY <1>1, <1>2, <2>1, PassesAll
  <2> QED
    BY <1>3, <1>4, <2>1, <2>2 DEF BudgetInv
<1>5. ASSUME Live, rcvd' = rcvd, seenBytes' = seenBytes PROVE BudgetInv'
  <2>1. Passes(setting', rcvd', Len(rcvd'))
    BY <1>1, <1>5 DEF BudgetInv
  <2>2. AllPass(setting', rcvd', out', audit')
    BY <1>1, <1>2, <2>1, PassesAll
  <2> QED
    BY <1>5, <2>1, <2>2 DEF BudgetInv
<1>6. ASSUME NEW f \in Fragment, Read(f), pc' = "error", audit' = audit,
             out' = Append(out, RunErrorFrame)
      PROVE  BudgetInv'
  <2>1. AllPass(setting, rcvd, out, audit)
    BY DEF BudgetInv
  <2>2. AllPass(setting', rcvd', out', audit')
    BY <1>1, <1>2, <1>3, <1>6, <2>1, PassesCut
  <2>3. ~Live'
    BY <1>6 DEF Live
  <2> QED
    BY <1>3, <1>6, <2>2, <2>3 DEF BudgetInv
<1> QED
  BY <1>4, <1>5, <1>6, BudgetCases

\* No event past MaxEvents or past MaxBytes of upstream bytes is ever relayed or recorded:
\* not by the event that crosses the budget, and not by the frames held or swept behind it.
THEOREM BudgetBoundsEverything == Spec => []BudgetBoundsRelay
<1> DEFINE Inv == JudgeInv /\ BudgetInv
<1>1. Init => Inv
  BY JudgeInductive, BudgetInit
<1>2. ASSUME Inv, [Next]_vars PROVE Inv'
  <2>1. JudgeInv'
    BY <1>2, JudgeInductive
  <2>2. CASE Next
    BY <1>2, <2>1, <2>2, BudgetStep
  <2>3. CASE UNCHANGED vars
    BY <1>2, <2>1, <2>3 DEF vars, BudgetInv, Live
  <2> QED
    BY <1>2, <2>1, <2>2, <2>3
<1>3. Inv => BudgetBoundsRelay
  <2>1. \A n : Passes(setting, rcvd, n) <=> ~Exceeded(n, BytesUpTo(rcvd)[n])
    BY DEF Passes, Exceeded
  <2> QED
    BY <2>1 DEF BudgetInv, AllPass, BudgetBoundsRelay
<1> QED
  BY <1>1, <1>2, <1>3, PTL DEF Spec
-----------------------------------------------------------------------------
(***************************************************************************)
(* Attribution of results: tool_names is the answer the whole input gives  *)
(* for each call id.                                                       *)
(***************************************************************************)
MentionsIn(r, c, n) == {m \in 1..n : r[m].call = c /\ r[m].kind \in {"Start", "Result"}}
Newest(S) == CHOOSE m \in S : \A k \in S : k <= m
StartIsNewest(r, S) == \E m \in S : r[m].kind = "Start" /\ \A k \in S : k <= m
NamedIn(r, S) == IF StartIsNewest(r, S) THEN r[Newest(S)].tool ELSE NoTool
NameOf(r, c, n) == NamedIn(r, MentionsIn(r, c, n))

Attributed(r, x) ==
  r[x.subject].kind = "Result" => x.tool = NameOf(r, r[x.subject].call, x.subject - 1)

NamesInv ==
  /\ Live => \A c \in CallId : toolNames[c] = NameOf(rcvd, c, Len(rcvd))
  /\ \A j \in DOMAIN audit : Attributed(rcvd, audit[j])

LEMMA NewestIs ==
  ASSUME NEW S \in SUBSET Nat, NEW m \in S, \A k \in S : k <= m
  PROVE  Newest(S) = m
<1>1. Newest(S) \in S /\ \A k \in S : k <= Newest(S)
  BY DEF Newest
<1>2. Newest(S) \in Nat /\ m \in Nat /\ m <= Newest(S) /\ Newest(S) <= m
  BY <1>1
<1> QED
  BY <1>2

\* Two inputs that agree on the events of S give the same name.
LEMMA NamedAgree ==
  ASSUME NEW r, NEW q, NEW S \in SUBSET Nat, \A m \in S : q[m] = r[m]
  PROVE  NamedIn(q, S) = NamedIn(r, S)
<1>1. StartIsNewest(q, S) <=> StartIsNewest(r, S)
  BY DEF StartIsNewest
<1>2. ASSUME StartIsNewest(r, S) PROVE q[Newest(S)] = r[Newest(S)]
  <2>1. PICK m \in S : \A k \in S : k <= m
    BY <1>2 DEF StartIsNewest
  <2>2. Newest(S) = m
    BY <2>1, NewestIs
  <2> QED
    BY <2>2
<1> QED
  BY <1>1, <1>2 DEF NamedIn

LEMMA EarlierName ==
  ASSUME NEW r, NEW q, NEW c, NEW n \in Nat, \A m \in 1..n : q[m] = r[m]
  PROVE  NameOf(q, c, n) = NameOf(r, c, n)
<1>1. MentionsIn(q, c, n) = MentionsIn(r, c, n)
  BY DEF MentionsIn
<1>2. MentionsIn(r, c, n) \in SUBSET Nat /\ \A m \in MentionsIn(r, c, n) : q[m] = r[m]
  BY DEF MentionsIn
<1> QED
  BY <1>1, <1>2, NamedAgree DEF NameOf

\* q is r, of n events, and then f.
Extends(q, r, n, f) == q[n + 1] = f /\ \A m \in 1..n : q[m] = r[m]

\* How the name of call c follows an event read.
LEMMA NameFollows ==
  ASSUME NEW r, NEW q, NEW c, NEW n \in Nat, NEW f, Extends(q, r, n, f)
  PROVE  /\ (f.call = c /\ f.kind = "Start") => NameOf(q, c, n + 1) = f.tool
         /\ (f.call = c /\ f.kind = "Result") => NameOf(q, c, n + 1) = NoTool
         /\ (f.call # c \/ f.kind \notin {"Start", "Result"})
              => NameOf(q, c, n + 1) = NameOf(r, c, n)
<1>0. q[n + 1] = f /\ \A m \in 1..n : q[m] = r[m]
  BY DEF Extends
<1> DEFINE S == MentionsIn(q, c, n + 1)
<1>1. S \in SUBSET Nat /\ \A k \in S : k <= n + 1
  BY DEF MentionsIn
<1>2. ASSUME f.call = c, f.kind \in {"Start", "Result"} PROVE n + 1 \in S
  BY <1>0, <1>2 DEF MentionsIn
<1>3. ASSUME f.call = c, f.kind = "Start" PROVE NameOf(q, c, n + 1) = f.tool
  <2>1. n + 1 \in S
    BY <1>2, <1>3
  <2> HIDE DEF S
  <2>2. Newest(S) = n + 1
    BY <1>1, <2>1, NewestIs
  <2>3. StartIsNewest(q, S)
    BY <1>0, <1>1, <1>3, <2>1 DEF StartIsNewest
  <2>4. NamedIn(q, S) = f.tool
    BY <1>0, <2>2, <2>3 DEF NamedIn
  <2> QED
    BY <2>4 DEF NameOf, S
<1>4. ASSUME f.call = c, f.kind = "Result" PROVE NameOf(q, c, n + 1) = NoTool
  <2>1. n + 1 \in S
    BY <1>2, <1>4
  <2> HIDE DEF S
  <2>2. ASSUME NEW m \in S, q[m].kind = "Start", \A k \in S : k <= m PROVE FALSE
    <3>1. m \in Nat /\ m <= n + 1 /\ n + 1 <= m
      BY <1>1, <2>1, <2>2
    <3>2. m = n + 1
      BY <3>1
    <3> QED
      BY <1>0, <1>4, <2>2, <3>2
  <2>3. NamedIn(q, S) = NoTool
    BY <2>2 DEF NamedIn, StartIsNewest
  <2> QED
    BY <2>3 DEF NameOf, S
<1>5. ASSUME f.call # c \/ f.kind \notin {"Start", "Result"}
      PROVE  NameOf(q, c, n + 1) = NameOf(r, c, n)
  <2>1. S = MentionsIn(q, c, n)
    <3>1. \A m \in Nat : m \in 1..(n + 1) <=> m \in 1..n \/ m = n + 1
      OBVIOUS
    <3> QED
      BY <1>0, <1>5, <3>1 DEF MentionsIn
  <2>2. NameOf(q, c, n + 1) = NameOf(q, c, n)
    BY <2>1 DEF NameOf
  <2> QED
    BY <1>0, <2>2, EarlierName
<1> QED
  BY <1>3, <1>4, <1>5

LEMMA NamesInit == Init => NamesInv
<1> SUFFICES ASSUME Init PROVE NamesInv
  OBVIOUS
<1>1. rcvd = <<>> /\ audit = <<>> /\ toolNames = [c \in CallId |-> NoTool]
  BY DEF Init
<1>2. ASSUME NEW c PROVE NameOf(rcvd, c, Len(rcvd)) = NoTool
  <2>1. MentionsIn(rcvd, c, Len(rcvd)) = {}
    BY <1>1 DEF MentionsIn
  <2> QED
    BY <2>1 DEF NameOf, NamedIn, StartIsNewest
<1> QED
  BY <1>1, <1>2 DEF NamesInv

\* What was attributed stays attributed when more is received.
LEMMA AttributedKept ==
  ASSUME TypeOK, RecordInv, NamesInv, Forward
  PROVE  \A j \in DOMAIN audit : Attributed(rcvd', audit[j])
<1>1. Len(rcvd) \in Nat /\ \A n \in 1..Len(rcvd) : rcvd'[n] = rcvd[n]
  BY DEF TypeOK, Forward
<1> SUFFICES ASSUME NEW j \in DOMAIN audit PROVE Attributed(rcvd', audit[j])
  OBVIOUS
<1> DEFINE n == audit[j].subject
<1>2. n \in 1..Len(rcvd) /\ Attributed(rcvd, audit[j])
  BY DEF RecordInv, Received, NamesInv
<1>3. n - 1 \in Nat /\ (\A m \in 1..(n - 1) : rcvd'[m] = rcvd[m]) /\ rcvd'[n] = rcvd[n]
  BY <1>1, <1>2
<1>4. NameOf(rcvd', rcvd[n].call, n - 1) = NameOf(rcvd, rcvd[n].call, n - 1)
  BY <1>3, EarlierName
<1> QED
  BY <1>2, <1>3, <1>4 DEF Attributed

LEMMA AttributedAdds ==
  ASSUME TypeOK, RecordInv, NamesInv, Forward, NEW r, audit' = Append(audit, r),
         Attributed(rcvd', r)
  PROVE  \A j \in DOMAIN audit' : Attributed(rcvd', audit'[j])
<1>1. audit \in Seq(Record)
  BY DEF TypeOK
<1>2. ASSUME NEW j \in DOMAIN audit'
      PROVE  audit'[j] = r \/ (j \in DOMAIN audit /\ audit'[j] = audit[j])
  BY <1>1, <1>2
<1> QED
  BY <1>2, AttributedKept

\* A record about an event that is not a result.
LEMMA AttributedOther ==
  ASSUME NEW x, rcvd'[x.subject].kind # "Result"
  PROVE  Attributed(rcvd', x)
BY DEF Attributed

LEMMA NamesStep ==
  ASSUME TypeOK, RelayInv, WaitInv, RecordInv, NamesInv, Next
  PROVE  NamesInv'
<1>0. Forward /\ \A j \in DOMAIN audit : Attributed(rcvd', audit[j])
  BY SendsStep, AttributedKept
<1>1. \A c \in CallId : toolNames[c] = NameOf(rcvd, c, Len(rcvd))
  BY <1>0 DEF NamesInv, Forward
<1> DEFINE Told == \A j \in DOMAIN audit' : Attributed(rcvd', audit'[j])
<1>2. ASSUME Told, \/ pc' \in {"eof", "error", "dropped"}
                   \/ UNCHANGED <<toolNames, rcvd>>
      PROVE  NamesInv'
  BY <1>1, <1>2 DEF NamesInv, Live
<1>3. ASSUME NEW f \in Fragment, Read(f), Told, NEW c \in CallId
      PROVE  /\ f.kind \notin {"Start", "Result"} \/ f.call # c
                 => NameOf(rcvd', c, Len(rcvd')) = toolNames[c]
             /\ f.kind = "Start" /\ f.call = c => NameOf(rcvd', c, Len(rcvd')) = f.tool
             /\ f.kind = "Result" /\ f.call = c => NameOf(rcvd', c, Len(rcvd')) = NoTool
  <2>1. /\ Len(rcvd) \in Nat /\ Len(rcvd') = Len(rcvd) + 1 /\ rcvd'[Len(rcvd) + 1] = f
        /\ \A n \in 1..Len(rcvd) : rcvd'[n] = rcvd[n]
    BY <1>3, ReadEvents
  <2>2. NameOf(rcvd, c, Len(rcvd)) = toolNames[c]
    BY <1>1, <1>3
  <2> DEFINE n == Len(rcvd)
  <2>3. /\ (f.call = c /\ f.kind = "Start") => NameOf(rcvd', c, n + 1) = f.tool
        /\ (f.call = c /\ f.kind = "Result") => NameOf(rcvd', c, n + 1) = NoTool
        /\ (f.call # c \/ f.kind \notin {"Start", "Result"})
              => NameOf(rcvd', c, n + 1) = NameOf(rcvd, c, n)
    <3>1. n \in Nat /\ Extends(rcvd', rcvd, n, f)
      BY <2>1 DEF Extends
    <3> HIDE DEF n
    <3> QED
      BY <3>1, NameFollows, ZenonT(60)
  <2> QED
    BY <2>1, <2>2, <2>3
<1>4. ASSUME NEW f \in Fragment, OverBudget(f) \/ MalformedTerminate(f) \/ StructuralReject(f)
      PROVE  NamesInv'
  BY <1>0, <1>2, <1>4 DEF OverBudget, MalformedTerminate, StructuralReject, TerminateRun
<1>5. CASE UpstreamError \/ FrameLimitExceeded \/ ClientGone \/ RejectRunEnd \/ FinishEof
  BY <1>0, <1>2, <1>5
     DEF UpstreamError, FrameLimitExceeded, TerminateRun, ClientGone, RejectRunEnd, FinishEof
<1>6. CASE UpstreamEof
  BY <1>0, <1>2, <1>6 DEF UpstreamEof
<1>7. ASSUME NEW f \in Fragment,
             PassThrough(f) \/ MalformedDrop(f) \/ ToolCallArgs(f) \/ RunEnd(f)
      PROVE  NamesInv'
  <2>1. Read(f) /\ f.kind \notin {"Start", "Result"} /\ UNCHANGED <<toolNames, audit>>
    BY <1>7 DEF PassThrough, MalformedDrop, ToolCallArgs, RunEnd, Inspected, runVars, RunEndKind
  <2> QED
    BY <1>0, <1>3, <2>1 DEF NamesInv
<1>8. ASSUME NEW f \in Fragment, ToolCallStarted(f) PROVE NamesInv'
  <2>1. /\ Read(f) /\ f.kind = "Start" /\ audit' = audit /\ f.call \in CallId
        /\ toolNames' = [toolNames EXCEPT ![f.call] = f.tool]
    BY <1>8, FragmentTyped DEF ToolCallStarted, Inspected, ToolCallKind
  <2>2. \A c \in CallId : toolNames'[c] = IF c = f.call THEN f.tool ELSE toolNames[c]
    BY <2>1 DEF TypeOK
  <2> QED
    BY <1>0, <1>3, <2>1, <2>2 DEF NamesInv
<1>9. ASSUME NEW c \in CallId, NEW v \in Verdict, c \in Unjudged,
             audit' = Append(audit, CallRecord(c, v))
      PROVE  Told
  <2>1. buf[c].start \in 1..Len(rcvd) /\ rcvd[buf[c].start].kind = "Start"
    BY <1>0, <1>9 DEF RecordInv, CallsInv, Forward
  <2>2. rcvd'[buf[c].start] = rcvd[buf[c].start]
    BY <1>0, <2>1 DEF Forward, TypeOK
  <2>3. Attributed(rcvd', CallRecord(c, v))
    <3>1. CallRecord(c, v).subject = buf[c].start
      BY DEF CallRecord
    <3>2. rcvd'[CallRecord(c, v).subject].kind # "Result"
      BY <2>1, <2>2, <3>1
    <3> QED
      BY <3>2 DEF Attributed
  <2> QED
    BY <1>0, <1>9, <2>3, AttributedAdds
<1>10. ASSUME NEW f \in Fragment, ToolCallEnded(f) PROVE NamesInv'
  <2>1. Read(f) /\ f.kind = "End" /\ f.call \in open /\ toolNames' = toolNames
    BY <1>10 DEF ToolCallEnded, Inspected, Rejected
  <2>2. PICK v \in Verdict : audit' = Append(audit, CallRecord(f.call, v))
    BY <1>10 DEF ToolCallEnded, VerdictsFor
  <2>3. f.call \in CallId /\ f.call \in Unjudged
    BY <2>1 DEF TypeOK, Unjudged
  <2>4. Told
    BY <1>9, <2>2, <2>3
  <2> QED
    BY <1>3, <2>1, <2>4 DEF NamesInv
<1>11. ASSUME NEW c \in CallId, SweepCall(c) PROVE NamesInv'
  <2>1. c \in drained /\ UNCHANGED <<toolNames, rcvd>>
    BY <1>11 DEF SweepCall
  <2>2. PICK v \in Verdict : audit' = Append(audit, CallRecord(c, v))
    BY <1>11 DEF SweepCall, VerdictsFor
  <2>3. Told
    BY <1>9, <2>1, <2>2 DEF Unjudged
  <2> QED
    BY <1>2, <2>1, <2>3
<1>12. CASE FinishRun
  <2>1. pc = "sweep" /\ ending # 0 /\ UNCHANGED <<toolNames, rcvd>>
    BY <1>12 DEF FinishRun, SweptAll
  <2>2. PICK v \in Verdict : audit' = Append(audit, EventRecord(ending, NoTool, v))
    BY <1>12 DEF FinishRun, VerdictsFor, JudgeEvent
  <2>3. rcvd[ending].kind \in RunEndKind
    BY <2>1 DEF RecordInv, EndingInv
  <2>4. Attributed(rcvd', EventRecord(ending, NoTool, v))
    BY <2>1, <2>3, AttributedOther DEF EventRecord, RunEndKind
  <2>5. Told
    BY <1>0, <2>2, <2>4, AttributedAdds
  <2> QED
    BY <1>2, <2>1, <2>5
<1>13. ASSUME NEW f \in Fragment, StandaloneEvent(f) PROVE NamesInv'
  <2> DEFINE t == IF f.kind = "Result" THEN toolNames[f.call] ELSE NoTool
  <2>1. Read(f) /\ f.kind # "Start" /\ toolNames' = NamesAfter(f)
    BY <1>13 DEF StandaloneEvent, Inspected, ContentKind
  <2>2. PICK v \in Verdict : audit' = Append(audit, EventRecord(SeenEvents + 1, t, v))
    BY <1>13 DEF StandaloneEvent, VerdictsFor, JudgeEvent
  <2>3. /\ Len(rcvd) \in Nat /\ Len(rcvd') = Len(rcvd) + 1 /\ SeenEvents = Len(rcvd)
        /\ rcvd'[Len(rcvd) + 1] = f /\ \A n \in 1..Len(rcvd) : rcvd'[n] = rcvd[n]
    BY <2>1, ReadEvents
  <2>4. f.kind = "Result" => f.call \in CallId
    BY FragmentTyped
  <2>5. Attributed(rcvd', EventRecord(SeenEvents + 1, t, v))
    <3>1. CASE f.kind # "Result"
      BY <2>3, <3>1, AttributedOther DEF EventRecord
    <3>2. CASE f.kind = "Result"
      <4>1. NameOf(rcvd', f.call, Len(rcvd)) = NameOf(rcvd, f.call, Len(rcvd))
        BY <2>3, EarlierName
      <4>2. t = NameOf(rcvd', f.call, Len(rcvd))
        BY <1>1, <2>4, <3>2, <4>1
      <4>3. Len(rcvd) + 1 - 1 = Len(rcvd)
        BY <2>3
      <4> HIDE DEF t
      <4> QED
        BY <2>3, <4>2, <4>3 DEF Attributed, EventRecord
    <3> QED
      BY <3>1, <3>2
  <2>6. Told
    <3> HIDE DEF t
    <3> QED
      BY <1>0, <2>2, <2>5, AttributedAdds
  <2>7. \A c \in CallId : toolNames'[c] = IF f.kind = "Result" /\ c = f.call THEN NoTool
                                           ELSE toolNames[c]
    BY <2>1 DEF NamesAfter, TypeOK
  <2> HIDE DEF Told
  <2>8. \A c \in CallId : toolNames'[c] = NameOf(rcvd', c, Len(rcvd'))
    BY <1>3, <2>1, <2>6, <2>7
  <2> QED
    BY <2>6, <2>8 DEF NamesInv, Told
<1> QED
  BY <1>4, <1>5, <1>6, <1>7, <1>8, <1>10, <1>11, <1>12, <1>13 DEF Next, HandleEvent, Sweep

\* A tool result is judged and recorded under the tool of the latest START of its call id,
\* and under none once that START has had its result.
THEOREM ResultsAttributed == Spec => []ResultAttribution
<1>1. Init => JudgeInv /\ NamesInv
  BY JudgeInductive, NamesInit
<1>2. JudgeInv /\ NamesInv /\ [Next]_vars => (JudgeInv /\ NamesInv)'
  <2>1. ASSUME JudgeInv, NamesInv, Next PROVE NamesInv'
    BY <2>1, NamesStep DEF JudgeInv, OrderInv
  <2>2. ASSUME NamesInv, UNCHANGED vars PROVE NamesInv'
    BY <2>2 DEF NamesInv, vars, Live
  <2> QED
    BY <2>1, <2>2, JudgeInductive
<1>3. NamesInv => ResultAttribution
  BY DEF NamesInv, ResultAttribution, Attributed, NameOf, NamedIn, StartIsNewest, Newest,
     MentionsIn, Mentions
<1> QED
  BY <1>1, <1>2, <1>3, PTL DEF Spec
-----------------------------------------------------------------------------
(***************************************************************************)
(* A relayed tool call is one block, and the call that was judged.         *)
(***************************************************************************)
ArgsFrame(n, start) == [n |-> n, subject |-> start, form |-> "args"]

\* At position p of s starts the block of record x.
BlockOf(x, s, p) ==
  /\ x.subject = s[p].n
  /\ p + Len(x.args) \in DOMAIN s
  /\ \A i \in 1..Len(x.args) : s[p + i] = ArgsFrame(x.args[i], s[p].n)
  /\ p + Len(x.args) + 1 \in DOMAIN s => s[p + Len(x.args) + 1].form # "args"

\* The frame before p is one of the same call.
Continues(s, p) ==
  p > 1 /\ s[p - 1].form \in {"start", "args"} /\ s[p - 1].subject = s[p].subject

Blocked(a, s) ==
  /\ \A p \in DOMAIN s : s[p].form = "start" => \E j \in DOMAIN a : BlockOf(a[j], s, p)
  /\ \A p \in DOMAIN s : s[p].form \in {"args", "end"} => Continues(s, p)

\* The frames held for a call are its buffer.
HoldsBuffer(s, b) ==
  /\ Len(s) = Len(b.args) + 1
  /\ s[1] = [n |-> b.start, subject |-> b.start, form |-> "start"]
  /\ \A i \in 1..Len(b.args) : s[i + 1] = ArgsFrame(b.args[i], b.start)

BlockInv ==
  /\ Live => \A c \in open \cup drained : HoldsBuffer(holds[c], buf[c])
  /\ Blocked(audit, flushed) /\ Blocked(audit, out)

LEMMA BlockedMore ==
  ASSUME NEW a \in Seq(Record), NEW r \in Record, NEW s, Blocked(a, s)
  PROVE  Blocked(Append(a, r), s)
<1>1. \A j \in DOMAIN a : j \in DOMAIN Append(a, r) /\ Append(a, r)[j] = a[j]
  OBVIOUS
<1> QED
  BY <1>1 DEF Blocked

LEMMA BlockedNone == \A a : Blocked(a, <<>>)
BY DEF Blocked

LEMMA BlockedOne ==
  ASSUME NEW a, NEW g \in Frame, g.form \notin {"start", "args", "end"}
  PROVE  Blocked(a, <<g>>)
<1>1. \A p \in DOMAIN <<g>> : <<g>>[p] = g
  OBVIOUS
<1> QED
  BY <1>1 DEF Blocked

\* Blocks are joined whole: the second sequence cannot begin with arguments.
LEMMA BlockedJoined ==
  ASSUME NEW a \in Seq(Record), NEW s \in Seq(Frame), NEW t \in Seq(Frame),
         Blocked(a, s), Blocked(a, t)
  PROVE  Blocked(a, s \o t)
<1> DEFINE u == s \o t
           k == Len(s)
<1>1. /\ k \in Nat /\ Len(t) \in Nat /\ u \in Seq(Frame) /\ Len(u) = k + Len(t)
      /\ DOMAIN s = 1..k /\ DOMAIN t = 1..Len(t) /\ DOMAIN u = 1..(k + Len(t))
      /\ \A p \in 1..k : u[p] = s[p]
      /\ \A p \in 1..Len(t) : u[k + p] = t[p]
  OBVIOUS
<1> HIDE DEF u, k
<1>2. ASSUME NEW p \in DOMAIN u
      PROVE  \/ p \in 1..k /\ u[p] = s[p]
             \/ \E q \in 1..Len(t) : p = k + q /\ u[p] = t[q]
  <2>1. CASE p <= k
    BY <1>1, <1>2, <2>1
  <2>2. CASE p > k
    <3>1. p - k \in 1..Len(t) /\ p = k + (p - k)
      BY <1>1, <1>2, <2>2
    <3> QED
      BY <1>1, <3>1
  <2> QED
    BY <1>1, <1>2, <2>1, <2>2
<1>3. ASSUME Len(t) > 0 PROVE t[1].form # "args"
  <2>1. 1 \in DOMAIN t /\ ~(1 > 1)
    BY <1>1, <1>3
  <2>2. ~Continues(t, 1)
    BY <2>1 DEF Continues
  <2> QED
    BY <2>1, <2>2 DEF Blocked
<1>4. ASSUME NEW p \in 1..k, u[p].form = "start" PROVE \E j \in DOMAIN a : BlockOf(a[j], u, p)
  <2>1. s[p].form = "start" /\ u[p] = s[p]
    BY <1>1, <1>4
  <2>2. PICK j \in DOMAIN a : BlockOf(a[j], s, p)
    BY <1>1, <2>1 DEF Blocked
  <2> DEFINE n == Len(a[j].args)
  <2>3. a[j].args \in Seq(Nat) /\ n \in Nat
    <3>1. a[j] \in Record
      BY <2>2
    <3> QED
      BY <3>1 DEF Record
  <2>4. /\ a[j].subject = s[p].n /\ p + n \in DOMAIN s
        /\ \A i \in 1..n : s[p + i] = ArgsFrame(a[j].args[i], s[p].n)
        /\ p + n + 1 \in DOMAIN s => s[p + n + 1].form # "args"
    BY <2>2 DEF BlockOf
  <2> HIDE DEF n
  <2>5. p + n \in DOMAIN u /\ p + n <= k
    BY <1>1, <2>3, <2>4
  <2>6. \A i \in 1..n : p + i \in 1..k
    BY <1>4, <1>1, <2>3, <2>5
  <2>7. \A i \in 1..n : u[p + i] = ArgsFrame(a[j].args[i], u[p].n)
    BY <1>1, <2>1, <2>4, <2>6
  <2>8. ASSUME p + n + 1 \in DOMAIN u PROVE u[p + n + 1].form # "args"
    <3>1. CASE p + n + 1 <= k
      <4>1. p + n + 1 \in 1..k
        BY <1>1, <1>4, <2>3, <3>1
      <4> QED
        BY <1>1, <2>4, <4>1
    <3>2. CASE ~(p + n + 1 <= k)
      <4>1. p + n + 1 = k + 1 /\ Len(t) > 0
        BY <1>1, <1>4, <2>3, <2>5, <2>8, <3>2
      <4>2. u[k + 1] = t[1]
        BY <1>1, <4>1
      <4> QED
        BY <1>3, <4>1, <4>2
    <3> QED
      BY <3>1, <3>2
  <2>9. BlockOf(a[j], u, p)
    BY <2>1, <2>4, <2>5, <2>7, <2>8 DEF BlockOf, n
  <2> QED
    BY <2>9
<1>5. ASSUME NEW q \in 1..Len(t), u[k + q].form = "start"
      PROVE  \E j \in DOMAIN a : BlockOf(a[j], u, k + q)
  <2>1. t[q].form = "start" /\ u[k + q] = t[q]
    BY <1>1, <1>5
  <2>2. PICK j \in DOMAIN a : BlockOf(a[j], t, q)
    BY <1>1, <2>1 DEF Blocked
  <2> DEFINE n == Len(a[j].args)
  <2>3. n \in Nat
    <3>1. a[j] \in Record
      BY <2>2
    <3> QED
      BY <3>1 DEF Record
  <2>4. /\ a[j].subject = t[q].n /\ q + n \in DOMAIN t
        /\ \A i \in 1..n : t[q + i] = ArgsFrame(a[j].args[i], t[q].n)
        /\ q + n + 1 \in DOMAIN t => t[q + n + 1].form # "args"
    BY <2>2 DEF BlockOf
  <2> HIDE DEF n
  <2>5. k + q + n \in DOMAIN u /\ q + n <= Len(t)
    BY <1>1, <2>3, <2>4
  <2>6. \A i \in 1..n : q + i \in 1..Len(t) /\ k + q + i = k + (q + i)
    BY <1>1, <1>5, <2>3, <2>5
  <2>7. \A i \in 1..n : u[k + q + i] = ArgsFrame(a[j].args[i], u[k + q].n)
    BY <1>1, <2>1, <2>4, <2>6
  <2>8. ASSUME k + q + n + 1 \in DOMAIN u PROVE u[k + q + n + 1].form # "args"
    <3>1. q + n + 1 \in 1..Len(t) /\ k + q + n + 1 = k + (q + n + 1)
      BY <1>1, <1>5, <2>3, <2>8
    <3>2. u[k + q + n + 1] = t[q + n + 1]
      BY <1>1, <3>1
    <3> QED
      BY <1>1, <2>4, <3>1, <3>2
  <2>9. BlockOf(a[j], u, k + q)
    BY <2>1, <2>4, <2>5, <2>7, <2>8 DEF BlockOf, n
  <2> QED
    BY <2>9
<1>6. ASSUME NEW p \in 1..k, u[p].form \in {"args", "end"} PROVE Continues(u, p)
  <2>1. Continues(s, p)
    BY <1>1, <1>6 DEF Blocked
  <2>2. p - 1 \in 1..k
    <3>1. p > 1
      BY <2>1 DEF Continues
    <3> QED
      BY <1>1, <1>6, <3>1
  <2> QED
    BY <1>1, <2>1, <2>2 DEF Continues
<1>7. ASSUME NEW p, NEW q \in 1..Len(t), p = k + q, u[p].form \in {"args", "end"}
      PROVE  Continues(u, p)
  <2>1. u[p] = t[q]
    BY <1>1, <1>7
  <2>2. Continues(t, q)
    BY <1>1, <1>7, <2>1 DEF Blocked
  <2>3. q > 1
    BY <2>2 DEF Continues
  <2>4. q - 1 \in 1..Len(t) /\ p - 1 = k + (q - 1) /\ p > 1
    BY <1>1, <1>7, <2>3
  <2>5. u[p - 1] = t[q - 1]
    BY <1>1, <2>4
  <2> QED
    BY <2>1, <2>2, <2>4, <2>5 DEF Continues
<1>8. Blocked(a, u)
  BY <1>2, <1>4, <1>5, <1>6, <1>7 DEF Blocked
<1> QED
  BY <1>8 DEF u

\* The held frames of a call, with its END or without, are a block of its record.
LEMMA HeldBlocked ==
  ASSUME NEW a \in Seq(Record), NEW s \in Seq(Frame), NEW b \in ToolCallBuffer, NEW r \in Record,
         HoldsBuffer(s, b), r.subject = b.start, r.args = b.args
  PROVE  Blocked(Append(a, r), s)
<1> DEFINE A == Append(a, r)
           k == Len(b.args)
<1>1. Len(a) + 1 \in DOMAIN A /\ A[Len(a) + 1] = r
  OBVIOUS
<1>2. k \in Nat /\ b.start \in Nat
  BY DEF ToolCallBuffer
<1>3. /\ Len(s) = k + 1 /\ DOMAIN s = 1..(k + 1)
      /\ s[1] = [n |-> b.start, subject |-> b.start, form |-> "start"]
      /\ \A i \in 1..k : s[i + 1] = ArgsFrame(b.args[i], b.start)
  BY DEF HoldsBuffer
<1> HIDE DEF A, k
<1>4. s[1].form = "start" /\ s[1].n = b.start /\ s[1].subject = b.start
  BY <1>3
<1>5. ASSUME NEW p \in 2..(k + 1)
      PROVE  s[p].form = "args" /\ s[p].subject = b.start
  <2>1. p - 1 \in 1..k /\ p = (p - 1) + 1
    BY <1>2, <1>5
  <2>2. s[p] = ArgsFrame(b.args[p - 1], b.start)
    BY <1>3, <2>1
  <2> QED
    BY <2>2 DEF ArgsFrame
<1>6. BlockOf(r, s, 1)
  <2>1. Len(r.args) = k
    BY DEF k
  <2>2. 1 + k \in DOMAIN s /\ 1 + k + 1 \notin DOMAIN s
    BY <1>2, <1>3
  <2>3. \A i \in 1..k : 1 + i = i + 1
    BY <1>2
  <2>4. \A i \in 1..k : s[1 + i] = ArgsFrame(r.args[i], s[1].n)
    BY <1>3, <1>4, <2>3
  <2> QED
    BY <1>4, <2>1, <2>2, <2>4 DEF BlockOf
<1>7. ASSUME NEW p \in DOMAIN s
      PROVE  p = 1 \/ p \in 2..(k + 1)
  BY <1>2, <1>3, <1>7
<1>8. ASSUME NEW p \in 2..(k + 1) PROVE Continues(s, p)
  <2>1. p > 1 /\ (p - 1 = 1 \/ p - 1 \in 2..(k + 1))
    BY <1>2, <1>8
  <2>2. s[p - 1].form \in {"start", "args"} /\ s[p - 1].subject = b.start
    BY <1>4, <1>5, <2>1
  <2> QED
    BY <1>5, <1>8, <2>1, <2>2 DEF Continues
<1>9. ASSUME NEW p \in DOMAIN s, s[p].form = "start" PROVE \E j \in DOMAIN A : BlockOf(A[j], s, p)
  BY <1>1, <1>5, <1>6, <1>7, <1>9
<1>10. ASSUME NEW p \in DOMAIN s, s[p].form \in {"args", "end"} PROVE Continues(s, p)
  BY <1>4, <1>7, <1>8, <1>10
<1>11. Blocked(A, s)
  BY <1>9, <1>10 DEF Blocked
<1> QED
  BY <1>11 DEF A

LEMMA ClosedBlocked ==
  ASSUME NEW a \in Seq(Record), NEW s \in Seq(Frame), NEW b \in ToolCallBuffer, NEW r \in Record,
         HoldsBuffer(s, b), r.subject = b.start, r.args = b.args,
         NEW g \in Frame, g.form = "end", g.subject = b.start
  PROVE  Blocked(Append(a, r), Append(s, g))
<1> DEFINE A == Append(a, r)
           k == Len(b.args)
           u == Append(s, g)
<1>1. Len(a) + 1 \in DOMAIN A /\ A[Len(a) + 1] = r
  OBVIOUS
<1>2. k \in Nat /\ b.start \in Nat
  BY DEF ToolCallBuffer
<1>3. /\ Len(s) = k + 1 /\ DOMAIN s = 1..(k + 1)
      /\ s[1] = [n |-> b.start, subject |-> b.start, form |-> "start"]
      /\ \A i \in 1..k : s[i + 1] = ArgsFrame(b.args[i], b.start)
  BY DEF HoldsBuffer
<1>4. DOMAIN u = 1..(k + 2) /\ u[k + 2] = g /\ \A p \in 1..(k + 1) : u[p] = s[p]
  BY <1>2, <1>3
<1>5. Blocked(A, s)
  BY HeldBlocked
<1>6. ASSUME NEW p \in 2..(k + 1)
      PROVE  s[p].form = "args" /\ s[p].subject = b.start
  <2>1. p - 1 \in 1..k /\ p = (p - 1) + 1
    BY <1>2, <1>6
  <2>2. s[p] = ArgsFrame(b.args[p - 1], b.start)
    BY <1>3, <2>1
  <2> QED
    BY <2>2 DEF ArgsFrame
<1> HIDE DEF A, k, u
<1>7. s[k + 1].form \in {"start", "args"} /\ s[k + 1].subject = b.start
  <2>1. k + 1 = 1 \/ k + 1 \in 2..(k + 1)
    BY <1>2
  <2> QED
    BY <1>3, <1>6, <2>1
<1>8. BlockOf(r, u, 1)
  <2>1. Len(r.args) = k
    BY DEF k
  <2>2. u[1] = s[1] /\ u[1].n = b.start
    BY <1>2, <1>3, <1>4
  <2>3. 1 + k \in DOMAIN u /\ 1 + k + 1 = k + 2 /\ u[k + 2].form # "args"
    BY <1>2, <1>4
  <2>4. \A i \in 1..k : 1 + i = i + 1 /\ i + 1 \in 1..(k + 1)
    BY <1>2
  <2>5. \A i \in 1..k : u[1 + i] = ArgsFrame(r.args[i], u[1].n)
    BY <1>3, <1>4, <2>2, <2>4
  <2> QED
    BY <2>1, <2>2, <2>3, <2>5 DEF BlockOf
<1>9. ASSUME NEW p \in DOMAIN u PROVE p = k + 2 \/ p = 1 \/ p \in 2..(k + 1)
  BY <1>2, <1>4, <1>9
<1>10. ASSUME NEW p \in 2..(k + 1) PROVE u[p].form = "args" /\ Continues(u, p)
  <2>1. p \in 1..(k + 1) /\ p - 1 \in 1..(k + 1) /\ p > 1
    BY <1>2, <1>10
  <2>2. s[p].form = "args" /\ Continues(s, p)
    BY <1>3, <1>5, <1>6, <1>10, <2>1 DEF Blocked
  <2>3. u[p] = s[p] /\ u[p - 1] = s[p - 1]
    BY <1>4, <2>1
  <2> QED
    BY <2>1, <2>2, <2>3 DEF Continues
<1>11. ASSUME NEW p, p = k + 2 PROVE Continues(u, p)
  <2>1. p > 1 /\ p - 1 = k + 1 /\ k + 1 \in 1..(k + 1)
    BY <1>2, <1>11
  <2>2. u[p - 1] = s[k + 1] /\ u[p].subject = b.start
    BY <1>4, <1>11, <2>1
  <2> QED
    BY <1>7, <2>1, <2>2 DEF Continues
<1>12. u[1].form = "start" /\ u[k + 2].form = "end"
  BY <1>2, <1>3, <1>4
<1>13. ASSUME NEW p \in DOMAIN u, u[p].form = "start" PROVE \E j \in DOMAIN A : BlockOf(A[j], u, p)
  BY <1>1, <1>8, <1>9, <1>10, <1>12, <1>13
<1>14. ASSUME NEW p \in DOMAIN u, u[p].form \in {"args", "end"} PROVE Continues(u, p)
  BY <1>9, <1>10, <1>11, <1>12, <1>14
<1>15. Blocked(A, u)
  BY <1>13, <1>14 DEF Blocked
<1> QED
  BY <1>15 DEF A, u
-----------------------------------------------------------------------------
\* A delta goes to the buffer and to the held frames.
LEMMA HoldsDelta ==
  ASSUME NEW s \in Seq(Frame), NEW b \in ToolCallBuffer, HoldsBuffer(s, b), NEW n \in Nat,
         NEW bytes \in Nat
  PROVE  HoldsBuffer(Append(s, ArgsFrame(n, b.start)), WithDelta(b, n, bytes))
<1> DEFINE k == Len(b.args)
           t == Append(s, ArgsFrame(n, b.start))
           d == WithDelta(b, n, bytes)
<1>1. k \in Nat /\ b.args \in Seq(Nat) /\ b.start \in Nat
  BY DEF ToolCallBuffer
<1>2. d.args = Append(b.args, n) /\ d.start = b.start
  BY DEF WithDelta, ToolCallBuffer
<1>3. Len(s) = k + 1 /\ s[1] = [n |-> b.start, subject |-> b.start, form |-> "start"]
      /\ \A i \in 1..k : s[i + 1] = ArgsFrame(b.args[i], b.start)
  BY DEF HoldsBuffer
<1>4. ArgsFrame(n, b.start) \in Frame
  BY <1>1 DEF ArgsFrame, Frame, FrameForm
<1>5. /\ Len(t) = k + 2 /\ t[k + 2] = ArgsFrame(n, b.start)
      /\ \A p \in 1..(k + 1) : t[p] = s[p]
  BY <1>1, <1>3, <1>4
<1>6. Len(d.args) = k + 1 /\ d.args[k + 1] = n /\ \A i \in 1..k : d.args[i] = b.args[i]
  BY <1>1, <1>2
<1> HIDE DEF k, t, d
<1>7. ASSUME NEW i \in 1..(k + 1) PROVE t[i + 1] = ArgsFrame(d.args[i], d.start)
  <2>1. CASE i = k + 1
    <3>1. i + 1 = k + 2
      BY <1>1, <2>1
    <3> QED
      BY <1>2, <1>5, <1>6, <2>1, <3>1
  <2>2. CASE i # k + 1
    <3>1. i \in 1..k /\ i + 1 \in 1..(k + 1)
      BY <1>1, <1>7, <2>2
    <3> QED
      BY <1>2, <1>3, <1>5, <1>6, <3>1
  <2> QED
    BY <2>1, <2>2
<1>8. t[1] = s[1] /\ Len(t) = Len(d.args) + 1
  <2>1. 1 \in 1..(k + 1) /\ k + 2 = (k + 1) + 1
    BY <1>1
  <2> QED
    BY <1>5, <1>6, <2>1
<1>9. HoldsBuffer(t, d)
  BY <1>2, <1>3, <1>6, <1>7, <1>8 DEF HoldsBuffer
<1> QED
  BY <1>9 DEF t, d

AuditMoves == audit' = audit \/ \E r \in Record : audit' = Append(audit, r)

LEMMA EventRecordTyped ==
  ASSUME NEW n \in Nat, NEW t \in Tool \cup {NoTool}, NEW v \in Verdict
  PROVE  EventRecord(n, t, v) \in Record
<1>1. <<>> \in Seq(Nat)
  OBVIOUS
<1> QED
  BY <1>1 DEF EventRecord, Record

LEMMA BlockSent ==
  ASSUME TypeOK, BlockInv, AuditMoves
  PROVE  /\ Blocked(audit', out) /\ Blocked(audit', flushed) /\ Blocked(audit', out \o flushed)
         /\ audit' \in Seq(Record) /\ out \o flushed \in Seq(Frame)
         /\ \A x \in Seq(Frame) : Blocked(audit', x) =>
              Blocked(audit', out \o x) /\ Blocked(audit', (out \o flushed) \o x)
<1>1. audit \in Seq(Record) /\ out \in Seq(Frame) /\ flushed \in Seq(Frame)
  BY DEF TypeOK
<1>2. Blocked(audit', out) /\ Blocked(audit', flushed) /\ audit' \in Seq(Record)
  <2>1. Blocked(audit, out) /\ Blocked(audit, flushed)
    BY DEF BlockInv
  <2>2. CASE audit' = audit
    BY <1>1, <2>1, <2>2
  <2>3. ASSUME NEW r \in Record, audit' = Append(audit, r)
        PROVE  Blocked(audit', out) /\ Blocked(audit', flushed) /\ audit' \in Seq(Record)
    <3>1. Append(audit, r) \in Seq(Record)
      BY <1>1
    <3>2. Blocked(Append(audit, r), out) /\ Blocked(Append(audit, r), flushed)
      BY <1>1, <2>1, BlockedMore
    <3> QED
      BY <2>3, <3>1, <3>2
  <2> QED
    BY <2>2, <2>3 DEF AuditMoves
<1>3. Blocked(audit', out \o flushed) /\ out \o flushed \in Seq(Frame)
  BY <1>1, <1>2, BlockedJoined
<1>4. ASSUME NEW x \in Seq(Frame), Blocked(audit', x)
      PROVE  Blocked(audit', out \o x) /\ Blocked(audit', (out \o flushed) \o x)
  BY <1>1, <1>2, <1>3, <1>4, BlockedJoined
<1> QED
  BY <1>2, <1>3, <1>4

\* RUN_ERROR, or one frame that belongs to no call, is a block by itself.
LEMMA OneSent ==
  ASSUME TypeOK, BlockInv, AuditMoves, NEW g \in Frame, g.form \notin {"start", "args", "end"}
  PROVE  /\ Blocked(audit', Append(out, g)) /\ Blocked(audit', Append(out \o flushed, g))
         /\ Blocked(audit', out \o <<g>>)
<1>1. <<g>> \in Seq(Frame) /\ Blocked(audit', <<g>>)
  BY BlockedOne
<1>2. Blocked(audit', out \o <<g>>) /\ Blocked(audit', (out \o flushed) \o <<g>>)
  BY <1>1, BlockSent
<1>3. out \in Seq(Frame) /\ out \o flushed \in Seq(Frame)
  BY DEF TypeOK
<1>4. Append(out, g) = out \o <<g>> /\ Append(out \o flushed, g) = (out \o flushed) \o <<g>>
  BY <1>3, AppendIsConcat
<1> QED
  BY <1>2, <1>4

LEMMA BlockInit == Init => BlockInv
<1> SUFFICES ASSUME Init PROVE BlockInv
  OBVIOUS
<1>1. open \cup drained = {} /\ flushed = <<>> /\ out = <<>>
  BY DEF Init
<1> QED
  BY <1>1, BlockedNone DEF BlockInv

LEMMA BlockStep ==
  ASSUME TypeOK, TypeOK', RelayInv, BlockInv, Next
  PROVE  BlockInv'
<1> DEFINE Held == \A c \in open' \cup drained' : HoldsBuffer(holds'[c], buf'[c])
           Still == /\ open' \cup drained' \subseteq open \cup drained
                    /\ \A c \in open' \cup drained' : holds'[c] = holds[c] /\ buf'[c] = buf[c]
<1>1. ASSUME Live, Still PROVE Held
  BY <1>1 DEF BlockInv
<1>2. ASSUME Held \/ pc' \in {"eof", "error", "dropped"}, Blocked(audit', flushed'), Blocked(audit', out')
      PROVE  BlockInv'
  BY <1>2 DEF BlockInv, Live
<1>3. ASSUME AuditMoves, flushed' = flushed, out' = Append(out, RunErrorFrame), pc' = "error"
      PROVE  BlockInv'
  BY <1>2, <1>3, BlockSent, OneSent, RunErrorTyped
<1>4. ASSUME NEW f \in Fragment, OverBudget(f) \/ MalformedTerminate(f) \/ StructuralReject(f)
      PROVE  BlockInv'
  BY <1>3, <1>4 DEF OverBudget, MalformedTerminate, StructuralReject, TerminateRun, sweepVars, AuditMoves
<1>5. CASE UpstreamError \/ FrameLimitExceeded
  BY <1>3, <1>5 DEF UpstreamError, FrameLimitExceeded, TerminateRun, sweepVars, AuditMoves
<1>6. CASE ClientGone
  BY <1>2, <1>6 DEF ClientGone, sweepVars, BlockInv
<1>7. ASSUME NEW f \in Fragment, PassThrough(f) \/ MalformedDrop(f) PROVE BlockInv'
  <2>1. Live /\ Still /\ flushed' = flushed /\ audit' = audit
    BY <1>7 DEF PassThrough, MalformedDrop, Read, Live, runVars, sweepVars
  <2>2. CASE out' = out
    BY <1>1, <1>2, <2>1, <2>2 DEF BlockInv
  <2>3. CASE PassThrough(f)
    <3> DEFINE g == [n |-> SeenEvents + 1, subject |-> 0, form |-> "pass"]
    <3>1. out' = out \o <<g>> /\ SeenEvents + 1 \in Nat
      BY <2>3 DEF PassThrough, Emit, SeenEvents, TypeOK
    <3>2. g \in Frame /\ g.form = "pass"
      BY <3>1 DEF Frame, FrameForm
    <3> HIDE DEF g
    <3>3. Blocked(audit', out')
      BY <2>1, <3>1, <3>2, OneSent DEF AuditMoves
    <3> QED
      BY <1>1, <1>2, <2>1, <3>3 DEF BlockInv
  <2> QED
    BY <1>7, <2>2, <2>3 DEF MalformedDrop
<1>8. ASSUME NEW f \in Fragment, ToolCallStarted(f) PROVE BlockInv'
  <2> DEFINE c == f.call
             n == SeenEvents + 1
             g == [n |-> n, subject |-> n, form |-> "start"]
             b == [name |-> f.tool, start |-> n, args |-> <<>>, bytes |-> 0]
  <2>1. /\ c \in CallId /\ pc = "read" /\ drained = {} /\ c \notin open
        /\ open' = open \cup {c} /\ UNCHANGED <<drained, flushed, out, audit>>
        /\ buf' = [buf EXCEPT ![c] = b] /\ holds' = [holds EXCEPT ![c] = Append(holds[c], g)]
    BY <1>8, FragmentTyped DEF ToolCallStarted, Inspected, Read, Rejected, HoldFrame, ToolCallKind,
       RelayInv, SweepExclusive, sweepVars
  <2>2. holds[c] = <<>>
    BY <2>1 DEF RelayInv, HoldsMatchOpenCalls, Live
  <2>3. holds'[c] = <<g>> /\ buf'[c] = b
    BY <2>1, <2>2 DEF TypeOK
  <2>4. HoldsBuffer(<<g>>, b)
    BY DEF HoldsBuffer
  <2>5. \A d \in open \cup drained : holds'[d] = holds[d] /\ buf'[d] = buf[d]
    BY <2>1 DEF TypeOK
  <2>6. \A d \in open \cup drained : HoldsBuffer(holds[d], buf[d])
    BY <2>1 DEF BlockInv, Live
  <2> HIDE DEF g, b, c
  <2>7. Held
    BY <2>1, <2>3, <2>4, <2>5, <2>6
  <2> QED
    BY <1>2, <2>1, <2>7 DEF BlockInv
<1>9. ASSUME NEW f \in Fragment, ToolCallArgs(f) PROVE BlockInv'
  <2> DEFINE c == f.call
             n == SeenEvents + 1
  <2>1. /\ c \in CallId /\ c \in open /\ pc = "read" /\ UNCHANGED <<open, drained, flushed, out, audit>>
        /\ buf' = [buf EXCEPT ![c] = WithDelta(buf[c], n, f.bytes)]
        /\ holds' = [holds EXCEPT ![c] = Append(holds[c], ArgsFrame(n, buf[c].start))]
    BY <1>9, FragmentTyped DEF ToolCallArgs, Inspected, Read, Rejected, HoldFrame, ToolCallKind, sweepVars,
       ArgsFrame
  <2>2. n \in Nat /\ f.bytes \in Nat /\ buf[c] \in ToolCallBuffer /\ holds[c] \in Seq(Frame)
    <3>1. n \in Nat
      BY DEF TypeOK, SeenEvents
    <3>2. f.bytes \in Nat
      BY <1>9, FragmentTyped DEF ToolCallArgs
    <3>3. buf[c] \in ToolCallBuffer /\ holds[c] \in Seq(Frame)
      BY <2>1 DEF TypeOK
    <3> QED
      BY <3>1, <3>2, <3>3
  <2>3. \A d \in open \cup drained : HoldsBuffer(holds[d], buf[d])
    BY <2>1 DEF BlockInv, Live
  <2>4. /\ holds'[c] = Append(holds[c], ArgsFrame(n, buf[c].start))
        /\ buf'[c] = WithDelta(buf[c], n, f.bytes)
        /\ \A d \in CallId \ {c} : holds'[d] = holds[d] /\ buf'[d] = buf[d]
    BY <2>1 DEF TypeOK
  <2> HIDE DEF c, n
  <2>5. HoldsBuffer(holds'[c], buf'[c])
    BY <2>1, <2>2, <2>3, <2>4, HoldsDelta
  <2>6. open \cup drained \subseteq CallId
    BY DEF TypeOK
  <2>7. Held
    BY <2>1, <2>3, <2>4, <2>5, <2>6
  <2> QED
    BY <1>2, <2>1, <2>7 DEF BlockInv
<1>10. ASSUME NEW f \in Fragment, StandaloneEvent(f) PROVE BlockInv'
  <2> DEFINE t == IF f.kind = "Result" THEN toolNames[f.call] ELSE NoTool
  <2>1. PICK v \in Verdict : /\ JudgeEvent(out, SeenEvents + 1, t, "event", v)
                             /\ pc' = IF v = "Terminate" THEN "error" ELSE pc
    BY <1>10 DEF StandaloneEvent, VerdictsFor
  <2>2. /\ UNCHANGED <<open, buf, drained, flushed>> /\ Live /\ SeenEvents + 1 \in Nat
        /\ t \in Tool \cup {NoTool}
    <3>1. UNCHANGED <<open, buf, drained, flushed>> /\ Live
      BY <1>10 DEF StandaloneEvent, Inspected, Read, Live, sweepVars
    <3>2. SeenEvents + 1 \in Nat
      BY DEF SeenEvents, TypeOK
    <3>3. f.kind = "Result" => f.call \in CallId
      BY FragmentTyped
    <3>4. t \in Tool \cup {NoTool}
      BY <3>3 DEF TypeOK
    <3> QED
      BY <3>1, <3>2, <3>4
  <2> HIDE DEF t
  <2>3. AuditMoves
    <3>1. EventRecord(SeenEvents + 1, t, v) \in Record
      BY <2>2, EventRecordTyped
    <3> QED
      BY <2>1, <3>1 DEF JudgeEvent, AuditMoves
  <2>4. Blocked(audit', flushed')
    BY <2>2, <2>3, BlockSent
  <2> DEFINE g == [n |-> SeenEvents + 1, subject |-> SeenEvents + 1,
                   form |-> IF v = "Allow" THEN "event" ELSE "transformed"]
  <2>5. g \in Frame /\ g.form \in {"event", "transformed"}
    BY <2>2 DEF Frame, FrameForm
  <2>6. out' \in {Append(out, g), out, Append(out, RunErrorFrame)} /\ (v = "Terminate" \/ holds' = holds)
    BY <2>1 DEF JudgeEvent
  <2> HIDE DEF g
  <2>7. Blocked(audit', out')
    BY <2>3, <2>5, <2>6, BlockSent, OneSent, RunErrorTyped
  <2>8. v = "Terminate" \/ Held
    BY <1>1, <2>2, <2>6
  <2> QED
    BY <1>2, <2>1, <2>4, <2>7, <2>8
<1>11. ASSUME \/ \E f \in Fragment : RunEnd(f)
              \/ UpstreamEof
       PROVE  BlockInv'
  <2>1. /\ pc = "read" /\ drained' = open /\ open' = {} /\ flushed' = <<>>
        /\ UNCHANGED <<buf, holds, out, audit>>
    BY <1>11 DEF RunEnd, UpstreamEof, Read, StartSweep
  <2>2. Live /\ Still
    BY <2>1 DEF Live
  <2> QED
    BY <1>1, <1>2, <2>1, <2>2, BlockedNone DEF BlockInv
<1>12. ASSUME NEW c \in CallId, c \in open \cup drained, Live, ForgetCall(c),
              NEW v \in Verdict, audit' = Append(audit, CallRecord(c, v))
       PROVE  /\ AuditMoves /\ CallRecord(c, v) \in Record
              /\ CallRecord(c, v).subject = buf[c].start /\ CallRecord(c, v).args = buf[c].args
              /\ buf[c] \in ToolCallBuffer /\ holds[c] \in Seq(Frame) /\ audit \in Seq(Record)
              /\ HoldsBuffer(holds[c], buf[c])
              /\ DropHold(c) /\ open' \cup drained' = (open \cup drained) \ {c} => Held
  <2>1. CallRecord(c, v) \in Record
    BY <1>12, CallRecordTyped
  <2>2. CallRecord(c, v).subject = buf[c].start /\ CallRecord(c, v).args = buf[c].args
    BY DEF CallRecord
  <2>3. buf[c] \in ToolCallBuffer /\ holds[c] \in Seq(Frame) /\ audit \in Seq(Record)
        /\ open \cup drained \subseteq CallId
    BY <1>12 DEF TypeOK
  <2>4. \A d \in open \cup drained : HoldsBuffer(holds[d], buf[d])
    BY <1>12 DEF BlockInv
  <2>5. ASSUME DropHold(c), open' \cup drained' = (open \cup drained) \ {c} PROVE Held
    <3>1. \A d \in CallId \ {c} : holds'[d] = holds[d] /\ buf'[d] = buf[d]
      BY <1>12, <2>5 DEF ForgetCall, DropHold, TypeOK
    <3> QED
      BY <2>3, <2>4, <2>5, <3>1
  <2> QED
    BY <1>12, <2>1, <2>2, <2>3, <2>4, <2>5 DEF AuditMoves
<1>13. ASSUME NEW f \in Fragment, ToolCallEnded(f) PROVE BlockInv'
  <2> DEFINE c == f.call
             g == [n |-> SeenEvents + 1, subject |-> buf[c].start, form |-> "end"]
  <2>1. /\ c \in CallId /\ c \in open /\ pc = "read" /\ drained = {} /\ open' = open \ {c}
        /\ ForgetCall(c) /\ UNCHANGED <<drained, flushed>>
    BY <1>13, FragmentTyped DEF ToolCallEnded, Inspected, Read, Rejected, ToolCallKind, sweepVars,
       RelayInv, SweepExclusive
  <2>2. PICK v \in Verdict :
          /\ audit' = Append(audit, CallRecord(c, v))
          /\ \/ out' = out \o Append(holds[c], g) /\ DropHold(c)
             \/ out' = out /\ DropHold(c)
             \/ pc' = "error" /\ out' = Append(out, RunErrorFrame)
    BY <1>13 DEF ToolCallEnded, VerdictsFor, Emit, TerminateRun
  <2>3. g.form = "end" /\ g.subject = buf[c].start /\ g \in Frame
    BY <2>1 DEF Frame, FrameForm, SeenEvents, TypeOK, ToolCallBuffer
  <2> HIDE DEF c, g
  <2>4. /\ AuditMoves /\ CallRecord(c, v) \in Record
        /\ CallRecord(c, v).subject = buf[c].start /\ CallRecord(c, v).args = buf[c].args
        /\ buf[c] \in ToolCallBuffer /\ holds[c] \in Seq(Frame) /\ audit \in Seq(Record)
        /\ HoldsBuffer(holds[c], buf[c])
        /\ DropHold(c) => Held
    <3>1. c \in open \cup drained /\ Live /\ open' \cup drained' = (open \cup drained) \ {c}
      BY <2>1 DEF Live
    <3> QED
      BY <1>12, <2>1, <2>2, <3>1
  <2>5. Blocked(audit', flushed')
    BY <2>1, <2>4, BlockSent
  <2>6. CASE out' = out \o Append(holds[c], g) /\ DropHold(c)
    <3>1. Append(holds[c], g) \in Seq(Frame)
      <4>1. g \in Frame /\ holds[c] \in Seq(Frame)
        BY <2>3, <2>4
      <4> QED
        BY <4>1, AppendProperties
    <3>2. Blocked(audit', Append(holds[c], g))
      BY <2>2, <2>3, <2>4, ClosedBlocked
    <3>3. Blocked(audit', out')
      BY <2>4, <2>6, <3>1, <3>2, BlockSent
    <3> QED
      BY <1>2, <2>4, <2>5, <2>6, <3>3
  <2>7. CASE out' = out /\ DropHold(c)
    <3>1. Blocked(audit', out')
      BY <2>4, <2>7, BlockSent
    <3> QED
      BY <1>2, <2>4, <2>5, <2>7, <3>1
  <2>8. CASE pc' = "error" /\ out' = Append(out, RunErrorFrame)
    BY <1>3, <2>1, <2>4, <2>8
  <2> QED
    BY <2>2, <2>6, <2>7, <2>8
<1>14. ASSUME NEW c \in CallId, SweepCall(c) PROVE BlockInv'
  <2>1. /\ c \in open \cup drained /\ Live /\ ForgetCall(c)
        /\ open' \cup drained' = (open \cup drained) \ {c}
    BY <1>14 DEF SweepCall, Live, RelayInv, SweepExclusive
  <2>2. PICK v \in Verdict :
          /\ audit' = Append(audit, CallRecord(c, v))
          /\ \/ flushed' = flushed \o holds[c] /\ DropHold(c) /\ out' = out
             \/ flushed' = flushed /\ DropHold(c) /\ out' = out
             \/ pc' = "error" /\ out' = Append(out \o flushed, RunErrorFrame) /\ flushed' = flushed
    BY <1>14 DEF SweepCall, VerdictsFor
  <2>3. /\ AuditMoves /\ CallRecord(c, v) \in Record
        /\ CallRecord(c, v).subject = buf[c].start /\ CallRecord(c, v).args = buf[c].args
        /\ buf[c] \in ToolCallBuffer /\ holds[c] \in Seq(Frame) /\ audit \in Seq(Record)
        /\ HoldsBuffer(holds[c], buf[c])
        /\ DropHold(c) => Held
    BY <1>12, <2>1, <2>2
  <2>4. /\ Blocked(audit', out) /\ Blocked(audit', flushed) /\ audit' \in Seq(Record)
        /\ flushed \in Seq(Frame)
    BY <2>3, BlockSent DEF TypeOK
  <2>5. CASE flushed' = flushed \o holds[c] /\ DropHold(c) /\ out' = out
    <3>1. Blocked(audit', holds[c])
      BY <2>2, <2>3, HeldBlocked
    <3>2. Blocked(audit', flushed')
      BY <2>3, <2>4, <2>5, <3>1, BlockedJoined
    <3>3. Blocked(audit', out')
      BY <2>4, <2>5
    <3> QED
      BY <1>2, <2>3, <2>5, <3>2, <3>3
  <2>6. CASE flushed' = flushed /\ DropHold(c) /\ out' = out
    <3>1. Blocked(audit', flushed') /\ Blocked(audit', out')
      BY <2>4, <2>6
    <3> QED
      BY <1>2, <2>3, <2>6, <3>1
  <2>7. CASE pc' = "error" /\ out' = Append(out \o flushed, RunErrorFrame) /\ flushed' = flushed
    <3>1. Blocked(audit', out')
      BY <2>3, <2>7, OneSent, RunErrorTyped
    <3>2. Blocked(audit', flushed')
      BY <2>4, <2>7
    <3> QED
      BY <1>2, <2>7, <3>1, <3>2
  <2> QED
    BY <2>2, <2>5, <2>6, <2>7
<1>15. CASE FinishEof
  <2>1. AuditMoves /\ pc' = "eof" /\ out' = out \o flushed /\ flushed' = <<>>
    BY <1>15 DEF FinishEof, Emit, AuditMoves
  <2>2. Blocked(audit', out') /\ Blocked(audit', flushed')
    BY <2>1, BlockSent, BlockedNone
  <2> QED
    BY <1>2, <2>1, <2>2
<1>16. CASE RejectRunEnd
  <2>1. AuditMoves /\ pc' = "error" /\ out' = Append(out \o flushed, RunErrorFrame) /\ flushed' = <<>>
    BY <1>16 DEF RejectRunEnd, AuditMoves
  <2>2. Blocked(audit', out') /\ Blocked(audit', flushed')
    BY <2>1, OneSent, RunErrorTyped, BlockedNone
  <2> QED
    BY <1>2, <2>1, <2>2
<1>17. CASE FinishRun
  <2>1. PICK v \in Verdict : /\ JudgeEvent(out \o flushed, ending, NoTool, "runend", v)
                             /\ pc' = IF v = "Terminate" THEN "error" ELSE "read"
    BY <1>17 DEF FinishRun, VerdictsFor
  <2>2. UNCHANGED <<open, buf, drained>> /\ flushed' = <<>> /\ Live /\ ending \in Nat
    BY <1>17 DEF FinishRun, SweptAll, Live, TypeOK
  <2>3. AuditMoves
    <3>1. EventRecord(ending, NoTool, v) \in Record
      BY <2>2 DEF EventRecord, Record
    <3> QED
      BY <2>1, <3>1 DEF JudgeEvent, AuditMoves
  <2> DEFINE g == [n |-> ending, subject |-> ending,
                   form |-> IF v = "Allow" THEN "runend" ELSE "transformed"]
  <2>4. g \in Frame /\ g.form \in {"runend", "transformed"}
    BY <2>2 DEF Frame, FrameForm
  <2>5. /\ out' \in {Append(out \o flushed, g), out \o flushed, Append(out \o flushed, RunErrorFrame)}
        /\ v = "Terminate" \/ holds' = holds
    BY <2>1 DEF JudgeEvent
  <2> HIDE DEF g
  <2>6. Blocked(audit', out') /\ Blocked(audit', flushed')
    <3>1. Blocked(audit', out \o flushed)
      BY <2>3, BlockSent
    <3>2. Blocked(audit', Append(out \o flushed, g))
      BY <2>3, <2>4, OneSent
    <3>3. Blocked(audit', Append(out \o flushed, RunErrorFrame))
      BY <2>3, OneSent, RunErrorTyped
    <3> QED
      BY <2>2, <2>5, <3>1, <3>2, <3>3, BlockedNone
  <2>7. v = "Terminate" \/ Held
    BY <1>1, <2>2, <2>5
  <2> QED
    BY <1>2, <2>1, <2>6, <2>7
<1> QED
  BY <1>4, <1>5, <1>6, <1>7, <1>8, <1>9, <1>10, <1>11, <1>13, <1>14, <1>15, <1>16, <1>17
     DEF Next, HandleEvent, Sweep

\* A tool call that reaches the client is the call that was judged: one block of START,
\* the recorded argument deltas in their order, and END.
THEOREM RelayedCallsAsJudged == Spec => []RelayedAsJudged
<1> DEFINE Inv == TypeOK /\ RelayInv /\ BlockInv
<1>1. Init => Inv
  BY TypeInit, RelayInit, BlockInit
<1>2. Inv /\ [Next]_vars => Inv'
  <2>1. ASSUME Inv, [Next]_vars PROVE TypeOK' /\ RelayInv'
    BY <2>1, TypeStep, RelayStep
  <2>2. ASSUME Inv, Next PROVE BlockInv'
    BY <2>1, <2>2, BlockStep
  <2>3. ASSUME Inv, UNCHANGED vars PROVE BlockInv'
    BY <2>3 DEF BlockInv, vars, Live
  <2> QED
    BY <2>1, <2>2, <2>3
<1>3. Inv => RelayedAsJudged
  BY DEF BlockInv, Blocked, BlockOf, Continues, ArgsFrame, RelayedAsJudged
<1> QED
  BY <1>1, <1>2, <1>3, PTL DEF Spec
=============================================================================
