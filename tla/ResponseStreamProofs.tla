------------------------ MODULE ResponseStreamProofs ------------------------
(***************************************************************************)
(* Proofs about ResponseStream, for every set of calls, tools and upstream *)
(* events and every value of the budgets.                                  *)
(***************************************************************************)
EXTENDS ResponseStream, SequenceTheorems, TLAPS

\* What every handler leaves well-typed: used once per action below.
LEMMA FragmentTyped ==
  ASSUME NEW f \in Fragment
  PROVE  /\ f.kind \in Kind /\ f.bytes \in Nat /\ RawLen(f) \in Nat
         /\ f.kind \in ToolCallKind \cup {"Result"} => f.call \in CallId
         /\ f.kind = "Start" => f.tool \in Tool
BY FragmentAssumption DEF FragmentType, RawLen

LEMMA NoBufferTyped == NoBuffer \in ToolCallBuffer
BY DEF NoBuffer, ToolCallBuffer

LEMMA CallRecordTyped ==
  ASSUME TypeOK, NEW c \in CallId, NEW v \in Verdict
  PROVE  CallRecord(c, v) \in Record
BY DEF TypeOK, CallRecord, Record, ToolCallBuffer

LEMMA JudgeEventTyped ==
  ASSUME TypeOK, NEW sofar \in Seq(Frame), NEW n \in Nat, NEW t \in Tool \cup {NoTool},
         NEW form \in FrameForm, NEW v \in Verdict, JudgeEvent(sofar, n, t, form, v)
  PROVE  /\ out' \in Seq(Frame) /\ audit' \in Seq(Record)
         /\ holds' \in [CallId -> Seq(Frame)]
<1> DEFINE frame == [n |-> n, subject |-> n,
                     form |-> IF v = "Allow" THEN form ELSE "transformed"]
<1>1. frame \in Frame /\ RunErrorFrame \in Frame
  BY DEF Frame, FrameForm, RunErrorFrame
<1>2. EventRecord(n, t, v) \in Record
  BY DEF EventRecord, Record
<1>3. NoHolds \in [CallId -> Seq(Frame)]
  BY DEF NoHolds
<1>4. /\ audit' = Append(audit, EventRecord(n, t, v))
      /\ out' \in {Append(sofar, frame), sofar, Append(sofar, RunErrorFrame)}
      /\ holds' \in {holds, NoHolds}
  BY DEF JudgeEvent
<1>5. audit \in Seq(Record) /\ holds \in [CallId -> Seq(Frame)]
  BY DEF TypeOK
<1>6. out' \in Seq(Frame)
  <2> HIDE DEF frame
  <2>1. Append(sofar, frame) \in Seq(Frame)
    BY <1>1
  <2>2. Append(sofar, RunErrorFrame) \in Seq(Frame)
    BY <1>1
  <2> QED BY <1>4, <2>1, <2>2
<1>7. audit' \in Seq(Record)
  BY <1>2, <1>4, <1>5
<1>8. holds' \in [CallId -> Seq(Frame)]
  BY <1>3, <1>4, <1>5
<1> QED
  BY <1>6, <1>7, <1>8

LEMMA TypeInit == Init => TypeOK
BY DEF Init, TypeOK, ToolCallBuffer, NoBuffer, NoHolds

\* The type invariant, one step per handler of the stream.
LEMMA TypeStep == TypeOK /\ [Next]_vars => TypeOK'
<1> SUFFICES ASSUME TypeOK, [Next]_vars PROVE TypeOK'
  OBVIOUS
<1>0. setting' = setting
  BY DEF Next, vars
<1> USE <1>0 DEF TypeOK
<1>1. ASSUME NEW f \in Fragment, Read(f)
      PROVE  rcvd' \in Seq(Fragment) /\ seenBytes' \in Nat /\ SeenEvents + 1 \in Nat
  BY <1>1, FragmentTyped DEF Read, SeenEvents
<1>2. NoHolds \in [CallId -> Seq(Frame)] /\ RunErrorFrame \in Frame
  BY DEF NoHolds, RunErrorFrame, Frame, FrameForm
<1>3. ASSUME NEW f \in Fragment, OverBudget(f) PROVE TypeOK'
  BY <1>1, <1>2, <1>3 DEF OverBudget, TerminateRun, runVars, sweepVars
<1>4. ASSUME NEW f \in Fragment, PassThrough(f) PROVE TypeOK'
  BY <1>1, <1>4 DEF PassThrough, Emit, runVars, sweepVars, Frame, FrameForm
<1>5. ASSUME NEW f \in Fragment, MalformedDrop(f) PROVE TypeOK'
  BY <1>1, <1>5 DEF MalformedDrop, runVars, sweepVars
<1>6. ASSUME NEW f \in Fragment, MalformedTerminate(f) PROVE TypeOK'
  BY <1>1, <1>2, <1>6 DEF MalformedTerminate, TerminateRun, runVars, sweepVars
<1>7. ASSUME NEW f \in Fragment, StructuralReject(f) PROVE TypeOK'
  BY <1>1, <1>2, <1>7 DEF StructuralReject, Inspected, TerminateRun, runVars, sweepVars
<1>8. ASSUME NEW f \in Fragment, ToolCallStarted(f) PROVE TypeOK'
  <2> DEFINE n == SeenEvents + 1
             frame == [n |-> n, subject |-> n, form |-> "start"]
             b == [name |-> f.tool, start |-> n, args |-> <<>>, bytes |-> 0]
  <2>1. f.call \in CallId /\ f.tool \in Tool
    BY <1>8, FragmentTyped DEF ToolCallStarted, ToolCallKind
  <2>2. n \in Nat /\ rcvd' \in Seq(Fragment) /\ seenBytes' \in Nat
    BY <1>1, <1>8 DEF ToolCallStarted, Inspected
  <2>3. frame \in Frame
    BY <2>2 DEF Frame, FrameForm
  <2>4. b \in ToolCallBuffer
    BY <2>1, <2>2 DEF ToolCallBuffer
  <2>5. /\ open' = open \cup {f.call} /\ buf' = [buf EXCEPT ![f.call] = b]
        /\ toolNames' = [toolNames EXCEPT ![f.call] = f.tool]
        /\ holds' = [holds EXCEPT ![f.call] = Append(@, frame)]
        /\ UNCHANGED <<pc, phase, out, drained, flushed, ending, audit>>
    BY <1>8 DEF ToolCallStarted, HoldFrame, sweepVars
  <2> HIDE DEF n, frame, b
  <2>6. buf' \in [CallId -> ToolCallBuffer] /\ toolNames' \in [CallId -> Tool \cup {NoTool}]
    BY <2>1, <2>4, <2>5
  <2>7. holds' \in [CallId -> Seq(Frame)]
    BY <2>1, <2>3, <2>5
  <2> QED
    BY <2>1, <2>2, <2>5, <2>6, <2>7
<1>9. ASSUME NEW f \in Fragment, ToolCallArgs(f) PROVE TypeOK'
  <2> DEFINE n == SeenEvents + 1
             b == buf[f.call]
             b2 == [b EXCEPT !.args = Append(@, n), !.bytes = @ + f.bytes]
  <2>1. f.call \in CallId /\ n \in Nat /\ f.bytes \in Nat
    BY <1>1, <1>9, FragmentTyped DEF ToolCallArgs, Inspected, ToolCallKind
  <2>2. b2 \in ToolCallBuffer
    <3>1. b \in ToolCallBuffer
      BY <2>1
    <3>2. Append(b.args, n) \in Seq(Nat) /\ b.bytes + f.bytes \in Nat
      BY <2>1, <3>1 DEF ToolCallBuffer
    <3> QED
      BY <3>1, <3>2 DEF ToolCallBuffer
  <2>3. buf' = [buf EXCEPT ![f.call] = b2]
    BY <2>1, <1>9 DEF ToolCallArgs, WithDelta
  <2>4. buf' \in [CallId -> ToolCallBuffer]
    BY <2>1, <2>2, <2>3
  <2>5. [n |-> n, subject |-> b.start, form |-> "args"] \in Frame
    BY <2>1 DEF ToolCallBuffer, Frame, FrameForm
  <2>6. holds' \in [CallId -> Seq(Frame)]
    BY <2>1, <2>5, <1>9 DEF ToolCallArgs, HoldFrame
  <2> QED
    BY <1>1, <1>9, <2>4, <2>6 DEF ToolCallArgs, Inspected, sweepVars
<1>10. ASSUME NEW f \in Fragment, ToolCallEnded(f) PROVE TypeOK'
  <2> DEFINE c == f.call
             frame == [n |-> SeenEvents + 1, subject |-> buf[c].start, form |-> "end"]
  <2>1. c \in CallId /\ frame \in Frame
    BY <1>1, <1>10, FragmentTyped DEF ToolCallEnded, Inspected, ToolCallKind, Frame,
       FrameForm, ToolCallBuffer
  <2>2. PICK v \in Verdict :
          /\ audit' = Append(audit, CallRecord(c, v))
          /\ \/ /\ Emit(Append(holds[c], frame)) /\ DropHold(c) /\ UNCHANGED pc
             \/ /\ DropHold(c) /\ UNCHANGED <<out, pc>>
             \/ TerminateRun
    BY <1>10 DEF ToolCallEnded, VerdictsFor, Verdict
  <2>3. audit' \in Seq(Record)
    BY <2>1, <2>2, CallRecordTyped
  <2>4. out' \in Seq(Frame) /\ holds' \in [CallId -> Seq(Frame)] /\ pc' \in {pc, "error"}
    <3>1. CASE Emit(Append(holds[c], frame)) /\ DropHold(c) /\ UNCHANGED pc
      BY <2>1, <3>1 DEF Emit, DropHold
    <3>2. CASE DropHold(c) /\ UNCHANGED <<out, pc>>
      BY <2>1, <3>2 DEF DropHold
    <3>3. CASE TerminateRun
      BY <1>2, <3>3 DEF TerminateRun
    <3> QED BY <2>2, <3>1, <3>2, <3>3
  <2>5. buf' \in [CallId -> ToolCallBuffer]
    BY <1>10, NoBufferTyped DEF ToolCallEnded, ForgetCall
  <2> QED
    BY <1>1, <1>10, <2>3, <2>4, <2>5 DEF ToolCallEnded, Inspected, sweepVars
<1>11. ASSUME NEW f \in Fragment, StandaloneEvent(f) PROVE TypeOK'
  <2> DEFINE n == SeenEvents + 1
             t == IF f.kind = "Result" THEN toolNames[f.call] ELSE NoTool
  <2>1. n \in Nat /\ t \in Tool \cup {NoTool}
    BY <1>1, <1>11, FragmentTyped DEF StandaloneEvent, Inspected
  <2>2. PICK v \in Verdict : /\ JudgeEvent(out, n, t, "event", v)
                            /\ pc' = IF v = "Terminate" THEN "error" ELSE pc
    BY <1>11 DEF StandaloneEvent, VerdictsFor
  <2>3. out' \in Seq(Frame) /\ holds' \in [CallId -> Seq(Frame)] /\ audit' \in Seq(Record)
    BY <2>1, <2>2, JudgeEventTyped DEF FrameForm
  <2>4. toolNames' \in [CallId -> Tool \cup {NoTool}]
    BY <1>11 DEF StandaloneEvent, NamesAfter
  <2> QED
    BY <1>1, <1>11, <2>2, <2>3, <2>4 DEF StandaloneEvent, Inspected, sweepVars
<1>12. ASSUME NEW f \in Fragment, RunEnd(f) PROVE TypeOK'
  BY <1>1, <1>12 DEF RunEnd, StartSweep
<1>13. CASE UpstreamEof
  BY <1>13 DEF UpstreamEof, StartSweep
<1>14. ASSUME NEW c \in CallId, SweepCall(c) PROVE TypeOK'
  <2>1. PICK v \in Verdict :
          /\ audit' = Append(audit, CallRecord(c, v))
          /\ \/ /\ flushed' = flushed \o holds[c] /\ DropHold(c) /\ UNCHANGED <<pc, out>>
             \/ /\ DropHold(c) /\ UNCHANGED <<pc, out, flushed>>
             \/ /\ pc' = "error" /\ out' = Append(out \o flushed, RunErrorFrame)
                /\ UNCHANGED <<holds, flushed>>
    BY <1>14 DEF SweepCall, VerdictsFor, Verdict
  <2>2. audit' \in Seq(Record)
    BY <2>1, CallRecordTyped
  <2>3. buf' \in [CallId -> ToolCallBuffer]
    BY <1>14, NoBufferTyped DEF SweepCall, ForgetCall
  <2>4. /\ out' \in Seq(Frame) /\ flushed' \in Seq(Frame)
        /\ holds' \in [CallId -> Seq(Frame)] /\ pc' \in {pc, "error"}
    <3>1. holds[c] \in Seq(Frame) /\ out \o flushed \in Seq(Frame)
      OBVIOUS
    <3>2. CASE flushed' = flushed \o holds[c] /\ DropHold(c) /\ UNCHANGED <<pc, out>>
      BY <3>1, <3>2 DEF DropHold
    <3>3. CASE DropHold(c) /\ UNCHANGED <<pc, out, flushed>>
      BY <3>3 DEF DropHold
    <3>4. CASE /\ pc' = "error" /\ out' = Append(out \o flushed, RunErrorFrame)
               /\ UNCHANGED <<holds, flushed>>
      BY <1>2, <3>1, <3>4
    <3> QED
      BY <2>1, <3>2, <3>3, <3>4
  <2> QED
    BY <1>14, <2>2, <2>3, <2>4 DEF SweepCall
<1>15. CASE FinishEof
  BY <1>15 DEF FinishEof, SweptAll, Emit, runVars
<1>16. CASE RejectRunEnd
  BY <1>2, <1>16 DEF RejectRunEnd, SweptAll, runVars
<1>17. CASE FinishRun
  <2>1. PICK v \in Verdict : /\ JudgeEvent(out \o flushed, ending, NoTool, "runend", v)
                            /\ pc' = IF v = "Terminate" THEN "error" ELSE "read"
    BY <1>17 DEF FinishRun, VerdictsFor
  <2>2. out \o flushed \in Seq(Frame)
    OBVIOUS
  <2>3. out' \in Seq(Frame) /\ holds' \in [CallId -> Seq(Frame)] /\ audit' \in Seq(Record)
    BY <2>1, <2>2, JudgeEventTyped DEF FrameForm
  <2> QED
    BY <1>17, <2>1, <2>3 DEF FinishRun
<1>18. CASE UpstreamError
  BY <1>2, <1>18 DEF UpstreamError, runVars, sweepVars
<1>19. CASE FrameLimitExceeded
  BY <1>2, <1>19 DEF FrameLimitExceeded, TerminateRun, runVars, sweepVars
<1>20. CASE ClientGone
  BY <1>20 DEF ClientGone, runVars, sweepVars
<1>21. CASE UNCHANGED vars
  BY <1>21 DEF vars
<1> QED
  BY <1>3, <1>4, <1>5, <1>6, <1>7, <1>8, <1>9, <1>10, <1>11, <1>12, <1>13, <1>14, <1>15,
     <1>16, <1>17, <1>18, <1>19, <1>20, <1>21 DEF Next, HandleEvent, Sweep

\* In every reachable state the variables have their types.
THEOREM TypeCorrect == Spec => []TypeOK
BY TypeInit, TypeStep, PTL DEF Spec
-----------------------------------------------------------------------------
(***************************************************************************)
(* Nothing is relayed unless allowed.  RelayedWasAllowed is not inductive: *)
(* a flush sends what the hold buffers contain, so the invariant also says *)
(* whose frames those are, and that a call id that is free holds nothing.  *)
(***************************************************************************)
SweepExclusive == /\ pc = "read" => drained = {}
                  /\ pc = "sweep" => open = {}
HeldFrames ==
  Live => \A c \in CallId : \A i \in DOMAIN holds[c] :
            /\ holds[c][i].subject = buf[c].start
            /\ holds[c][i].form \in {"start", "args"}
FlushedAllowed == AllRelayable(audit, flushed)
RelayInv ==
  /\ SweepExclusive /\ HoldsMatchOpenCalls /\ HeldFrames
  /\ FlushedAllowed /\ RelayedWasAllowed

\* A record once written stays: what may be sent before it may be sent after it.
LEMMA RelayableMonotone ==
  ASSUME NEW a \in Seq(Record), NEW r \in Record, NEW s, AllRelayable(a, s)
  PROVE  AllRelayable(Append(a, r), s)
<1>1. ASSUME NEW n, NEW v, Judged(a, n, v) PROVE Judged(Append(a, r), n, v)
  BY <1>1 DEF Judged
<1> QED
  BY <1>1 DEF AllRelayable, Relayable

LEMMA RelayableConcat ==
  ASSUME NEW a, NEW s \in Seq(Frame), NEW t \in Seq(Frame),
         AllRelayable(a, s), AllRelayable(a, t)
  PROVE  AllRelayable(a, s \o t)
<1>1. ASSUME NEW p \in DOMAIN (s \o t)
      PROVE  \/ p \in DOMAIN s /\ (s \o t)[p] = s[p]
             \/ p - Len(s) \in DOMAIN t /\ (s \o t)[p] = t[p - Len(s)]
  BY <1>1
<1> QED
  BY <1>1 DEF AllRelayable

LEMMA RelayableAppend ==
  ASSUME NEW a, NEW s \in Seq(Frame), NEW f \in Frame, AllRelayable(a, s), Relayable(a, f)
  PROVE  AllRelayable(a, Append(s, f))
<1>1. ASSUME NEW p \in DOMAIN Append(s, f)
      PROVE  Append(s, f)[p] = f \/ (p \in DOMAIN s /\ Append(s, f)[p] = s[p])
  BY <1>1
<1> QED
  BY <1>1 DEF AllRelayable

\* The record just written is found.
LEMMA NewRecordJudged ==
  ASSUME NEW a \in Seq(Record), NEW r \in Record
  PROVE  Judged(Append(a, r), r.subject, r.verdict)
<1>1. Len(a) + 1 \in DOMAIN Append(a, r) /\ Append(a, r)[Len(a) + 1] = r
  OBVIOUS
<1> QED
  BY <1>1 DEF Judged

\* The frames held for a call may be sent once the call is recorded as allowed.
LEMMA HeldRelayable ==
  ASSUME NEW a \in Seq(Record), NEW r \in Record, r.verdict = "Allow", NEW s \in Seq(Frame),
         \A i \in DOMAIN s : s[i].subject = r.subject /\ s[i].form \in {"start", "args"}
  PROVE  AllRelayable(Append(a, r), s)
<1>1. Judged(Append(a, r), r.subject, "Allow")
  BY NewRecordJudged
<1> QED
  BY <1>1 DEF AllRelayable, Relayable

LEMMA RunErrorRelayable == \A a : Relayable(a, RunErrorFrame)
BY DEF Relayable, RunErrorFrame

LEMMA RelayInit == Init => RelayInv
BY DEF Init, RelayInv, SweepExclusive, HoldsMatchOpenCalls, HeldFrames, FlushedAllowed,
   RelayedWasAllowed, AllRelayable, NoHolds

\* A fail-closed exit forgets the holds and sends only RUN_ERROR.
LEMMA TerminateKeepsRelay ==
  ASSUME TypeOK, RelayInv, TerminateRun, UNCHANGED flushed,
         audit' = audit \/ \E r \in Record : audit' = Append(audit, r)
  PROVE  RelayInv'
<1>1. AllRelayable(audit', flushed) /\ AllRelayable(audit', out)
  BY RelayableMonotone DEF TypeOK, RelayInv, FlushedAllowed, RelayedWasAllowed
<1>2. AllRelayable(audit', out')
  BY <1>1, RelayableAppend, RunErrorRelayable
     DEF TerminateRun, TypeOK, RunErrorFrame, Frame, FrameForm
<1>3. pc' = "error"
  BY DEF TerminateRun
<1> QED
  BY <1>1, <1>2, <1>3 DEF RelayInv, SweepExclusive, HoldsMatchOpenCalls, HeldFrames,
     FlushedAllowed, RelayedWasAllowed, Live

\* The record of a standalone event licenses the one frame it sends.
LEMMA JudgeEventRelays ==
  ASSUME TypeOK, NEW sofar \in Seq(Frame), NEW n \in Nat, NEW t \in Tool \cup {NoTool},
         NEW form \in {"event", "runend"}, NEW v \in Verdict,
         JudgeEvent(sofar, n, t, form, v), AllRelayable(audit, sofar)
  PROVE  AllRelayable(audit', out')
<1> DEFINE r == EventRecord(n, t, v)
           frame == [n |-> n, subject |-> n,
                     form |-> IF v = "Allow" THEN form ELSE "transformed"]
<1>1. r \in Record /\ audit \in Seq(Record) /\ audit' = Append(audit, r)
  BY DEF EventRecord, Record, TypeOK, JudgeEvent
<1>2. AllRelayable(audit', sofar)
  BY <1>1, RelayableMonotone
<1>3. CASE v \in {"Allow", "Transform"}
  <2>1. out' = Append(sofar, frame) /\ frame \in Frame
    BY <1>3 DEF JudgeEvent, Frame, FrameForm
  <2>2. Judged(audit', n, v)
    BY <1>1, NewRecordJudged DEF EventRecord
  <2>3. Relayable(audit', frame)
    BY <1>3, <2>2 DEF Relayable
  <2> HIDE DEF frame
  <2> QED
    BY <1>2, <2>1, <2>3, RelayableAppend
<1>4. CASE v = "Deny"
  BY <1>2, <1>4 DEF JudgeEvent
<1>5. CASE v = "Terminate"
  BY <1>2, <1>5, RelayableAppend, RunErrorRelayable
     DEF JudgeEvent, RunErrorFrame, Frame, FrameForm
<1> QED
  BY <1>3, <1>4, <1>5 DEF Verdict

\* A call judged and forgotten takes its held frames with it and leaves the others'.
LEMMA ForgetKeepsHolds ==
  ASSUME TypeOK, HoldsMatchOpenCalls, HeldFrames, Live, NEW c \in CallId,
         ForgetCall(c), DropHold(c), open' \cup drained' = (open \cup drained) \ {c}
  PROVE  HoldsMatchOpenCalls' /\ HeldFrames'
<1>1. holds'[c] = <<>> /\ \A d \in CallId \ {c} : buf'[d] = buf[d] /\ holds'[d] = holds[d]
  BY DEF ForgetCall, DropHold, TypeOK
<1>2. HoldsMatchOpenCalls'
  BY <1>1 DEF HoldsMatchOpenCalls
<1>3. HeldFrames'
  BY <1>1 DEF HeldFrames
<1> QED
  BY <1>2, <1>3

LEMMA RelayStep == TypeOK /\ TypeOK' /\ RelayInv /\ [Next]_vars => RelayInv'
<1> SUFFICES ASSUME TypeOK, TypeOK', RelayInv, [Next]_vars PROVE RelayInv'
  OBVIOUS
<1> USE DEF RelayInv
<1>1. ASSUME NEW f \in Fragment, OverBudget(f) \/ MalformedTerminate(f) \/ StructuralReject(f)
      PROVE  RelayInv'
  BY <1>1, TerminateKeepsRelay
     DEF OverBudget, MalformedTerminate, StructuralReject, sweepVars
<1>2. ASSUME NEW f \in Fragment, PassThrough(f) PROVE RelayInv'
  <2> DEFINE frame == [n |-> SeenEvents + 1, subject |-> 0, form |-> "pass"]
  <2>1. frame \in Frame /\ Relayable(audit, frame) /\ out' = out \o <<frame>>
    BY <1>2 DEF PassThrough, Emit, Frame, FrameForm, Relayable, SeenEvents, TypeOK
  <2> HIDE DEF frame
  <2>2. AllRelayable(audit, <<frame>>)
    BY <2>1 DEF AllRelayable
  <2>3. AllRelayable(audit, out')
    <3>1. out \in Seq(Frame) /\ <<frame>> \in Seq(Frame) /\ AllRelayable(audit, out)
      BY <2>1 DEF RelayedWasAllowed, TypeOK
    <3> QED
      BY <2>1, <2>2, <3>1, RelayableConcat
  <2> QED
    BY <1>2, <2>3 DEF PassThrough, SweepExclusive, HoldsMatchOpenCalls, HeldFrames, Live,
       FlushedAllowed, RelayedWasAllowed, runVars, sweepVars
<1>3. ASSUME NEW f \in Fragment, MalformedDrop(f) PROVE RelayInv'
  BY <1>3 DEF MalformedDrop, SweepExclusive, HoldsMatchOpenCalls, HeldFrames, Live,
     FlushedAllowed, RelayedWasAllowed, runVars, sweepVars
<1>4. ASSUME NEW f \in Fragment, ToolCallStarted(f) PROVE RelayInv'
  <2> DEFINE c == f.call
             n == SeenEvents + 1
             frame == [n |-> n, subject |-> n, form |-> "start"]
  <2>1. c \in CallId /\ n \in Nat /\ frame \in Frame
    BY <1>4, FragmentTyped DEF ToolCallStarted, ToolCallKind, SeenEvents, TypeOK, Frame,
       FrameForm
  <2>2. pc = "read" /\ drained = {} /\ c \notin open
    BY <1>4 DEF ToolCallStarted, Inspected, Read, Rejected, SweepExclusive
  <2>3. holds[c] = <<>>
    BY <2>1, <2>2 DEF HoldsMatchOpenCalls, Live
  <2>4. holds' = [holds EXCEPT ![c] = <<frame>>]
    BY <1>4, <2>3 DEF ToolCallStarted, HoldFrame
  <2>5. /\ buf' = [buf EXCEPT ![c] = [name |-> f.tool, start |-> n, args |-> <<>>, bytes |-> 0]]
        /\ open' = open \cup {c} /\ UNCHANGED <<pc, drained, flushed, out, audit>>
    BY <1>4 DEF ToolCallStarted, sweepVars
  <2>6. buf'[c].start = n /\ holds'[c] = <<frame>>
    BY <2>1, <2>4, <2>5 DEF TypeOK
  <2>7. \A d \in CallId \ {c} : buf'[d] = buf[d] /\ holds'[d] = holds[d]
    BY <2>4, <2>5 DEF TypeOK
  <2>8. HoldsMatchOpenCalls'
    BY <2>2, <2>5, <2>6, <2>7 DEF HoldsMatchOpenCalls, Live
  <2>9. HeldFrames'
    BY <2>2, <2>5, <2>6, <2>7 DEF HeldFrames, Live
  <2> QED
    BY <2>2, <2>5, <2>8, <2>9 DEF SweepExclusive, FlushedAllowed, RelayedWasAllowed
<1>5. ASSUME NEW f \in Fragment, ToolCallArgs(f) PROVE RelayInv'
  <2> DEFINE c == f.call
             frame == [n |-> SeenEvents + 1, subject |-> buf[c].start, form |-> "args"]
  <2>1. c \in open /\ c \in CallId /\ pc = "read" /\ drained = {}
    BY <1>5 DEF ToolCallArgs, Inspected, Read, Rejected, SweepExclusive, TypeOK
  <2>2. frame \in Frame
    <3>1. SeenEvents + 1 \in Nat /\ buf[c] \in ToolCallBuffer
      BY <2>1 DEF SeenEvents, TypeOK
    <3> QED
      BY <3>1 DEF Frame, FrameForm, ToolCallBuffer
  <2>3. \A d \in CallId : buf'[d].start = buf[d].start
    BY <1>5, <2>1 DEF ToolCallArgs, WithDelta, TypeOK, ToolCallBuffer
  <2>4. holds' = [holds EXCEPT ![c] = Append(holds[c], frame)]
        /\ UNCHANGED <<pc, open, drained, flushed, out, audit>>
    BY <1>5 DEF ToolCallArgs, HoldFrame, sweepVars
  <2>5. holds[c] \in Seq(Frame) /\ holds[c] # <<>> /\ holds[c][1].n = buf[c].start
    BY <2>1 DEF HoldsMatchOpenCalls, Live, TypeOK
  <2>6. holds'[c] = Append(holds[c], frame) /\ \A d \in CallId \ {c} : holds'[d] = holds[d]
    BY <2>1, <2>4 DEF TypeOK
  <2>7. holds'[c] # <<>> /\ holds'[c][1] = holds[c][1]
    <3> DEFINE s == holds[c]
    <3>1. s \in Seq(Frame) /\ s # <<>>
      BY <2>5
    <3>2. holds'[c] = Append(s, frame)
      BY <2>6
    <3> HIDE DEF s, frame
    <3>3. Append(s, frame) # <<>> /\ Append(s, frame)[1] = s[1]
      BY <2>2, <3>1
    <3> QED
      BY <3>2, <3>3 DEF s
  <2>8. HoldsMatchOpenCalls'
    BY <2>1, <2>3, <2>4, <2>5, <2>6, <2>7 DEF HoldsMatchOpenCalls, Live
  <2>9. ASSUME NEW i \in DOMAIN holds'[c]
        PROVE  holds'[c][i] = frame \/ (i \in DOMAIN holds[c] /\ holds'[c][i] = holds[c][i])
    BY <2>2, <2>5, <2>6, <2>9
  <2>10. frame.subject = buf[c].start /\ frame.form = "args"
    OBVIOUS
  <2> HIDE DEF frame
  <2>11. HeldFrames'
    BY <2>1, <2>3, <2>4, <2>6, <2>9, <2>10 DEF HeldFrames, Live
  <2> QED
    BY <2>4, <2>8, <2>11 DEF SweepExclusive, FlushedAllowed, RelayedWasAllowed
<1>6. ASSUME NEW f \in Fragment, ToolCallEnded(f) PROVE RelayInv'
  <2> DEFINE c == f.call
             frame == [n |-> SeenEvents + 1, subject |-> buf[c].start, form |-> "end"]
  <2>1. c \in open /\ c \in CallId /\ pc = "read" /\ drained = {} /\ Live
    BY <1>6 DEF ToolCallEnded, Inspected, Read, Rejected, SweepExclusive, TypeOK, Live
  <2>2. frame \in Frame /\ holds[c] \in Seq(Frame)
    <3>1. SeenEvents + 1 \in Nat
      BY DEF SeenEvents, TypeOK
    <3>2. buf[c].start \in Nat /\ holds[c] \in Seq(Frame)
      BY <2>1 DEF TypeOK, ToolCallBuffer
    <3> QED
      BY <3>1, <3>2 DEF Frame, FrameForm
  <2>3. open' = open \ {c} /\ ForgetCall(c) /\ UNCHANGED <<drained, flushed>>
    BY <1>6 DEF ToolCallEnded, sweepVars
  <2>4. PICK v \in Verdict :
          /\ audit' = Append(audit, CallRecord(c, v))
          /\ \/ /\ v = "Allow"
                /\ Emit(Append(holds[c], frame)) /\ DropHold(c) /\ UNCHANGED pc
             \/ /\ v = "Deny"
                /\ DropHold(c) /\ UNCHANGED <<out, pc>>
             \/ v = "Terminate" /\ TerminateRun
    BY <1>6 DEF ToolCallEnded, VerdictsFor
  <2>5. CallRecord(c, v) \in Record /\ audit \in Seq(Record)
    BY <2>1, CallRecordTyped DEF TypeOK
  <2>6. AllRelayable(audit', flushed) /\ AllRelayable(audit', out)
    BY <2>4, <2>5, RelayableMonotone DEF FlushedAllowed, RelayedWasAllowed
  <2>7. CASE v = "Terminate"
    BY <2>3, <2>4, <2>5, <2>7, TerminateKeepsRelay
  <2>8. CASE v = "Deny"
    <3>1. DropHold(c) /\ UNCHANGED <<out, pc>>
      BY <2>4, <2>8
    <3>2. HoldsMatchOpenCalls' /\ HeldFrames'
      BY <2>1, <2>3, <3>1, ForgetKeepsHolds
    <3> QED
      BY <2>1, <2>3, <2>6, <3>1, <3>2 DEF SweepExclusive, FlushedAllowed, RelayedWasAllowed
  <2>9. CASE v = "Allow"
    <3>1. out' = out \o Append(holds[c], frame) /\ DropHold(c) /\ UNCHANGED pc
      BY <2>4, <2>9 DEF Emit
    <3>2. HoldsMatchOpenCalls' /\ HeldFrames'
      BY <2>1, <2>3, <3>1, ForgetKeepsHolds
    <3>3. AllRelayable(audit', holds[c])
      <4>1. \A i \in DOMAIN holds[c] : /\ holds[c][i].subject = CallRecord(c, v).subject
                                       /\ holds[c][i].form \in {"start", "args"}
        BY <2>1 DEF HeldFrames, CallRecord
      <4> QED
        BY <2>2, <2>4, <2>5, <2>9, <4>1, HeldRelayable DEF CallRecord
    <3>4. Relayable(audit', frame)
      <4>1. Judged(audit', buf[c].start, "Allow")
        BY <2>4, <2>5, <2>9, NewRecordJudged DEF CallRecord
      <4> QED
        BY <4>1 DEF Relayable
    <3> HIDE DEF frame
    <3>5. AllRelayable(audit', Append(holds[c], frame)) /\ Append(holds[c], frame) \in Seq(Frame)
      BY <2>2, <3>3, <3>4, RelayableAppend
    <3>6. AllRelayable(audit', out')
      BY <2>6, <3>1, <3>5, RelayableConcat DEF TypeOK
    <3> QED
      BY <2>1, <2>3, <2>6, <3>1, <3>2, <3>6 DEF SweepExclusive, FlushedAllowed, RelayedWasAllowed
  <2> QED
    BY <2>4, <2>7, <2>8, <2>9
<1>7. ASSUME NEW f \in Fragment, StandaloneEvent(f) PROVE RelayInv'
  <2> DEFINE t == IF f.kind = "Result" THEN toolNames[f.call] ELSE NoTool
  <2>1. PICK v \in Verdict : /\ JudgeEvent(out, SeenEvents + 1, t, "event", v)
                            /\ pc' = IF v = "Terminate" THEN "error" ELSE pc
    BY <1>7 DEF StandaloneEvent, VerdictsFor
  <2>2. SeenEvents + 1 \in Nat /\ t \in Tool \cup {NoTool} /\ out \in Seq(Frame)
    <3>1. SeenEvents + 1 \in Nat /\ out \in Seq(Frame)
      BY DEF SeenEvents, TypeOK
    <3>2. toolNames \in [CallId -> Tool \cup {NoTool}]
      BY DEF TypeOK
    <3>3. f.kind = "Result" => f.call \in CallId
      BY FragmentTyped
    <3> QED
      BY <3>1, <3>2, <3>3
  <2>3. AllRelayable(audit', out')
    BY <2>1, <2>2, JudgeEventRelays DEF RelayedWasAllowed
  <2>4. /\ audit \in Seq(Record) /\ EventRecord(SeenEvents + 1, t, v) \in Record
        /\ audit' = Append(audit, EventRecord(SeenEvents + 1, t, v))
    <3> HIDE DEF t
    <3>1. EventRecord(SeenEvents + 1, t, v) \in Record
      BY <2>2 DEF EventRecord, Record
    <3>2. audit' = Append(audit, EventRecord(SeenEvents + 1, t, v))
      BY <2>1 DEF JudgeEvent
    <3>3. audit \in Seq(Record)
      BY DEF TypeOK
    <3> QED
      BY <3>1, <3>2, <3>3
  <2>5. AllRelayable(audit', flushed')
    BY <1>7, <2>4, RelayableMonotone DEF FlushedAllowed, StandaloneEvent, sweepVars
  <2>6. UNCHANGED <<open, buf, drained>> /\ (v = "Terminate" \/ UNCHANGED <<holds, pc>>)
    BY <1>7, <2>1 DEF StandaloneEvent, sweepVars, JudgeEvent
  <2>7. SweepExclusive' /\ HoldsMatchOpenCalls' /\ HeldFrames'
    BY <2>1, <2>6 DEF SweepExclusive, HoldsMatchOpenCalls, HeldFrames, Live
  <2> QED
    BY <2>3, <2>5, <2>7 DEF FlushedAllowed, RelayedWasAllowed
<1>8. ASSUME \/ \E f \in Fragment : RunEnd(f)
             \/ UpstreamEof
      PROVE  RelayInv'
  <2>1. pc = "read" /\ (\E n : StartSweep(n)) /\ UNCHANGED <<buf, holds, out, audit>>
    BY <1>8 DEF RunEnd, UpstreamEof, Read
  <2>2. pc' = "sweep" /\ drained' = open /\ open' = {} /\ flushed' = <<>> /\ drained = {}
    BY <2>1 DEF StartSweep, SweepExclusive
  <2>3. AllRelayable(audit', flushed')
    BY <2>2 DEF AllRelayable
  <2>4. HoldsMatchOpenCalls' /\ HeldFrames'
    BY <2>1, <2>2 DEF HoldsMatchOpenCalls, HeldFrames, Live
  <2> QED
    BY <2>1, <2>2, <2>3, <2>4 DEF SweepExclusive, FlushedAllowed, RelayedWasAllowed
<1>9. ASSUME NEW c \in CallId, SweepCall(c) PROVE RelayInv'
  <2>1. pc = "sweep" /\ c \in drained /\ open = {} /\ open' = {} /\ Live
    BY <1>9 DEF SweepCall, SweepExclusive, Live
  <2>2. drained' = drained \ {c} /\ ForgetCall(c)
    BY <1>9 DEF SweepCall
  <2>3. PICK v \in Verdict :
          /\ audit' = Append(audit, CallRecord(c, v))
          /\ \/ /\ v = "Allow"
                /\ flushed' = flushed \o holds[c] /\ DropHold(c) /\ UNCHANGED <<pc, out>>
             \/ /\ v = "Deny"
                /\ DropHold(c) /\ UNCHANGED <<pc, out, flushed>>
             \/ /\ v = "Terminate"
                /\ pc' = "error"
                /\ out' = Append(out \o flushed, RunErrorFrame)
                /\ UNCHANGED <<holds, flushed>>
    BY <1>9 DEF SweepCall, VerdictsFor
  <2>4. CallRecord(c, v) \in Record /\ audit \in Seq(Record)
    BY CallRecordTyped DEF TypeOK
  <2>5. AllRelayable(audit', flushed) /\ AllRelayable(audit', out)
    BY <2>3, <2>4, RelayableMonotone DEF FlushedAllowed, RelayedWasAllowed
  <2>6. out \in Seq(Frame) /\ flushed \in Seq(Frame) /\ holds[c] \in Seq(Frame)
    BY DEF TypeOK
  <2>7. CASE v = "Terminate"
    <3>1. AllRelayable(audit', out \o flushed) /\ out \o flushed \in Seq(Frame)
      BY <2>5, <2>6, RelayableConcat
    <3>2. AllRelayable(audit', out')
      BY <2>3, <2>7, <3>1, RelayableAppend, RunErrorRelayable DEF RunErrorFrame, Frame, FrameForm
    <3> QED
      BY <2>3, <2>5, <2>7, <3>2 DEF SweepExclusive, HoldsMatchOpenCalls, HeldFrames, Live,
         FlushedAllowed, RelayedWasAllowed
  <2>8. CASE v \in {"Allow", "Deny"}
    <3>1. DropHold(c) /\ UNCHANGED <<pc, out>>
      BY <2>3, <2>8
    <3>2. HoldsMatchOpenCalls' /\ HeldFrames'
      BY <2>1, <2>2, <3>1, ForgetKeepsHolds
    <3>3. AllRelayable(audit', flushed')
      <4>1. CASE v = "Deny"
        BY <2>3, <2>5, <4>1
      <4>2. CASE v = "Allow"
        <5>1. \A i \in DOMAIN holds[c] : /\ holds[c][i].subject = CallRecord(c, v).subject
                                         /\ holds[c][i].form \in {"start", "args"}
          BY <2>1 DEF HeldFrames, CallRecord
        <5>2. AllRelayable(audit', holds[c])
          BY <2>3, <2>4, <2>6, <4>2, <5>1, HeldRelayable DEF CallRecord
        <5> QED
          BY <2>3, <2>5, <2>6, <4>2, <5>2, RelayableConcat
      <4> QED
        BY <2>8, <4>1, <4>2
    <3> QED
      BY <2>1, <2>5, <3>1, <3>2, <3>3 DEF SweepExclusive, FlushedAllowed, RelayedWasAllowed
  <2> QED
    BY <2>3, <2>7, <2>8
<1>10. AllRelayable(audit, out \o flushed) /\ out \o flushed \in Seq(Frame)
  BY RelayableConcat DEF FlushedAllowed, RelayedWasAllowed, TypeOK
<1>11. \A a : AllRelayable(a, <<>>)
  BY DEF AllRelayable
<1>12. CASE FinishEof
  BY <1>10, <1>11, <1>12 DEF FinishEof, Emit, SweepExclusive, HoldsMatchOpenCalls, HeldFrames,
     Live, FlushedAllowed, RelayedWasAllowed
<1>13. CASE RejectRunEnd
  <2>1. AllRelayable(audit, Append(out \o flushed, RunErrorFrame))
    BY <1>10, RelayableAppend, RunErrorRelayable DEF RunErrorFrame, Frame, FrameForm
  <2> QED
    BY <1>11, <1>13, <2>1 DEF RejectRunEnd, SweepExclusive, HoldsMatchOpenCalls, HeldFrames,
       Live, FlushedAllowed, RelayedWasAllowed
<1>14. CASE FinishRun
  <2>1. PICK v \in Verdict : /\ JudgeEvent(out \o flushed, ending, NoTool, "runend", v)
                            /\ pc' = IF v = "Terminate" THEN "error" ELSE "read"
    BY <1>14 DEF FinishRun, VerdictsFor
  <2>2. AllRelayable(audit', out')
    BY <1>10, <2>1, JudgeEventRelays DEF TypeOK
  <2>3. /\ pc = "sweep" /\ open = {} /\ drained = {} /\ flushed' = <<>>
        /\ UNCHANGED <<open, buf, drained>> /\ (v = "Terminate" \/ UNCHANGED holds)
    BY <1>14, <2>1 DEF FinishRun, SweptAll, SweepExclusive, JudgeEvent
  <2>4. SweepExclusive' /\ HoldsMatchOpenCalls' /\ HeldFrames'
    BY <2>1, <2>3 DEF SweepExclusive, HoldsMatchOpenCalls, HeldFrames, Live
  <2> QED
    BY <1>11, <2>2, <2>3, <2>4 DEF FlushedAllowed, RelayedWasAllowed
<1>15. CASE UpstreamError
  <2>1. AllRelayable(audit, Append(out, RunErrorFrame))
    BY RelayableAppend, RunErrorRelayable
       DEF RelayedWasAllowed, TypeOK, RunErrorFrame, Frame, FrameForm
  <2> QED
    BY <1>15, <2>1 DEF UpstreamError, SweepExclusive, HoldsMatchOpenCalls, HeldFrames, Live,
       FlushedAllowed, RelayedWasAllowed, sweepVars
<1>16. CASE FrameLimitExceeded
  BY <1>16, TerminateKeepsRelay DEF FrameLimitExceeded, sweepVars
<1>17. CASE ClientGone
  BY <1>17 DEF ClientGone, SweepExclusive, HoldsMatchOpenCalls, HeldFrames, Live,
     FlushedAllowed, RelayedWasAllowed, sweepVars
<1>18. CASE UNCHANGED vars
  BY <1>18 DEF vars, SweepExclusive, HoldsMatchOpenCalls, HeldFrames, Live,
     FlushedAllowed, RelayedWasAllowed
<1> QED
  BY <1>1, <1>2, <1>3, <1>4, <1>5, <1>6, <1>7, <1>8, <1>9, <1>12, <1>13, <1>14, <1>15,
     <1>16, <1>17, <1>18 DEF Next, HandleEvent, Sweep

\* The stream relays an inspected frame only on a recorded verdict that lets that very
\* frame through, whatever the agent streams and whatever the policy answers.
THEOREM RelayedOnlyIfAllowed == Spec => []RelayedWasAllowed
<1>1. Init => TypeOK /\ RelayInv
  BY TypeInit, RelayInit
<1>2. TypeOK /\ RelayInv /\ [Next]_vars => (TypeOK /\ RelayInv)'
  BY TypeStep, RelayStep
<1>3. RelayInv => RelayedWasAllowed
  BY DEF RelayInv
<1> QED
  BY <1>1, <1>2, <1>3, PTL DEF Spec

\* The frames held are exactly those of the calls opened and not yet judged.
THEOREM HoldsAgreeWithRun == Spec => []HoldsMatchOpenCalls
<1>1. Init => TypeOK /\ RelayInv
  BY TypeInit, RelayInit
<1>2. TypeOK /\ RelayInv /\ [Next]_vars => (TypeOK /\ RelayInv)'
  BY TypeStep, RelayStep
<1>3. RelayInv => HoldsMatchOpenCalls
  BY DEF RelayInv
<1> QED
  BY <1>1, <1>2, <1>3, PTL DEF Spec
-----------------------------------------------------------------------------
(***************************************************************************)
(* The order of what is sent.                                              *)
(***************************************************************************)

\* Frames that wait: of a call not yet judged, or judged in the sweep.
WaitingAt(s, k) == \A i \in DOMAIN s : s[i].form \in {"start", "args"} /\ s[i].n <= k
Waiting(s) == WaitingAt(s, Len(rcvd))

\* Outside a running run no call is open, swept or flushed; what waits was received;
\* the run end behind a sweep is the last event received.
WaitInv ==
  /\ phase # "Running" => open = {} /\ drained = {} /\ flushed = <<>>
  /\ Waiting(flushed)
  /\ Live => \A c \in CallId : Waiting(holds[c])
  /\ pc = "sweep" /\ ending # 0 => ending = Len(rcvd)

\* Frame i of what a step sends, x: RUN_ERROR and a run end come last and with the
\* matching change of state; a finished run sends nothing inspected; no frame is newer
\* than the last event, and one that did not wait is that event.
Fits(x, i) ==
  /\ x[i].form = "runerror" => i = Len(x) /\ pc' = "error"
  /\ x[i].form = "runend" => i = Len(x) /\ phase' = "Finished"
  /\ x[i].form \notin {"pass", "runerror"} => phase # "Finished"
  /\ x[i].n <= Len(rcvd')
  /\ x[i].form \notin {"start", "args", "runerror"} => x[i].n = Len(rcvd')

Sends(x) ==
  /\ x \in Seq(Frame) /\ out' = out \o x
  /\ pc' = "error" => x # <<>> /\ x[Len(x)].form = "runerror"
  /\ \A i \in DOMAIN x : Fits(x, i)

\* What a live step does to the clocks of the run.
Forward ==
  /\ Live
  /\ phase = "Finished" => phase' = "Finished"
  /\ rcvd' = rcvd \/ \E f \in Fragment : rcvd' = Append(rcvd, f)

LEMMA RunErrorTyped ==
  RunErrorFrame \in Frame /\ RunErrorFrame.form = "runerror" /\ RunErrorFrame.n = 0
BY DEF RunErrorFrame, Frame, FrameForm

LEMMA ForwardLen ==
  ASSUME TypeOK, Forward
  PROVE  Len(rcvd) \in Nat /\ Len(rcvd') \in Nat /\ Len(rcvd) <= Len(rcvd')
BY DEF TypeOK, Forward

\* Nothing sent.
LEMMA SendsNothing ==
  ASSUME TypeOK, UNCHANGED out, pc' # "error"
  PROVE  Sends(<<>>)
BY DEF Sends, TypeOK

\* Frames that waited, sent by themselves.
LEMMA SendsWaiting ==
  ASSUME TypeOK, Forward, NEW s \in Seq(Frame), Waiting(s), s # <<>> => phase # "Finished",
         out' = out \o s, pc' # "error"
  PROVE  Sends(s)
<1>1. ASSUME NEW i \in DOMAIN s PROVE Fits(s, i)
  <2>1. s[i].form \in {"start", "args"} /\ s[i].n <= Len(rcvd) /\ s # <<>> /\ s[i] \in Frame
    BY <1>1 DEF Waiting, WaitingAt
  <2>2. s[i].n <= Len(rcvd')
    BY <2>1, ForwardLen DEF Frame
  <2> QED
    BY <2>1, <2>2 DEF Fits
<1> QED
  BY <1>1 DEF Sends

\* Frames that waited, and one more at the end.
LEMMA SendsTail ==
  ASSUME TypeOK, Forward, NEW s \in Seq(Frame), Waiting(s), s # <<>> => phase # "Finished",
         NEW g \in Frame, out' = out \o Append(s, g),
         pc' = "error" <=> g.form = "runerror",
         g.form = "runend" => phase' = "Finished",
         g.form \notin {"pass", "runerror"} => phase # "Finished",
         IF g.form \in {"start", "args", "runerror"} THEN g.n <= Len(rcvd')
                                                      ELSE g.n = Len(rcvd')
  PROVE  Sends(Append(s, g))
<1> DEFINE x == Append(s, g)
<1>1. x \in Seq(Frame) /\ x # <<>> /\ Len(x) = Len(s) + 1 /\ x[Len(x)] = g
  OBVIOUS
<1>2. ASSUME NEW i \in DOMAIN x PROVE Fits(x, i)
  <2>1. CASE i = Len(x)
    <3>1. x[i] = g /\ g.n \in Nat /\ Len(rcvd') \in Nat
      BY <1>1, <2>1, ForwardLen DEF Frame
    <3> HIDE DEF x
    <3>2. g.n <= Len(rcvd')
      BY <3>1
    <3> QED
      BY <2>1, <3>1, <3>2 DEF Fits
  <2>2. CASE i # Len(x)
    <3>1. i \in DOMAIN s /\ x[i] = s[i] /\ s # <<>>
      BY <1>2, <2>2
    <3>2. s[i].form \in {"start", "args"} /\ s[i].n <= Len(rcvd) /\ s[i] \in Frame
      BY <3>1 DEF Waiting, WaitingAt
    <3>3. s[i].n <= Len(rcvd')
      BY <3>2, ForwardLen DEF Frame
    <3> HIDE DEF x
    <3> QED
      BY <3>1, <3>2, <3>3 DEF Fits
  <2> QED
    BY <2>1, <2>2
<1> HIDE DEF x
<1>3. x = Append(s, g)
  BY DEF x
<1>4. Sends(x)
  BY <1>1, <1>2, <1>3 DEF Sends
<1> QED
  BY <1>3, <1>4

LEMMA AppendMoves ==
  ASSUME NEW s \in Seq(Frame), NEW t \in Seq(Frame), NEW g \in Frame
  PROVE  /\ Append(s \o t, g) = s \o Append(t, g)
         /\ Append(s, g) = s \o Append(<<>>, g)
         /\ s \o <<g>> = s \o Append(<<>>, g)
<1>1. Append(<<>>, g) = <<g>>
  OBVIOUS
<1>2. Append(s, g) = s \o <<g>>
  BY AppendIsConcat
<1>3. Append(s \o t, g) = s \o Append(t, g)
  OBVIOUS
<1> QED
  BY <1>1, <1>2, <1>3

\* RUN_ERROR, after frames that waited.
LEMMA SendsError ==
  ASSUME TypeOK, Forward, NEW s \in Seq(Frame), Waiting(s), s # <<>> => phase # "Finished",
         out' = Append(out \o s, RunErrorFrame), pc' = "error"
  PROVE  Sends(Append(s, RunErrorFrame))
<1>1. out' = out \o Append(s, RunErrorFrame)
  BY RunErrorTyped, AppendMoves DEF TypeOK
<1>2. RunErrorFrame.n <= Len(rcvd')
  BY RunErrorTyped, ForwardLen
<1> QED
  BY <1>1, <1>2, RunErrorTyped, SendsTail

\* RUN_ERROR alone, or one frame alone.
LEMMA WaitingNone == Waiting(<<>>) /\ <<>> \in Seq(Frame)
BY DEF Waiting, WaitingAt

LEMMA SendsErrorAlone ==
  ASSUME TypeOK, Forward, out' = Append(out, RunErrorFrame), pc' = "error"
  PROVE  Sends(Append(<<>>, RunErrorFrame))
<1>1. out \o <<>> = out
  BY DEF TypeOK
<1> QED
  BY <1>1, WaitingNone, SendsError

\* One frame of the event just read.
LEMMA SendsOne ==
  ASSUME TypeOK, Forward, NEW g \in Frame, out' = out \o <<g>> \/ out' = Append(out, g),
         pc' # "error", g.form \notin {"runend", "runerror"}, g.n = Len(rcvd'),
         g.form # "pass" => phase # "Finished"
  PROVE  Sends(Append(<<>>, g))
<1>1. out' = out \o Append(<<>>, g)
  BY AppendMoves DEF TypeOK
<1>2. Waiting(<<>>) /\ <<>> \in Seq(Frame) /\ g.n <= Len(rcvd')
  BY WaitingNone, ForwardLen
<1> QED
  BY <1>1, <1>2, SendsTail

\* A judged event: itself, nothing, or RUN_ERROR, after the frames that waited.
LEMMA SendsJudged ==
  ASSUME TypeOK, Forward, NEW s \in Seq(Frame), Waiting(s), phase # "Finished",
         NEW n \in Nat, n = Len(rcvd'), NEW t, NEW form \in {"event", "runend"},
         form = "runend" => phase' = "Finished",
         NEW v \in Verdict, JudgeEvent(out \o s, n, t, form, v),
         pc' = "error" <=> v = "Terminate"
  PROVE  \E x : Sends(x)
<1> DEFINE g == [n |-> n, subject |-> n,
                 form |-> IF v = "Allow" THEN form ELSE "transformed"]
<1>1. CASE v \in {"Allow", "Transform"}
  <2>1. g \in Frame /\ g.n = n /\ g.form \in {form, "transformed"}
    BY DEF Frame, FrameForm
  <2>2. out' = Append(out \o s, g)
    BY <1>1 DEF JudgeEvent
  <2> HIDE DEF g
  <2>3. out' = out \o Append(s, g)
    BY <2>1, <2>2, AppendMoves DEF TypeOK
  <2>4. pc' # "error"
    BY <1>1
  <2>5. Sends(Append(s, g))
    BY <2>1, <2>3, <2>4, SendsTail
  <2> QED
    BY <2>5
<1>2. CASE v = "Deny"
  <2>1. out' = out \o s /\ pc' # "error"
    BY <1>2 DEF JudgeEvent
  <2> QED
    BY <2>1, SendsWaiting
<1>3. CASE v = "Terminate"
  <2>1. out' = Append(out \o s, RunErrorFrame) /\ pc' = "error"
    BY <1>3 DEF JudgeEvent
  <2> QED
    BY <2>1, SendsError
<1> QED
  BY <1>1, <1>2, <1>3 DEF Verdict

LEMMA ReadForward ==
  ASSUME TypeOK, NEW f \in Fragment, Read(f), phase = "Finished" => phase' = "Finished"
  PROVE  /\ Forward /\ pc = "read" /\ Len(rcvd') = SeenEvents + 1 /\ SeenEvents + 1 \in Nat
         /\ Len(rcvd) = SeenEvents /\ rcvd' = Append(rcvd, f)
BY DEF Read, Forward, Live, SeenEvents, TypeOK

\* What each step sends.
LEMMA SendsStep ==
  ASSUME TypeOK, RelayInv, WaitInv, Next
  PROVE  Forward /\ \E x : Sends(x)
<1>1. ASSUME NEW f \in Fragment, OverBudget(f) \/ MalformedTerminate(f) \/ StructuralReject(f)
      PROVE  Forward /\ \E x : Sends(x)
  <2>1. Read(f) /\ TerminateRun /\ phase' = phase
    BY <1>1 DEF OverBudget, MalformedTerminate, StructuralReject, Inspected, runVars
  <2>2. Forward
    BY <2>1, ReadForward
  <2> QED
    BY <2>1, <2>2, SendsErrorAlone DEF TerminateRun
<1>2. ASSUME NEW f \in Fragment, PassThrough(f) PROVE Forward /\ \E x : Sends(x)
  <2> DEFINE g == [n |-> SeenEvents + 1, subject |-> 0, form |-> "pass"]
  <2>1. Read(f) /\ phase' = phase /\ pc' = pc /\ out' = out \o <<g>>
    BY <1>2 DEF PassThrough, Emit, runVars
  <2>2. Forward /\ Len(rcvd') = SeenEvents + 1 /\ SeenEvents + 1 \in Nat /\ pc = "read"
    BY <2>1, ReadForward
  <2>3. g \in Frame /\ g.form = "pass" /\ g.n = Len(rcvd')
    BY <2>2 DEF Frame, FrameForm
  <2> HIDE DEF g
  <2>4. Sends(Append(<<>>, g))
    BY <2>1, <2>2, <2>3, SendsOne
  <2> QED
    BY <2>2, <2>4
<1>3. ASSUME NEW f \in Fragment,
             MalformedDrop(f) \/ ToolCallStarted(f) \/ ToolCallArgs(f) \/ RunEnd(f)
      PROVE  Forward /\ \E x : Sends(x)
  <2>1. Read(f) /\ phase' = phase /\ pc' \in {pc, "sweep"} /\ out' = out
    BY <1>3 DEF MalformedDrop, ToolCallStarted, ToolCallArgs, RunEnd, StartSweep, Inspected, runVars
  <2>2. Forward /\ pc = "read"
    BY <2>1, ReadForward
  <2>3. pc' # "error"
    BY <2>1, <2>2
  <2> QED
    BY <2>1, <2>2, <2>3, SendsNothing
<1>4. ASSUME NEW f \in Fragment, ToolCallEnded(f) PROVE Forward /\ \E x : Sends(x)
  <2> DEFINE c == f.call
             g == [n |-> SeenEvents + 1, subject |-> buf[c].start, form |-> "end"]
  <2>1. Read(f) /\ phase' = phase /\ c \in open /\ c \in CallId /\ phase = "Running"
    BY <1>4, FragmentTyped DEF ToolCallEnded, Inspected, Rejected, ToolCallKind
  <2>2. Forward /\ Len(rcvd') = SeenEvents + 1 /\ SeenEvents + 1 \in Nat /\ pc = "read"
    BY <2>1, ReadForward
  <2>3. PICK v \in Verdict :
          \/ v = "Allow" /\ out' = out \o Append(holds[c], g) /\ pc' = pc
          \/ v = "Deny" /\ out' = out /\ pc' = pc
          \/ v = "Terminate" /\ TerminateRun
    BY <1>4 DEF ToolCallEnded, VerdictsFor, Emit
  <2>4. CASE v = "Allow"
    <3>1. buf[c] \in ToolCallBuffer /\ holds[c] \in Seq(Frame) /\ Waiting(holds[c])
      BY <2>1, <2>2 DEF TypeOK, WaitInv, Live
    <3>2. g \in Frame /\ g.form = "end" /\ g.n = Len(rcvd')
      BY <2>2, <3>1 DEF Frame, FrameForm, ToolCallBuffer
    <3>3. out' = out \o Append(holds[c], g) /\ pc' = "read"
      BY <2>2, <2>3, <2>4
    <3> HIDE DEF g
    <3>4. Sends(Append(holds[c], g))
      BY <2>1, <2>2, <3>1, <3>2, <3>3, SendsTail
    <3> QED
      BY <2>2, <3>4
  <2>5. CASE v = "Deny"
    BY <2>2, <2>3, <2>5, SendsNothing
  <2>6. CASE v = "Terminate"
    BY <2>2, <2>3, <2>6, SendsErrorAlone DEF TerminateRun
  <2> QED
    BY <2>3, <2>4, <2>5, <2>6
<1>5. ASSUME NEW f \in Fragment, StandaloneEvent(f) PROVE Forward /\ \E x : Sends(x)
  <2> DEFINE t == IF f.kind = "Result" THEN toolNames[f.call] ELSE NoTool
  <2>1. Read(f) /\ phase # "Finished"
    BY <1>5 DEF StandaloneEvent, Inspected, Rejected
  <2>2. Forward /\ Len(rcvd') = SeenEvents + 1 /\ SeenEvents + 1 \in Nat /\ pc = "read"
    BY <2>1, ReadForward
  <2>3. PICK v \in Verdict : /\ JudgeEvent(out, SeenEvents + 1, t, "event", v)
                            /\ pc' = IF v = "Terminate" THEN "error" ELSE pc
    BY <1>5 DEF StandaloneEvent, VerdictsFor
  <2>4. out \o <<>> = out
    BY DEF TypeOK
  <2>5. JudgeEvent(out \o <<>>, SeenEvents + 1, t, "event", v)
    BY <2>3, <2>4
  <2>6. pc' = "error" <=> v = "Terminate"
    BY <2>2, <2>3
  <2> HIDE DEF t
  <2> QED
    BY <2>1, <2>2, <2>5, <2>6, WaitingNone, SendsJudged
<1>6. ASSUME UpstreamEof \/ ClientGone PROVE Forward /\ \E x : Sends(x)
  BY <1>6, SendsNothing DEF UpstreamEof, ClientGone, StartSweep, Forward, Live, runVars
<1>7. ASSUME UpstreamError \/ FrameLimitExceeded PROVE Forward /\ \E x : Sends(x)
  <2>1. Forward /\ out' = Append(out, RunErrorFrame) /\ pc' = "error"
    BY <1>7 DEF UpstreamError, FrameLimitExceeded, TerminateRun, Forward, Live, runVars
  <2> QED
    BY <2>1, SendsErrorAlone
<1>8. flushed \in Seq(Frame) /\ Waiting(flushed) /\ (flushed # <<>> => phase # "Finished")
  BY DEF TypeOK, WaitInv
<1>9. ASSUME NEW c \in CallId, SweepCall(c) PROVE Forward /\ \E x : Sends(x)
  <2>1. Forward /\ pc = "sweep"
    BY <1>9 DEF SweepCall, Forward, Live
  <2>2. \/ pc' = pc /\ out' = out
        \/ pc' = "error" /\ out' = Append(out \o flushed, RunErrorFrame)
    BY <1>9 DEF SweepCall
  <2> QED
    BY <1>8, <2>1, <2>2, SendsNothing, SendsError
<1>10. CASE FinishEof
  <2>1. Forward /\ pc' # "error" /\ out' = out \o flushed
    BY <1>10 DEF FinishEof, SweptAll, Emit, Forward, Live, runVars
  <2> QED
    BY <1>8, <2>1, SendsWaiting
<1>11. CASE RejectRunEnd
  <2>1. Forward /\ pc' = "error" /\ out' = Append(out \o flushed, RunErrorFrame)
    BY <1>11 DEF RejectRunEnd, SweptAll, Forward, Live, runVars
  <2> QED
    BY <1>8, <2>1, SendsError
<1>12. CASE FinishRun
  <2>1. Forward /\ phase = "Running" /\ phase' = "Finished" /\ ending \in Nat /\ rcvd' = rcvd
        /\ ending = Len(rcvd')
    BY <1>12 DEF FinishRun, SweptAll, Forward, Live, WaitInv, TypeOK
  <2>2. PICK v \in Verdict : /\ JudgeEvent(out \o flushed, ending, NoTool, "runend", v)
                            /\ pc' = IF v = "Terminate" THEN "error" ELSE "read"
    BY <1>12 DEF FinishRun, VerdictsFor
  <2>3. pc' = "error" <=> v = "Terminate"
    BY <2>2
  <2> QED
    BY <1>8, <2>1, <2>2, <2>3, SendsJudged
<1> QED
  BY <1>1, <1>2, <1>3, <1>4, <1>5, <1>6, <1>7, <1>9, <1>10, <1>11, <1>12
     DEF Next, HandleEvent, Sweep
-----------------------------------------------------------------------------
LEMMA WaitingMore ==
  ASSUME NEW s \in Seq(Frame), NEW k \in Nat, NEW m \in Nat, k <= m, WaitingAt(s, k)
  PROVE  WaitingAt(s, m)
<1>1. ASSUME NEW i \in DOMAIN s PROVE s[i].form \in {"start", "args"} /\ s[i].n <= m
  <2>1. s[i].n <= k /\ s[i].form \in {"start", "args"}
    BY <1>1 DEF WaitingAt
  <2>2. s[i] \in Frame
    BY <1>1
  <2>3. s[i].n \in Nat
    BY <2>2 DEF Frame
  <2> QED
    BY <2>1, <2>3
<1> QED
  BY <1>1 DEF WaitingAt

LEMMA WaitingJoined ==
  ASSUME NEW s \in Seq(Frame), NEW t \in Seq(Frame), NEW k, WaitingAt(s, k), WaitingAt(t, k)
  PROVE  WaitingAt(s \o t, k)
<1>1. ASSUME NEW p \in DOMAIN (s \o t)
      PROVE  \/ p \in DOMAIN s /\ (s \o t)[p] = s[p]
             \/ p - Len(s) \in DOMAIN t /\ (s \o t)[p] = t[p - Len(s)]
  BY <1>1
<1> QED
  BY <1>1 DEF WaitingAt

LEMMA WaitingPlus ==
  ASSUME NEW s \in Seq(Frame), NEW g \in Frame, NEW k, WaitingAt(s, k),
         g.form \in {"start", "args"}, g.n <= k
  PROVE  WaitingAt(Append(s, g), k)
<1>1. ASSUME NEW p \in DOMAIN Append(s, g)
      PROVE  Append(s, g)[p] = g \/ (p \in DOMAIN s /\ Append(s, g)[p] = s[p])
  BY <1>1
<1> QED
  BY <1>1 DEF WaitingAt

LEMMA NothingWaits == \A k : WaitingAt(<<>>, k)
BY DEF WaitingAt

\* What waited before a step could wait after it.
LEMMA StillWaiting ==
  ASSUME TypeOK, WaitInv, Forward
  PROVE  WaitingAt(flushed, Len(rcvd')) /\ \A c \in CallId : WaitingAt(holds[c], Len(rcvd'))
<1>1. Len(rcvd) \in Nat /\ Len(rcvd') \in Nat /\ Len(rcvd) <= Len(rcvd')
  BY ForwardLen
<1>2. flushed \in Seq(Frame) /\ WaitingAt(flushed, Len(rcvd))
  BY DEF TypeOK, WaitInv, Waiting
<1>3. \A c \in CallId : holds[c] \in Seq(Frame) /\ WaitingAt(holds[c], Len(rcvd))
  BY DEF TypeOK, WaitInv, Waiting, Forward
<1> QED
  BY <1>1, <1>2, <1>3, WaitingMore

LEMMA WaitInit == Init => WaitInv
BY NothingWaits DEF Init, WaitInv, Waiting, NoHolds

\* Frames of one call are held, appended to, or dropped.
HoldsMove ==
  \/ pc' \notin {"read", "sweep"}
  \/ holds' = holds
  \/ \E c \in CallId : holds' = [holds EXCEPT ![c] = <<>>]
  \/ \E c \in CallId : \E g \in Frame :
       /\ holds' = [holds EXCEPT ![c] = Append(holds[c], g)]
       /\ g.form \in {"start", "args"} /\ g.n = Len(rcvd')

LEMMA HoldsWait ==
  ASSUME TypeOK, WaitInv, Forward, HoldsMove
  PROVE  (Live => \A c \in CallId : Waiting(holds[c]))'
<1> SUFFICES ASSUME pc' \in {"read", "sweep"}, NEW d \in CallId
             PROVE  WaitingAt(holds'[d], Len(rcvd'))
  BY DEF Live, Waiting
<1>1. WaitingAt(holds[d], Len(rcvd')) /\ holds[d] \in Seq(Frame) /\ Len(rcvd') \in Nat
  BY StillWaiting, ForwardLen DEF TypeOK
<1>2. CASE holds' = holds
  BY <1>1, <1>2
<1>3. ASSUME NEW c \in CallId, holds' = [holds EXCEPT ![c] = <<>>]
      PROVE  WaitingAt(holds'[d], Len(rcvd'))
  <2>1. holds'[d] = <<>> \/ holds'[d] = holds[d]
    BY <1>3 DEF TypeOK
  <2> QED
    BY <1>1, <2>1, NothingWaits
<1>4. ASSUME NEW c \in CallId, NEW g \in Frame,
             holds' = [holds EXCEPT ![c] = Append(holds[c], g)],
             g.form \in {"start", "args"}, g.n = Len(rcvd')
      PROVE  WaitingAt(holds'[d], Len(rcvd'))
  <2>1. holds'[d] = Append(holds[d], g) \/ holds'[d] = holds[d]
    BY <1>4 DEF TypeOK
  <2>2. WaitingAt(Append(holds[d], g), Len(rcvd'))
    <3>1. g.n <= Len(rcvd')
      BY <1>1, <1>4
    <3> QED
      BY <1>1, <1>4, <3>1, WaitingPlus
  <2> QED
    BY <1>1, <2>1, <2>2
<1> QED
  BY <1>2, <1>3, <1>4 DEF HoldsMove

LEMMA WaitStep ==
  ASSUME TypeOK, TypeOK', RelayInv, WaitInv, Next
  PROVE  WaitInv'
<1>0. Forward /\ Len(rcvd') \in Nat
  BY SendsStep, ForwardLen
<1>1. WaitingAt(flushed, Len(rcvd')) /\ \A c \in CallId : WaitingAt(holds[c], Len(rcvd'))
  BY <1>0, StillWaiting
\* It is enough to say how a step moves the phase, the calls and the frames.
<1>2. ASSUME HoldsMove, WaitingAt(flushed', Len(rcvd')),
             phase' # "Running" => open' = {} /\ drained' = {} /\ flushed' = <<>>,
             pc' = "sweep" /\ ending' # 0 => ending' = Len(rcvd')
      PROVE  WaitInv'
  BY <1>0, <1>2, HoldsWait DEF WaitInv, Waiting
<1>3. ASSUME NEW f \in Fragment, OverBudget(f) \/ MalformedTerminate(f) \/ StructuralReject(f)
      PROVE  WaitInv'
  <2>1. TerminateRun /\ UNCHANGED <<phase, open, drained, flushed>>
    BY <1>3 DEF OverBudget, MalformedTerminate, StructuralReject, runVars, sweepVars
  <2> QED
    BY <1>1, <1>2, <2>1 DEF TerminateRun, HoldsMove, WaitInv
<1>4. ASSUME NEW f \in Fragment, PassThrough(f) \/ MalformedDrop(f)
      PROVE  WaitInv'
  <2>1. pc' = "read" /\ UNCHANGED <<phase, open, drained, flushed, holds>>
    BY <1>4 DEF PassThrough, MalformedDrop, Read, runVars, sweepVars
  <2> QED
    BY <1>1, <1>2, <2>1 DEF HoldsMove, WaitInv
<1>5. ASSUME NEW f \in Fragment, ToolCallStarted(f) \/ ToolCallArgs(f) PROVE WaitInv'
  <2>1. Read(f) /\ phase = "Running" /\ UNCHANGED <<pc, phase, drained, flushed>> /\ f.call \in CallId
    BY <1>5, FragmentTyped DEF ToolCallStarted, ToolCallArgs, Inspected, Rejected, sweepVars, ToolCallKind
  <2>2. Len(rcvd') = SeenEvents + 1 /\ SeenEvents + 1 \in Nat /\ pc = "read"
    BY <2>1, ReadForward
  <2>3. PICK m \in Nat, form \in {"start", "args"} :
          HoldFrame(f.call, [n |-> SeenEvents + 1, subject |-> m, form |-> form])
    <3>1. CASE ToolCallStarted(f)
      BY <2>2, <3>1 DEF ToolCallStarted
    <3>2. CASE ToolCallArgs(f)
      <4>1. buf[f.call] \in ToolCallBuffer
        BY <2>1 DEF TypeOK
      <4>2. buf[f.call].start \in Nat
        BY <4>1 DEF ToolCallBuffer
      <4> QED
        BY <3>2, <4>2 DEF ToolCallArgs
    <3> QED
      BY <1>5, <3>1, <3>2
  <2> DEFINE g == [n |-> SeenEvents + 1, subject |-> m, form |-> form]
  <2>4. g \in Frame /\ g.form \in {"start", "args"} /\ g.n = Len(rcvd')
    BY <2>2 DEF Frame, FrameForm
  <2>5. holds' = [holds EXCEPT ![f.call] = Append(holds[f.call], g)]
    BY <2>3 DEF HoldFrame
  <2> HIDE DEF g
  <2>6. HoldsMove
    BY <2>1, <2>4, <2>5 DEF HoldsMove
  <2> QED
    BY <1>1, <1>2, <2>1, <2>2, <2>6
<1>6. ASSUME NEW f \in Fragment, ToolCallEnded(f) PROVE WaitInv'
  <2>1. /\ phase = "Running" /\ f.call \in CallId /\ UNCHANGED <<phase, drained, flushed>>
        /\ pc = "read" /\ pc' \in {"read", "error"}
        /\ pc' = "error" \/ DropHold(f.call)
    BY <1>6, FragmentTyped DEF ToolCallEnded, Inspected, Rejected, Read, sweepVars, ToolCallKind,
       TerminateRun
  <2>2. HoldsMove
    BY <2>1 DEF HoldsMove, DropHold
  <2> QED
    BY <1>1, <1>2, <2>1, <2>2
<1>7. ASSUME NEW f \in Fragment, StandaloneEvent(f) PROVE WaitInv'
  <2>1. UNCHANGED <<open, drained, flushed>> /\ (phase' = phase \/ phase' = "Running") /\ pc = "read"
    BY <1>7 DEF StandaloneEvent, Inspected, Read, sweepVars
  <2>2. HoldsMove /\ pc' # "sweep"
    BY <1>7, <2>1 DEF StandaloneEvent, HoldsMove, JudgeEvent
  <2> QED
    BY <1>1, <1>2, <2>1, <2>2 DEF WaitInv
<1>8. ASSUME \/ \E f \in Fragment : RunEnd(f)
             \/ UpstreamEof
      PROVE  WaitInv'
  <2>1. PICK n : StartSweep(n) /\ (n # 0 => n = Len(rcvd')) /\ UNCHANGED <<phase, holds>>
    <3>1. ASSUME NEW f \in Fragment, RunEnd(f)
          PROVE  StartSweep(SeenEvents + 1) /\ SeenEvents + 1 = Len(rcvd') /\ UNCHANGED <<phase, holds>>
      BY <3>1, ReadForward DEF RunEnd
    <3> QED
      BY <1>8, <3>1 DEF UpstreamEof
  <2>2. phase # "Running" => open = {}
    BY DEF WaitInv
  <2> QED
    BY <1>2, <2>1, <2>2, NothingWaits DEF StartSweep, HoldsMove
<1>9. ASSUME NEW c \in CallId, SweepCall(c) PROVE WaitInv'
  <2>1. /\ phase = "Running" /\ UNCHANGED <<phase, open, ending, rcvd>>
        /\ pc = "sweep"
    BY <1>9 DEF SweepCall, WaitInv
  <2>2. \/ flushed' = flushed \o holds[c] /\ DropHold(c)
        \/ flushed' = flushed /\ (DropHold(c) \/ pc' = "error")
    BY <1>9 DEF SweepCall
  <2>3. HoldsMove
    BY <2>2 DEF HoldsMove, DropHold
  <2>4. WaitingAt(flushed \o holds[c], Len(rcvd'))
    BY <1>1, WaitingJoined DEF TypeOK
  <2>5. WaitingAt(flushed', Len(rcvd'))
    BY <1>1, <2>2, <2>4
  <2>6. ending # 0 => ending = Len(rcvd')
    BY <2>1 DEF WaitInv
  <2> QED
    BY <1>2, <2>1, <2>3, <2>5, <2>6
<1>10. CASE FinishEof \/ RejectRunEnd \/ FinishRun
  <2>1. flushed' = <<>> /\ drained' = {} /\ open' = open /\ pc = "sweep" /\ pc' # "sweep"
    BY <1>10 DEF FinishEof, RejectRunEnd, FinishRun, SweptAll, runVars
  <2>2. open = {}
    BY <2>1 DEF RelayInv, SweepExclusive
  <2>3. HoldsMove
    BY <1>10 DEF FinishEof, RejectRunEnd, FinishRun, JudgeEvent, HoldsMove
  <2> QED
    BY <1>2, <2>1, <2>2, <2>3, NothingWaits
<1>11. CASE UpstreamError \/ FrameLimitExceeded \/ ClientGone
  <2>1. pc' \notin {"read", "sweep"} /\ UNCHANGED <<phase, open, drained, flushed>>
    BY <1>11 DEF UpstreamError, FrameLimitExceeded, ClientGone, TerminateRun, runVars, sweepVars
  <2> QED
    BY <1>1, <1>2, <2>1 DEF HoldsMove, WaitInv
<1> QED
  BY <1>3, <1>4, <1>5, <1>6, <1>7, <1>8, <1>9, <1>10, <1>11 DEF Next, HandleEvent, Sweep
-----------------------------------------------------------------------------
(***************************************************************************)
(* EndsOnce and OnlyHeldFramesOvertaken, from what a step sends.  A run    *)
(* end in the output means that the run is finished; no frame in it is     *)
(* newer than the last event.                                              *)
(***************************************************************************)
EndInv ==
  /\ \A p \in DOMAIN out : out[p].form = "runend" => phase = "Finished"
  /\ \A p \in DOMAIN out : out[p].n <= Len(rcvd)
  /\ EndsOnce /\ OnlyHeldFramesOvertaken

LEMMA EndInit == Init => EndInv
BY DEF Init, EndInv, EndsOnce, OnlyHeldFramesOvertaken

\* A position of the output is an old one or one of what is sent.
LEMMA SentOrOld ==
  ASSUME TypeOK, NEW x, Sends(x)
  PROVE  /\ Len(out) \in Nat /\ Len(x) \in Nat /\ Len(out') = Len(out) + Len(x)
         /\ DOMAIN out = 1..Len(out) /\ DOMAIN x = 1..Len(x) /\ DOMAIN out' = 1..Len(out')
         /\ \A p \in DOMAIN out' :
              \/ p \in DOMAIN out /\ out'[p] = out[p]
              \/ p - Len(out) \in DOMAIN x /\ out'[p] = x[p - Len(out)]
BY DEF TypeOK, Sends

LEMMA EndStep ==
  ASSUME TypeOK, EndInv, Forward, NEW x, Sends(x)
  PROVE  EndInv'
<1>1. /\ Len(out) \in Nat /\ Len(x) \in Nat /\ Len(out') = Len(out) + Len(x)
      /\ DOMAIN out = 1..Len(out) /\ DOMAIN x = 1..Len(x) /\ DOMAIN out' = 1..Len(out')
  BY SentOrOld
<1>2. ASSUME NEW p \in DOMAIN out'
      PROVE  \/ p \in DOMAIN out /\ out'[p] = out[p]
             \/ /\ p - Len(out) \in DOMAIN x /\ out'[p] = x[p - Len(out)]
                /\ Fits(x, p - Len(out)) /\ p > Len(out)
  BY <1>1, <1>2, SentOrOld DEF Sends
<1>3. Len(rcvd) \in Nat /\ Len(rcvd') \in Nat /\ Len(rcvd) <= Len(rcvd')
  BY ForwardLen
<1>4. ASSUME NEW p \in DOMAIN out PROVE out[p] \in Frame /\ out[p].n \in Nat
  <2>1. out[p] \in Frame
    BY <1>4 DEF TypeOK
  <2> QED
    BY <2>1 DEF Frame
<1>5. pc # "error" /\ \A p \in DOMAIN out : out[p].form # "runerror"
  <2>1. pc # "error"
    BY DEF Forward, Live
  <2>2. ASSUME NEW p \in DOMAIN out, out[p].form = "runerror" PROVE FALSE
    <3>1. p = Len(out) /\ out # <<>>
      BY <2>2 DEF EndInv, EndsOnce
    <3> QED
      BY <2>1, <2>2, <3>1 DEF EndInv, EndsOnce
  <2> QED
    BY <2>1, <2>2
<1>6. ASSUME NEW p \in DOMAIN out', out'[p].form = "runend" PROVE phase' = "Finished"
  BY <1>2, <1>6 DEF EndInv, Forward, Fits
<1>7. ASSUME NEW p \in DOMAIN out' PROVE out'[p].n <= Len(rcvd')
  <2>1. CASE p \in DOMAIN out /\ out'[p] = out[p]
    <3>1. out[p].n \in Nat /\ out[p].n <= Len(rcvd)
      BY <1>4, <2>1 DEF EndInv
    <3> QED
      BY <1>3, <2>1, <3>1
  <2> QED
    BY <1>2, <1>7, <2>1 DEF Fits
<1>8. ASSUME NEW p \in DOMAIN out', NEW q \in DOMAIN out', out'[p].form = "runend", p < q
      PROVE  out'[q].form \in {"pass", "runerror"}
  <2>1. CASE q \in DOMAIN out /\ out'[q] = out[q]
    <3>1. p \in DOMAIN out /\ out'[p] = out[p]
      BY <1>1, <1>2, <1>8, <2>1
    <3> QED
      BY <1>8, <2>1, <3>1 DEF EndInv, EndsOnce
  <2>2. CASE q - Len(out) \in DOMAIN x /\ out'[q] = x[q - Len(out)] /\ Fits(x, q - Len(out))
    <3>1. p \in DOMAIN out /\ out'[p] = out[p]
      <4>1. CASE p - Len(out) \in DOMAIN x /\ out'[p] = x[p - Len(out)] /\ Fits(x, p - Len(out))
        <5>1. p - Len(out) = Len(x)
          BY <1>8, <4>1 DEF Fits
        <5> QED
          BY <1>1, <1>8, <2>2, <5>1
      <4> QED
        BY <1>2, <1>8, <4>1
    <3>2. phase = "Finished"
      BY <1>8, <3>1 DEF EndInv
    <3> QED
      BY <2>2, <3>2 DEF Fits
  <2> QED
    BY <1>2, <1>8, <2>1, <2>2
<1>9. ASSUME NEW p \in DOMAIN out', out'[p].form = "runerror"
      PROVE  p = Len(out') /\ pc' = "error"
  <2>1. p - Len(out) \in DOMAIN x /\ out'[p] = x[p - Len(out)] /\ Fits(x, p - Len(out))
    BY <1>2, <1>5, <1>9
  <2>2. p - Len(out) = Len(x) /\ pc' = "error"
    BY <1>9, <2>1 DEF Fits
  <2> QED
    BY <1>1, <1>9, <2>2
<1>10. ASSUME pc' = "error" PROVE out' # <<>> /\ out'[Len(out')].form = "runerror"
  <2>1. x \in Seq(Frame) /\ x # <<>> /\ x[Len(x)].form = "runerror" /\ out' = out \o x
    BY <1>10 DEF Sends
  <2>2. Len(x) > 0 /\ out \in Seq(Frame)
    BY <1>1, <2>1 DEF TypeOK
  <2>3. out'[Len(out')] = x[Len(x)] /\ Len(out') > 0
    BY <1>1, <2>1, <2>2
  <2> QED
    BY <2>1, <2>3
<1>11. ASSUME out' # <<>>, out'[Len(out')].form = "runerror" PROVE pc' = "error"
  <2>1. out' \in Seq(Frame)
    BY DEF TypeOK, Sends
  <2>2. Len(out') \in DOMAIN out'
    BY <1>11, <2>1
  <2> QED
    BY <1>9, <1>11, <2>2
<1>12. EndsOnce'
  BY <1>8, <1>9, <1>10, <1>11 DEF EndsOnce
<1>13. ASSUME NEW p \in DOMAIN out', NEW q \in DOMAIN out', p < q, out'[q].n < out'[p].n
       PROVE  out'[q].form \in {"start", "args", "runerror"}
  <2>1. CASE q \in DOMAIN out /\ out'[q] = out[q]
    <3>1. p \in DOMAIN out /\ out'[p] = out[p]
      BY <1>1, <1>2, <1>13, <2>1
    <3> QED
      BY <1>13, <2>1, <3>1 DEF EndInv, OnlyHeldFramesOvertaken
  <2>2. CASE Fits(x, q - Len(out)) /\ out'[q] = x[q - Len(out)]
    <3>1. SUFFICES ASSUME out'[q].n = Len(rcvd') PROVE FALSE
      BY <2>2 DEF Fits
    <3>2. out'[p].n <= Len(rcvd') /\ out'[p] \in Frame
      BY <1>7, <1>13 DEF TypeOK, Sends
    <3>3. out'[p].n \in Nat
      BY <3>2 DEF Frame
    <3> QED
      BY <1>3, <1>13, <3>1, <3>2, <3>3
  <2> QED
    BY <1>2, <1>13, <2>1, <2>2
<1> QED
  BY <1>6, <1>7, <1>12, <1>13 DEF EndInv, OnlyHeldFramesOvertaken

OrderInv == TypeOK /\ RelayInv /\ WaitInv /\ EndInv

LEMMA OrderInductive ==
  /\ Init => OrderInv
  /\ OrderInv /\ [Next]_vars => OrderInv'
<1>1. Init => OrderInv
  BY TypeInit, RelayInit, WaitInit, EndInit DEF OrderInv
<1>2. ASSUME OrderInv, Next PROVE OrderInv'
  <2>1. TypeOK' /\ RelayInv'
    BY <1>2, TypeStep, RelayStep DEF OrderInv
  <2>2. WaitInv'
    BY <1>2, <2>1, WaitStep DEF OrderInv
  <2>3. EndInv'
    BY <1>2, SendsStep, EndStep DEF OrderInv
  <2> QED
    BY <2>1, <2>2, <2>3 DEF OrderInv
<1>3. ASSUME OrderInv, UNCHANGED vars PROVE OrderInv'
  <2>1. TypeOK' /\ RelayInv'
    BY <1>3, TypeStep, RelayStep DEF OrderInv
  <2>2. WaitInv' /\ EndInv'
    BY <1>3 DEF OrderInv, vars, WaitInv, EndInv, Waiting, WaitingAt, Live, EndsOnce,
       OnlyHeldFramesOvertaken
  <2> QED
    BY <2>1, <2>2 DEF OrderInv
<1> QED
  BY <1>1, <1>2, <1>3

\* The client sees one end: nothing inspected after a relayed run end, and RUN_ERROR from
\* the proxy once, last, and exactly when the stream failed.
THEOREM OneEnd == Spec => []EndsOnce
<1>1. OrderInv => EndsOnce
  BY DEF OrderInv, EndInv
<1> QED
  BY <1>1, OrderInductive, PTL DEF Spec

\* Frames that are not held for a call are relayed in the order of the upstream.
THEOREM OrderKept == Spec => []OnlyHeldFramesOvertaken
<1>1. OrderInv => OnlyHeldFramesOvertaken
  BY DEF OrderInv, EndInv
<1> QED
  BY <1>1, OrderInductive, PTL DEF Spec
=============================================================================
