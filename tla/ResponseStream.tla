--------------------------- MODULE ResponseStream ---------------------------
(***************************************************************************)
(* The response leg of one agent run: `inspect_stream` reads the agent's   *)
(* SSE events one at a time, the `Run` aggregate enforces lifecycle order  *)
(* and assembles tool calls, the `Inspector` has every complete event      *)
(* judged and recorded, and the frames go to the client, wait in the       *)
(* per-call hold buffers, or vanish.                                       *)
(*                                                                         *)
(* One action is one event handled to the end.  The sweep of unclosed tool *)
(* calls is one step per call, since the map is drained in no fixed order. *)
(* `Inspector::judge` is one nondeterministic verdict plus its audit       *)
(* record: the replay guard and the URL screen are Deny verdicts recorded  *)
(* like a policy's.                                                        *)
(***************************************************************************)
EXTENDS Naturals, Sequences, FiniteSets

CONSTANTS
  CallId,            \* tool-call ids the agent uses
  Tool,              \* tool names
  NoCall, NoTool,    \* absence of either
  Fragment,          \* the upstream events considered, see FragmentType
  MaxOpenToolCalls, MaxToolArgsBytes, MaxStateBytes,  \* Budgets
  Settings,          \* the configurations considered, see SettingType
  FrameLimit         \* BOOLEAN: max_frame_bytes # 0

RunEndKind == {"RunFinished", "RunError"}
LifecycleKind == {"RunStarted", "Step"} \cup RunEndKind
ToolCallKind == {"Start", "Args", "End"}
ContentKind == {"Result", "Message", "State", "Opaque"}
UninspectedKind == {"Unknown", "Malformed"}
Kind == LifecycleKind \cup ToolCallKind \cup ContentKind \cup UninspectedKind

\* An upstream event: its kind, the call id and the tool name it carries, and the
\* bytes of its payload (an argument delta, a state mutation).
FragmentType ==
  [kind : Kind, call : CallId \cup {NoCall}, tool : Tool \cup {NoTool}, bytes : Nat]

\* What differs between deployments: the ResponseBudget (0 = off), the treatment of
\* a malformed event, and, for the model, the events this agent sends and how many
\* (the bound of the model).
SettingType ==
  [maxEvents : Nat, maxBytes : Nat, malformed : {"Forward", "Drop", "Terminate"},
   sends : SUBSET Fragment, frames : Nat]

ASSUME SettingAssumption == Settings \subseteq SettingType
ASSUME FragmentAssumption ==
  /\ Fragment \subseteq FragmentType
  /\ \A f \in Fragment : f.kind \in ToolCallKind \cup {"Result"} => f.call \in CallId
  /\ \A f \in Fragment : f.kind = "Start" => f.tool \in Tool
ASSUME BudgetAssumption ==
  /\ MaxOpenToolCalls \in Nat /\ MaxToolArgsBytes \in Nat /\ MaxStateBytes \in Nat
  /\ FrameLimit \in BOOLEAN
ASSUME AbsenceAssumption == NoCall \notin CallId /\ NoTool \notin Tool

VARIABLES
  setting,    \* the configuration of this process, read once at startup
  pc,         \* "read": awaiting upstream; "sweep": judging unclosed calls;
              \* "eof", "error", "dropped": how the stream ended
  phase,      \* Run.phase
  open,       \* domain of Run.open_tool_calls
  buf,        \* its ToolCallBuffers: name, arguments (the frames of the deltas)
  toolNames,  \* Run.tool_names
  holds,      \* frames held per call id; <<>> when the map has no entry
  drained,    \* calls drained by sweep_open_calls and not yet judged
  flushed,    \* frames of the swept calls allowed so far
  ending,     \* the run-ending event behind the sweep; 0 at upstream EOF
  seenBytes,  \* seen_bytes; seen_events is Len(rcvd)
  rcvd,       \* every event read from upstream, in order
  out,        \* every frame yielded to the client, in order
  audit       \* every record handed to the AuditSink, in order

vars == <<setting, pc, phase, open, buf, toolNames, holds, drained, flushed, ending,
          seenBytes, rcvd, out, audit>>
runVars == <<phase, open, buf, toolNames>>
sweepVars == <<drained, flushed, ending>>
-----------------------------------------------------------------------------
\* A wire frame: the number of the upstream event, and the event its verdict is
\* about (the START of its call; itself when it stands alone; 0 for none).
FrameForm == {"start", "args", "end", "event", "runend", "transformed", "pass", "runerror"}
Frame == [n : Nat, subject : Nat, form : FrameForm]
RunErrorFrame == [n |-> 0, subject |-> 0, form |-> "runerror"]

Verdict == {"Allow", "Deny", "Transform", "Terminate"}
\* What lift_decision lets a policy answer: only text can be rewritten.
VerdictsFor(kind) ==
  IF kind \in {"Message", "Result"} THEN Verdict ELSE Verdict \ {"Transform"}

ToolCallBuffer == [name : Tool \cup {NoTool}, start : Nat, args : Seq(Nat), bytes : Nat]
NoBuffer == [name |-> NoTool, start |-> 0, args |-> <<>>, bytes |-> 0]
Record == [subject : Nat, tool : Tool \cup {NoTool}, args : Seq(Nat), verdict : Verdict]

NoHolds == [c \in CallId |-> <<>>]
Live == pc \in {"read", "sweep"}

Init ==
  /\ setting \in Settings
  /\ pc = "read" /\ phase = "Pending"
  /\ open = {} /\ buf = [c \in CallId |-> NoBuffer]
  /\ toolNames = [c \in CallId |-> NoTool]
  /\ holds = NoHolds
  /\ drained = {} /\ flushed = <<>> /\ ending = 0
  /\ seenBytes = 0 /\ rcvd = <<>> /\ out = <<>> /\ audit = <<>>
-----------------------------------------------------------------------------
SeenEvents == Len(rcvd)

RawLen(f) == 1 + f.bytes

\* ResponseBudget::exceeded
Exceeded(events, bytes) ==
  \/ setting.maxEvents # 0 /\ events > setting.maxEvents
  \/ setting.maxBytes # 0 /\ bytes > setting.maxBytes

\* The head of the per-event loop: count the event; past the budget only
\* OverBudget continues.
Read(f) ==
  /\ pc = "read"
  /\ f \in setting.sends /\ Len(rcvd) < setting.frames
  /\ rcvd' = Append(rcvd, f)
  /\ seenBytes' = seenBytes + RawLen(f)

\* A slip: the totals before this event are compared.
WithinBudgetLate(f) == ~Exceeded(SeenEvents, seenBytes)

WithinBudget(f) == ~Exceeded(SeenEvents + 1, seenBytes + RawLen(f))

\* A slip: RUN_ERROR is yielded, but the stream does not return.
TerminateRunGoesOn ==
  /\ pc' = pc
  /\ holds' = NoHolds
  /\ out' = Append(out, RunErrorFrame)

\* Every fail-closed exit: forget the holds, send RUN_ERROR, stop.
TerminateRun ==
  /\ pc' = "error"
  /\ holds' = NoHolds
  /\ out' = Append(out, RunErrorFrame)

\* A slip: released frames are put in front of what is buffered for the client.
EmitInFront(frames) == out' = frames \o out

Emit(frames) == out' = out \o frames

OverBudget(f) ==
  /\ Read(f)
  /\ ~WithinBudget(f)
  /\ TerminateRun
  /\ UNCHANGED <<runVars, sweepVars, audit>>

\* `decode` finds nothing to inspect, whatever the phase of the run.
PassThrough(f) ==
  /\ f.kind = "Unknown" \/ (f.kind = "Malformed" /\ setting.malformed = "Forward")
  /\ Read(f) /\ WithinBudget(f)
  /\ Emit(<<[n |-> SeenEvents + 1, subject |-> 0, form |-> "pass"]>>)
  /\ UNCHANGED <<pc, holds, runVars, sweepVars, audit>>

MalformedDrop(f) ==
  /\ f.kind = "Malformed" /\ setting.malformed = "Drop"
  /\ Read(f) /\ WithinBudget(f)
  /\ UNCHANGED <<pc, holds, out, runVars, sweepVars, audit>>

MalformedTerminate(f) ==
  /\ f.kind = "Malformed" /\ setting.malformed = "Terminate"
  /\ Read(f) /\ WithinBudget(f)
  /\ TerminateRun
  /\ UNCHANGED <<runVars, sweepVars, audit>>
-----------------------------------------------------------------------------
\* Run::inspect: when an event that is not run-ending is structurally rejected.
Rejected(f) ==
  \/ f.kind = "RunStarted" /\ phase # "Pending"
  \/ f.kind # "RunStarted" /\ phase # "Running"
  \/ f.kind = "Start" /\ (f.call \in open \/ Cardinality(open) >= MaxOpenToolCalls)
  \/ f.kind = "Args" /\ (f.call \notin open
                          \/ buf[f.call].bytes + f.bytes > MaxToolArgsBytes)
  \/ f.kind = "End" /\ f.call \notin open
  \/ f.kind = "State" /\ f.bytes > MaxStateBytes

\* The event reaches Inspector::inspect straight from the loop.
Inspected(f) ==
  /\ f.kind \in Kind \ (UninspectedKind \cup RunEndKind)
  /\ Read(f) /\ WithinBudget(f)

\* A structural reject ends the run without an audit record.
StructuralReject(f) ==
  /\ Inspected(f)
  /\ Rejected(f)
  /\ TerminateRun
  /\ UNCHANGED <<runVars, sweepVars, audit>>

\* A slip: the newest frame is put first.
HoldFrameFirst(c, frame) == holds' = [holds EXCEPT ![c] = <<frame>> \o @]

HoldFrame(c, frame) == holds' = [holds EXCEPT ![c] = Append(@, frame)]

ToolCallStarted(f) ==
  LET n == SeenEvents + 1
  IN
  /\ f.kind = "Start"
  /\ Inspected(f) /\ ~Rejected(f)
  /\ open' = open \cup {f.call}
  /\ buf' = [buf EXCEPT ![f.call] =
               [name |-> f.tool, start |-> n, args |-> <<>>, bytes |-> 0]]
  /\ toolNames' = [toolNames EXCEPT ![f.call] = f.tool]
  /\ HoldFrame(f.call, [n |-> n, subject |-> n, form |-> "start"])
  /\ UNCHANGED <<pc, phase, out, sweepVars, audit>>

WithDelta(b, n, bytes) == [b EXCEPT !.args = Append(@, n), !.bytes = @ + bytes]

ToolCallArgs(f) ==
  LET n == SeenEvents + 1
  IN
  /\ f.kind = "Args"
  /\ Inspected(f) /\ ~Rejected(f)
  /\ buf' = [buf EXCEPT ![f.call] = WithDelta(@, n, f.bytes)]
  /\ HoldFrame(f.call, [n |-> n, subject |-> buf[f.call].start, form |-> "args"])
  /\ UNCHANGED <<pc, phase, open, toolNames, out, sweepVars, audit>>

\* What judge records for an assembled call and for a standalone event.
CallRecord(c, v) ==
  [subject |-> buf[c].start, tool |-> buf[c].name, args |-> buf[c].args, verdict |-> v]
EventRecord(n, t, v) == [subject |-> n, tool |-> t, args |-> <<>>, verdict |-> v]

\* A slip: the frames of a judged call stay under its id.
DropHoldKeeps(c) == UNCHANGED holds

ForgetCall(c) == buf' = [buf EXCEPT ![c] = NoBuffer]
DropHold(c) == holds' = [holds EXCEPT ![c] = <<>>]

\* TOOL_CALL_END: authorize_call decides over the held frames and this one.
ToolCallEnded(f) ==
  LET c == f.call
      frame == [n |-> SeenEvents + 1, subject |-> buf[c].start, form |-> "end"]
  IN
  /\ f.kind = "End"
  /\ Inspected(f) /\ ~Rejected(f)
  /\ open' = open \ {c}
  /\ ForgetCall(c)
  /\ \E v \in VerdictsFor("Call") :
       /\ audit' = Append(audit, CallRecord(c, v))
       /\ \/ /\ v = "Allow"
             /\ Emit(Append(holds[c], frame)) /\ DropHold(c) /\ UNCHANGED pc
          \/ /\ v = "Deny"
             /\ DropHold(c) /\ UNCHANGED <<out, pc>>
          \/ v = "Terminate" /\ TerminateRun
  /\ UNCHANGED <<phase, toolNames, sweepVars>>

\* Inspector::inspect and apply_action on a complete event number n attributed to
\* tool t: verdict v over its frame, sent after the frames in sofar.
JudgeEvent(sofar, n, t, form, v) ==
  /\ audit' = Append(audit, EventRecord(n, t, v))
  /\ \/ /\ v \in {"Allow", "Transform"}
        /\ out' = Append(sofar, [n |-> n, subject |-> n,
                                 form |-> IF v = "Allow" THEN form ELSE "transformed"])
        /\ UNCHANGED holds
     \/ v = "Deny" /\ out' = sofar /\ UNCHANGED holds
     \/ v = "Terminate" /\ out' = Append(sofar, RunErrorFrame) /\ holds' = NoHolds

\* A slip: the name stays for a second result of the call.
NamesAfterKept(f) == toolNames

\* A tool result takes its tool's name out of tool_names.
NamesAfter(f) ==
  IF f.kind = "Result" THEN [toolNames EXCEPT ![f.call] = NoTool] ELSE toolNames

\* A standalone event.
StandaloneEvent(f) ==
  LET t == IF f.kind = "Result" THEN toolNames[f.call] ELSE NoTool
  IN
  /\ f.kind \in ContentKind \cup {"RunStarted", "Step"}
  /\ Inspected(f) /\ ~Rejected(f)
  /\ phase' = IF f.kind = "RunStarted" THEN "Running" ELSE phase
  /\ toolNames' = NamesAfter(f)
  /\ \E v \in VerdictsFor(f.kind) :
       /\ JudgeEvent(out, SeenEvents + 1, t, "event", v)
       /\ pc' = IF v = "Terminate" THEN "error" ELSE pc
  /\ UNCHANGED <<open, buf, sweepVars>>
-----------------------------------------------------------------------------
\* A slip: the calls stay open while they are swept.
StartSweepKeepsOpen(n) ==
  /\ pc' = "sweep"
  /\ drained' = open /\ open' = open
  /\ ending' = n /\ flushed' = <<>>

\* drain_open: from here the calls are only known to the sweep.
StartSweep(n) ==
  /\ pc' = "sweep"
  /\ drained' = open /\ open' = {}
  /\ ending' = n /\ flushed' = <<>>

\* RUN_FINISHED or RUN_ERROR: unclosed calls are swept before the event itself
\* is looked at.
RunEnd(f) ==
  /\ f.kind \in RunEndKind
  /\ Read(f) /\ WithinBudget(f)
  /\ StartSweep(SeenEvents + 1)
  /\ UNCHANGED <<phase, buf, toolNames, holds, out, audit>>

UpstreamEof ==
  /\ pc = "read"
  /\ StartSweep(0)
  /\ UNCHANGED <<phase, buf, toolNames, holds, seenBytes, rcvd, out, audit>>

\* One iteration of sweep_open_calls.  A Terminate verdict abandons the calls not
\* yet judged; what was flushed before it is still sent.
SweepCall(c) ==
  /\ pc = "sweep" /\ c \in drained
  /\ drained' = drained \ {c}
  /\ ForgetCall(c)
  /\ \E v \in VerdictsFor("Call") :
       /\ audit' = Append(audit, CallRecord(c, v))
       /\ \/ /\ v = "Allow"
             /\ flushed' = flushed \o holds[c] /\ DropHold(c) /\ UNCHANGED <<pc, out>>
          \/ /\ v = "Deny"
             /\ DropHold(c) /\ UNCHANGED <<pc, out, flushed>>
          \/ /\ v = "Terminate"
             /\ pc' = "error"
             /\ out' = Append(out \o flushed, RunErrorFrame)
             /\ UNCHANGED <<holds, flushed>>
  /\ UNCHANGED <<phase, open, toolNames, ending, seenBytes, rcvd>>

\* A slip: the loop is left only when a call was allowed.
SweptSome == pc = "sweep" /\ drained = {} /\ flushed # <<>>

SweptAll == pc = "sweep" /\ drained = {}

\* After the sweep at upstream EOF.
FinishEof ==
  /\ SweptAll /\ ending = 0
  /\ pc' = "eof"
  /\ Emit(flushed) /\ flushed' = <<>>
  /\ UNCHANGED <<runVars, holds, drained, ending, seenBytes, rcvd, audit>>

\* After the sweep, a run end outside a running run is rejected ...
RejectRunEnd ==
  /\ SweptAll /\ ending # 0 /\ phase # "Running"
  /\ pc' = "error" /\ holds' = NoHolds
  /\ out' = Append(out \o flushed, RunErrorFrame) /\ flushed' = <<>>
  /\ UNCHANGED <<runVars, drained, ending, seenBytes, rcvd, audit>>

\* ... and one inside it closes the run and is judged like any event.
FinishRun ==
  /\ SweptAll /\ ending # 0 /\ phase = "Running"
  /\ phase' = "Finished"
  /\ \E v \in VerdictsFor("RunFinished") :
       /\ JudgeEvent(out \o flushed, ending, NoTool, "runend", v)
       /\ pc' = IF v = "Terminate" THEN "error" ELSE "read"
  /\ flushed' = <<>>
  /\ UNCHANGED <<open, buf, toolNames, drained, ending, seenBytes, rcvd>>
-----------------------------------------------------------------------------
\* The upstream body fails: RUN_ERROR, and the open calls are not judged.
UpstreamError ==
  /\ pc = "read"
  /\ pc' = "error"
  /\ out' = Append(out, RunErrorFrame)
  /\ UNCHANGED <<runVars, holds, sweepVars, seenBytes, rcvd, audit>>

\* One not-yet-complete event outgrew max_frame_bytes in the decoder.
FrameLimitExceeded ==
  /\ FrameLimit
  /\ pc = "read"
  /\ TerminateRun
  /\ UNCHANGED <<runVars, sweepVars, seenBytes, rcvd, audit>>

\* The client goes away: the response body, and the generator in it, is dropped
\* at whatever await it stands.
ClientGone ==
  /\ Live
  /\ pc' = "dropped"
  /\ UNCHANGED <<runVars, holds, sweepVars, seenBytes, rcvd, out, audit>>

HandleEvent(f) ==
  \/ OverBudget(f) \/ PassThrough(f) \/ MalformedDrop(f) \/ MalformedTerminate(f)
  \/ StructuralReject(f) \/ ToolCallStarted(f) \/ ToolCallArgs(f) \/ ToolCallEnded(f)
  \/ StandaloneEvent(f) \/ RunEnd(f)

Sweep == (\E c \in CallId : SweepCall(c)) \/ FinishEof \/ RejectRunEnd \/ FinishRun

Next ==
  /\ \/ \E f \in Fragment : HandleEvent(f)
     \/ UpstreamEof \/ Sweep
     \/ UpstreamError \/ FrameLimitExceeded \/ ClientGone
  /\ UNCHANGED setting

Spec == Init /\ [][Next]_vars /\ WF_vars(Sweep /\ UNCHANGED setting)
-----------------------------------------------------------------------------
\* Every field of the run, the stream and the client's view has its type.
TypeOK ==
  /\ setting \in Settings
  /\ pc \in {"read", "sweep", "eof", "error", "dropped"}
  /\ phase \in {"Pending", "Running", "Finished"}
  /\ open \in SUBSET CallId /\ drained \in SUBSET CallId
  /\ buf \in [CallId -> ToolCallBuffer]
  /\ toolNames \in [CallId -> Tool \cup {NoTool}]
  /\ holds \in [CallId -> Seq(Frame)]
  /\ flushed \in Seq(Frame) /\ out \in Seq(Frame)
  /\ ending \in Nat /\ seenBytes \in Nat
  /\ rcvd \in Seq(Fragment) /\ audit \in Seq(Record)

\* Over a record sequence a: event n has a record with verdict v; the frame may be
\* sent; every frame of the sequence s may be.
Judged(a, n, v) == \E j \in DOMAIN a : a[j].subject = n /\ a[j].verdict = v
Relayable(a, frame) ==
  \/ frame.form \in {"pass", "runerror"}
  \/ frame.form = "transformed" /\ Judged(a, frame.subject, "Transform")
  \/ frame.form \notin {"pass", "runerror", "transformed"} /\ Judged(a, frame.subject, "Allow")
AllRelayable(a, s) == \A p \in DOMAIN s : Relayable(a, s[p])

\* Every frame the client has been sent that the proxy can inspect belongs to an
\* event or tool call already recorded as allowed (or as rewritten, when the frame
\* is a rewritten one): nothing is relayed on no verdict, on the verdict of another
\* call, or on that of an earlier call with the same id.
RelayedWasAllowed == AllRelayable(audit, out)

\* A relayed tool call reaches the client as one block: its START, then exactly the
\* argument deltas that were assembled and judged, in their order, then its END if it
\* was closed; and no ARGS or END frame is relayed outside such a block.
RelayedAsJudged ==
  /\ \A p \in DOMAIN out : out[p].form = "start" =>
       \E j \in DOMAIN audit :
         LET args == audit[j].args
         IN  /\ audit[j].subject = out[p].n
             /\ p + Len(args) \in DOMAIN out
             /\ \A i \in 1..Len(args) :
                  out[p + i] = [n |-> args[i], subject |-> out[p].n, form |-> "args"]
             /\ p + Len(args) + 1 \in DOMAIN out => out[p + Len(args) + 1].form # "args"
  /\ \A p \in DOMAIN out : out[p].form \in {"args", "end"} =>
       /\ p > 1
       /\ out[p - 1].form \in {"start", "args"}
       /\ out[p - 1].subject = out[p].subject

\* Every tool call is judged exactly once: no event and no assembled call is recorded
\* twice, whether it was closed by its END or swept at the end of the run, and when the
\* upstream ends by itself every call that was started has been recorded.
JudgedOnce ==
  /\ \A i, j \in DOMAIN audit : audit[i].subject = audit[j].subject => i = j
  /\ pc = "eof" =>
       \A n \in DOMAIN rcvd : rcvd[n].kind = "Start" =>
         \E v \in Verdict : Judged(audit, n, v)

\* The hold buffers and the Run aggregate, two maps kept apart by two layers, agree:
\* frames are held for exactly the calls opened and not yet judged, START first.
HoldsMatchOpenCalls ==
  Live => \A c \in CallId :
    IF c \in open \cup drained
    THEN holds[c] # <<>> /\ holds[c][1].n = buf[c].start
    ELSE holds[c] = <<>>

\* The stream has one end.  Once a run end has been relayed no inspected frame follows
\* it (the frames of unclosed calls go out before it or not at all), and RUN_ERROR is
\* written by the proxy at most once, as the last frame, exactly on the failing exits.
EndsOnce ==
  /\ \A p, q \in DOMAIN out :
       out[p].form = "runend" /\ p < q => out[q].form \in {"pass", "runerror"}
  /\ \A p \in DOMAIN out : out[p].form = "runerror" => p = Len(out)
  /\ pc = "error" <=> out # <<>> /\ out[Len(out)].form = "runerror"

\* Only the held frames of a tool call can be overtaken by later ones: all other
\* frames reach the client in the order of the upstream.
OnlyHeldFramesOvertaken ==
  \A p, q \in DOMAIN out :
    p < q /\ out[q].n < out[p].n => out[q].form \in {"start", "args", "runerror"}

\* The starts and results received for call c among the first n events.
Mentions(c, n) == {m \in 1..n : rcvd[m].call = c /\ rcvd[m].kind \in {"Start", "Result"}}

\* A tool result is attributed to the tool of the latest START of its call id, and
\* to none if that START already had a result or never came.
ResultAttribution ==
  \A j \in DOMAIN audit :
    LET n == audit[j].subject
        earlier == Mentions(rcvd[n].call, n - 1)
    IN  rcvd[n].kind = "Result" =>
          audit[j].tool =
            IF \E m \in earlier : rcvd[m].kind = "Start" /\ \A k \in earlier : k <= m
            THEN rcvd[CHOOSE m \in earlier : \A k \in earlier : k <= m].tool
            ELSE NoTool

\* The bytes of the first n of the events r.
BytesUpTo(r) ==
  LET Bytes[n \in 0..Len(r)] == IF n = 0 THEN 0 ELSE RawLen(r[n]) + Bytes[n - 1] IN Bytes

\* The response budget bounds what is relayed, not only what is read: no event past
\* MaxEvents, nor past MaxBytes of upstream bytes, is ever sent or judged.
BudgetBoundsRelay ==
  LET bytes == BytesUpTo(rcvd)
  IN  /\ \A p \in DOMAIN out : ~Exceeded(out[p].n, bytes[out[p].n])
      /\ \A j \in DOMAIN audit : ~Exceeded(audit[j].subject, bytes[audit[j].subject])

\* A sweep of unclosed calls comes to an end: every drained call is judged, the run
\* is terminated, or the client leaves.
SweepEnds == (pc = "sweep") ~> (pc # "sweep")

\* `Verdict::Deny`: "Block this event; on the response leg, surface it as a
\* RUN_ERROR."  A run that came to its end with a denied event has shown a RUN_ERROR.
DenialSurfaced ==
  pc = "eof" /\ (\E j \in DOMAIN audit : audit[j].verdict = "Deny")
    => \E p \in DOMAIN out : out[p].form = "runerror"
=============================================================================
