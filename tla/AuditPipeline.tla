---------------------------- MODULE AuditPipeline ----------------------------
(***************************************************************************)
(* The road of an audit record inside one agate-server process: the runs   *)
(* being proxied record each decision through AuditLogSink, a bounded      *)
(* channel carries the records to the single AuditOutbox task, which       *)
(* appends them to the transparency log, and the CheckpointScheduler signs *)
(* the log's head on a period.  The Supervisor and main's shutdown         *)
(* sequence stop them in order; the process may also die at any moment.    *)
(*                                                                         *)
(* A record is <<n, k>>: the k-th decision of run n.  One append or one    *)
(* checkpoint is a transaction of module AuditLog, seen here through its   *)
(* outcome: done, failed, or done although the answer was an error.        *)
(***************************************************************************)
EXTENDS Integers, Sequences, FiniteSets, Functions

CONSTANTS Run,          \* runs (client connections)
          FullPolicy,   \* the settings of outbox_on_full considered
          Capacity,     \* slots of the outbox channel
          MaxDecisions  \* bound: decisions of one run

ASSUME PolicyAssumption == FullPolicy \subseteq {"Block", "Shed"}
ASSUME CapacityAssumption == Capacity \in Nat \ {0}
ASSUME DecisionsAssumption == MaxDecisions \in Nat

VARIABLES onFull,   \* "Block" or "Shed", read once at startup
          run,      \* "new", "active", "sending" (blocked in send), "done"
          decided,  \* decisions each run has taken so far
          queue,    \* the channel
          outbox,   \* "recv", "append" or "stopped"
          hand,     \* the record the outbox is appending: a sequence of at most one
          log,      \* the leaves stored
          appended, \* records counted by record_appended
          dropped,  \* records counted by record_dropped
          relayed,  \* decisions whose record() returned, so that the run went on
          sched,    \* the scheduler: "idle", "issue" or "stopped"
          loaded,   \* the size the checkpoint in progress has loaded
          lastSize, \* the scheduler's last_size; -1 is None
          heads,    \* sizes with a stored checkpoint
          token,    \* the supervisor's cancellation token
          main      \* "serving", "draining", "waiting", "exited" or "crashed"

vars == <<onFull, run, decided, queue, outbox, hand, log, appended, dropped, relayed,
          sched, loaded, lastSize, heads, token, main>>

runVars == <<run, decided, relayed>>
outboxVars == <<outbox, hand, log, appended>>
schedVars == <<sched, loaded, lastSize, heads>>

Alive == main \notin {"exited", "crashed"}

Busy(n) == run[n] \in {"active", "sending"}

Init ==
    /\ onFull \in FullPolicy
    /\ run = [n \in Run |-> "new"]
    /\ decided = [n \in Run |-> 0]
    /\ queue = <<>>
    /\ outbox = "recv"
    /\ hand = <<>>
    /\ log = <<>>
    /\ appended = {}
    /\ dropped = {}
    /\ relayed = {}
    /\ sched = "idle"
    /\ loaded = 0
    /\ lastSize = -1
    /\ heads = {}
    /\ token = FALSE
    /\ main = "serving"

-----------------------------------------------------------------------------
(* Runs *)

Connect(n) ==
    /\ main = "serving"
    /\ run[n] = "new"
    /\ run' = [run EXCEPT ![n] = "active"]
    /\ UNCHANGED <<decided, queue, outboxVars, dropped, relayed, schedVars, token, main>>

\* A slip: one slot too many.
HasRoomPlusOne == Len(queue) <= Capacity

HasRoom == Len(queue) < Capacity

Decides(n) ==
    /\ Alive
    /\ run[n] = "active"
    /\ decided[n] < MaxDecisions
    /\ decided' = [decided EXCEPT ![n] = @ + 1]

Newest(n) == <<n, decided[n] + 1>>

\* There is a free slot: both policies enqueue at once.
RecordEnqueued(n) ==
    /\ Decides(n)
    /\ HasRoom
    /\ queue' = Append(queue, Newest(n))
    /\ relayed' = relayed \cup {Newest(n)}
    /\ UNCHANGED <<run, outboxVars, dropped, schedVars, token, main>>

\* FullPolicy::Shed on a full channel: the record is counted as dropped.
RecordShed(n) ==
    /\ onFull = "Shed"
    /\ Decides(n)
    /\ ~HasRoom
    /\ dropped' = dropped \cup {Newest(n)}
    /\ relayed' = relayed \cup {Newest(n)}
    /\ UNCHANGED <<run, queue, outboxVars, schedVars, token, main>>

\* FullPolicy::Block on a full channel: the run waits in send().await.
RecordBlocks(n) ==
    /\ onFull = "Block"
    /\ Decides(n)
    /\ ~HasRoom
    /\ run' = [run EXCEPT ![n] = "sending"]
    /\ UNCHANGED <<queue, outboxVars, dropped, relayed, schedVars, token, main>>

\* The awaited slot is granted.
SendCompletes(n) ==
    /\ Alive
    /\ run[n] = "sending"
    /\ HasRoom
    /\ queue' = Append(queue, <<n, decided[n]>>)
    /\ relayed' = relayed \cup {<<n, decided[n]>>}
    /\ run' = [run EXCEPT ![n] = "active"]
    /\ UNCHANGED <<decided, outboxVars, dropped, schedVars, token, main>>

\* The response stream ends.
RunEnds(n) ==
    /\ Alive
    /\ run[n] = "active"
    /\ run' = [run EXCEPT ![n] = "done"]
    /\ UNCHANGED <<decided, queue, outboxVars, dropped, relayed, schedVars, token, main>>

\* The client disconnects while the run waits for a slot: the handler's future
\* is dropped, and with it the record it was sending.
ClientGone(n) ==
    /\ Alive
    /\ run[n] = "sending"
    /\ run' = [run EXCEPT ![n] = "done"]
    /\ UNCHANGED <<decided, queue, outboxVars, dropped, relayed, schedVars, token, main>>

-----------------------------------------------------------------------------
(* AuditOutbox *)

Receive ==
    /\ Alive
    /\ outbox = "recv"
    /\ queue # <<>>
    /\ hand' = <<Head(queue)>>
    /\ queue' = Tail(queue)
    /\ outbox' = "append"
    /\ UNCHANGED <<runVars, log, appended, dropped, schedVars, token, main>>

Appending ==
    /\ Alive
    /\ outbox = "append"
    /\ outbox' = "recv"
    /\ hand' = <<>>
    /\ UNCHANGED <<runVars, queue, schedVars, token, main>>

AppendOk ==
    /\ Appending
    /\ log' = log \o hand
    /\ appended' = appended \cup Range(hand)
    /\ UNCHANGED dropped

\* A slip: the failed append is only logged.
AppendFailsSilently ==
    /\ Appending
    /\ UNCHANGED <<log, appended, dropped>>

\* No request scope, or the transaction failed and rolled back.
AppendFails ==
    /\ Appending
    /\ dropped' = dropped \cup Range(hand)
    /\ UNCHANGED <<log, appended>>

\* Slips: the lost answer is not counted; the append is tried again.
AppendInDoubtSilently ==
    /\ Appending
    /\ log' = log \o hand
    /\ UNCHANGED <<appended, dropped>>
AppendInDoubtRetried ==
    /\ Appending
    /\ log' = log \o hand \o hand
    /\ appended' = appended \cup Range(hand)
    /\ UNCHANGED dropped

\* The answer to COMMIT was lost: stored, and counted as dropped.
AppendInDoubt ==
    /\ Appending
    /\ log' = log \o hand
    /\ dropped' = dropped \cup Range(hand)
    /\ UNCHANGED appended

\* Slips: the outbox watches the token; it leaves what is queued.
OutboxStopsOnToken ==
    /\ outbox = "recv"
    /\ queue = <<>>
    /\ token
    /\ outbox' = "stopped"
    /\ UNCHANGED <<runVars, queue, hand, log, appended, dropped, schedVars, token, main>>
OutboxStopsUndrained ==
    /\ outbox = "recv"
    /\ main = "waiting"
    /\ outbox' = "stopped"
    /\ UNCHANGED <<runVars, queue, hand, log, appended, dropped, schedVars, token, main>>

\* recv() returns None: the queue is empty and every sender is dropped, which
\* they are once serve has returned.
OutboxStops ==
    /\ outbox = "recv"
    /\ queue = <<>>
    /\ main = "waiting"
    /\ outbox' = "stopped"
    /\ UNCHANGED <<runVars, queue, hand, log, appended, dropped, schedVars, token, main>>

-----------------------------------------------------------------------------
(* CheckpointScheduler *)

\* A tick, when the token is not cancelled; the issue loads the log.
Tick ==
    /\ Alive
    /\ sched = "idle"
    /\ ~token
    /\ sched' = "issue"
    /\ loaded' = Len(log)
    /\ UNCHANGED <<runVars, queue, outboxVars, dropped, lastSize, heads, token, main>>

Issuing ==
    /\ Alive
    /\ sched = "issue"
    /\ sched' = "idle"
    /\ loaded' = 0
    /\ UNCHANGED <<runVars, queue, outboxVars, dropped, token, main>>

\* A slip: any earlier checkpoint makes the issue idle.
IssueOkOnce ==
    /\ Issuing
    /\ heads' = IF lastSize # -1 THEN heads ELSE heads \cup {loaded}
    /\ lastSize' = loaded

\* The idle skip stores nothing when the size is the last one issued.
IssueOk ==
    /\ Issuing
    /\ heads' = IF loaded = lastSize THEN heads ELSE heads \cup {loaded}
    /\ lastSize' = loaded

IssueFails ==
    /\ Issuing
    /\ UNCHANGED <<heads, lastSize>>

IssueInDoubt ==
    /\ Issuing
    /\ heads' = heads \cup {loaded}
    /\ UNCHANGED lastSize

\* A slip: the scheduler waits for the log's last size to be signed.
SchedulerStopsSettled ==
    /\ Alive
    /\ sched = "idle"
    /\ token
    /\ lastSize = Len(log)
    /\ sched' = "stopped"
    /\ UNCHANGED <<runVars, queue, outboxVars, dropped, loaded, lastSize, heads, token, main>>

\* The cancelled branch of the biased select.
SchedulerStops ==
    /\ Alive
    /\ sched = "idle"
    /\ token
    /\ sched' = "stopped"
    /\ UNCHANGED <<runVars, queue, outboxVars, dropped, loaded, lastSize, heads, token, main>>

-----------------------------------------------------------------------------
(* main *)

\* SIGINT or SIGTERM: Supervisor::trigger.
Signal ==
    /\ main = "serving"
    /\ ~token
    /\ token' = TRUE
    /\ UNCHANGED <<runVars, queue, outboxVars, dropped, schedVars, main>>

\* Handle::graceful_shutdown(None): no new runs.
StopAccepting ==
    /\ main = "serving"
    /\ token
    /\ main' = "draining"
    /\ UNCHANGED <<runVars, queue, outboxVars, dropped, schedVars, token>>

\* serve returns once the last run is over, and the application is dropped.
ServeReturns ==
    /\ main = "draining"
    /\ \A n \in Run : ~Busy(n)
    /\ main' = "waiting"
    /\ UNCHANGED <<runVars, queue, outboxVars, dropped, schedVars, token>>

\* Supervisor::wait returns.
Exit ==
    /\ main = "waiting"
    /\ outbox = "stopped"
    /\ sched = "stopped"
    /\ main' = "exited"
    /\ UNCHANGED <<runVars, queue, outboxVars, dropped, schedVars, token>>

\* The process is killed.  What is in memory is lost; an append or an issue
\* whose COMMIT was sent may still be stored.
Crash ==
    /\ Alive
    /\ main' = "crashed"
    /\ run' = [n \in Run |-> "done"]
    /\ queue' = <<>> /\ hand' = <<>> /\ outbox' = "stopped"
    /\ log' \in {log, log \o hand}
    /\ heads' \in {heads} \cup {heads \cup {loaded} : s \in {sched} \cap {"issue"}}
    /\ sched' = "stopped" /\ loaded' = 0
    /\ UNCHANGED <<decided, relayed, appended, dropped, lastSize, token>>

-----------------------------------------------------------------------------
RunStep(n) ==
    \/ Connect(n)
    \/ RecordEnqueued(n)
    \/ RecordShed(n)
    \/ RecordBlocks(n)
    \/ SendCompletes(n)
    \/ RunEnds(n)
    \/ ClientGone(n)

AppendEnds == AppendOk \/ AppendFails \/ AppendInDoubt

IssueEnds == IssueOk \/ IssueFails \/ IssueInDoubt

Shutdown == StopAccepting \/ ServeReturns \/ Exit

Configured(Step) == Step /\ UNCHANGED onFull

Next ==
    /\ \/ \E n \in Run : RunStep(n)
       \/ Receive \/ AppendEnds \/ OutboxStops
       \/ Tick \/ IssueEnds \/ SchedulerStops
       \/ Signal \/ Shutdown \/ Crash
    /\ UNCHANGED onFull

Spec == Init /\ [][Next]_vars

\* The runtime keeps polling every task.  An append or an issue ends (module
\* AuditLog), the channel grants slots in the order they were asked for, a run
\* ends (an upstream that hangs is cut by the read timeout), and the store does
\* not refuse checkpoints for ever.
Fairness ==
    /\ \A n \in Run :
         SF_vars(Configured(SendCompletes(n))) /\ WF_vars(Configured(RunEnds(n)))
    /\ WF_vars(Configured(Receive)) /\ WF_vars(Configured(AppendEnds))
    /\ WF_vars(Configured(OutboxStops)) /\ WF_vars(Configured(Tick))
    /\ WF_vars(Configured(IssueEnds)) /\ WF_vars(Configured(SchedulerStops))
    /\ SF_vars(Configured(IssueOk))
    /\ WF_vars(Configured(Shutdown))

FairSpec == Spec /\ Fairness

-----------------------------------------------------------------------------
(* Properties *)

Records == Run \X (1..MaxDecisions)

\* Every variable has its type.
TypeOK ==
    /\ run \in [Run -> {"new", "active", "sending", "done"}]
    /\ decided \in [Run -> 0..MaxDecisions]
    /\ queue \in Seq(Records) /\ Len(queue) <= Capacity
    /\ outbox \in {"recv", "append", "stopped"}
    /\ hand \in Seq(Records) /\ Len(hand) = (IF outbox = "append" THEN 1 ELSE 0)
    /\ log \in Seq(Records)
    /\ appended \subseteq Records
    /\ dropped \subseteq Records
    /\ relayed \subseteq Records
    /\ sched \in {"idle", "issue", "stopped"}
    /\ loaded \in Nat
    /\ lastSize \in Nat \cup {-1}
    /\ heads \subseteq Nat
    /\ token \in BOOLEAN
    /\ main \in {"serving", "draining", "waiting", "exited", "crashed"}

\* The records that wait in memory to be stored.
InFlight == Range(queue) \cup Range(hand)

\* A run goes on past a decision only when its record is on its way: every
\* decision acted upon is stored, on the way to the store, or counted as
\* dropped, whatever the order of clients, outbox, failures and shutdown.
RelayedAccounted ==
    main # "crashed" => relayed \subseteq InFlight \cup Range(log) \cup dropped

\* What a crash can lose is bounded: at any time, and after the crash, at most
\* the channel and the record in the outbox's hand have been acted upon without
\* being stored or counted.
ExposureBound ==
    Cardinality(relayed \ (Range(log) \cup dropped)) <= Capacity + 1

\* The channel's order becomes the log's: across the log, the hand and the
\* channel, the decisions of a run stand in the order they were taken, and no
\* decision stands twice.
PerRunOrder ==
    LET line == log \o hand \o queue IN
    \A i, j \in 1..Len(line) :
        i < j /\ line[i][1] = line[j][1] => line[i][2] < line[j][2]

\* The two counters bracket the log: what record_appended counted is stored,
\* and what is stored was counted by one of them (a commit in doubt by the
\* wrong one), unless the process died with its counters.
CountersBracketLog ==
    /\ appended \subseteq Range(log)
    /\ main # "crashed" => Range(log) \subseteq appended \cup dropped
    /\ appended \cap dropped = {}

\* "Flushes the audit outbox before exiting": when the process exits by
\* itself, no record is left in memory, every decision acted upon is stored or
\* counted, and the scheduler is not in the middle of an issue.
ExitIsFlushed ==
    main = "exited" =>
        /\ InFlight = {}
        /\ relayed \subseteq Range(log) \cup dropped
        /\ sched = "stopped"

\* The outbox outlives its senders: it never stops while a run could still
\* record, so the sink's closed-channel branch is not reached by a shutdown.
OutboxOutlivesRuns == outbox = "stopped" => \A n \in Run : ~Busy(n)

\* A checkpoint never runs ahead of the stored log, and the size the
\* scheduler skips on has a stored checkpoint.
CheckpointsTrailLog ==
    /\ \A h \in heads : h <= Len(log)
    /\ lastSize # -1 => lastSize \in heads

\* A signal stops the process: with runs that end, the drain of the channel,
\* the scheduler's boundary and wait all complete.
ShutdownCompletes == token ~> ~Alive

\* Backpressure is not a deadlock: a run that waits for a slot gets it, or its
\* client leaves, or the process dies.
BackpressureEnds ==
    \A n \in Run : run[n] = "sending" ~> run[n] # "sending" \/ ~Alive

\* While the server is not shutting down, whatever is stored comes under a
\* checkpoint.
StoredGetsCheckpointed ==
    \A k \in 1..(Cardinality(Run) * MaxDecisions) :
        Len(log) >= k ~> (\E h \in heads : h >= k) \/ token \/ ~Alive

\* docs/design/concurrency-audit.md: "no audit record lost without a counter
\* increment".  A decision that was taken is waiting to be sent, in flight,
\* stored, or counted as dropped.
NoSilentLoss ==
    main # "crashed" =>
        \A n \in Run : \A k \in 1..decided[n] :
            \/ run[n] = "sending" /\ k = decided[n]
            \/ <<n, k>> \in InFlight \cup Range(log) \cup dropped
==============================================================================
