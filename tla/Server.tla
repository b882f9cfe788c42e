------------------------------- MODULE Server -------------------------------
(***************************************************************************)
(* The life of an agate-server process: main's startup sequence from the   *)
(* configuration to the listener, the hot reload of a policy file while it *)
(* serves, and its shutdown.                                               *)
(*                                                                         *)
(* A policy file is edited by others at any time; its k-th content is      *)
(* version k, "good", "empty", or "bad" when it is missing, cut short or   *)
(* does not compile.  A reload runs on a blocking thread, where reading    *)
(* the file and storing the compiled policy are separate steps; SIGHUP and *)
(* the file watch have one task each, and nothing orders the two.          *)
(***************************************************************************)
EXTENDS ServerConfig

CONSTANTS Layers,      \* the files and environments considered, with AUDIT_LOG_ID
          ChannelSize, \* slots of the watch's channel
          MaxVersions  \* bound: contents of the policy file

ASSUME ChannelAssumption == ChannelSize \in Nat \ {0}
ASSUME LayersAssumption ==
    \A l \in Layers :
        LET c == Layered(l.file, l.env)
        IN  c["proxy.rate_limit_per_second"] \in Nat /\ c["proxy.rate_limit_burst"] \in Nat

VARIABLES conf,     \* the loaded configuration
          pinned,   \* AUDIT_LOG_ID: None, "ok" or "bad"
          stage,    \* how far main is, see Startup
          attempt,  \* failed attempts to connect so far
          store,    \* what was done to the store: "connected", "migrated", "log"
          settings, \* what build_server was given
          versions, \* the contents of the policy file so far
          live,     \* the version compiled into the adapter; 0 for none
          armed,    \* the directory watch is installed
          events,   \* changes seen by the operating system, not yet reported
          changes,  \* signals in the watch's channel
          hangup,   \* a SIGHUP is pending
          task,     \* the reload tasks, see TaskState
          saw,      \* the version the reload of each task has read
          token,    \* the supervisor's cancellation token
          unseen    \* why live may lag behind the file: "no", "unwatched", "overlap"

startVars == <<conf, pinned, attempt, store, settings>>
fileVars == <<versions, events>>
reloadVars == <<live, changes, hangup, task, saw, unseen>>
vars == <<startVars, stage, fileVars, armed, reloadVars, token>>

Trigger == {"hangup", "watch"}
TaskState == {"off", "idle", "debounce", "spawned", "compile", "stopped", "failed"}

Nothing == [proxy |-> None]

Init ==
    /\ \E l \in Layers : conf = Layered(l.file, l.env) /\ pinned = l.pinned
    /\ stage = "load"
    /\ attempt = 0 /\ store = {} /\ settings = Nothing
    /\ versions \in {<<q>> : q \in {"good", "empty", "bad"}}
    /\ live = 0 /\ armed = FALSE /\ events = 0 /\ changes = 0 /\ hangup = FALSE
    /\ task = [t \in Trigger |-> "off"] /\ saw = [t \in Trigger |-> 0]
    /\ token = FALSE /\ unseen = "no"

Latest == Len(versions)
Running == stage \notin {"aborted", "exited", "killed"}
Becomes(t, s) == task' = [task EXCEPT ![t] = s]
-----------------------------------------------------------------------------
(* Startup *)

\* A slip: the certificate is loaded when the listener is about to need it.
StartupTlsLate ==
    <<"load", "validate", "metrics", "policy", "logid", "bind", "connect", "migrate", "resolve",
      "build", "tls", "listen", "serving">>

\* The order of main.
Startup ==
    <<"load", "validate", "metrics", "policy", "logid", "bind", "tls", "connect", "migrate",
      "resolve", "build", "listen", "serving">>

Proceed ==
    stage' = LET i == CHOOSE i \in DOMAIN Startup : Startup[i] = stage IN Startup[i + 1]
Abort == stage' = "aborted"
At(s) == stage = s

Engine == conf["policy.backend"]
FileBacked == Engine \in {"cel", "rego"}
Watched ==
    \/ Engine = "cel" /\ conf["policy.cel.watch"]
    \/ Engine = "rego" /\ conf["policy.rego.watch"]

\* A step of main that only looks at the configuration and panics when it is wrong.
Check(s, ok) ==
    /\ At(s)
    /\ IF ok THEN Proceed ELSE Abort
    /\ UNCHANGED <<startVars, fileVars, armed, reloadVars, token>>

\* Installing the exporter binds a port, which may be taken.
InitMetrics ==
    /\ At("metrics")
    /\ \/ MetricsBuild(conf) /\ Proceed
       \/ MetricsOn(conf) /\ Abort
    /\ UNCHANGED <<startVars, fileVars, armed, reloadVars, token>>

\* What `load` takes: CEL accepts a file without rules at startup, Rego does not.
Loads(q) == q = "good" \/ (q = "empty" /\ Engine = "cel")

\* build_policy.  For an engine with a file: load it, spawn the SIGHUP task ...
BuildPolicy ==
    /\ At("policy") /\ live = 0
    /\ \/ ~FileBacked /\ RulesetBuilds(conf) /\ Proceed /\ UNCHANGED live
       \/ ~FileBacked /\ ~RulesetBuilds(conf) /\ Abort /\ UNCHANGED live
       \/ /\ FileBacked /\ Loads(versions[Latest])
          /\ live' = Latest
          /\ IF Watched THEN UNCHANGED stage ELSE Proceed
       \/ FileBacked /\ ~Loads(versions[Latest]) /\ Abort /\ UNCHANGED live
    /\ UNCHANGED <<startVars, fileVars, armed, changes, hangup, task, saw, token, unseen>>

\* ... which installs its handler when it first runs, or cannot ...
InstallHangup ==
    /\ Running /\ live # 0 /\ task["hangup"] = "off"
    /\ \E s \in {"idle", "failed"} : Becomes("hangup", s)
    /\ UNCHANGED <<startVars, stage, fileVars, armed, live, changes, hangup, saw, token, unseen>>

\* ... and install the watch, which may fail; the server then goes on without it.
ArmWatch ==
    /\ At("policy") /\ live # 0
    /\ Proceed
    /\ \/ armed' = TRUE /\ task' = [task EXCEPT !["watch"] = "idle"]
       \/ UNCHANGED <<armed, task>>
    /\ UNCHANGED <<startVars, fileVars, live, changes, hangup, saw, token, unseen>>

\* connect_pool: a failed attempt is retried up to connect_max_retries times.
Connect ==
    /\ At("connect")
    /\ \/ Proceed /\ store' = store \cup {"connected"} /\ UNCHANGED attempt
       \/ /\ attempt < PoolConfig(conf).retries
          /\ attempt' = attempt + 1 /\ UNCHANGED <<stage, store>>
       \/ attempt >= PoolConfig(conf).retries /\ Abort /\ UNCHANGED <<attempt, store>>
    /\ UNCHANGED <<conf, pinned, settings, fileVars, armed, reloadVars, token>>

Migrate ==
    /\ At("migrate")
    /\ \/ Proceed /\ store' = store \cup {"migrated"}
       \/ Abort /\ UNCHANGED store
    /\ UNCHANGED <<conf, pinned, attempt, settings, fileVars, armed, reloadVars, token>>

\* resolve_log: a pinned id is used as it is, otherwise a log is created.
ResolveLog ==
    /\ At("resolve")
    /\ \/ pinned # None /\ Proceed /\ UNCHANGED store
       \/ pinned = None /\ Proceed /\ store' = store \cup {"log"}
       \/ pinned = None /\ Abort /\ UNCHANGED store
    /\ UNCHANGED <<conf, pinned, attempt, settings, fileVars, armed, reloadVars, token>>

\* build_server.  The ledger is made by the container, now or on the first request;
\* a ledger that cannot be made panics there.
BuildServer ==
    /\ At("build")
    /\ settings' = ServerSettings(conf)
    /\ \/ Proceed
       \/ ~LedgerBuilds(conf) /\ Abort
    /\ UNCHANGED <<conf, pinned, attempt, store, fileVars, armed, reloadVars, token>>

\* The listener's port may be taken.
Listen ==
    /\ At("listen")
    /\ Proceed \/ Abort
    /\ UNCHANGED <<startVars, fileVars, armed, reloadVars, token>>

Start ==
    \/ Check("load", Extracts(conf)) \/ Check("validate", Valid(conf))
    \/ InitMetrics \/ BuildPolicy \/ ArmWatch
    \/ Check("logid", pinned # "bad")
    \/ Check("bind", BindParses(conf))
    \/ Check("tls", TlsLoads(conf))
    \/ Connect \/ Migrate \/ ResolveLog \/ BuildServer \/ Listen
-----------------------------------------------------------------------------
(* Hot reload *)

\* Someone writes the file: all of it, or a step of a write that is not atomic.
Edit(q) ==
    /\ Running /\ FileBacked /\ Latest < MaxVersions
    /\ versions' = Append(versions, q)
    /\ events' = IF armed THEN events + 1 ELSE events
    /\ unseen' = IF live # 0 /\ ~armed THEN "unwatched" ELSE unseen
    /\ UNCHANGED <<startVars, stage, armed, live, changes, hangup, task, saw, token>>

\* The callback of the watcher: try_send, dropped when the channel is full.
Notify ==
    /\ Running /\ events > 0
    /\ events' = events - 1
    /\ changes' = IF changes < ChannelSize THEN changes + 1 ELSE changes
    /\ UNCHANGED <<startVars, stage, versions, armed, live, hangup, task, saw, token, unseen>>

\* SIGHUP, which kills the process unless the task has installed its handler.
Hangup ==
    /\ Running /\ FileBacked /\ ~hangup
    /\ IF task["hangup"] \in {"off", "failed"}
       THEN stage' = "killed" /\ UNCHANGED hangup
       ELSE hangup' = TRUE /\ UNCHANGED stage
    /\ UNCHANGED <<startVars, fileVars, armed, live, changes, task, saw, token, unseen>>

Waits(t) == Running /\ task[t] = "idle" /\ ~token

HangupReceived ==
    /\ Waits("hangup") /\ hangup
    /\ hangup' = FALSE
    /\ Becomes("hangup", "spawned")
    /\ UNCHANGED <<startVars, stage, fileVars, armed, live, changes, saw, token, unseen>>

ChangeReceived ==
    /\ Waits("watch") /\ changes > 0
    /\ changes' = changes - 1
    /\ Becomes("watch", "debounce")
    /\ UNCHANGED <<startVars, stage, fileVars, armed, live, hangup, saw, token, unseen>>

\* WATCH_DEBOUNCE is over: the channel is drained, then the reload is spawned.
Debounced ==
    /\ Running /\ task["watch"] = "debounce"
    /\ changes' = 0
    /\ Becomes("watch", "spawned")
    /\ UNCHANGED <<startVars, stage, fileVars, armed, live, hangup, saw, token, unseen>>

\* A slip: the source kept from the last reload is compiled again.
ReloadReadsCached(t) ==
    /\ Running /\ task[t] = "spawned"
    /\ saw' = [saw EXCEPT ![t] = IF @ = 0 THEN Latest ELSE @]
    /\ Becomes(t, "compile")
    /\ UNCHANGED <<startVars, stage, fileVars, armed, live, changes, hangup, token, unseen>>

\* `reload` on the blocking thread reads the file ...
ReloadReads(t) ==
    /\ Running /\ task[t] = "spawned"
    /\ saw' = [saw EXCEPT ![t] = Latest]
    /\ Becomes(t, "compile")
    /\ UNCHANGED <<startVars, stage, fileVars, armed, live, changes, hangup, token, unseen>>

\* A slip: whatever startup accepts is swapped in.
ReloadAcceptsAsStartup(q) == Loads(q)

\* Neither engine takes an empty file in a reload.
ReloadAccepts(q) == q = "good"

\* The compiled policy is swapped in; an error or a panic keeps what is live.
Swap(t) ==
    IF ReloadAccepts(versions[saw[t]])
    THEN /\ live' = saw[t]
         /\ unseen' = IF \E o \in Trigger \ {t} : task[o] \in {"spawned", "compile"}
                      THEN "overlap"
                      ELSE IF saw[t] = Latest THEN "no" ELSE unseen
    ELSE UNCHANGED <<live, unseen>>

\* A slip: the signals are drained once the reload is done.
ReloadEndsDraining(t) ==
    /\ Running /\ task[t] = "compile"
    /\ Swap(t)
    /\ Becomes(t, "idle")
    /\ changes' = IF t = "watch" THEN 0 ELSE changes
    /\ UNCHANGED <<startVars, stage, fileVars, armed, hangup, saw, token>>

\* ... and stores what it compiled.
ReloadEnds(t) ==
    /\ Running /\ task[t] = "compile"
    /\ Swap(t)
    /\ Becomes(t, "idle")
    /\ UNCHANGED <<startVars, stage, fileVars, armed, changes, hangup, saw, token>>

HangupTask == HangupReceived \/ ReloadReads("hangup") \/ ReloadEnds("hangup")
WatchTask == ChangeReceived \/ Debounced \/ ReloadReads("watch") \/ ReloadEnds("watch")
-----------------------------------------------------------------------------
(* Shutdown *)

\* The signal task: trip the token, stop accepting.
Terminate ==
    /\ At("serving")
    /\ token' = TRUE /\ stage' = "draining"
    /\ UNCHANGED <<startVars, fileVars, armed, reloadVars>>

\* The selects are biased towards the token; a reload in progress is finished first.
TaskStops(t) ==
    /\ Running /\ token /\ task[t] = "idle"
    /\ Becomes(t, "stopped")
    /\ UNCHANGED <<startVars, stage, fileVars, armed, live, changes, hangup, saw, token, unseen>>

\* serve has returned and supervisor.wait has seen every task end.
Exit ==
    /\ At("draining")
    /\ task["hangup"] \in (IF FileBacked THEN {"stopped", "failed"} ELSE {"off"})
    /\ task["watch"] \in {"off", "stopped"}
    /\ stage' = "exited"
    /\ UNCHANGED <<startVars, fileVars, armed, reloadVars, token>>

Next ==
    \/ Start
    \/ \E q \in {"good", "empty", "bad"} : Edit(q)
    \/ Notify \/ Hangup \/ InstallHangup \/ HangupTask \/ WatchTask
    \/ Terminate \/ (\E t \in Trigger : TaskStops(t)) \/ Exit

Spec == Init /\ [][Next]_vars

\* The operating system reports changes and the runtime polls its tasks; a blocking
\* thread reads and compiles a file in finite time.
FairSpec ==
    /\ Spec
    /\ WF_vars(Notify) /\ WF_vars(HangupTask) /\ WF_vars(WatchTask)
-----------------------------------------------------------------------------
(* Properties *)

\* What is wrong with the configuration, by the step that finds out.
Defects ==
    {d \in {"load", "validate", "metrics", "ruleset", "logid", "bind", "tls", "ledger"} :
       CASE d = "load" -> ~Extracts(conf)
         [] d = "validate" -> ~Valid(conf)
         [] d = "metrics" -> ~MetricsBuild(conf)
         [] d = "ruleset" -> ~FileBacked /\ ~RulesetBuilds(conf)
         [] d = "logid" -> pinned = "bad"
         [] d = "bind" -> ~BindParses(conf)
         [] d = "tls" -> ~TlsLoads(conf)
         [] d = "ledger" -> ~LedgerBuilds(conf)}

\* main: "Build everything that can fail from config before any I/O, so a bad config
\* aborts startup before connecting to Postgres or creating a log."
BadConfigAbortsFirst == Defects # {} => store = {}

\* As far as it goes: whichever layer a defect comes from, and whichever other
\* defects there are, a process whose configuration is wrong anywhere but in the
\* session ledger never touches the store.  And one that serves has settings for which
\* the other modules' assumptions hold, whatever the layers said: there are permits and
\* channel slots, no deadline or limit is an accidental zero, a burst has its rate, a
\* ledger its lifetime, and the API is open only if no key is configured in either form.
StartupGate ==
    /\ Defects \ {"ledger"} # {} => store = {}
    /\ stage = "serving" =>
         LET p == settings.proxy
         IN  /\ p.permits > 0 /\ p.body > 0 /\ p.frame > 0 /\ 0 \notin p.timeouts
             /\ settings.outbox.capacity > 0 /\ settings.deadline > 0
             /\ p.burst > 0 => p.rate > 0
             /\ p.memory.backend # None => p.memory.ttl > 0
             /\ p.keys = {} => /\ conf["proxy.api_key"] \in Absent
                               /\ "ok" \notin conf["proxy.api_keys"]

\* Whatever is written to the file, and however reads and writes interleave, the live
\* policy is one whole content that compiles, and a reload never installs an empty one:
\* a truncated or half-written file cannot open the gate.
GateStaysClosed ==
    /\ [](live # 0 => versions[live] # "bad")
    /\ [][live # 0 /\ live' # live => versions'[live'] = "good"]_vars

\* When the watch is installed and all is quiet, the live policy is the file's, unless
\* an edit came between the load and the watch or the two tasks reloaded at once.
QuietIsCurrent ==
    /\ armed /\ Running /\ ~token
    /\ events = 0 /\ changes = 0 /\ \A t \in Trigger : task[t] \in {"off", "idle", "failed"}
    /\ versions[Latest] = "good" /\ unseen = "no"
    => live = Latest

\* No edit is lost: with the watch installed, a good content that stays in the file
\* becomes the live policy, however its events were coalesced or dropped.
EditTakesEffect ==
    armed /\ versions[Latest] = "good"
        ~> \/ live = Latest \/ versions[Latest] # "good"
           \/ unseen # "no" \/ token \/ ~Running
=============================================================================
