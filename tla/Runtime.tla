------------------------------ MODULE Runtime ------------------------------
(***************************************************************************)
(* The lifecycle of a Runtime (lifecycle.go, runtime.go, network.go,       *)
(* migration_hooks.go, datadir_lease.go): Build, Start, Close and          *)
(* ListenAndServe, called by any goroutine at any time, around the         *)
(* connections of Connections.tla, and other users of the same DataDir.    *)
(*                                                                         *)
(* Of the data only transaction IDs are kept: the horizon of the committed *)
(* state in memory and of the records of the log, and what Start will      *)
(* resume from.                                                            *)
(***************************************************************************)
EXTENDS Connections

CONSTANT MaxTxID  \* bound: transactions of migrations and startup sweeps

ASSUME RuntimeConstants == MaxTxID \in Nat

VARIABLES
    stateName,    \* Runtime.stateName
    start,        \* where the call of Start is, "none" when there is none
    startupDone,  \* Runtime.startupDone is set
    canceled,     \* the startup context is done
    retryBlocked, \* Runtime.startRetryBlockedErr is set
    close,        \* where the call of Close is, and what it took under the lock
    serve,        \* ListenAndServe: "no", "start", "starting", "serving", "stopping"
    worker,       \* the runtime's durability worker: "none", "open", "broken"
    graph,        \* the runtime's workers are published in its fields
    goroutines,   \* those of "scheduler" and "fanout" that run
    mem,          \* horizon of Runtime.state
    log,          \* horizon of the log
    recovered,    \* Runtime.recoveredTxID
    plan,         \* Runtime.resumePlan.NextTxID
    lastTx,       \* the transaction ID the new executor has reached
    stale,        \* history: a failed Start left memory and log apart, and may be retried
    lease,        \* who holds the directory's lock: a set of users
    left          \* bound: builds, starts, servings and offline operations that may
                  \* still be begun

lifecycleVars == <<stateName, start, startupDone, canceled, retryBlocked, close, serve>>
dataVars == <<mem, log, recovered, plan, lastTx, stale>>
runtimeVars == <<lifecycleVars, worker, graph, goroutines, dataVars, lease, left>>
vars == <<connVars, runtimeVars>>

-----------------------------------------------------------------------------
(* The DataDir lease: one exclusive holder, or any number of shared ones.  *)

Exclusive == {"runtime", "migration"}
Shared == {"backup"}

reserveDataDirLease(user) ==
    IF user \in Exclusive THEN lease = {} ELSE lease \cap Exclusive = {}

acquireDataDirLease(user) ==
    /\ user \notin lease /\ reserveDataDirLease(user)
    /\ lease' = lease \cup {user}

\* The directory is in use by the runtime while its worker is open, and by an
\* offline operation for as long as it runs.
Touching == (IF worker # "none" THEN {"runtime"} ELSE {}) \cup (lease \ {"runtime"})

-----------------------------------------------------------------------------
(* Build recovers the state from the directory it has taken.               *)

BuiltInit ==
    /\ stateName = "built" /\ start = "none" /\ startupDone = FALSE
    /\ canceled = FALSE /\ retryBlocked = FALSE
    /\ close = [at |-> "none", start |-> FALSE, graph |-> FALSE]
    /\ serve = "no"
    /\ worker = "none" /\ graph = FALSE /\ goroutines = {}
    /\ mem = 0 /\ log = 0 /\ recovered = 0 /\ plan = 1 /\ lastTx = 0 /\ stale = FALSE
    /\ lease = {"runtime"}

\* A runtime that is ready, nothing having failed on the way.
ReadyInit ==
    /\ stateName = "ready" /\ start = "none" /\ startupDone = FALSE
    /\ canceled = FALSE /\ retryBlocked = FALSE
    /\ close = [at |-> "none", start |-> FALSE, graph |-> FALSE]
    /\ serve = "no"
    /\ worker = "open" /\ graph = TRUE /\ goroutines = {"scheduler", "fanout"}
    /\ mem = 0 /\ log = 0 /\ recovered = 0 /\ plan = 1 /\ lastTx = 0 /\ stale = FALSE
    /\ lease = {"runtime"}

Spend(what) == left[what] > 0 /\ left' = [left EXCEPT ![what] = @ - 1]

Quiet == \A c \in Conns : life[c] \in {"dialing", "over"}

\* A fresh Runtime over the directory of a closed one; openOrBootstrapState reads the log.
Build ==
    /\ stateName = "closed" /\ close.at = "none" /\ start = "none" /\ serve = "no" /\ Quiet
    /\ Spend("builds")
    /\ acquireDataDirLease("runtime")
    /\ stateName' = "built" /\ retryBlocked' = FALSE /\ canceled' = FALSE
    /\ mem' = log /\ recovered' = log /\ plan' = log + 1 /\ lastTx' = log /\ stale' = FALSE
    /\ closeAll' = [pc |-> "no", left |-> {}] /\ executor' = "off"
    /\ subs' = [id \in Ids |-> NoConn]
    /\ UNCHANGED <<conns, reserved, admitted, life, tear, servingVars, inbox, replies, clients, kept, faults, late, start, startupDone, close, serve, worker, graph, goroutines, log>>

\* BackupDataDir and RunDataDirMigrations take the directory, use it and let it go.
OfflineBegin(user) ==
    /\ Quiet /\ Spend("offline") /\ acquireDataDirLease(user)
    /\ UNCHANGED <<connVars, lifecycleVars, worker, graph, goroutines, dataVars>>

OfflineEnd(user) ==
    /\ user \in lease
    /\ lease' = lease \ {user}
    /\ log' \in IF user = "migration" /\ log < MaxTxID THEN {log, log + 1} ELSE {log}
    /\ UNCHANGED <<connVars, lifecycleVars, worker, graph, goroutines, mem, recovered, plan, lastTx,
                   stale, left>>

-----------------------------------------------------------------------------
(* Start.                                                                  *)

MayStart == stateName = "built" \/ (stateName = "failed" /\ ~retryBlocked)

StartCall ==
    /\ MayStart /\ start = "none"
    /\ stateName' = "starting" /\ start' = "open"
    /\ startupDone' = TRUE /\ canceled' = FALSE
    /\ Spend("starts")
    /\ UNCHANGED <<retryBlocked, close>>

StartBegins ==
    /\ StartCall
    /\ UNCHANGED <<connVars, serve, worker, graph, goroutines, dataVars, lease>>

\* The caller gives the startup up.
StartCanceled ==
    /\ startupDone /\ ~canceled /\ canceled' = TRUE
    /\ UNCHANGED <<connVars, stateName, start, startupDone, retryBlocked, close, serve, worker, graph,
                   goroutines, dataVars, lease, left>>

At(from) == start = from /\ UNCHANGED <<connVars, startupDone, canceled, close, serve, lease, left>>
Fail == start' = "unwind"

\* The schema engine, the configuration and the durability worker, which opens the log.
NewDurabilityWorkerWithResumePlan ==
    /\ At("open")
    /\ \/ ~canceled /\ start' = "migrate" /\ worker' = "open"
       \/ Fail /\ UNCHANGED worker
    /\ UNCHANGED <<stateName, retryBlocked, graph, goroutines, dataVars>>

Commit(logged) ==
    /\ mem < MaxTxID
    /\ mem' = mem + 1
    /\ IF logged THEN log' = mem' /\ UNCHANGED worker ELSE worker' = "broken" /\ UNCHANGED log

blockStartRetry == retryBlocked' = (retryBlocked \/ stateName \in {"failed", "starting"})

\* The hooks change nothing, or one commits and waits until that is durable.  A
\* later hook may fail; when the wait fails only a new Runtime may go on.
runMigrationHooks ==
    /\ At("migrate")
    /\ \/ ~canceled /\ start' = "startup" /\ UNCHANGED <<worker, mem, log, recovered, retryBlocked>>
       \/ ~canceled /\ start' = "startup" /\ Commit(TRUE) /\ recovered' = mem' /\ UNCHANGED retryBlocked
       \/ Fail /\ UNCHANGED <<worker, mem, log, recovered, retryBlocked>>
       \/ Fail /\ Commit(TRUE) /\ UNCHANGED <<recovered, retryBlocked>>
       \/ Fail /\ (\E logged \in BOOLEAN : Commit(logged)) /\ blockStartRetry /\ UNCHANGED recovered
    /\ UNCHANGED <<stateName, graph, goroutines, plan, lastTx, stale>>

\* The new executor sweeps the rows of sys_clients the last one left behind, each
\* in a transaction.
Startup ==
    /\ start = "startup"
    /\ \/ /\ ~canceled /\ start' = "publish" /\ lastTx' = recovered
          /\ UNCHANGED <<worker, mem, log, stale>>
       \/ /\ start' \in {"publish", "unwind"} /\ lastTx' = recovered + 1
          /\ Commit(TRUE) /\ UNCHANGED stale
       \/ Fail /\ lastTx' = recovered + 1 /\ Commit(FALSE) /\ stale' = TRUE
       \/ Fail /\ UNCHANGED <<worker, lastTx, mem, log, stale>>
    /\ clients' = IF start' = "publish" THEN [id \in Ids |-> NoConn] ELSE clients
    /\ UNCHANGED <<managerVars, life, tear, servingVars, executor, inbox, replies, subs, kept, faults, late,
                   stateName, startupDone, canceled, retryBlocked, close, serve, graph, goroutines,
                   recovered, plan, lease, left>>

\* Mutant: Start publishes its graph without looking at the state again.
PublishUnchecked ==
    /\ At("publish")
    /\ start' = "launch" /\ stateName' = "ready" /\ graph' = TRUE
    /\ UNCHANGED <<retryBlocked, worker, goroutines, dataVars>>

\* The last look at the state, and the graph's publication, are under one lock.
Publish ==
    /\ At("publish")
    /\ \/ stateName \in {"closing", "closed"} /\ Fail /\ UNCHANGED <<stateName, graph>>
       \/ stateName = "starting" /\ Fail /\ UNCHANGED <<stateName, graph>>
       \/ stateName = "starting" /\ start' = "launch" /\ stateName' = "ready" /\ graph' = TRUE
    /\ UNCHANGED <<retryBlocked, worker, goroutines, dataVars>>

Launch ==
    /\ start = "launch"
    /\ start' = "returned"
    /\ executor' = "running" /\ goroutines' = {"scheduler", "fanout"}
    /\ UNCHANGED <<managerVars, life, tear, servingVars, inbox, replies, clients, subs, kept, faults, late,
                   stateName, startupDone, canceled, retryBlocked, close, serve, worker, graph, dataVars,
                   lease, left>>

\* Mutant: a retry resumes from where the first Start did.
refreshStartupRecoverySkipped == UNCHANGED <<mem, recovered, plan, stale>>

\* A failed Start closes its worker, and reads the directory again when that
\* worker has logged something; the close or the reading may fail.
refreshStartupRecovery ==
    \/ log < plan /\ UNCHANGED <<mem, recovered, plan, stale>>
    \/ log >= plan /\ mem' = log /\ recovered' = log /\ plan' = log + 1 /\ UNCHANGED stale
    \/ log >= plan /\ stale' = TRUE /\ UNCHANGED <<mem, recovered, plan>>

closeStartupDurability ==
    /\ At("unwind")
    /\ start' = "failing"
    /\ worker' = "none"
    /\ \/ worker = "open" /\ refreshStartupRecovery
       \/ worker # "open" /\ UNCHANGED <<mem, recovered, plan, stale>>
    /\ UNCHANGED <<stateName, retryBlocked, graph, goroutines, log, lastTx>>

\* The deferred function: startupDone is cleared, then a failure is recorded, and
\* the caller learns of the outcome.
StartReturns(to) == serve' = IF serve = "starting" THEN to ELSE serve

StartUnregisters ==
    /\ startupDone' = FALSE
    /\ \/ start = "failing" /\ start' = "record" /\ UNCHANGED serve
       \/ start = "returned" /\ start' = "none" /\ StartReturns("serving")
    /\ UNCHANGED <<connVars, stateName, canceled, retryBlocked, close, worker, graph, goroutines,
                   dataVars, lease, left>>

recordStartFailure ==
    /\ start = "record" /\ start' = "none" /\ StartReturns("no")
    /\ stateName' = IF stateName \in {"closing", "closed"} THEN stateName ELSE "failed"
    /\ UNCHANGED <<connVars, startupDone, canceled, retryBlocked, close, worker, graph, goroutines,
                   dataVars, lease, left>>

-----------------------------------------------------------------------------
(* Close, one call at a time under closeMu.                                *)

CloseAt(from, to) == close.at = from /\ close' = [close EXCEPT !.at = to]

CloseLeaves ==
    UNCHANGED <<start, startupDone, retryBlocked, serve, dataVars, left>>

\* Nothing was started, or the last Start failed: only the lease is held.
CloseIdle ==
    /\ stateName \in {"built", "failed"} /\ ~startupDone
    /\ CloseAt("none", "release")
    /\ stateName' = "closed"
    /\ CloseLeaves /\ UNCHANGED <<connVars, canceled, worker, graph, goroutines, lease>>

CloseCall ==
    /\ close.at = "none" /\ stateName # "closed"
    /\ stateName \in {"built", "failed"} => startupDone
    /\ stateName' = "closing"
    /\ close' = [at |-> "await", start |-> startupDone, graph |-> graph]
    /\ canceled' = (canceled \/ startupDone)
    /\ CloseLeaves /\ UNCHANGED <<connVars, worker, graph, goroutines, lease>>

\* Mutant: Close does not wait for a Start that is under way.
AwaitStartUnwaited ==
    /\ CloseAt("await", IF close.graph THEN "conns" ELSE "release")
    /\ CloseLeaves /\ UNCHANGED <<connVars, stateName, canceled, worker, graph, goroutines, lease>>

\* The Start that was under way has returned; CloseFanOut and lifecycleCancel follow.
AwaitStart ==
    /\ close.start => start = "none"
    /\ CloseAt("await", IF close.graph THEN "conns" ELSE "release")
    /\ CloseLeaves /\ UNCHANGED <<connVars, stateName, canceled, worker, graph, goroutines, lease>>

CloseStep == CloseLeaves /\ UNCHANGED <<stateName, canceled, graph, lease>>

closeProtocolGraph ==
    /\ close.at = "conns"
    /\ \/ CloseAll /\ UNCHANGED close
       \/ CloseAllReturns /\ close' = [close EXCEPT !.at = "scheduler"]
    /\ CloseStep /\ UNCHANGED <<worker, goroutines>>

\* Mutant: lifecycleCancel is forgotten, so the scheduler runs on.
GoroutineReturnsUncanceled(g) ==
    /\ g \in goroutines /\ g # "scheduler" /\ close.at = "fanout"
    /\ goroutines' = goroutines \ {g}
    /\ CloseStep /\ UNCHANGED <<connVars, close, worker>>

\* The scheduler returns once lifecycleCancel was called, the fan-out worker once
\* fanOutCancel was, each before the end of the wait for it.
GoroutineReturns(g) ==
    /\ g \in goroutines
    /\ close.at = g
    /\ goroutines' = goroutines \ {g}
    /\ CloseStep /\ UNCHANGED <<connVars, close, worker>>

\* exec.Shutdown refuses new commands and rejects the queued ones.
Shutdown ==
    /\ \/ /\ "scheduler" \notin goroutines /\ executor \in {"running", "fatal"}
          /\ CloseAt("scheduler", "executor") /\ executor' = "rejecting"
       \/ executor = "rejecting" /\ inbox = <<>> /\ CloseAt("executor", "fanout") /\ executor' = "stopped"
    /\ CloseStep
    /\ UNCHANGED <<managerVars, life, tear, servingVars, inbox, replies, clients, subs, kept, faults, late,
                   worker, goroutines>>

closeRuntimeDurability ==
    /\ "fanout" \notin goroutines
    /\ CloseAt("fanout", "release")
    /\ worker' = "none"
    /\ CloseStep /\ UNCHANGED <<connVars, goroutines>>

release ==
    /\ CloseAt("release", "none")
    /\ lease' = lease \ {"runtime"}
    /\ stateName' = "closed" /\ graph' = FALSE
    /\ CloseLeaves /\ UNCHANGED <<connVars, canceled, worker, goroutines>>

-----------------------------------------------------------------------------
(* ListenAndServe: Start, serve until the context or the server ends, Close.*)

ServeTo(from, to) ==
    /\ serve = from /\ serve' = to
    /\ UNCHANGED <<connVars, worker, graph, goroutines, dataVars, lease>>

tryBeginServing ==
    /\ ServeTo("no", "start") /\ Spend("serves")
    /\ UNCHANGED <<stateName, start, startupDone, canceled, retryBlocked, close>>

serveStarted ==
    \/ StartCall /\ ServeTo("start", "starting")
    \/ /\ \/ stateName = "ready" /\ ServeTo("start", "serving")
          \/ stateName # "ready" /\ ~MayStart /\ ServeTo("start", "no")
          \/ ServeTo("serving", "stopping")
          \/ stateName = "closed" /\ close.at = "none" /\ ServeTo("stopping", "no")
       /\ UNCHANGED <<stateName, start, startupDone, canceled, retryBlocked, close, left>>

-----------------------------------------------------------------------------
handleSubscribe(c) == stateName = "ready" /\ HandleSubscribe(c) /\ UNCHANGED runtimeVars

StartStep ==
    \/ NewDurabilityWorkerWithResumePlan \/ runMigrationHooks \/ Startup \/ Publish \/ Launch
    \/ closeStartupDurability \/ StartUnregisters \/ recordStartFailure

CloseProgress ==
    \/ AwaitStart \/ closeProtocolGraph \/ Shutdown \/ closeRuntimeDurability \/ release
    \/ \E g \in goroutines : GoroutineReturns(g)

Next ==
    \/ Build \/ StartBegins \/ StartCanceled \/ StartStep
    \/ CloseIdle \/ CloseCall \/ CloseProgress
    \/ tryBeginServing \/ serveStarted
    \/ \E user \in {"migration", "backup"} : OfflineBegin(user) \/ OfflineEnd(user)
    \/ \E c \in Conns : handleSubscribe(c)
    \/ ConnNext /\ UNCHANGED runtimeVars

-----------------------------------------------------------------------------
TypeOK ==
    /\ ConnTypeOK
    /\ stateName \in {"built", "starting", "ready", "closing", "closed", "failed"}
    /\ worker \in {"none", "open", "broken"} /\ goroutines \subseteq {"scheduler", "fanout"}
    /\ {mem, log, recovered, lastTx} \subseteq 0 .. MaxTxID /\ plan \in 1 .. MaxTxID + 1
    /\ lease \subseteq Exclusive \cup Shared

\* The directory is never used by two: while the runtime's durability worker is
\* open, in a Start that Close interrupts as in a Close that is under way, the
\* runtime holds the lease, and no offline copy or migration runs.
LeaseCoversUse ==
    /\ worker # "none" => "runtime" \in lease
    /\ Touching \cap Exclusive # {} => Cardinality(Touching) = 1

\* A closed runtime is quiet: when Close has returned, no worker or goroutine of it
\* is left, even if a Start was under way, no command waits in the executor, and
\* no connection is registered; and the executor is stopped only after every
\* connection is gone, unless CloseAll gave up its wait for an admission.
ClosedIsQuiet ==
    /\ stateName = "closed" /\ close.at = "none" =>
        /\ worker = "none" /\ goroutines = {} /\ executor \in {"off", "stopped"} /\ inbox = <<>>
        /\ start \in {"none", "record"} /\ ~graph
        /\ \A id \in Ids : conns[id] = NoConn
    /\ CloseAllIsComplete

\* Close waits for nothing that cannot come: whatever Start, the connections and
\* the executor are doing when it is called, some step of those it waits for is
\* possible until it returns (none of them repeats), and its wait for the
\* connections needs nothing of the executor.
CloseNeverStalls ==
    /\ CleanupNeverStalls
    /\ close.at # "none" /\ closeAll.pc # "closing" =>
         ENABLED (CloseProgress \/ StartStep \/ (rejectPending /\ UNCHANGED runtimeVars))

\* "a same-runtime retry must resume from the new log horizon": a runtime is ready
\* with the state its log holds, and the next transaction gets the log's next ID,
\* however many Starts failed on the way and wherever they did (the failures that
\* nothing recovers from are marked stale).
ReadyMatchesLog ==
    /\ TypeOK
    /\ stateName = "ready" /\ ~stale => mem = log /\ lastTx = log

=============================================================================
