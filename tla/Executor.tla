------------------------------ MODULE Executor ------------------------------
(***************************************************************************)
(* executor/executor.go and lifecycle.go: the single goroutine that owns   *)
(* commits, the callers that submit commands to its inbox, the commit      *)
(* pipeline (store commit, durability enqueue, subscription evaluation,    *)
(* response, dropped-client cleanup), the fatal latch, Startup's sweeps    *)
(* and the shutdown drain.                                                 *)
(*                                                                         *)
(* Every atomic load or store another goroutine can observe, every channel *)
(* operation and every call into another component is a step of its own.   *)
(* A command is a model value with a kind:                                 *)
(*   "call"        CallReducerCmd and OnConnectCmd: commit only on success *)
(*   "disconnect"  OnDisconnectCmd: commits also after the fatal latch     *)
(*   "drop"        DisconnectClientSubscriptionsCmd: cleanup, no commit    *)
(*   "subs"        Register / UnregisterSubscriptionSetCmd: no commit      *)
(*   "snapshot"    CreateSnapshotCmd: waits for its horizon to be durable  *)
(* A transaction is the command that committed it; its ID is its position. *)
(***************************************************************************)
EXTENDS Integers, Sequences

CONSTANTS
    Cmds,           \* the commands that callers submit, each once
    Kinds,          \* the kinds of command considered
    Sweep,          \* the author of the transactions that Startup commits
    MaxTxID,        \* ^uint64(0): no ID is left after it
    InboxCapacity,  \* ExecutorConfig.InboxCapacity
    RejectOnFull,   \* ExecutorConfig.RejectOnFull
    CtxCancel,      \* may the context given to Run be cancelled?
    MaxSweeps       \* rows that Startup may have to sweep

AllKinds == {"call", "disconnect", "drop", "subs", "snapshot"}

ASSUME KindsAssumption == Kinds \subseteq AllKinds
ASSUME SweepAssumption == Sweep \notin Cmds
ASSUME CapacityAssumption == InboxCapacity \in Nat \ {0}
ASSUME MaxTxIDAssumption == MaxTxID \in Nat
ASSUME MaxSweepsAssumption == MaxSweeps \in Nat
ASSUME FlagsAssumption == RejectOnFull \in BOOLEAN /\ CtxCancel \in BOOLEAN

VARIABLES
    kind,        \* what each command is
    sub,         \* per command: position of its caller inside submit
    resp,        \* per command: the response it was sent
    inbox,       \* the buffered channel
    pc,          \* the executor goroutine: Startup, then Run
    cmd,         \* the command it works on; Sweep: a sweep, or none
    failing,     \* handleOnDisconnect's fatalErr # nil
    sweeps,      \* rows that Startup has still to sweep
    effects,     \* the transactions visible in memory, oldest first
    logged,      \* the last ID handed to EnqueueCommitted
    fanned,      \* the last ID that subscription evaluation was given
    durable,     \* the durability worker's durable ID
    durErr,      \* the durability worker's FatalError() # nil
    fatal, externalReady, shutdown,  \* atomics
    shutdownCh,  \* shutdownCh is closed
    drainOwner,  \* "none", "run", "shutdown"
    closer,      \* the caller of Shutdown
    done,        \* close(e.done) has happened
    late         \* history: ordinary commits made while fatal

callerVars == <<kind, sub>>
runVars    == <<pc, cmd, failing, sweeps>>
durVars    == <<durable, durErr>>
txVars     == <<effects, logged, fanned, late>>
flagVars   == <<externalReady, shutdown, shutdownCh, drainOwner, closer, done>>
vars == <<callerVars, resp, inbox, runVars, durVars, txVars, flagVars, fatal>>

committedTxID == Len(effects)

Init ==
    /\ kind \in [Cmds -> Kinds]
    /\ sub = [c \in Cmds |-> "idle"]
    /\ resp = [c \in Cmds |-> "none"]
    /\ inbox = <<>>
    /\ pc = "boot" /\ cmd = Sweep /\ failing = FALSE
    /\ sweeps \in 0 .. MaxSweeps
    /\ effects = <<>> /\ logged = 0 /\ fanned = 0 /\ late = 0
    /\ durable = 0 /\ durErr = FALSE
    /\ fatal = FALSE /\ externalReady = FALSE
    /\ shutdown = FALSE /\ shutdownCh = FALSE
    /\ drainOwner = "none" /\ closer = "none" /\ done = FALSE

-----------------------------------------------------------------------------
(* Callers: submit.  A refused submission returns an error to its caller.   *)

isFatalCleanupCommand(c) == kind[c] \in {"disconnect", "drop"}

Move(c, to) == sub' = [sub EXCEPT ![c] = to]

\* validateSubmitAdmission latches a durability failure it finds; beginSubmit
\* counts the submitter and then looks at shutdown again.
validateSubmitAdmission(c) ==
    /\ sub[c] = "idle"
    /\ fatal' = (fatal \/ durErr)
    /\ IF (fatal' /\ ~isFatalCleanupCommand(c)) \/ shutdown \/ ~externalReady
         THEN Move(c, "refused") ELSE Move(c, "counted")
    /\ UNCHANGED <<kind, resp, inbox, runVars, durVars, txVars, flagVars>>

beginSubmit(c) ==
    /\ sub[c] = "counted"
    /\ IF shutdown THEN Move(c, "refused") ELSE Move(c, "select")
    /\ UNCHANGED <<kind, resp, inbox, runVars, durVars, txVars, flagVars, fatal>>

SubmitSend(c) ==
    /\ sub[c] = "select"
    /\ Len(inbox) < InboxCapacity
    /\ inbox' = Append(inbox, c)
    /\ Move(c, "sent")
    /\ UNCHANGED <<kind, resp, runVars, durVars, txVars, flagVars, fatal>>

\* The other cases of the select: shutdownCh, the caller's context, and in
\* reject mode the default.
SubmitShutdown(c) ==
    /\ sub[c] = "select" /\ shutdownCh
    /\ Move(c, "leaving")
    /\ UNCHANGED <<kind, resp, inbox, runVars, durVars, txVars, flagVars, fatal>>

SubmitCancelled(c) ==
    /\ sub[c] = "select"
    /\ Move(c, "leaving")
    /\ UNCHANGED <<kind, resp, inbox, runVars, durVars, txVars, flagVars, fatal>>

SubmitBusy(c) ==
    /\ sub[c] = "select" /\ RejectOnFull
    /\ Len(inbox) = InboxCapacity /\ ~shutdownCh
    /\ Move(c, "leaving")
    /\ UNCHANGED <<kind, resp, inbox, runVars, durVars, txVars, flagVars, fatal>>

finishSubmit(c) ==
    /\ \/ sub[c] = "sent" /\ Move(c, "accepted")
       \/ sub[c] = "leaving" /\ Move(c, "refused")
    /\ UNCHANGED <<kind, resp, inbox, runVars, durVars, txVars, flagVars, fatal>>

inflightSubmits == {c \in Cmds : sub[c] \in {"counted", "select", "sent", "leaving"}}

-----------------------------------------------------------------------------
(* Answers.  "failed" carries no TxID, "unknown" is StatusFailedInternal    *)
(* with the TxID of a commit that is visible in memory.                     *)

Answered(c, status) ==
    [resp EXCEPT ![c] = IF @ = "none" THEN status ELSE "twice"]

\* The command is over: Run takes the next one, Startup sweeps the next row
\* or returns its error.
Over(ok) ==
    /\ pc' = IF cmd # Sweep THEN "loop" ELSE IF ok THEN "boot" ELSE "off"
    /\ cmd' = Sweep /\ failing' = FALSE

Reply(status) ==
    /\ resp' = IF cmd = Sweep THEN resp ELSE Answered(cmd, status)
    /\ Over(FALSE)

-----------------------------------------------------------------------------
(* Startup: one transaction per dangling sys_clients row or invalid         *)
(* schedule, then external admission opens.                                 *)

SweepNext ==
    /\ pc = "boot" /\ sweeps > 0
    /\ pc' \in {"precommit", "off"}        \* "off": the context is cancelled
    /\ sweeps' = sweeps - 1
    /\ UNCHANGED <<callerVars, resp, inbox, cmd, failing, durVars, txVars,
                   flagVars, fatal>>

StartupDone ==
    /\ pc = "boot" /\ sweeps = 0
    /\ fatal' = (fatal \/ durErr)
    /\ externalReady' = ~durErr
    /\ pc' = "off"
    /\ UNCHANGED <<callerVars, resp, inbox, cmd, failing, sweeps, durVars,
                   txVars, shutdown, shutdownCh, drainOwner, closer, done>>

-----------------------------------------------------------------------------
(* Run. *)

\* Mutant: Run does not care who owns the drain.
RunStartUnclaimed ==
    /\ pc = "off" /\ externalReady
    /\ pc' = "loop"
    /\ drainOwner' = IF drainOwner = "none" THEN "run" ELSE drainOwner
    /\ UNCHANGED <<callerVars, resp, inbox, cmd, failing, sweeps, durVars,
                   txVars, externalReady, shutdown, shutdownCh, closer, done,
                   fatal>>

\* Runtime.Start runs the executor only when Startup succeeded.  The drain
\* belongs to whoever of Run and Shutdown claims it first.
RunStart ==
    /\ pc = "off" /\ externalReady
    /\ IF drainOwner = "none"
         THEN drainOwner' = "run" /\ pc' = "loop"
         ELSE pc' = "returned" /\ UNCHANGED drainOwner
    /\ UNCHANGED <<callerVars, resp, inbox, cmd, failing, sweeps, durVars,
                   txVars, externalReady, shutdown, shutdownCh, closer, done,
                   fatal>>

RunReceive ==
    /\ pc = "loop" /\ inbox # <<>>
    /\ cmd' = Head(inbox)
    /\ inbox' = Tail(inbox)
    /\ pc' = "got"
    /\ UNCHANGED <<callerVars, resp, failing, sweeps, durVars, txVars,
                   flagVars, fatal>>

RunShutdown ==
    /\ pc = "loop" /\ shutdownCh
    /\ pc' = "poll"
    /\ UNCHANGED <<callerVars, resp, inbox, cmd, failing, sweeps, durVars,
                   txVars, flagVars, fatal>>

\* startShutdown closes the channel only when it wins the compare-and-swap.
startShutdown ==
    /\ shutdown' = TRUE
    /\ shutdownCh' = (shutdownCh \/ ~shutdown)

RunCancelled ==
    /\ CtxCancel /\ pc \in {"loop", "got"}
    /\ startShutdown
    /\ pc' = "poll"
    /\ resp' = IF pc = "got" THEN Answered(cmd, "failed") ELSE resp
    /\ cmd' = Sweep
    /\ UNCHANGED <<callerVars, inbox, failing, sweeps, durVars, txVars,
                   externalReady, drainOwner, closer, done, fatal>>

\* Mutant: a command received during shutdown is dropped.
RunCheckShutdownSilent ==
    /\ pc = "got"
    /\ pc' = IF shutdown THEN "poll" ELSE "dispatch"
    /\ cmd' = IF shutdown THEN Sweep ELSE cmd
    /\ UNCHANGED <<callerVars, resp, inbox, failing, sweeps, durVars,
                   txVars, flagVars, fatal>>

RunCheckShutdown ==
    /\ pc = "got"
    /\ IF shutdown
         THEN pc' = "poll" /\ resp' = Answered(cmd, "failed") /\ cmd' = Sweep
         ELSE pc' = "dispatch" /\ UNCHANGED <<resp, cmd>>
    /\ UNCHANGED <<callerVars, inbox, failing, sweeps, durVars, txVars,
                   flagVars, fatal>>

dispatch ==
    /\ pc = "dispatch"
    /\ fatal' = (fatal \/ durErr)
    /\ IF fatal' /\ ~isFatalCleanupCommand(cmd)
         THEN Reply("failed")
         ELSE pc' = "handle" /\ UNCHANGED <<resp, cmd, failing>>
    /\ UNCHANGED <<callerVars, inbox, sweeps, durVars, txVars, flagVars>>

-----------------------------------------------------------------------------
(* Handlers. *)

\* handleCallReducer / handleOnConnect up to the commit: the reducer is not
\* found, not permitted, returns an error, panics, or succeeds.
handleCallReducer ==
    /\ pc = "handle" /\ kind[cmd] = "call"
    /\ \/ Reply("failed")
       \/ pc' = "precommit" /\ UNCHANGED <<resp, cmd, failing>>
    /\ UNCHANGED <<callerVars, inbox, sweeps, durVars, txVars, flagVars, fatal>>

\* The OnDisconnect reducer may fail: its transaction is replaced by one that
\* only deletes the row.  Only the delete itself can fail the command.
handleOnDisconnect ==
    /\ pc = "handle" /\ kind[cmd] = "disconnect"
    /\ \/ Reply("failed")
       \/ pc' = "precommit" /\ UNCHANGED <<resp, cmd, failing>>
    /\ UNCHANGED <<callerVars, inbox, sweeps, durVars, txVars, flagVars, fatal>>

\* Commands that change no row answer at once, with success or an error.
handleSubscriptions ==
    /\ pc = "handle" /\ kind[cmd] \in {"subs", "drop"}
    /\ \E status \in {"ok", "failed"} : Reply(status)
    /\ UNCHANGED <<callerVars, inbox, sweeps, durVars, txVars, flagVars, fatal>>

\* handleCreateSnapshot: wait for the commit ID, unless nothing was committed.
handleCreateSnapshot ==
    /\ pc = "handle" /\ kind[cmd] = "snapshot"
    /\ pc' = IF committedTxID = 0 THEN "capture" ELSE "wait"
    /\ UNCHANGED <<callerVars, resp, inbox, cmd, failing, sweeps, durVars,
                   txVars, flagVars, fatal>>

SnapshotWait ==
    /\ pc = "wait"
    /\ \/ /\ durable >= committedTxID
          /\ pc' = "capture"
          /\ UNCHANGED <<resp, cmd, failing, fatal>>
       \/ /\ durErr /\ durable < committedTxID
          /\ fatal' = TRUE
          /\ Reply("failed")
    /\ UNCHANGED <<callerVars, inbox, sweeps, durVars, txVars, flagVars>>

SnapshotCapture ==
    /\ pc = "capture"
    /\ fatal' = (fatal \/ durErr)
    /\ \E status \in IF durErr THEN {"failed"} ELSE {"ok", "failed"} : Reply(status)
    /\ UNCHANGED <<callerVars, inbox, sweeps, durVars, txVars, flagVars>>

-----------------------------------------------------------------------------
(* The commit pipeline, shared by calls, lifecycle commands and sweeps. *)

Cleanup == cmd # Sweep /\ kind[cmd] = "disconnect"

\* latchDurabilityFatal, nextCommitTxID.
PreCommit ==
    /\ pc = "precommit"
    /\ fatal' = (fatal \/ durErr)
    /\ \/ /\ (durErr /\ ~Cleanup) \/ committedTxID = MaxTxID
          /\ Reply("failed")
       \/ /\ Cleanup \/ ~durErr
          /\ committedTxID < MaxTxID
          /\ failing' = (Cleanup /\ fatal')
          /\ pc' = "commit" /\ UNCHANGED <<resp, cmd>>
    /\ UNCHANGED <<callerVars, inbox, sweeps, durVars, txVars, flagVars>>

\* commitTransaction: a constraint or the changeset validation may fail it.
commitTransaction ==
    /\ pc = "commit"
    /\ \/ Reply("failed") /\ UNCHANGED <<effects, late>>
       \/ /\ effects' = Append(effects, cmd)
          /\ late' = late + IF fatal /\ ~Cleanup THEN 1 ELSE 0
          /\ pc' = "enqueue"
          /\ UNCHANGED <<resp, cmd, failing>>
    /\ UNCHANGED <<callerVars, inbox, sweeps, durVars, logged, fanned,
                   flagVars, fatal>>

\* Mutant: the response of the recover leaves the TxID out.
PostCommitPanicNoTxID ==
    /\ fatal' = TRUE
    /\ Reply("failed")

\* postCommit's recover: latch fatal; the caller learns the TxID.
PostCommitPanic ==
    /\ fatal' = TRUE
    /\ Reply("unknown")

\* Mutant: subscribers are served before the log.
EnqueueAfterEval ==
    /\ pc = "enqueue"
    /\ fanned' = committedTxID
    /\ pc' = "eval"
    /\ UNCHANGED <<callerVars, resp, inbox, cmd, failing, sweeps, durVars,
                   effects, logged, late, flagVars, fatal>>

\* EnqueueCommitted panics once the durability worker has failed.
EnqueueCommitted ==
    /\ pc = "enqueue"
    /\ \/ /\ ~durErr
          /\ logged' = committedTxID
          /\ pc' = "eval"
          /\ UNCHANGED <<resp, cmd, failing, fatal>>
       \/ /\ durErr
          /\ PostCommitPanic
          /\ UNCHANGED logged
    /\ UNCHANGED <<callerVars, inbox, sweeps, durVars, effects, fanned, late,
                   flagVars>>

\* EvalAndBroadcast evaluates the subscriptions and hands the transaction to
\* the fan-out queue; it may panic.
EvalAndBroadcast ==
    /\ pc = "eval"
    /\ \/ /\ fanned' = committedTxID
          /\ pc' = "reply"
          /\ UNCHANGED <<resp, cmd, failing, fatal>>
       \/ PostCommitPanic /\ UNCHANGED fanned
    /\ UNCHANGED <<callerVars, inbox, sweeps, durVars, effects, logged, late,
                   flagVars>>

CommittedResponse ==
    /\ pc = "reply"
    /\ resp' = IF cmd # Sweep /\ ~Cleanup THEN Answered(cmd, "committed") ELSE resp
    /\ pc' = "drop"
    /\ UNCHANGED <<callerVars, inbox, cmd, failing, sweeps, durVars, txVars,
                   flagVars, fatal>>

\* drainDroppedClients; then OnDisconnect, which answers last, and reports a
\* failure that was there before its commit.
drainDroppedClients ==
    /\ pc = "drop"
    /\ \E panics \in BOOLEAN :
         /\ fatal' = (fatal \/ panics)
         /\ resp' = IF ~Cleanup THEN resp
                    ELSE Answered(cmd, IF panics \/ failing THEN "unknown"
                                                            ELSE "committed")
         /\ Over(~fatal')
    /\ UNCHANGED <<callerVars, inbox, sweeps, durVars, txVars, flagVars>>

-----------------------------------------------------------------------------
(* Shutdown, and the drain that its winner runs. *)

\* Runtime.Close waits for Start, so Shutdown is called when Startup is over.
Booting ==
    cmd = Sweep /\ pc \notin {"off", "loop", "poll", "check", "returned"}

ShutdownFlag ==
    /\ closer = "none" /\ ~Booting
    /\ closer' = IF shutdown THEN "claim" ELSE "flagged"
    /\ shutdown' = TRUE
    /\ UNCHANGED <<callerVars, resp, inbox, runVars, durVars, txVars,
                   externalReady, shutdownCh, drainOwner, done, fatal>>

ShutdownSignal ==
    /\ closer = "flagged"
    /\ shutdownCh' = TRUE
    /\ closer' = "claim"
    /\ UNCHANGED <<callerVars, resp, inbox, runVars, durVars, txVars,
                   externalReady, shutdown, drainOwner, done, fatal>>

\* Mutant: Shutdown leaves the drain to Run, which may not be running.
ShutdownClaimNever ==
    /\ closer = "claim"
    /\ closer' = "wait"
    /\ UNCHANGED <<callerVars, resp, inbox, runVars, durVars, txVars,
                   externalReady, shutdown, shutdownCh, drainOwner, done, fatal>>

ShutdownClaim ==
    /\ closer = "claim"
    /\ IF drainOwner = "none"
         THEN drainOwner' = "shutdown" /\ closer' = "poll"
         ELSE closer' = "wait" /\ UNCHANGED drainOwner
    /\ UNCHANGED <<callerVars, resp, inbox, runVars, durVars, txVars,
                   externalReady, shutdown, shutdownCh, done, fatal>>

ShutdownReturn ==
    /\ closer = "wait" /\ done
    /\ closer' = "returned"
    /\ UNCHANGED <<callerVars, resp, inbox, runVars, durVars, txVars,
                   externalReady, shutdown, shutdownCh, drainOwner, done, fatal>>

\* The drain is at step, of Run or of Shutdown; Drain(to) moves it.
Draining(step) ==
    \/ drainOwner = "run" /\ pc = step
    \/ drainOwner = "shutdown" /\ closer = step
Drain(to) ==
    IF drainOwner = "run"
      THEN pc' = to /\ UNCHANGED closer
      ELSE closer' = (IF to = "returned" THEN "wait" ELSE to) /\ UNCHANGED pc

rejectPending ==
    /\ Draining("poll") /\ inbox # <<>>
    /\ resp' = Answered(Head(inbox), "failed")
    /\ inbox' = Tail(inbox)
    /\ UNCHANGED <<callerVars, runVars, durVars, txVars, flagVars, fatal>>

rejectPendingEmpty ==
    /\ Draining("poll") /\ inbox = <<>>
    /\ Drain("check")
    /\ UNCHANGED <<callerVars, resp, inbox, cmd, failing, sweeps, durVars,
                   txVars, externalReady, shutdown, shutdownCh, drainOwner,
                   done, fatal>>

\* The loop ends when no submitter is counted; then done is closed.
rejectPendingCheck ==
    /\ Draining("check")
    /\ IF inflightSubmits = {}
         THEN Drain("returned") /\ done' = TRUE
         ELSE Drain("poll") /\ UNCHANGED done
    /\ UNCHANGED <<callerVars, resp, inbox, cmd, failing, sweeps, durVars,
                   txVars, externalReady, shutdown, shutdownCh, drainOwner,
                   fatal>>

-----------------------------------------------------------------------------
(* The durability worker, as the executor sees it (module DurabilityWorker). *)

DurableAdvance ==
    /\ ~durErr /\ durable < logged
    /\ durable' = logged
    /\ UNCHANGED <<callerVars, resp, inbox, runVars, durErr, txVars, flagVars,
                   fatal>>

DurabilityFails ==
    /\ ~durErr
    /\ durErr' = TRUE
    /\ UNCHANGED <<callerVars, resp, inbox, runVars, durable, txVars, flagVars,
                   fatal>>

-----------------------------------------------------------------------------
SubmitStep(c) ==
    \/ validateSubmitAdmission(c) \/ beginSubmit(c) \/ SubmitSend(c)
    \/ SubmitShutdown(c) \/ SubmitCancelled(c)
    \/ SubmitBusy(c) \/ finishSubmit(c)

ExecutorStep ==
    \/ SweepNext \/ StartupDone \/ RunStart \/ RunReceive \/ RunShutdown
    \/ RunCheckShutdown \/ dispatch
    \/ handleCallReducer \/ handleOnDisconnect \/ handleSubscriptions
    \/ handleCreateSnapshot \/ SnapshotWait \/ SnapshotCapture
    \/ PreCommit \/ commitTransaction \/ EnqueueCommitted \/ EvalAndBroadcast
    \/ CommittedResponse \/ drainDroppedClients

DrainStep == rejectPending \/ rejectPendingEmpty \/ rejectPendingCheck

ShutdownStep ==
    ShutdownFlag \/ ShutdownSignal \/ ShutdownClaim \/ ShutdownReturn

Next ==
    \/ \E c \in Cmds : SubmitStep(c)
    \/ ExecutorStep \/ RunCancelled \/ DrainStep \/ ShutdownStep
    \/ DurableAdvance \/ DurabilityFails

SafetySpec == Init /\ [][Next]_vars

(* Goroutines that can run are scheduled: the executor, a submitter that is *)
(* inside submit, a Shutdown that has begun.  The durability worker answers *)
(* (DurabilityWorker!EnqueuedWaitEnds).  Nobody has to submit, to call      *)
(* Shutdown, or to cancel anything.                                         *)
Fairness ==
    /\ WF_vars(ExecutorStep) /\ WF_vars(DrainStep)
    /\ \A c \in Cmds :
         /\ WF_vars(beginSubmit(c) \/ finishSubmit(c))
         /\ WF_vars(SubmitShutdown(c) \/ SubmitSend(c))
    /\ WF_vars(ShutdownSignal \/ ShutdownClaim \/ ShutdownReturn)
    /\ WF_vars(DurableAdvance)

Spec == SafetySpec /\ Fairness

-----------------------------------------------------------------------------
Statuses == {"committed", "unknown", "failed", "ok"}

\* Type correctness of the executor's fields and of the goroutines' positions.
TypeOK ==
    /\ kind \in [Cmds -> Kinds]
    /\ sub \in [Cmds -> {"idle", "counted", "select", "sent",
                         "leaving", "accepted", "refused"}]
    /\ resp \in [Cmds -> Statuses \cup {"none"}]
    /\ inbox \in Seq(Cmds) /\ Len(inbox) <= InboxCapacity
    /\ pc \in {"boot", "off", "loop", "got", "dispatch", "handle", "wait",
              "capture", "precommit", "commit", "enqueue", "eval", "reply",
              "drop", "poll", "check", "returned"}
    /\ cmd \in Cmds \cup {Sweep}
    /\ sweeps \in 0 .. MaxSweeps
    /\ effects \in Seq(Cmds \cup {Sweep}) /\ Len(effects) <= MaxTxID
    /\ logged \in 0 .. MaxTxID /\ fanned \in 0 .. MaxTxID
    /\ durable \in 0 .. MaxTxID /\ late \in Nat
    /\ failing \in BOOLEAN /\ durErr \in BOOLEAN /\ fatal \in BOOLEAN
    /\ externalReady \in BOOLEAN /\ shutdown \in BOOLEAN
    /\ shutdownCh \in BOOLEAN /\ done \in BOOLEAN
    /\ drainOwner \in {"none", "run", "shutdown"}
    /\ closer \in {"none", "flagged", "claim", "poll", "check", "wait", "returned"}

\* Nobody outside learns of a transaction before the log has it: what was
\* given to subscribers, or answered with StatusCommitted, was handed to
\* EnqueueCommitted before, together with everything that precedes it.
CommittedIsLogged ==
    /\ fanned <= logged
    /\ \A c \in Cmds : resp[c] = "committed" =>
         \E i \in 1 .. logged : effects[i] = c

\* The log never gets a hole: while the worker accepts transactions it is
\* offered exactly the next one, and a transaction that is visible but not
\* logged is being enqueued or has latched the fatal state.
LogHasNoHole ==
    /\ pc = "enqueue" /\ ~durErr => committedTxID = logged + 1
    /\ committedTxID > logged => pc = "enqueue" \/ fatal

\* The fatal state stops ordinary writes: at most the one command that had
\* passed the last durability check when another goroutine latched the
\* failure still commits, whatever was queued or being submitted.
FatalStopsWrites == late <= 1

\* The log is never behind what anyone was told, never has a hole, and the fatal
\* state, which stands for a log that stopped, stops the writes.
LogIsSound == CommittedIsLogged /\ LogHasNoHole /\ FatalStopsWrites

\* Every command behaves as ReducerService promises.
Service == INSTANCE ReducerService
             WITH accepted <- {c \in Cmds : sub[c] \in {"sent", "accepted"}}
IsReducerService == Service!Spec

\* When Run or Shutdown has closed done, nothing is committed, logged,
\* broadcast or answered any more: Runtime.Close may close the log.
ShutdownIsFinal ==
    [][done => UNCHANGED <<effects, logged, fanned, resp>>]_vars

\* Shutdown returns: the drain ends although submitters come and go, also
\* when Run was never started.
ShutdownReturns == closer # "none" ~> closer = "returned"

\* A command that was accepted before the shutdown began is answered.
QueuedAnswered ==
    \A c \in Cmds : (sub[c] = "accepted" /\ ~shutdown) ~> resp[c] # "none"

\* Every accepted command is answered, also one that its caller was
\* submitting when the shutdown began.
AcceptedAnswered ==
    \A c \in Cmds : sub[c] = "accepted" ~> resp[c] # "none"
=============================================================================
