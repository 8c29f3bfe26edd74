--------------------------- MODULE ExecutorProofs ---------------------------
(***************************************************************************)
(* Shutdown, the drain and the durability worker preserve the invariant; what *)
(* the invariant shows; the executor implements ReducerService.            *)
(***************************************************************************)
EXTENDS ExecutorPipelineProofs

LEMMA ShutdownFlagStep == ASSUME IInv, ShutdownFlag PROVE IInv'
<1>1. TypeOK'
  BY SweepAssumption, MaxTxIDAssumption, MaxSweepsAssumption, SMTT(30)
  DEF IInv, TypeOK, Statuses, ShutdownFlag, Booting, callerVars, runVars,
      durVars, txVars, flagVars
<1>2. OwnerInv'
  BY SweepAssumption, MaxTxIDAssumption
  DEF IInv, OwnerInv, Booting, AtRest, TypeOK, WorkInv, BeforeCommit,
      AfterCommit, ShutdownFlag, callerVars, runVars, durVars, txVars,
      flagVars
<1>3. InboxInv' /\ AnswerInv' /\ WorkInv' /\ LogInv' /\ FatalInv'
  BY InboxFrame, AnswerFrame, WorkFrame, LogFrame, FatalFrame
  DEF IInv, ShutdownFlag, callerVars, runVars, durVars, txVars
<1>. QED  BY <1>1, <1>2, <1>3 DEF IInv

LEMMA ShutdownSignalStep == ASSUME IInv, ShutdownSignal PROVE IInv'
<1>1. TypeOK'
  BY SweepAssumption, MaxTxIDAssumption, MaxSweepsAssumption, SMTT(30)
  DEF IInv, TypeOK, Statuses, ShutdownSignal, callerVars, runVars, durVars,
      txVars, flagVars
<1>2. OwnerInv'
  BY SweepAssumption, MaxTxIDAssumption
  DEF IInv, OwnerInv, Booting, AtRest, TypeOK, WorkInv, BeforeCommit,
      AfterCommit, ShutdownSignal, callerVars, runVars, durVars, txVars,
      flagVars
<1>3. InboxInv' /\ AnswerInv' /\ WorkInv' /\ LogInv' /\ FatalInv'
  BY InboxFrame, AnswerFrame, WorkFrame, LogFrame, FatalFrame
  DEF IInv, ShutdownSignal, callerVars, runVars, durVars, txVars
<1>. QED  BY <1>1, <1>2, <1>3 DEF IInv

LEMMA ShutdownClaimStep == ASSUME IInv, ShutdownClaim PROVE IInv'
<1>1. TypeOK'
  BY SweepAssumption, MaxTxIDAssumption, MaxSweepsAssumption, SMTT(30)
  DEF IInv, TypeOK, Statuses, ShutdownClaim, callerVars, runVars, durVars,
      txVars, flagVars
<1>2. OwnerInv'
  BY SweepAssumption, MaxTxIDAssumption
  DEF IInv, OwnerInv, Booting, AtRest, TypeOK, WorkInv, BeforeCommit,
      AfterCommit, ShutdownClaim, callerVars, runVars, durVars, txVars,
      flagVars
<1>3. InboxInv' /\ AnswerInv' /\ WorkInv' /\ LogInv' /\ FatalInv'
  BY InboxFrame, AnswerFrame, WorkFrame, LogFrame, FatalFrame
  DEF IInv, ShutdownClaim, callerVars, runVars, durVars, txVars
<1>. QED  BY <1>1, <1>2, <1>3 DEF IInv

LEMMA ShutdownReturnStep == ASSUME IInv, ShutdownReturn PROVE IInv'
<1>1. TypeOK'
  BY SweepAssumption, MaxTxIDAssumption, MaxSweepsAssumption, SMTT(30)
  DEF IInv, TypeOK, Statuses, ShutdownReturn, callerVars, runVars, durVars,
      txVars, flagVars
<1>2. OwnerInv'
  BY SweepAssumption, MaxTxIDAssumption
  DEF IInv, OwnerInv, Booting, AtRest, TypeOK, WorkInv, BeforeCommit,
      AfterCommit, ShutdownReturn, callerVars, runVars, durVars, txVars,
      flagVars
<1>3. InboxInv' /\ AnswerInv' /\ WorkInv' /\ LogInv' /\ FatalInv'
  BY InboxFrame, AnswerFrame, WorkFrame, LogFrame, FatalFrame
  DEF IInv, ShutdownReturn, callerVars, runVars, durVars, txVars
<1>. QED  BY <1>1, <1>2, <1>3 DEF IInv

LEMMA RejectPendingStep == ASSUME IInv, rejectPending PROVE IInv'
<1>1. TypeOK'
  <2>1. resp' \in [Cmds -> Statuses \cup {"none"}]
    BY AnswerOnce, InboxHead, SMTT(30)
    DEF IInv, TypeOK, Statuses, InboxInv, rejectPending
  <2>. QED
    BY <2>1, SweepAssumption, MaxTxIDAssumption, MaxSweepsAssumption,
       CapacityAssumption, InboxHead, SMTT(30)
    DEF IInv, TypeOK, rejectPending, Draining, callerVars, runVars, durVars,
        txVars, flagVars
<1>2. InboxInv'
  BY SweepAssumption, MaxTxIDAssumption, CapacityAssumption, InboxHead, SMTT(30)
  DEF IInv, InboxInv, Sent, Took, TypeOK, Statuses, WorkInv, BeforeCommit,
      AfterCommit, AtRest, AnswerInv, rejectPending, Draining, Answered,
      callerVars, runVars, durVars, txVars, flagVars
<1>3. AnswerInv'
  BY SweepAssumption, MaxTxIDAssumption, CapacityAssumption, InboxHead, SMTT(30)
  DEF IInv, AnswerInv, Sent, Took, TypeOK, Statuses, WorkInv, BeforeCommit,
      AfterCommit, AtRest, InboxInv, LogInv, rejectPending, Draining,
      Answered, callerVars, runVars, durVars, txVars, flagVars
<1>4. WorkInv'
  BY SweepAssumption, MaxTxIDAssumption, CapacityAssumption, InboxHead, SMTT(30)
  DEF IInv, WorkInv, Sent, Took, BeforeCommit, AfterCommit, AtRest, TypeOK,
      Statuses, InboxInv, AnswerInv, rejectPending, Draining, Answered,
      callerVars, runVars, durVars, txVars, flagVars
<1>5. LogInv' /\ FatalInv' /\ OwnerInv'
  BY LogFrame, FatalFrame, OwnerFrame
  DEF IInv, rejectPending, callerVars, runVars, durVars, txVars, flagVars
<1>. QED  BY <1>1, <1>2, <1>3, <1>4, <1>5 DEF IInv

LEMMA RejectPendingEmptyStep == ASSUME IInv, rejectPendingEmpty PROVE IInv'
<1>1. TypeOK'
  BY SweepAssumption, MaxTxIDAssumption, MaxSweepsAssumption, SMTT(30)
  DEF IInv, TypeOK, Statuses, rejectPendingEmpty, Draining, Drain,
      callerVars, runVars, durVars, txVars, flagVars
<1>2. WorkInv'
  BY SweepAssumption, MaxTxIDAssumption, SMTT(30)
  DEF IInv, WorkInv, Sent, Took, BeforeCommit, AfterCommit, AtRest, TypeOK,
      InboxInv, AnswerInv, rejectPendingEmpty, Draining, Drain, callerVars,
      runVars, durVars, txVars, flagVars
<1>3. LogInv'
  BY SweepAssumption, MaxTxIDAssumption, SMTT(30)
  DEF IInv, LogInv, TypeOK, WorkInv, BeforeCommit, AfterCommit, AtRest,
      rejectPendingEmpty, Draining, Drain, callerVars, runVars, durVars,
      txVars, flagVars
<1>4. FatalInv'
  BY SweepAssumption, MaxTxIDAssumption, SMTT(30)
  DEF IInv, FatalInv, Cleanup, isFatalCleanupCommand, TypeOK, WorkInv,
      AtRest, BeforeCommit, LogInv, rejectPendingEmpty, Draining, Drain,
      callerVars, runVars, durVars, txVars, flagVars
<1>5. OwnerInv'
  BY SweepAssumption, MaxTxIDAssumption, SMTT(30)
  DEF IInv, OwnerInv, Booting, AtRest, TypeOK, WorkInv, BeforeCommit,
      AfterCommit, rejectPendingEmpty, Draining, Drain, callerVars, runVars,
      durVars, txVars, flagVars
<1>6. InboxInv' /\ AnswerInv'
  BY InboxFrame, AnswerFrame, SMTT(30)
  DEF IInv, rejectPendingEmpty, callerVars, txVars
<1>. QED  BY <1>1, <1>2, <1>3, <1>4, <1>5, <1>6 DEF IInv

LEMMA RejectPendingCheckStep == ASSUME IInv, rejectPendingCheck PROVE IInv'
<1>1. TypeOK'
  <2>1. done' \in BOOLEAN
    BY Zenon DEF IInv, TypeOK, rejectPendingCheck, callerVars, runVars, durVars,
           txVars, flagVars
  <2>2. pc' \in {"poll", "returned", pc} /\ closer' \in {"poll", "wait", closer}
    BY SMTT(30) DEF IInv, TypeOK, rejectPendingCheck, Drain, callerVars, runVars,
           durVars, txVars, flagVars
  <2>. QED
    BY <2>1, <2>2, SweepAssumption, MaxTxIDAssumption, MaxSweepsAssumption, SMTT(30)
    DEF IInv, TypeOK, Statuses, rejectPendingCheck, callerVars, runVars,
        durVars, txVars, flagVars
<1>2. WorkInv'
  BY SweepAssumption, MaxTxIDAssumption, SMTT(30)
  DEF IInv, WorkInv, Sent, Took, BeforeCommit, AfterCommit, AtRest, TypeOK,
      InboxInv, AnswerInv, rejectPendingCheck, Draining, Drain, callerVars,
      runVars, durVars, txVars, flagVars
<1>3. LogInv'
  BY SweepAssumption, MaxTxIDAssumption, SMTT(30)
  DEF IInv, LogInv, TypeOK, WorkInv, BeforeCommit, AfterCommit, AtRest,
      rejectPendingCheck, Draining, Drain, callerVars, runVars, durVars,
      txVars, flagVars
<1>4. FatalInv'
  BY SweepAssumption, MaxTxIDAssumption, SMTT(30)
  DEF IInv, FatalInv, Cleanup, isFatalCleanupCommand, TypeOK, WorkInv,
      AtRest, BeforeCommit, LogInv, rejectPendingCheck, Draining, Drain,
      callerVars, runVars, durVars, txVars, flagVars
<1>5. OwnerInv'
  BY SweepAssumption, MaxTxIDAssumption
  DEF IInv, OwnerInv, Booting, AtRest, TypeOK, WorkInv, BeforeCommit,
      AfterCommit, rejectPendingCheck, Draining, Drain, callerVars, runVars,
      durVars, txVars, flagVars
<1>6. InboxInv' /\ AnswerInv'
  BY InboxFrame, AnswerFrame
  DEF IInv, rejectPendingCheck, callerVars, txVars
<1>. QED  BY <1>1, <1>2, <1>3, <1>4, <1>5, <1>6 DEF IInv

LEMMA DurableAdvanceStep == ASSUME IInv, DurableAdvance PROVE IInv'
<1>1. TypeOK'
  BY SweepAssumption, MaxTxIDAssumption, MaxSweepsAssumption, SMTT(30)
  DEF IInv, TypeOK, Statuses, DurableAdvance, callerVars, runVars, durVars,
      txVars, flagVars
<1>2. InboxInv' /\ AnswerInv' /\ WorkInv' /\ LogInv' /\ FatalInv' /\ OwnerInv'
  BY InboxFrame, AnswerFrame, WorkFrame, LogFrame, FatalFrame, OwnerFrame
  DEF IInv, DurableAdvance, callerVars, runVars, txVars, flagVars
<1>. QED  BY <1>1, <1>2 DEF IInv

LEMMA DurabilityFailsStep == ASSUME IInv, DurabilityFails PROVE IInv'
<1>1. TypeOK'
  BY SweepAssumption, MaxTxIDAssumption, MaxSweepsAssumption, SMTT(30)
  DEF IInv, TypeOK, Statuses, DurabilityFails, callerVars, runVars, durVars,
      txVars, flagVars
<1>2. LogInv'
  BY SweepAssumption, MaxTxIDAssumption, SMTT(30)
  DEF IInv, LogInv, TypeOK, WorkInv, BeforeCommit, AfterCommit, AtRest,
      DurabilityFails, callerVars, runVars, durVars, txVars, flagVars
<1>3. FatalInv'
  BY SweepAssumption, MaxTxIDAssumption, SMTT(30)
  DEF IInv, FatalInv, Cleanup, isFatalCleanupCommand, TypeOK, WorkInv,
      AtRest, BeforeCommit, LogInv, DurabilityFails, callerVars, runVars,
      durVars, txVars, flagVars
<1>4. InboxInv' /\ AnswerInv' /\ WorkInv' /\ OwnerInv'
  BY InboxFrame, AnswerFrame, WorkFrame, OwnerFrame
  DEF IInv, DurabilityFails, callerVars, runVars, txVars, flagVars
<1>. QED  BY <1>1, <1>2, <1>3, <1>4, SMTT(30) DEF IInv

-----------------------------------------------------------------------------
(* The inductive invariant. *)

LEMMA InitInv == Init => IInv
<1>. SUFFICES ASSUME Init PROVE IInv
  OBVIOUS
<1>1. TypeOK
  <2>1. /\ sub \in [Cmds -> {"idle", "counted", "select", "sent",
                           "leaving", "accepted", "refused"}]
        /\ resp \in [Cmds -> Statuses \cup {"none"}]
    BY DEF Init
  <2>2. inbox \in Seq(Cmds) /\ effects \in Seq(Cmds \cup {Sweep})
    BY DEF Init
  <2>3. /\ Len(inbox) <= InboxCapacity /\ Len(effects) <= MaxTxID
        /\ {logged, fanned, durable} \subseteq 0 .. MaxTxID /\ late \in Nat
    BY CapacityAssumption, MaxTxIDAssumption DEF Init
  <2>. QED  BY <2>1, <2>2, <2>3, Zenon DEF Init, TypeOK
<1>2. InboxInv /\ AnswerInv
  BY DEF Init, InboxInv, AnswerInv, Sent, Took
<1>3. WorkInv /\ LogInv /\ FatalInv /\ OwnerInv
  BY MaxTxIDAssumption
  DEF Init, WorkInv, LogInv, FatalInv, OwnerInv, AtRest, BeforeCommit,
      AfterCommit, Booting
<1>. QED  BY <1>1, <1>2, <1>3 DEF IInv

LEMMA StutterInv == IInv /\ UNCHANGED vars => IInv'
<1>. SUFFICES ASSUME IInv, UNCHANGED vars PROVE IInv'
  OBVIOUS
<1>1. TypeOK'
  BY DEF IInv, TypeOK, vars, callerVars, runVars, durVars, txVars, flagVars
<1>. QED
  BY <1>1, InboxFrame, AnswerFrame, WorkFrame, LogFrame, FatalFrame, OwnerFrame
  DEF IInv, vars, callerVars, runVars, durVars, txVars, flagVars

LEMMA NextInv == IInv /\ [Next]_vars => IInv'
<1>. SUFFICES ASSUME IInv, [Next]_vars PROVE IInv'
  OBVIOUS
<1>1. ASSUME NEW c \in Cmds, SubmitStep(c) PROVE IInv'
  BY <1>1, ValidateSubmitAdmissionStep, BeginSubmitStep, SubmitSendStep,
     SubmitShutdownStep, SubmitCancelledStep, SubmitBusyStep,
     FinishSubmitStep
  DEF SubmitStep
<1>2. ASSUME ExecutorStep PROVE IInv'
  BY <1>2, SweepNextStep, StartupDoneStep, RunStartStep, RunReceiveStep,
     RunShutdownStep, RunCheckShutdownStep, DispatchStep,
     HandleCallReducerStep, HandleOnDisconnectStep, HandleSubscriptionsStep,
     HandleCreateSnapshotStep, SnapshotWaitStep, SnapshotCaptureStep,
     PreCommitStep, CommitTransactionStep, EnqueueCommittedStep,
     EvalAndBroadcastStep, CommittedResponseStep, DrainDroppedClientsStep, SMTT(30)
  DEF ExecutorStep
<1>3. ASSUME DrainStep \/ ShutdownStep PROVE IInv'
  BY <1>3, RejectPendingStep, RejectPendingEmptyStep, RejectPendingCheckStep,
     ShutdownFlagStep, ShutdownSignalStep, ShutdownClaimStep,
     ShutdownReturnStep
  DEF DrainStep, ShutdownStep
<1>. QED
  BY <1>1, <1>2, <1>3, RunCancelledStep, DurableAdvanceStep,
     DurabilityFailsStep, StutterInv
  DEF Next

\* The inductive invariant holds in every execution.
THEOREM Invariant == SafetySpec => []IInv
  BY InitInv, NextInv, PTL DEF SafetySpec

-----------------------------------------------------------------------------
(* What the invariant shows. *)

\* The fields and goroutine positions of the executor keep their types; in
\* particular no response channel is sent to twice ("twice" is no status).
THEOREM TypeCorrect == SafetySpec => []TypeOK
<1>1. IInv => TypeOK
  BY DEF IInv
<1>. QED  BY <1>1, Invariant, PTL

\* postCommit hands a transaction to the log before subscribers or its caller
\* hear of it.
THEOREM LoggedBeforeVisible == SafetySpec => []CommittedIsLogged
<1>1. IInv => CommittedIsLogged
  BY DEF IInv, AnswerInv, LogInv, CommittedIsLogged
<1>. QED  BY <1>1, Invariant, PTL

\* EnqueueCommitted is offered consecutive IDs, and a transaction the log
\* missed has latched the fatal state.
THEOREM NoHole == SafetySpec => []LogHasNoHole
<1>1. ASSUME IInv PROVE LogHasNoHole
  <2>1. logged \in Int /\ Len(effects) \in Int
    BY <1>1 DEF IInv, TypeOK
  <2>2. pc = "enqueue" /\ ~durErr => Len(effects) = logged + 1
    BY <1>1, <2>1 DEF IInv, LogInv
  <2>3. Len(effects) > logged => pc = "enqueue" \/ fatal
    BY <1>1, <2>1 DEF IInv, LogInv
  <2>. QED  BY <2>2, <2>3 DEF LogHasNoHole, committedTxID
<1>. QED  BY <1>1, Invariant, PTL

\* At most one ordinary transaction commits under the fatal latch.
THEOREM FatalIsTerminal == SafetySpec => []FatalStopsWrites
<1>1. IInv => FatalStopsWrites
  BY DEF IInv, FatalInv, FatalStopsWrites
<1>. QED  BY <1>1, Invariant, PTL

\* The commit pipeline keeps the log ahead of everyone, without holes, to the end.
THEOREM LogSound == SafetySpec => []LogIsSound
  BY LoggedBeforeVisible, NoHole, FatalIsTerminal, PTL DEF LogIsSound

LEMMA DoneIsQuiet ==
  ASSUME IInv, done, [Next]_vars
  PROVE  UNCHANGED <<effects, logged, fanned, resp>>
<1>1. pc \in {"off", "returned"}
  BY DEF IInv, TypeOK, OwnerInv
<1>2. ~Draining("poll")
  BY <1>1, SMTT(30) DEF IInv, TypeOK, OwnerInv, Draining
<1>3. ASSUME NEW c \in Cmds, SubmitStep(c)
      PROVE  UNCHANGED <<effects, logged, fanned, resp>>
  BY <1>3 DEF SubmitStep, validateSubmitAdmission, beginSubmit, SubmitSend,
             SubmitShutdown, SubmitCancelled, SubmitBusy, finishSubmit,
             txVars
<1>4. ASSUME ExecutorStep
      PROVE  UNCHANGED <<effects, logged, fanned, resp>>
  BY <1>1, <1>4, Zenon DEF ExecutorStep, SweepNext, StartupDone, RunStart,
                  RunReceive, RunShutdown, RunCheckShutdown, dispatch,
                  handleCallReducer, handleOnDisconnect, handleSubscriptions,
                  handleCreateSnapshot, SnapshotWait, SnapshotCapture,
                  PreCommit, commitTransaction, EnqueueCommitted,
                  EvalAndBroadcast, CommittedResponse, drainDroppedClients,
                  txVars
<1>. QED
  BY <1>1, <1>2, <1>3, <1>4, Zenon
  DEF Next, RunCancelled, DrainStep, rejectPending, rejectPendingEmpty,
      rejectPendingCheck, ShutdownStep, ShutdownFlag, ShutdownSignal,
      ShutdownClaim, ShutdownReturn, DurableAdvance, DurabilityFails,
      vars, txVars

\* After Run or Shutdown closed done the executor touches nothing.
THEOREM DoneIsFinal == SafetySpec => ShutdownIsFinal
<1>1. IInv /\ [Next]_vars =>
        [done => UNCHANGED <<effects, logged, fanned, resp>>]_vars
  BY DoneIsQuiet
<1>. QED  BY <1>1, Invariant, PTL DEF SafetySpec, ShutdownIsFinal

-----------------------------------------------------------------------------
(* Refinement: the executor implements ReducerService. *)

LEMMA TookIs == ASSUME TypeOK, NEW c PROVE Service!TookEffect(c) <=> Took(c)
  BY DEF TypeOK, Took, Service!TookEffect

LEMMA StutterMaps ==
  ASSUME UNCHANGED <<sub, effects, resp>>
  PROVE  UNCHANGED Service!vars
  BY DEF Service!vars

LEMMA AnswerMaps ==
  ASSUME TypeOK, NEW c \in Cmds, Sent(c), resp[c] = "none",
         NEW status \in Statuses,
         Took(c) <=> status \in {"committed", "unknown"},
         resp' = Answered(c, status), UNCHANGED <<sub, effects>>
  PROVE  Service!Next
<1>1. resp' = [resp EXCEPT ![c] = status]
  BY AnswerOnce
<1>2. status \in IF Service!TookEffect(c) THEN {"committed", "unknown"}
                                          ELSE {"ok", "failed"}
  BY TookIs DEF Statuses
<1>3. Service!Answer(c)
  BY <1>1, <1>2, Zenon DEF Service!Answer, Sent
<1>. QED  BY <1>3 DEF Service!Next

LEMMA ReplyMaps ==
  ASSUME IInv, NEW status \in Statuses, Reply(status),
         UNCHANGED <<sub, effects>>, pc # "drop" \/ Cleanup,
         \/ pc \in BeforeCommit /\ status \in {"failed", "ok"}
         \/ pc \in AfterCommit /\ status \in {"committed", "unknown"}
  PROVE  [Service!Next]_(Service!vars)
<1>1. CASE cmd = Sweep
  BY <1>1, StutterMaps DEF Reply
<1>2. CASE cmd # Sweep
  BY <1>2, AtWork, CmdUnanswered, AnswerMaps DEF IInv, Reply, Statuses
<1>. QED  BY <1>1, <1>2

\* The receive loop refuses the command it holds.
LEMMA RefuseMaps ==
  ASSUME IInv, pc = "got", resp' = Answered(cmd, "failed"),
         UNCHANGED <<sub, effects>>
  PROVE  Service!Next
<1>1. cmd # Sweep /\ pc \in BeforeCommit /\ TypeOK
  BY DEF IInv, WorkInv, BeforeCommit
<1>2. cmd \in Cmds /\ Sent(cmd) /\ ~Took(cmd) /\ resp[cmd] = "none"
  BY <1>1, AtWork, CmdUnanswered
<1>. QED  BY <1>1, <1>2, AnswerMaps DEF Statuses

LEMMA NextMaps ==
  ASSUME IInv, Next PROVE [Service!Next]_(Service!vars)
<1>1. ASSUME NEW c \in Cmds, SubmitSend(c)
      PROVE  Service!Next
  BY <1>1, SweepAssumption, SMTT(30)
  DEF IInv, TypeOK, SubmitSend, Move, txVars, Service!Next, Service!Accept
<1>2. ASSUME NEW c \in Cmds,
             SubmitStep(c) /\ ~SubmitSend(c)
      PROVE  UNCHANGED Service!vars
  BY <1>2, SMTT(30)
  DEF IInv, TypeOK, SubmitStep, validateSubmitAdmission, beginSubmit,
      SubmitShutdown, SubmitCancelled, SubmitBusy, finishSubmit, Move,
      txVars, Service!vars
<1>3. ASSUME SweepNext \/ StartupDone \/ RunStart
             \/ RunReceive \/ RunShutdown \/ handleCreateSnapshot
             \/ rejectPendingEmpty \/ rejectPendingCheck \/ ShutdownStep
             \/ DurableAdvance \/ DurabilityFails
      PROVE  UNCHANGED Service!vars
  BY <1>3, StutterMaps, SMTT(30)
  DEF SweepNext, StartupDone, RunStart, RunReceive, RunShutdown,
      handleCreateSnapshot, rejectPendingEmpty, rejectPendingCheck,
      ShutdownStep, DurableAdvance, DurabilityFails, ShutdownFlag,
      ShutdownSignal, ShutdownClaim, ShutdownReturn, callerVars, txVars
<1>4. CASE RunCancelled
  BY <1>4, RefuseMaps, StutterMaps DEF RunCancelled, callerVars, txVars
<1>5. CASE RunCheckShutdown
  BY <1>5, RefuseMaps, StutterMaps DEF RunCheckShutdown, callerVars, txVars
<1>6. CASE dispatch
  BY <1>6, ReplyMaps, StutterMaps
  DEF BeforeCommit, Statuses, dispatch, callerVars, txVars
<1>7. CASE handleCallReducer
  BY <1>7, ReplyMaps, StutterMaps
  DEF BeforeCommit, Statuses, handleCallReducer, callerVars, txVars
<1>8. CASE handleOnDisconnect
  BY <1>8, ReplyMaps, StutterMaps
  DEF BeforeCommit, Statuses, handleOnDisconnect, callerVars, txVars
<1>9. CASE handleSubscriptions
  BY <1>9, ReplyMaps, StutterMaps
  DEF BeforeCommit, Statuses, handleSubscriptions, callerVars, txVars
<1>10. CASE SnapshotWait
  BY <1>10, ReplyMaps, StutterMaps
  DEF BeforeCommit, Statuses, SnapshotWait, callerVars, txVars
<1>11. CASE SnapshotCapture
  BY <1>11, ReplyMaps, StutterMaps
  DEF BeforeCommit, Statuses, SnapshotCapture, callerVars, txVars
<1>12. CASE PreCommit
  BY <1>12, ReplyMaps, StutterMaps
  DEF BeforeCommit, Statuses, PreCommit, callerVars, txVars
<1>13. CASE commitTransaction
  <2>1. CASE Reply("failed") /\ UNCHANGED effects
    BY <1>13, <2>1, ReplyMaps
    DEF BeforeCommit, Statuses, commitTransaction, callerVars
  <2>2. CASE effects' = Append(effects, cmd) /\ UNCHANGED resp
    <3>1. CASE cmd = Sweep
      BY <1>13, <2>2, <3>1, SMTT(30)
      DEF commitTransaction, callerVars, Service!Next, Service!ExecuteSweep
    <3>2. CASE cmd # Sweep
      <4>1. cmd \in Cmds /\ Sent(cmd) /\ resp[cmd] = "none" /\ ~Took(cmd)
        BY <1>13, <3>2, AtWork, CmdUnanswered DEF commitTransaction, BeforeCommit
      <4>2. ~Service!TookEffect(cmd)
        BY <4>1, TookIs DEF IInv
      <4>. QED
        BY <1>13, <2>2, <4>1, <4>2
        DEF Sent, commitTransaction, callerVars, Service!Next, Service!Execute
    <3>. QED  BY <3>1, <3>2
  <2>. QED  BY <1>13, <2>1, <2>2 DEF commitTransaction
<1>14. CASE EnqueueCommitted
  BY <1>14, ReplyMaps, StutterMaps
  DEF AfterCommit, Statuses, EnqueueCommitted, PostCommitPanic, callerVars,
      txVars
<1>15. CASE EvalAndBroadcast
  BY <1>15, ReplyMaps, StutterMaps, SMTT(30)
  DEF AfterCommit, Statuses, EvalAndBroadcast, PostCommitPanic, callerVars,
      txVars
<1>16. CASE CommittedResponse
  BY <1>16, AtWork, CmdUnanswered, AnswerMaps, StutterMaps, SMTT(30)
  DEF IInv, AfterCommit, Statuses, CommittedResponse, callerVars, txVars
<1>17. CASE drainDroppedClients
  BY <1>17, AtWork, CmdUnanswered, AnswerMaps, StutterMaps, SMTT(30)
  DEF IInv, AfterCommit, Statuses, Cleanup, drainDroppedClients, callerVars,
      txVars
<1>18. CASE rejectPending
  BY <1>18, InboxHead, AnswerMaps, SMTT(30)
  DEF IInv, TypeOK, InboxInv, Statuses, rejectPending, callerVars, txVars
<1>. QED
  BY <1>1, <1>2, <1>3, <1>4, <1>5, <1>6, <1>7, <1>8, <1>9, <1>10, <1>11,
     <1>12, <1>13, <1>14, <1>15, <1>16, <1>17, <1>18, SMTT(30)
  DEF Next, SubmitStep, ExecutorStep, DrainStep

\* Every command takes effect at most once, between its acceptance and its
\* only answer, and the answer tells whether it did: the executor implements
\* ReducerService.
THEOREM Refinement == SafetySpec => IsReducerService
<1>1. Init => Service!Init
  BY DEF Init, Service!Init
<1>2. IInv /\ [Next]_vars => [Service!Next]_(Service!vars)
  BY NextMaps, StutterMaps DEF vars, callerVars, txVars
<1>. QED
  BY <1>1, <1>2, Invariant, PTL DEF SafetySpec, IsReducerService, Service!Spec

=============================================================================
