----------------------- MODULE ExecutorPipelineProofs -----------------------
(***************************************************************************)
(* The commit pipeline preserves the invariant: dispatch, the handlers, the *)
(* commit, what follows it, and the answer.                                *)
(***************************************************************************)
EXTENDS ExecutorInvariant

LEMMA DispatchStep == ASSUME IInv, dispatch PROVE IInv'
<1>1. TypeOK'
  <2>1. resp' \in [Cmds -> Statuses \cup {"none"}]
    BY AnswerOnce, CmdUnanswered, SweepAssumption
    DEF IInv, TypeOK, Statuses, WorkInv, AtRest, BeforeCommit, dispatch,
        isFatalCleanupCommand, Reply, Over, callerVars, runVars, durVars,
        txVars, flagVars
  <2>2. failing' \in BOOLEAN /\ fatal' \in BOOLEAN
    BY Zenon DEF IInv, TypeOK, dispatch, isFatalCleanupCommand, Reply, Over,
           callerVars, runVars, durVars, txVars, flagVars
  <2>. QED
    BY <2>1, <2>2, SweepAssumption, MaxTxIDAssumption, MaxSweepsAssumption, SMTT(30)
    DEF IInv, TypeOK, dispatch, isFatalCleanupCommand, Reply, Over,
        callerVars, runVars, durVars, txVars, flagVars
<1>2. InboxInv'
  <2>1. \A c \in Cmds : c # cmd => resp'[c] = resp[c]
    BY OthersKeep, Zenon
    DEF IInv, dispatch, Reply
  <2>2. cmd' \in {cmd, Sweep}
    BY DEF dispatch, Reply, Over
  <2>. QED
    BY <2>1, <2>2, InboxKeeps, TookFrame
    DEF dispatch, callerVars, txVars
<1>3. AnswerInv'
  BY AnswerKeeps, AnswerFrame, AtWork, CmdUnanswered, Zenon
  DEF IInv, BeforeCommit, Statuses, dispatch, Reply, callerVars, txVars
<1>4. WorkInv'
  BY SweepAssumption, MaxTxIDAssumption
  DEF IInv, WorkInv, Sent, Took, BeforeCommit, AfterCommit, AtRest, TypeOK,
      Statuses, InboxInv, AnswerInv, dispatch, isFatalCleanupCommand, Reply,
      Answered, Over, callerVars, runVars, durVars, txVars, flagVars
<1>5. LogInv'
  BY SweepAssumption, MaxTxIDAssumption
  DEF IInv, LogInv, TypeOK, Statuses, WorkInv, BeforeCommit, AfterCommit,
      AtRest, dispatch, isFatalCleanupCommand, Reply, Answered, Over,
      callerVars, runVars, durVars, txVars, flagVars
<1>6. FatalInv'
  BY SweepAssumption, MaxTxIDAssumption, SMTT(30)
  DEF IInv, FatalInv, Cleanup, isFatalCleanupCommand, TypeOK, Statuses,
      WorkInv, BeforeCommit, AfterCommit, AtRest, LogInv, dispatch, Reply,
      Answered, Over, callerVars, runVars, durVars, txVars, flagVars
<1>7. OwnerInv'
  BY SweepAssumption, MaxTxIDAssumption, SMTT(30)
  DEF IInv, OwnerInv, Booting, AtRest, TypeOK, Statuses, WorkInv,
      BeforeCommit, AfterCommit, dispatch, isFatalCleanupCommand, Reply,
      Answered, Over, callerVars, runVars, durVars, txVars, flagVars
<1>. QED  BY <1>1, <1>2, <1>3, <1>4, <1>5, <1>6, <1>7 DEF IInv

LEMMA HandleCallReducerStep == ASSUME IInv, handleCallReducer PROVE IInv'
<1>1. TypeOK'
  <2>1. resp' \in [Cmds -> Statuses \cup {"none"}]
    BY AnswerOnce, CmdUnanswered, SweepAssumption
    DEF IInv, TypeOK, Statuses, WorkInv, AtRest, BeforeCommit,
        handleCallReducer, Reply, Over, callerVars, runVars, durVars, txVars,
        flagVars
  <2>2. failing' \in BOOLEAN /\ fatal' \in BOOLEAN
    BY Zenon DEF IInv, TypeOK, handleCallReducer, Reply, Over, callerVars, runVars,
           durVars, txVars, flagVars
  <2>. QED
    BY <2>1, <2>2, SweepAssumption, MaxTxIDAssumption, MaxSweepsAssumption, SMTT(30)
    DEF IInv, TypeOK, handleCallReducer, Reply, Over, callerVars, runVars,
        durVars, txVars, flagVars
<1>2. InboxInv'
  <2>1. \A c \in Cmds : c # cmd => resp'[c] = resp[c]
    BY OthersKeep, Zenon
    DEF IInv, handleCallReducer, Reply
  <2>2. cmd' \in {cmd, Sweep}
    BY DEF handleCallReducer, Reply, Over
  <2>. QED
    BY <2>1, <2>2, InboxKeeps, TookFrame
    DEF handleCallReducer, callerVars, txVars
<1>3. AnswerInv'
  BY AnswerKeeps, AnswerFrame, AtWork, CmdUnanswered, Zenon
  DEF IInv, BeforeCommit, Statuses, handleCallReducer, Reply, callerVars,
      txVars
<1>4. WorkInv'
  BY SweepAssumption, MaxTxIDAssumption, SMTT(30)
  DEF IInv, WorkInv, Sent, Took, BeforeCommit, AfterCommit, AtRest, TypeOK,
      Statuses, InboxInv, AnswerInv, handleCallReducer, Reply, Answered,
      Over, callerVars, runVars, durVars, txVars, flagVars
<1>5. LogInv'
  BY SweepAssumption, MaxTxIDAssumption, SMTT(30)
  DEF IInv, LogInv, TypeOK, Statuses, WorkInv, BeforeCommit, AfterCommit,
      AtRest, handleCallReducer, Reply, Answered, Over, callerVars, runVars,
      durVars, txVars, flagVars
<1>6. FatalInv'
  BY SweepAssumption, MaxTxIDAssumption, SMTT(30)
  DEF IInv, FatalInv, Cleanup, isFatalCleanupCommand, TypeOK, Statuses,
      WorkInv, BeforeCommit, AfterCommit, AtRest, LogInv, handleCallReducer,
      Reply, Answered, Over, callerVars, runVars, durVars, txVars, flagVars
<1>7. OwnerInv'
  BY SweepAssumption, MaxTxIDAssumption, SMTT(30)
  DEF IInv, OwnerInv, Booting, AtRest, TypeOK, Statuses, WorkInv,
      BeforeCommit, AfterCommit, handleCallReducer, Reply, Answered, Over,
      callerVars, runVars, durVars, txVars, flagVars
<1>. QED  BY <1>1, <1>2, <1>3, <1>4, <1>5, <1>6, <1>7 DEF IInv

LEMMA HandleOnDisconnectStep == ASSUME IInv, handleOnDisconnect PROVE IInv'
<1>1. TypeOK'
  <2>1. resp' \in [Cmds -> Statuses \cup {"none"}]
    BY AnswerOnce, CmdUnanswered, SweepAssumption
    DEF IInv, TypeOK, Statuses, WorkInv, AtRest, BeforeCommit,
        handleOnDisconnect, Reply, Over, callerVars, runVars, durVars,
        txVars, flagVars
  <2>2. failing' \in BOOLEAN /\ fatal' \in BOOLEAN
    BY Zenon DEF IInv, TypeOK, handleOnDisconnect, Reply, Over, callerVars,
           runVars, durVars, txVars, flagVars
  <2>. QED
    BY <2>1, <2>2, SweepAssumption, MaxTxIDAssumption, MaxSweepsAssumption, SMTT(30)
    DEF IInv, TypeOK, handleOnDisconnect, Reply, Over, callerVars, runVars,
        durVars, txVars, flagVars
<1>2. InboxInv'
  <2>1. \A c \in Cmds : c # cmd => resp'[c] = resp[c]
    BY OthersKeep, Zenon
    DEF IInv, handleOnDisconnect, Reply
  <2>2. cmd' \in {cmd, Sweep}
    BY DEF handleOnDisconnect, Reply, Over
  <2>. QED
    BY <2>1, <2>2, InboxKeeps, TookFrame
    DEF handleOnDisconnect, callerVars, txVars
<1>3. AnswerInv'
  BY AnswerKeeps, AnswerFrame, AtWork, CmdUnanswered, Zenon
  DEF IInv, BeforeCommit, Statuses, handleOnDisconnect, Reply, callerVars,
      txVars
<1>4. WorkInv'
  BY SweepAssumption, MaxTxIDAssumption, SMTT(30)
  DEF IInv, WorkInv, Sent, Took, BeforeCommit, AfterCommit, AtRest, TypeOK,
      Statuses, InboxInv, AnswerInv, handleOnDisconnect, Reply, Answered,
      Over, callerVars, runVars, durVars, txVars, flagVars
<1>5. LogInv'
  BY SweepAssumption, MaxTxIDAssumption, SMTT(30)
  DEF IInv, LogInv, TypeOK, Statuses, WorkInv, BeforeCommit, AfterCommit,
      AtRest, handleOnDisconnect, Reply, Answered, Over, callerVars, runVars,
      durVars, txVars, flagVars
<1>6. FatalInv'
  BY SweepAssumption, MaxTxIDAssumption, SMTT(30)
  DEF IInv, FatalInv, Cleanup, isFatalCleanupCommand, TypeOK, Statuses,
      WorkInv, BeforeCommit, AfterCommit, AtRest, LogInv, handleOnDisconnect,
      Reply, Answered, Over, callerVars, runVars, durVars, txVars, flagVars
<1>7. OwnerInv'
  BY SweepAssumption, MaxTxIDAssumption, SMTT(30)
  DEF IInv, OwnerInv, Booting, AtRest, TypeOK, Statuses, WorkInv,
      BeforeCommit, AfterCommit, handleOnDisconnect, Reply, Answered, Over,
      callerVars, runVars, durVars, txVars, flagVars
<1>. QED  BY <1>1, <1>2, <1>3, <1>4, <1>5, <1>6, <1>7 DEF IInv

LEMMA HandleSubscriptionsStep == ASSUME IInv, handleSubscriptions PROVE IInv'
<1>1. TypeOK'
  <2>1. resp' \in [Cmds -> Statuses \cup {"none"}]
    BY AnswerOnce, CmdUnanswered, SweepAssumption
    DEF IInv, TypeOK, Statuses, WorkInv, AtRest, BeforeCommit,
        handleSubscriptions, Reply, Over, callerVars, runVars, durVars,
        txVars, flagVars
  <2>2. failing' \in BOOLEAN /\ fatal' \in BOOLEAN
    BY Zenon DEF IInv, TypeOK, handleSubscriptions, Reply, Over, callerVars,
           runVars, durVars, txVars, flagVars
  <2>. QED
    BY <2>1, <2>2, SweepAssumption, MaxTxIDAssumption, MaxSweepsAssumption, SMTT(30)
    DEF IInv, TypeOK, handleSubscriptions, Reply, Over, callerVars, runVars,
        durVars, txVars, flagVars
<1>2. InboxInv'
  <2>1. \A c \in Cmds : c # cmd => resp'[c] = resp[c]
    BY OthersKeep
    DEF IInv, handleSubscriptions, Reply
  <2>2. cmd' \in {cmd, Sweep}
    BY DEF handleSubscriptions, Reply, Over
  <2>. QED
    BY <2>1, <2>2, InboxKeeps, TookFrame
    DEF handleSubscriptions, callerVars, txVars
<1>3. AnswerInv'
  BY AnswerKeeps, AnswerFrame, AtWork, CmdUnanswered, SMTT(30)
  DEF IInv, BeforeCommit, Statuses, handleSubscriptions, Reply, callerVars,
      txVars
<1>4. WorkInv'
  BY SweepAssumption, MaxTxIDAssumption, SMTT(30)
  DEF IInv, WorkInv, Sent, Took, BeforeCommit, AfterCommit, AtRest, TypeOK,
      Statuses, InboxInv, AnswerInv, handleSubscriptions, Reply, Answered,
      Over, callerVars, runVars, durVars, txVars, flagVars
<1>5. LogInv'
  BY SweepAssumption, MaxTxIDAssumption, SMTT(30)
  DEF IInv, LogInv, TypeOK, Statuses, WorkInv, BeforeCommit, AfterCommit,
      AtRest, handleSubscriptions, Reply, Answered, Over, callerVars,
      runVars, durVars, txVars, flagVars
<1>6. FatalInv'
  BY SweepAssumption, MaxTxIDAssumption, SMTT(30)
  DEF IInv, FatalInv, Cleanup, isFatalCleanupCommand, TypeOK, Statuses,
      WorkInv, BeforeCommit, AfterCommit, AtRest, LogInv,
      handleSubscriptions, Reply, Answered, Over, callerVars, runVars,
      durVars, txVars, flagVars
<1>7. OwnerInv'
  BY SweepAssumption, MaxTxIDAssumption
  DEF IInv, OwnerInv, Booting, AtRest, TypeOK, Statuses, WorkInv,
      BeforeCommit, AfterCommit, handleSubscriptions, Reply, Answered, Over,
      callerVars, runVars, durVars, txVars, flagVars
<1>. QED  BY <1>1, <1>2, <1>3, <1>4, <1>5, <1>6, <1>7 DEF IInv

LEMMA HandleCreateSnapshotStep == ASSUME IInv, handleCreateSnapshot PROVE IInv'
<1>1. TypeOK'
  BY SweepAssumption, MaxTxIDAssumption, MaxSweepsAssumption, SMTT(30)
  DEF IInv, TypeOK, Statuses, handleCreateSnapshot, committedTxID,
      callerVars, runVars, durVars, txVars, flagVars
<1>2. WorkInv'
  BY SweepAssumption, MaxTxIDAssumption, SMTT(30)
  DEF IInv, WorkInv, Sent, Took, BeforeCommit, AfterCommit, AtRest, TypeOK,
      InboxInv, AnswerInv, handleCreateSnapshot, committedTxID, callerVars,
      runVars, durVars, txVars, flagVars
<1>3. LogInv'
  BY SweepAssumption, MaxTxIDAssumption, SMTT(30)
  DEF IInv, LogInv, TypeOK, WorkInv, BeforeCommit, AfterCommit, AtRest,
      handleCreateSnapshot, committedTxID, callerVars, runVars, durVars,
      txVars, flagVars
<1>4. FatalInv'
  BY SweepAssumption, MaxTxIDAssumption, SMTT(30)
  DEF IInv, FatalInv, Cleanup, isFatalCleanupCommand, TypeOK, WorkInv,
      AtRest, BeforeCommit, LogInv, handleCreateSnapshot, committedTxID,
      callerVars, runVars, durVars, txVars, flagVars
<1>5. OwnerInv'
  BY SweepAssumption, MaxTxIDAssumption
  DEF IInv, OwnerInv, Booting, AtRest, TypeOK, WorkInv, BeforeCommit,
      AfterCommit, handleCreateSnapshot, committedTxID, callerVars, runVars,
      durVars, txVars, flagVars
<1>6. InboxInv' /\ AnswerInv'
  BY InboxFrame, AnswerFrame, SMTT(30)
  DEF IInv, handleCreateSnapshot, callerVars, txVars
<1>. QED  BY <1>1, <1>2, <1>3, <1>4, <1>5, <1>6 DEF IInv

LEMMA SnapshotWaitStep == ASSUME IInv, SnapshotWait PROVE IInv'
<1>1. TypeOK'
  <2>1. resp' \in [Cmds -> Statuses \cup {"none"}]
    BY AnswerOnce, CmdUnanswered, SweepAssumption
    DEF IInv, TypeOK, Statuses, WorkInv, AtRest, BeforeCommit, SnapshotWait,
        committedTxID, Reply, Over, callerVars, runVars, durVars, txVars,
        flagVars
  <2>2. failing' \in BOOLEAN /\ fatal' \in BOOLEAN
    BY Zenon DEF IInv, TypeOK, SnapshotWait, committedTxID, Reply, Over,
           callerVars, runVars, durVars, txVars, flagVars
  <2>. QED
    BY <2>1, <2>2, SweepAssumption, MaxTxIDAssumption, MaxSweepsAssumption, SMTT(30)
    DEF IInv, TypeOK, SnapshotWait, committedTxID, Reply, Over, callerVars,
        runVars, durVars, txVars, flagVars
<1>2. InboxInv'
  <2>1. \A c \in Cmds : c # cmd => resp'[c] = resp[c]
    BY OthersKeep, Zenon
    DEF IInv, SnapshotWait, Reply
  <2>2. cmd' \in {cmd, Sweep}
    BY DEF SnapshotWait, Reply, Over
  <2>. QED
    BY <2>1, <2>2, InboxKeeps, TookFrame
    DEF SnapshotWait, callerVars, txVars
<1>3. AnswerInv'
  BY AnswerKeeps, AnswerFrame, AtWork, CmdUnanswered, Zenon
  DEF IInv, BeforeCommit, Statuses, SnapshotWait, Reply, callerVars, txVars
<1>4. WorkInv'
  BY SweepAssumption, MaxTxIDAssumption, SMTT(30)
  DEF IInv, WorkInv, Sent, Took, BeforeCommit, AfterCommit, AtRest, TypeOK,
      Statuses, InboxInv, AnswerInv, SnapshotWait, committedTxID, Reply,
      Answered, Over, callerVars, runVars, durVars, txVars, flagVars
<1>5. LogInv'
  BY SweepAssumption, MaxTxIDAssumption, SMTT(30)
  DEF IInv, LogInv, TypeOK, Statuses, WorkInv, BeforeCommit, AfterCommit,
      AtRest, SnapshotWait, committedTxID, Reply, Answered, Over, callerVars,
      runVars, durVars, txVars, flagVars
<1>6. FatalInv'
  BY SweepAssumption, MaxTxIDAssumption, SMTT(30)
  DEF IInv, FatalInv, Cleanup, isFatalCleanupCommand, TypeOK, Statuses,
      WorkInv, BeforeCommit, AfterCommit, AtRest, LogInv, SnapshotWait,
      committedTxID, Reply, Answered, Over, callerVars, runVars, durVars,
      txVars, flagVars
<1>7. OwnerInv'
  BY SweepAssumption, MaxTxIDAssumption, SMTT(30)
  DEF IInv, OwnerInv, Booting, AtRest, TypeOK, Statuses, WorkInv,
      BeforeCommit, AfterCommit, SnapshotWait, committedTxID, Reply,
      Answered, Over, callerVars, runVars, durVars, txVars, flagVars
<1>. QED  BY <1>1, <1>2, <1>3, <1>4, <1>5, <1>6, <1>7 DEF IInv

LEMMA SnapshotCaptureStep == ASSUME IInv, SnapshotCapture PROVE IInv'
<1>1. TypeOK'
  <2>1. resp' \in [Cmds -> Statuses \cup {"none"}]
    BY AnswerOnce, CmdUnanswered, SweepAssumption
    DEF IInv, TypeOK, Statuses, WorkInv, AtRest, BeforeCommit,
        SnapshotCapture, Reply, Over, callerVars, runVars, durVars, txVars,
        flagVars
  <2>2. failing' \in BOOLEAN /\ fatal' \in BOOLEAN
    BY Zenon DEF IInv, TypeOK, SnapshotCapture, Reply, Over, callerVars, runVars,
           durVars, txVars, flagVars
  <2>. QED
    BY <2>1, <2>2, SweepAssumption, MaxTxIDAssumption, MaxSweepsAssumption, SMTT(30)
    DEF IInv, TypeOK, SnapshotCapture, Reply, Over, callerVars, runVars,
        durVars, txVars, flagVars
<1>2. InboxInv'
  <2>1. \A c \in Cmds : c # cmd => resp'[c] = resp[c]
    BY OthersKeep
    DEF IInv, SnapshotCapture, Reply
  <2>2. cmd' \in {cmd, Sweep}
    BY SMTT(30) DEF SnapshotCapture, Reply, Over
  <2>. QED
    BY <2>1, <2>2, InboxKeeps, TookFrame
    DEF SnapshotCapture, callerVars, txVars
<1>3. AnswerInv'
  BY AnswerKeeps, AnswerFrame, AtWork, CmdUnanswered, SMTT(30)
  DEF IInv, BeforeCommit, Statuses, SnapshotCapture, Reply, callerVars,
      txVars
<1>4. WorkInv'
  BY SweepAssumption, MaxTxIDAssumption, SMTT(30)
  DEF IInv, WorkInv, Sent, Took, BeforeCommit, AfterCommit, AtRest, TypeOK,
      Statuses, InboxInv, AnswerInv, SnapshotCapture, Reply, Answered, Over,
      callerVars, runVars, durVars, txVars, flagVars
<1>5. LogInv'
  BY SweepAssumption, MaxTxIDAssumption, SMTT(30)
  DEF IInv, LogInv, TypeOK, Statuses, WorkInv, BeforeCommit, AfterCommit,
      AtRest, SnapshotCapture, Reply, Answered, Over, callerVars, runVars,
      durVars, txVars, flagVars
<1>6. FatalInv'
  BY SweepAssumption, MaxTxIDAssumption, SMTT(30)
  DEF IInv, FatalInv, Cleanup, isFatalCleanupCommand, TypeOK, Statuses,
      WorkInv, BeforeCommit, AfterCommit, AtRest, LogInv, SnapshotCapture,
      Reply, Answered, Over, callerVars, runVars, durVars, txVars, flagVars
<1>7. OwnerInv'
  BY SweepAssumption, MaxTxIDAssumption, SMTT(30)
  DEF IInv, OwnerInv, Booting, AtRest, TypeOK, Statuses, WorkInv,
      BeforeCommit, AfterCommit, SnapshotCapture, Reply, Answered, Over,
      callerVars, runVars, durVars, txVars, flagVars
<1>. QED  BY <1>1, <1>2, <1>3, <1>4, <1>5, <1>6, <1>7 DEF IInv

LEMMA PreCommitStep == ASSUME IInv, PreCommit PROVE IInv'
<1>1. TypeOK'
  <2>1. resp' \in [Cmds -> Statuses \cup {"none"}]
    BY AnswerOnce, CmdUnanswered, SweepAssumption
    DEF IInv, TypeOK, Statuses, WorkInv, AtRest, BeforeCommit, PreCommit,
        committedTxID, Cleanup, Reply, Over, callerVars, runVars, durVars,
        txVars, flagVars
  <2>2. failing' \in BOOLEAN /\ fatal' \in BOOLEAN
    BY Zenon DEF IInv, TypeOK, PreCommit, committedTxID, Cleanup, Reply, Over,
           callerVars, runVars, durVars, txVars, flagVars
  <2>. QED
    BY <2>1, <2>2, SweepAssumption, MaxTxIDAssumption, MaxSweepsAssumption, SMTT(30)
    DEF IInv, TypeOK, PreCommit, committedTxID, Cleanup, Reply, Over,
        callerVars, runVars, durVars, txVars, flagVars
<1>2. InboxInv'
  <2>1. \A c \in Cmds : c # cmd => resp'[c] = resp[c]
    BY OthersKeep, Zenon
    DEF IInv, PreCommit, Reply
  <2>2. cmd' \in {cmd, Sweep}
    BY DEF PreCommit, Reply, Over
  <2>. QED
    BY <2>1, <2>2, InboxKeeps, TookFrame
    DEF PreCommit, callerVars, txVars
<1>3. AnswerInv'
  BY AnswerKeeps, AnswerFrame, AtWork, CmdUnanswered, Zenon
  DEF IInv, BeforeCommit, Statuses, PreCommit, Cleanup, Reply, callerVars,
      txVars
<1>4. WorkInv'
  BY SweepAssumption, MaxTxIDAssumption, SMTT(30)
  DEF IInv, WorkInv, Sent, Took, BeforeCommit, AfterCommit, AtRest, TypeOK,
      Statuses, InboxInv, AnswerInv, PreCommit, committedTxID, Cleanup,
      Reply, Answered, Over, callerVars, runVars, durVars, txVars, flagVars
<1>5. LogInv'
  BY SweepAssumption, MaxTxIDAssumption, SMTT(30)
  DEF IInv, LogInv, TypeOK, Statuses, WorkInv, BeforeCommit, AfterCommit,
      AtRest, PreCommit, committedTxID, Cleanup, Reply, Answered, Over,
      callerVars, runVars, durVars, txVars, flagVars
<1>6. FatalInv'
  BY SweepAssumption, MaxTxIDAssumption, SMTT(30)
  DEF IInv, FatalInv, Cleanup, isFatalCleanupCommand, TypeOK, Statuses,
      WorkInv, BeforeCommit, AfterCommit, AtRest, LogInv, PreCommit,
      committedTxID, Reply, Answered, Over, callerVars, runVars, durVars,
      txVars, flagVars
<1>7. OwnerInv'
  BY SweepAssumption, MaxTxIDAssumption, SMTT(30)
  DEF IInv, OwnerInv, Booting, AtRest, TypeOK, Statuses, WorkInv,
      BeforeCommit, AfterCommit, PreCommit, committedTxID, Cleanup, Reply,
      Answered, Over, callerVars, runVars, durVars, txVars, flagVars
<1>. QED  BY <1>1, <1>2, <1>3, <1>4, <1>5, <1>6, <1>7 DEF IInv

LEMMA CommitTransactionStep == ASSUME IInv, commitTransaction PROVE IInv'
<1>1. TypeOK'
  <2>1. resp' \in [Cmds -> Statuses \cup {"none"}]
    BY AnswerOnce, CmdUnanswered, SweepAssumption
    DEF IInv, TypeOK, Statuses, WorkInv, AtRest, BeforeCommit,
        commitTransaction, Cleanup, Reply, Over, callerVars, runVars,
        durVars, txVars, flagVars
  <2>2. failing' \in BOOLEAN /\ fatal' \in BOOLEAN
    BY Zenon DEF IInv, TypeOK, commitTransaction, Cleanup, Reply, Over, callerVars,
           runVars, durVars, txVars, flagVars
  <2>3. effects' \in Seq(Cmds \cup {Sweep}) /\ Len(effects') <= MaxTxID
    BY TookAppend, MaxTxIDAssumption
    DEF IInv, TypeOK, LogInv, commitTransaction
  <2>4. late' \in Nat
    BY DEF IInv, TypeOK, commitTransaction
  <2>. QED
    BY <2>1, <2>2, <2>3, <2>4, SweepAssumption, SMTT(30)
    DEF IInv, TypeOK, commitTransaction, Cleanup, Reply, Over, callerVars,
        runVars, durVars, txVars, flagVars
<1>2. InboxInv'
  <2>1. CASE Reply("failed") /\ UNCHANGED effects
    BY <2>1, SweepAssumption, MaxTxIDAssumption, SMTT(30)
    DEF IInv, InboxInv, Sent, Took, TypeOK, Statuses, WorkInv, BeforeCommit,
        AfterCommit, AtRest, AnswerInv, commitTransaction, Reply, Answered,
        Over, callerVars, runVars, durVars, txVars, flagVars
  <2>2. ASSUME effects' = Append(effects, cmd)
        PROVE  \A c : (\E i \in 1 .. Len(effects') : effects'[i] = c) => Took(c) \/ c = cmd
    BY <2>2, TookAppend, SMTT(30)
    DEF IInv, TypeOK, Took
  <2>3. CASE effects' = Append(effects, cmd) /\ UNCHANGED <<resp, cmd>>
    BY <2>2, <2>3
    DEF IInv, InboxInv, Sent, Took, commitTransaction, callerVars
  <2>. QED
    BY <2>1, <2>3, SMTT(30)
    DEF commitTransaction
<1>3. AnswerInv'
  <2>1. CASE Reply("failed") /\ UNCHANGED effects
    BY <2>1, SweepAssumption, MaxTxIDAssumption, SMTT(30)
    DEF IInv, AnswerInv, Sent, Took, TypeOK, Statuses, WorkInv, BeforeCommit,
        AfterCommit, AtRest, InboxInv, LogInv, commitTransaction, Reply,
        Answered, Over, callerVars, runVars, durVars, txVars, flagVars
  <2>2. CASE effects' = Append(effects, cmd) /\ UNCHANGED <<resp, cmd>>
    BY <2>2, SweepAssumption, MaxTxIDAssumption, TookAppend, SMTT(30)
    DEF IInv, AnswerInv, Sent, TypeOK, Statuses, WorkInv, BeforeCommit,
        AfterCommit, AtRest, InboxInv, LogInv, commitTransaction, Cleanup,
        callerVars, runVars, durVars, txVars, flagVars
  <2>. QED
    BY <2>1, <2>2, SMTT(30)
    DEF commitTransaction
<1>4. WorkInv'
  BY SweepAssumption, MaxTxIDAssumption, TookAppend, SMTT(30)
  DEF IInv, WorkInv, Sent, Took, BeforeCommit, AfterCommit, AtRest, TypeOK,
      Statuses, InboxInv, AnswerInv, commitTransaction, Cleanup, Reply,
      Answered, Over, callerVars, runVars, durVars, txVars, flagVars
<1>5. LogInv'
  BY SweepAssumption, MaxTxIDAssumption, SMTT(30)
  DEF IInv, LogInv, TypeOK, Statuses, WorkInv, BeforeCommit, AfterCommit,
      AtRest, commitTransaction, Cleanup, Reply, Answered, Over, callerVars,
      runVars, durVars, txVars, flagVars
<1>6. FatalInv'
  BY SweepAssumption, MaxTxIDAssumption, SMTT(30)
  DEF IInv, FatalInv, Cleanup, isFatalCleanupCommand, TypeOK, Statuses,
      WorkInv, BeforeCommit, AfterCommit, AtRest, LogInv, commitTransaction,
      Reply, Answered, Over, callerVars, runVars, durVars, txVars, flagVars
<1>7. OwnerInv'
  BY SweepAssumption, MaxTxIDAssumption, SMTT(30)
  DEF IInv, OwnerInv, Booting, AtRest, TypeOK, Statuses, WorkInv,
      BeforeCommit, AfterCommit, commitTransaction, Cleanup, Reply, Answered,
      Over, callerVars, runVars, durVars, txVars, flagVars
<1>. QED  BY <1>1, <1>2, <1>3, <1>4, <1>5, <1>6, <1>7 DEF IInv

LEMMA EnqueueCommittedStep == ASSUME IInv, EnqueueCommitted PROVE IInv'
<1>1. TypeOK'
  <2>1. resp' \in [Cmds -> Statuses \cup {"none"}]
    BY AnswerOnce, CmdUnanswered, SweepAssumption
    DEF IInv, TypeOK, Statuses, WorkInv, AtRest, BeforeCommit,
        EnqueueCommitted, committedTxID, PostCommitPanic, Reply, Over,
        callerVars, runVars, durVars, txVars, flagVars
  <2>2. failing' \in BOOLEAN /\ fatal' \in BOOLEAN
    BY Zenon DEF IInv, TypeOK, EnqueueCommitted, committedTxID, PostCommitPanic,
           Reply, Over, callerVars, runVars, durVars, txVars, flagVars
  <2>. QED
    BY <2>1, <2>2, SweepAssumption, MaxTxIDAssumption, MaxSweepsAssumption, SMTT(30)
    DEF IInv, TypeOK, EnqueueCommitted, committedTxID, PostCommitPanic,
        Reply, Over, callerVars, runVars, durVars, txVars, flagVars
<1>2. InboxInv'
  <2>1. \A c \in Cmds : c # cmd => resp'[c] = resp[c]
    BY OthersKeep, Zenon
    DEF IInv, EnqueueCommitted, PostCommitPanic, Reply
  <2>2. cmd' \in {cmd, Sweep}
    BY SMTT(30) DEF EnqueueCommitted, PostCommitPanic, Reply, Over
  <2>. QED
    BY <2>1, <2>2, InboxKeeps, TookFrame
    DEF EnqueueCommitted, callerVars
<1>3. AnswerInv'
  BY SweepAssumption, MaxTxIDAssumption, SMTT(30)
  DEF IInv, AnswerInv, Sent, Took, TypeOK, Statuses, WorkInv, BeforeCommit,
      AfterCommit, AtRest, InboxInv, LogInv, EnqueueCommitted, committedTxID,
      PostCommitPanic, Reply, Answered, Over, callerVars, runVars, durVars,
      txVars, flagVars
<1>4. WorkInv'
  BY SweepAssumption, MaxTxIDAssumption, SMTT(30)
  DEF IInv, WorkInv, Sent, Took, BeforeCommit, AfterCommit, AtRest, TypeOK,
      Statuses, InboxInv, AnswerInv, EnqueueCommitted, committedTxID,
      PostCommitPanic, Reply, Answered, Over, callerVars, runVars, durVars,
      txVars, flagVars
<1>5. LogInv'
  BY SweepAssumption, MaxTxIDAssumption, SMTT(30)
  DEF IInv, LogInv, TypeOK, Statuses, WorkInv, BeforeCommit, AfterCommit,
      AtRest, EnqueueCommitted, committedTxID, PostCommitPanic, Reply,
      Answered, Over, callerVars, runVars, durVars, txVars, flagVars
<1>6. FatalInv'
  BY SweepAssumption, MaxTxIDAssumption, SMTT(30)
  DEF IInv, FatalInv, Cleanup, isFatalCleanupCommand, TypeOK, Statuses,
      WorkInv, BeforeCommit, AfterCommit, AtRest, LogInv, EnqueueCommitted,
      committedTxID, PostCommitPanic, Reply, Answered, Over, callerVars,
      runVars, durVars, txVars, flagVars
<1>7. OwnerInv'
  BY SweepAssumption, MaxTxIDAssumption, SMTT(30)
  DEF IInv, OwnerInv, Booting, AtRest, TypeOK, Statuses, WorkInv,
      BeforeCommit, AfterCommit, EnqueueCommitted, committedTxID,
      PostCommitPanic, Reply, Answered, Over, callerVars, runVars, durVars,
      txVars, flagVars
<1>. QED  BY <1>1, <1>2, <1>3, <1>4, <1>5, <1>6, <1>7 DEF IInv

LEMMA EvalAndBroadcastStep == ASSUME IInv, EvalAndBroadcast PROVE IInv'
<1>1. TypeOK'
  <2>1. resp' \in [Cmds -> Statuses \cup {"none"}]
    BY AnswerOnce, CmdUnanswered, SweepAssumption
    DEF IInv, TypeOK, Statuses, WorkInv, AtRest, BeforeCommit,
        EvalAndBroadcast, committedTxID, PostCommitPanic, Reply, Over,
        callerVars, runVars, durVars, txVars, flagVars
  <2>2. failing' \in BOOLEAN /\ fatal' \in BOOLEAN
    BY Zenon DEF IInv, TypeOK, EvalAndBroadcast, committedTxID, PostCommitPanic,
           Reply, Over, callerVars, runVars, durVars, txVars, flagVars
  <2>. QED
    BY <2>1, <2>2, SweepAssumption, MaxTxIDAssumption, MaxSweepsAssumption, SMTT(30)
    DEF IInv, TypeOK, EvalAndBroadcast, committedTxID, PostCommitPanic,
        Reply, Over, callerVars, runVars, durVars, txVars, flagVars
<1>2. InboxInv'
  <2>1. \A c \in Cmds : c # cmd => resp'[c] = resp[c]
    BY OthersKeep, Zenon
    DEF IInv, EvalAndBroadcast, PostCommitPanic, Reply
  <2>2. cmd' \in {cmd, Sweep}
    BY DEF EvalAndBroadcast, PostCommitPanic, Reply, Over
  <2>. QED
    BY <2>1, <2>2, InboxKeeps, TookFrame
    DEF EvalAndBroadcast, callerVars
<1>3. AnswerInv'
  BY AnswerKeeps, AnswerFrame, AtWork, CmdUnanswered, Zenon
  DEF IInv, AfterCommit, Statuses, EvalAndBroadcast, PostCommitPanic, Reply,
      callerVars
<1>4. WorkInv'
  BY SweepAssumption, MaxTxIDAssumption, SMTT(30)
  DEF IInv, WorkInv, Sent, Took, BeforeCommit, AfterCommit, AtRest, TypeOK,
      Statuses, InboxInv, AnswerInv, EvalAndBroadcast, committedTxID,
      PostCommitPanic, Reply, Answered, Over, callerVars, runVars, durVars,
      txVars, flagVars
<1>5. LogInv'
  BY SweepAssumption, MaxTxIDAssumption, SMTT(30)
  DEF IInv, LogInv, TypeOK, Statuses, WorkInv, BeforeCommit, AfterCommit,
      AtRest, EvalAndBroadcast, committedTxID, PostCommitPanic, Reply,
      Answered, Over, callerVars, runVars, durVars, txVars, flagVars
<1>6. FatalInv'
  BY SweepAssumption, MaxTxIDAssumption, SMTT(30)
  DEF IInv, FatalInv, Cleanup, isFatalCleanupCommand, TypeOK, Statuses,
      WorkInv, BeforeCommit, AfterCommit, AtRest, LogInv, EvalAndBroadcast,
      committedTxID, PostCommitPanic, Reply, Answered, Over, callerVars,
      runVars, durVars, txVars, flagVars
<1>7. OwnerInv'
  BY SweepAssumption, MaxTxIDAssumption, SMTT(30)
  DEF IInv, OwnerInv, Booting, AtRest, TypeOK, Statuses, WorkInv,
      BeforeCommit, AfterCommit, EvalAndBroadcast, committedTxID,
      PostCommitPanic, Reply, Answered, Over, callerVars, runVars, durVars,
      txVars, flagVars
<1>. QED  BY <1>1, <1>2, <1>3, <1>4, <1>5, <1>6, <1>7 DEF IInv

LEMMA CommittedResponseStep == ASSUME IInv, CommittedResponse PROVE IInv'
<1>1. TypeOK'
  <2>1. resp' \in [Cmds -> Statuses \cup {"none"}]
    BY AnswerOnce, CmdUnanswered, SweepAssumption, SMTT(30)
    DEF IInv, TypeOK, Statuses, WorkInv, AtRest, BeforeCommit,
        CommittedResponse, Cleanup, callerVars, runVars, durVars, txVars,
        flagVars
  <2>2. failing' \in BOOLEAN /\ fatal' \in BOOLEAN
    BY DEF IInv, TypeOK, CommittedResponse, Cleanup, callerVars, runVars,
           durVars, txVars, flagVars
  <2>. QED
    BY <2>1, <2>2, SweepAssumption, MaxTxIDAssumption, MaxSweepsAssumption, SMTT(30)
    DEF IInv, TypeOK, CommittedResponse, Cleanup, callerVars, runVars,
        durVars, txVars, flagVars
<1>2. InboxInv'
  <2>1. \A c \in Cmds : c # cmd => resp'[c] = resp[c]
    BY OthersKeep
    DEF IInv, CommittedResponse
  <2>2. cmd' \in {cmd, Sweep}
    BY SMTT(30) DEF CommittedResponse
  <2>. QED
    BY <2>1, <2>2, InboxKeeps, TookFrame
    DEF CommittedResponse, callerVars, txVars
<1>3. AnswerInv'
  BY AnswerKeeps, AnswerFrame, AtWork, CmdUnanswered, LoggedAtWork, SMTT(30)
  DEF IInv, AfterCommit, Statuses, CommittedResponse, Cleanup, callerVars,
      txVars
<1>4. WorkInv'
  BY SweepAssumption, MaxTxIDAssumption, SMTT(30)
  DEF IInv, WorkInv, Sent, Took, BeforeCommit, AfterCommit, AtRest, TypeOK,
      Statuses, InboxInv, AnswerInv, CommittedResponse, Cleanup, Answered,
      callerVars, runVars, durVars, txVars, flagVars
<1>5. LogInv'
  BY SweepAssumption, MaxTxIDAssumption, SMTT(30)
  DEF IInv, LogInv, TypeOK, Statuses, WorkInv, BeforeCommit, AfterCommit,
      AtRest, CommittedResponse, Cleanup, Answered, callerVars, runVars,
      durVars, txVars, flagVars
<1>6. FatalInv'
  BY SweepAssumption, MaxTxIDAssumption, SMTT(30)
  DEF IInv, FatalInv, Cleanup, isFatalCleanupCommand, TypeOK, Statuses,
      WorkInv, BeforeCommit, AfterCommit, AtRest, LogInv, CommittedResponse,
      Answered, callerVars, runVars, durVars, txVars, flagVars
<1>7. OwnerInv'
  BY SweepAssumption, MaxTxIDAssumption, SMTT(30)
  DEF IInv, OwnerInv, Booting, AtRest, TypeOK, Statuses, WorkInv,
      BeforeCommit, AfterCommit, CommittedResponse, Cleanup, Answered,
      callerVars, runVars, durVars, txVars, flagVars
<1>. QED  BY <1>1, <1>2, <1>3, <1>4, <1>5, <1>6, <1>7 DEF IInv

LEMMA DrainDroppedClientsStep == ASSUME IInv, drainDroppedClients PROVE IInv'
<1>1. TypeOK'
  <2>1. resp' \in [Cmds -> Statuses \cup {"none"}]
    BY AnswerOnce, CmdUnanswered, SweepAssumption
    DEF IInv, TypeOK, Statuses, WorkInv, AtRest, BeforeCommit,
        drainDroppedClients, Cleanup, Over, callerVars, runVars, durVars,
        txVars, flagVars
  <2>2. failing' \in BOOLEAN /\ fatal' \in BOOLEAN
    BY Zenon DEF IInv, TypeOK, drainDroppedClients, Cleanup, Over, callerVars,
           runVars, durVars, txVars, flagVars
  <2>. QED
    BY <2>1, <2>2, SweepAssumption, MaxTxIDAssumption, MaxSweepsAssumption, SMTT(30)
    DEF IInv, TypeOK, drainDroppedClients, Cleanup, Over, callerVars,
        runVars, durVars, txVars, flagVars
<1>2. InboxInv'
  <2>1. \A c \in Cmds : c # cmd => resp'[c] = resp[c]
    BY OthersKeep
    DEF IInv, drainDroppedClients
  <2>2. cmd' \in {cmd, Sweep}
    BY SMTT(30) DEF drainDroppedClients, Over
  <2>. QED
    BY <2>1, <2>2, InboxKeeps, TookFrame
    DEF drainDroppedClients, callerVars, txVars
<1>3. AnswerInv'
  BY AnswerKeeps, AnswerFrame, AtWork, CmdUnanswered, LoggedAtWork, SMTT(30)
  DEF IInv, WorkInv, AfterCommit, Statuses, drainDroppedClients, Cleanup,
      callerVars, txVars
<1>4. WorkInv'
  BY SweepAssumption, MaxTxIDAssumption, SMTT(30)
  DEF IInv, WorkInv, Sent, Took, BeforeCommit, AfterCommit, AtRest, TypeOK,
      Statuses, InboxInv, AnswerInv, drainDroppedClients, Cleanup, Answered,
      Over, callerVars, runVars, durVars, txVars, flagVars
<1>5. LogInv'
  BY SweepAssumption, MaxTxIDAssumption, SMTT(30)
  DEF IInv, LogInv, TypeOK, Statuses, WorkInv, BeforeCommit, AfterCommit,
      AtRest, drainDroppedClients, Cleanup, Answered, Over, callerVars,
      runVars, durVars, txVars, flagVars
<1>6. FatalInv'
  BY SweepAssumption, MaxTxIDAssumption, SMTT(30)
  DEF IInv, FatalInv, Cleanup, isFatalCleanupCommand, TypeOK, Statuses,
      WorkInv, BeforeCommit, AfterCommit, AtRest, LogInv,
      drainDroppedClients, Answered, Over, callerVars, runVars, durVars,
      txVars, flagVars
<1>7. OwnerInv'
  BY SweepAssumption, MaxTxIDAssumption
  DEF IInv, OwnerInv, Booting, AtRest, TypeOK, Statuses, WorkInv,
      BeforeCommit, AfterCommit, drainDroppedClients, Cleanup, Answered,
      Over, callerVars, runVars, durVars, txVars, flagVars
<1>. QED  BY <1>1, <1>2, <1>3, <1>4, <1>5, <1>6, <1>7 DEF IInv

=============================================================================
