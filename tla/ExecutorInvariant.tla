------------------------- MODULE ExecutorInvariant --------------------------
(***************************************************************************)
(* The inductive invariant of module Executor, for any set of commands, any *)
(* inbox capacity, any number of sweeps and any last transaction ID, and its *)
(* preservation by the submitters, the startup sweeps and the receive loop. *)
(***************************************************************************)
EXTENDS Executor, TLAPS

Sent(c) == sub[c] \in {"sent", "accepted"}
Took(c) == \E i \in 1 .. Len(effects) : effects[i] = c

\* A queued command was sent, once, and nothing has happened to it yet.
InboxInv ==
    /\ \A i \in 1 .. Len(inbox) :
         /\ Sent(inbox[i]) /\ resp[inbox[i]] = "none"
         /\ ~Took(inbox[i]) /\ inbox[i] # cmd
    /\ \A i, j \in 1 .. Len(inbox) : inbox[i] = inbox[j] => i = j

\* A command that is not sent has no answer and no effect; an answer tells
\* whether there is an effect, and "committed" that the log has it.
AnswerInv ==
    \A c \in Cmds :
        /\ ~Sent(c) => resp[c] = "none" /\ ~Took(c)
        /\ resp[c] = "committed" => \E i \in 1 .. logged : effects[i] = c
        /\ resp[c] = "unknown" => Took(c)
        /\ resp[c] \in {"failed", "ok"} => ~Took(c)

BeforeCommit == {"got", "dispatch", "handle", "wait", "capture",
                 "precommit", "commit"}
AfterCommit == {"enqueue", "eval", "reply", "drop"}
AtRest == {"boot", "off", "loop", "poll", "check", "returned"}

\* The command at work is unanswered until its response step; its effect is
\* the last one from the commit on.
WorkInv ==
    /\ pc \in AtRest => cmd = Sweep
    /\ pc \in BeforeCommit \ {"precommit", "commit"} => cmd # Sweep
    /\ cmd # Sweep =>
         /\ Sent(cmd)
         /\ pc \in BeforeCommit => ~Took(cmd)
         /\ pc \in {"precommit", "commit"} => kind[cmd] \in {"call", "disconnect"}
         /\ resp[cmd] = IF pc = "drop" /\ kind[cmd] # "disconnect"
                          THEN "committed" ELSE "none"
    /\ pc \in AfterCommit => effects # <<>> /\ effects[Len(effects)] = cmd

\* A transaction about to commit has an ID left for it.  What is not logged is
\* being enqueued, or the durability failure is latched.
LogInv ==
    /\ fanned <= logged /\ logged <= Len(effects)
    /\ pc = "commit" => Len(effects) < MaxTxID
    /\ pc = "enqueue" => logged < Len(effects)
    /\ pc \in {"eval", "reply", "drop"} => logged = Len(effects)
    /\ logged < Len(effects) =>
         (durErr /\ fatal) \/ (pc = "enqueue" /\ Len(effects) = logged + 1)

\* An ordinary command on its way to the commit runs under a fatal latch only
\* if durability has failed, so that a late commit is the last one.
FatalInv ==
    /\ late <= 1
    /\ late > 0 => durErr /\ fatal
    /\ pc = "commit" /\ ~Cleanup => late = 0
    /\ pc \in {"boot", "handle", "precommit", "commit"}
         /\ (cmd = Sweep \/ ~isFatalCleanupCommand(cmd)) => (fatal => durErr)

\* Who drains, and what the other goroutine may be doing meanwhile.
OwnerInv ==
    /\ drainOwner = "none" =>
         /\ ~done /\ closer \in {"none", "flagged", "claim"}
         /\ cmd = Sweep /\ pc \notin {"loop", "poll", "check"}
    /\ drainOwner = "run" =>
         /\ pc \notin {"boot", "off"} /\ (cmd = Sweep => pc \in AtRest)
         /\ closer \notin {"poll", "check"}
         /\ done <=> pc = "returned"
    /\ drainOwner = "shutdown" =>
         /\ pc \in {"off", "returned"}
         /\ closer \in {"poll", "check", "wait", "returned"}
         /\ done <=> closer \in {"wait", "returned"}
    /\ closer # "none" => ~Booting

IInv == TypeOK /\ InboxInv /\ AnswerInv /\ WorkInv /\ LogInv /\ FatalInv /\ OwnerInv
-----------------------------------------------------------------------------
(* Facts about sequences and answers. *)

LEMMA InboxHead ==
  ASSUME inbox \in Seq(Cmds), inbox # <<>>
  PROVE  /\ Head(inbox) \in Cmds /\ Head(inbox) = inbox[1]
         /\ Tail(inbox) \in Seq(Cmds) /\ Len(Tail(inbox)) = Len(inbox) - 1
         /\ 1 \in 1 .. Len(inbox)
         /\ \A i \in 1 .. Len(Tail(inbox)) : Tail(inbox)[i] = inbox[i + 1]
  OBVIOUS

LEMMA TookAppend ==
  ASSUME effects \in Seq(Cmds \cup {Sweep}), NEW a \in Cmds \cup {Sweep},
         effects' = Append(effects, a)
  PROVE  /\ \A c : Took(c)' <=> Took(c) \/ c = a
         /\ \A i \in 1 .. Len(effects) : effects'[i] = effects[i]
         /\ Len(effects') = Len(effects) + 1
         /\ effects' # <<>> /\ effects'[Len(effects')] = a
         /\ effects' \in Seq(Cmds \cup {Sweep})
<1>1. /\ \A i \in 1 .. Len(effects) : effects'[i] = effects[i]
      /\ Len(effects') = Len(effects) + 1 /\ Len(effects) \in Nat
      /\ effects' # <<>> /\ effects'[Len(effects')] = a
      /\ effects' \in Seq(Cmds \cup {Sweep})
  OBVIOUS
<1>2. ASSUME NEW c PROVE Took(c)' <=> Took(c) \/ c = a
  BY <1>1 DEF Took
<1>. QED  BY <1>1, <1>2

LEMMA AnswerOnce ==
  ASSUME TypeOK, NEW c \in Cmds, resp[c] = "none", NEW status \in Statuses
  PROVE  /\ Answered(c, status) = [resp EXCEPT ![c] = status]
         /\ Answered(c, status) \in [Cmds -> Statuses \cup {"none"}]
  BY DEF TypeOK, Answered, Statuses

LEMMA CmdUnanswered ==
  ASSUME IInv, cmd # Sweep, pc # "drop" \/ Cleanup
  PROVE  cmd \in Cmds /\ resp[cmd] = "none"
  BY DEF IInv, TypeOK, WorkInv, Cleanup

-----------------------------------------------------------------------------
(* What a step leaves alone: each part of the invariant depends on a few      *)
(* variables.                                                                 *)

LEMMA TookFrame == ASSUME UNCHANGED effects PROVE \A c : Took(c)' <=> Took(c)
  BY DEF Took

LEMMA InboxFrame ==
  ASSUME InboxInv, UNCHANGED <<inbox, sub, resp, effects, cmd>> PROVE InboxInv'
  BY DEF InboxInv, Sent, Took

LEMMA AnswerFrame ==
  ASSUME AnswerInv, UNCHANGED <<sub, resp, effects, logged>> PROVE AnswerInv'
  BY DEF AnswerInv, Sent, Took

LEMMA WorkFrame ==
  ASSUME WorkInv, UNCHANGED <<kind, sub, resp, pc, cmd, effects>> PROVE WorkInv'
  BY DEF WorkInv, Sent, Took

LEMMA LogFrame ==
  ASSUME LogInv, UNCHANGED <<pc, effects, logged, fanned, durErr, fatal>>
  PROVE  LogInv'
  BY DEF LogInv

LEMMA FatalFrame ==
  ASSUME FatalInv, UNCHANGED <<kind, pc, cmd, late, durErr, fatal>>
  PROVE  FatalInv'
  BY DEF FatalInv, Cleanup, isFatalCleanupCommand

LEMMA OwnerFrame ==
  ASSUME OwnerInv, UNCHANGED <<pc, cmd, drainOwner, closer, done>>
  PROVE  OwnerInv'
  BY DEF OwnerInv, Booting

\* A caller moves on without sending.
LEMMA SentFrame ==
  ASSUME IInv, \A c \in Cmds : Sent(c)' <=> Sent(c),
         UNCHANGED <<kind, inbox, resp, pc, cmd, effects, logged>>
  PROVE  InboxInv' /\ AnswerInv' /\ WorkInv'
<1>1. inbox \in Seq(Cmds) /\ cmd \in Cmds \cup {Sweep}
  BY DEF IInv, TypeOK
<1>2. \A i \in 1 .. Len(inbox) : inbox[i] \in Cmds
  BY <1>1
<1>3. InboxInv'
  BY <1>2 DEF IInv, InboxInv, Sent, Took
<1>4. AnswerInv'
  BY TookFrame DEF IInv, AnswerInv
<1>5. WorkInv'
  BY <1>1 DEF IInv, WorkInv, Sent, Took
<1>. QED  BY <1>3, <1>4, <1>5

\* Answering the command at work concerns no other command.
LEMMA OthersKeep ==
  ASSUME TypeOK, NEW status, resp' = resp \/ resp' = Answered(cmd, status)
  PROVE  \A c \in Cmds : c # cmd => resp'[c] = resp[c]
  BY DEF TypeOK, Answered

LEMMA InboxKeeps ==
  ASSUME IInv, UNCHANGED <<inbox, sub>>, cmd' \in {cmd, Sweep},
         \A c \in Cmds : c # cmd => resp'[c] = resp[c] /\ (Took(c)' => Took(c))
  PROVE  InboxInv'
<1>1. \A i \in 1 .. Len(inbox) : inbox[i] \in Cmds /\ inbox[i] # cmd
  BY DEF IInv, TypeOK, InboxInv
<1>2. \A i \in 1 .. Len(inbox) :
         resp'[inbox[i]] = "none" /\ Sent(inbox[i]) /\ inbox[i] # cmd'
  BY <1>1, SweepAssumption DEF IInv, InboxInv
<1>3. \A i \in 1 .. Len(inbox) : ~(\E j \in 1 .. Len(effects') : effects'[j] = inbox[i])
  BY <1>1, SMTT(30) DEF IInv, InboxInv, Took
<1>. QED  BY <1>2, <1>3 DEF IInv, InboxInv, Sent, Took

\* An answer that tells whether there is an effect keeps AnswerInv.
LEMMA AnswerKeeps ==
  ASSUME IInv, NEW c \in Cmds, Sent(c), resp[c] = "none",
         NEW status \in Statuses, resp' = Answered(c, status),
         UNCHANGED <<sub, effects, logged>>,
         status = "committed" => \E i \in 1 .. logged : effects[i] = c,
         status = "unknown" => Took(c),
         status \in {"failed", "ok"} => ~Took(c)
  PROVE  AnswerInv'
<1>1. resp' = [resp EXCEPT ![c] = status]
  BY AnswerOnce DEF IInv
<1>2. \A d \in Cmds : resp'[d] = IF d = c THEN status ELSE resp[d]
  BY <1>1 DEF IInv, TypeOK
<1>3. \A d \in Cmds : Sent(d)' <=> Sent(d)
  BY DEF Sent
<1>. QED  BY <1>2, <1>3, TookFrame DEF IInv, AnswerInv, Statuses

\* The command at work, before and after its commit.
LEMMA AtWork ==
  ASSUME IInv, cmd # Sweep
  PROVE  /\ cmd \in Cmds /\ Sent(cmd)
         /\ pc \in BeforeCommit => ~Took(cmd)
         /\ pc \in AfterCommit => Took(cmd)
  BY DEF IInv, TypeOK, WorkInv, Took, BeforeCommit, AfterCommit

LEMMA LoggedAtWork ==
  ASSUME IInv, pc \in {"eval", "reply", "drop"}
  PROVE  \E i \in 1 .. logged : effects[i] = cmd
<1>1. effects \in Seq(Cmds \cup {Sweep}) /\ effects # <<>>
  BY DEF IInv, TypeOK, WorkInv, AfterCommit
<1>2. logged = Len(effects) /\ effects[Len(effects)] = cmd
  BY DEF IInv, LogInv, WorkInv, AfterCommit
<1>3. Len(effects) \in 1 .. Len(effects)
  BY <1>1
<1>. QED  BY <1>2, <1>3

-----------------------------------------------------------------------------
(* Every action preserves the invariant. *)

LEMMA ValidateSubmitAdmissionStep ==
    ASSUME NEW c \in Cmds, IInv, validateSubmitAdmission(c) PROVE IInv'
<1>1. TypeOK'
  BY SweepAssumption, MaxTxIDAssumption, MaxSweepsAssumption
  DEF IInv, TypeOK, Statuses, validateSubmitAdmission, isFatalCleanupCommand,
      Move, callerVars, runVars, durVars, txVars, flagVars
<1>2. LogInv'
  BY SweepAssumption, MaxTxIDAssumption
  DEF IInv, LogInv, TypeOK, WorkInv, BeforeCommit, AfterCommit, AtRest,
      validateSubmitAdmission, isFatalCleanupCommand, Move, callerVars,
      runVars, durVars, txVars, flagVars
<1>3. FatalInv'
  BY SweepAssumption, MaxTxIDAssumption
  DEF IInv, FatalInv, Cleanup, isFatalCleanupCommand, TypeOK, WorkInv,
      AtRest, BeforeCommit, LogInv, validateSubmitAdmission, Move,
      callerVars, runVars, durVars, txVars, flagVars
<1>4. OwnerInv'
  BY OwnerFrame
  DEF IInv, validateSubmitAdmission, runVars, flagVars
<1>5. InboxInv' /\ AnswerInv' /\ WorkInv'
  <2>1. \A d \in Cmds : Sent(d)' <=> Sent(d)
    BY DEF IInv, TypeOK, Sent, validateSubmitAdmission, Move
  <2>. QED
    BY <2>1, SentFrame
    DEF validateSubmitAdmission, runVars, txVars
<1>. QED  BY <1>1, <1>2, <1>3, <1>4, <1>5 DEF IInv

LEMMA BeginSubmitStep == ASSUME NEW c \in Cmds, IInv, beginSubmit(c) PROVE IInv'
<1>1. TypeOK'
  BY SweepAssumption, MaxTxIDAssumption, MaxSweepsAssumption
  DEF IInv, TypeOK, Statuses, beginSubmit, Move, callerVars, runVars,
      durVars, txVars, flagVars
<1>2. LogInv' /\ FatalInv' /\ OwnerInv'
  BY LogFrame, FatalFrame, OwnerFrame
  DEF IInv, beginSubmit, runVars, durVars, txVars, flagVars
<1>3. InboxInv' /\ AnswerInv' /\ WorkInv'
  <2>1. \A d \in Cmds : Sent(d)' <=> Sent(d)
    BY DEF IInv, TypeOK, Sent, beginSubmit, Move
  <2>. QED
    BY <2>1, SentFrame
    DEF beginSubmit, runVars, txVars
<1>. QED  BY <1>1, <1>2, <1>3 DEF IInv

LEMMA SubmitSendStep == ASSUME NEW c \in Cmds, IInv, SubmitSend(c) PROVE IInv'
<1>1. TypeOK'
  BY SweepAssumption, MaxTxIDAssumption, MaxSweepsAssumption,
     CapacityAssumption, SMTT(30)
  DEF IInv, TypeOK, Statuses, SubmitSend, Move, callerVars, runVars, durVars,
      txVars, flagVars
<1>2. InboxInv'
  <2>1. ~Sent(c) /\ resp[c] = "none" /\ ~Took(c) /\ cmd # c
    BY SweepAssumption, SMTT(30)
    DEF IInv, TypeOK, AnswerInv, WorkInv, Sent, SubmitSend
  <2>2. \A i \in 1 .. Len(inbox) : inbox[i] \in Cmds /\ inbox[i] # c
    BY <2>1
    DEF IInv, TypeOK, InboxInv
  <2>3. \A d \in Cmds : 
          sub'[d] \in {"sent", "accepted"} <=> Sent(d) \/ d = c
    BY DEF IInv, TypeOK, Sent, SubmitSend, Move
  <2>4. /\ Len(inbox') = Len(inbox) + 1 /\ inbox'[Len(inbox) + 1] = c
        /\ \A i \in 1 .. Len(inbox) : inbox'[i] = inbox[i]
        /\ Len(inbox) \in Nat
    BY DEF IInv, TypeOK, SubmitSend
  <2>5. \A i \in 1 .. Len(inbox') : i \in 1 .. Len(inbox) \/ i = Len(inbox) + 1
    BY <2>4, SMTT(30)
  <2>6. \A i \in 1 .. Len(inbox') :
          /\ sub'[inbox'[i]] \in {"sent", "accepted"}
          /\ inbox'[i] \in Cmds /\ resp[inbox'[i]] = "none"
          /\ ~Took(inbox'[i]) /\ inbox'[i] # cmd
    BY <2>1, <2>2, <2>3, <2>4, <2>5
    DEF IInv, InboxInv
  <2>7. \A i, j \in 1 .. Len(inbox') : inbox'[i] = inbox'[j] => i = j
    BY <2>2, <2>4, <2>5, SMTT(30)
    DEF IInv, InboxInv
  <2>. QED
    BY <2>6, <2>7
    DEF InboxInv, Sent, Took, SubmitSend, runVars, txVars
<1>3. AnswerInv'
  BY SweepAssumption, MaxTxIDAssumption, CapacityAssumption, SMTT(30)
  DEF IInv, AnswerInv, Sent, Took, TypeOK, WorkInv, BeforeCommit,
      AfterCommit, AtRest, InboxInv, LogInv, SubmitSend, Move, callerVars,
      runVars, durVars, txVars, flagVars
<1>4. WorkInv'
  BY SweepAssumption, MaxTxIDAssumption, CapacityAssumption
  DEF IInv, WorkInv, Sent, Took, BeforeCommit, AfterCommit, AtRest, TypeOK,
      InboxInv, AnswerInv, SubmitSend, Move, callerVars, runVars, durVars,
      txVars, flagVars
<1>5. LogInv' /\ FatalInv' /\ OwnerInv'
  BY LogFrame, FatalFrame, OwnerFrame
  DEF IInv, SubmitSend, runVars, durVars, txVars, flagVars
<1>. QED  BY <1>1, <1>2, <1>3, <1>4, <1>5 DEF IInv

LEMMA SubmitShutdownStep == ASSUME NEW c \in Cmds, IInv, SubmitShutdown(c) PROVE IInv'
<1>1. TypeOK'
  BY SweepAssumption, MaxTxIDAssumption, MaxSweepsAssumption
  DEF IInv, TypeOK, Statuses, SubmitShutdown, Move, callerVars, runVars,
      durVars, txVars, flagVars
<1>2. LogInv' /\ FatalInv' /\ OwnerInv'
  BY LogFrame, FatalFrame, OwnerFrame
  DEF IInv, SubmitShutdown, runVars, durVars, txVars, flagVars
<1>3. InboxInv' /\ AnswerInv' /\ WorkInv'
  <2>1. \A d \in Cmds : Sent(d)' <=> Sent(d)
    BY DEF IInv, TypeOK, Sent, SubmitShutdown, Move
  <2>. QED
    BY <2>1, SentFrame
    DEF SubmitShutdown, runVars, txVars
<1>. QED  BY <1>1, <1>2, <1>3 DEF IInv

LEMMA SubmitCancelledStep == ASSUME NEW c \in Cmds, IInv, SubmitCancelled(c) PROVE IInv'
<1>1. TypeOK'
  BY SweepAssumption, MaxTxIDAssumption, MaxSweepsAssumption
  DEF IInv, TypeOK, Statuses, SubmitCancelled, Move, callerVars, runVars,
      durVars, txVars, flagVars
<1>2. LogInv' /\ FatalInv' /\ OwnerInv'
  BY LogFrame, FatalFrame, OwnerFrame
  DEF IInv, SubmitCancelled, runVars, durVars, txVars, flagVars
<1>3. InboxInv' /\ AnswerInv' /\ WorkInv'
  <2>1. \A d \in Cmds : Sent(d)' <=> Sent(d)
    BY DEF IInv, TypeOK, Sent, SubmitCancelled, Move
  <2>. QED
    BY <2>1, SentFrame
    DEF SubmitCancelled, runVars, txVars
<1>. QED  BY <1>1, <1>2, <1>3 DEF IInv

LEMMA SubmitBusyStep == ASSUME NEW c \in Cmds, IInv, SubmitBusy(c) PROVE IInv'
<1>1. TypeOK'
  BY SweepAssumption, MaxTxIDAssumption, MaxSweepsAssumption
  DEF IInv, TypeOK, Statuses, SubmitBusy, Move, callerVars, runVars, durVars,
      txVars, flagVars
<1>2. LogInv' /\ FatalInv' /\ OwnerInv'
  BY LogFrame, FatalFrame, OwnerFrame
  DEF IInv, SubmitBusy, runVars, durVars, txVars, flagVars
<1>3. InboxInv' /\ AnswerInv' /\ WorkInv'
  <2>1. \A d \in Cmds : Sent(d)' <=> Sent(d)
    BY DEF IInv, TypeOK, Sent, SubmitBusy, Move
  <2>. QED
    BY <2>1, SentFrame
    DEF SubmitBusy, runVars, txVars
<1>. QED  BY <1>1, <1>2, <1>3 DEF IInv

LEMMA FinishSubmitStep == ASSUME NEW c \in Cmds, IInv, finishSubmit(c) PROVE IInv'
<1>1. TypeOK'
  BY SweepAssumption, MaxTxIDAssumption, MaxSweepsAssumption
  DEF IInv, TypeOK, Statuses, finishSubmit, Move, callerVars, runVars,
      durVars, txVars, flagVars
<1>2. LogInv' /\ FatalInv' /\ OwnerInv'
  BY LogFrame, FatalFrame, OwnerFrame
  DEF IInv, finishSubmit, runVars, durVars, txVars, flagVars
<1>3. InboxInv' /\ AnswerInv' /\ WorkInv'
  <2>1. \A d \in Cmds : Sent(d)' <=> Sent(d)
    BY DEF IInv, TypeOK, Sent, finishSubmit, Move
  <2>. QED
    BY <2>1, SentFrame
    DEF finishSubmit, runVars, txVars
<1>. QED  BY <1>1, <1>2, <1>3 DEF IInv

LEMMA SweepNextStep == ASSUME IInv, SweepNext PROVE IInv'
<1>1. TypeOK'
  BY SweepAssumption, MaxTxIDAssumption, MaxSweepsAssumption, SMTT(30)
  DEF IInv, TypeOK, Statuses, SweepNext, callerVars, runVars, durVars,
      txVars, flagVars
<1>2. WorkInv'
  BY SweepAssumption, MaxTxIDAssumption, SMTT(30)
  DEF IInv, WorkInv, Sent, Took, BeforeCommit, AfterCommit, AtRest, TypeOK,
      InboxInv, AnswerInv, SweepNext, callerVars, runVars, durVars, txVars,
      flagVars
<1>3. LogInv'
  BY SweepAssumption, MaxTxIDAssumption, SMTT(30)
  DEF IInv, LogInv, TypeOK, WorkInv, BeforeCommit, AfterCommit, AtRest,
      SweepNext, callerVars, runVars, durVars, txVars, flagVars
<1>4. FatalInv'
  BY SweepAssumption, MaxTxIDAssumption, SMTT(30)
  DEF IInv, FatalInv, Cleanup, isFatalCleanupCommand, TypeOK, WorkInv,
      AtRest, BeforeCommit, LogInv, SweepNext, callerVars, runVars, durVars,
      txVars, flagVars
<1>5. OwnerInv'
  BY SweepAssumption, MaxTxIDAssumption
  DEF IInv, OwnerInv, Booting, AtRest, TypeOK, WorkInv, BeforeCommit,
      AfterCommit, SweepNext, callerVars, runVars, durVars, txVars, flagVars
<1>6. InboxInv' /\ AnswerInv'
  BY InboxFrame, AnswerFrame, SMTT(30)
  DEF IInv, SweepNext, callerVars, txVars
<1>. QED  BY <1>1, <1>2, <1>3, <1>4, <1>5, <1>6 DEF IInv

LEMMA StartupDoneStep == ASSUME IInv, StartupDone PROVE IInv'
<1>1. TypeOK'
  BY SweepAssumption, MaxTxIDAssumption, MaxSweepsAssumption, SMTT(30)
  DEF IInv, TypeOK, Statuses, StartupDone, callerVars, runVars, durVars,
      txVars, flagVars
<1>2. WorkInv'
  BY SweepAssumption, MaxTxIDAssumption, SMTT(30)
  DEF IInv, WorkInv, Sent, Took, BeforeCommit, AfterCommit, AtRest, TypeOK,
      InboxInv, AnswerInv, StartupDone, callerVars, runVars, durVars, txVars,
      flagVars
<1>3. LogInv'
  BY SweepAssumption, MaxTxIDAssumption, SMTT(30)
  DEF IInv, LogInv, TypeOK, WorkInv, BeforeCommit, AfterCommit, AtRest,
      StartupDone, callerVars, runVars, durVars, txVars, flagVars
<1>4. FatalInv'
  BY SweepAssumption, MaxTxIDAssumption, SMTT(30)
  DEF IInv, FatalInv, Cleanup, isFatalCleanupCommand, TypeOK, WorkInv,
      AtRest, BeforeCommit, LogInv, StartupDone, callerVars, runVars,
      durVars, txVars, flagVars
<1>5. OwnerInv'
  BY SweepAssumption, MaxTxIDAssumption
  DEF IInv, OwnerInv, Booting, AtRest, TypeOK, WorkInv, BeforeCommit,
      AfterCommit, StartupDone, callerVars, runVars, durVars, txVars,
      flagVars
<1>6. InboxInv' /\ AnswerInv'
  BY InboxFrame, AnswerFrame, SMTT(30)
  DEF IInv, StartupDone, callerVars, txVars
<1>. QED  BY <1>1, <1>2, <1>3, <1>4, <1>5, <1>6 DEF IInv

LEMMA RunStartStep == ASSUME IInv, RunStart PROVE IInv'
<1>1. TypeOK'
  BY SweepAssumption, MaxTxIDAssumption, MaxSweepsAssumption, SMTT(30)
  DEF IInv, TypeOK, Statuses, RunStart, callerVars, runVars, durVars, txVars,
      flagVars
<1>2. WorkInv'
  BY SweepAssumption, MaxTxIDAssumption, SMTT(30)
  DEF IInv, WorkInv, Sent, Took, BeforeCommit, AfterCommit, AtRest, TypeOK,
      InboxInv, AnswerInv, RunStart, callerVars, runVars, durVars, txVars,
      flagVars
<1>3. LogInv'
  BY SweepAssumption, MaxTxIDAssumption, SMTT(30)
  DEF IInv, LogInv, TypeOK, WorkInv, BeforeCommit, AfterCommit, AtRest,
      RunStart, callerVars, runVars, durVars, txVars, flagVars
<1>4. FatalInv'
  BY SweepAssumption, MaxTxIDAssumption, SMTT(30)
  DEF IInv, FatalInv, Cleanup, isFatalCleanupCommand, TypeOK, WorkInv,
      AtRest, BeforeCommit, LogInv, RunStart, callerVars, runVars, durVars,
      txVars, flagVars
<1>5. OwnerInv'
  BY SweepAssumption, MaxTxIDAssumption
  DEF IInv, OwnerInv, Booting, AtRest, TypeOK, WorkInv, BeforeCommit,
      AfterCommit, RunStart, callerVars, runVars, durVars, txVars, flagVars
<1>6. InboxInv' /\ AnswerInv'
  BY InboxFrame, AnswerFrame
  DEF IInv, RunStart, callerVars, txVars
<1>. QED  BY <1>1, <1>2, <1>3, <1>4, <1>5, <1>6 DEF IInv

LEMMA RunReceiveStep == ASSUME IInv, RunReceive PROVE IInv'
<1>1. TypeOK'
  BY SweepAssumption, MaxTxIDAssumption, MaxSweepsAssumption,
     CapacityAssumption, InboxHead, SMTT(30)
  DEF IInv, TypeOK, Statuses, RunReceive, callerVars, runVars, durVars,
      txVars, flagVars
<1>2. InboxInv'
  BY SweepAssumption, MaxTxIDAssumption, CapacityAssumption, InboxHead, SMTT(30)
  DEF IInv, InboxInv, Sent, Took, TypeOK, WorkInv, BeforeCommit, AfterCommit,
      AtRest, AnswerInv, RunReceive, callerVars, runVars, durVars, txVars,
      flagVars
<1>3. WorkInv'
  BY SweepAssumption, MaxTxIDAssumption, CapacityAssumption, InboxHead, SMTT(30)
  DEF IInv, WorkInv, Sent, Took, BeforeCommit, AfterCommit, AtRest, TypeOK,
      InboxInv, AnswerInv, RunReceive, callerVars, runVars, durVars, txVars,
      flagVars
<1>4. LogInv'
  BY SweepAssumption, MaxTxIDAssumption, CapacityAssumption, SMTT(30)
  DEF IInv, LogInv, TypeOK, WorkInv, BeforeCommit, AfterCommit, AtRest,
      RunReceive, callerVars, runVars, durVars, txVars, flagVars
<1>5. FatalInv'
  BY SweepAssumption, MaxTxIDAssumption, CapacityAssumption, SMTT(30)
  DEF IInv, FatalInv, Cleanup, isFatalCleanupCommand, TypeOK, WorkInv,
      AtRest, BeforeCommit, LogInv, RunReceive, callerVars, runVars, durVars,
      txVars, flagVars
<1>6. OwnerInv'
  BY SweepAssumption, MaxTxIDAssumption, CapacityAssumption
  DEF IInv, OwnerInv, Booting, AtRest, TypeOK, WorkInv, BeforeCommit,
      AfterCommit, RunReceive, callerVars, runVars, durVars, txVars, flagVars
<1>7. AnswerInv'
  BY AnswerFrame, SMTT(30)
  DEF IInv, RunReceive, callerVars, txVars
<1>. QED  BY <1>1, <1>2, <1>3, <1>4, <1>5, <1>6, <1>7, SMTT(30) DEF IInv

LEMMA RunShutdownStep == ASSUME IInv, RunShutdown PROVE IInv'
<1>1. TypeOK'
  BY SweepAssumption, MaxTxIDAssumption, MaxSweepsAssumption, SMTT(30)
  DEF IInv, TypeOK, Statuses, RunShutdown, callerVars, runVars, durVars,
      txVars, flagVars
<1>2. WorkInv'
  BY SweepAssumption, MaxTxIDAssumption, SMTT(30)
  DEF IInv, WorkInv, Sent, Took, BeforeCommit, AfterCommit, AtRest, TypeOK,
      InboxInv, AnswerInv, RunShutdown, callerVars, runVars, durVars, txVars,
      flagVars
<1>3. LogInv'
  BY SweepAssumption, MaxTxIDAssumption, SMTT(30)
  DEF IInv, LogInv, TypeOK, WorkInv, BeforeCommit, AfterCommit, AtRest,
      RunShutdown, callerVars, runVars, durVars, txVars, flagVars
<1>4. FatalInv'
  BY SweepAssumption, MaxTxIDAssumption, SMTT(30)
  DEF IInv, FatalInv, Cleanup, isFatalCleanupCommand, TypeOK, WorkInv,
      AtRest, BeforeCommit, LogInv, RunShutdown, callerVars, runVars,
      durVars, txVars, flagVars
<1>5. OwnerInv'
  BY SweepAssumption, MaxTxIDAssumption
  DEF IInv, OwnerInv, Booting, AtRest, TypeOK, WorkInv, BeforeCommit,
      AfterCommit, RunShutdown, callerVars, runVars, durVars, txVars,
      flagVars
<1>6. InboxInv' /\ AnswerInv'
  BY InboxFrame, AnswerFrame
  DEF IInv, RunShutdown, callerVars, txVars
<1>. QED  BY <1>1, <1>2, <1>3, <1>4, <1>5, <1>6 DEF IInv

LEMMA RunCancelledStep == ASSUME IInv, RunCancelled PROVE IInv'
<1>1. TypeOK'
  <2>1. resp' \in [Cmds -> Statuses \cup {"none"}]
    BY AnswerOnce, CmdUnanswered, SweepAssumption, SMTT(30)
    DEF IInv, TypeOK, Statuses, WorkInv, AtRest, BeforeCommit, RunCancelled,
        startShutdown, callerVars, runVars, durVars, txVars, flagVars
  <2>2. failing' \in BOOLEAN /\ fatal' \in BOOLEAN
    BY DEF IInv, TypeOK, RunCancelled, startShutdown, callerVars, runVars,
           durVars, txVars, flagVars
  <2>. QED
    BY <2>1, <2>2, SweepAssumption, MaxTxIDAssumption, MaxSweepsAssumption, SMTT(30)
    DEF IInv, TypeOK, RunCancelled, startShutdown, callerVars, runVars,
        durVars, txVars, flagVars
<1>2. InboxInv'
  <2>1. \A c \in Cmds : c # cmd => resp'[c] = resp[c]
    BY OthersKeep
    DEF IInv, RunCancelled
  <2>2. cmd' \in {cmd, Sweep}
    BY SMTT(30) DEF RunCancelled
  <2>. QED
    BY <2>1, <2>2, InboxKeeps, TookFrame
    DEF RunCancelled, callerVars, txVars
<1>3. AnswerInv'
  BY AnswerKeeps, AnswerFrame, AtWork, CmdUnanswered, SMTT(30)
  DEF IInv, WorkInv, BeforeCommit, Statuses, RunCancelled, callerVars, txVars
<1>4. WorkInv'
  BY SweepAssumption, MaxTxIDAssumption, SMTT(30)
  DEF IInv, WorkInv, Sent, Took, BeforeCommit, AfterCommit, AtRest, TypeOK,
      Statuses, InboxInv, AnswerInv, RunCancelled, startShutdown, Answered,
      callerVars, runVars, durVars, txVars, flagVars
<1>5. LogInv'
  BY SweepAssumption, MaxTxIDAssumption, SMTT(30)
  DEF IInv, LogInv, TypeOK, Statuses, WorkInv, BeforeCommit, AfterCommit,
      AtRest, RunCancelled, startShutdown, Answered, callerVars, runVars,
      durVars, txVars, flagVars
<1>6. FatalInv'
  BY SweepAssumption, MaxTxIDAssumption, SMTT(30)
  DEF IInv, FatalInv, Cleanup, isFatalCleanupCommand, TypeOK, Statuses,
      WorkInv, BeforeCommit, AfterCommit, AtRest, LogInv, RunCancelled,
      startShutdown, Answered, callerVars, runVars, durVars, txVars, flagVars
<1>7. OwnerInv'
  BY SweepAssumption, MaxTxIDAssumption, SMTT(30)
  DEF IInv, OwnerInv, Booting, AtRest, TypeOK, Statuses, WorkInv,
      BeforeCommit, AfterCommit, RunCancelled, startShutdown, Answered,
      callerVars, runVars, durVars, txVars, flagVars
<1>. QED  BY <1>1, <1>2, <1>3, <1>4, <1>5, <1>6, <1>7, SMTT(30) DEF IInv

LEMMA RunCheckShutdownStep == ASSUME IInv, RunCheckShutdown PROVE IInv'
<1>1. TypeOK'
  <2>1. resp' \in [Cmds -> Statuses \cup {"none"}]
    BY AnswerOnce, CmdUnanswered, SweepAssumption, SMTT(30)
    DEF IInv, TypeOK, Statuses, WorkInv, AtRest, BeforeCommit,
        RunCheckShutdown, callerVars, runVars, durVars, txVars, flagVars
  <2>2. failing' \in BOOLEAN /\ fatal' \in BOOLEAN
    BY DEF IInv, TypeOK, RunCheckShutdown, callerVars, runVars, durVars,
           txVars, flagVars
  <2>. QED
    BY <2>1, <2>2, SweepAssumption, MaxTxIDAssumption, MaxSweepsAssumption, SMTT(30)
    DEF IInv, TypeOK, RunCheckShutdown, callerVars, runVars, durVars, txVars,
        flagVars
<1>2. InboxInv'
  <2>1. \A c \in Cmds : c # cmd => resp'[c] = resp[c]
    BY OthersKeep
    DEF IInv, RunCheckShutdown
  <2>2. cmd' \in {cmd, Sweep}
    BY SMTT(30) DEF RunCheckShutdown
  <2>. QED
    BY <2>1, <2>2, InboxKeeps, TookFrame
    DEF RunCheckShutdown, callerVars, txVars
<1>3. AnswerInv'
  BY AnswerKeeps, AnswerFrame, AtWork, CmdUnanswered, SMTT(30)
  DEF IInv, WorkInv, BeforeCommit, Statuses, RunCheckShutdown, callerVars,
      txVars
<1>4. WorkInv'
  BY SweepAssumption, MaxTxIDAssumption, SMTT(30)
  DEF IInv, WorkInv, Sent, Took, BeforeCommit, AfterCommit, AtRest, TypeOK,
      Statuses, InboxInv, AnswerInv, RunCheckShutdown, Answered, callerVars,
      runVars, durVars, txVars, flagVars
<1>5. LogInv'
  BY SweepAssumption, MaxTxIDAssumption, SMTT(30)
  DEF IInv, LogInv, TypeOK, Statuses, WorkInv, BeforeCommit, AfterCommit,
      AtRest, RunCheckShutdown, Answered, callerVars, runVars, durVars,
      txVars, flagVars
<1>6. FatalInv'
  BY SweepAssumption, MaxTxIDAssumption, SMTT(30)
  DEF IInv, FatalInv, Cleanup, isFatalCleanupCommand, TypeOK, Statuses,
      WorkInv, BeforeCommit, AfterCommit, AtRest, LogInv, RunCheckShutdown,
      Answered, callerVars, runVars, durVars, txVars, flagVars
<1>7. OwnerInv'
  BY SweepAssumption, MaxTxIDAssumption
  DEF IInv, OwnerInv, Booting, AtRest, TypeOK, Statuses, WorkInv,
      BeforeCommit, AfterCommit, RunCheckShutdown, Answered, callerVars,
      runVars, durVars, txVars, flagVars
<1>. QED  BY <1>1, <1>2, <1>3, <1>4, <1>5, <1>6, <1>7, SMTT(30) DEF IInv

=============================================================================
