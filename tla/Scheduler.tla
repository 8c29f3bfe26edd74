----------------------------- MODULE Scheduler -----------------------------
(***************************************************************************)
(* Scheduled reducers (executor/scheduler.go, executor/scheduler_worker.go *)
(* and the scheduled path of executor/executor.go): reducers insert and    *)
(* delete rows of sys_scheduled, the scheduler's goroutine scans the table *)
(* and queues a call for every due row, and the executor runs the call and *)
(* deletes or advances the row in the same transaction.  The scheduler,    *)
(* the executor, the clock, the durability worker and a crash interleave.  *)
(*                                                                         *)
(* A database is the table and a ledger: each scheduled reducer writes its *)
(* own firing, <<schedule, time>>, so the ledger says what really ran.     *)
(***************************************************************************)
EXTENDS Integers, Sequences, FiniteSets, FiniteSetsExt, Functions, Bags, TLC

CONSTANTS
    Reducers,       \* reducers a module may register
    Targets,        \* reducers an application names in a schedule
    Sources,        \* who runs reducers: "external" calls, "lifecycle" hooks
    Times,          \* instants given to Schedule
    Intervals,      \* intervals given to ScheduleRepeat
    MaxInt64,       \* the last instant a schedule can name
    InboxCapacity,  \* commands the executor's inbox holds
    MaxSchedules,   \* bound: schedule ids handed out in one process
    MaxRestarts,    \* bound: crashes followed by a restart
    MaxEvents       \* bound: calls submitted and restarts, together

ASSUME SchedulerConstants ==
    /\ Targets \subseteq Reducers
    /\ {MaxInt64, InboxCapacity} \subseteq Nat \ {0}
    /\ Times \subseteq 0 .. MaxInt64
    /\ Intervals \subseteq Int

VARIABLES
    registry,    \* reducers of the running module
    state,       \* committed database
    disk,        \* the database a restart recovers
    schedSeq,    \* next schedule id
    inbox,       \* the executor's commands
    exec,        \* the command the executor is working on, and how far it is
    now,         \* the clock
    wakeup,      \* a token in the wakeup channel
    inFlight,    \* firings admitted and not yet completed
    scan,        \* the scheduler's goroutine; scan.next is nextWakeup
    ctxDone,     \* the scheduler's context was cancelled
    calls, restarts

vars == <<registry, state, disk, schedSeq, inbox, exec, now, wakeup,
          inFlight, scan, ctxDone, calls, restarts>>

Never == MaxInt64 + 1
Forget(f, x) == [y \in DOMAIN f \ {x} |-> f[y]]

scheduledFireKey(rows, id) == <<id, rows[id].next>>
Due(rows, t) == {id \in DOMAIN rows : rows[id].next <= t}

maxScheduleID(rows) == Max(DOMAIN rows \cup {0})
validateScheduledReducerTarget(reducer) == reducer \in registry
nextScheduleRepeatRunAt(intended, repeat) ==
    IF repeat <= 0 \/ intended > MaxInt64 - repeat THEN Never ELSE intended + repeat

NoScan == [pc |-> "off", now |-> 0, initial |-> {}, left |-> <<>>, next |-> Never, send |-> <<>>]
Idle == [phase |-> "idle", cmd |-> <<>>, status |-> "committed", changed |-> FALSE]

Init ==
    /\ registry = Reducers
    /\ state = [rows |-> <<>>, ledger |-> EmptyBag]
    /\ disk = state
    /\ schedSeq = 1
    /\ inbox = <<>>
    /\ exec = [Idle EXCEPT !.phase = "startup"]
    /\ now = 0
    /\ wakeup = FALSE
    /\ inFlight = {}
    /\ scan = NoScan
    /\ ctxDone = FALSE
    /\ calls = 0
    /\ restarts = 0

-----------------------------------------------------------------------------
(* What a reducer does to the table through its handle.                    *)

advanceOrDeleteSchedule(rows, id, intended) ==
    IF id \notin DOMAIN rows THEN rows
    ELSE LET next == nextScheduleRepeatRunAt(intended, rows[id].repeat)
         IN  IF rows[id].repeat = 0 \/ next = Never THEN Forget(rows, id)
             ELSE [rows EXCEPT ![id].next = next]

Respond(status) == exec' = [exec EXCEPT !.phase = "respond", !.status = status]

\* The transaction commits: it is visible at once and durable later.  Only a
\* CallReducerCmd tells the scheduler that the table changed.
Commit(rows, ledger) ==
    /\ state' = [rows |-> rows, ledger |-> ledger]
    /\ exec' = [exec EXCEPT !.phase = IF exec.cmd[1] = "lifecycle" THEN "respond" ELSE "notify",
                            !.status = "committed", !.changed = rows # state.rows]

\* The id is consumed even if the transaction then rolls back.
insertSchedule(reducer, next, repeat) ==
    IF validateScheduledReducerTarget(reducer)
    THEN /\ schedSeq' = schedSeq + 1
         /\ \/ Commit(state.rows @@ schedSeq :> [reducer |-> reducer, next |-> next, repeat |-> repeat], state.ledger)
            \/ Respond("failed") /\ UNCHANGED state
    ELSE Respond("failed") /\ UNCHANGED <<state, schedSeq>>

Schedule(reducer, at) == insertSchedule(reducer, at, 0)

ScheduleRepeat(reducer, interval) ==
    LET first == nextScheduleRepeatRunAt(now, interval)
    IN  IF interval > 0 /\ first # Never THEN insertSchedule(reducer, first, interval)
        ELSE Respond("failed") /\ UNCHANGED <<state, schedSeq>>

Cancel(id) ==
    /\ Commit(Forget(state.rows, id), state.ledger)
    /\ UNCHANGED schedSeq

-----------------------------------------------------------------------------
(* The executor.                                                           *)

Notify == wakeup' = TRUE

Submit(source) ==
    /\ calls + restarts < MaxEvents
    /\ exec.phase # "startup"
    /\ Len(inbox) < InboxCapacity
    /\ inbox' = Append(inbox, <<source>>)
    /\ calls' = calls + 1
    /\ UNCHANGED <<registry, state, disk, schedSeq, exec, now, wakeup, inFlight, scan, ctxDone, restarts>>

Receive ==
    /\ exec.phase = "idle"
    /\ inbox # <<>>
    /\ exec' = [Idle EXCEPT !.phase = "run", !.cmd = Head(inbox)]
    /\ inbox' = Tail(inbox)
    /\ UNCHANGED <<registry, state, disk, schedSeq, now, wakeup, inFlight, scan, ctxDone, calls, restarts>>

\* An application's reducer uses its handle, or fails and rolls back.
RunReducer ==
    /\ exec.phase = "run"
    /\ exec.cmd[1] \in Sources
    /\ \/ schedSeq <= MaxSchedules /\ \E reducer \in Targets, at \in Times : Schedule(reducer, at)
       \/ schedSeq <= MaxSchedules /\ \E reducer \in Targets, interval \in Intervals : ScheduleRepeat(reducer, interval)
       \/ \E id \in 1 .. schedSeq : Cancel(id)
    /\ UNCHANGED <<registry, disk, inbox, now, wakeup, inFlight, scan, ctxDone, calls, restarts>>

\* A scheduled call: a queued firing of a row cancelled meanwhile still runs.
RunScheduled ==
    /\ exec.phase = "run"
    /\ exec.cmd[1] = "scheduled"
    /\ LET id == exec.cmd[2]
           at == exec.cmd[3]
       IN  \/ Commit(advanceOrDeleteSchedule(state.rows, id, at), state.ledger (+) SetToBag({<<id, at>>}))
           \/ Respond("failed") /\ UNCHANGED state
    /\ UNCHANGED <<registry, disk, schedSeq, inbox, now, wakeup, inFlight, scan, ctxDone, calls, restarts>>

NotifyCommitted ==
    /\ exec.phase = "notify"
    /\ IF exec.changed THEN Notify ELSE UNCHANGED wakeup
    /\ exec' = [exec EXCEPT !.phase = "respond"]
    /\ UNCHANGED <<registry, state, disk, schedSeq, inbox, now, inFlight, scan, ctxDone, calls, restarts>>

\* completeInFlight, and the retry a failed attempt asks for.
completeInFlight ==
    /\ exec.phase = "respond"
    /\ LET key == Tail(exec.cmd)
           retry == exec.cmd[1] = "scheduled" /\ key \in inFlight /\ exec.status # "committed"
       IN  /\ inFlight' = inFlight \ {key}
           /\ exec' = IF retry THEN [exec EXCEPT !.phase = "retry"] ELSE Idle
    /\ UNCHANGED <<registry, state, disk, schedSeq, inbox, now, wakeup, scan, ctxDone, calls, restarts>>

\* Mutant: nobody asks for another attempt.
NotifyFailedSilent ==
    /\ exec.phase = "retry"
    /\ exec' = Idle
    /\ UNCHANGED <<registry, state, disk, schedSeq, inbox, now, wakeup, inFlight, scan, ctxDone, calls,
                   restarts>>

NotifyFailed ==
    /\ exec.phase = "retry"
    /\ Notify
    /\ exec' = Idle
    /\ UNCHANGED <<registry, state, disk, schedSeq, inbox, now, inFlight, scan, ctxDone, calls, restarts>>

-----------------------------------------------------------------------------
(* The scheduler's goroutine.  The walk takes the rows in any order: the   *)
(* table is scanned in the order of its row ids, which is not the order of *)
(* the schedules.                                                          *)

Notified == <<registry, state, disk, schedSeq, exec, now, calls, restarts>>

\* The clock and the firings in flight are read before the table.
ScanBegin ==
    /\ scan.pc = "begin"
    /\ scan' = [NoScan EXCEPT !.pc = "rows", !.now = now, !.initial = inFlight]
    /\ UNCHANGED <<inbox, wakeup, inFlight, ctxDone>> /\ UNCHANGED Notified

snapshotScheduleRows ==
    /\ scan.pc = "rows"
    /\ scan' = [scan EXCEPT !.pc = "walk", !.left = state.rows]
    /\ UNCHANGED <<inbox, wakeup, inFlight, ctxDone>> /\ UNCHANGED Notified

\* Mutant: only the firings in flight now are skipped, not those of the start.
scanRowUnsnapshotted(id) ==
    /\ scan.pc = "walk"
    /\ id \in DOMAIN scan.left
    /\ LET key == scheduledFireKey(scan.left, id)
           rest == [scan EXCEPT !.left = Forget(@, id)]
       IN  IF key[2] > scan.now
           THEN scan' = [rest EXCEPT !.next = Min({@, key[2]})] /\ UNCHANGED inFlight
           ELSE IF key \in inFlight
           THEN scan' = rest /\ UNCHANGED inFlight
           ELSE /\ scan' = [rest EXCEPT !.pc = "send", !.send = key]
                /\ inFlight' = inFlight \cup {key}
    /\ UNCHANGED <<inbox, wakeup, ctxDone>> /\ UNCHANGED Notified

\* One row: in the future, already in flight, or marked and about to be sent.
scanRow(id) ==
    /\ scan.pc = "walk"
    /\ id \in DOMAIN scan.left
    /\ LET key == scheduledFireKey(scan.left, id)
           rest == [scan EXCEPT !.left = Forget(@, id)]
       IN  IF key[2] > scan.now
           THEN scan' = [rest EXCEPT !.next = Min({@, key[2]})] /\ UNCHANGED inFlight
           ELSE IF key \in scan.initial \cup inFlight
           THEN scan' = rest /\ UNCHANGED inFlight
           ELSE /\ scan' = [rest EXCEPT !.pc = "send", !.send = key]
                /\ inFlight' = inFlight \cup {key}
    /\ UNCHANGED <<inbox, wakeup, ctxDone>> /\ UNCHANGED Notified

enqueueWithContext ==
    /\ scan.pc = "send"
    /\ Len(inbox) < InboxCapacity
    /\ inbox' = Append(inbox, <<"scheduled">> \o scan.send)
    /\ scan' = [scan EXCEPT !.pc = "walk", !.send = <<>>]
    /\ UNCHANGED <<wakeup, inFlight, ctxDone>> /\ UNCHANGED Notified

ScanEnd ==
    /\ scan.pc = "walk"
    /\ DOMAIN scan.left = {}
    /\ scan' = [NoScan EXCEPT !.pc = "select", !.next = scan.next]
    /\ UNCHANGED <<inbox, wakeup, inFlight, ctxDone>> /\ UNCHANGED Notified

RunWakeup ==
    /\ scan.pc = "select"
    /\ wakeup
    /\ wakeup' = FALSE
    /\ scan' = [NoScan EXCEPT !.pc = "begin"]
    /\ UNCHANGED <<inbox, inFlight, ctxDone>> /\ UNCHANGED Notified

RunTimer ==
    /\ scan.pc = "select"
    /\ scan.next <= now
    /\ scan' = [NoScan EXCEPT !.pc = "begin"]
    /\ UNCHANGED <<inbox, wakeup, inFlight, ctxDone>> /\ UNCHANGED Notified

\* Mutant: the context is looked at only while a firing is sent.
RunDoneSending ==
    /\ ctxDone
    /\ scan.pc = "send"
    /\ inFlight' = inFlight \ {scan.send}
    /\ scan' = [NoScan EXCEPT !.pc = "stopped"]
    /\ UNCHANGED <<inbox, wakeup, ctxDone>> /\ UNCHANGED Notified

\* The context ends the goroutine where it waits; an unsent firing is unmarked.
RunDone ==
    /\ ctxDone
    /\ scan.pc \in {"send", "select"}
    /\ inFlight' = inFlight \ {scan.send}
    /\ scan' = [NoScan EXCEPT !.pc = "stopped"]
    /\ UNCHANGED <<inbox, wakeup, ctxDone>> /\ UNCHANGED Notified

lifecycleCancel ==
    /\ scan.pc # "off"
    /\ ~ctxDone
    /\ ctxDone' = TRUE
    /\ UNCHANGED <<inbox, wakeup, inFlight, scan>> /\ UNCHANGED Notified

-----------------------------------------------------------------------------
(* Startup, the clock, durability and crashes.                             *)

\* One committed transaction for each recovered row whose reducer is gone.
sweepInvalidSchedules(id) ==
    /\ exec.phase = "startup"
    /\ id \in DOMAIN state.rows
    /\ ~validateScheduledReducerTarget(state.rows[id].reducer)
    /\ state' = [state EXCEPT !.rows = Forget(@, id)]
    /\ UNCHANGED <<registry, disk, schedSeq, inbox, exec, now, wakeup, inFlight, scan, ctxDone, calls, restarts>>

\* Due rows are queued while the inbox has room, then the executor and the
\* scheduler run.
ReplayFromCommitted ==
    /\ exec.phase = "startup"
    /\ \A id \in DOMAIN state.rows : validateScheduledReducerTarget(state.rows[id].reducer)
    /\ LET due == Due(state.rows, now)
           room == Min({Cardinality(due), InboxCapacity})
       IN  \E queued \in {q \in [1 .. room -> due] : IsInjective(q)} :
             /\ inbox' = [i \in 1 .. room |-> <<"scheduled">> \o scheduledFireKey(state.rows, queued[i])]
             /\ inFlight' = {scheduledFireKey(state.rows, queued[i]) : i \in 1 .. room}
    /\ exec' = Idle
    /\ scan' = [NoScan EXCEPT !.pc = "begin"]
    /\ UNCHANGED <<registry, state, disk, schedSeq, now, wakeup, ctxDone, calls, restarts>>

Tick ==
    /\ now < MaxInt64
    /\ now' = now + 1
    /\ UNCHANGED <<registry, state, disk, schedSeq, inbox, exec, wakeup, inFlight, scan, ctxDone, calls, restarts>>

\* The durability worker catches up with the commits (nothing reads the disk
\* after the last restart).
Sync ==
    /\ disk # state
    /\ restarts < MaxRestarts /\ calls + restarts < MaxEvents
    /\ disk' = state
    /\ UNCHANGED <<registry, state, schedSeq, inbox, exec, now, wakeup, inFlight, scan, ctxDone, calls, restarts>>

\* The process dies and another one, perhaps of another version of the module,
\* recovers what was durable.  Ledger entries of schedules that are gone are
\* dropped: their ids may be used again.
Restart ==
    /\ restarts < MaxRestarts
    /\ calls + restarts < MaxEvents
    /\ \E reducers \in SUBSET Reducers : registry' = reducers
    /\ state' = [disk EXCEPT !.ledger = [key \in {k \in DOMAIN @ : k[1] \in DOMAIN disk.rows} |-> @[key]]]
    /\ disk' = state'
    /\ schedSeq' = maxScheduleID(disk.rows) + 1
    /\ inbox' = <<>>
    /\ exec' = [Idle EXCEPT !.phase = "startup"]
    /\ wakeup' = FALSE
    /\ inFlight' = {}
    /\ scan' = NoScan
    /\ ctxDone' = FALSE
    /\ restarts' = restarts + 1
    /\ UNCHANGED <<now, calls>>

ExecutorStep == Receive \/ RunReducer \/ RunScheduled \/ NotifyCommitted \/ completeInFlight \/ NotifyFailed
RunStep ==
    \/ ScanBegin \/ snapshotScheduleRows \/ enqueueWithContext \/ ScanEnd \/ RunWakeup \/ RunTimer
    \/ \E id \in DOMAIN scan.left : scanRow(id)
StartupStep == ReplayFromCommitted \/ \E id \in DOMAIN state.rows : sweepInvalidSchedules(id)

Next ==
    \/ ExecutorStep \/ RunStep \/ RunDone \/ StartupStep
    \/ \E source \in Sources : Submit(source)
    \/ lifecycleCancel \/ Tick \/ Sync \/ Restart

\* Goroutines that can run are run; a select with several ready cases does not
\* always take the same one.  Nothing makes the clock, the disk, the callers or
\* the shutdown move.
Spec ==
    /\ Init /\ [][Next]_vars
    /\ WF_vars(ExecutorStep) /\ WF_vars(RunStep) /\ WF_vars(StartupStep) /\ SF_vars(RunDone)

-----------------------------------------------------------------------------
(* Properties.                                                             *)

TypeOK ==
    /\ registry \subseteq Reducers
    /\ \A db \in {state, disk} :
         /\ DOMAIN db.rows \subseteq 1 .. MaxSchedules + MaxRestarts
         /\ \A id \in DOMAIN db.rows : db.rows[id].next \in 0 .. MaxInt64 /\ db.rows[id].repeat >= 0
         /\ IsABag(db.ledger)
    /\ Len(inbox) <= InboxCapacity
    /\ now \in 0 .. MaxInt64
    /\ scan.next \in 0 .. Never
    /\ scan.pc \in {"off", "begin", "rows", "walk", "send", "select", "stopped"}
    /\ exec.phase \in {"startup", "idle", "run", "notify", "respond", "retry"}

\* What ran is what the table says.  A firing commits at most once however the
\* scans, the retries, a Cancel and a crash fall, because the row moves in the
\* transaction of the reducer (executor.go, handleCallReducer) and a scan that
\* read the table before a firing completed does not queue it again
\* (scheduler_worker.go, scanAndTrackMaxWithContext).  A repeating row has run
\* for every interval before its next time and for nothing else.
LedgerIsExact ==
    /\ \A key \in DOMAIN state.ledger : state.ledger[key] = 1
    /\ \A id \in DOMAIN state.rows :
         LET ran == {key[2] : key \in {k \in DOMAIN state.ledger : k[1] = id}}
             row == state.rows[id]
         IN  \A t \in ran : t < row.next /\ row.repeat > 0 /\ t + row.repeat \in ran \cup {row.next}

\* A firing marked in flight is in the hands of one goroutine that will unmark
\* it: being sent, queued, or at the executor.  A mark without an owner would
\* hide the row from every later scan (markInFlight, completeInFlight,
\* unmarkInFlight).
InFlightIsOwned ==
    \A key \in inFlight :
        LET sending == IF scan.send = key THEN {"send"} ELSE {}
            queued == {i \in DOMAIN inbox : Tail(inbox[i]) = key}
            running == IF exec.phase \in {"run", "notify", "respond"} /\ Tail(exec.cmd) = key THEN {"run"} ELSE {}
        IN  Cardinality(sending) + Cardinality(queued) + Cardinality(running) = 1

\* When the goroutine waits with no token and no timer to wake it and the
\* executor is not about to notify, every due row is in flight: a scan that
\* overlaps a commit, a failed attempt or the replay at startup loses no
\* schedule (scheduler_worker.go, Run and Notify).
NoLostWakeup ==
    scan.pc = "select" /\ ~wakeup /\ scan.next > now /\ ~(exec.phase = "notify" /\ exec.changed) /\ exec.phase # "retry"
        => \A id \in Due(state.rows, now) : scheduledFireKey(state.rows, id) \in inFlight

\* What the scheduler believes is in flight, what the table says is due and what
\* has run agree at every step, through scans that overlap commits, retries,
\* cancellations and crashes.
FiringsAreExact == TypeOK /\ LedgerIsExact /\ InFlightIsOwned /\ NoLostWakeup

\* A due row is put in flight, at every time it falls due, until it is gone: no
\* wakeup is lost when a scan overlaps a commit, a failed attempt or the replay at
\* startup (scheduler_worker.go, Run and Notify).
DueIsQueued ==
    \A id \in 1 .. MaxSchedules :
        id \in Due(state.rows, now) ~>
            (id \in Due(state.rows, now) => ctxDone \/ scheduledFireKey(state.rows, id) \in inFlight)

\* Cancelling the scheduler's context ends its goroutine, even when it is stuck
\* on a full inbox (enqueueWithContext); Runtime.Close waits for that.
SchedulerStops == ctxDone ~> (scan.pc = "stopped" \/ ~ctxDone)
=============================================================================
