------------------------------- MODULE FanOut -------------------------------
(***************************************************************************)
(* From a commit to the clients' caches: subscription/eval.go, manager.go  *)
(* and fanout_worker.go, the executor's postCommit and subscription        *)
(* handlers, protocol/sender.go, outbound.go and disconnect.go.            *)
(*                                                                         *)
(* The executor evaluates each commit against the registered queries and   *)
(* hands one message to the fan-out worker over a bounded channel. The     *)
(* worker waits for durability where it has to and enqueues one frame per  *)
(* recipient on the connection's bounded outbound queue; a writer per      *)
(* connection sends the frames. Answers to subscribe and unsubscribe are   *)
(* enqueued by the executor itself, answers of procedures by the           *)
(* procedure's goroutine, which holds ordinary frames back while it runs.  *)
(*                                                                         *)
(* A commit is the set of queries whose result it changes, so the result   *)
(* of a query is the sequence of the transactions that changed it, and a   *)
(* client's cache is the sequence of those it has been told of.            *)
(***************************************************************************)
EXTENDS Integers, Sequences, FiniteSets

CONSTANTS
    Conns,             \* connections
    Queries,           \* query IDs, each of a query of its own
    NoConn,            \* no connection
    MaxTx,             \* bound on the commits
    InboxCapacity,     \* capacity of the fan-out channel
    OutboundCapacity,  \* ProtocolOptions.OutgoingBufferMessages
    FastReads,         \* connections with SetConfirmedReads(false)
    MaxProcedures,     \* bound on the procedure calls of a connection
    Calls,             \* the reducer calls that may make each commit
    Changes,           \* the sets of queries that a commit may change
    MaxUnencoded,      \* bound on the messages of a connection not encoded
    Faults             \* among "eval", "socket", "durability", "close"

ASSUME NoConnAssumption == NoConn \notin Conns
ASSUME CapacityAssumption ==
    InboxCapacity \in Nat \ {0} /\ OutboundCapacity \in Nat \ {0}
ASSUME BoundsAssumption == MaxTx \in Nat /\ MaxProcedures \in Nat
ASSUME UnencodedAssumption == MaxUnencoded \in [Conns -> Nat]
ASSUME FastReadsAssumption == FastReads \subseteq Conns
ASSUME ChangesAssumption == Changes \subseteq SUBSET Queries
ASSUME FaultsAssumption == Faults \subseteq {"eval", "socket", "durability", "close"}

VARIABLES
    history,    \* the commits, oldest first; the ID is the position
    durable,    \* the durability worker's durable ID
    failed,     \* the durability worker has failed
    subs,       \* Manager.registry: the queries of each connection
    used,       \* the query IDs each client has used; a client uses each once
    dropped,    \* Manager.droppedPending
    exec,       \* the executor: [pc, msg, conn]
    inbox,      \* the fan-out channel
    closed,     \* Manager.fanoutClosed
    cancelled,  \* the fan-out worker's context is cancelled
    work,       \* the fan-out worker: [pc, msg, left, ready, lag]
    fastReads,  \* FanOutWorker.fastReads
    outbound,   \* Conn.OutboundCh
    deferred,   \* Conn.deferredFrames
    holds,      \* Conn.deliveryDeferrals
    calls,      \* procedure calls started, to bound them
    stopped,    \* Conn.outboundStopped
    phase,      \* the connection: "up", "cleaned" (subscriptions removed), "gone"
    cache,      \* what each client holds of each query; None before Applied
    told,       \* the client has received a SubscriptionError
    lost        \* history: the frames owed to each client that were not encoded

executorVars == <<history, subs, used, dropped, exec>>
workerVars == <<inbox, closed, cancelled, work, fastReads>>
connVars == <<outbound, deferred, holds, calls, stopped, phase>>
clientVars == <<cache, told, lost>>
durabilityVars == <<durable, failed>>
vars == <<executorVars, workerVars, connVars, clientVars, durabilityVars>>

None == <<0>>  \* no cached result: not a sequence of transaction IDs

\* How the caller of a committed reducer is answered: no caller (lifecycle,
\* scheduled and procedure calls), a protocol call with each of the flags, a
\* local call in the name of a connection.
Flags == {"none", "full", "quiet", "durable", "local"}

Call == {k \in [caller : Conns \cup {NoConn}, flag : Flags] : k.caller = NoConn <=> k.flag = "none"}

Txs == 1 .. MaxTx

ASSUME CallsAssumption == Calls \in [Txs -> SUBSET Call]

Message ==
    [tx : Txs, fanout : [Conns -> SUBSET Queries], errors : SUBSET Conns,
     caller : Conns \cup {NoConn}, flag : Flags]

NoMessage == [tx |-> 0]

\* Frames: deltas ("light", "heavy"), "failed" (a caller's answer without its
\* delta), "error", "applied", "refused", "unapplied" and "procedure". snapshot is
\* the result an applied frame carries, flag the caller's flag of a delta.
Frame(kind, tx, queries, snapshot, flag) ==
    [kind |-> kind, tx |-> tx, queries |-> queries, snapshot |-> snapshot, flag |-> flag]

\* The result of q after the first n commits.
ResultAt(q, n) == SelectSeq([i \in 1 .. n |-> i], LAMBDA t : q \in history[t].touched)
Result(q) == ResultAt(q, Len(history))

Idle == [pc |-> "idle", msg |-> NoMessage, left |-> {}, ready |-> FALSE, lag |-> NoConn]
Resting == [pc |-> "idle", msg |-> NoMessage, conn |-> NoConn]

Init ==
    /\ history = <<>> /\ durable = 0 /\ failed = FALSE
    /\ subs = [c \in Conns |-> {}] /\ used = [c \in Conns |-> {}]
    /\ dropped = {} /\ exec = Resting
    /\ inbox = <<>> /\ closed = FALSE /\ cancelled = FALSE
    /\ work = Idle /\ fastReads = FastReads
    /\ outbound = [c \in Conns |-> <<>>] /\ deferred = [c \in Conns |-> <<>>]
    /\ holds = [c \in Conns |-> 0] /\ calls = [c \in Conns |-> 0]
    /\ stopped = [c \in Conns |-> FALSE] /\ phase = [c \in Conns |-> "up"]
    /\ cache = [c \in Conns |-> [q \in Queries |-> None]]
    /\ told = [c \in Conns |-> FALSE] /\ lost = [c \in Conns |-> {}]

-----------------------------------------------------------------------------
(* The outbound queue of a connection *)

InManager(c) == phase[c] # "gone"

\* trySendOutbound's test for a full queue: held frames keep their slots.
OutboundFull(c) == Len(outbound[c]) + Len(deferred[c]) >= OutboundCapacity

\* Mutant: the answer of a reducer call passes the hold as a procedure's does.
EnqueuePassing(c, frame) ==
    IF ~InManager(c) \/ stopped[c]
      THEN UNCHANGED <<outbound, deferred>>
      ELSE IF holds[c] > 0 /\ frame.kind \notin {"procedure", "heavy"}
        THEN deferred' = [deferred EXCEPT ![c] = Append(@, frame)] /\ UNCHANGED outbound
        ELSE outbound' = [outbound EXCEPT ![c] = Append(@, frame)] /\ UNCHANGED deferred

\* trySendOutbound, when the connection is found and its queue is not full.
Enqueue(c, frame) ==
    IF ~InManager(c) \/ stopped[c]
      THEN UNCHANGED <<outbound, deferred>>
      ELSE IF holds[c] > 0 /\ frame.kind # "procedure"
        THEN deferred' = [deferred EXCEPT ![c] = Append(@, frame)] /\ UNCHANGED outbound
        ELSE outbound' = [outbound EXCEPT ![c] = Append(@, frame)] /\ UNCHANGED deferred

\* sendOnConn finds the queue of an open connection full.
Overflows(c) == InManager(c) /\ ~stopped[c] /\ OutboundFull(c)

\* EncodeServerMessageWithLimit fails: a message to c cannot be encoded, or is
\* larger than MaxOutboundMessageSize. sendOnConn then returns before it reaches
\* the queue and leaves the connection up. A connection that is down loses the
\* message anyhow.
encodeFails(c) ==
    InManager(c) /\ ~stopped[c] /\ Cardinality(lost[c]) < MaxUnencoded[c]

\* The frame is lost: its error is logged or recorded, and that is all.
lose(c, frame) == encodeFails(c) /\ lost' = [lost EXCEPT ![c] = @ \cup {frame}]

\* stopOutbound: the held frames are discarded.
stopOutbound(c) ==
    /\ stopped' = [stopped EXCEPT ![c] = TRUE]
    /\ deferred' = [deferred EXCEPT ![c] = <<>>]

requestDisconnect(c) == stopOutbound(c)

\* The writer sends a frame and the client applies it.
Applied(cc, frame, q) ==
    CASE frame.kind = "applied" /\ q \in frame.queries -> frame.snapshot
      [] frame.kind = "unapplied" /\ q \in frame.queries -> None
      [] frame.kind \in {"light", "heavy"} /\ q \in frame.queries /\ cc[q] # None ->
            Append(cc[q], frame.tx)
      [] OTHER -> cc[q]

runOutboundWriter(c) ==
    /\ outbound[c] # <<>>
    /\ LET frame == Head(outbound[c]) IN
         /\ cache' = [cache EXCEPT ![c] = [q \in Queries |-> Applied(cache[c], frame, q)]]
         /\ told' = [told EXCEPT ![c] = @ \/ frame.kind = "error"]
    /\ outbound' = [outbound EXCEPT ![c] = Tail(@)]
    /\ UNCHANGED <<executorVars, workerVars, durabilityVars,
                   deferred, holds, calls, stopped, phase, lost>>

\* The socket fails: the writer stops and abandons the queue.
writeFails(c) ==
    /\ "socket" \in Faults /\ (~stopped[c] \/ outbound[c] # <<>>)
    /\ stopOutbound(c)
    /\ outbound' = [outbound EXCEPT ![c] = <<>>]
    /\ UNCHANGED <<executorVars, workerVars, durabilityVars, clientVars, holds, calls, phase>>

-----------------------------------------------------------------------------
(* The executor: postCommit and the subscription commands *)

\* evaluate: of the touched queries some cannot be evaluated. Their subscribers
\* get an error and are signalled as dropped; the others get their updates.
\* One error frame stands for a connection's errors of one commit.
Evaluate(tx, touched, broken, caller, flag) ==
    [tx |-> tx,
     fanout |-> [c \in Conns |-> subs[c] \cap (touched \ broken)],
     errors |-> {c \in Conns : subs[c] \cap broken # {}},
     caller |-> caller, flag |-> flag]

\* NeedsPostCommitBroadcast: an active query and a change, or a caller.
needsBroadcast(touched, caller) ==
    \/ caller # NoConn
    \/ touched # {} /\ \E c \in Conns : subs[c] # {}

\* A reducer commits; postCommit enqueues it for durability, evaluates it and
\* begins to hand the result over, unless the fan-out is closed. After a
\* durability failure EnqueueCommitted panics and nothing is evaluated.
Commit(touched, broken, caller, flag) ==
    /\ exec.pc = "idle" /\ ~failed /\ Len(history) < MaxTx
    /\ touched # {} \/ caller # NoConn
    /\ history' = Append(history, [touched |-> touched, caller |-> caller, flag |-> flag])
    /\ LET msg == Evaluate(Len(history) + 1, touched, broken, caller, flag) IN
         /\ dropped' = dropped \cup msg.errors
         /\ exec' = IF needsBroadcast(touched, caller) /\ ~closed
                      THEN [Resting EXCEPT !.pc = "send", !.msg = msg]
                      ELSE [Resting EXCEPT !.pc = "drain"]
    /\ UNCHANGED <<workerVars, connVars, clientVars, durabilityVars, subs, used>>

\* sendFanOut: blocks until the channel has room or the fan-out is closed.
sendFanOut ==
    /\ exec.pc = "send"
    /\ \/ /\ Len(inbox) < InboxCapacity
          /\ inbox' = Append(inbox, exec.msg)
       \/ closed /\ UNCHANGED inbox
    /\ exec' = [Resting EXCEPT !.pc = "drain"]
    /\ UNCHANGED <<connVars, clientVars, durabilityVars, history, subs, used, dropped,
                   closed, cancelled, work, fastReads>>

drainDroppedClients ==
    /\ exec.pc = "drain"
    /\ subs' = [c \in Conns |-> IF c \in dropped THEN {} ELSE subs[c]]
    /\ dropped' = {}
    /\ exec' = Resting
    /\ UNCHANGED <<workerVars, connVars, clientVars, durabilityVars, history, used>>

\* The executor's own answers; a full queue leads to requestDisconnect, after
\* the queue's lock has been released. An answer that is not encoded is lost and
\* logged; an applied answer was validated before the set was published.
reply(c, frame) ==
    \/ /\ IF Overflows(c)
            THEN exec' = [Resting EXCEPT !.pc = "overflow", !.conn = c] /\ UNCHANGED connVars
            ELSE Enqueue(c, frame) /\ UNCHANGED <<exec, holds, calls, stopped, phase>>
       /\ UNCHANGED lost
    \/ frame.kind = "unapplied" /\ lose(c, frame) /\ UNCHANGED <<exec, connVars>>
    \/ frame.kind = "refused" /\ encodeFails(c) /\ UNCHANGED <<exec, connVars, lost>>

\* A client asks for a query under an ID that it has not used.
Subscribe(c, q) ==
    /\ exec.pc = "idle" /\ phase[c] = "up" /\ q \notin subs[c] /\ q \notin used[c]
    /\ used' = [used EXCEPT ![c] = @ \cup {q}]
    /\ UNCHANGED <<workerVars, cache, told, durabilityVars, history, dropped>>

\* handleRegisterSubscriptionSet. A declared view (ReplyWithError) is
\* unregistered when its answer cannot be delivered, other queries are not; its
\* answer needs the runtime's sender, which a closing runtime has no more.
RegisterSet(c, q, view) ==
    /\ Subscribe(c, q)
    /\ subs' = IF view /\ (Overflows(c) \/ stopped[c] \/ closed)
                 THEN subs ELSE [subs EXCEPT ![c] = @ \cup {q}]
    /\ IF view /\ closed
         THEN UNCHANGED <<exec, connVars, lost>>
         ELSE reply(c, Frame("applied", 0, {q}, Result(q), "none"))

\* handleRegisterSubscriptionSet when PrepareSnapshot cannot encode the initial
\* rows or the answer exceeds the limit: nothing is registered, the answer is an
\* error, which may be lost in its turn.
RefuseSet(c, q) ==
    /\ Subscribe(c, q)
    /\ encodeFails(c)
    /\ reply(c, Frame("refused", 0, {q}, <<>>, "none"))
    /\ UNCHANGED subs

\* handleUnregisterSubscriptionSet. An answer that reports an error of the final
\* evaluation is an answer as well.
UnregisterSet(c, q) ==
    /\ exec.pc = "idle" /\ phase[c] = "up" /\ q \in subs[c]
    /\ subs' = [subs EXCEPT ![c] = @ \ {q}]
    /\ reply(c, Frame("unapplied", 0, {q}, <<>>, "none"))
    /\ UNCHANGED <<workerVars, cache, told, durabilityVars, history, used, dropped>>

\* sendOnConn, after the reply found the queue full.
replyOverflow ==
    /\ exec.pc = "overflow"
    /\ requestDisconnect(exec.conn)
    /\ exec' = Resting
    /\ UNCHANGED <<workerVars, clientVars, durabilityVars, history, subs, used, dropped,
                   outbound, holds, calls, phase>>

-----------------------------------------------------------------------------
(* Procedures hold back what is sent to their connection *)

DeferDelivery(c) ==
    /\ phase[c] = "up" /\ ~stopped[c] /\ calls[c] < MaxProcedures
    /\ calls' = [calls EXCEPT ![c] = @ + 1]
    /\ holds' = [holds EXCEPT ![c] = @ + 1]
    /\ UNCHANGED <<executorVars, workerVars, clientVars, durabilityVars,
                   outbound, deferred, stopped, phase>>

\* Mutant: the last procedure to finish does not release the held frames.
finishProcedureKeeping(c) ==
    /\ holds[c] > 0
    /\ holds' = [holds EXCEPT ![c] = @ - 1]
    /\ UNCHANGED <<executorVars, workerVars, clientVars, durabilityVars, outbound, deferred,
                   calls, stopped, phase>>

ProcedureResponse == Frame("procedure", 0, {}, <<>>, "none")

\* SendDirectResponse of a procedure's response: it is in the queue or not, and the
\* connection is stopped or not. A response over the size limit is replaced by an
\* error, which is a response too; when that does not fit either, or the queue is
\* full, the connection is stopped. Another encoding failure loses the response,
\* and so does a runtime that is closing: it has no sender (readyProtocolSender).
SendDirectResponse(c, sent, stop) ==
    LET open == ~closed /\ InManager(c) /\ ~stopped[c] IN
    \/ sent = (open /\ ~OutboundFull(c)) /\ stop = (open /\ OutboundFull(c))
    \/ ~sent /\ open /\ encodeFails(c)

\* The response bypasses the hold; then finishDeferredDelivery releases what
\* the last hold kept. The two take the queue's lock one after the other; what
\* others send in between is held back like what they sent before, so this is one
\* step.
finishProcedure(c) ==
    /\ holds[c] > 0
    /\ holds' = [holds EXCEPT ![c] = @ - 1]
    /\ \E sent, stop \in BOOLEAN :
         /\ SendDirectResponse(c, sent, stop)
         /\ IF stop
              THEN requestDisconnect(c) /\ UNCHANGED outbound
              ELSE LET out == IF sent THEN Append(outbound[c], ProcedureResponse) ELSE outbound[c]
                       last == holds[c] = 1 /\ ~stopped[c]
                   IN /\ outbound' = [outbound EXCEPT ![c] = IF last THEN out \o deferred[c] ELSE out]
                      /\ deferred' = [deferred EXCEPT ![c] = IF last THEN <<>> ELSE @]
                      /\ UNCHANGED stopped
    /\ UNCHANGED <<executorVars, workerVars, clientVars, durabilityVars, calls, phase>>

-----------------------------------------------------------------------------
(* Conn.Disconnect *)

DisconnectClient(c) ==
    /\ exec.pc = "idle" /\ phase[c] = "up"
    /\ stopped[c] \/ closed \/ "socket" \in Faults
    /\ phase' = [phase EXCEPT ![c] = "cleaned"]
    /\ subs' = [subs EXCEPT ![c] = {}]
    /\ UNCHANGED <<workerVars, clientVars, durabilityVars, history, used, dropped, exec,
                   outbound, deferred, holds, calls, stopped>>

removeConn(c) ==
    /\ phase[c] = "cleaned"
    /\ phase' = [phase EXCEPT ![c] = "gone"]
    /\ stopOutbound(c)
    /\ UNCHANGED <<executorVars, workerVars, clientVars, durabilityVars,
                   outbound, holds, calls>>

-----------------------------------------------------------------------------
(* The fan-out worker: Run and deliver *)

Recipients(msg) == {c \in Conns \ {msg.caller} : msg.fanout[c] # {}}

\* deliver's loops in order: errors, light updates, the caller unless it has
\* been answered. A stage without recipients is passed.
CallerStage(msg, ready) ==
    IF msg.flag = "local"
      THEN [Idle EXCEPT !.pc = "caller", !.msg = msg, !.left = {msg.caller}, !.ready = ready]
      ELSE Idle

LightStage(msg, ready) ==
    IF Recipients(msg) # {}
      THEN [Idle EXCEPT !.pc = "lights", !.msg = msg, !.left = Recipients(msg), !.ready = ready]
      ELSE CallerStage(msg, ready)

\* Mutant: the caller is left out of the errors as it is of the light updates.
ErrorStageWithoutCaller(msg, ready) ==
    IF msg.errors \ {msg.caller} # {}
      THEN [Idle EXCEPT !.pc = "errors", !.msg = msg, !.left = msg.errors \ {msg.caller},
                        !.ready = ready]
      ELSE LightStage(msg, ready)

ErrorStage(msg, ready) ==
    IF msg.errors # {}
      THEN [Idle EXCEPT !.pc = "errors", !.msg = msg, !.left = msg.errors, !.ready = ready]
      ELSE LightStage(msg, ready)

After(w, c) ==
    CASE w.left # {c} -> [w EXCEPT !.left = @ \ {c}]
      [] w.pc = "errors" -> LightStage(w.msg, w.ready)
      [] w.pc = "lights" -> CallerStage(w.msg, w.ready)
      [] OTHER -> Idle

\* Mutant: a fast reader's durable call is answered like any other.
receiveFast ==
    /\ work = Idle /\ inbox # <<>>
    /\ LET msg == Head(inbox)
           waits == msg.flag = "durable" /\ msg.caller \notin fastReads
       IN work' = IF waits THEN [Idle EXCEPT !.pc = "durable", !.msg = msg]
                  ELSE IF msg.flag \in {"full", "durable"}
                         THEN [Idle EXCEPT !.pc = "fast", !.msg = msg]
                         ELSE ErrorStage(msg, FALSE)
    /\ inbox' = Tail(inbox)
    /\ UNCHANGED <<executorVars, connVars, clientVars, durabilityVars,
                   closed, cancelled, fastReads>>

\* Run receives a message; a durable caller is waited for, a fast one answered
\* first, a quiet one not at all.
receive ==
    /\ work = Idle /\ inbox # <<>>
    /\ LET msg == Head(inbox) IN
         work' = CASE msg.flag = "durable" -> [Idle EXCEPT !.pc = "durable", !.msg = msg]
                   [] msg.flag = "full" -> [Idle EXCEPT !.pc = "fast", !.msg = msg]
                   [] OTHER -> ErrorStage(msg, FALSE)
    /\ inbox' = Tail(inbox)
    /\ UNCHANGED <<executorVars, connVars, clientVars, durabilityVars,
                   closed, cancelled, fastReads>>

\* waitForDurable returns true
durableReady == durable >= work.msg.tx

\* waitForDurable returns false
durableLost == cancelled \/ (failed /\ ~durableReady)

\* The wait of a caller that asked for a durable success. When it fails the
\* caller is disconnected and the rest of the message abandoned.
awaitAcknowledgement ==
    /\ work.pc = "durable"
    /\ \/ /\ durableReady
          /\ work' = [work EXCEPT !.pc = "fast", !.ready = TRUE]
          /\ UNCHANGED connVars
       \/ /\ durableLost
          /\ work' = Idle
          /\ IF InManager(work.msg.caller)
               THEN requestDisconnect(work.msg.caller)
               ELSE UNCHANGED <<stopped, deferred>>
          /\ UNCHANGED <<outbound, holds, calls, phase>>
    /\ UNCHANGED <<executorVars, clientVars, durabilityVars, inbox, closed, cancelled, fastReads>>

\* The wait of a confirmed reader: once for all recipients of the message.
awaitDurable ==
    /\ work.lag = NoConn /\ ~work.ready /\ work.left \ fastReads # {}
    /\ \/ durableReady /\ work' = [work EXCEPT !.ready = TRUE]
       \/ durableLost /\ work' = Idle
    /\ UNCHANGED <<executorVars, connVars, clientVars, durabilityVars,
                   inbox, closed, cancelled, fastReads>>

\* handleSendError: the position of the worker after a send to c, which returned
\* err, when w is the next one. A full queue is followed by markDropped; every
\* other error is recorded and changes nothing.
handleSendError(c, err, w) == IF err = "buffer_full" THEN [w EXCEPT !.lag = c] ELSE w

\* sendOnConn with an encoded frame.
sendOnConn(c, frame, w) ==
    /\ IF Overflows(c)
         THEN UNCHANGED connVars
         ELSE Enqueue(c, frame) /\ UNCHANGED <<holds, calls, stopped, phase>>
    /\ work' = handleSendError(c, IF Overflows(c) THEN "buffer_full" ELSE "none", w)

\* A light update or an error that is not encoded is lost, and the client stays
\* connected and subscribed. So is a caller's answer, unless it was its rows that
\* failed or the size limit: then the caller is sent a failure without the delta,
\* or disconnected when the failure exceeds the limit as well.
sendUnencoded(c, frame, w) ==
    \/ /\ lose(c, frame)
       /\ \/ work' = handleSendError(c, "encode_failed", w) /\ UNCHANGED connVars
          \/ /\ frame.kind = "heavy"
             /\ sendOnConn(c, [frame EXCEPT !.kind = "failed", !.queries = {}], w)
    \/ /\ frame.kind = "heavy" /\ encodeFails(c)
       /\ requestDisconnect(c)
       /\ work' = handleSendError(c, "send_failed", w)
       /\ UNCHANGED <<outbound, holds, calls, phase, lost>>

\* FanOutSenderAdapter: one frame to c, the next position of the worker is w.
send(c, frame, w) ==
    /\ \/ sendOnConn(c, frame, w) /\ UNCHANGED lost
       \/ sendUnencoded(c, frame, w)
    /\ UNCHANGED <<executorVars, cache, told, durabilityVars, inbox, closed, cancelled, fastReads>>

delta(kind, c) == Frame(kind, work.msg.tx, work.msg.fanout[c], <<>>, work.msg.flag)

\* FastReply: the caller is answered without waiting for durability.
sendFastReply ==
    /\ work.pc = "fast" /\ work.lag = NoConn
    /\ send(work.msg.caller, delta("heavy", work.msg.caller), ErrorStage(work.msg, work.ready))

deliverTo(c) ==
    /\ work.pc \in {"errors", "lights", "caller"} /\ c \in work.left /\ work.lag = NoConn
    /\ work.ready \/ c \in fastReads
    /\ LET frame == CASE work.pc = "errors" -> Frame("error", work.msg.tx, {}, <<>>, work.msg.flag)
                      [] work.pc = "lights" -> delta("light", c)
                      [] work.pc = "caller" -> delta("heavy", c)
       IN send(c, frame, After(work, c))

\* sendOnConn, after the worker found the queue full: requestDisconnect.
sendOverflow ==
    /\ work.lag # NoConn
    /\ ~stopped[work.lag]
    /\ requestDisconnect(work.lag)
    /\ UNCHANGED <<executorVars, workerVars, clientVars, durabilityVars,
                   outbound, holds, calls, phase>>

\* Mutant: the client is reported as dropped but stays connected.
markDroppedOnly ==
    /\ work.lag # NoConn
    /\ fastReads' = fastReads \ {work.lag}
    /\ dropped' = dropped \cup {work.lag}
    /\ work' = [work EXCEPT !.lag = NoConn]
    /\ UNCHANGED <<connVars, clientVars, durabilityVars, history, subs, used, exec,
                   inbox, closed, cancelled>>

markDropped ==
    /\ work.lag # NoConn
    /\ stopped[work.lag]
    /\ fastReads' = fastReads \ {work.lag}
    /\ dropped' = dropped \cup {work.lag}
    /\ work' = [work EXCEPT !.lag = NoConn]
    /\ UNCHANGED <<connVars, clientVars, durabilityVars, history, subs, used, exec,
                   inbox, closed, cancelled>>

-----------------------------------------------------------------------------
(* Durability and shutdown *)

durableAdvance ==
    /\ ~failed /\ durable < Len(history)
    /\ durable' = durable + 1
    /\ UNCHANGED <<executorVars, workerVars, connVars, clientVars, failed>>

durabilityFails ==
    /\ "durability" \in Faults /\ ~failed /\ durable < Len(history)
    /\ failed' = TRUE
    /\ UNCHANGED <<executorVars, workerVars, connVars, clientVars, durable>>

CloseFanOut ==
    /\ "close" \in Faults /\ ~closed
    /\ closed' = TRUE
    /\ UNCHANGED <<executorVars, connVars, clientVars, durabilityVars,
                   inbox, cancelled, work, fastReads>>

\* Close cancels the worker's context when CloseAll has disconnected every
\* client and the executor has shut down.
fanOutCancel ==
    /\ closed /\ exec.pc = "idle" /\ \A c \in Conns : phase[c] = "gone"
    /\ exec' = [Resting EXCEPT !.pc = "shutdown"]
    /\ cancelled' = TRUE
    /\ UNCHANGED <<connVars, clientVars, durabilityVars, history, subs, used, dropped,
                   inbox, closed, work, fastReads>>

-----------------------------------------------------------------------------

anyCommit ==
    /\ Len(history) < MaxTx
    /\ \E touched \in Changes, call \in Calls[Len(history) + 1] :
        \E broken \in IF "eval" \in Faults THEN SUBSET touched ELSE {{}} :
            Commit(touched, broken, call.caller, call.flag)

ExecutorNext == sendFanOut \/ drainDroppedClients \/ replyOverflow

WorkerNext ==
    \/ receive \/ awaitAcknowledgement \/ awaitDurable \/ sendFastReply
    \/ \E c \in Conns : deliverTo(c)
    \/ sendOverflow \/ markDropped

Next ==
    \/ anyCommit
    \/ ExecutorNext
    \/ WorkerNext
    \/ \E c \in Conns, q \in Queries :
          \/ \E view \in BOOLEAN : RegisterSet(c, q, view)
          \/ RefuseSet(c, q) \/ UnregisterSet(c, q)
    \/ \E c \in Conns :
          \/ runOutboundWriter(c) \/ writeFails(c)
          \/ DeferDelivery(c) \/ finishProcedure(c)
          \/ DisconnectClient(c) \/ removeConn(c)
    \/ durableAdvance \/ durabilityFails
    \/ CloseFanOut \/ fanOutCancel

SafetySpec == Init /\ [][Next]_vars

(* Fairness: the executor, the worker, the durability worker, the procedures and
   the supervisor of a stopped connection are goroutines that can run; a writer
   with a frame writes it or fails (WriteTimeout). Nobody is obliged to commit,
   subscribe, close or fail. *)
Fairness ==
    /\ WF_vars(ExecutorNext) /\ WF_vars(WorkerNext) /\ WF_vars(durableAdvance)
    /\ \A c \in Conns :
          /\ WF_vars(outbound[c] # <<>> /\ (runOutboundWriter(c) \/ writeFails(c)))
          /\ WF_vars(finishProcedure(c))
          /\ WF_vars(stopped[c] /\ DisconnectClient(c)) /\ WF_vars(removeConn(c))

Spec == SafetySpec /\ Fairness

-----------------------------------------------------------------------------
(* Properties *)

TxSeqs == UNION {[1 .. n -> Txs] : n \in 0 .. MaxTx}

TypeOK ==
    /\ Len(history) <= MaxTx /\ durable \in 0 .. Len(history) /\ failed \in BOOLEAN
    /\ subs \in [Conns -> SUBSET Queries] /\ used \in [Conns -> SUBSET Queries]
    /\ dropped \subseteq Conns /\ fastReads \subseteq Conns
    /\ exec.pc \in {"idle", "send", "drain", "overflow", "shutdown"}
    /\ exec.pc = "send" => exec.msg \in Message
    /\ Len(inbox) <= InboxCapacity /\ \A i \in 1 .. Len(inbox) : inbox[i] \in Message
    /\ work.pc \in {"idle", "durable", "fast", "errors", "lights", "caller"}
    /\ work.pc # "idle" => work.msg \in Message
    /\ work.pc \in {"errors", "lights", "caller"} <=> work.left # {}
    /\ holds \in [Conns -> 0 .. MaxProcedures] /\ calls \in [Conns -> 0 .. MaxProcedures]
    /\ stopped \in [Conns -> BOOLEAN] /\ phase \in [Conns -> {"up", "cleaned", "gone"}]
    /\ cache \in [Conns -> [Queries -> TxSeqs \cup {None}]]

\* c is not sent t's change of q: its own quiet call, or a delta not encoded.
Untold(c, q, t) ==
    \/ history[t].caller = c /\ history[t].flag = "quiet"
    \/ \E f \in lost[c] : f.kind \in {"light", "heavy"} /\ f.tx = t /\ q \in f.queries

\* The transactions of s, which changed q, that c is told of.
Visible(c, q, s) == SelectSeq(s, LAMBDA t : ~Untold(c, q, t))

IsPrefixOf(s, t) == Len(s) <= Len(t) /\ s = SubSeq(t, 1, Len(s))

\* What a client holds of a query is the query's result after some commit, but
\* for the deltas that could not be encoded: no other delta is missing between two
\* that were applied, none is applied twice or out of order. Applied answers come
\* from the executor and deltas from the fan-out worker, procedures reorder frames
\* and full queues drop them, so this is the composition of
\* handleRegisterSubscriptionSet, deliver, trySendOutbound and requestDisconnect.
\* A client's own NoSuccessNotify calls are not counted. A durability failure
\* abandons messages and is excluded.
CacheIsAResult ==
    ~failed => \A c \in Conns, q \in Queries :
        cache[c][q] # None => IsPrefixOf(Visible(c, q, cache[c][q]), Visible(c, q, Result(q)))

\* The same without the exemption: what SPEC-005 says dropped deltas would break.
\* It does not hold: a delta that is not encoded is lost, the connection stays up
\* and the next delta is applied over the gap (sendOnConn, handleSendError).
CacheHasNoGap ==
    ~failed => \A c \in Conns, q \in Queries :
        LET counted(s) ==
              SelectSeq(s, LAMBDA t : ~(history[t].caller = c /\ history[t].flag = "quiet"))
        IN cache[c][q] # None => IsPrefixOf(counted(cache[c][q]), counted(Result(q)))

Frames(c) == outbound[c] \o deferred[c]

\* The frames that have to wait for their transaction: what confirmed readers
\* are sent, except a fast reply, and a caller's durable success.
Gated(c, f) ==
    \/ f.kind \in {"heavy", "failed"} /\ f.flag = "durable"
    \/ c \notin FastReads /\ f.kind \in {"light", "error"}
    \/ c \notin FastReads /\ f.kind \in {"heavy", "failed"} /\ f.flag = "local"

\* A confirmed reader is sent the effects of a transaction, and a durable or
\* local caller its success, only when the transaction is on disk, whoever else
\* the message is for (deliver, waitForDurable).
ConfirmedRead ==
    \A c \in Conns : \A i \in 1 .. Len(Frames(c)) :
        Gated(c, Frames(c)[i]) => Frames(c)[i].tx <= durable

\* Every queue keeps to its bounds; in particular what finishDeferredDelivery
\* sends while it holds the queue's lock fits in the channel, so the lock is
\* never held by a blocked sender.
DeferredFits ==
    TypeOK /\ \A c \in Conns : Len(outbound[c]) + Len(deferred[c]) <= OutboundCapacity

\* Frames held back while a procedure runs fit when they are released, and reach
\* the client in the order in which they were made.
HeldFramesAreSound == DeferredFits /\ CacheIsAResult

\* The messages that the executor or the fan-out still has for the worker.
Undelivered ==
    {inbox[i] : i \in 1 .. Len(inbox)}
      \cup (IF exec.pc = "send" THEN {exec.msg} ELSE {})
      \cup (IF work.pc # "idle" THEN {work.msg} ELSE {})

\* The client believes in a subscription to q that the server has removed, and
\* neither an answer to Unsubscribe nor the end of the connection is under way; an
\* answer that was not encoded was asked for.
Orphaned(c, q) ==
    /\ cache[c][q] # None /\ q \notin subs[c] /\ phase[c] = "up" /\ ~stopped[c]
    /\ ~(exec.pc = "overflow" /\ exec.conn = c) /\ work.lag # c
    /\ \A i \in 1 .. Len(Frames(c)) :
          ~(Frames(c)[i].kind = "unapplied" /\ q \in Frames(c)[i].queries)
    /\ \A f \in lost[c] : ~(f.kind = "unapplied" /\ q \in f.queries)

\* No subscription dies in silence: the client of a removed query has been sent
\* an error or will be, unless the error itself could not be encoded. (evaluate,
\* drainDroppedClients, deliver; outside shutdown and durability failures, which
\* abandon messages.)
NoSilentDeath ==
    ~failed /\ ~closed => \A c \in Conns, q \in Queries :
        Orphaned(c, q) =>
            \/ told[c]
            \/ \E i \in 1 .. Len(Frames(c)) : Frames(c)[i].kind = "error"
            \/ \E m \in Undelivered : c \in m.errors
            \/ \E f \in lost[c] : f.kind = "error"

\* Once commits stop, every client that stays connected and subscribed holds
\* the current result of its queries, but for the deltas that could not be
\* encoded: a lost delta delays nothing that follows it.
EventuallyCurrent ==
    <>[](\A c \in Conns, q \in Queries :
            q \in subs[c] /\ ~failed /\ ~closed /\ phase[c] = "up" =>
                /\ cache[c][q] # None
                /\ Visible(c, q, cache[c][q]) = Visible(c, q, Result(q)))
=============================================================================
