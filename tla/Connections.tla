---------------------------- MODULE Connections ----------------------------
(***************************************************************************)
(* Protocol connections: admission, serving and teardown (protocol/conn.go,*)
(* lifecycle.go, dispatch.go, disconnect.go, keepalive.go, the tail of     *)
(* upgrade.go and executor/protocol_inbox_adapter.go).  For each upgraded  *)
(* socket the goroutine of RunLifecycle, the dispatch loop, one goroutine  *)
(* for each request, the supervisor and ConnManager.CloseAll interleave,   *)
(* and talk to the executor through its bounded inbox.                     *)
(*                                                                         *)
(* A client chooses its ConnectionID, so several sockets may carry the     *)
(* same one, at the same time or one after the other.  What the executor   *)
(* keeps for an ID names the socket it was done for: the row of sys_clients*)
(* and the ID's one subscription set.                                      *)
(***************************************************************************)
EXTENDS Naturals, Sequences, FiniteSets

CONSTANTS
    Conns,                  \* upgraded sockets
    IdOf,                   \* the ConnectionID each one asks for
    NoConn,
    Requests,               \* requests of a client: "call", "subscribe", "unsubscribe"
    IncomingQueueMessages,  \* requests of one connection handled at a time
    InboxCapacity           \* commands the executor's inbox holds

Ids == {IdOf[c] : c \in Conns}
Slots == 1 .. IncomingQueueMessages

VARIABLES
    conns, reserved,  \* ConnManager: the connection of each ID, admitted or being admitted
    admitted,         \* connections between reserve and finishAdmission
    closeAll,         \* CloseAll: "no", "closing", "returned"; conns it tears down
    life,             \* RunLifecycle of each connection
    tear,             \* Disconnect of each connection, under its closeOnce
    stopped,          \* Conn.inboundStopped
    handlerCtx,       \* "live", or "done" once the dispatch loop has returned
    ended,            \* the supervisor's select has a ready case
    work,             \* the handler in each slot of inflightSem
    frames,           \* bound: requests each connection may still send
    executor,         \* "off", "running", "fatal" with Executor.fatal latched,
                      \* "rejecting" while it shuts down, "stopped"
    inbox,            \* its commands
    replies,          \* answers in the response channels that are still read
    clients, subs,    \* sys_clients and the subscription registry
    kept,             \* history: connections whose row a failed lifecycle command left
    faults,           \* bound: failures of the executor's steps that may still happen
    late              \* history: the waits given up, each with its connection

connVars == <<conns, reserved, admitted, closeAll, life, tear, stopped, handlerCtx, ended,
          work, frames, executor, inbox, replies, clients, subs, kept,
          faults, late>>

managerVars == <<conns, reserved, admitted, closeAll>>
servingVars == <<stopped, handlerCtx, ended, work, frames>>
executorVars == <<executor, clients, subs, kept, faults>>

Free == [kind |-> "free", at |-> "free"]

\* Mutant: a connection counts as closed as soon as its teardown begins.
ClosedEarly(c) == tear[c] # "none"

Closed(c) == tear[c] = "closed"

\* Clients may dial, and send so many requests each; the executor may fail so often.
ConnInit(dialing, requests, exec, failures) ==
    /\ conns = [id \in Ids |-> NoConn] /\ reserved = conns
    /\ admitted = {}
    /\ closeAll = [pc |-> "no", left |-> {}]
    /\ life = [c \in Conns |-> IF c \in dialing THEN "dialing" ELSE "over"]
    /\ tear = [c \in Conns |-> "none"]
    /\ stopped = [c \in Conns |-> FALSE] /\ ended = stopped
    /\ handlerCtx = [c \in Conns |-> "live"]
    /\ work = [c \in Conns |-> [s \in Slots |-> Free]]
    /\ frames = requests
    /\ executor = exec /\ inbox = <<>>
    /\ replies = [c \in Conns |-> {}]
    /\ clients = [id \in Ids |-> NoConn] /\ subs = clients
    /\ kept = {} /\ late = {} /\ faults = failures

Set(f, c, value) == f' = [f EXCEPT ![c] = value]

-----------------------------------------------------------------------------
(* HandleSubscribe authenticates and upgrades the request, or refuses it.  *)

HandleSubscribe(c) ==
    /\ life[c] = "dialing"
    /\ life' \in {[life EXCEPT ![c] = to] : to \in {"upgraded", "over"}}
    /\ UNCHANGED <<managerVars, tear, servingVars, inbox, replies, executorVars, late>>

-----------------------------------------------------------------------------
(* ConnManager.                                                            *)

InUse(c) ==
    LET id == IdOf[c] IN
    \/ conns[id] \notin {NoConn, c} /\ ~Closed(conns[id])
    \/ reserved[id] \notin {NoConn, c}

\* RunLifecycle claims the ID, or the socket is closed.
reserve(c) ==
    /\ life[c] = "upgraded"
    /\ IF closeAll.pc # "no" \/ InUse(c)
       THEN Set(life, c, "over") /\ UNCHANGED <<reserved, admitted>>
       ELSE /\ Set(life, c, "connect")
            /\ Set(reserved, IdOf[c], c)
            /\ admitted' = admitted \cup {c}
    /\ UNCHANGED <<conns, closeAll, tear, servingVars, inbox, replies, executorVars, late>>

Unreserved(c) == [reserved EXCEPT ![IdOf[c]] = IF @ = c THEN NoConn ELSE @]

\* What RunLifecycle's deferred call does, whatever it returns.
finishAdmission(c, then) ==
    /\ Set(life, c, then)
    /\ reserved' = Unreserved(c)
    /\ admitted' = admitted \ {c}

\* Add, after OnConnect was accepted: visible to deliveries, or torn down.
Add(c) ==
    /\ life[c] = "add"
    /\ IF closeAll.pc # "no"
       THEN /\ Set(life, c, "failed") /\ Set(tear, c, "drain") /\ Set(stopped, c, TRUE)
            /\ UNCHANGED <<conns, reserved>>
       ELSE /\ Set(life, c, "token")
            /\ Set(conns, IdOf[c], c)
            /\ Set(reserved, IdOf[c], NoConn)
            /\ UNCHANGED <<tear, stopped>>
    /\ UNCHANGED <<admitted, closeAll, handlerCtx, ended, work, frames, inbox, replies, executorVars, late>>

\* CloseAll stops the admissions and the requests, then disconnects everyone.
CloseAll ==
    /\ closeAll.pc = "no"
    /\ LET live == {conns[id] : id \in Ids} \ {NoConn} IN
       /\ closeAll' = [pc |-> "closing", left |-> live]
       /\ stopped' = [c \in Conns |-> stopped[c] \/ c \in live]
    /\ UNCHANGED <<conns, reserved, admitted, life, tear, handlerCtx, ended, work, frames,
                   inbox, replies, executorVars, late>>

\* It waits for the teardowns, and for the admissions until its context expires.
CloseAllReturns ==
    /\ closeAll.pc = "closing"
    /\ \A c \in closeAll.left : Closed(c)
    /\ \/ admitted = {} /\ UNCHANGED late
       \/ admitted # {} /\ late' = late \cup {<<NoConn, "closeAll">>}
    /\ closeAll' = [pc |-> "returned", left |-> {}]
    /\ UNCHANGED <<conns, reserved, admitted, life, tear, servingVars, inbox, replies, executorVars>>

-----------------------------------------------------------------------------
(* The executor's inbox.                                                   *)

Command(kind, c, slot) == [kind |-> kind, conn |-> c, slot |-> slot]

\* A latched executor admits and executes nothing but the end of a connection.
FatalCleanup == {"drop", "disconnect"}
Admits(kind) == executor = "running" \/ (executor = "fatal" /\ kind \in FatalCleanup)

\* A command is admitted before it waits for room: one admitted before the latch
\* gets in, and is rejected by dispatch.
Send(cmd) ==
    /\ executor \in {"running", "fatal"} /\ Len(inbox) < InboxCapacity
    /\ inbox' = Append(inbox, cmd)

\* An answer stays in its channel, unread, once the wait for it was given up.
Awaited(c, answer) ==
    \/ life[c] = "connecting" /\ answer \in {"connected", "refused"}
    \/ tear[c] = "dropping" /\ answer = "dropped"
    \/ tear[c] = "leaving" /\ answer = "disconnected"

Reply(c, answer) == replies' = IF Awaited(c, answer) THEN [replies EXCEPT ![c] = {answer}] ELSE replies
Receive(c, answer) == answer \in replies[c] /\ replies' = [replies EXCEPT ![c] = {}]

Fault == faults > 0 /\ faults' = faults - 1

\* What follows a commit may panic, which latches the executor.
postCommit ==
    \/ UNCHANGED <<executor, faults>>
    \/ Fault /\ executor' = "fatal"

\* A failure of the durability worker, found by the next command.
latchDurabilityFatal ==
    /\ Fault /\ executor = "running" /\ executor' = "fatal"
    /\ UNCHANGED <<managerVars, life, tear, servingVars, inbox, replies, clients, subs, kept, late>>

\* OnConnectCmd: the row is new and the module's reducer agrees, or nothing
\* changes; a panic after the commit refuses a client whose row is there.
handleOnConnect(c) ==
    /\ \/ /\ clients[IdOf[c]] = NoConn /\ Set(clients, IdOf[c], c)
          /\ postCommit /\ Reply(c, "connected") /\ UNCHANGED kept
       \/ /\ clients[IdOf[c]] = NoConn /\ Set(clients, IdOf[c], c)
          /\ Fault /\ executor' = "fatal" /\ Reply(c, "refused") /\ kept' = kept \cup {c}
       \/ Reply(c, "refused") /\ UNCHANGED <<executor, clients, kept, faults>>
    /\ UNCHANGED <<subs, work>>

\* OnDisconnectCmd: the row goes, whatever the module's reducer did, unless the
\* delete or its commit fails; the answer ends the caller's wait in any case.
handleOnDisconnect(c) ==
    /\ \/ Set(clients, IdOf[c], NoConn) /\ postCommit /\ UNCHANGED kept
       \/ Fault /\ kept' = kept \cup ({clients[IdOf[c]]} \cap {c}) /\ UNCHANGED <<executor, clients>>
    /\ Reply(c, "disconnected")
    /\ UNCHANGED <<subs, work>>

handleDisconnectClientSubscriptions(c) ==
    /\ Set(subs, IdOf[c], NoConn)
    /\ Reply(c, "dropped")
    /\ UNCHANGED <<executor, clients, kept, faults, work>>

\* A cancelled request registers nothing, and neither does a set that exists.
handleRegisterSubscriptionSet(c) ==
    /\ IF handlerCtx[c] = "live" /\ subs[IdOf[c]] = NoConn THEN Set(subs, IdOf[c], c) ELSE UNCHANGED subs
    /\ UNCHANGED <<executor, clients, kept, faults, work, replies>>

handleUnregisterSubscriptionSet(c) ==
    /\ IF handlerCtx[c] = "live" THEN Set(subs, IdOf[c], NoConn) ELSE UNCHANGED subs
    /\ UNCHANGED <<executor, clients, kept, faults, work, replies>>

Answered(cmd) == work' = [work EXCEPT ![cmd.conn][cmd.slot].at = "answered"]

handleCallReducer(cmd) ==
    /\ Answered(cmd) /\ postCommit
    /\ UNCHANGED <<clients, subs, kept, replies>>

\* An error is the answer, and nothing else is done.
rejectCommand(cmd) ==
    LET answer == [connect |-> "refused", disconnect |-> "disconnected", drop |-> "dropped"] IN
    /\ IF cmd.kind = "call" THEN Answered(cmd) ELSE UNCHANGED work
    /\ IF cmd.kind \in DOMAIN answer THEN Reply(cmd.conn, answer[cmd.kind]) ELSE UNCHANGED replies
    /\ UNCHANGED executorVars

dispatch(cmd) ==
    \/ ~Admits(cmd.kind) /\ rejectCommand(cmd)
    \/ /\ Admits(cmd.kind)
       /\ \/ cmd.kind = "connect" /\ handleOnConnect(cmd.conn)
          \/ cmd.kind = "disconnect" /\ handleOnDisconnect(cmd.conn)
          \/ cmd.kind = "drop" /\ handleDisconnectClientSubscriptions(cmd.conn)
          \/ cmd.kind = "subscribe" /\ handleRegisterSubscriptionSet(cmd.conn)
          \/ cmd.kind = "unsubscribe" /\ handleUnregisterSubscriptionSet(cmd.conn)
          \/ cmd.kind = "call" /\ handleCallReducer(cmd)

Execute ==
    /\ executor \in {"running", "fatal"} /\ inbox # <<>>
    /\ inbox' = Tail(inbox)
    /\ dispatch(Head(inbox))
    /\ UNCHANGED <<managerVars, life, tear, stopped, handlerCtx, ended, frames, late>>

\* Shutdown rejects every queued command; what it would have ended stays.
rejectPending ==
    /\ executor = "rejecting" /\ inbox # <<>>
    /\ inbox' = Tail(inbox)
    /\ rejectCommand(Head(inbox))
    /\ late' = late \cup ({<<Head(inbox).conn, Head(inbox).kind>>} \cap (Conns \X FatalCleanup))
    /\ UNCHANGED <<managerVars, life, tear, stopped, handlerCtx, ended, frames>>

-----------------------------------------------------------------------------
(* RunLifecycle, in the upgrade handler.                                   *)

\* OnConnect waits for room in the inbox and then for the answer; the request's
\* context, or a full inbox that rejects, ends either wait, and an executor that
\* does not admit the command refuses it at once.
OnConnect(c) ==
    /\ \/ life[c] = "connect" /\ Send(Command("connect", c, 0))
          /\ Set(life, c, "connecting") /\ UNCHANGED <<reserved, admitted, replies>>
       \/ life[c] = "connecting" /\ Receive(c, "connected")
          /\ Set(life, c, "add") /\ UNCHANGED <<reserved, admitted, inbox>>
       \/ life[c] = "connecting" /\ Receive(c, "refused")
          /\ finishAdmission(c, "over") /\ UNCHANGED inbox
       \/ life[c] = "connect" /\ ~Admits("connect")
          /\ finishAdmission(c, "over") /\ UNCHANGED <<inbox, replies>>
    /\ UNCHANGED <<conns, closeAll, tear, servingVars, executorVars, late>>

OnConnectCanceled(c) ==
    /\ life[c] \in {"connect", "connecting"}
    /\ finishAdmission(c, "over")
    /\ late' = IF life[c] = "connecting" THEN late \cup {<<c, "connect">>} ELSE late
    /\ Set(replies, c, {})
    /\ UNCHANGED <<conns, closeAll, tear, servingVars, inbox, executorVars>>

\* The identity token is written and the connection served, or it is torn down.
writeIdentityToken(c) ==
    /\ life[c] = "token"
    /\ \/ finishAdmission(c, "up") /\ UNCHANGED <<tear, stopped>>
       \/ /\ Set(life, c, "unwritten")
          /\ IF tear[c] = "none" THEN Set(tear, c, "drain") /\ Set(stopped, c, TRUE)
                                 ELSE UNCHANGED <<tear, stopped>>
          /\ UNCHANGED <<reserved, admitted>>
    /\ UNCHANGED <<conns, closeAll, handlerCtx, ended, work, frames, inbox, replies, executorVars, late>>

RunLifecycleFails(c) ==
    /\ life[c] \in {"failed", "unwritten"} /\ Closed(c)
    /\ finishAdmission(c, "over")
    /\ UNCHANGED <<conns, closeAll, tear, servingVars, inbox, replies, executorVars, late>>

-----------------------------------------------------------------------------
(* Serving: the dispatch loop, the handlers of requests, keep-alive.       *)

requestDisconnect(c) == Set(stopped, c, TRUE) /\ Set(ended, c, TRUE)

\* A frame starts a handler; one too many closes the connection.
runDispatchLoop(c) ==
    /\ life[c] = "up" /\ handlerCtx[c] = "live" /\ ~stopped[c] /\ frames[c] > 0
    /\ \/ \E s \in Slots, r \in Requests :
            /\ work[c][s] = Free
            /\ work' = [work EXCEPT ![c][s] = [kind |-> r, at |-> "begin"]]
            /\ Set(frames, c, frames[c] - 1)
            /\ UNCHANGED <<stopped, handlerCtx, ended>>
       \/ /\ \A s \in Slots : work[c][s] # Free
          /\ requestDisconnect(c) /\ Set(handlerCtx, c, "done") /\ Set(frames, c, 0) /\ UNCHANGED work
    /\ UNCHANGED <<managerVars, life, tear, inbox, replies, executorVars, late>>

\* The loop returns: the peer left, sent nonsense, or the connection is stopped.
dispatchReturns(c) ==
    /\ life[c] = "up" /\ handlerCtx[c] = "live"
    /\ Set(handlerCtx, c, "done") /\ Set(ended, c, TRUE) /\ Set(frames, c, 0)
    /\ UNCHANGED <<managerVars, life, tear, stopped, work, inbox, replies, executorVars, late>>

\* An idle connection, a panicking handler and a full outbound queue end it too.
runKeepalive(c) ==
    /\ conns[IdOf[c]] = c /\ ~ended[c]
    /\ requestDisconnect(c)
    /\ UNCHANGED <<managerVars, life, tear, handlerCtx, work, frames, inbox, replies, executorVars, late>>

\* submit: the context is checked, then room in the inbox and cancellation race.
submit(c, s) ==
    LET w == work[c][s]
        at(stage) == work' = [work EXCEPT ![c][s] = IF stage = "free" THEN Free ELSE [w EXCEPT !.at = stage]]
    IN
    /\ \/ w.at = "begin" /\ at(IF handlerCtx[c] = "done" THEN "free" ELSE "send") /\ UNCHANGED inbox
       \/ w.at = "send" /\ Send(Command(w.kind, c, s)) /\ at(IF w.kind = "call" THEN "wait" ELSE "free")
       \/ /\ w.at = "send" /\ (handlerCtx[c] = "done" \/ ~Admits(w.kind))
          /\ at("free") /\ UNCHANGED inbox
    /\ UNCHANGED <<managerVars, life, tear, stopped, handlerCtx, ended, frames, replies, executorVars, late>>

\* CallReducer keeps the handler until the executor has answered.
deliverReducerResponse(c, s) ==
    /\ work[c][s].at = "answered"
    /\ work' = [work EXCEPT ![c][s] = Free]
    /\ UNCHANGED <<managerVars, life, tear, stopped, handlerCtx, ended, frames, inbox, replies,
                   executorVars, late>>

-----------------------------------------------------------------------------
(* Disconnect, once for each connection, with a bounded wait at each step. *)

Supervised(c) == life[c] = "up" /\ ended[c]

\* superviseLifecycle, or a goroutine of CloseAll, enters the closeOnce.
Disconnect(c) ==
    /\ tear[c] = "none"
    /\ Supervised(c) \/ (closeAll.pc = "closing" /\ c \in closeAll.left)
    /\ Set(tear, c, "drain") /\ Set(stopped, c, TRUE)
    /\ UNCHANGED <<managerVars, life, handlerCtx, ended, work, frames, inbox, replies, executorVars, late>>

Drained(c) == \A s \in Slots : work[c][s] = Free

\* Mutant: the teardown does not wait for the handlers of requests.
waitInboundHandlersSkipped(c) ==
    /\ tear[c] = "drain"
    /\ Set(tear, c, "drop")
    /\ UNCHANGED <<managerVars, life, servingVars, inbox, replies, executorVars, late>>

waitInboundHandlers(c) ==
    /\ tear[c] = "drain" /\ Drained(c)
    /\ Set(tear, c, "drop")
    /\ UNCHANGED <<managerVars, life, servingVars, inbox, replies, executorVars, late>>

DisconnectClientSubscriptions(c) ==
    /\ \/ tear[c] = "drop" /\ Send(Command("drop", c, 0)) /\ Set(tear, c, "dropping") /\ UNCHANGED replies
       \/ tear[c] = "dropping" /\ Receive(c, "dropped") /\ Set(tear, c, "bye") /\ UNCHANGED inbox
    /\ UNCHANGED <<managerVars, life, servingVars, executorVars, late>>

OnDisconnect(c) ==
    /\ \/ tear[c] = "bye" /\ Send(Command("disconnect", c, 0)) /\ Set(tear, c, "leaving") /\ UNCHANGED replies
       \/ tear[c] = "leaving" /\ Receive(c, "disconnected") /\ Set(tear, c, "remove") /\ UNCHANGED inbox
    /\ UNCHANGED <<managerVars, life, servingVars, executorVars, late>>

WaitOf == [drain |-> "drain", drop |-> "drop", dropping |-> "drop", bye |-> "disconnect", leaving |-> "disconnect"]
AfterExpiry == [drain |-> "drop", drop |-> "bye", dropping |-> "bye", bye |-> "remove", leaving |-> "remove"]

\* Each wait of the teardown has a share of the disconnect timeout; an executor
\* that is shut down refuses the command at once, and the teardown goes on alike.
disconnectTimeout(c) ==
    /\ tear[c] \in DOMAIN AfterExpiry
    /\ tear[c] = "drain" => ~Drained(c)
    /\ Set(tear, c, AfterExpiry[tear[c]])
    /\ late' = late \cup {<<c, WaitOf[tear[c]]>>}
    /\ Set(replies, c, {})
    /\ UNCHANGED <<managerVars, life, servingVars, inbox, executorVars>>

\* Remove drops the ID's entry; a connection that was never added has none.
Remove(c) ==
    /\ tear[c] = "remove"
    /\ Set(tear, c, "removed")
    /\ IF life[c] = "failed" THEN UNCHANGED conns ELSE Set(conns, IdOf[c], NoConn)
    /\ UNCHANGED <<reserved, admitted, closeAll, life, servingVars, inbox, replies, executorVars, late>>

closeTransport(c) ==
    /\ tear[c] = "removed"
    /\ Set(tear, c, "closed")
    /\ UNCHANGED <<managerVars, life, servingVars, inbox, replies, executorVars, late>>

\* The supervisor returns when the connection's goroutines have.
superviseLifecycle(c) ==
    /\ Supervised(c) /\ Closed(c) /\ handlerCtx[c] = "done"
    /\ Set(life, c, "over")
    /\ UNCHANGED <<managerVars, tear, servingVars, inbox, replies, executorVars, late>>

-----------------------------------------------------------------------------
Teardown(c) ==
    \/ Disconnect(c) \/ waitInboundHandlers(c) \/ DisconnectClientSubscriptions(c) \/ OnDisconnect(c)
    \/ disconnectTimeout(c) \/ Remove(c) \/ closeTransport(c) \/ superviseLifecycle(c)

Admission(c) ==
    reserve(c) \/ OnConnect(c) \/ OnConnectCanceled(c) \/ Add(c) \/ writeIdentityToken(c)
    \/ RunLifecycleFails(c)

Serving(c) ==
    \/ runDispatchLoop(c) \/ dispatchReturns(c) \/ runKeepalive(c)
    \/ \E s \in Slots : submit(c, s) \/ deliverReducerResponse(c, s)

\* The steps of the connections in a runtime that is up, or going down.
ConnNext ==
    \/ \E c \in Conns : Admission(c) \/ Serving(c) \/ Teardown(c)
    \/ Execute \/ latchDurabilityFatal \/ rejectPending

-----------------------------------------------------------------------------
ConnTypeOK ==
    /\ conns \in [Ids -> Conns \cup {NoConn}] /\ reserved \in [Ids -> Conns \cup {NoConn}]
    /\ clients \in [Ids -> Conns \cup {NoConn}] /\ subs \in [Ids -> Conns \cup {NoConn}]
    /\ admitted \subseteq Conns /\ kept \subseteq Conns
    /\ faults \in Nat
    /\ late \subseteq (Conns \X {"connect", "drain", "drop", "disconnect"}) \cup {<<NoConn, "closeAll">>}
    /\ executor \in {"off", "running", "fatal", "rejecting", "stopped"}
    /\ closeAll \in [pc : {"no", "closing", "returned"}, left : SUBSET Conns]
    /\ life \in [Conns -> {"dialing", "upgraded", "connect", "connecting", "add", "token", "up", "failed",
                           "unwritten", "over"}]
    /\ tear \in [Conns -> {"none", "drain", "drop", "dropping", "bye", "leaving", "remove",
                           "removed", "closed"}]
    /\ stopped \in [Conns -> BOOLEAN] /\ ended \in [Conns -> BOOLEAN]
    /\ handlerCtx \in [Conns -> {"live", "done"}]
    /\ frames \in [Conns -> Nat]
    /\ Len(inbox) <= InboxCapacity

Ended(c) == tear[c] \in {"remove", "removed", "closed"} \/ (life[c] = "over" /\ tear[c] = "none")

\* OnDisconnect of the connection was not executed yet.
Connected(c) ==
    \/ tear[c] \in {"none", "drain", "drop", "dropping", "bye"}
    \/ \E i \in DOMAIN inbox : inbox[i] = Command("disconnect", c, 0)

\* A served connection is the one deliveries to its ID reach, from Add until its
\* teardown removes it, and it owns the row of sys_clients until its OnDisconnect
\* is executed: no teardown or late command of another connection with the same
\* ID, even one whose waits were given up, takes either away (conn.go Remove
\* deletes by ID), and neither does an executor that is latched.
ServedIsRegistered ==
    \A c \in Conns :
      life[c] \in {"token", "up", "unwritten"} =>
        /\ tear[c] \notin {"removed", "closed"} => conns[IdOf[c]] = c
        /\ Connected(c) => clients[IdOf[c]] = c

GaveUp(c, waits) == \E wait \in waits : <<c, wait>> \in late

\* The waits that end when a command of each kind was executed.
AwaitedBy == [connect |-> {"connect"}, drop |-> {"drop"}, disconnect |-> {"disconnect"},
              call |-> {"drain"}, subscribe |-> {"drain", "drop"}, unsubscribe |-> {"drain", "drop"}]

\* When RunLifecycle refused a connection, or Disconnect reached the end of its
\* executor work, what is left of it is what the wait for it was given up for: a
\* subscription only if the handlers or the dropping were not awaited, a queued
\* command only if its own answer was not, a running handler only if the drain
\* was not, so "an accepted reducer cannot commit after the client lifecycle has
\* already been torn down"; and a row of sys_clients only if the answer of a
\* lifecycle command was not awaited or was an error (kept).
NothingOutlivesTeardown ==
    \A c \in Conns : Ended(c) =>
        /\ clients[IdOf[c]] = c => c \in kept \/ GaveUp(c, {"connect", "disconnect"})
        /\ subs[IdOf[c]] = c => GaveUp(c, {"drain", "drop"})
        /\ \A i \in DOMAIN inbox : inbox[i].conn = c => GaveUp(c, AwaitedBy[inbox[i].kind])
        /\ Drained(c) \/ GaveUp(c, {"drain"})

\* The comment of dispatch (executor.go) on the cleanup commands, "so fatal state
\* cannot strand subscription ownership or sys_clients rows": unless a wait was
\* given up, a row is that of a connection which has not ended.  A client refused
\* after the commit of its row violates it, and so does a cleanup that fails.
NoRowStranded ==
    \A c \in Conns : Ended(c) /\ clients[IdOf[c]] = c => GaveUp(c, {"connect", "disconnect"})

\* After CloseAll returns no connection is registered, and unless its context
\* expired first none is being admitted: the runtime then stops the executor.
CloseAllIsComplete ==
    closeAll.pc = "returned" =>
        /\ \A id \in Ids : conns[id] = NoConn
        /\ <<NoConn, "closeAll">> \notin late =>
             /\ admitted = {} /\ \A id \in Ids : reserved[id] = NoConn
             /\ \A c \in Conns : life[c] = "up" => Ended(c)

\* "a hung inbox cannot stall local cleanup": while a connection that one of its
\* goroutines ended is not gone, or CloseAll has not returned, some step that
\* needs nothing of the executor is possible.  Each connection takes finitely
\* many of them, so neither waits for ever on an executor that hangs.
CleanupNeverStalls ==
    /\ \A c \in Conns : Supervised(c) => ENABLED (Teardown(c) \/ dispatchReturns(c))
    /\ closeAll.pc = "closing" =>
         ENABLED CloseAllReturns \/ \E c \in closeAll.left : ~Closed(c) /\ ENABLED Teardown(c)

=============================================================================
