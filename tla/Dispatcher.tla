----------------------------- MODULE Dispatcher -----------------------------
(***************************************************************************)
(* The bridge between Drogon's I/O threads and the main R thread.          *)
(*                                                                         *)
(* I/O threads push HTTP requests and WebSocket events onto mutex-guarded  *)
(* queues and then, after the unlock, write one best-effort byte into a    *)
(* non-blocking pipe.  The main R thread watches the pipe through `later'; *)
(* its callback runDispatcher() empties the pipe, swaps out the request    *)
(* queue, answers every request, drains the two event queues and arms the  *)
(* watch again.  The server can be started once per R session and stopped, *)
(* also from inside a handler; WebSocket clients share the same pipe and   *)
(* have a loop thread of their own that outlives the server.               *)
(***************************************************************************)
EXTENDS Naturals, Sequences, FiniteSets

CONSTANTS Requests,   \* the HTTP requests that may arrive
          MaxQueue,   \* max_queue of dr_serve(): capacity of g_queue
          PipeCap,    \* how many wake bytes fit into the pipe
          MaxEvents   \* bound: WebSocket events waiting per event queue

ASSUME DispatcherAssumption ==
    /\ MaxQueue \in Nat \ {0}
    /\ PipeCap \in Nat \ {0}
    /\ MaxEvents \in Nat

VARIABLES
    running, everStarted,     \* g_running, g_everStarted
    pipeOpen,                 \* g_wakePipe[0] # -1, hence g_dispatcherFd >= 0
    bytes,                    \* wake bytes in the pipe
    queue, queueMax,          \* g_queue, g_queueMaxSize (0: unbounded)
    notify,                   \* requests pushed whose wake byte is not written
    wsEvents, wsNotify,       \* server WS events queued / pushed, byte missing
    clientAlive,              \* the WS clients' loop thread runs and may push
    clientEvents, clientNotify,
    pc,                       \* where the main R thread is in runDispatcher
    items,                    \* requests swapped out and not yet answered
    armed, stale,             \* fd watches on the open pipe / on a closed one
    reply,                    \* what each request was answered
    responses                 \* how often its respond callback was invoked

httpVars   == <<queue, queueMax, notify, items, reply, responses>>
wsVars     == <<wsEvents, wsNotify>>
clientVars == <<clientAlive, clientEvents, clientNotify>>
pipeVars   == <<pipeOpen, bytes, armed, stale>>
vars == <<running, everStarted, pc, httpVars, wsVars, clientVars, pipeVars>>

Replies == {"429", "503", "500", "value", "stream"}

\* At load time: nothing started, no pipe, no watch.
Init ==
    /\ running = FALSE /\ everStarted = FALSE
    /\ pipeOpen = FALSE /\ bytes = 0 /\ armed = 0 /\ stale = 0
    /\ queue = <<>> /\ queueMax = 0 /\ notify = {} /\ items = <<>>
    /\ wsEvents = 0 /\ wsNotify = 0
    /\ clientAlive = FALSE /\ clientEvents = 0 /\ clientNotify = 0
    /\ pc = "idle"
    /\ reply = [r \in Requests |-> "none"]
    /\ responses = [r \in Requests |-> 0]
-----------------------------------------------------------------------------
(* The wake pipe.                                                          *)

\* writeWakeByte(): best effort, a full pipe swallows the byte and a closed
\* one (fd -1) makes it a no-op.
MutWriteWakeByte == UNCHANGED bytes

MutWriteNoRoom == bytes' = IF pipeOpen THEN bytes + 1 ELSE bytes

WriteWakeByte ==
    bytes' = IF pipeOpen /\ bytes < PipeCap THEN bytes + 1 ELSE bytes

\* ensureDispatcherRunning(): idempotent; a new pipe gets a first watch.
EnsureDispatcherRunning ==
    /\ pipeOpen' = TRUE
    /\ armed' = IF pipeOpen THEN armed ELSE 1
    /\ UNCHANGED <<bytes, stale>>

\* shutdownDispatcher(): the pipe goes, the close wakes its watches, and
\* resetQueueWakeup() clears the request queue without answering it.
ShutdownDispatcher ==
    /\ pipeOpen' = FALSE
    /\ bytes' = 0
    /\ stale' = stale + armed
    /\ armed' = 0
    /\ queue' = <<>>
-----------------------------------------------------------------------------
(* R code: at top level, inside a handler, or inside a WebSocket hook.     *)

InRCode ==
    \/ pc \in {"idle", "ws", "client"}
    \/ pc = "serve" /\ items # <<>>

\* drogonR_server_start(): once per session.
ServerStart ==
    /\ pc = "idle"
    /\ ~running /\ ~everStarted
    /\ EnsureDispatcherRunning
    /\ queueMax' = MaxQueue
    /\ running' = TRUE /\ everStarted' = TRUE
    /\ UNCHANGED <<pc, queue, notify, items, reply, responses, wsVars, clientVars>>

\* drogonR_server_stop(): quit() and join() return when every I/O thread has
\* finished the handler it was in.  The events of the server's sessions go,
\* the events of WS clients stay.
ServerStop ==
    /\ InRCode
    /\ running
    /\ notify = {} /\ wsNotify = 0
    /\ running' = FALSE
    /\ queueMax' = 0
    /\ ShutdownDispatcher
    /\ wsEvents' = 0
    /\ UNCHANGED <<everStarted, pc, notify, items, reply, responses,
                   wsNotify, clientVars>>

\* drogonR_ws_connect(): brings the dispatcher up if the server has not.
WsConnect ==
    /\ InRCode
    /\ EnsureDispatcherRunning
    /\ clientAlive' = TRUE
    /\ UNCHANGED <<running, everStarted, pc, httpVars, wsVars,
                   clientEvents, clientNotify>>

\* drogonR_ws_shutdown(): joins the clients' loop thread and drops what it
\* queued; stopping a client may itself queue a last event and wake the pipe,
\* which stays open.
WsShutdown ==
    /\ InRCode
    /\ clientAlive
    /\ clientNotify = 0
    /\ clientAlive' = FALSE
    /\ clientEvents' = 0
    /\ WriteWakeByte \/ UNCHANGED bytes
    /\ UNCHANGED <<running, everStarted, pc, httpVars, wsVars, clientNotify,
                   pipeOpen, armed, stale>>
-----------------------------------------------------------------------------
(* Drogon I/O threads: the handler installed by installDrogonHandler().    *)

Respond(r, code) ==
    /\ reply' = [reply EXCEPT ![r] = code]
    /\ responses' = [responses EXCEPT ![r] = @ + 1]

\* enqueueRequest() refuses at capacity; capacity 0 means unbounded.
QueueFull == queueMax > 0 /\ Len(queue) >= queueMax

\* A request that is not queued is answered by the I/O thread: 429 when a
\* rate limiter says no, 503 when enqueueRequest() returned false.
MutHandlerRefuse(r) ==
    /\ running
    /\ reply[r] = "none"
    /\ \/ Respond(r, "429")
       \/ /\ QueueFull
          /\ reply' = [reply EXCEPT ![r] = "pending"]
          /\ UNCHANGED responses
    /\ UNCHANGED <<running, everStarted, pc, queue, queueMax, notify, items,
                   wsVars, clientVars, pipeVars>>

HandlerRefuse(r) ==
    /\ running
    /\ reply[r] = "none"
    /\ \/ Respond(r, "429")
       \/ QueueFull /\ Respond(r, "503")
    /\ UNCHANGED <<running, everStarted, pc, queue, queueMax, notify, items,
                   wsVars, clientVars, pipeVars>>

MutPush(r) == <<r>> \o queue

Push(r) == Append(queue, r)

\* enqueueRequest() under g_queueMutex; the wake byte comes after the unlock.
HandlerEnqueue(r) ==
    /\ running
    /\ reply[r] = "none"
    /\ ~QueueFull
    /\ queue' = Push(r)
    /\ notify' = notify \union {r}
    /\ reply' = [reply EXCEPT ![r] = "pending"]
    /\ UNCHANGED <<running, everStarted, pc, queueMax, items, responses,
                   wsVars, clientVars, pipeVars>>

\* notifyDispatcher() of the thread that pushed r.
NotifyDispatcher(r) ==
    /\ r \in notify
    /\ notify' = notify \ {r}
    /\ WriteWakeByte
    /\ UNCHANGED <<running, everStarted, pc, queue, queueMax, items, reply,
                   responses, wsVars, clientVars, pipeOpen, armed, stale>>

\* enqueueWsEvent() on an I/O thread, and its wake byte.
EnqueueWsEvent ==
    /\ running
    /\ wsEvents < MaxEvents
    /\ wsNotify < MaxEvents
    /\ wsEvents' = wsEvents + 1
    /\ wsNotify' = wsNotify + 1
    /\ UNCHANGED <<running, everStarted, pc, httpVars, clientVars, pipeVars>>

NotifyWsEvent ==
    /\ wsNotify > 0
    /\ wsNotify' = wsNotify - 1
    /\ WriteWakeByte
    /\ UNCHANGED <<running, everStarted, pc, httpVars, wsEvents, clientVars,
                   pipeOpen, armed, stale>>

\* enqueueClientEvent() on the WS clients' own loop thread.
EnqueueClientEvent ==
    /\ clientAlive
    /\ clientEvents < MaxEvents
    /\ clientNotify < MaxEvents
    /\ clientEvents' = clientEvents + 1
    /\ clientNotify' = clientNotify + 1
    /\ UNCHANGED <<running, everStarted, pc, httpVars, wsVars, clientAlive, pipeVars>>

NotifyClientEvent ==
    /\ clientNotify > 0
    /\ clientNotify' = clientNotify - 1
    /\ WriteWakeByte
    /\ UNCHANGED <<running, everStarted, pc, httpVars, wsVars, clientAlive,
                   clientEvents, pipeOpen, armed, stale>>
-----------------------------------------------------------------------------
(* The main R thread: one run of runDispatcher().                          *)

\* drainWakePipe() reads until the pipe is empty; the queue comes after it.
DrainWakePipe ==
    /\ bytes' = 0
    /\ pc' = "swap"

\* later calls back: the pipe is readable ...
DispatchReadable ==
    /\ pc = "idle"
    /\ armed > 0 /\ bytes > 0
    /\ armed' = armed - 1
    /\ DrainWakePipe
    /\ UNCHANGED <<running, everStarted, httpVars, wsVars, clientVars, pipeOpen, stale>>

\* ... or the watch timed out (600 s) ...
DispatchTimeout ==
    /\ pc = "idle"
    /\ armed > 0
    /\ armed' = armed - 1
    /\ DrainWakePipe
    /\ UNCHANGED <<running, everStarted, httpVars, wsVars, clientVars, pipeOpen, stale>>

\* ... or its pipe was closed.  g_dispatcherFd < 0 returns without re-arming,
\* also when dr_stop() runs the callback from inside a handler; if a new pipe
\* is open by now, the old callback serves that one.
DispatchStale ==
    /\ stale > 0
    /\ stale' = stale - 1
    /\ IF pipeOpen THEN pc = "idle" /\ DrainWakePipe
                   ELSE InRCode /\ UNCHANGED <<bytes, pc>>
    /\ UNCHANGED <<running, everStarted, httpVars, wsVars, clientVars, pipeOpen, armed>>

\* drainQueue(): swap under the mutex.
MutDrainQueue ==
    /\ pc = "swap"
    /\ items' = queue
    /\ queue' = <<>>
    /\ pc' = IF queue = <<>> THEN "idle" ELSE "serve"
    /\ UNCHANGED <<running, everStarted, queueMax, notify, reply, responses,
                   wsVars, clientVars, pipeVars>>

DrainQueue ==
    /\ pc = "swap"
    /\ items' = queue
    /\ queue' = <<>>
    /\ pc' = "serve"
    /\ UNCHANGED <<running, everStarted, queueMax, notify, reply, responses,
                   wsVars, clientVars, pipeVars>>

\* One turn of the loop: a missing closure, an R error or a malformed stream
\* is a 500, a drogon_stream answers from startStreamSession(), any other
\* value is converted by buildResponse().
MutServe ==
    /\ pc = "serve" /\ items # <<>>
    /\ items' = Tail(items)
    /\ \E code \in {"500", "value", "stream"} :
        /\ reply' = [reply EXCEPT ![Head(items)] = code]
        /\ responses' = [responses EXCEPT ![Head(items)] =
                            IF code = "stream" THEN @ + 2 ELSE @ + 1]
    /\ UNCHANGED <<running, everStarted, pc, queue, queueMax, notify,
                   wsVars, clientVars, pipeVars>>

Serve ==
    /\ pc = "serve" /\ items # <<>>
    /\ items' = Tail(items)
    /\ \E code \in {"500", "value", "stream"} : Respond(Head(items), code)
    /\ UNCHANGED <<running, everStarted, pc, queue, queueMax, notify,
                   wsVars, clientVars, pipeVars>>

\* drainWsEvents() swaps the events out; their hooks run while pc = "ws".
MutDrainWsEvents ==
    /\ pc = "serve" /\ items = <<>>
    /\ wsEvents' = 0
    /\ bytes' = 0
    /\ pc' = "ws"
    /\ UNCHANGED <<running, everStarted, httpVars, wsNotify, clientVars,
                   pipeOpen, armed, stale>>

DrainWsEvents ==
    /\ pc = "serve" /\ items = <<>>
    /\ wsEvents' = 0
    /\ pc' = "ws"
    /\ UNCHANGED <<running, everStarted, httpVars, wsNotify, clientVars, pipeVars>>

\* drainWsClientEvents(), the same for the clients.
DrainWsClientEvents ==
    /\ pc = "ws"
    /\ clientEvents' = 0
    /\ pc' = "client"
    /\ UNCHANGED <<running, everStarted, httpVars, wsVars, clientAlive,
                   clientNotify, pipeVars>>

\* Re-arm with g_dispatcherFd as it is now: -1 if a handler stopped the server.
Rearm ==
    /\ pc = "client"
    /\ pc' = "idle"
    /\ armed' = IF pipeOpen THEN armed + 1 ELSE armed
    /\ stale' = IF pipeOpen THEN stale ELSE stale + 1
    /\ UNCHANGED <<running, everStarted, httpVars, wsVars, clientVars,
                   pipeOpen, bytes>>
-----------------------------------------------------------------------------
MainThread ==
    \/ DispatchReadable \/ DispatchStale
    \/ DrainQueue \/ Serve \/ DrainWsEvents \/ DrainWsClientEvents \/ Rearm

Next ==
    \/ ServerStart \/ ServerStop \/ WsConnect \/ WsShutdown
    \/ \E r \in Requests :
        HandlerRefuse(r) \/ HandlerEnqueue(r) \/ NotifyDispatcher(r)
    \/ EnqueueWsEvent \/ NotifyWsEvent
    \/ EnqueueClientEvent \/ NotifyClientEvent
    \/ DispatchTimeout
    \/ MainThread

Spec == Init /\ [][Next]_vars

\* Threads keep running and later keeps calling back; nothing is assumed of
\* the watch's 600 s timeout, of clients or of the R program.
Fairness ==
    /\ WF_vars(MainThread)
    /\ \A r \in Requests : WF_vars(NotifyDispatcher(r))
    /\ WF_vars(NotifyWsEvent)
    /\ WF_vars(NotifyClientEvent)

FairSpec == Spec /\ Fairness
-----------------------------------------------------------------------------
(* Properties.                                                             *)

\* Type correctness of the bridge's globals and of the local state of the
\* threads that work on them.
TypeOK ==
    /\ running \in BOOLEAN /\ everStarted \in BOOLEAN /\ pipeOpen \in BOOLEAN
    /\ bytes \in 0..PipeCap
    /\ armed \in Nat /\ stale \in Nat
    /\ queue \in Seq(Requests) /\ items \in Seq(Requests)
    /\ queueMax \in {0, MaxQueue}
    /\ notify \in SUBSET Requests
    /\ wsEvents \in Nat /\ wsNotify \in Nat
    /\ clientAlive \in BOOLEAN /\ clientEvents \in Nat /\ clientNotify \in Nat
    /\ pc \in {"idle", "swap", "serve", "ws", "client"}
    /\ reply \in [Requests -> Replies \union {"none", "pending"}]
    /\ responses \in [Requests -> Nat]

\* No wakeup is lost: whenever the main R thread is out of runDispatcher()
\* while a request or a server WebSocket event is queued, and no thread still
\* has its byte to write, the pipe is readable and watched.  It needs the pipe
\* to be emptied before the queues are (r_dispatcher.cpp:306-308).
NoLostWakeup ==
    (pc = "idle" /\ notify = {} /\ wsNotify = 0 /\ (queue # <<>> \/ wsEvents > 0))
        => pipeOpen /\ bytes > 0 /\ armed > 0

\* The dispatcher never goes deaf: between two runs of runDispatcher() an open
\* pipe has a watch, whatever R code stopped, connected or re-entered.
PipeIsWatched == (pc = "idle" /\ pipeOpen) => armed > 0

\* Watches do not pile up: the one that a stopped server leaves behind may
\* come to watch a new pipe, so there are at most two, never more.
WatchesBounded == armed + stale + (IF pc = "idle" THEN 0 ELSE 1) <= 2

\* The respond callback of a request runs at most once, and exactly once for
\* every request that left the bridge ("exactly once, even on error paths",
\* r_dispatcher.cpp:391-392).
RespondedOnce ==
    \A r \in Requests :
        responses[r] = IF reply[r] \in Replies THEN 1 ELSE 0

InSeq(r, s) == \E i \in 1..Len(s) : s[i] = r

\* While the server runs, a request taken from Drogon and not answered is in
\* the queue or in the dispatcher's hands: it is never silently dropped
\* (r_bridge.h:155-159), through refusals, swaps and R errors.
NeverSilentlyDropped ==
    running => \A r \in Requests :
        reply[r] = "pending" => InSeq(r, queue) \/ InSeq(r, items)

\* At most MaxQueue requests wait in the queue, and at most MaxQueue more are
\* in the hands of the dispatcher.
QueueBounded == Len(queue) <= MaxQueue /\ Len(items) <= MaxQueue

\* Every accepted request is answered, or the server was stopped.
EventuallyAnswered ==
    \A r \in Requests :
        (reply[r] = "pending") ~> (reply[r] \in Replies \/ ~running)

\* WebSocket client events "always have a live pump to drain them"
\* (ws_client.cpp:24-26): a queued client event whose thread has done its part
\* is about to be drained, or the pipe is readable.
ClientEventsHavePump ==
    (clientEvents > 0 /\ clientNotify = 0) =>
        (pipeOpen /\ bytes > 0) \/ pc \in {"swap", "serve", "ws"}

\* The bridge implements the abstract request service: FIFO, nothing lost
\* while the server is up, load shed only with MaxQueue requests waiting.
ServiceOutcome ==
    [r \in Requests |->
        CASE reply[r] = "none" -> "none"
          [] reply[r] = "429" -> "limited"
          [] reply[r] = "503" -> "shed"
          [] reply[r] \in {"500", "value", "stream"} -> "answered"
          [] reply[r] = "pending" ->
                IF InSeq(r, items) \/ InSeq(r, queue) THEN "pending" ELSE "dropped"]

Service == INSTANCE RequestService
    WITH up <- running, pending <- items \o queue, outcome <- ServiceOutcome

ImplementsService == Service!Spec
=============================================================================
