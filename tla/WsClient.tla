------------------------------ MODULE WsClient ------------------------------
(***************************************************************************)
(* Outgoing WebSocket connections (dr_ws_connect()).  The main R thread    *)
(* owns the table of clients and their R hooks; a loop thread of its own   *)
(* connects, upgrades, receives and reconnects, and hands events to the    *)
(* main thread through a queue.  Drogon's client object outlives its table *)
(* entry as long as a task, a timer or the resolver holds it.  How the     *)
(* queue wakes the main thread is in Dispatcher.                           *)
(***************************************************************************)
EXTENDS Integers, Sequences, FiniteSets

CONSTANTS Clients,    \* ids g_nextClientId gives out; each connects once
          NoClient,   \* none of them
          MaxEvents   \* bound: events the network adds while main is busy

\* What instances of this module assume of the constants.
WsClientAssumption == IsFiniteSet(Clients) /\ NoClient \notin Clients /\ MaxEvents \in Nat \ {0}

VARIABLES
    entry,      \* g_wsClients: none / live / gone
    hooks,      \* R_PreserveObject() minus R_ReleaseObject() per client
    closing,    \* WsClient::closing
    stopped,    \* WebSocketClientImpl::stop_
    ws,         \* websockConnPtr_ is set
    tcp,        \* tcpClientPtr_: none / connecting / open / idle (lost)
    conn,       \* the TcpConnection: none / up / upgraded
    tasks,      \* functions queued on the client loop
    resolving,  \* clients a resolver thread looks up the host for
    timers,     \* clients with a reconnect timer
    loop,       \* g_wsClientLoop: none / running
    events,     \* g_wsClientEvents
    batch,      \* the events drainWsClientEvents() swapped out
    inHook,     \* an R hook runs for Head(batch)
    inStop,     \* the client main is inside stop() of, or NoClient
    down,       \* main is inside shutdownWsClients()
    shutting,   \* the clients it has still to stop
    lost,       \* lookups in progress whose loop was destroyed meanwhile
    deadLoop,   \* history: a destroyed loop was used
    heard       \* history: the last hook called per client

tableVars == <<entry, hooks, closing>>
implVars  == <<stopped, ws, tcp, conn, tasks, resolving, timers, loop>>
mainVars  == <<batch, inHook, inStop, down, shutting>>
ghosts == <<lost, deadLoop>>
vars == <<tableVars, implVars, events, mainVars, ghosts, heard>>

Task(f, c) == [do |-> f, client |-> c]

Event(t, c) == [type |-> t, client |-> c]

Init ==
    /\ entry = [c \in Clients |-> "none"]
    /\ hooks = [c \in Clients |-> 0]
    /\ closing = [c \in Clients |-> FALSE]
    /\ stopped = [c \in Clients |-> FALSE]
    /\ ws = [c \in Clients |-> FALSE]
    /\ tcp = [c \in Clients |-> "none"]
    /\ conn = [c \in Clients |-> "none"]
    /\ tasks = <<>> /\ resolving = {} /\ timers = {} /\ loop = "none"
    /\ lost = {} /\ deadLoop = FALSE
    /\ events = <<>> /\ batch = <<>> /\ inHook = FALSE
    /\ inStop = NoClient /\ down = FALSE /\ shutting = {}
    /\ heard = [c \in Clients |-> "nothing"]

\* R code runs: at top level or inside a hook, and not inside a native call.
RFree == inStop = NoClient /\ ~down /\ (batch = <<>> \/ inHook)

\* Who keeps the WebSocketClientImpl of c alive: the table, a queued connect
\* or send, the resolver's callback, the reconnect timer.
Held(c, ent, tsk, res, tim) ==
    \/ ent[c] = "live"
    \/ \E i \in DOMAIN tsk : tsk[i].client = c /\ tsk[i].do \in {"connect", "resolved", "send"}
    \/ c \in res \/ c \in tim

Alive(c) == Held(c, entry, tasks, resolving, timers)

\* A plausible bug: the connection of a destroyed client is left alone.
MutTcpClientGone(c, tsk) == tsk

\* TcpClient::~TcpClient() on the main thread: a connection is closed by the
\* loop later, a connector is told to stop and will call nothing any more.
TcpClientGone(c, tsk) ==
    IF tcp[c] = "open" THEN Append(tsk, Task("forceClose", c)) ELSE tsk

\* The connection callback with a closed connection, impl still alive.
Closed(c, stop) ==
    /\ events' = Append(events, Event("Close", c))
    /\ ws' = [ws EXCEPT ![c] = FALSE]
    /\ timers' = IF stop THEN timers ELSE timers \union {c}
-----------------------------------------------------------------------------
(* R calls, main thread.                                                   *)

\* dr_ws_connect(): starts the loop and the dispatcher if needed, preserves the
\* hooks, enters the client, and queues the connect.
Connect(c) ==
    /\ RFree /\ entry[c] = "none"
    /\ loop' = "running"
    /\ entry' = [entry EXCEPT ![c] = "live"]
    /\ hooks' = [hooks EXCEPT ![c] = @ + 1]
    /\ tasks' = Append(tasks, Task("connect", c))
    /\ UNCHANGED <<closing, stopped, ws, tcp, conn, resolving, timers,
                   events, mainVars, heard, ghosts>>

\* dr_ws_client_send()
ClientSend(c) ==
    /\ RFree /\ entry[c] = "live" /\ ~closing[c]
    /\ \A i \in DOMAIN tasks : tasks[i] # Task("send", c)   \* bound
    /\ tasks' = Append(tasks, Task("send", c))
    /\ UNCHANGED <<tableVars, stopped, ws, tcp, conn, resolving, timers, loop,
                   events, mainVars, heard, ghosts>>

\* The first half of WebSocketClientImpl::stop(), which runs on the caller's
\* thread: the flag, and the WebSocket connection dropped.  The close frame and
\* the half-close it sends only hasten PeerCloses.
StopConnection(c) ==
    /\ closing' = [closing EXCEPT ![c] = TRUE]
    /\ stopped' = [stopped EXCEPT ![c] = TRUE]
    /\ ws' = [ws EXCEPT ![c] = FALSE]
    /\ inStop' = c
    /\ UNCHANGED <<entry, hooks, tcp, conn, tasks, resolving, timers, loop, events,
                   batch, inHook, heard, ghosts>>

\* dr_ws_client_close()
ClientClose(c) ==
    /\ RFree /\ entry[c] = "live"
    /\ StopConnection(c)
    /\ UNCHANGED <<down, shutting>>

\* The second half of stop(): tcpClientPtr_.reset().
StopTcp ==
    /\ inStop # NoClient
    /\ tasks' = TcpClientGone(inStop, tasks)
    /\ tcp' = [tcp EXCEPT ![inStop] = "none"]
    /\ inStop' = NoClient
    /\ UNCHANGED <<tableVars, stopped, ws, conn, resolving, timers, loop, events,
                   batch, inHook, down, shutting, heard, ghosts>>

\* A plausible bug: the hooks are not released.
MutReleaseClientHooks(cs) == hooks

ReleaseClientHooks(cs) == [c \in Clients |-> IF c \in cs THEN hooks[c] - 1 ELSE hooks[c]]

LiveClients == {c \in Clients : entry[c] = "live"}

\* dr_ws_shutdown(): stop() for every client ...
Shutdown ==
    /\ RFree
    /\ down' = TRUE /\ shutting' = LiveClients
    /\ UNCHANGED <<tableVars, implVars, events, batch, inHook, inStop, heard, ghosts>>

ShutdownStop(c) ==
    /\ inStop = NoClient /\ c \in shutting
    /\ shutting' = shutting \ {c}
    /\ StopConnection(c)
    /\ UNCHANGED down

\* A plausible bug: events that came in during the shutdown are kept.
MutCleared == events

\* g_wsClientEvents.clear()
Cleared == <<>>

\* ... then the loop is told to quit and joined.  It leaves at its next look at
\* the flag: what is still queued is destroyed, and so are timers and
\* connections, but not the lookups in progress: their threads go on.  Then hooks
\* are released and everything is cleared; a TCP client the loop made after
\* stop() is destroyed only now, when its loop is gone.
ShutdownJoin ==
    /\ down /\ shutting = {} /\ inStop = NoClient
    /\ down' = FALSE
    /\ loop' = "none" /\ tasks' = <<>> /\ timers' = {}
    /\ tcp' = [c \in Clients |-> "none"] /\ conn' = [c \in Clients |-> "none"]
    /\ entry' = [c \in Clients |-> IF entry[c] = "live" THEN "gone" ELSE entry[c]]
    /\ hooks' = ReleaseClientHooks(LiveClients)
    /\ events' = Cleared
    /\ lost' = lost \union resolving /\ resolving' = {}
    /\ deadLoop' = (deadLoop \/ \E c \in LiveClients : tcp[c] # "none")
    /\ UNCHANGED <<closing, stopped, ws, batch, inHook, inStop, shutting, heard>>
-----------------------------------------------------------------------------
(* The pump, main thread.                                                  *)

\* drainWsClientEvents() swaps the queue.
Drain ==
    /\ batch = <<>> /\ inStop = NoClient /\ ~down
    /\ events # <<>>
    /\ batch' = events /\ events' = <<>>
    /\ UNCHANGED <<tableVars, implVars, inHook, inStop, down, shutting, heard, ghosts>>

Pumping == batch # <<>> /\ ~inHook /\ inStop = NoClient /\ ~down

\* The hook is looked up and called.
CallHook ==
    /\ Pumping
    /\ LET e == Head(batch) IN
       /\ entry[e.client] = "live"
       /\ heard' = [heard EXCEPT ![e.client] = e.type]
    /\ inHook' = TRUE
    /\ UNCHANGED <<tableVars, implVars, events, batch, inStop, down, shutting, ghosts>>

\* The client is not in the table any more: no hook to call.
SkipEvent ==
    /\ Pumping
    /\ entry[Head(batch).client] # "live"
    /\ batch' = Tail(batch)
    /\ UNCHANGED <<tableVars, implVars, events, inHook, inStop, down, shutting, heard, ghosts>>

\* A plausible bug: a client stays in the table, as it may reconnect.
MutErases(e) == FALSE

\* A plausible bug: the hook may have shut everything down.
MutErasesAgain(e) == e.type = "Close"

Erases(e) == e.type = "Close" /\ entry[e.client] = "live"

\* After the hook: a Close event erases the client, if the hook has not shut
\* everything down.  The last reference to the impl may go with it.
HookDone ==
    /\ inHook /\ RFree
    /\ inHook' = FALSE /\ batch' = Tail(batch)
    /\ LET e == Head(batch)
           c == e.client
           erase == Erases(e)
           ent == [entry EXCEPT ![c] = "gone"]
           last == ~Held(c, ent, tasks, resolving, timers)
       IN /\ entry' = IF erase THEN ent ELSE entry
          /\ hooks' = IF erase THEN ReleaseClientHooks({c}) ELSE hooks
          /\ tasks' = IF erase /\ last THEN TcpClientGone(c, tasks) ELSE tasks
          /\ tcp' = IF erase /\ last THEN [tcp EXCEPT ![c] = "none"] ELSE tcp
    /\ UNCHANGED <<closing, stopped, ws, conn, resolving, timers, loop,
                   events, inStop, down, shutting, heard, ghosts>>
-----------------------------------------------------------------------------
(* The client loop, its timers and the network.                            *)

LoopRuns == loop = "running" /\ Len(events) < MaxEvents

\* A reference of c was dropped on the loop thread; with the last one TcpClient
\* goes, which closes the connection without a word.
Released(c, tsk, res, tim, tcpNow, connNow) ==
    LET last == ~Held(c, entry, tsk, res, tim) IN
    /\ tasks' = tsk /\ resolving' = res /\ timers' = tim
    /\ tcp' = IF last THEN [tcpNow EXCEPT ![c] = "none"] ELSE tcpNow
    /\ conn' = IF last THEN [connNow EXCEPT ![c] = "none"] ELSE connNow

\* connectToServerInLoop(): resolve the name, or connect to the address given.
ConnectToServer(c, tsk, tim) ==
    \/ /\ Released(c, tsk, resolving \union {c}, tim, [tcp EXCEPT ![c] = "none"], conn)
       /\ UNCHANGED events
    \/ /\ Released(c, tsk, resolving, tim, [tcp EXCEPT ![c] = "connecting"], conn)
       /\ UNCHANGED events
    \/ /\ events' = Append(events, Event("Close", c))     \* BadServerAddress
       /\ Released(c, tsk, resolving, tim, [tcp EXCEPT ![c] = "none"], conn)

\* connectToServer()'s function
RunConnect ==
    /\ LoopRuns /\ tasks # <<>> /\ Head(tasks).do = "connect"
    /\ ConnectToServer(Head(tasks).client, Tail(tasks), timers)
    /\ UNCHANGED <<tableVars, stopped, ws, loop, mainVars, heard, ghosts>>

\* The resolver's answer, now on the loop: an address, or none.
RunResolved ==
    /\ LoopRuns /\ tasks # <<>> /\ Head(tasks).do = "resolved"
    /\ LET c == Head(tasks).client IN
       \/ /\ Released(c, Tail(tasks), resolving, timers, [tcp EXCEPT ![c] = "connecting"], conn)
          /\ UNCHANGED events
       \/ /\ events' = Append(events, Event("Close", c))
          /\ Released(c, Tail(tasks), resolving, timers, tcp, conn)
    /\ UNCHANGED <<tableVars, stopped, ws, loop, mainVars, heard, ghosts>>

RunSend ==
    /\ LoopRuns /\ tasks # <<>> /\ Head(tasks).do = "send"
    /\ Released(Head(tasks).client, Tail(tasks), resolving, timers, tcp, conn)
    /\ UNCHANGED <<tableVars, stopped, ws, loop, events, mainVars, heard, ghosts>>

\* The connection of c is closed: its callback reports to the impl, if that is
\* still there, and unless stopped arms a reconnect in a second.
ConnectionClosed(c) ==
    IF Alive(c)
    THEN Closed(c, stopped[c])
    ELSE UNCHANGED <<events, ws, timers>>

\* forceClose() of a TcpClient destroyed on the main thread
RunForceClose ==
    /\ LoopRuns /\ tasks # <<>> /\ Head(tasks).do = "forceClose"
    /\ LET c == Head(tasks).client IN
       /\ IF conn[c] = "none" THEN UNCHANGED <<events, ws, timers>> ELSE ConnectionClosed(c)
       /\ conn' = [conn EXCEPT ![c] = "none"]
    /\ tasks' = Tail(tasks)
    /\ UNCHANGED <<tableVars, stopped, tcp, resolving, loop, mainVars, heard, ghosts>>

\* A resolver thread has its answer and queues it on the client's loop ...
ResolverAnswers(c) ==
    /\ c \in resolving
    /\ resolving' = resolving \ {c}
    /\ tasks' = Append(tasks, Task("resolved", c))
    /\ UNCHANGED <<tableVars, stopped, ws, tcp, conn, timers, loop, events,
                   mainVars, heard, ghosts>>

\* ... also when dr_ws_shutdown() has destroyed that loop.
ResolverAnswersLate(c) ==
    /\ c \in lost
    /\ lost' = lost \ {c}
    /\ deadLoop' = TRUE
    /\ UNCHANGED <<tableVars, implVars, events, mainVars, heard>>

\* The connector succeeds: the upgrade request is sent.
ConnectOk(c) ==
    /\ LoopRuns /\ tcp[c] = "connecting"
    /\ tcp' = [tcp EXCEPT ![c] = "open"]
    /\ conn' = [conn EXCEPT ![c] = "up"]
    /\ UNCHANGED <<tableVars, stopped, ws, tasks, resolving, timers, loop, events,
                   mainVars, heard, ghosts>>

\* handleError(): the error callback reports the failure.
ConnectError(c) ==
    /\ LoopRuns /\ tcp[c] = "connecting"
    /\ tcp' = [tcp EXCEPT ![c] = "idle"]
    /\ Closed(c, stopped[c])
    /\ UNCHANGED <<tableVars, stopped, conn, tasks, resolving, loop,
                   mainVars, heard, ghosts>>

\* connect(2) fails at once with one of the errors a connector without retry
\* only logs (EAGAIN, ENETUNREACH, ECONNREFUSED ...): nobody is told.
ConnectSilent(c) ==
    /\ LoopRuns /\ tcp[c] = "connecting"
    /\ tcp' = [tcp EXCEPT ![c] = "idle"]
    /\ UNCHANGED <<tableVars, stopped, ws, conn, tasks, resolving, timers, loop,
                   events, mainVars, heard, ghosts>>

\* onRecvMessage(): 101 with the right key.
UpgradeOk(c) ==
    /\ LoopRuns /\ conn[c] = "up" /\ Alive(c)
    /\ conn' = [conn EXCEPT ![c] = "upgraded"]
    /\ ws' = [ws EXCEPT ![c] = TRUE]
    /\ events' = Append(events, Event("Open", c))
    /\ UNCHANGED <<tableVars, stopped, tcp, tasks, resolving, timers, loop,
                   mainVars, heard, ghosts>>

\* Any other answer: the failure is reported, and the TcpClient destroyed on
\* the loop thread closes the connection, which is reported as well.
UpgradeBad(c) ==
    /\ LoopRuns /\ conn[c] = "up" /\ Alive(c)
    /\ tcp' = [tcp EXCEPT ![c] = "none"]
    /\ conn' = [conn EXCEPT ![c] = "none"]
    /\ ws' = [ws EXCEPT ![c] = FALSE]
    /\ events' = events \o <<Event("Close", c), Event("Close", c)>>
    /\ timers' = IF stopped[c] THEN timers ELSE timers \union {c}
    /\ UNCHANGED <<tableVars, stopped, tasks, resolving, loop, mainVars, heard, ghosts>>

\* onRecvWsMessage(): dropped once stop() has reset the WebSocket connection.
Message(c) ==
    /\ LoopRuns /\ conn[c] = "upgraded" /\ Alive(c) /\ ws[c]
    /\ events' = Append(events, Event("Message", c))
    /\ UNCHANGED <<tableVars, implVars, mainVars, heard, ghosts>>

PeerCloses(c) ==
    /\ LoopRuns /\ conn[c] # "none"
    /\ conn' = [conn EXCEPT ![c] = "none"]
    /\ tcp' = [tcp EXCEPT ![c] = IF @ = "open" THEN "idle" ELSE @]
    /\ ConnectionClosed(c)
    /\ UNCHANGED <<tableVars, stopped, tasks, resolving, loop, mainVars, heard, ghosts>>

\* reconnect(): it does not look at stop_.
Reconnect(c) ==
    /\ LoopRuns /\ c \in timers
    /\ ws' = [ws EXCEPT ![c] = FALSE]
    /\ ConnectToServer(c, tasks, timers \ {c})
    /\ UNCHANGED <<tableVars, stopped, loop, mainVars, heard, ghosts>>
-----------------------------------------------------------------------------
ConnectEnds(c) == ConnectOk(c) \/ ConnectError(c) \/ ConnectSilent(c)

RunTask == RunConnect \/ RunResolved \/ RunSend \/ RunForceClose

MainStep == StopTcp \/ (\E c \in Clients : ShutdownStop(c)) \/ ShutdownJoin
            \/ Drain \/ CallHook \/ SkipEvent \/ HookDone

Next ==
    \/ MainStep \/ Shutdown \/ RunTask
    \/ \E c \in Clients :
        \/ Connect(c) \/ ClientSend(c) \/ ClientClose(c)
        \/ ResolverAnswers(c) \/ ResolverAnswersLate(c)
        \/ ConnectEnds(c)
        \/ UpgradeOk(c) \/ UpgradeBad(c) \/ Message(c)
        \/ PeerCloses(c) \/ Reconnect(c)

\* The loop keeps turning, a hook returns, and the pump is called whenever R is
\* idle; a name lookup and connect(2) end by their own time-outs; the peer and R
\* code owe nothing.  The strong forms: R may call in
\* again and again between two turns, and the bound on events may disable a task
\* that the real queue never would.
Fairness ==
    /\ WF_vars(StopTcp) /\ WF_vars(ShutdownJoin)
    /\ WF_vars(\E c \in Clients : ShutdownStop(c))
    /\ SF_vars(Drain) /\ WF_vars(CallHook) /\ WF_vars(SkipEvent) /\ SF_vars(HookDone)
    /\ SF_vars(RunTask)
    /\ \A c \in Clients : WF_vars(ResolverAnswers(c)) /\ SF_vars(ConnectEnds(c))

Spec == Init /\ [][Next]_vars /\ Fairness
-----------------------------------------------------------------------------
\* Type correctness; in particular no hook is released twice.
TypeOK ==
    /\ entry \in [Clients -> {"none", "live", "gone"}]
    /\ hooks \in [Clients -> Nat] /\ closing \in [Clients -> BOOLEAN]
    /\ stopped \in [Clients -> BOOLEAN] /\ ws \in [Clients -> BOOLEAN]
    /\ tcp \in [Clients -> {"none", "connecting", "open", "idle"}]
    /\ conn \in [Clients -> {"none", "up", "upgraded"}]
    /\ tasks \in Seq([do : {"connect", "resolved", "send", "forceClose"}, client : Clients])
    /\ resolving \subseteq Clients /\ timers \subseteq Clients /\ lost \subseteq Clients
    /\ loop \in {"none", "running"} /\ deadLoop \in BOOLEAN /\ inHook \in BOOLEAN
    /\ \A q \in {events, batch} :
          q \in Seq([type : {"Open", "Message", "Close"}, client : Clients])
    /\ inStop \in Clients \union {NoClient}
    /\ down \in BOOLEAN /\ shutting \subseteq Clients
    /\ heard \in [Clients -> {"nothing", "Open", "Message", "Close"}]

\* R hooks are preserved exactly as long as their client is in the table,
\* whichever of a Close event and dr_ws_shutdown() ends it.
HooksBalanced == \A c \in Clients : hooks[c] = IF entry[c] = "live" THEN 1 ELSE 0

\* dr_ws_connect()'s hooks come in order, although the client object underneath
\* reconnects by itself: on_open at most once and first, on_close once and last.
HeardInOrder ==
    [][~inHook /\ inHook' =>
          <<heard[Head(batch).client], Head(batch).type>> \in
             {<<"nothing", "Open">>, <<"nothing", "Close">>, <<"Open", "Message">>,
              <<"Open", "Close">>, <<"Message", "Message">>, <<"Message", "Close">>}]_vars

\* Once dr_ws_shutdown() has joined the loop, and until the next connect, no
\* client comes back into the table, nothing is queued on a loop and no event
\* waits for the pump, whether R called it at top level or in a hook of a batch
\* that still has events.  Name lookups are not covered: their threads are not
\* the loop's, and go on (NeverOnStoppedLoop).
ShutdownClean ==
    loop = "none" => /\ \A c \in Clients : entry[c] # "live" /\ conn[c] = "none"
                     /\ tasks = <<>> /\ timers = {} /\ events = <<>>

\* What the table of clients keeps, taken together.
ClientSound == HooksBalanced /\ ShutdownClean

\* A client that left the table does not stay connected behind R's back, in
\* spite of the reconnect timer that still holds it.
GoneDisconnects == \A c \in Clients : [](entry[c] = "gone" => <>[](conn[c] = "none"))

\* Closing a client whose connection is up always ends in its removal.
CloseCompletes ==
    \A c \in Clients : (inStop = c /\ tcp[c] = "open" /\ conn[c] # "none") ~> (entry[c] = "gone")

\* ws_client.cpp on dr_ws_client_close(): stop() "triggers the connection-closed
\* handler, which enqueues the Close event" that removes the client.
CloseReported == \A c \in Clients : closing[c] ~> (entry[c] = "gone")

\* ws_client.cpp on shutdown: "the loop is dead by then, so we never queueInLoop
\* on a stopped loop".  The TcpClient of a client that began to connect after
\* stop() queues its connector's clean-up there, and a lookup that outlasts the
\* join queues its answer there.
NeverOnStoppedLoop == ~deadLoop
=============================================================================
