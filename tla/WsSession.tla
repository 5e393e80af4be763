----------------------------- MODULE WsSession -----------------------------
(***************************************************************************)
(* Server-side WebSocket sessions.  Drogon calls one controller for every  *)
(* connection, on the connection's loop thread.  Connections of dr_ws()    *)
(* routes have their events queued for R hooks on the main thread; those   *)
(* of dr_ws_cpp() routes are handled by native code on the loop thread,    *)
(* whose detached threads may use a session handle at any time, and are    *)
(* subject to a connection limit and to a reaper.                          *)
(***************************************************************************)
EXTENDS Naturals, Sequences, FiniteSets

CONSTANTS RConns,    \* connections to a dr_ws() route
          CppConns,  \* connections to a dr_ws_cpp() route
          MaxConns,  \* max_conns of that route, 0: unlimited
          Rooms,     \* names of broadcast rooms
          MaxMsgs,   \* bound: frames received per connection
          MaxTasks   \* bound: functions queued per loop by R or native code

WsAssumption ==
    /\ RConns \intersect CppConns = {} /\ IsFiniteSet(CppConns)
    /\ MaxConns \in Nat /\ MaxMsgs \in Nat /\ MaxTasks \in Nat

Conns == RConns \union CppConns

VARIABLES
    server,     \* "up", "stopping": quit() called, "down": loops joined
    routes,     \* g_wsRoutes still holds the routes and their hooks
    net,        \* TCP state: none / open / shut (half-closed) / closed
    sess,       \* the WsSession objects
    live,       \* live-count of the cpp route
    io,         \* where the loop thread is in a handler of the connection
    after,      \* its local variable: live-count after its own increment
    tasks,      \* functions queued on the connection's loop
    events,     \* g_wsEvents
    batch,      \* events swapped out by drainWsEvents()
    main,       \* main R thread: idle / drain / hook / skip (no hook) / stop
    rooms,      \* g_wsRooms
    reap,       \* expired sessions the reaper has snapshotted
    backend,    \* detached native thread: session resolved, about to queue
    heard,      \* events the hooks or the native handler were called with
    frames,     \* frames received per connection
    deadUse     \* queueInLoop() was called on a destroyed loop

ioVars   == <<net, io, after, frames>>
mainVars == <<batch, main, rooms>>
vars == <<server, routes, sess, live, tasks, events, reap, backend, heard,
          deadUse, ioVars, mainVars>>

\* reg: in g_wsSessions; ctx: the connection carries the id; counted: the
\* session owes one decrement of the live-count.
NoSession == [reg |-> "none", ctx |-> FALSE, closing |-> FALSE, counted |-> FALSE]

Init ==
    /\ server = "up" /\ routes = TRUE
    /\ net = [c \in Conns |-> "none"]
    /\ sess = [c \in Conns |-> NoSession]
    /\ live = 0
    /\ io = [c \in Conns |-> "idle"]
    /\ after = [c \in Conns |-> 0]
    /\ tasks = [c \in Conns |-> <<>>]
    /\ events = <<>> /\ batch = <<>> /\ main = "idle"
    /\ rooms = [r \in Rooms |-> {}]
    /\ reap = {}
    /\ backend = [c \in Conns |-> "idle"]
    /\ heard = [c \in Conns |-> <<>>]
    /\ frames = [c \in Conns |-> 0]
    /\ deadUse = FALSE
-----------------------------------------------------------------------------
(* Helpers.                                                                *)

Event(t, c) == [type |-> t, id |-> c]

Live(c) == sess[c].reg = "live"

\* conn->connected(): a connection that was shut down is not.
Connected(c) == net[c] = "open"

\* The native handler of a cpp route is called with an event.
MutDispatchCpp(c, t) ==
    heard' = IF t = "close" THEN heard ELSE [heard EXCEPT ![c] = Append(@, t)]

DispatchCpp(c, t) == heard' = [heard EXCEPT ![c] = Append(@, t)]

\* enqueueWsEvent(); its wake byte is the business of Dispatcher.
MutEnqueueWsEvent(t, c) == events' = <<Event(t, c)>> \o events

EnqueueWsEvent(t, c) == events' = Append(events, Event(t, c))

\* dropFromAllRooms()
MutDropFromAllRooms(c) == rooms

DropFromAllRooms(c) == [r \in Rooms |-> rooms[r] \ {c}]

\* queueInLoop() on the connection's loop.
QueueInLoop(c, f) ==
    /\ Len(tasks[c]) < MaxTasks
    /\ tasks' = IF server = "down" THEN tasks ELSE [tasks EXCEPT ![c] = Append(@, f)]
    /\ deadUse' = (deadUse \/ server = "down")
-----------------------------------------------------------------------------
(* The controller, on the connection's loop thread.                        *)

\* handleNewConnection() of an R route: register, then queue the event.
ConnectR(c) ==
    /\ c \in RConns
    /\ server = "up" /\ net[c] = "none"
    /\ net' = [net EXCEPT ![c] = "open"]
    /\ sess' = [sess EXCEPT ![c].reg = "live", ![c].ctx = TRUE]
    /\ EnqueueWsEvent("connect", c)
    /\ UNCHANGED <<server, routes, live, io, after, tasks, reap, backend,
                   heard, frames, deadUse, mainVars>>

\* handleNewConnection() of a cpp route first takes a slot ...
ConnectCount(c) ==
    /\ c \in CppConns
    /\ server = "up" /\ net[c] = "none"
    /\ net' = [net EXCEPT ![c] = "open"]
    /\ io' = [io EXCEPT ![c] = "connect"]
    /\ live' = IF MaxConns > 0 THEN live + 1 ELSE live
    /\ after' = [after EXCEPT ![c] = live + 1]
    /\ UNCHANGED <<server, routes, sess, tasks, events, reap, backend, heard,
                   frames, deadUse, mainVars>>

\* ... and then compares what it got with the limit: it gives the slot back and
\* closes with 1013, or registers the session and calls the native handler.
MutOverCapacity(c) == MaxConns > 0 /\ after[c] > MaxConns + 1

OverCapacity(c) == MaxConns > 0 /\ after[c] > MaxConns

ConnectRefuse(c) ==
    /\ io[c] = "connect" /\ OverCapacity(c)
    /\ io' = [io EXCEPT ![c] = "idle"]
    /\ live' = live - 1
    /\ net' = [net EXCEPT ![c] = "shut"]
    /\ UNCHANGED <<server, routes, sess, after, tasks, events, reap, backend,
                   heard, frames, deadUse, mainVars>>

ConnectCpp(c) ==
    /\ io[c] = "connect" /\ ~OverCapacity(c)
    /\ io' = [io EXCEPT ![c] = "idle"]
    /\ sess' = [sess EXCEPT ![c].reg = "live", ![c].ctx = TRUE,
                            ![c].counted = MaxConns > 0]
    /\ DispatchCpp(c, "connect")
    /\ UNCHANGED <<server, routes, net, live, after, tasks, events, reap,
                   backend, frames, deadUse, mainVars>>

\* handleNewMessage(): frames still arrive on a half-closed connection.
NewMessage(c) ==
    /\ server # "down"
    /\ net[c] \in {"open", "shut"} /\ io[c] = "idle"
    /\ sess[c].ctx /\ Live(c)
    /\ frames[c] < MaxMsgs
    /\ frames' = [frames EXCEPT ![c] = @ + 1]
    /\ IF c \in CppConns THEN DispatchCpp(c, "message") /\ UNCHANGED events
                         ELSE EnqueueWsEvent("message", c) /\ UNCHANGED heard
    /\ UNCHANGED <<server, routes, net, sess, live, io, after, tasks, reap,
                   backend, deadUse, mainVars>>

\* handleConnectionClosed(): the peer left, a shutdown completed, the idle
\* kick-off struck or the server quits.
ConnectionClosed(c) ==
    /\ server # "down"
    /\ net[c] \in {"open", "shut"} /\ io[c] = "idle"
    /\ net' = [net EXCEPT ![c] = "closed"]
    /\ IF ~(sess[c].ctx /\ Live(c))
       THEN UNCHANGED <<sess, io, events>>
       ELSE /\ sess' = [sess EXCEPT ![c].closing = TRUE]
            /\ IF c \in CppConns
               THEN io' = [io EXCEPT ![c] = "close"] /\ UNCHANGED events
               ELSE EnqueueWsEvent("close", c) /\ UNCHANGED io
    /\ UNCHANGED <<server, routes, live, after, tasks, reap, backend, heard,
                   frames, deadUse, mainVars>>

\* The native handler hears of the close, then eraseWsSession() takes the
\* session out of the map ...
CloseCpp(c) ==
    /\ io[c] = "close"
    /\ DispatchCpp(c, "close")
    /\ sess' = [sess EXCEPT ![c].reg = "gone"]
    /\ io' = [io EXCEPT ![c] = "erase"]
    /\ UNCHANGED <<server, routes, net, live, after, tasks, events, reap,
                   backend, frames, deadUse, mainVars>>

\* ... and gives the slot back, once.
MutGiveBack(c) ==
    /\ io[c] = "erase"
    /\ io' = [io EXCEPT ![c] = "idle"]
    /\ sess' = [sess EXCEPT ![c].counted = FALSE]
    /\ rooms' = DropFromAllRooms(c)
    /\ UNCHANGED <<server, routes, net, live, after, tasks, events, reap,
                   backend, heard, frames, deadUse, batch, main>>

GiveBack(c) ==
    /\ io[c] = "erase"
    /\ io' = [io EXCEPT ![c] = "idle"]
    /\ live' = IF sess[c].counted THEN live - 1 ELSE live
    /\ sess' = [sess EXCEPT ![c].counted = FALSE]
    /\ rooms' = DropFromAllRooms(c)
    /\ UNCHANGED <<server, routes, net, after, tasks, events, reap, backend,
                   heard, frames, deadUse, batch, main>>

\* A queued function runs: a send or a shutdown of a connected connection.
RunTask(c) ==
    /\ server # "down"
    /\ io[c] = "idle" /\ tasks[c] # <<>>
    /\ tasks' = [tasks EXCEPT ![c] = Tail(@)]
    /\ net' = IF Head(tasks[c]) = "shutdown" /\ Connected(c)
              THEN [net EXCEPT ![c] = "shut"] ELSE net
    /\ UNCHANGED <<server, routes, sess, live, io, after, events, reap,
                   backend, heard, frames, deadUse, mainVars>>
-----------------------------------------------------------------------------
(* Detached threads of native backends.                                    *)

\* wsCppSend() and wsCppClose() resolve the handle ...
BackendFind(c, op) ==
    /\ c \in CppConns
    /\ heard[c] # <<>> /\ backend[c] = "idle"
    /\ Live(c)
    /\ op = "send" => ~sess[c].closing /\ Connected(c)
    /\ backend' = [backend EXCEPT ![c] = op]
    /\ UNCHANGED <<server, routes, sess, live, tasks, events, reap, heard,
                   deadUse, ioVars, mainVars>>

\* ... and then queue on the session's loop.
BackendQueue(c) ==
    /\ backend[c] # "idle"
    /\ backend' = [backend EXCEPT ![c] = "idle"]
    /\ sess' = IF backend[c] = "shutdown" THEN [sess EXCEPT ![c].closing = TRUE] ELSE sess
    /\ QueueInLoop(c, backend[c])
    /\ UNCHANGED <<server, routes, live, events, reap, heard, ioVars, mainVars>>
-----------------------------------------------------------------------------
(* The reaper, a timer on the server loop.                                 *)

\* reapExpiredSessions() snapshots sessions that are idle or too old ...
ReapSnapshot ==
    /\ server = "up" /\ reap = {}
    /\ \E E \in SUBSET {c \in CppConns : Live(c) /\ ~sess[c].closing} :
        E # {} /\ reap' = E
    /\ UNCHANGED <<server, routes, sess, live, tasks, events, backend, heard,
                   deadUse, ioVars, mainVars>>

\* ... and shuts them down outside the lock.
MutReapClose(c) ==
    /\ c \in reap
    /\ reap' = reap \ {c}
    /\ sess' = [sess EXCEPT ![c].closing = TRUE]
    /\ UNCHANGED <<server, routes, live, tasks, events, backend, heard, deadUse,
                   ioVars, mainVars>>

ReapClose(c) ==
    /\ c \in reap
    /\ reap' = reap \ {c}
    /\ sess' = [sess EXCEPT ![c].closing = TRUE]
    /\ QueueInLoop(c, "shutdown")
    /\ UNCHANGED <<server, routes, live, events, backend, heard, ioVars, mainVars>>
-----------------------------------------------------------------------------
(* The main R thread.                                                      *)

InRCode == main \in {"idle", "hook"}

\* R code has a connection once on_connect was called with it.
Known(c) == c \in RConns /\ heard[c] # <<>>

\* drainWsEvents() swaps the queue ...
DrainWsEvents ==
    /\ main = "idle" /\ events # <<>>
    /\ batch' = events
    /\ events' = <<>>
    /\ main' = "drain"
    /\ UNCHANGED <<server, routes, sess, live, tasks, reap, backend, heard,
                   deadUse, ioVars, rooms>>

\* ... and calls the hook of every event, if its route still exists.
CallHook ==
    /\ main = "drain" /\ batch # <<>>
    /\ main' = IF routes THEN "hook" ELSE "skip"
    /\ heard' = IF routes THEN [heard EXCEPT ![Head(batch).id] = Append(@, Head(batch).type)]
                          ELSE heard
    /\ UNCHANGED <<server, routes, sess, live, tasks, events, reap, backend,
                   deadUse, ioVars, batch, rooms>>

\* After on_close the session is erased and leaves its rooms.
HookDone ==
    LET c == Head(batch).id
        closed == Head(batch).type = "close"
    IN  /\ main \in {"hook", "skip"}
        /\ main' = "drain"
        /\ batch' = Tail(batch)
        /\ sess' = IF closed /\ Live(c) THEN [sess EXCEPT ![c].reg = "gone"] ELSE sess
        /\ rooms' = IF closed THEN DropFromAllRooms(c) ELSE rooms
        /\ UNCHANGED <<server, routes, live, tasks, events, reap, backend,
                       heard, deadUse, ioVars>>

DrainDone ==
    /\ main = "drain" /\ batch = <<>>
    /\ main' = "idle"
    /\ UNCHANGED <<server, routes, sess, live, tasks, events, reap, backend,
                   heard, deadUse, ioVars, batch, rooms>>

\* sendToConn() queues only for a live session that is not closing.
CanSend(c) == Live(c) /\ ~sess[c].closing

\* dr_ws_send()
WsSend(c) ==
    /\ InRCode /\ Known(c) /\ CanSend(c)
    /\ QueueInLoop(c, "send")
    /\ UNCHANGED <<server, routes, sess, live, events, reap, backend, heard,
                   ioVars, mainVars>>

\* dr_ws_close()
MutWsClose(c) ==
    /\ InRCode /\ Known(c) /\ Live(c)
    /\ sess' = [sess EXCEPT ![c].closing = TRUE]
    /\ UNCHANGED <<server, routes, live, tasks, events, reap, backend, heard,
                   deadUse, ioVars, mainVars>>

WsClose(c) ==
    /\ InRCode /\ Known(c) /\ Live(c)
    /\ sess' = [sess EXCEPT ![c].closing = TRUE]
    /\ QueueInLoop(c, "shutdown")
    /\ UNCHANGED <<server, routes, live, events, reap, backend, heard, ioVars,
                   mainVars>>

\* dr_ws_join(), dr_ws_leave()
WsJoin(r, c) ==
    /\ InRCode /\ Known(c)
    /\ rooms' = [rooms EXCEPT ![r] = @ \union {c}]
    /\ UNCHANGED <<server, routes, sess, live, tasks, events, reap, backend,
                   heard, deadUse, ioVars, batch, main>>

WsLeave(r, c) ==
    /\ InRCode /\ Known(c)
    /\ rooms' = [rooms EXCEPT ![r] = @ \ {c}]
    /\ UNCHANGED <<server, routes, sess, live, tasks, events, reap, backend,
                   heard, deadUse, ioVars, batch, main>>

\* dr_ws_broadcast() returns the number of members of the room; sendToConn()
\* skips those that are gone or closing.
BroadcastResult(r) == Cardinality(rooms[r])

BroadcastTargets(r) == {c \in rooms[r] : CanSend(c)}

WsBroadcast(r) ==
    /\ InRCode
    /\ \A c \in BroadcastTargets(r) : Len(tasks[c]) < MaxTasks
    /\ tasks' = [c \in Conns |-> IF c \in BroadcastTargets(r) /\ server # "down"
                                THEN Append(tasks[c], "send") ELSE tasks[c]]
    /\ deadUse' = (deadUse \/ (BroadcastTargets(r) # {} /\ server = "down"))
    /\ UNCHANGED <<server, routes, sess, live, events, reap, backend, heard,
                   ioVars, mainVars>>
-----------------------------------------------------------------------------
(* drogonR_server_stop(): quit(), join(), clearAllWsSessions().            *)

StopBegin ==
    /\ server = "up" /\ InRCode
    /\ server' = "stopping" /\ main' = "stop"
    /\ UNCHANGED <<routes, sess, live, tasks, events, reap, backend, heard,
                   deadUse, ioVars, batch, rooms>>

\* The loops have closed every connection and returned.
LoopsJoined ==
    /\ server = "stopping"
    /\ \A c \in Conns : net[c] \in {"none", "closed"} /\ io[c] = "idle"
    /\ reap = {}
    /\ server' = "down"
    /\ tasks' = [c \in Conns |-> <<>>]
    /\ UNCHANGED <<routes, sess, live, events, reap, backend, heard, deadUse,
                   ioVars, mainVars>>

\* Sessions, events, rooms and routes go; a hook that stopped the server
\* returns into a batch whose hooks no longer exist.
ClearAllWsSessions ==
    /\ main = "stop" /\ server = "down"
    /\ sess' = [c \in Conns |-> IF Live(c) THEN [sess[c] EXCEPT !.reg = "gone"] ELSE sess[c]]
    /\ events' = <<>>
    /\ rooms' = [r \in Rooms |-> {}]
    /\ routes' = FALSE
    /\ main' = IF batch = <<>> THEN "idle" ELSE "hook"
    /\ UNCHANGED <<server, live, tasks, reap, backend, heard, deadUse, ioVars,
                   batch>>
-----------------------------------------------------------------------------
LoopThread(c) ==
    \/ ConnectRefuse(c) \/ ConnectCpp(c) \/ CloseCpp(c) \/ GiveBack(c) \/ RunTask(c)

MainThread == DrainWsEvents \/ CallHook \/ HookDone \/ DrainDone \/ ClearAllWsSessions

RCalls ==
    \/ \E c \in RConns : WsSend(c) \/ WsClose(c)
    \/ \E r \in Rooms : WsBroadcast(r) \/ \E c \in RConns : WsJoin(r, c) \/ WsLeave(r, c)

Next ==
    \/ \E c \in Conns :
        \/ ConnectR(c) \/ ConnectCount(c) \/ NewMessage(c) \/ ConnectionClosed(c)
        \/ LoopThread(c)
        \/ BackendFind(c, "send") \/ BackendFind(c, "shutdown") \/ BackendQueue(c)
        \/ ReapClose(c)
    \/ ReapSnapshot
    \/ MainThread \/ RCalls
    \/ StopBegin \/ LoopsJoined

Spec == Init /\ [][Next]_vars

\* Threads keep running, hooks return, and a connection that was shut down
\* ends: the peer answers or Drogon's idle kick-off closes it.
Fairness ==
    /\ WF_vars(MainThread) /\ WF_vars(LoopsJoined)
    /\ \A c \in Conns :
        /\ WF_vars(LoopThread(c)) /\ WF_vars(ReapClose(c)) /\ WF_vars(BackendQueue(c))
        /\ WF_vars((net[c] = "shut" \/ server = "stopping") /\ ConnectionClosed(c))

FairSpec == Spec /\ Fairness
-----------------------------------------------------------------------------
(* Properties.                                                             *)

\* Type correctness of sessions, queues and thread-local state.
TypeOK ==
    /\ server \in {"up", "stopping", "down"} /\ routes \in BOOLEAN
    /\ net \in [Conns -> {"none", "open", "shut", "closed"}]
    /\ sess \in [Conns -> [reg : {"none", "live", "gone"}, ctx : BOOLEAN,
                           closing : BOOLEAN, counted : BOOLEAN]]
    /\ live \in Nat
    /\ io \in [Conns -> {"idle", "connect", "close", "erase"}]
    /\ after \in [Conns -> Nat]
    /\ tasks \in [Conns -> Seq({"send", "shutdown"})]
    /\ events \in Seq([type : {"connect", "message", "close"}, id : RConns])
    /\ batch \in Seq([type : {"connect", "message", "close"}, id : RConns])
    /\ main \in {"idle", "drain", "hook", "skip", "stop"}
    /\ rooms \in [Rooms -> SUBSET RConns]
    /\ reap \in SUBSET CppConns
    /\ backend \in [Conns -> {"idle", "send", "shutdown"}]
    /\ heard \in [Conns -> Seq({"connect", "message", "close"})]
    /\ frames \in [Conns -> 0..MaxMsgs]
    /\ deadUse \in BOOLEAN

\* The live-count is the number of sessions and of connects in progress that
\* hold a slot: "exactly once, even if erase races with the reaper"
\* (ws_session.cpp:165).
LiveBalanced ==
    MaxConns > 0 =>
        live = Cardinality({c \in CppConns : sess[c].counted \/ io[c] = "connect"})

\* Never more than max_conns sessions are live on a cpp route, however many
\* connects race: two "can't both sneak past" (ws_session.cpp:335-336).
CapacityRespected ==
    MaxConns > 0 => Cardinality({c \in CppConns : Live(c)}) <= MaxConns

\* Hooks and native handlers hear of a connection first its connect, then its
\* messages, then its close, and nothing after that; a session that ended
\* while the server was up has heard its close.
HeardInOrder ==
    \A c \in Conns :
        /\ \A i \in 1..Len(heard[c]) :
            /\ heard[c][i] = "connect" <=> i = 1
            /\ heard[c][i] = "close" => i = Len(heard[c])
        /\ (sess[c].reg = "gone" /\ server = "up")
              => heard[c] # <<>> /\ heard[c][Len(heard[c])] = "close"

\* What sessions promise, taken together: the count of a route is what its
\* sessions make it and stays within the limit, and their events come in order.
SocketsSound == LiveBalanced /\ CapacityRespected /\ HeardInOrder

\* "A connection is removed from all its rooms automatically when it closes"
\* (R/websocket.R:184): no step ends a session and leaves it in a room, even
\* if its own on_close hook joined one.
RoomsForgetStep ==
    \A c \in RConns :
        (Live(c) /\ sess'[c].reg = "gone") => \A r \in Rooms : c \notin rooms'[r]

\* ... in every step of a behaviour.
RoomsForgetClosed == [][RoomsForgetStep]_vars

\* Every connection that ended has its session erased, hence its on_close hook
\* called or its native handler told, unless the server is stopped; and so has
\* every session that the reaper, R or native code shut down.
ClosedIsErased ==
    \A c \in Conns :
        (Live(c) /\ (net[c] = "closed" \/ (sess[c].closing /\ server = "up"))) ~> ~Live(c)

\* dr_ws_broadcast() returns "The number of connections the message was queued
\* to" (R/websocket.R:221).
BroadcastCountsQueued ==
    InRCode => \A r \in Rooms : BroadcastResult(r) = Cardinality(BroadcastTargets(r))

\* Using a session handle from a detached thread is "never a use-after-free"
\* (drogonR.h:189-190): nothing is queued on a destroyed loop.
HandleNeverDangles == ~deadUse
=============================================================================
