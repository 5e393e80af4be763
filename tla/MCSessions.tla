----------------------------- MODULE MCSessions ------------------------------
(****************************************************************************)
(* Sessions and worker threads for TLC: streaming responses of R handlers,  *)
(* the pool of native handlers, the task queue of the resolver, and the     *)
(* WebSocket sessions of R and of native routes. They run on different      *)
(* connections and share no state, so one component runs in each behaviour. *)
(****************************************************************************)
EXTENDS Naturals, Sequences, FiniteSets

MCStreams == {"s1", "s2"}
MCUnary == {"u"}
MCStreaming == {"p"}
MCQueueThreads == {"q1", "q2"}
MCRConns == {"a"}
MCCppConns == {"x"}
MCNone == {}
MCRooms == {"room"}

-----------------------------------------------------------------------------
VARIABLE part   \* the component this behaviour runs

VARIABLES running, sess, preserved, pumps, conn, keep, hook, tasks, main,
          produced, wire, finals, deadUse
streamPart == <<running, sess, preserved, pumps, conn, keep, hook, tasks, main, produced,
                wire, finals, deadUse>>

VARIABLES server, npConn, npKeep, queue, idle, job, npSess, npTasks,
          accepted, npWire, badLoop
poolPart == <<server, npConn, npKeep, queue, idle, job, npSess, npTasks, accepted,
              npWire, badLoop>>

VARIABLES taskQueue, tqStop, tqMutex, tpc, stopper, pushed, taken
taskQueuePart == <<taskQueue, tqStop, tqMutex, tpc, stopper, pushed, taken>>

VARIABLES wrServer, routes, net, wrSess, live, io, after, wrTasks, events,
          batch, wrMain, rooms, reap, backend, heard, frames, wrDeadUse
wsRPart == <<wrServer, routes, net, wrSess, live, io, after, wrTasks, events, batch,
             wrMain, rooms, reap, backend, heard, frames, wrDeadUse>>

VARIABLES wcServer, wcRoutes, wcNet, wcSess, wcLive, wcIo, wcAfter, wcTasks,
          wcEvents, wcBatch, wcMain, wcRooms, wcReap, wcBackend, wcHeard,
          wcFrames, wcDeadUse
wsCppPart == <<wcServer, wcRoutes, wcNet, wcSess, wcLive, wcIo, wcAfter, wcTasks,
               wcEvents, wcBatch, wcMain, wcRooms, wcReap, wcBackend, wcHeard, wcFrames,
               wcDeadUse>>

vars == <<part, streamPart, poolPart, taskQueuePart, wsRPart,
          wsCppPart>>

St == INSTANCE StreamSession WITH Streams <- MCStreams, MaxChunks <- 2,
    StopInGenerator <- FALSE
Pool == INSTANCE NativePool WITH Unary <- MCUnary, Streaming <- MCStreaming,
    Workers <- 1, MaxSends <- 2, conn <- npConn, keep <- npKeep, sess <-
    npSess, tasks <- npTasks, wire <- npWire
Tasks == INSTANCE TaskQueue WITH QueueThreads <- MCQueueThreads, NoThread <-
    "none", MaxTasks <- 3, Stops <- TRUE
WsR == INSTANCE WsSession WITH RConns <- MCRConns, CppConns <- MCNone,
    MaxConns <- 0, Rooms <- MCRooms, MaxMsgs <- 2, MaxTasks <- 2, server <-
    wrServer, sess <- wrSess, tasks <- wrTasks, main <- wrMain, deadUse <-
    wrDeadUse
WsCpp == INSTANCE WsSession WITH RConns <- MCNone, CppConns <- MCCppConns,
    MaxConns <- 1, Rooms <- MCRooms, MaxMsgs <- 2, MaxTasks <- 2, server <-
    wcServer, routes <- wcRoutes, net <- wcNet, sess <- wcSess, live <-
    wcLive, io <- wcIo, after <- wcAfter, tasks <- wcTasks, events <-
    wcEvents, batch <- wcBatch, main <- wcMain, rooms <- wcRooms, reap <-
    wcReap, backend <- wcBackend, heard <- wcHeard, frames <- wcFrames,
    deadUse <- wcDeadUse

ASSUME SessionsAssumption ==
    /\ St!StreamAssumption /\ Pool!PoolAssumption
    /\ WsR!WsAssumption /\ WsCpp!WsAssumption

\* The component is chosen first; the others stay in an initial state.
Init ==
    /\ part \in {"stream", "pool", "taskQueue", "wsR",
                 "wsCpp"}
    /\ part = "stream" \/ keep = [s \in MCStreams |-> TRUE]
    /\ St!Init
    /\ part = "pool" \/ npKeep = [r \in MCUnary \union MCStreaming |-> TRUE]
    /\ Pool!Init
    /\ Tasks!TKInit
    /\ WsR!Init
    /\ WsCpp!Init

\* The components that do not run stay as they are.
Idle ==
    /\ UNCHANGED part
    /\ IF part = "stream" THEN TRUE ELSE UNCHANGED streamPart
    /\ IF part = "pool" THEN TRUE ELSE UNCHANGED poolPart
    /\ IF part = "taskQueue" THEN TRUE ELSE UNCHANGED taskQueuePart
    /\ IF part = "wsR" THEN TRUE ELSE UNCHANGED wsRPart
    /\ IF part = "wsCpp" THEN TRUE ELSE UNCHANGED wsCppPart

Next ==
    \/ part = "stream" /\ St!Next /\ Idle
    \/ part = "pool" /\ Pool!Next /\ Idle
    \/ part = "taskQueue" /\ Tasks!TKNext /\ Idle
    \/ part = "wsR" /\ WsR!Next /\ Idle
    \/ part = "wsCpp" /\ WsCpp!Next /\ Idle

\* The fairness of each component, on its own behaviours.
Fairness ==
    /\ \A s \in MCStreams :
        /\ SF_streamPart(part = "stream" /\ St!CallGenerator(s))
        /\ WF_streamPart(part = "stream" /\ St!Respond(s))
        /\ WF_streamPart(part = "stream" /\
                   (\/ St!GeneratorFails(s)
                    \/ \E chunk, state, done \in BOOLEAN :
                          St!GeneratorReturns(s, chunk, state, done)))
        /\ WF_streamPart(part = "stream" /\ St!LoopThread(s))
    /\ WF_poolPart(part = "pool" /\ Pool!Enter) /\ WF_poolPart(part = "pool" /\ Pool!Pop)
    /\ WF_poolPart(part = "pool" /\ Pool!Sleep) /\ WF_poolPart(part = "pool" /\ Pool!Leave)
    /\ WF_poolPart(part = "pool" /\ Pool!LoopsJoined)
    /\ WF_poolPart(part = "pool" /\ (Pool!PoolStop \/ Pool!PoolNotify))
    /\ WF_poolPart(part = "pool" /\ Pool!PoolJoined)
    /\ \A r \in MCUnary \union MCStreaming :
        /\ WF_poolPart(part = "pool" /\ Pool!LoopThread(r))
        /\ WF_poolPart(part = "pool" /\ Pool!SendSteps(r))
        /\ WF_poolPart(part = "pool" /\ \E ok \in BOOLEAN : Pool!UnaryReturn(r, ok))
        /\ WF_poolPart(part = "pool" /\ (npSess[r].cancelled \/ job[r] = "told")
                   /\ Pool!StreamReturn(r))
        /\ WF_poolPart(part = "pool" /\ server = "stopping" /\ Pool!PeerGone(r))
    /\ \A t \in MCQueueThreads :
        /\ WF_taskQueuePart(part = "taskQueue" /\ Tasks!QueueThread(t))
        /\ SF_taskQueuePart(part = "taskQueue" /\ Tasks!Lock(t))
    /\ WF_taskQueuePart(part = "taskQueue" /\ Tasks!StopNotify) /\ WF_taskQueuePart(part = "taskQueue" /\ Tasks!StopJoin)
    /\ WF_wsRPart(part = "wsR" /\ WsR!MainThread) /\ WF_wsRPart(part = "wsR" /\ WsR!LoopsJoined)
    /\ \A c \in MCRConns :
        /\ WF_wsRPart(part = "wsR" /\ WsR!LoopThread(c))
        /\ WF_wsRPart(part = "wsR" /\ WsR!ReapClose(c))
        /\ WF_wsRPart(part = "wsR" /\ WsR!BackendQueue(c))
        /\ WF_wsRPart(part = "wsR" /\ (net[c] = "shut" \/ wrServer = "stopping")
                   /\ WsR!ConnectionClosed(c))
    /\ WF_wsCppPart(part = "wsCpp" /\ WsCpp!MainThread) /\ WF_wsCppPart(part = "wsCpp" /\ WsCpp!LoopsJoined)
    /\ \A c \in MCCppConns :
        /\ WF_wsCppPart(part = "wsCpp" /\ WsCpp!LoopThread(c))
        /\ WF_wsCppPart(part = "wsCpp" /\ WsCpp!ReapClose(c))
        /\ WF_wsCppPart(part = "wsCpp" /\ WsCpp!BackendQueue(c))
        /\ WF_wsCppPart(part = "wsCpp" /\ (wcNet[c] = "shut" \/ wcServer = "stopping")
                   /\ WsCpp!ConnectionClosed(c))

Spec == Init /\ [][Next]_vars /\ Fairness
-----------------------------------------------------------------------------
\* Type correctness of the component that runs.
TypeOK ==
    /\ part = "stream" => St!TypeOK
    /\ part = "pool" => Pool!TypeOK
    /\ part = "taskQueue" => Tasks!TKTypeOK
    /\ part = "wsR" => WsR!TypeOK
    /\ part = "wsCpp" => WsCpp!TypeOK

\* StreamSession: every stream has one pump at a time, the wire carries
\* exactly the chunks its generator returned, in order, a loop that has ended
\* is never used, and the R objects of a stream are released once, when
\* nothing can use them any more.
StreamServed == part = "stream" => St!StreamServed

\* StreamSession: The generator is called with cancelled = TRUE at most once,
\* and never again after that, although the flag can be set by the close hook
\* and by several failed sends.
CancelledCallIsLast == St!CancelledCallIsLast

\* StreamSession, NativePool and WsSession: when the peer is gone, its stream
\* ends, the job of a native handler ends, and a session that was closed by
\* either side is erased.
CancelEnds ==
    /\ part = "stream" => St!CancelEndsStream
    /\ part = "pool" => Pool!CancelEndsJob
    /\ part = "wsR" => WsR!ClosedIsErased
    /\ part = "wsCpp" => WsCpp!ClosedIsErased

\* NativePool: a worker that waits for its client's loop is always woken, and
\* the wire carries exactly what a streaming handler sent.
PoolServed == part = "pool" => Pool!PoolServed

\* NativePool and TaskQueue: a unary request is answered, the stop of the pool is
\* kept waiting by no backend and by no worker but one that missed the
\* notification, and a task that was queued is taken.
WorkEnds ==
    /\ part = "pool" => Pool!UnaryAnswered
    /\ part = "pool" => Pool!StopEnds
    /\ part = "taskQueue" => Tasks!TaskTaken

=============================================================================
