----------------------------- MODULE MCProgress ------------------------------
(****************************************************************************)
(* Components that have to make progress, for TLC: WebSocket clients, the   *)
(* supervisor of worker processes, the life of the server, event loops,     *)
(* connections, the log file, the pipeline of responses, and coroutines with*)
(* their mutex. Each is checked by itself, in its own environment.          *)
(****************************************************************************)
EXTENDS Naturals, Sequences, FiniteSets

CONSTANTS p1, p2

MCClients == {"c"}
MCWorkers == 1 .. 4
MCConns == {"c1", "c2"}
MCProducers == {p1, p2}
MCKinds == {"mem", "stream", "async"}

MCCoros == {"a", "b", "c"}
MCWithLoop == {"a"}
MCMaxLocks == [c \in MCCoros |-> IF c = "a" THEN 2 ELSE 1]

(* Tasks that end at once, throw, wait for a timer, change the loop, or    *)
(* await work on another loop.                                             *)
Await(k, w, r, t) == [kind |-> k, work |-> w, resume |-> r, throws |-> t]
ATask(a, t) == [awaits |-> a, throws |-> t]
MCLoops == {"p", "q"}
MCPrograms ==
    {<<>>,
     <<ATask(<<>>, FALSE), ATask(<<>>, TRUE)>>,
     <<ATask(<<Await("timer", "p", "none", FALSE)>>, FALSE),
       ATask(<<Await("switch", "q", "none", FALSE), Await("switch", "q", "none", FALSE)>>, FALSE)>>,
     <<ATask(<<Await("loop", "p", "q", FALSE), Await("event", "p", "none", FALSE)>>, FALSE),
       ATask(<<>>, FALSE),
       ATask(<<Await("loop", "q", "none", FALSE)>>, TRUE)>>,
     <<ATask(<<Await("loop", "p", "q", TRUE)>>, FALSE),
       ATask(<<Await("event", "p", "none", TRUE)>>, FALSE),
       ATask(<<Await("switch", "p", "none", FALSE)>>, FALSE)>>}

-----------------------------------------------------------------------------
VARIABLE part   \* the component this behaviour runs

VARIABLES entry, hooks, closing, stopped, ws, tcp, conn, tasks, resolving,
          timers, loop, events, batch, inHook, inStop, down, shutting, lost,
          deadLoop, heard
wsClientPart == <<entry, hooks, closing, stopped, ws, tcp, conn, tasks, resolving, timers,
                  loop, events, batch, inHook, inStop, down, shutting, lost, deadLoop, heard>>

VARIABLES worker, signal, gen, tracked, trackedRds, files, serves, phase,
          procs
supervisorPart == <<worker, signal, gen, tracked, trackedRds, files, serves, phase, procs>>

VARIABLES rpc, gRunning, everStarted, app, appRunning, looping, mainTasks,
          servers, io, ioQuit, ioTasks, acceptor, wheel, conns, linked
appPart == <<rpc, gRunning, everStarted, app, appRunning, looping, mainTasks, servers,
             io, ioQuit, ioTasks, acceptor, wheel, conns, linked>>

VARIABLES funcs, order, ran, onQuit, wakefd, elLooping, quitFlag, lpc, ppc,
          queued, opc, goRun, goLoop, loopPtr
loopPart == <<funcs, order, ran, onQuit, wakefd, elLooping, quitFlag, lpc, ppc, queued,
              opc, goRun, goLoop, loopPtr>>

VARIABLES status, list, writing, reading, closeOnEmpty, out, room, wire,
          tcTasks, ncalls, streams, taken, failed, told
tcpPart == <<status, list, writing, reading, closeOnEmpty, out, room, wire, tcTasks,
             ncalls, streams, taken, failed, told>>

VARIABLES heap, logBuffer, nextBuffer, writeBuffers, tmpBuffers,
          lostCounter, stopFlag, alLpc, ended, logFile, oldFiles, calls,
          tooLong, accepted, dropped
loggerPart == <<heap, logBuffer, nextBuffer, writeBuffers, tmpBuffers, lostCounter,
                stopFlag, alLpc, ended, logFile, oldFiles, calls, tooLong, accepted,
                dropped>>

VARIABLES hsConn, parserStop, kinds, pipelining, respBuffer, handling,
          toSend, sent
httpPart == <<hsConn, parserStop, kinds, pipelining, respBuffer, handling, toSend, sent>>

VARIABLES state, waiters, link, mutexPc, old, head, locks, arrived
mutexPart == <<state, waiters, link, mutexPc, old, head, locks, arrived>>

VARIABLES program, at, on, pc, crFailed, queue, launched, awaiter, outer,
          outerOn, helper, caller, mtx, flag, alive, outcome
coroutinesPart == <<program, at, on, pc, crFailed, queue, launched, awaiter, outer, outerOn,
                    helper, caller, mtx, flag, alive, outcome>>

vars == <<part, wsClientPart, supervisorPart, appPart, loopPart,
          tcpPart, loggerPart, httpPart, mutexPart,
          coroutinesPart>>

Client == INSTANCE WsClient WITH Clients <- MCClients, NoClient <- "none",
    MaxEvents <- 2
Sup == INSTANCE Supervisor WITH Workers <- MCWorkers, PerServe <- 2,
    MaxServes <- 2
App == INSTANCE AppServer WITH IoNum <- 2, Conns <- MCConns, StopsEarly <-
    FALSE
Loop == INSTANCE EventLoop WITH Producers <- MCProducers, MaxFuncs <- 1,
    looping <- elLooping
Tcp == INSTANCE TcpConnection WITH MaxCalls <- 2, MaxRoom <- 3, Kinds <-
    MCKinds, tasks <- tcTasks
Log == INSTANCE AsyncLogger WITH BufferSize <- 2, QueueLimit <- 1, SizeLimit
    <- 1, MaxFiles <- 1, MaxMsgs <- 5, MaxBufs <- 6, lpc <- alLpc
Http == INSTANCE HttpServer WITH MaxReqs <- 3, MaxBatch <- 3, conn <- hsConn
Coro == INSTANCE Coroutines WITH Coros <- MCCoros, WithLoop <- MCWithLoop,
    MaxLocks <- MCMaxLocks, Programs <- MCPrograms, MaxTasks <- 3, Loops <-
    MCLoops, failed <- crFailed

ASSUME ProgressAssumption ==
    Client!WsClientAssumption /\ App!ASAssumption /\ Loop!ELAssumption

\* The component is chosen first; the others stay in an initial state.
Init ==
    /\ part \in {"wsClient", "supervisor", "app", "loop",
                 "tcp", "logger", "http", "mutex",
                 "coroutines"}
    /\ Client!Init
    /\ Sup!SVInit
    /\ App!ASInit
    /\ Loop!ELInit
    /\ Tcp!TCInit
    /\ Log!ALInit
    /\ Http!HSInit
    /\ Coro!CXInit
    /\ part = "coroutines" \/ program = <<>>
    /\ Coro!CRInit

\* The components that do not run stay as they are.
Idle ==
    /\ UNCHANGED part
    /\ IF part = "wsClient" THEN TRUE ELSE UNCHANGED wsClientPart
    /\ IF part = "supervisor" THEN TRUE ELSE UNCHANGED supervisorPart
    /\ IF part = "app" THEN TRUE ELSE UNCHANGED appPart
    /\ IF part = "loop" THEN TRUE ELSE UNCHANGED loopPart
    /\ IF part = "tcp" THEN TRUE ELSE UNCHANGED tcpPart
    /\ IF part = "logger" THEN TRUE ELSE UNCHANGED loggerPart
    /\ IF part = "http" THEN TRUE ELSE UNCHANGED httpPart
    /\ IF part = "mutex" THEN TRUE ELSE UNCHANGED mutexPart
    /\ IF part = "coroutines" THEN TRUE ELSE UNCHANGED coroutinesPart

Next ==
    \/ part = "wsClient" /\ Client!Next /\ Idle
    \/ part = "supervisor" /\ Sup!SVNext /\ Idle
    \/ part = "app" /\ App!ASNext /\ Idle
    \/ part = "loop" /\ Loop!ELNext /\ Idle
    \/ part = "tcp" /\ Tcp!TCNext /\ Idle
    \/ part = "logger" /\ Log!ALNext /\ Idle
    \/ part = "http" /\ Http!HSNext /\ Idle
    \/ part = "mutex" /\ Coro!CXNext /\ Idle
    \/ part = "coroutines" /\ Coro!CRNext /\ Idle

\* The fairness of each component, on its own behaviours.
Fairness ==
    /\ WF_wsClientPart(part = "wsClient" /\ Client!StopTcp)
    /\ WF_wsClientPart(part = "wsClient" /\ Client!ShutdownJoin)
    /\ WF_wsClientPart(part = "wsClient" /\ \E c \in MCClients : Client!ShutdownStop(c))
    /\ SF_wsClientPart(part = "wsClient" /\ Client!Drain)
    /\ WF_wsClientPart(part = "wsClient" /\ Client!CallHook)
    /\ WF_wsClientPart(part = "wsClient" /\ Client!SkipEvent)
    /\ SF_wsClientPart(part = "wsClient" /\ Client!HookDone)
    /\ SF_wsClientPart(part = "wsClient" /\ Client!RunTask)
    /\ \A c \in MCClients :
        /\ WF_wsClientPart(part = "wsClient" /\ Client!ResolverAnswers(c))
        /\ SF_wsClientPart(part = "wsClient" /\ Client!ConnectEnds(c))
    /\ WF_supervisorPart(part = "supervisor" /\ Sup!MainStep)
    /\ WF_supervisorPart(part = "supervisor" /\ \E p \in MCWorkers : Sup!Killed(p))
    /\ WF_supervisorPart(part = "supervisor" /\ \E p \in MCWorkers : Sup!Collect(p))
    /\ WF_appPart(part = "app" /\ App!Running /\ App!MainStep)
    /\ WF_appPart(part = "app" /\ App!Running /\ App!Joined)
    /\ \A i \in App!Io :
        WF_appPart(part = "app" /\ App!Running
                /\ (App!IoBegin(i) \/ App!IoTask(i) \/ App!IoExit(i)))
    /\ WF_loopPart(part = "loop" /\ Loop!LoopStep) /\ WF_loopPart(part = "loop" /\ Loop!OwnerStep)
    /\ WF_tcpPart(part = "tcp" /\ Tcp!RunTask) /\ WF_tcpPart(part = "tcp" /\ Tcp!WriteCallback)
    /\ WF_tcpPart(part = "tcp" /\ Tcp!PeerReads)
    /\ WF_tcpPart(part = "tcp" /\ out = "broken" /\ Tcp!ReadEnd)
    /\ WF_tcpPart(part = "tcp" /\ \E s \in streams : Tcp!EndStream(s))
    /\ WF_loggerPart(part = "logger" /\ Log!LogThread) /\ WF_loggerPart(part = "logger" /\ Log!DestructWrite)
    /\ WF_httpPart(part = "http" /\ Http!RunQueued)
    /\ \A r \in 1 .. 3 :
        WF_httpPart(part = "http" /\ (Http!AnswerInLoop(r) \/ Http!AnswerElsewhere(r)))
    /\ \A c \in MCCoros : WF_mutexPart(part = "mutex" /\ Coro!GoesOn(c))
    /\ WF_coroutinesPart(part = "coroutines" /\ (Coro!Launch \/ Coro!None))
    /\ \A k \in 1 .. 3 :
        WF_coroutinesPart(part = "coroutines" /\ k \in Coro!Tasks /\ Coro!TaskStep(k))
    /\ WF_coroutinesPart(part = "coroutines" /\ \E q \in queue : Coro!LoopRuns(q))
    /\ SF_coroutinesPart(part = "coroutines" /\ Coro!OuterStep)
    /\ WF_coroutinesPart(part = "coroutines" /\ Coro!HelperEnds)
    /\ WF_coroutinesPart(part = "coroutines" /\ Coro!Wait) /\ WF_coroutinesPart(part = "coroutines" /\ Coro!Return)

Spec == Init /\ [][Next]_vars /\ Fairness
-----------------------------------------------------------------------------
\* Type correctness of the component that runs.
TypeOK ==
    /\ part = "wsClient" => Client!TypeOK
    /\ part = "supervisor" => Sup!SVTypeOK
    /\ part = "app" => App!ASTypeOK
    /\ part = "loop" => Loop!ELTypeOK
    /\ part = "logger" => Log!ALTypeOK
    /\ part = "http" => Http!HSTypeOK
    /\ part = "mutex" => Coro!CXTypeOK
    /\ part = "coroutines" => Coro!CRTypeOK

\* WsClient: R hooks are released exactly once for each connection, and
\* nothing of a client is left when its loop has been shut down.
ClientSound == part = "wsClient" => Client!ClientSound

\* WsClient: dr_ws_connect()'s hooks come in order, although the client
\* object underneath reconnects by itself: on_open at most once and first,
\* on_close once and last.
ClientHeardInOrder == Client!HeardInOrder

\* WsClient and TcpConnection: a client whose connection is gone hears of it,
\* close completes, and a shutdown is carried out once what was sent before
\* it has left.
ClosesEnd ==
    /\ part = "wsClient" => Client!GoneDisconnects
    /\ part = "wsClient" => Client!CloseCompletes
    /\ part = "tcp" => Tcp!ShutdownDone

\* Supervisor and AppServer: a stopped supervisor leaves no worker and the
\* file of the workers exists while one may read it; the server outlives
\* everything that uses it, and after stop nothing runs.
StopIsClean ==
    /\ part = "supervisor" => Sup!RdsThere
    /\ part = "supervisor" => Sup!StopLeavesNone
    /\ part = "app" => App!ServerOutlivesUsers
    /\ part = "app" => App!StoppedIsQuiet

\* Supervisor, AppServer and EventLoop: dr_stop() returns, quit() of the
\* application joins its loops, and the owner of a loop's thread gets past
\* its join.
StopsEnd ==
    /\ part = "supervisor" => Sup!StopReturns
    /\ part = "supervisor" => Sup!OrphansEnd
    /\ part = "app" => App!StopJoins
    /\ part = "loop" => Loop!JoinReturns

\* EventLoop and Coroutines: functions of one thread run in their order, none
\* waits in the queue of a loop that sleeps without a wakeup, and quit() is
\* seen; a mutex has one owner and is handed on in the order of the waiters;
\* a coroutine's frame exists while something refers to it, its outcome is
\* what its tasks made of it, and it resumes on the loop it asked for.
LoopSound ==
    /\ part = "loop" => Loop!LoopOrder
    /\ part = "loop" => Loop!NoLostWakeup
    /\ part = "loop" => Loop!QuitSeen
    /\ part = "mutex" => Coro!OneOwner
    /\ part = "mutex" => Coro!HandedOnInOrder
    /\ part = "coroutines" => Coro!FramesOutlive
    /\ part = "coroutines" => Coro!OutcomeMeant
    /\ part = "coroutines" => Coro!OnItsLoop

\* AsyncLogger: the log holds the messages in their order, and says how many
\* are missing where some were dropped because the queue was full.  A message
\* too long for a buffer is dropped and not counted.
LogFaithful == part = "logger" => Log!LogFaithful

\* AsyncLogger, HttpServer and Coroutines: every message that was kept is
\* written to the file, a request that has been answered, and all before it,
\* goes out, who waits for a mutex gets it, and sync_wait() returns.
WorkGetsDone ==
    /\ part = "logger" => Log!LogWritten
    /\ part = "http" => Http!RequestAnswered
    /\ part = "mutex" => Coro!LockGranted
    /\ part = "coroutines" => Coro!SyncWaitReturns

\* HttpServer: responses leave in the order of their requests, and the first
\* request that waits is one that has not been answered.
PipelineSound == part = "http" => Http!PipelineSound

=============================================================================
