----------------------------- MODULE AppServer -----------------------------
(***************************************************************************)
(* The life cycle of the process's one HTTP server: R starts a thread for  *)
(* app().run(), which makes the I/O loops and one TcpServer for each, sets *)
(* them to work and then loops itself; dr_stop() calls app().quit() and    *)
(* joins that thread.  The tear-down is a function on the main loop that   *)
(* waits for the I/O loops, function by function.                          *)
(***************************************************************************)
EXTENDS Integers, Sequences, FiniteSets

CONSTANTS IoNum,        \* the I/O loops are 1 .. IoNum (threads_)
          Conns,        \* connections that clients may open
          StopsEarly    \* may R stop before the main loop runs?

\* What instances of this module assume of the constants.
ASAssumption == IoNum \in Nat /\ IsFiniteSet(Conns)

VARIABLES
  rpc,          \* R: "idle", "join" (in g_drogonThread.join()), "stopped"
  gRunning, everStarted,
  app,          \* the main loop's thread
  appRunning,   \* running_
  looping,      \* looping_ of the main loop
  mainTasks,    \* functions queued to the main loop
  servers,      \* "none", "made", "destroyed" (the listener manager's)
  io,           \* the threads of the I/O loops
  ioQuit,       \* their quit_
  ioTasks,      \* functions queued to them
  acceptor,     \* "none", "bound", "listening", "gone", one for each loop
  wheel,        \* is there a TimingWheel for the loop?
  conns,        \* connSet_
  linked        \* connections whose channel is still in the loop's poller

asVars == <<rpc, gRunning, everStarted, app, appRunning, looping, mainTasks,
            servers, io, ioQuit, ioTasks, acceptor, wheel, conns, linked>>
Io == 1 .. IoNum

\* The main thread's place: inside run() up to loop(); at the loop; in the
\* tear-down, with the I/O loop it is waiting for; and after loop() returned.
Places == {<<"none">>, <<"listeners">>, <<"begin">>, <<"loop">>, <<"exited">>,
           <<"terminated">>}
          \cup {"start", "stop", "stopping", "dropping", "wait"} \X (1 .. IoNum + 1)

IoTasks == {<<"start">>, <<"stop">>, <<"drop">>} \cup {"destroy"} \X Conns

ASTypeOK ==
  /\ rpc \in {"idle", "join", "stopped"} /\ app \in Places
  /\ {gRunning, everStarted, appRunning, looping} \subseteq BOOLEAN
  /\ mainTasks \in Seq({"listen", "quit"})
  /\ servers \in {"none", "made", "destroyed"}
  /\ io \in [Io -> {"none", "created", "released", "loop", "exited"}]
  /\ ioQuit \in [Io -> BOOLEAN] /\ ioTasks \in [Io -> Seq(IoTasks)]
  /\ acceptor \in [Io -> {"none", "bound", "listening", "gone"}]
  /\ wheel \in [Io -> BOOLEAN]
  /\ conns \in [Io -> SUBSET Conns] /\ linked \in [Io -> SUBSET Conns]

ASInit ==
  /\ rpc = "idle" /\ gRunning = FALSE /\ everStarted = FALSE
  /\ app = <<"none">> /\ appRunning = FALSE /\ looping = FALSE
  /\ mainTasks = <<>> /\ servers = "none"
  /\ io = [i \in Io |-> "none"] /\ ioQuit = [i \in Io |-> FALSE]
  /\ ioTasks = [i \in Io |-> <<>>] /\ acceptor = [i \in Io |-> "none"]
  /\ wheel = [i \in Io |-> FALSE]
  /\ conns = [i \in Io |-> {}] /\ linked = [i \in Io |-> {}]

Queue(i, task) == ioTasks' = [ioTasks EXCEPT ![i] = Append(@, task)]

(***************************************************************************)
(* The R thread.                                                           *)
(***************************************************************************)

\* drogonR_server_start(): a second start is refused, also after a stop.
ServerStart ==
  /\ rpc # "join" /\ ~gRunning /\ ~everStarted
  /\ gRunning' = TRUE /\ everStarted' = TRUE /\ app' = <<"listeners">>
  /\ UNCHANGED <<rpc, appRunning, looping, mainTasks, servers, io, ioQuit,
                 ioTasks, acceptor, wheel, conns, linked>>

\* quit(): only while the loop runs, and once.
Quit ==
  IF looping /\ appRunning
    THEN appRunning' = FALSE /\ mainTasks' = Append(mainTasks, "quit")
    ELSE UNCHANGED <<appRunning, mainTasks>>

MayStop == rpc = "idle" /\ gRunning /\ (StopsEarly \/ looping)

\* drogonR_server_stop(), up to the join.
ServerStop ==
  /\ MayStop
  /\ Quit
  /\ rpc' = "join"
  /\ UNCHANGED <<gRunning, everStarted, app, looping, servers, io, ioQuit,
                 ioTasks, acceptor, wheel, conns, linked>>

Joined ==
  /\ rpc = "join" /\ app = <<"exited">>
  /\ rpc' = "stopped" /\ gRunning' = FALSE
  /\ UNCHANGED <<everStarted, app, appRunning, looping, mainTasks, servers, io,
                 ioQuit, ioTasks, acceptor, wheel, conns, linked>>

(***************************************************************************)
(* run(), on the thread it was given.                                      *)
(***************************************************************************)

\* The pool's threads make their loops and wait; every loop gets a server whose
\* acceptor is bound here, running_ is set and startListening() is queued.
CreateListeners ==
  /\ app = <<"listeners">>
  /\ io' = [i \in Io |-> "created"] /\ servers' = "made"
  /\ acceptor' = [i \in Io |-> "bound"] /\ appRunning' = TRUE
  /\ mainTasks' = <<"listen">> /\ app' = <<"start", 1>>
  /\ UNCHANGED <<rpc, gRunning, everStarted, looping, ioQuit, ioTasks, wheel,
                 conns, linked>>

\* bindAddress() throws, and nothing on the thread catches it.
BindFails ==
  /\ app = <<"listeners">>
  /\ app' = <<"terminated">>
  /\ UNCHANGED <<rpc, gRunning, everStarted, appRunning, looping, mainTasks,
                 servers, io, ioQuit, ioTasks, acceptor, wheel, conns, linked>>

\* EventLoopThreadPool::start(): release a thread, wait until its loop loops.
StartIo(i) ==
  /\ app = <<"start", i>>
  /\ \/ io[i] = "created" /\ io' = [io EXCEPT ![i] = "released"] /\ UNCHANGED app
     \/ io[i] = "loop" /\ app' = <<"start", i + 1>> /\ UNCHANGED io
  /\ UNCHANGED <<rpc, gRunning, everStarted, appRunning, looping, mainTasks,
                 servers, ioQuit, ioTasks, acceptor, wheel, conns, linked>>

Loop ==
  /\ app = <<"start", IoNum + 1>>
  /\ app' = <<"loop">> /\ looping' = TRUE
  /\ UNCHANGED <<rpc, gRunning, everStarted, appRunning, mainTasks, servers, io,
                 ioQuit, ioTasks, acceptor, wheel, conns, linked>>

\* The function run() queued: TcpServer::start() on every server's loop.
StartListening ==
  /\ app = <<"loop">> /\ mainTasks # <<>> /\ Head(mainTasks) = "listen"
  /\ mainTasks' = Tail(mainTasks)
  /\ ioTasks' = [i \in Io |-> Append(ioTasks[i], <<"start">>)]
  /\ UNCHANGED <<rpc, gRunning, everStarted, app, appRunning, looping, servers,
                 io, ioQuit, acceptor, wheel, conns, linked>>

(***************************************************************************)
(* The function quit() queued.                                             *)
(***************************************************************************)

\* stopListening(): TcpServer::stop(), one server after the other.
StopListening ==
  /\ app = <<"loop">> /\ mainTasks # <<>> /\ Head(mainTasks) = "quit"
  /\ mainTasks' = Tail(mainTasks) /\ app' = <<"stop", 1>>
  /\ UNCHANGED <<rpc, gRunning, everStarted, appRunning, looping, servers, io,
                 ioQuit, ioTasks, acceptor, wheel, conns, linked>>

StopServer(i) ==
  /\ app = <<"stop", i>>
  /\ Queue(i, <<"stop">>) /\ app' = <<"stopping", i>>
  /\ UNCHANGED <<rpc, gRunning, everStarted, appRunning, looping, mainTasks,
                 servers, io, ioQuit, acceptor, wheel, conns, linked>>

\* The first promise is kept: the wheels go next, each on its own loop.
Stopped(i) ==
  /\ app = <<"stopping", i>> /\ acceptor[i] = "gone"
  /\ IF wheel[i] THEN Queue(i, <<"drop">>) ELSE UNCHANGED ioTasks
  /\ app' = <<"dropping", i>>
  /\ UNCHANGED <<rpc, gRunning, everStarted, appRunning, looping, mainTasks,
                 servers, io, ioQuit, acceptor, wheel, conns, linked>>

Dropped(i) ==
  /\ app = <<"dropping", i>> /\ ~wheel[i]
  /\ app' = <<"stop", i + 1>>
  /\ UNCHANGED <<rpc, gRunning, everStarted, appRunning, looping, mainTasks,
                 servers, io, ioQuit, ioTasks, acceptor, wheel, conns, linked>>

\* A plausible bug: the loops are told to quit before the servers are stopped.
MutQuitLoops ==
  /\ app = <<"stop", 1>>
  /\ servers' = "destroyed" /\ ioQuit' = [i \in Io |-> TRUE]
  /\ app' = <<"wait", 1>>
  /\ UNCHANGED <<rpc, gRunning, everStarted, appRunning, looping, mainTasks, io,
                 ioTasks, acceptor, wheel, conns, linked>>

\* The listener manager's servers are destroyed, all loops told to quit.
QuitLoops ==
  /\ app = <<"stop", IoNum + 1>>
  /\ servers' = "destroyed" /\ ioQuit' = [i \in Io |-> TRUE]
  /\ app' = <<"wait", 1>>
  /\ UNCHANGED <<rpc, gRunning, everStarted, appRunning, looping, mainTasks, io,
                 ioTasks, acceptor, wheel, conns, linked>>

\* A plausible bug: the threads are detached instead of joined.
MutWaitIo(i) ==
  /\ app = <<"wait", i>>
  /\ app' = <<"wait", i + 1>>
  /\ UNCHANGED <<rpc, gRunning, everStarted, appRunning, looping, mainTasks,
                 servers, io, ioQuit, ioTasks, acceptor, wheel, conns, linked>>

\* ioLoopThreadPool_->wait().
WaitIo(i) ==
  /\ app = <<"wait", i>> /\ io[i] = "exited"
  /\ app' = <<"wait", i + 1>>
  /\ UNCHANGED <<rpc, gRunning, everStarted, appRunning, looping, mainTasks,
                 servers, io, ioQuit, ioTasks, acceptor, wheel, conns, linked>>

\* The main loop sees its quit_, loop() returns and the thread ends.
Return ==
  /\ app = <<"wait", IoNum + 1>>
  /\ app' = <<"exited">> /\ looping' = FALSE
  /\ UNCHANGED <<rpc, gRunning, everStarted, appRunning, mainTasks, servers, io,
                 ioQuit, ioTasks, acceptor, wheel, conns, linked>>

MainStep ==
  \/ CreateListeners \/ BindFails \/ Loop \/ StartListening \/ StopListening
  \/ QuitLoops \/ Return
  \/ \E i \in Io : StartIo(i) \/ StopServer(i) \/ Stopped(i) \/ Dropped(i) \/ WaitIo(i)

(***************************************************************************)
(* An I/O loop's thread.                                                   *)
(***************************************************************************)

IoBegin(i) ==
  /\ io[i] = "released"
  /\ io' = [io EXCEPT ![i] = "loop"] /\ ioQuit' = [ioQuit EXCEPT ![i] = FALSE]
  /\ UNCHANGED <<rpc, gRunning, everStarted, app, appRunning, looping, mainTasks,
                 servers, ioTasks, acceptor, wheel, conns, linked>>

\* handleCloseInLoop(), for each of the connections cs: connectDestroyed() always
\* goes through the loop's queue.
Destroys(cs) == CHOOSE s \in [1 .. Cardinality(cs) -> {"destroy"} \X cs] :
                  \A c \in cs : \E k \in DOMAIN s : s[k] = <<"destroy", c>>

\* A plausible bug: the connections are left to their clients.
MutStopInLoop(i) ==
  /\ acceptor' = [acceptor EXCEPT ![i] = "gone"]
  /\ ioTasks' = [ioTasks EXCEPT ![i] = Tail(@)]
  /\ UNCHANGED <<wheel, conns, linked>>

\* TcpServer::stop()'s function: no more accepting, forceClose() for all.
StopInLoop(i) ==
  /\ acceptor' = [acceptor EXCEPT ![i] = "gone"]
  /\ conns' = [conns EXCEPT ![i] = {}]
  /\ ioTasks' = [ioTasks EXCEPT ![i] = Tail(@) \o Destroys(conns[i])]
  /\ UNCHANGED <<wheel, linked>>

\* TcpServer::start()'s function: the wheel, then listen().
StartInLoop(i) ==
  /\ wheel' = [wheel EXCEPT ![i] = TRUE]
  /\ acceptor' = [acceptor EXCEPT ![i] = "listening"]
  /\ ioTasks' = [ioTasks EXCEPT ![i] = Tail(@)]
  /\ UNCHANGED <<conns, linked>>

DropWheel(i) ==
  /\ wheel' = [wheel EXCEPT ![i] = FALSE]
  /\ ioTasks' = [ioTasks EXCEPT ![i] = Tail(@)]
  /\ UNCHANGED <<acceptor, conns, linked>>

ConnectDestroyed(i, c) ==
  /\ linked' = [linked EXCEPT ![i] = @ \ {c}]
  /\ ioTasks' = [ioTasks EXCEPT ![i] = Tail(@)]
  /\ UNCHANGED <<acceptor, wheel, conns>>

\* doRunInLoopFuncs(), one function at a time.
IoTask(i) ==
  /\ io[i] = "loop" /\ ioTasks[i] # <<>>
  /\ LET t == Head(ioTasks[i]) IN
     \/ t[1] = "start" /\ StartInLoop(i)
     \/ t[1] = "stop" /\ StopInLoop(i)
     \/ t[1] = "drop" /\ DropWheel(i)
     \/ t[1] = "destroy" /\ ConnectDestroyed(i, t[2])
  /\ UNCHANGED <<rpc, gRunning, everStarted, app, appRunning, looping, mainTasks,
                 servers, io, ioQuit>>

\* The loop looks at quit_ when its queue has been run dry.
IoExit(i) ==
  /\ io[i] = "loop" /\ ioQuit[i] /\ ioTasks[i] = <<>>
  /\ io' = [io EXCEPT ![i] = "exited"]
  /\ UNCHANGED <<rpc, gRunning, everStarted, app, appRunning, looping, mainTasks,
                 servers, ioQuit, ioTasks, acceptor, wheel, conns, linked>>

\* Acceptor::readCallback() and newConnection(): the kernel gives a client's
\* connection to one of the sockets that share the port.
NewConnection(i, c) ==
  /\ io[i] = "loop" /\ acceptor[i] = "listening"
  /\ \A j \in Io : c \notin linked[j] \cup conns[j]
  /\ conns' = [conns EXCEPT ![i] = @ \cup {c}]
  /\ linked' = [linked EXCEPT ![i] = @ \cup {c}]
  /\ UNCHANGED <<rpc, gRunning, everStarted, app, appRunning, looping, mainTasks,
                 servers, io, ioQuit, ioTasks, acceptor, wheel>>

\* The peer leaves, or the wheel closes an idle connection.
ConnectionClosed(i, c) ==
  /\ io[i] = "loop" /\ c \in conns[i]
  /\ conns' = [conns EXCEPT ![i] = @ \ {c}]
  /\ Queue(i, <<"destroy", c>>)
  /\ UNCHANGED <<rpc, gRunning, everStarted, app, appRunning, looping, mainTasks,
                 servers, io, ioQuit, acceptor, wheel, linked>>

Running == app # <<"terminated">>

ASNext ==
  /\ Running
  /\ \/ ServerStart \/ ServerStop \/ Joined \/ MainStep
     \/ \E i \in Io : IoBegin(i) \/ IoTask(i) \/ IoExit(i)
     \/ \E i \in Io, c \in Conns : NewConnection(i, c) \/ ConnectionClosed(i, c)

\* Every thread runs: the main loop's, and each I/O loop's own functions.  R and
\* the clients do what they like, and R's join returns once it can.
ASFairness ==
  /\ WF_asVars(Running /\ MainStep) /\ WF_asVars(Running /\ Joined)
  /\ \A i \in Io :
       WF_asVars(Running /\ (IoBegin(i) \/ IoTask(i) \/ IoExit(i)))

ASSpec == ASInit /\ [][ASNext]_asVars /\ ASFairness

(***************************************************************************)
(* Properties.                                                             *)
(***************************************************************************)

\* The callbacks of a connection, and the functions queued for an acceptor, hold
\* a plain pointer to their TcpServer (TcpServer.cc, `[this]'): no connection is
\* left in its connSet_, no start() or stop() waits in a queue, when quit() has
\* destroyed the servers; and listen() is never called on an acceptor that
\* stop() already reset.
ServerOutlivesUsers ==
  \A i \in Io :
    LET waiting == {ioTasks[i][k][1] : k \in DOMAIN ioTasks[i]} IN
    /\ servers = "destroyed" => conns[i] = {} /\ waiting \cap {"start", "stop", "drop"} = {}
    /\ acceptor[i] = "gone" => "start" \notin waiting

\* dr_stop() "stops the in-process Drogon event loop and joins the I/O threads"
\* (R/server.R): when it returns, no I/O thread runs, nothing listens and no
\* connection is left in a poller, whatever clients did meanwhile.
StoppedIsQuiet ==
  rpc = "stopped" => \A i \in Io : /\ io[i] = "exited" /\ acceptor[i] = "gone"
                                   /\ conns[i] = {} /\ linked[i] = {}

\* dr_stop() returns: its join waits for the main loop, the main loop for the
\* functions it queued to every I/O loop and then for their threads, and none of
\* them waits for another in a circle.
StopJoins == rpc = "join" ~> (rpc = "stopped" \/ app = <<"terminated">>)
=============================================================================
