# drogonR: specifications, model checking and proofs

drogonR embeds the Drogon C++ web server, and Trantor below it, in R. R is
single-threaded and none of Drogon's threads may call it, so most of what is hard in
the package is a hand-over between threads: requests go from I/O threads to the main
R thread, replies and chunks go back, connections end at any time, and the server may
be stopped from inside a handler. The rest is what the package relies on: parsers,
buffers, timers, caches and connections, where a long sequence of legal calls has to
leave everything right.

This directory holds TLA+ models of both, TLC configurations that check them on small
instances, and TLAPS proofs about the parts that hand work between threads. Paths of
the package's own C++ code below are relative to `src/src/`, of its R code to `src/`.

## 1. The system

| Part | Code | What makes it hard |
|---|---|---|
| Request bridge | `request_queue.cpp`, `r_dispatcher.cpp`, `r_bridge.h` | push and wake byte are two steps; a full pipe swallows bytes; three queues share one pipe; handlers run inside the drain loop and may stop or start things |
| Streaming responses of R handlers | `stream_session.cpp`, `R/stream.R` | the stream arrives on another thread after the session exists, or never; the peer leaves at any time; the generator runs between reading a flag and acting on it |
| WebSocket server | `ws_session.cpp`, `R/websocket.R` | connects race for the last slot; snapshots are used after the lock; native threads keep handles for ever |
| Native handlers and their pool | `drogon_server.cpp`, `inst/include/drogonR.h` | workers sleep for a stream another thread delivers; loops are joined before the pool |
| WebSocket client | `ws_client.cpp`, `R/websocket_client.R`, Drogon's `WebSocketClientImpl`, Trantor's `TcpClient`, `Connector` | reconnects by itself; closed while it connects; shut down from its own hook |
| Life of the server | `drogon_server.cpp`, `HttpAppFrameworkImpl.cc`, `ListenerManager.cc`, `TcpServer.cc` | the tear-down waits for every loop, function by function |
| Supervisor and workers | `R/server.R`, `inst/worker/worker.R` | a spawn that fails half-way; a stop while workers still start |
| Apps, routes, middlewares, conversions, limits, static files, plumber | `R/*.R`, `r_dispatcher.cpp`, `json_writer.cpp`, Drogon's routers and limiters | order of registration, failures half-way, conversions of conversions |
| Drogon | requests, responses, parsers, sessions, client, plugins, ORM builders, coroutines | streams cut anywhere; objects reused; settings that outlive their use |
| Trantor | event loop, timers, poller, TCP and TLS connections, log writer, task queue | lock-free queue, one eventfd, partial writes |

How they interact. `runDispatcher()` drains the request queue, then the server's
WebSocket events, then the client's, on the main R thread. Streams and WebSocket
connections live on the loop of their TCP connection. `drogonR_server_stop()` makes the
application quit and joins its thread first, then shuts the dispatcher down, clears
streams and WebSocket sessions, and destroys the worker pool last. Drogon cannot be
started twice in a process.

## 2. Modules

Definitions named `Mut...` are faulty variants of the definition that follows them. No
specification uses them; they show that each property fails when the code it is about
is broken.

### The package

| Module | Models |
|---|---|
| `RequestService`, `Dispatcher` | what the bridge promises, and the bridge with every thread that works on it |
| `StreamSession` | streaming responses of R handlers |
| `WsSession` | WebSocket sessions of R and of native routes, rooms, limit, reaper |
| `NativePool` | unary and streaming native handlers and their pool |
| `WsClient` | outgoing WebSocket connections with their own loop |
| `AppServer` | start, I/O loops, listening, connections, stop and its joins |
| `Supervisor` | worker processes, their app file, termination |
| `AppConfig` | apps, mounts, middlewares, `dr_serve()` and its tables, plumber routers |
| `Router` | route registration, path patterns, matching |
| `Chains` | the middleware chain of R, and Drogon's advices, middlewares and response cache |
| `RValues` | requests as R sees them, answers as the client sees them, JSON, server-sent events |
| `RateLimiter` | which limiters a route gets, the three algorithms, `Retry-After` |
| `StaticFiles` | mounts, cache, conditional requests and ranges |

**Dispatcher.** `queue`/`items` are `g_queue` and the batch swapped out of it, `bytes` the
content of the wake pipe, `armed`/`stale` the fd watches on the current and on a closed
pipe, `reply`/`responses` what became of each respond callback, `pc` the place of the
main thread inside `runDispatcher()`. `HandlerEnqueue` and `NotifyDispatcher` are the two
halves of `enqueueRequest()`. `DispatchReadable`, `DrainQueue`, `Serve`, `DrainWsEvents`,
`DrainWsClientEvents` and `Rearm` are the dispatcher's steps in the code's order. R calls
(`ServerStart`, `ServerStop`, `WsConnect`, `WsShutdown`) may, but for the first, also
happen inside a handler. A reply is only its kind. `ImplementsService` maps `pending` to
`items \o queue`: the swap, the pipe and the threads are invisible to a client.

**StreamSession.** `sess` holds the session's flags and which pointers are non-null,
`preserved` counts R objects kept from the garbage collector, `pumps` the pending `later`
callbacks, `tasks` what is queued on the connection's loop. `CallGenerator` reads the
cancelled flag and `GeneratorReturns`/`GeneratorFails` act on the result; the loop runs in
between. Drogon does not hand over a stream without keep-alive (`keep`). Chunks are
numbers; `min_interval` is left out, as a pump may be late by any amount.

**WsSession.** `RConns` use R hooks, `CppConns` a native handler with `max_conns`. `shut` is
the half-closed TCP state, in which frames still arrive. `ConnectCount` and
`ConnectRefuse`/`ConnectCpp` are increment and comparison of the live-count; `CloseCpp` and
`GiveBack` the halves of `eraseWsSession()`; `ReapSnapshot`/`ReapClose` those of the reaper,
which may find any session expired; `BackendFind`/`BackendQueue` those of `wsCppSend()` and
`wsCppClose()` on a detached thread. `CallHook`/`HookDone` bracket an R hook, in which R code
may send, close, join, leave, broadcast or stop the server.

**NativePool.** `job` is where a request's task is: queued, in the backend, or inside `send()`:
`wait` (predicate false, mutex held), `parked`, `awake`, `push`, `told`. The close callback
notifies without the mutex and may fall between `wait` and `parked`; the delivery takes
it and may not. Using a null loop pointer ends the process; the model records it and
claims nothing about that stream from there. `idle` counts the workers of the pool's
`ConcurrentTaskQueue` that are looking at the queue, that found nothing and still hold the
mutex (`nodding`), and that sleep. `PoolStop` and `PoolNotify` are the two statements of its
`stop()`, made without that mutex: a worker that nods between them sleeps for ever. `StopEnds`
says that this is the only way in which `dr_stop()` does not return, `StopCompletes` that it
returns always.

**WsClient.** `entry`/`hooks` are the table and its preserved R objects; `ws`, `tcp` and `conn`
the three objects of a client, `timers` and `resolving` what may bring them back, `tasks` the
loop's queue. `StopTcp` splits `stop()` at the point where the loop may run; `Shutdown...`
are the steps of `dr_ws_shutdown()`, also when called from a hook. A lookup in progress when
the loop is destroyed is in `lost`: its thread goes on, and its answer is for the destroyed
loop. `ShutdownClean` is about everything else; `NeverOnStoppedLoop` says that no such use
happens.

**AppServer.** `app` is the place of the thread in `run()`, `loop()` and the function that
`quit()` queued; `ioTasks` are the functions queued to each I/O loop; `linked` the
connections whose channel is still in the loop's poller, which outlives `connSet_`
(`conns`) by one queued `connectDestroyed()`. `StopsEarly` lets R stop before the main loop runs:
`quit()` then does nothing and the join waits for ever. The run has it `FALSE`, so `StopJoins` is
about stops of a server that came up; the theorems hold for both values.

**Supervisor.** `tracked` and `trackedRds` are what the session remembers, `procs` the list of
the R function that runs; processx kills what the garbage collector finds. `OrphansEnd` says
that it so ends the workers of a `dr_serve()` that failed half-way, or that another call made
the session forget. The app file of a failed call stays.

### Drogon and Trantor

| Module | Models |
|---|---|
| `HttpServer` | pipelining: requests parsed in batches, answered in any order by any thread |
| `HttpParsers`, `WsFrames`, `RequestBodies` | request and response parser, WebSocket frames, request streams and multipart bodies, on streams cut anywhere |
| `HttpRequest`, `HttpResponse` | request objects with body, file, reuse and forwarding; responses with head, length, chunks and compression |
| `HttpSessions` | session manager, cookies, and the cache with its timing wheels |
| `HttpClient` | pipelined requests with time-outs, resolution, closing |
| `ServerLimits`, `Plugins` | connection limits and Hodor; slash remover, redirectors, global filters, real address, metrics |
| `Orm` | the statements of mapper, criteria and query builders |
| `Coroutines` | tasks, awaiters on loops and timers, `sync_wait()`, the mutex |
| `PubSub` | publish/subscribe between threads |
| `Utils` | Base64, hex, URL coding, query parameters, `MsgBuffer` |
| `EventLoop` | the loop, its lock-free queue, eventfd, quit, and the thread that owns it |
| `LoopTimers`, `Poller` | timer queue and wheels; channels and epoll |
| `TcpConnection`, `TlsConnection` | sending, streams, shutdown; records, handshake and alerts over it |
| `AsyncLogger`, `TaskQueue` | log writer and its files; task queue |

`MCDispatcher`, `MCSessions`, `MCProgress` and `MCSafety` are the instances. The last three hold
many components: a variable `part` picks one in the initial state, the others stay as
they are, and a property is the conjunction of what each component promises. The
components in them do not interact in the code either, except through what each
module keeps of its environment; where they do interact, one module holds both (the
three queues of `Dispatcher`, `server_stop()` in every module that sees it).

**HttpServer.** `conn` is `draining` while a `shutdown()` waits for pending writes. The connection
counts as connected until then and later requests are still served, which `ResponsesInOrder`
allows. `closeEmpty` is a request that asks to close and whose response has no content (1xx, 204):
`sendResponses()` is done with it before it looks at its close flag.

**HttpParsers, WsFrames.** A message is a record of what its reader tells apart: a first line
that is right or not, version, a header line without a colon, lengths that are numbers or
not, transfer coding, chunks and what ends them, trailer fields, an expectation. A line
without a colon ends the headers, and what follows is read as the next message. Control
frames may come between fragments; `MessagesIntact` is exact up to the first that does.

**HttpClient.** A setting gives the server by address, by name or not at all, and says whether
callbacks send again and whether a request object is sent twice. Names are resolved by
another thread or from the resolver's cache. `replaced` is a connected TCP client that a late
lookup overwrote; `RequestsMove` says when that can be, and nothing is modelled after it.
`CalledOnce` excepts a sending whose entry the timer of another sending of the same object took.

**HttpSessions.** An access to the cache and a tick are cut where they take and leave their
mutexes. An entry put into a higher wheel between the count of a tick and the turn of that
wheel goes a turn early (`Turn`). An access that was held up until the value it prolonged is
due destroys the last pointer to it under the mutex that its callback waits for (`stuck`;
`StuckOnlyWhenDue` says that nothing else leads there).

**PubSub.** `removeTopic()` erases the topic; the ids of a new topic of that name start anew, so
that an old subscriber's `unsubscribe()` may take another's handler. `removed` and `victims`
record both, and the properties are about the subscribers that are neither.

**AsyncLogger.** `tooLong` are messages that exceed the buffer, which `output()` discards.

**RateLimiter.** A token bucket of capacity 1 refuses everything, since it wants more than one
token; `RetryAfterEnough` says exactly that of it.

## 3. Runs

| Run | Components | Shows |
|---|---|---|
| `dispatcher` | Dispatcher | safety, refinement of `RequestService`, every accepted request is answered |
| `sessions` | StreamSession, NativePool, TaskQueue, WsSession | what a stream, a native request and a session promise, and that what was begun, cancelled or closed ends |
| `progress` | WsClient, Supervisor, AppServer, EventLoop, TcpConnection, AsyncLogger, HttpServer, Coroutines | safe in every interleaving, and each reaches its goal |
| `safety` | all other modules, and WsSession's safety | sequences of calls, and data |
| `dispatcher_client_pump` | Dispatcher | **violated**: client events without a pump after `dr_stop()` |
| `stream_undelivered` | StreamSession | **violated**: the promised cancelled call never comes when the stream is never delivered |
| `stream_stop_in_generator` | StreamSession | **violated**: the pump uses the destroyed loop after the generator called `dr_stop()` |
| `ws_handle` | WsSession | **violated**: a handle used while the server stops reaches a destroyed loop |
| `pool_in_flight` | NativePool | **violated**: an in-flight backend closes through a destroyed loop |
| `pool_auto_close` | NativePool | **violated**: closing before the stream was delivered uses a null loop |
| `pool_stop` | NativePool | **violated**: a worker misses the notification of `stop()`, and `dr_stop()` does not return |
| `client_stopped_loop` | WsClient | **violated**: a client that connects or resolves while it is shut down uses the destroyed loop |

The violated properties state what a comment or the documentation says; `findings` in
`PROJECT.json` quotes it beside what the code does. Deadlock is not checked: each of
these systems stops for good once its server was stopped, or its bounded inputs are
used up.

What the grouped properties are made of (each member is defined, with a comment that
names the code, in the module it is about):

| Property | Members |
|---|---|
| `StreamServed` | `OnePump`, `ObjectsReleased`, `WireFaithful`, `NoDeadLoopUse` |
| `PoolServed` | `DeliveryWakes`, `StreamFaithful` |
| `CancelEnds` | `CancelEndsStream`, `CancelEndsJob`, `ClosedIsErased` |
| `WorkEnds` | `UnaryAnswered`, `StopEnds`, `TaskTaken` |
| `ClientSound` | `HooksBalanced`, `ShutdownClean` |
| `StopIsClean` | `RdsThere`, `StopLeavesNone`, `ServerOutlivesUsers`, `StoppedIsQuiet` |
| `LoopSound` | `LoopOrder`, `NoLostWakeup`, `QuitSeen`; `OneOwner`, `HandedOnInOrder`, `FramesOutlive`, `OutcomeMeant`, `OnItsLoop` |
| `LogFaithful` | `LogInOrder`, `LossesReported` |
| `PipelineSound` | `ResponsesInOrder`, `HeadIsPending` |
| `ClosesEnd` | `GoneDisconnects`, `CloseCompletes`, `ShutdownDone` |
| `StopsEnd` | `StopReturns`, `OrphansEnd`, `StopJoins`, `JoinReturns` |
| `WorkGetsDone` | `LogWritten`, `RequestAnswered`, `LockGranted`, `SyncWaitReturns` |
| `LimitsHold` | `TwiceCapacity`, `RetryAfterEnough`, `ConnectionsBounded`, `CountersReturn`, `CapsHold`, `HodorForCause` |
| `ChainsWrap` | `LinksInOrder`, `NxtCanonical`, `UncaughtIs500`, `MiddlewaresWrap` |
| `RoutesMeant` | `StaticLast`, `ParamsBound`, `AllOrNothing`, `ArgumentsByName`, `PathClean`, `OneHop`, `FiltersGuard`, `RealIpMeant` |
| `AnswersMeant` | `RequestSeen`, `AnswerMeant`, `SseHeard`, `AnsweredAsMeant`, `Framed`, `SaysWhetherItCloses`, `AnswerFresh`, `PartOfFile` |
| `AppsServed` | `ServedAsConfigured`, `StrongestServes`, `HandlersHeld`, `MiddlewaresApply` |
| `CodecsFaithful` | `Base64RoundTrip`, `HexRoundTrip`, `UrlRoundTrip`, `ParametersArrive`, `RangesWithin`, `RangesMeant`, `WritesWhatIsMeant`, `RefusesTheRest` |
| `TimersFire` | `TimerArmed`, `ValidKept`, `NotEarly`, `OnTime`, `ExpiresInTime`, `StuckOnlyWhenDue` |
| `TransportKeeps` | `NothingLost`, `NoStall`, `ShutAfterFlush`, `ToldOnce`, `BytesKept`, `RecordsWhole` and the same over TLS |
| `PollerSound` | `ActiveExist`, `InterestRegistered` |
| `StreamsIntact` | `RequestsIntact`, `ResponsesIntact`, `MessagesIntact`, `PartsIntact`, `ReaderServed`, `PlainGetsBody`, `ReadsItsOwn`, `BodyWhole`, `ForwardedAsItCame` |
| `RefusedForCause` | `RefusedForCause`, `ShutForCause`, `FinishedForCause` |
| `ClientAnswers` | `CalledOnce`, `OwnResponse`, `RequestsMove` |
| `SharedSound` | `ClientKeepsSession`, `ClientToldId`, `OldIdGoes`, `CookiePrivate`, `AllHear`, `NoneHeardAfter`, `SubscribersReachable`, `SamplesExact`, `ScrapeWhole` |
| `StatementsFit` | `ArgumentsFit`, `SettingsServeOnce` |
| `SocketsSound` | `LiveBalanced`, `CapacityRespected`, `HeardInOrder` |
| `NothingStale` (action property) | `InstallKeepsStep`, `StaysQuiet`, `KeptStep`, `FreshStep`, `MeantStep`, `RoomsForgetStep` |

### Bounds

Each instance is the smallest in which its hazard happens. All are constants of the
modules, given in the MC modules.

- Bridge: a one-byte pipe makes every second wake byte disappear; a queue of two with
  three requests sheds load while another request is served.
- Streams, native requests, sessions: two streams of two chunks; one unary and one
  streaming request for one worker, so that the streaming backend holds the whole
  pool; two connections for one slot; two frames between connect and close (one in the
  run `safety`), and at most that many functions queued on a loop at a time.
- `progress`: one client with two events at a time, which reconnects without bound; two calls
  of `dr_serve()` with two of four workers each; two I/O loops and two connections; two
  producers of one function and the one each may queue from inside it; three pipelined
  requests; five log messages in buffers of two, files of one buffer, one file kept; three
  coroutines on a mutex, and programs of at most three tasks.
- `safety`: two limiters on two routes over four ticks, three links with two calls of
  `next()`, three routes over paths of a two-letter alphabet, R values of depth two, inputs
  of at most three bytes for the codecs over seven bytes that differ in every class the
  coders tell apart, frame lengths on both sides of 125, 65535 and the message limit,
  streams of two or three messages cut at every place, cached entries over five ticks of two
  wheels of two buckets, three threads with five calls on one topic name, range texts of five
  characters.

The parsers, coders, builders and the chain of `safety` are checked against a reference
definition of what they mean, written without the code's state.

### Fairness, and why the code gives it

- `Dispatcher`: the main thread goes on inside `runDispatcher()` and reacts to a readable pipe,
  since R runs its event loop; a thread that pushed writes its byte. The 600 s watch
  timeout has no fairness, so liveness does not rest on it.
- `StreamSession`: `later` runs every pending callback, also if pumps that find nothing keep
  re-arming (strong fairness of `CallGenerator`); generators return; loops run what is
  queued. Peers need not leave.
- `WsSession`: as above, and a connection that was shut down ends, since the peer answers
  or Drogon's 60 s idle kick-off closes it.
- `NativePool`: unary backends return; a streaming backend returns once `send()` or
  `is_cancelled()` told it to, and may go on for ever otherwise; a waiting `send()` times out;
  workers and the stopping thread run. Nothing wakes a sleeping worker but a notification:
  spurious wake-ups may happen and have no fairness.
- `TaskQueue`: a thread that waits for the mutex again and again gets it.
- `WsClient`: the loop runs its queue and R its pump, also between other events (strong
  fairness); name resolution and connection attempts end, if only by failing.
- `Supervisor`: R calls run to their end, SIGKILL is not refused, R collects its garbage.
- `AppServer`, `EventLoop`: every thread runs; clients and R do what they like.
- `TcpConnection`: the loop runs, the peer of an open connection reads, a broken socket
  is reported, and whoever holds an asynchronous stream closes it.
- `AsyncLogger`, `HttpServer`, `Coroutines`: threads run, handlers answer, and a coroutine that
  can go on does (strong fairness for the end of a task, which takes `sync_wait()`'s mutex).

## 4. Proofs

TLC shows a property on the instance above; a theorem shows it for every value of the
constants, under the assumption its module names. Each rests on an inductive invariant
that TLC checked first. Every proof has a lemma per action and one last temporal step.

**`DispatcherProofs`** (`DispatcherAssumption`: positive capacities).
`TypeCorrect`. `WakeupsAreKept` and `PipeStaysWatched` from `WakeInv`: `NoLostWakeup` speaks only of the
idle dispatcher and is not inductive; `WakeInv` says for every place of the main thread who
still owes the byte or the drain for each queue. `WatchesStayBounded` from `WatchInv`.
`AnsweredExactlyOnce` and `NothingIsDropped` from `RequestInv`, which adds that a pending request is
held once, in the queue or in the batch. `CapacityRespected` from `CapacityInv`.
`BridgeImplementsService`: every step is a step of `RequestService` under the mapping, or
none. `WatchesBounded` and `QueueBounded` are only proved, no run repeats them.

**`StreamSessionProofs`** (`StreamAssumption`, and generators that do not stop the server; the run
`stream_stop_in_generator` shows what happens otherwise). `StreamTypeCorrect`,
`StreamsAreServed`, `CancelledCallComesLast`, from `StreamInv`: a session is waiting, streaming,
closing or ended, and in each state the loop's queue holds exactly the chunks that are
not on the wire yet; `Pumped` says who pumps it, `Held` which R objects it keeps.

**`NativePoolProofs`** (`PoolAssumption`: finitely many requests, at least one worker).
`PoolTypeCorrect`, `PoolIsServed`, from `PoolInv`: before, flowing, closing, closed, with
the queue's contents as above, and where in `send()` the worker may be in each of them.

**`WsSessionProofs`** (`WsAssumption`: finitely many native connections). `WsTypeCorrect`,
`SocketsAreSound`, `RoomsAreForgotten`, from `WsInv`. For the order of events it relates what was
heard with what is yet to be heard (`Continues`, over the rest of the batch and the queue
behind it), for as long as the routes exist; for the count it says that `live` is the
number of slots held and that those admitted are at most `MaxConns`, which is what the
increment before the comparison buys.

**`WsClientProofs`** (`WsClientAssumption`: finitely many clients). `ClientTypeCorrect`,
`ClientsAreSound`, `HooksComeInOrder`, from `TableInv` and `ClientInv`. `TableInv` adds to `ShutdownClean` that
no lookup counts as the loop's once it is gone (`QuietLoop`). A client object reconnects by
itself and would report a second open; the invariant says that until a close of it was
queued it is on its way to its first connection or has it (`FirstConnection`: one start
at a time among queue, resolver and connector, no timer), and that what comes after the
first close in the queue is never heard.

**`EventLoopProofs`** (`ELAssumption`). `LoopTypeCorrect`, `LoopCallsInOrder`, `LoopWakes`,
`LoopSeesQuit`, from `LoopInv`: the functions in order of their places are the ones called and then
the queue; for a loop that does not look at its queue, a reachable function has its
wake-up written or a producer about to write it; and `run()` has waited for the loop
before the owner can call `quit()`, so that `loop()` cannot reset the flag.

**`AppServerProofs`** (`ASAssumption`: any number of I/O loops, finitely many connections).
`AppTypeCorrect`, `ServersOutliveUsers`, `StopLeavesQuiet`, from `AppInv`. For each I/O loop it says how
far the tear-down has come (`Stopping`, `Dropping`, `Past`) and what its queue may then
hold: at most one `stop`, no `start` behind it, a `drop` only while the wheel exists, and a
`destroy` for every connection that is in the poller and not in `connSet_` any more.

**`Supervisor`** (no assumption; the proofs are at the end of the module).
`WorkersFindTheirApp`, `NoWorkerSurvives`, from `SupInv`: the workers of the call whose file is
remembered are the remembered ones, the call under way has a file nobody remembers yet,
and `dr_stop()` works on the list it took.

Only model-checked:

- all liveness (`EventuallyAnswered`, `CancelEnds`, `WorkEnds`, `ClosesEnd`, `StopsEnd`, `WorkGetsDone`),
  since fairness is out of the prover's reach;
- `LogFaithful` and `PipelineSound`, whose statements select from and fold over sequences,
  and everything of `safety` that is defined by recursion over its input (parsers, coders,
  chains, builders): that needs induction over data, which the installed provers cannot do;
- `Coroutines`, `TaskQueue` and the other components of `safety`, for which no proof was written.

## 5. Disagreements without a run of their own

Met while modelling; the models follow the code. Properties named here are defined in their
module and do not hold.

- `ws_session.cpp:577`, `R/websocket.R:221`: `dr_ws_broadcast()` returns the number of members of the
  room, also of those nothing was queued to (`BroadcastCountsQueued` in `WsSession`).
- `R/request.R:8`: `.dr_make_request()` empties `req$params`, so that with a middleware or an error
  handler no captured value arrives, against `vignettes/mode-native.Rmd:50`
  (`ParamsReachHandler` in `RValues`).
- `AsyncFileLogger.cc:76`: a message longer than the buffer vanishes and is not counted as lost.
- `WebSocketConnectionImpl.cc`: a control frame between two fragments takes their payload over
  and gives it its type.
- `HttpRequestParser.cc`: a chunked request with trailer fields is refused;
  `HttpResponseParser.cc`: the trailer of a chunked response is read as the next response.
- `HttpClientImpl.cc:478`: a late lookup overwrites a connected client and then uses the pointer
  that the end of that client has reset.
- `HttpServer.cc:983`, `1065`: a response without content never closes the connection, whatever its
  close flag says.
- `CacheMap.h`: an access may wait for a mutex it holds (`stuck`, above).
- `R/response.R:158`: a file of unknown extension is an error of `dr_file()`'s type lookup,
  where the documentation speaks of `application/octet-stream` (`UnknownIsOctetStream` in `RValues`).
- With a middleware or an error handler, a stream returned by a handler becomes a 500,
  and a list without `body` is a 500 only then.
- A default `Content-Type` of the response helpers overrides one given in lower case; a status
  outside 100..599 becomes 200.
- `inst/worker/worker.R` registers R routes, static mounts and unary native routes only;
  `R/server.R:863-866` makes no such exception.
- The warning about overwriting a route does not match the order in which routes are
  installed; `clear_routes()` leaves the WebSocket routes; a middleware added while the server
  runs has an effect only if handlers were wrapped when it was started.
- ORM: `single()` of a transformed query drops its joins; the settings of a coroutine
  mapper belong to the first statement that is awaited; `range(from, to)` wraps.
- Drogon objects: `HttpResponse` objects in a cache are shared and changed by
  `setCloseConnection()`; `HttpRequestImpl::reset()` and `swap()` leave out members; the length
  header of a decompressed body is the compressed one's.
- `dr_stop()` before the main loop runs does not return: `HttpAppFrameworkImpl::quit()` does
  nothing unless the loop is running, and `drogonR_server_stop()` joins the thread anyway.
- `EventLoopAwaiter` catches `std::exception` only. `coroutine.h` needs C++20, the package is
  built as C++17.
- Publish/subscribe: ids restart for each topic, and a handler that subscribes or
  unsubscribes while it is called waits for its own lock.
- Plugins: the reader of forwarded addresses keeps a leading separator; a prefix length of
  0 shifts by the width of the type; the slash remover can redirect to a path that starts
  with two slashes; Hodor counts a request for the global limit before it looks at the
  others; a redirector whose plugin is gone answers 404.
- `TcpConnectionImpl`: a file sent on a full socket is not kept for later; the kind is left out
  of the instance's `Kinds`.

## 6. Not modelled

- Formatting and wording, hashes, UUIDs, dates, JSON parsing by the library, certificates.
- `StaticFileRouter::route()`, the session's data accessors, `AccessLogger`, Drogon's own
  controllers and the parsing of its configuration file.
- Nested `later::run_now()` inside a handler while two watches exist, and the reuse of a file
  descriptor number after the pipe was closed.
- Weak memory orders: shared flags are C++ atomics or guarded by a mutex.
- Two streams pipelined on one connection.
- Database clients, Redis, the c-ares resolver and tools: headers without sources here, or
  not compiled. Pollers of other systems and the portability layer for Windows.
