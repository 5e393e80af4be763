----------------------------- MODULE NativePool -----------------------------
(***************************************************************************)
(* Native handlers (dr_*_cpp() routes).  A loop thread snapshots a request *)
(* and queues it for a pool of worker threads.  A unary backend returns    *)
(* one response; a streaming backend pushes chunks through callbacks that  *)
(* wait for Drogon to hand over the response stream and then queue the     *)
(* chunks on the connection's loop.  Stopping the server joins the loops   *)
(* first and the pool last.                                                *)
(***************************************************************************)
EXTENDS Naturals, Sequences, FiniteSets

CONSTANTS Unary,      \* requests to unary native routes
          Streaming,  \* requests to streaming native routes
          Workers,    \* threads of the pool
          MaxSends    \* bound: chunks a backend sends

\* What instances of this module assume of the constants.
PoolAssumption ==
    /\ Unary \intersect Streaming = {} /\ IsFiniteSet(Unary \union Streaming)
    /\ Workers \in Nat \ {0} /\ MaxSends \in Nat

Requests == Unary \union Streaming

VARIABLES
    server,    \* up / stopping / joined: loops gone / pool: stop_ set /
               \* joining: workers notified / down
    conn,      \* connection of the request: none / open / closed
    keep,      \* the request asked for keep-alive
    queue,     \* tasks of the pool
    idle,      \* workers without a task, counted by where they are
    job,       \* where the request's task is
    sess,      \* the CppStreamSession objects
    tasks,     \* functions queued on the connection's loop
    accepted,  \* sends that returned 0
    wire,      \* what reached the client: chunk numbers, 0 ends the response
    badLoop    \* queueInLoop() through a bad pointer: no / null / dead

poolVars == <<queue, idle>>
netVars  == <<conn, keep>>
vars == <<server, netVars, poolVars, job, sess, tasks, accepted, wire, badLoop>>

\* wait: in send(), predicate false, mutex held; parked: mutex released;
\* awake: notified; push: about to queue the chunk; told: send() returned -1.
InBackend == {"run", "wait", "parked", "awake", "push", "told"}

\* looking: past the test of stop_ in the outer loop, wants taskMutex_; nodding:
\* found no task and stop_ unset, holds the mutex; asleep: in taskCond_.wait().
IdleStates ==
    {i \in [looking : 0..Workers, nodding : 0..Workers, asleep : 0..Workers] :
        i.looking + i.nodding + i.asleep <= Workers}

At(l, n, a) == [looking |-> l, nodding |-> n, asleep |-> a]

NoSession == [loop |-> FALSE, stream |-> FALSE, cancelled |-> FALSE, closed |-> FALSE]

Task(f, n) == [do |-> f, chunk |-> n]

Init ==
    /\ server = "up"
    /\ conn = [r \in Requests |-> "none"]
    /\ keep \in [Requests -> BOOLEAN]
    /\ queue = <<>> /\ idle = At(0, 0, 0)
    /\ job = [r \in Requests |-> "none"]
    /\ sess = [r \in Requests |-> NoSession]
    /\ tasks = [r \in Requests |-> <<>>]
    /\ accepted = [r \in Requests |-> 0]
    /\ wire = [r \in Requests |-> <<>>]
    /\ badLoop = "no"

LoopsAlive == server \in {"up", "stopping"}
-----------------------------------------------------------------------------
(* The handlers, on the connection's loop thread.                          *)

\* checkRateLimits() denies the request.
Limited(r) ==
    /\ server = "up" /\ conn[r] = "none"
    /\ conn' = [conn EXCEPT ![r] = "open"]
    /\ job' = [job EXCEPT ![r] = "limited"]
    /\ UNCHANGED <<server, keep, poolVars, sess, tasks, accepted, wire, badLoop>>

\* taskMutex_ of the pool, and notify_one() on its condition variable.
TaskMutexFree == idle.nodding = 0

NotifyOne(i) == IF i.asleep > 0 THEN At(i.looking + 1, i.nodding, i.asleep - 1) ELSE i

\* runTaskInQueue(), all of it under taskMutex_.
RunTaskInQueue(r) ==
    /\ TaskMutexFree
    /\ queue' = Append(queue, r)
    /\ idle' = NotifyOne(idle)

\* A unary request is queued for the pool.
HandleUnary(r) ==
    /\ r \in Unary
    /\ server = "up" /\ conn[r] = "none"
    /\ conn' = [conn EXCEPT ![r] = "open"]
    /\ job' = [job EXCEPT ![r] = "queued"]
    /\ RunTaskInQueue(r)
    /\ UNCHANGED <<server, keep, sess, tasks, accepted, wire, badLoop>>

\* So is a streaming one, after the head of the response was handed to Drogon,
\* which will deliver the stream on this loop.
HandleStream(r) ==
    /\ r \in Streaming
    /\ server = "up" /\ conn[r] = "none"
    /\ conn' = [conn EXCEPT ![r] = "open"]
    /\ job' = [job EXCEPT ![r] = "queued"]
    /\ RunTaskInQueue(r)
    /\ tasks' = [tasks EXCEPT ![r] = Append(@, Task("deliver", 0))]
    /\ UNCHANGED <<server, keep, sess, accepted, wire, badLoop>>

NextTask(r, f) == LoopsAlive /\ tasks[r] # <<>> /\ Head(tasks[r]).do = f

RunTask(r) == tasks' = [tasks EXCEPT ![r] = Tail(@)]

\* notify_all() on the condition variable send() waits on.
Notified(r) == IF job[r] = "parked" THEN [job EXCEPT ![r] = "awake"] ELSE job

\* Drogon hands over the stream, unless the connection is gone or is to be
\* closed after the response.  The mutex is taken to store it.
MutMutexFree(r) == TRUE

MutexFree(r) == job[r] # "wait"

Deliver(r) ==
    /\ NextTask(r, "deliver") /\ MutexFree(r)
    /\ RunTask(r)
    /\ IF conn[r] = "open" /\ keep[r]
       THEN /\ sess' = [sess EXCEPT ![r].loop = TRUE, ![r].stream = TRUE]
            /\ job' = Notified(r)
       ELSE UNCHANGED <<sess, job>>
    /\ UNCHANGED <<server, netVars, poolVars, accepted, wire, badLoop>>

\* send()'s function: a failed write sets the flag.
SendTask(r) ==
    /\ NextTask(r, "send")
    /\ RunTask(r)
    /\ wire' = IF sess[r].stream /\ conn[r] = "open"
               THEN [wire EXCEPT ![r] = Append(@, Head(tasks[r]).chunk)] ELSE wire
    /\ sess' = IF sess[r].stream /\ conn[r] # "open"
               THEN [sess EXCEPT ![r].cancelled = TRUE] ELSE sess
    /\ UNCHANGED <<server, netVars, poolVars, job, accepted, badLoop>>

\* close()'s function ends the response and drops the stream.
CloseTask(r) ==
    /\ NextTask(r, "close")
    /\ RunTask(r)
    /\ wire' = IF sess[r].stream /\ conn[r] = "open"
               THEN [wire EXCEPT ![r] = Append(@, 0)] ELSE wire
    /\ sess' = [sess EXCEPT ![r].stream = FALSE]
    /\ UNCHANGED <<server, netVars, poolVars, job, accepted, badLoop>>

\* Drogon writes the response of a unary handler.
ReplyTask(r) ==
    /\ NextTask(r, "reply")
    /\ RunTask(r)
    /\ wire' = IF conn[r] = "open" THEN [wire EXCEPT ![r] = Append(@, 0)] ELSE wire
    /\ UNCHANGED <<server, netVars, poolVars, job, sess, accepted, badLoop>>

\* The connection ends; the user-close callback sets the flag and notifies,
\* without the mutex.
MutPeerGone(r) ==
    /\ LoopsAlive /\ conn[r] = "open"
    /\ conn' = [conn EXCEPT ![r] = "closed"]
    /\ UNCHANGED <<server, keep, poolVars, job, sess, tasks, accepted, wire, badLoop>>

PeerGone(r) ==
    /\ LoopsAlive /\ conn[r] = "open"
    /\ conn' = [conn EXCEPT ![r] = "closed"]
    /\ IF r \in Streaming
       THEN sess' = [sess EXCEPT ![r].cancelled = TRUE] /\ job' = Notified(r)
       ELSE UNCHANGED <<sess, job>>
    /\ UNCHANGED <<server, keep, poolVars, tasks, accepted, wire, badLoop>>
-----------------------------------------------------------------------------
(* The worker threads of the pool.                                         *)

Running == {r \in Requests : job[r] \in InBackend}

\* stop_, which the destructor sets without taskMutex_.
StopUnset == server \in {"up", "stopping", "joined"}

Idle == idle.looking + idle.nodding + idle.asleep

\* A worker without a task finds stop_ unset ...
MutEnter ==
    /\ StopUnset /\ Idle + Cardinality(Running) <= Workers
    /\ idle' = At(idle.looking + 1, idle.nodding, idle.asleep)
    /\ UNCHANGED <<server, netVars, queue, job, sess, tasks, accepted, wire, badLoop>>

Enter ==
    /\ StopUnset /\ Idle + Cardinality(Running) < Workers
    /\ idle' = At(idle.looking + 1, idle.nodding, idle.asleep)
    /\ UNCHANGED <<server, netVars, queue, job, sess, tasks, accepted, wire, badLoop>>

\* ... and under the mutex takes the next task ...
Pop ==
    /\ idle.looking > 0 /\ TaskMutexFree /\ queue # <<>>
    /\ idle' = At(idle.looking - 1, idle.nodding, idle.asleep)
    /\ queue' = Tail(queue)
    /\ job' = [job EXCEPT ![Head(queue)] = "run"]
    /\ UNCHANGED <<server, netVars, sess, tasks, accepted, wire, badLoop>>

\* ... or finds none and goes to sleep, which is two steps for one who does not
\* take the mutex, and may wake without being notified ...
Nod ==
    /\ idle.looking > 0 /\ TaskMutexFree /\ queue = <<>> /\ StopUnset
    /\ idle' = At(idle.looking - 1, 1, idle.asleep)
    /\ UNCHANGED <<server, netVars, queue, job, sess, tasks, accepted, wire, badLoop>>

Sleep ==
    /\ idle.nodding > 0
    /\ idle' = At(idle.looking, 0, idle.asleep + 1)
    /\ UNCHANGED <<server, netVars, queue, job, sess, tasks, accepted, wire, badLoop>>

SpuriousWakeup ==
    /\ idle.asleep > 0
    /\ idle' = NotifyOne(idle)
    /\ UNCHANGED <<server, netVars, queue, job, sess, tasks, accepted, wire, badLoop>>

\* ... or finds none and stop_ set, and ends.
Leave ==
    /\ idle.looking > 0 /\ TaskMutexFree /\ queue = <<>> /\ ~StopUnset
    /\ idle' = At(idle.looking - 1, idle.nodding, idle.asleep)
    /\ UNCHANGED <<server, netVars, queue, job, sess, tasks, accepted, wire, badLoop>>

\* The unary backend returned, failed (ok FALSE) or threw: a response is handed
\* to Drogon, which drops it when the connection has gone.
MutAnswers(ok) == ok

Answers(ok) == TRUE

UnaryReturn(r, ok) ==
    /\ r \in Unary /\ job[r] = "run"
    /\ job' = [job EXCEPT ![r] = "done"]
    /\ tasks' = IF Answers(ok) /\ conn[r] = "open"
                THEN [tasks EXCEPT ![r] = Append(@, Task("reply", 0))] ELSE tasks
    /\ UNCHANGED <<server, netVars, poolVars, sess, accepted, wire, badLoop>>

\* queueInLoop() through the session's loop pointer; the function is lost when
\* the pointer is bad.
QueueInLoop(r, t) ==
    LET bad == IF ~sess[r].loop THEN "null" ELSE IF ~LoopsAlive THEN "dead" ELSE "no"
    IN  /\ tasks' = IF bad = "no" THEN [tasks EXCEPT ![r] = Append(@, t)] ELSE tasks
        /\ badLoop' = IF badLoop = "no" THEN bad ELSE badLoop

\* drogonR_cpp_stream_send(): a cancelled stream is refused; without a stream
\* the worker waits for one.  Backends do not send after their own close.
SendBegin(r) ==
    /\ r \in Streaming /\ job[r] = "run"
    /\ ~sess[r].closed /\ accepted[r] < MaxSends
    /\ job' = [job EXCEPT ![r] = IF sess[r].cancelled THEN "told"
                                 ELSE IF sess[r].stream THEN "push" ELSE "wait"]
    /\ UNCHANGED <<server, netVars, poolVars, sess, tasks, accepted, wire, badLoop>>

Park(r) ==
    /\ job[r] = "wait"
    /\ job' = [job EXCEPT ![r] = "parked"]
    /\ UNCHANGED <<server, netVars, poolVars, sess, tasks, accepted, wire, badLoop>>

\* Woken, or after 5 seconds: cancelled or still no stream makes send() fail.
AfterWait(r) ==
    job' = [job EXCEPT ![r] = IF sess[r].cancelled \/ ~sess[r].stream THEN "told" ELSE "push"]

Wake(r) ==
    /\ job[r] = "awake"
    /\ AfterWait(r)
    /\ UNCHANGED <<server, netVars, poolVars, sess, tasks, accepted, wire, badLoop>>

MutWaitTimeout(r) == FALSE /\ UNCHANGED vars

WaitTimeout(r) ==
    /\ job[r] = "parked"
    /\ AfterWait(r)
    /\ UNCHANGED <<server, netVars, poolVars, sess, tasks, accepted, wire, badLoop>>

Push(r) ==
    /\ job[r] = "push"
    /\ job' = [job EXCEPT ![r] = "run"]
    /\ accepted' = [accepted EXCEPT ![r] = @ + 1]
    /\ QueueInLoop(r, Task("send", accepted[r] + 1))
    /\ UNCHANGED <<server, netVars, poolVars, sess, wire>>

\* drogonR_cpp_stream_close() closes once.
CloseStream(r) ==
    IF sess[r].closed THEN UNCHANGED <<sess, tasks, badLoop>>
    ELSE /\ sess' = [sess EXCEPT ![r].closed = TRUE]
         /\ QueueInLoop(r, Task("close", 0))

BackendClose(r) ==
    /\ r \in Streaming /\ job[r] \in {"run", "told"} /\ ~sess[r].closed
    /\ CloseStream(r)
    /\ UNCHANGED <<server, netVars, poolVars, job, accepted, wire>>

\* The streaming backend returned or threw; the stream is closed for it.
MutStreamReturn(r) ==
    /\ r \in Streaming /\ job[r] \in {"run", "told"}
    /\ job' = [job EXCEPT ![r] = "done"]
    /\ UNCHANGED <<server, netVars, poolVars, sess, tasks, accepted, wire, badLoop>>

StreamReturn(r) ==
    /\ r \in Streaming /\ job[r] \in {"run", "told"}
    /\ job' = [job EXCEPT ![r] = "done"]
    /\ CloseStream(r)
    /\ UNCHANGED <<server, netVars, poolVars, accepted, wire>>
-----------------------------------------------------------------------------
(* drogonR_server_stop() on the main R thread.                             *)

StopBegin ==
    /\ server = "up"
    /\ server' = "stopping"
    /\ UNCHANGED <<netVars, poolVars, job, sess, tasks, accepted, wire, badLoop>>

LoopsJoined ==
    /\ server = "stopping"
    /\ \A r \in Requests : conn[r] # "open"
    /\ server' = "joined"
    /\ tasks' = [r \in Requests |-> <<>>]
    /\ UNCHANGED <<netVars, poolVars, job, sess, accepted, wire, badLoop>>

\* g_cppWorkerPool.reset(): set stop_, notify all, both without the mutex, join
\* the workers, drop what is queued.
PoolStop ==
    /\ server = "joined"
    /\ server' = "pool"
    /\ UNCHANGED <<netVars, poolVars, job, sess, tasks, accepted, wire, badLoop>>

PoolNotify ==
    /\ server = "pool"
    /\ server' = "joining"
    /\ idle' = At(idle.looking + idle.asleep, idle.nodding, 0)
    /\ UNCHANGED <<netVars, queue, job, sess, tasks, accepted, wire, badLoop>>

PoolJoined ==
    /\ server = "joining" /\ Idle = 0 /\ Running = {}
    /\ server' = "down"
    /\ queue' = <<>>
    /\ job' = [r \in Requests |-> IF job[r] = "queued" THEN "dropped" ELSE job[r]]
    /\ UNCHANGED <<netVars, idle, sess, tasks, accepted, wire, badLoop>>
-----------------------------------------------------------------------------
LoopThread(r) == Deliver(r) \/ SendTask(r) \/ CloseTask(r) \/ ReplyTask(r)

SendSteps(r) == Park(r) \/ Wake(r) \/ WaitTimeout(r) \/ Push(r)

Returns(r) == StreamReturn(r) \/ \E ok \in BOOLEAN : UnaryReturn(r, ok)

Next ==
    \/ \E r \in Requests :
        \/ Limited(r) \/ HandleUnary(r) \/ HandleStream(r) \/ PeerGone(r) \/ LoopThread(r)
        \/ SendBegin(r) \/ SendSteps(r) \/ BackendClose(r) \/ Returns(r)
    \/ Enter \/ Pop \/ Nod \/ Sleep \/ SpuriousWakeup \/ Leave
    \/ StopBegin \/ LoopsJoined \/ PoolStop \/ PoolNotify \/ PoolJoined

Spec == Init /\ [][Next]_vars

\* Threads run; unary backends return; a streaming backend returns once it is
\* told, by send() or is_cancelled(), that its client has gone, and may go on
\* forever otherwise; a stopping server closes its connections.
Fairness ==
    /\ WF_vars(Enter) /\ WF_vars(Pop) /\ WF_vars(Sleep) /\ WF_vars(Leave)
    /\ WF_vars(LoopsJoined) /\ WF_vars(PoolStop \/ PoolNotify) /\ WF_vars(PoolJoined)
    /\ \A r \in Requests :
        /\ WF_vars(LoopThread(r)) /\ WF_vars(SendSteps(r))
        /\ WF_vars(\E ok \in BOOLEAN : UnaryReturn(r, ok))
        /\ WF_vars((sess[r].cancelled \/ job[r] = "told") /\ StreamReturn(r))
        /\ WF_vars(server = "stopping" /\ PeerGone(r))

FairSpec == Spec /\ Fairness
-----------------------------------------------------------------------------
(* Properties.                                                             *)

\* Type correctness of the pool, the sessions and the loops' queues.
TypeOK ==
    /\ server \in {"up", "stopping", "joined", "pool", "joining", "down"}
    /\ conn \in [Requests -> {"none", "open", "closed"}] /\ keep \in [Requests -> BOOLEAN]
    /\ queue \in Seq(Requests) /\ idle \in IdleStates
    /\ job \in [Requests -> InBackend \union {"none", "limited", "queued", "done", "dropped"}]
    /\ sess \in [Requests -> [loop : BOOLEAN, stream : BOOLEAN,
                              cancelled : BOOLEAN, closed : BOOLEAN]]
    /\ tasks \in [Requests -> Seq([do : {"deliver", "send", "close", "reply"},
                                   chunk : 0..MaxSends])]
    /\ accepted \in [Requests -> 0..MaxSends]
    /\ wire \in [Requests -> Seq(0..MaxSends)]
    /\ badLoop \in {"no", "null", "dead"}

\* A worker parked in send() never sleeps through the delivery of its stream:
\* the stream is stored under the mutex that the worker holds from its check
\* of the predicate until it sleeps.
DeliveryWakes == \A r \in Streaming : job[r] = "parked" => ~sess[r].stream

\* The client of a streaming backend sees the accepted chunks in order, then at
\* most one end of response and nothing after it; if it stays and the backend
\* is done, it has seen every chunk for which send() returned 0, and the end
\* (unless a null loop pointer was used, which ends the process).
StreamFaithful ==
    \A r \in Streaming :
        /\ \A i \in 1..Len(wire[r]) :
            wire[r][i] = i \/ (wire[r][i] = 0 /\ i = Len(wire[r]))
        /\ (/\ job[r] = "done" /\ sess[r].loop /\ conn[r] = "open"
            /\ tasks[r] = <<>> /\ badLoop = "no")
              => wire[r] = [i \in 1..(accepted[r] + 1) |-> IF i > accepted[r] THEN 0 ELSE i]

\* What the pool promises a streaming backend and its client, taken together.
PoolServed == DeliveryWakes /\ StreamFaithful

\* Every unary request is answered, whether its backend succeeds, fails or
\* throws, unless its connection ends first; provided that streaming backends
\* with live clients do not hold all the workers forever.
UnaryAnswered ==
    []<>(Cardinality(Running \intersect Streaming) < Workers)
        => \A r \in Unary :
             (job[r] = "queued" /\ conn[r] = "open") ~> (wire[r] # <<>> \/ conn[r] = "closed")

\* A streaming backend whose client has gone leaves its worker, even if the
\* notification is lost between its check and its sleep.
CancelEndsJob ==
    \A r \in Streaming :
        (job[r] \in InBackend /\ conn[r] = "closed") ~> (job[r] = "done")

\* dr_stop() returns, unless a worker was between its test of stop_ and its
\* sleep when the destructor notified: every backend leaves its worker, and
\* nothing else keeps the join waiting.
StopEnds == (server = "stopping") ~> (server = "down" \/ (server = "joining" /\ idle.asleep > 0))

\* The pool's destructor is to "Stop all threads in the queue"
\* (ConcurrentTaskQueue.h:69), so that dr_stop() returns.
StopCompletes == (server = "stopping") ~> (server = "down")

\* When the pool is destroyed the loops are gone, and tasks in flight "can
\* complete safely" (drogon_server.cpp:1222).
InFlightCompletesSafely == badLoop # "dead"

\* A backend need not close its stream: "drogonR auto-closes after the handler
\* returns if the backend didn't" (drogonR.h:114-115), through a loop it knows.
AutoCloseHasLoop == badLoop # "null"
=============================================================================
