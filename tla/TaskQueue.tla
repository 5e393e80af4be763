----------------------------- MODULE TaskQueue -----------------------------
(* trantor's ConcurrentTaskQueue: threads that take tasks from one queue    *)
(* under a mutex and sleep on a condition variable.  The name resolver of   *)
(* the outgoing connections runs its lookups on one.                        *)
EXTENDS Integers, Sequences, FiniteSets

CONSTANTS QueueThreads,  \* the threads of the queue
          NoThread,
          MaxTasks,      \* bound: tasks pushed
          Stops          \* whether stop() is called

VARIABLES taskQueue,     \* taskQueue_
          tqStop,        \* stop_
          tqMutex,       \* the queue thread that holds taskMutex_ across steps
          tpc,           \* where each thread of the queue is
          stopper,       \* where the caller of stop() is
          pushed, taken  \* tasks pushed; tasks taken, in order

tqVars == <<taskQueue, tqStop, tqMutex, tpc, stopper, pushed, taken>>

TKInit ==
    /\ taskQueue = <<>> /\ tqStop = FALSE /\ tqMutex = NoThread
    /\ tpc = [t \in QueueThreads |-> "top"]
    /\ stopper = "idle" /\ pushed = 0 /\ taken = <<>>

\* A plausible bug: the push does not notify.
MutNotifyOne(pc) == {pc}

\* notify_one: any one waiting thread wakes, if there is one.
NotifyOne(pc) ==
    LET waiting == {t \in QueueThreads : pc[t] = "waiting"}
    IN  IF waiting = {} THEN {pc} ELSE {[pc EXCEPT ![t] = "woken"] : t \in waiting}

\* runTaskInQueue, all of it under taskMutex_.
RunTaskInQueue ==
    /\ tqMutex = NoThread /\ pushed < MaxTasks /\ stopper = "idle"
    /\ pushed' = pushed + 1
    /\ taskQueue' = Append(taskQueue, pushed')
    /\ tpc' \in NotifyOne(tpc)
    /\ UNCHANGED <<tqStop, tqMutex, stopper, taken>>

\* while (!stop_)
Top(t) ==
    /\ tpc[t] = "top"
    /\ tpc' = [tpc EXCEPT ![t] = IF tqStop THEN "exited" ELSE "lock"]
    /\ UNCHANGED <<taskQueue, tqStop, tqMutex, stopper, pushed, taken>>

\* Taking the mutex, at first or when wait() returns.
Lock(t) ==
    /\ tpc[t] \in {"lock", "woken"} /\ tqMutex = NoThread
    /\ tqMutex' = t
    /\ tpc' = [tpc EXCEPT ![t] = "test"]
    /\ UNCHANGED <<taskQueue, tqStop, stopper, pushed, taken>>

\* The condition of the inner loop; stop_ is an atomic that stop() sets without
\* the mutex, so it may change between this test and the wait.
Test(t) ==
    /\ tpc[t] = "test"
    /\ tpc' = [tpc EXCEPT ![t] = IF ~tqStop /\ taskQueue = <<>> THEN "wait" ELSE "take"]
    /\ UNCHANGED <<taskQueue, tqStop, tqMutex, stopper, pushed, taken>>

\* taskCond_.wait releases the mutex and sleeps in one step.
Wait(t) ==
    /\ tpc[t] = "wait"
    /\ tpc' = [tpc EXCEPT ![t] = "waiting"]
    /\ tqMutex' = NoThread
    /\ UNCHANGED <<taskQueue, tqStop, stopper, pushed, taken>>

\* The front task is moved out and popped, or the outer loop continues.
TakeTask(t) ==
    /\ tpc[t] = "take"
    /\ IF taskQueue # <<>>
       THEN /\ taken' = Append(taken, Head(taskQueue))
            /\ taskQueue' = Tail(taskQueue)
            /\ tpc' = [tpc EXCEPT ![t] = "run"]
       ELSE tpc' = [tpc EXCEPT ![t] = "top"] /\ UNCHANGED <<taskQueue, taken>>
    /\ tqMutex' = NoThread
    /\ UNCHANGED <<tqStop, stopper, pushed>>

\* r(), outside the mutex.
RunTask(t) ==
    /\ tpc[t] = "run"
    /\ tpc' = [tpc EXCEPT ![t] = "top"]
    /\ UNCHANGED <<taskQueue, tqStop, tqMutex, stopper, pushed, taken>>

\* wait() may return without a notification.
SpuriousWakeup(t) ==
    /\ tpc[t] = "waiting"
    /\ tpc' = [tpc EXCEPT ![t] = "woken"]
    /\ UNCHANGED <<taskQueue, tqStop, tqMutex, stopper, pushed, taken>>

\* stop(), which the destructor also calls: stop_ = true ...
StopBegin ==
    /\ Stops /\ stopper = "idle"
    /\ tqStop' = TRUE
    /\ stopper' = "notify"
    /\ UNCHANGED <<taskQueue, tqMutex, tpc, pushed, taken>>

\* ... notify_all ...
StopNotify ==
    /\ stopper = "notify"
    /\ tpc' = [t \in QueueThreads |-> IF tpc[t] = "waiting" THEN "woken" ELSE tpc[t]]
    /\ stopper' = "join"
    /\ UNCHANGED <<taskQueue, tqStop, tqMutex, pushed, taken>>

\* ... and the joins.
StopJoin ==
    /\ stopper = "join"
    /\ \A t \in QueueThreads : tpc[t] = "exited"
    /\ stopper' = "done"
    /\ UNCHANGED <<taskQueue, tqStop, tqMutex, tpc, pushed, taken>>

QueueThread(t) ==
    Top(t) \/ Lock(t) \/ Test(t) \/ Wait(t) \/ TakeTask(t) \/ RunTask(t)

Stopping == StopBegin \/ StopNotify \/ StopJoin

TKNext ==
    \/ RunTaskInQueue \/ Stopping
    \/ \E t \in QueueThreads : QueueThread(t) \/ SpuriousWakeup(t)

\* Threads that can step do; a mutex is not withheld for ever from a thread that
\* asks for it; stop(), once called, goes on.  Nothing forces a spurious wake-up.
TKFairness ==
    /\ \A t \in QueueThreads : WF_tqVars(QueueThread(t)) /\ SF_tqVars(Lock(t))
    /\ WF_tqVars(StopNotify) /\ WF_tqVars(StopJoin)

TKSpec == TKInit /\ [][TKNext]_tqVars
TKFairSpec == TKSpec /\ TKFairness

-----------------------------------------------------------------------------
TKTypeOK ==
    /\ tqMutex \in QueueThreads \cup {NoThread}
    /\ tpc \in [QueueThreads -> {"top", "lock", "test", "wait", "waiting", "woken",
                                 "take", "run", "exited"}]
    /\ stopper \in {"idle", "notify", "join", "done"}
    /\ pushed \in 0..MaxTasks /\ Len(taken) <= MaxTasks

\* A pushed task is taken by a thread unless the queue is stopped: no push is
\* missed between a thread's test of the queue and its wait (runTaskInQueue
\* pushes and notifies under the mutex).
TaskTaken == \A n \in 1..MaxTasks : pushed >= n ~> (Len(taken) >= n \/ tqStop)

\* stop() returns: every thread sees stop_ and ends.
StopReturns == stopper = "notify" ~> stopper = "done"
=============================================================================
