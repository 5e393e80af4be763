----------------------------- MODULE Coroutines -----------------------------
(***************************************************************************)
(* Drogon's coroutines.  A thread calls sync_wait() on a Task that awaits  *)
(* when_all() of several Tasks; these await timers, other loops and        *)
(* functions queued in loops, and end on whatever thread resumed them last.*)
(* The awaiter of when_all() lives in the frame of the coroutine that      *)
(* awaits it, and the mutex, the flag and the condition of sync_wait() in  *)
(* the frame of its caller.                                                *)
(***************************************************************************)
EXTENDS Integers, Sequences, SequencesExt, FiniteSets

CONSTANTS Programs,  \* sequences of Tasks: [awaits, throws], where awaits is a
                     \* sequence of [kind, work, resume, throws]
          Loops,     \* event loops, each its own thread
          MaxTasks   \* bound: tasks of a program

VARIABLES
  program,   \* the tasks
  at,        \* by task: the await it has come to; 0: not launched
  on,        \* by task: the thread it runs on, or "none"
  pc,        \* by task: "run", what is left of the AsyncTask around it, or "over"
  failed,    \* by task: an exception is on its way
  queue,     \* what the loops have to run: [loop, task, what]
  launched,  \* tasks that when_all() has launched
  awaiter,   \* of when_all(): [alive, counter, flag, exception, results, value]
  outer,     \* the AsyncTask of sync_wait(): "body", "lock", ..., "gone"
  outerOn,   \* the thread that resumed it
  helper,    \* sync_wait()'s thread: "running" or "ended"
  caller,    \* sync_wait(): "holds", "waits", "woken", "joins", "returned"
  mtx,       \* who has the mutex: "caller", "task" or "nobody"
  flag, alive, outcome

crVars == <<program, at, on, pc, failed, queue, launched, awaiter, outer, outerOn,
            helper, caller, mtx, flag, alive, outcome>>
callerVars == <<helper, caller, mtx, flag, alive, outcome>>

Tasks == DOMAIN program
Thr == "thr"

CRInit ==
  /\ program \in Programs
  /\ at = [k \in Tasks |-> 0] /\ on = [k \in Tasks |-> "none"] /\ pc = [k \in Tasks |-> "run"]
  /\ failed = [k \in Tasks |-> FALSE] /\ queue = {} /\ launched = 0
  /\ awaiter = [alive |-> TRUE, counter |-> Len(program), flag |-> FALSE, exception |-> 0,
                results |-> {}, value |-> FALSE]
  /\ outer = "body" /\ outerOn = "none" /\ helper = "running" /\ caller = "holds"
  /\ mtx = "caller" /\ flag = FALSE /\ alive = TRUE /\ outcome = <<>>

\* A thread runs one coroutine at a time.
Busy(t) == (\E k \in Tasks : on[k] = t) \/ (outerOn = t /\ outer # "gone")

\* await_suspend() of when_all() launches one task after the other.
Launch ==
  /\ outer = "body" /\ helper = "running" /\ launched < Len(program) /\ ~Busy(Thr)
  /\ launched' = launched + 1
  /\ at' = [at EXCEPT ![launched + 1] = 1] /\ on' = [on EXCEPT ![launched + 1] = Thr]
  /\ UNCHANGED <<program, pc, failed, queue, awaiter, outer, outerOn, callerVars>>

\* when_all() of nothing resumes at once.
None ==
  /\ outer = "body" /\ helper = "running" /\ Len(program) = 0
  /\ outer' = "lock" /\ outerOn' = Thr /\ awaiter' = [awaiter EXCEPT !.alive = FALSE]
  /\ outcome' = <<[ok |-> TRUE, of |-> {}]>>
  /\ UNCHANGED <<program, at, on, pc, failed, queue, launched, helper, caller, mtx, flag, alive>>

(***************************************************************************)
(* The tasks.                                                              *)
(***************************************************************************)
Now(k) == program[k].awaits[at[k]]
Runs(k) == on[k] # "none" /\ pc[k] = "run"
Awaits(k) == Runs(k) /\ at[k] <= Len(program[k].awaits)

\* SwitchThreadAwaiter goes on at once where it is in the loop already.
Inline(k) == Now(k).kind = "switch" /\ on[k] = Now(k).work

\* A plausible bug: the function queued in a loop resumes there, wherever the
\* coroutine asked to be resumed.
MutResumeLoop(a) == a.work

ResumeLoop(a) == IF a.kind = "loop" /\ a.resume # "none" THEN a.resume ELSE a.work

\* await_suspend() of TimerAwaiter, SwitchThreadAwaiter, LoopAwaiter, EventLoopAwaiter.
Suspend(k) ==
  /\ Awaits(k)
  /\ \/ Inline(k) /\ at' = [at EXCEPT ![k] = @ + 1] /\ UNCHANGED <<on, queue>>
     \/ /\ ~Inline(k) /\ on' = [on EXCEPT ![k] = "none"] /\ UNCHANGED at
        /\ queue' = queue \cup {[loop |-> Now(k).work, task |-> k,
             what |-> IF Now(k).kind \in {"timer", "switch"} THEN "resume" ELSE "work"]}
  /\ UNCHANGED <<program, pc, failed, launched, awaiter, outer, outerOn, callerVars>>

\* handle.resume(): await_resume() throws what the awaiter was given, and the Task
\* hands it on to whom awaits it.
Resumed(k, t) ==
  /\ on' = [on EXCEPT ![k] = t] /\ at' = [at EXCEPT ![k] = @ + 1]
  /\ failed' = [failed EXCEPT ![k] = Now(k).throws]
  /\ pc' = [pc EXCEPT ![k] = IF Now(k).throws THEN "throws" ELSE "run"]

\* A loop runs what it was given: the function, whose exception is kept, and the
\* coroutine, here or on the loop that it asked for.
LoopRuns(q) ==
  /\ q \in queue /\ ~Busy(q.loop)
  /\ LET k == q.task
         t == ResumeLoop(Now(k))
     IN IF q.what = "work" /\ t # q.loop
        THEN /\ queue' = (queue \ {q}) \cup {[loop |-> t, task |-> k, what |-> "resume"]}
             /\ UNCHANGED <<at, on, pc, failed>>
        ELSE Resumed(k, q.loop) /\ queue' = queue \ {q}
  /\ UNCHANGED <<program, launched, awaiter, outer, outerOn, callerVars>>

Returns(k) ==
  /\ Runs(k) /\ at[k] > Len(program[k].awaits)
  /\ failed' = [failed EXCEPT ![k] = program[k].throws]
  /\ pc' = [pc EXCEPT ![k] = IF program[k].throws THEN "throws" ELSE "result"]
  /\ UNCHANGED <<program, at, on, queue, launched, awaiter, outer, outerOn, callerVars>>

(***************************************************************************)
(* What is left of the AsyncTask that when_all() put around each.          *)
(***************************************************************************)
Goes(k, to) == pc' = [pc EXCEPT ![k] = to]
AwaiterStep == UNCHANGED <<program, at, failed, queue, launched, callerVars>>

StoreResult(k) ==
  /\ pc[k] = "result" /\ awaiter' = [awaiter EXCEPT !.results = @ \cup {k}] /\ Goes(k, "count")
  /\ AwaiterStep /\ UNCHANGED <<on, outer, outerOn>>

\* A plausible bug: an exception that is not the first is not counted.
MutTestAndSet(k) ==
  /\ pc[k] = "throws" /\ awaiter' = [awaiter EXCEPT !.flag = TRUE]
  /\ Goes(k, IF awaiter.flag THEN "over" ELSE "keep")
  /\ on' = IF awaiter.flag THEN [on EXCEPT ![k] = "none"] ELSE on
  /\ AwaiterStep /\ UNCHANGED <<outer, outerOn>>

\* test_and_set()
TestAndSet(k) ==
  /\ pc[k] = "throws" /\ awaiter' = [awaiter EXCEPT !.flag = TRUE]
  /\ Goes(k, IF awaiter.flag THEN "count" ELSE "keep")
  /\ AwaiterStep /\ UNCHANGED <<on, outer, outerOn>>

SetException(k) ==
  /\ pc[k] = "keep" /\ awaiter' = [awaiter EXCEPT !.exception = k] /\ Goes(k, "count")
  /\ AwaiterStep /\ UNCHANGED <<on, outer, outerOn>>

\* A plausible bug: the counter is decremented and read again.
MutLastOne == awaiter.counter <= 2

\* fetch_sub() returned 1.
LastOne == awaiter.counter = 1

\* The one that ends last gives the value and resumes the coroutine that awaits all;
\* the others are gone.
Count(k) ==
  /\ pc[k] = "count" /\ Goes(k, IF LastOne THEN "last" ELSE "over")
  /\ awaiter' = [awaiter EXCEPT !.counter = @ - 1]
  /\ on' = IF LastOne THEN on ELSE [on EXCEPT ![k] = "none"]
  /\ AwaiterStep /\ UNCHANGED <<outer, outerOn>>

SetValue(k) ==
  /\ pc[k] = "last" /\ Goes(k, "resume")
  /\ awaiter' = [awaiter EXCEPT !.value = awaiter.exception = 0]
  /\ AwaiterStep /\ UNCHANGED <<on, outer, outerOn>>

\* handle.resume(): the coroutine gets the results or the exception, its awaiter goes,
\* and its end resumes the AsyncTask of sync_wait().
Finish(k) ==
  /\ pc[k] = "resume" /\ Goes(k, "over") /\ on' = [on EXCEPT ![k] = "none"]
  /\ awaiter' = [awaiter EXCEPT !.alive = FALSE]
  /\ outer' = "lock" /\ outerOn' = on[k]
  /\ outcome' = Append(outcome, IF awaiter.value THEN [ok |-> TRUE, of |-> awaiter.results]
                                ELSE [ok |-> FALSE, of |-> {awaiter.exception}])
  /\ UNCHANGED <<program, at, failed, queue, launched, helper, caller, mtx, flag, alive>>

(***************************************************************************)
(* sync_wait().                                                            *)
(***************************************************************************)
taskVars == <<program, at, on, pc, failed, queue, launched, awaiter>>

\* A plausible bug: the mutex is released before the caller is told.
MutEpilogue == <<"lock", "flag", "unlock", "notify", "gone">>

\* What the AsyncTask does at its end.
Epilogue == <<"lock", "flag", "notify", "unlock", "gone">>

OuterStep ==
  /\ outer \in {"lock", "flag", "notify", "unlock"}
  /\ outer' = Epilogue[1 + CHOOSE i \in DOMAIN Epilogue : Epilogue[i] = outer]
  /\ \/ outer = "lock" /\ mtx = "nobody" /\ mtx' = "task" /\ UNCHANGED <<flag, caller>>
     \/ outer = "flag" /\ flag' = TRUE /\ UNCHANGED <<mtx, caller>>
     \/ outer = "notify" /\ caller' = (IF caller = "waits" THEN "woken" ELSE caller)
        /\ UNCHANGED <<mtx, flag>>
     \/ outer = "unlock" /\ mtx' = "nobody" /\ UNCHANGED <<flag, caller>>
  /\ UNCHANGED <<taskVars, outerOn, helper, alive, outcome>>

\* The thread ends when what it ran has been suspended or is gone.
HelperEnds ==
  /\ helper = "running" /\ launched = Len(program) /\ (Len(program) > 0 \/ outer # "body") /\ ~Busy(Thr) /\ helper' = "ended"
  /\ UNCHANGED <<taskVars, outer, outerOn, caller, mtx, flag, alive, outcome>>

\* cv.wait(), which may also wake up for no reason; then join() and return.
Wait ==
  /\ \/ caller = "holds" /\ flag /\ caller' = "joins" /\ UNCHANGED mtx
     \/ caller = "holds" /\ ~flag /\ caller' = "waits" /\ mtx' = "nobody"
     \/ caller = "waits" /\ caller' = "woken" /\ UNCHANGED mtx
     \/ caller = "woken" /\ mtx = "nobody" /\ caller' = "holds" /\ mtx' = "caller"
  /\ UNCHANGED <<taskVars, outer, outerOn, helper, flag, alive, outcome>>

Return ==
  /\ caller = "joins" /\ helper = "ended" /\ caller' = "returned" /\ alive' = FALSE
  /\ mtx' = "nobody"
  /\ UNCHANGED <<taskVars, outer, outerOn, helper, flag, outcome>>

TaskStep(k) == \/ Suspend(k) \/ Returns(k) \/ StoreResult(k) \/ TestAndSet(k)
               \/ SetException(k) \/ Count(k) \/ SetValue(k) \/ Finish(k)

CRNext ==
  \/ Launch \/ \E k \in Tasks : TaskStep(k)
  \/ \E q \in queue : LoopRuns(q)
  \/ None \/ OuterStep \/ HelperEnds \/ Wait \/ Return

\* Threads are scheduled, timers fire, loops run what is queued, and the mutex is
\* not always taken by the same thread.
CRFairness ==
  /\ WF_crVars(Launch \/ None) /\ \A k \in 1 .. MaxTasks : WF_crVars(k \in Tasks /\ TaskStep(k))
  /\ WF_crVars(\E q \in queue : LoopRuns(q))
  /\ SF_crVars(OuterStep) /\ WF_crVars(HelperEnds) /\ WF_crVars(Wait) /\ WF_crVars(Return)

CRSpec == CRInit /\ [][CRNext]_crVars /\ CRFairness

(***************************************************************************)
(* Properties.                                                             *)
(***************************************************************************)
CRTypeOK ==
  /\ launched \in 0 .. Len(program) /\ awaiter.counter \in 0 .. Len(program)
  /\ \A k \in Tasks : at[k] \in 0 .. Len(program[k].awaits) + 1
                       /\ on[k] \in Loops \cup {Thr, "none"}
  /\ helper \in {"running", "ended"} /\ mtx \in {"caller", "task", "nobody"}
  /\ caller \in {"holds", "waits", "woken", "joins", "returned"} /\ {flag, alive} \subseteq BOOLEAN

\* Nothing is used after it is gone: the awaiter of when_all() while a task has still
\* to be launched or to be counted, and the mutex, the flag and the condition of
\* sync_wait() while the coroutine has still to wake the caller, whichever threads
\* the tasks end on.
FramesOutlive ==
  /\ (launched < Len(program) \/ \E k \in Tasks : pc[k] # "over") => awaiter.alive
  /\ outer # "gone" => alive

\* sync_wait() returns the results of all the tasks, once and after all have ended, or
\* the exception of one that threw.
OutcomeMeant ==
  /\ Len(outcome) <= 1
  /\ caller = "returned" =>
       LET Throws(k) == program[k].throws \/ \E i \in DOMAIN program[k].awaits : program[k].awaits[i].throws
       IN /\ outcome # <<>> /\ \A k \in Tasks : pc[k] = "over"
          /\ outcome[1].ok = ~\E k \in Tasks : Throws(k)
          /\ IF outcome[1].ok THEN outcome[1].of = Tasks
             ELSE \E k \in Tasks : Throws(k) /\ outcome[1].of = {k}

\* A coroutine runs on the loop that it asked for last.
OnItsLoop ==
  \A k \in Tasks : Runs(k) /\ at[k] > 1 =>
    LET a == program[k].awaits[at[k] - 1]
    IN on[k] = IF a.kind = "loop" /\ a.resume # "none" THEN a.resume ELSE a.work

\* sync_wait() returns.
SyncWaitReturns == <>(caller = "returned")

-----------------------------------------------------------------------------
(***************************************************************************)
(* drogon::Mutex, which coroutines of several threads wait for without     *)
(* blocking them.  state_ is the mutex itself (unlocked), null (locked) or *)
(* the awaiter that came last; each awaiter points to the one before it.   *)
(* The owner moves them, oldest first, to waiters_ and hands the mutex on. *)
(* Every access to an atomic is a step.                                    *)
(***************************************************************************)

CONSTANTS Coros,      \* coroutines, each with its awaiter
          WithLoop,   \* ... of these, those that gave an event loop
          MaxLocks    \* bound, by coroutine: how often it locks

VARIABLES
  state,     \* state_: "unlocked", "null" or an awaiter
  waiters,   \* waiters_: an awaiter or "null"
  link,      \* next_ of each awaiter
  mutexPc,   \* where each coroutine is
  old,       \* oldValue or currentState
  head,      \* waitersHead
  locks,     \* how often each coroutine has locked
  arrived    \* the coroutines that wait, in the order they were enlisted

cxVars == <<state, waiters, link, mutexPc, old, head, locks, arrived>>

\* pc: between locks; in asynclockImpl(); suspended; resumed on its loop; in the
\* critical section; in unlock().
Pcs == {"out", "load", "enlist", "suspended", "resuming", "in",
        "look", "release", "take", "grant"}
Owning == {"resuming", "in", "look", "release", "take", "grant"}

CXInit ==
  /\ state = "unlocked" /\ waiters = "null" /\ link = [c \in Coros |-> "null"]
  /\ mutexPc = [c \in Coros |-> "out"] /\ old = [c \in Coros |-> "null"]
  /\ head = [c \in Coros |-> "null"] /\ locks = [c \in Coros |-> 0] /\ arrived = <<>>

MutexGoes(c, to) == mutexPc' = [mutexPc EXCEPT ![c] = to]
Enter(c) == MutexGoes(c, "in") /\ locks' = [locks EXCEPT ![c] = @ + 1]

\* await_ready(): try_lock().
TryLock(c) ==
  /\ mutexPc[c] = "out" /\ locks[c] < MaxLocks[c]
  /\ \/ state = "unlocked" /\ state' = "null" /\ Enter(c)
     \/ state # "unlocked" /\ MutexGoes(c, "load") /\ UNCHANGED <<state, locks>>
  /\ UNCHANGED <<waiters, link, old, head, arrived>>

\* asynclockImpl(): the first look at state_.
Load(c) ==
  /\ mutexPc[c] = "load" /\ old' = [old EXCEPT ![c] = state] /\ MutexGoes(c, "enlist")
  /\ UNCHANGED <<state, waiters, link, head, locks, arrived>>

Linked(c) == IF old[c] = "unlocked" THEN link ELSE [link EXCEPT ![c] = old[c]]

\* compare_exchange_weak() succeeds: the mutex is taken, or the awaiter enlisted.
Exchanged(c) ==
  /\ mutexPc[c] = "enlist" /\ state = old[c] /\ link' = Linked(c)
  /\ \/ old[c] = "unlocked" /\ state' = "null" /\ Enter(c) /\ UNCHANGED arrived
     \/ /\ old[c] # "unlocked" /\ state' = c /\ MutexGoes(c, "suspended")
        /\ arrived' = Append(arrived, c) /\ UNCHANGED locks
  /\ UNCHANGED <<waiters, old, head>>

\* It fails, as it may even where the values are equal.
NotExchanged(c) ==
  /\ mutexPc[c] = "enlist" /\ old' = [old EXCEPT ![c] = state] /\ link' = Linked(c)
  /\ UNCHANGED <<state, waiters, mutexPc, head, locks, arrived>>

\* unlock(): somebody was moved to waiters_ before, or not.
Unlock(c) ==
  /\ mutexPc[c] = "in" /\ head' = [head EXCEPT ![c] = waiters]
  /\ MutexGoes(c, IF waiters = "null" THEN "look" ELSE "grant")
  /\ UNCHANGED <<state, waiters, link, old, locks, arrived>>

Look(c) ==
  /\ mutexPc[c] = "look" /\ MutexGoes(c, IF state = "null" THEN "release" ELSE "take")
  /\ UNCHANGED <<state, waiters, link, old, head, locks, arrived>>

\* A plausible bug: the mutex is released without comparing.
MutRelease(c) ==
  /\ mutexPc[c] = "release" /\ state' = "unlocked" /\ MutexGoes(c, "out")
  /\ UNCHANGED <<waiters, link, old, head, locks, arrived>>

\* compare_exchange_strong(): nobody has come since.
Release(c) ==
  /\ mutexPc[c] = "release"
  /\ \/ state = "null" /\ state' = "unlocked" /\ MutexGoes(c, "out")
     \/ state # "null" /\ MutexGoes(c, "take") /\ UNCHANGED state
  /\ UNCHANGED <<waiters, link, old, head, locks, arrived>>

\* The awaiters from a on, as they are linked.
RECURSIVE Chain(_, _)
Chain(f, a) == IF a = "null" THEN <<>> ELSE <<a>> \o Chain(f, f[a])

\* f with the awaiters of s linked in this order.
Relinked(f, s) ==
  [a \in Coros |-> IF \E i \in DOMAIN s : s[i] = a
                   THEN LET i == CHOOSE i \in DOMAIN s : s[i] = a
                        IN IF i = Len(s) THEN "null" ELSE s[i + 1]
                   ELSE f[a]]

\* A plausible bug: the list is not turned round.
MutOldestFirst(a) == Chain(link, a)

OldestFirst(a) == Reverse(Chain(link, a))

\* exchange(): the list is taken and turned round.
Take(c) ==
  LET s == OldestFirst(state) IN
  /\ mutexPc[c] = "take" /\ state' = "null"
  /\ link' = Relinked(link, s) /\ head' = [head EXCEPT ![c] = s[1]] /\ MutexGoes(c, "grant")
  /\ UNCHANGED <<waiters, old, locks, arrived>>

\* The first one owns the mutex now.  It is resumed on its loop, or here.
Grant(c) ==
  LET w == head[c] IN
  /\ mutexPc[c] = "grant" /\ waiters' = link[w]
  /\ mutexPc' = [mutexPc EXCEPT ![c] = "out", ![w] = IF w \in WithLoop THEN "resuming" ELSE "in"]
  /\ locks' = IF w \in WithLoop THEN locks ELSE [locks EXCEPT ![w] = @ + 1]
  /\ arrived' = SelectSeq(arrived, LAMBDA a : a # w)
  /\ UNCHANGED <<state, link, old, head>>

Resume(c) ==
  /\ mutexPc[c] = "resuming" /\ Enter(c)
  /\ UNCHANGED <<state, waiters, link, old, head, arrived>>

\* A coroutine that runs, or that a loop resumes, goes on.
GoesOn(c) ==
  \/ Load(c) \/ Exchanged(c) \/ NotExchanged(c) \/ Unlock(c)
  \/ Look(c) \/ Release(c) \/ Take(c) \/ Grant(c) \/ Resume(c)

CXNext == \E c \in Coros : TryLock(c) \/ GoesOn(c)

\* Threads are scheduled, critical sections end, and loops run what is queued.  (An
\* exchange that fails though the values are equal changes nothing.)
CXFairness == \A c \in Coros : WF_cxVars(GoesOn(c))

CXSpec == CXInit /\ [][CXNext]_cxVars /\ CXFairness

(***************************************************************************)
(* Properties.                                                             *)
(***************************************************************************)
CXTypeOK ==
  /\ state \in Coros \cup {"unlocked", "null"} /\ waiters \in Coros \cup {"null"}
  /\ link \in [Coros -> Coros \cup {"null"}] /\ mutexPc \in [Coros -> Pcs]
  /\ head \in [Coros -> Coros \cup {"null"}] /\ \A c \in Coros : locks[c] \in 0 .. MaxLocks[c]

\* At most one coroutine owns the mutex; it is unlocked only where none does and
\* none waits; and unlock() finds an awaiter wherever it asserts that there is one.
OneOwner ==
  LET owners == {c \in Coros : mutexPc[c] \in Owning} IN
  /\ Cardinality(owners) = IF state = "unlocked" THEN 0 ELSE 1
  /\ state = "unlocked" => arrived = <<>> /\ waiters = "null"
  /\ \A c \in Coros : mutexPc[c] = "take" => state \in Coros

\* Nobody who is enlisted is ever lost, and the mutex is handed on in the order in
\* which they came: waiters_, and behind them what state_ leads to, newest first.
HandedOnInOrder ==
  LET front == IF \E c \in Coros : mutexPc[c] = "grant"
               THEN Chain(link, head[CHOOSE c \in Coros : mutexPc[c] = "grant"])
               ELSE Chain(link, waiters)
      back == IF state = "unlocked" THEN <<>> ELSE Reverse(Chain(link, state))
  IN front \o back = arrived

\* Every coroutine that asks for the mutex gets it, if each one that has it unlocks.
LockGranted == \A c \in Coros : mutexPc[c] \in {"load", "enlist", "suspended"} ~> mutexPc[c] = "in"
=============================================================================
