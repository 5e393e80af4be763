----------------------------- MODULE EventLoop -----------------------------
(***************************************************************************)
(* A Trantor event loop in the thread that EventLoopThread starts for it,  *)
(* the lock-free queue of functions other threads hand to it, the eventfd  *)
(* that wakes it, and the destructor that stops the thread.                *)
(***************************************************************************)
EXTENDS Naturals, Sequences

CONSTANTS Producers,    \* threads that call queueInLoop()
          MaxFuncs      \* functions each of them queues

\* What instances of this module assume of the constants.
ELAssumption == MaxFuncs \in Nat

VARIABLES
  funcs,        \* MpscQueue: nodes [f, linked]; linked: next_ points to it
  order,        \* the functions in the order of head_.exchange()
  ran,          \* the functions the loop has called, in order
  onQuit,       \* funcsOnQuit_
  wakefd,       \* the eventfd is readable
  looping, quitFlag,
  lpc,          \* where the loop's thread is
  ppc,          \* where each producer is in queueInLoop()
  queued,       \* how many functions each producer has queued
  opc,          \* where the owner of the EventLoopThread is
  goRun, goLoop,\* promiseForRun_ and promiseForLoop_ are set
  loopPtr       \* EventLoopThread::loop_ is not null

elVars == <<funcs, order, ran, onQuit, wakefd, looping, quitFlag, lpc, ppc,
            queued, opc, goRun, goLoop, loopPtr>>

Ready == <<"ready", 0>>            \* sets promiseForLoop_
Nested(f) == <<"nested", f[1]>>    \* what a function queues when it runs

ELTypeOK ==
  /\ \A k \in DOMAIN funcs : funcs[k].linked \in BOOLEAN
  /\ lpc \in {"create", "waitRun", "begin", "check", "poll", "handle", "drain",
              "onQuit", "exit", "done"}
  /\ ppc \in [Producers -> {"idle", "exchanged", "linked"}]
  /\ queued \in [Producers -> 0 .. MaxFuncs]
  /\ opc \in {"constructing", "idle", "running", "runWait", "quit", "wake",
              "join", "joined"}
  /\ {wakefd, looping, quitFlag, goRun, goLoop, loopPtr} \subseteq BOOLEAN

ELInit ==
  /\ funcs = <<>> /\ order = <<>> /\ ran = <<>> /\ onQuit = 0
  /\ wakefd = FALSE /\ looping = FALSE /\ quitFlag = FALSE
  /\ lpc = "create" /\ opc = "constructing"
  /\ ppc = [p \in Producers |-> "idle"] /\ queued = [p \in Producers |-> 0]
  /\ goRun = FALSE /\ goLoop = FALSE /\ loopPtr = FALSE

----------------------------------------------------------------------------
(* The queue.                                                              *)

\* A plausible bug: head_ is read and then stored, so that a node whose link
\* is still to be made is overwritten by the next producer.
MutExchange(q, f) ==
  IF q # <<>> /\ ~q[Len(q)].linked
  THEN [q EXCEPT ![Len(q)] = [f |-> f, linked |-> FALSE]]
  ELSE Append(q, [f |-> f, linked |-> FALSE])

\* head_.exchange(node): the node has its place, but cannot be reached yet.
Exchange(q, f) == Append(q, [f |-> f, linked |-> FALSE])

\* prevhead->next_.store(node).
LinkNode(q, f) ==
  [k \in DOMAIN q |-> IF q[k].f = f THEN [q[k] EXCEPT !.linked = TRUE] ELSE q[k]]

\* empty(): the tail's next_ is null.
Empty == ~(funcs # <<>> /\ Head(funcs).linked)

----------------------------------------------------------------------------
(* queueInLoop() by another thread: enqueue in two steps, then wakeup().   *)

Has(p) == <<p, queued[p]>>

QueueExchange(p) ==
  /\ ppc[p] = "idle" /\ queued[p] < MaxFuncs /\ opc # "constructing"
  /\ queued' = [queued EXCEPT ![p] = @ + 1]
  /\ funcs' = Exchange(funcs, <<p, queued[p] + 1>>)
  /\ order' = Append(order, <<p, queued[p] + 1>>)
  /\ ppc' = [ppc EXCEPT ![p] = "exchanged"]
  /\ UNCHANGED <<ran, onQuit, wakefd, looping, quitFlag, lpc, opc, goRun,
                 goLoop, loopPtr>>

QueueLink(p) ==
  /\ ppc[p] = "exchanged"
  /\ funcs' = LinkNode(funcs, Has(p))
  /\ ppc' = [ppc EXCEPT ![p] = "linked"]
  /\ UNCHANGED <<order, ran, onQuit, wakefd, looping, quitFlag, lpc, queued,
                 opc, goRun, goLoop, loopPtr>>

\* A plausible saving: no wakeup() for a loop that is not in poll().
MutWakeup(p) ==
  /\ ppc[p] = "linked"
  /\ wakefd' = (wakefd \/ lpc \in {"poll", "create", "waitRun"})
  /\ ppc' = [ppc EXCEPT ![p] = "idle"]
  /\ UNCHANGED <<funcs, order, ran, onQuit, looping, quitFlag, lpc, queued,
                 opc, goRun, goLoop, loopPtr>>

Wakeup(p) ==
  /\ ppc[p] = "linked"
  /\ wakefd' = TRUE
  /\ ppc' = [ppc EXCEPT ![p] = "idle"]
  /\ UNCHANGED <<funcs, order, ran, onQuit, looping, quitFlag, lpc, queued,
                 opc, goRun, goLoop, loopPtr>>

\* runOnQuit() by another thread, once.
RunOnQuit ==
  /\ onQuit = 0 /\ opc # "constructing"
  /\ onQuit' = 1
  /\ UNCHANGED <<funcs, order, ran, wakefd, looping, quitFlag, lpc, ppc,
                 queued, opc, goRun, goLoop, loopPtr>>

----------------------------------------------------------------------------
(* The loop's thread: loopFuncs() and loop().                              *)

\* make_shared<EventLoop>, the first function (queued by the loop's own thread
\* before loop(), so it does call wakeup()), promiseForLoopPointer_.
Create ==
  /\ lpc = "create"
  /\ funcs' = <<[f |-> Ready, linked |-> TRUE]>> /\ order' = <<Ready>>
  /\ wakefd' = TRUE /\ loopPtr' = TRUE /\ lpc' = "waitRun"
  /\ UNCHANGED <<ran, onQuit, looping, quitFlag, ppc, queued, opc, goRun,
                 goLoop>>

WaitRun ==
  /\ lpc = "waitRun" /\ goRun
  /\ lpc' = "begin"
  /\ UNCHANGED <<funcs, order, ran, onQuit, wakefd, looping, quitFlag, ppc,
                 queued, opc, goRun, goLoop, loopPtr>>

\* loop() begins: looping_ is set and an earlier quit() is forgotten.
Begin ==
  /\ lpc = "begin"
  /\ looping' = TRUE /\ quitFlag' = FALSE /\ lpc' = "check"
  /\ UNCHANGED <<funcs, order, ran, onQuit, wakefd, ppc, queued, opc, goRun,
                 goLoop, loopPtr>>

Check ==
  /\ lpc = "check"
  /\ IF quitFlag THEN lpc' = "onQuit" /\ looping' = FALSE
                 ELSE lpc' = "poll" /\ UNCHANGED looping
  /\ UNCHANGED <<funcs, order, ran, onQuit, wakefd, quitFlag, ppc, queued, opc,
                 goRun, goLoop, loopPtr>>

\* poll() returns for the eventfd, for another channel, or after kPollTimeMs.
Poll ==
  /\ lpc = "poll"
  /\ lpc' = IF wakefd THEN "handle" ELSE "drain"
  /\ UNCHANGED <<funcs, order, ran, onQuit, wakefd, looping, quitFlag, ppc,
                 queued, opc, goRun, goLoop, loopPtr>>

\* handleEvent() of the wakeup channel: wakeupRead().
WakeupRead ==
  /\ lpc = "handle"
  /\ wakefd' = FALSE /\ lpc' = "drain"
  /\ UNCHANGED <<funcs, order, ran, onQuit, looping, quitFlag, ppc, queued,
                 opc, goRun, goLoop, loopPtr>>

\* doRunInLoopFuncs() dequeues and calls one function, which may queue one
\* more (from the loop's thread: no wakeup()) or call quit().
RunFunc ==
  /\ lpc = "drain" /\ ~Empty
  /\ LET f == Head(funcs).f
     IN /\ ran' = Append(ran, f)
        /\ goLoop' = (goLoop \/ f = Ready)
        /\ \/ /\ funcs' = Tail(funcs)
              /\ UNCHANGED <<order, quitFlag>>
           \/ /\ f[2] = 1 /\ f[1] \in Producers
              /\ funcs' = Append(Tail(funcs), [f |-> Nested(f), linked |-> TRUE])
              /\ order' = Append(order, Nested(f))
              /\ UNCHANGED quitFlag
           \/ /\ f # Ready
              /\ quitFlag' = TRUE
              /\ funcs' = Tail(funcs) /\ UNCHANGED order
  /\ UNCHANGED <<onQuit, wakefd, looping, lpc, ppc, queued, opc, goRun, loopPtr>>

\* ... until the queue looks empty.
Drained ==
  /\ lpc = "drain" /\ Empty
  /\ lpc' = "check"
  /\ UNCHANGED <<funcs, order, ran, onQuit, wakefd, looping, quitFlag, ppc,
                 queued, opc, goRun, goLoop, loopPtr>>

\* The functions of runOnQuit(), then loop() returns.
OnQuit ==
  /\ lpc = "onQuit"
  /\ onQuit' = IF onQuit = 1 THEN 2 ELSE onQuit
  /\ lpc' = "exit"
  /\ UNCHANGED <<funcs, order, ran, wakefd, looping, quitFlag, ppc, queued, opc,
                 goRun, goLoop, loopPtr>>

\* loop_ = nullptr, under loopMutex_.
Exit ==
  /\ lpc = "exit"
  /\ loopPtr' = FALSE /\ lpc' = "done"
  /\ UNCHANGED <<funcs, order, ran, onQuit, wakefd, looping, quitFlag, ppc,
                 queued, opc, goRun, goLoop>>

LoopStep == \/ Create \/ WaitRun \/ Begin \/ Check \/ Poll \/ WakeupRead
            \/ RunFunc \/ Drained \/ OnQuit \/ Exit

----------------------------------------------------------------------------
(* The owner: constructor, run(), destructor.                              *)

Owner(from, to) ==
  /\ opc = from /\ opc' = to
  /\ UNCHANGED <<funcs, order, ran, onQuit, looping, lpc, ppc, queued, goLoop,
                 loopPtr>>

\* The constructor waits for promiseForLoopPointer_.
Constructed == /\ loopPtr
               /\ Owner("constructing", "idle")
               /\ UNCHANGED <<wakefd, quitFlag, goRun>>

\* run(), from EventLoopThreadPool::start() or from the destructor; call_once.
Run == /\ Owner("idle", "runWait")
       /\ goRun' = TRUE
       /\ UNCHANGED <<wakefd, quitFlag>>

\* A plausible bug: run() does not wait until the loop loops.
MutRunWaits == /\ Owner("runWait", "running")
               /\ UNCHANGED <<wakefd, quitFlag, goRun>>

\* run() returns once the loop has called its first function.
RunWaits == /\ goLoop
            /\ Owner("runWait", "running")
            /\ UNCHANGED <<wakefd, quitFlag, goRun>>

\* The destructor: loop_ is read under the lock, quit() stores the flag ...
Quit ==
  \/ /\ loopPtr
     /\ Owner("running", "wake")
     /\ quitFlag' = TRUE
     /\ UNCHANGED <<wakefd, goRun>>
  \/ /\ ~loopPtr
     /\ Owner("running", "join")
     /\ UNCHANGED <<wakefd, quitFlag, goRun>>

\* ... and wakes the loop.
QuitWakes == /\ Owner("wake", "join")
             /\ wakefd' = TRUE
             /\ UNCHANGED <<quitFlag, goRun>>

Join == /\ lpc = "done"
        /\ Owner("join", "joined")
        /\ UNCHANGED <<wakefd, quitFlag, goRun>>

OwnerStep == Constructed \/ Run \/ RunWaits \/ Quit \/ QuitWakes \/ Join

ProducerStep ==
  \E p \in Producers : QueueExchange(p) \/ QueueLink(p) \/ Wakeup(p)

ELNext == LoopStep \/ OwnerStep \/ ProducerStep \/ RunOnQuit

ELSpec == ELInit /\ [][ELNext]_elVars

----------------------------------------------------------------------------
\* The loop calls the functions in the order in which queueInLoop() took their
\* places, each of them once, whatever the interleaving of the producers'
\* exchanges and links; what it has not called is still in the queue.
LoopOrder == order = ran \o [k \in DOMAIN funcs |-> funcs[k].f]

\* No wakeup is lost: when the loop sleeps in poll() with the eventfd not
\* readable, a function that it could dequeue has a producer about to wake it.
NoLostWakeup ==
  lpc = "poll" /\ ~wakefd /\ ~Empty => \E p \in Producers : ppc[p] = "linked"

\* A loop told to quit by its owner does not sleep through it: it sees the
\* flag before the next poll(), or the eventfd is or will be written.
QuitSeen == opc = "join" /\ lpc = "poll" => wakefd

\* The destructor of an EventLoopThread returns: the quit() it calls cannot be
\* wiped out by loop() starting later, because run() waits for the first
\* function the loop calls.
JoinReturns == opc \in {"wake", "join"} ~> opc = "joined"
=============================================================================
