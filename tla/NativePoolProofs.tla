-------------------------- MODULE NativePoolProofs --------------------------
(***************************************************************************)
(* Proofs about NativePool, for any sets of requests, any number of        *)
(* workers and any number of chunks.                                       *)
(***************************************************************************)
EXTENDS NativePool, TLAPS

\* The first n tasks of q carry the chunks after the first `gone' ones.
Sends(q, n, gone) == \A i \in 1..n : q[i] = Task("send", gone + i)

\* The stream was not handed over (yet): nothing can have been sent.
Before(r) ==
    /\ ~sess[r].loop /\ ~sess[r].stream
    /\ accepted[r] = 0 /\ wire[r] = <<>>
    /\ tasks[r] \in {<<>>, <<Task("deliver", 0)>>}
    /\ badLoop = "no" => ~sess[r].closed

\* Chunks flow: what send() accepted is on the wire or queued, as long as the
\* connection is open.  A close() that came before the stream is lost.
Flowing(r) ==
    /\ sess[r].loop /\ sess[r].stream
    /\ Len(tasks[r]) <= accepted[r]
    /\ Sends(tasks[r], Len(tasks[r]), accepted[r] - Len(tasks[r]))
    /\ wire[r] = [i \in 1..Len(wire[r]) |-> i]
    /\ conn[r] = "open" => Len(wire[r]) = accepted[r] - Len(tasks[r])
    /\ badLoop = "no" => ~sess[r].closed

\* The close is queued behind the last chunks.
Closing(r) ==
    /\ sess[r].loop /\ sess[r].stream /\ sess[r].closed
    /\ Len(tasks[r]) > 0 /\ Len(tasks[r]) - 1 <= accepted[r]
    /\ Sends(tasks[r], Len(tasks[r]) - 1, accepted[r] - (Len(tasks[r]) - 1))
    /\ tasks[r][Len(tasks[r])] = Task("close", 0)
    /\ wire[r] = [i \in 1..Len(wire[r]) |-> i]
    /\ conn[r] = "open" => Len(wire[r]) = accepted[r] - (Len(tasks[r]) - 1)

\* All chunks and the end of the response.
Complete(r) == wire[r] = [i \in 1..(accepted[r] + 1) |-> IF i > accepted[r] THEN 0 ELSE i]

InOrder(r) ==
    \A i \in 1..Len(wire[r]) : wire[r][i] = i \/ (wire[r][i] = 0 /\ i = Len(wire[r]))

\* The stream was closed, or its loop went away before that.
Closed(r) ==
    /\ sess[r].loop /\ sess[r].closed
    /\ tasks[r] = <<>>
    /\ InOrder(r)
    /\ conn[r] = "open" => Complete(r) /\ ~sess[r].stream

\* Where the worker may be.  It reads the stream under the mutex and pushes
\* only into a stream that is not closed.
Working(r) ==
    /\ job[r] \in {"wait", "parked"} => ~sess[r].stream
    /\ job[r] = "push" => sess[r].stream
    /\ job[r] = "done" => sess[r].closed

\* What holds of every request: only a backend that has not closed its stream
\* is inside send(), and the loop of an open connection is alive.
Anywhere(r) ==
    /\ job[r] \in {"wait", "parked", "awake", "push"} =>
        r \in Streaming /\ ~sess[r].closed /\ accepted[r] < MaxSends
    /\ conn[r] = "open" => LoopsAlive

StreamInv(r) ==
    /\ Before(r) \/ Flowing(r) \/ Closing(r) \/ Closed(r)
    /\ conn[r] = "none" => Before(r) /\ tasks[r] = <<>>
    /\ ~LoopsAlive => tasks[r] = <<>>
    /\ Working(r)

\* The inductive invariant.
PoolInv ==
    /\ TypeOK
    /\ \A r \in Requests : Anywhere(r)
    /\ \A r \in Streaming : StreamInv(r)
-----------------------------------------------------------------------------
(* A step leaves everything of request t as it is.                         *)

Same(t) ==
    /\ conn'[t] = conn[t] /\ job'[t] = job[t] /\ sess'[t] = sess[t]
    /\ tasks'[t] = tasks[t] /\ accepted'[t] = accepted[t] /\ wire'[t] = wire[t]
    /\ server' = server \/ (server = "up" /\ server' = "stopping")
    /\ badLoop' = "no" => badLoop = "no"

\* The invariant of a request depends on nothing else.
LEMMA SameKeeps ==
    ASSUME NEW t \in Requests, Same(t)
    PROVE  /\ Anywhere(t) => Anywhere(t)'
           /\ StreamInv(t) => StreamInv(t)'
<1>0. LoopsAlive' <=> LoopsAlive
  BY Zenon DEF Same, LoopsAlive
<1>1. Anywhere(t) => Anywhere(t)'
  BY Zenon, <1>0 DEF Same, Anywhere
<1>2. Before(t) => Before(t)'
  BY Zenon DEF Same, Before
<1>3. Flowing(t) => Flowing(t)'
  BY Zenon DEF Same, Flowing
<1>4. Closing(t) => Closing(t)'
  BY Zenon DEF Same, Closing
<1>5. Closed(t) => Closed(t)'
  BY DEF Same, Closed, Complete, InOrder
<1>6. Working(t) => Working(t)'
  BY Zenon DEF Same, Working
<1> QED
  BY Zenon, <1>0, <1>1, <1>2, <1>3, <1>4, <1>5, <1>6 DEF Same, StreamInv

\* A step that concerns one request only.
LEMMA OneRequest ==
    ASSUME PoolInv, NEW r \in Requests, TypeOK', Anywhere(r)',
           r \in Streaming => StreamInv(r)',
           \A t \in Requests \ {r} : Same(t)
    PROVE  PoolInv'
<1>1. \A t \in Requests \ {r} : Anywhere(t)'
  BY Zenon, SameKeeps DEF PoolInv
<1>2. \A t \in Streaming \ {r} : StreamInv(t)'
  BY Zenon, SameKeeps DEF PoolInv, Requests
<1> QED
  BY Zenon, <1>1, <1>2 DEF PoolInv

\* A step that concerns no request.
LEMMA NoRequest ==
    ASSUME PoolInv, TypeOK', \A t \in Requests : Same(t)
    PROVE  PoolInv'
<1>1. \A t \in Requests : Anywhere(t)'
  BY Zenon, SameKeeps DEF PoolInv
<1>2. \A t \in Streaming : StreamInv(t)'
  BY Zenon, SameKeeps DEF PoolInv, Requests
<1> QED
  BY Zenon, <1>1, <1>2 DEF PoolInv
-----------------------------------------------------------------------------
(* Queues and the wire.                                                    *)

Tasks == [do : {"deliver", "send", "close", "reply"}, chunk : 0..MaxSends]
Session == [loop : BOOLEAN, stream : BOOLEAN, cancelled : BOOLEAN, closed : BOOLEAN]

\* The tasks that the model queues.
LEMMA TaskTypes ==
    ASSUME PoolAssumption
    PROVE  /\ Task("deliver", 0) \in Tasks /\ Task("close", 0) \in Tasks
           /\ Task("reply", 0) \in Tasks
           /\ \A n \in 0..MaxSends : Task("send", n) \in Tasks
BY DEF Task, Tasks, PoolAssumption

\* No chunks wait.
LEMMA NoSends == \A q, g : Sends(q, 0, g)
BY DEF Sends

\* A queue is empty when its length is 0.
LEMMA NoTasks == ASSUME NEW q \in Seq(Tasks) PROVE q = <<>> <=> Len(q) = 0
OBVIOUS

\* The first element of a sequence and the rest of it.
LEMMA HeadAndTail ==
    ASSUME NEW S, NEW q \in Seq(S), q # <<>>
    PROVE  Head(q) \in S /\ Tail(q) \in Seq(S) /\ Len(Tail(q)) = Len(q) - 1
OBVIOUS

\* The first task of a queue.
LEMMA AppendToNone == ASSUME NEW x \in Tasks PROVE Append(<<>>, x) = <<x>>
OBVIOUS

\* Appending the next chunk keeps the queued chunks consecutive.
LEMMA SendsAppend ==
    ASSUME NEW q \in Seq(Tasks), NEW p \in Nat, Len(q) <= p,
           Sends(q, Len(q), p - Len(q)), NEW x \in Tasks, x = Task("send", p + 1)
    PROVE  /\ Len(Append(q, x)) = Len(q) + 1
           /\ Sends(Append(q, x), Len(q) + 1, p + 1 - (Len(q) + 1))
<1>1. /\ Len(q) \in Nat /\ Len(Append(q, x)) = Len(q) + 1
      /\ Append(q, x)[Len(q) + 1] = x
      /\ \A i \in 1..Len(q) : Append(q, x)[i] = q[i]
  OBVIOUS
<1>2. \A i \in 1..(Len(q) + 1) : i \in 1..Len(q) \/ i = Len(q) + 1
  BY <1>1
<1>3. p + 1 - (Len(q) + 1) = p - Len(q) /\ p - Len(q) + (Len(q) + 1) = p + 1
  BY <1>1
<1> QED
  BY Zenon, <1>1, <1>2, <1>3 DEF Sends

\* The close goes behind the queued chunks.
LEMMA CloseAppend ==
    ASSUME NEW q \in Seq(Tasks), NEW p \in Nat, Len(q) <= p,
           Sends(q, Len(q), p - Len(q)), NEW x \in Tasks
    PROVE  LET c == Append(q, x)
           IN  /\ Len(c) = Len(q) + 1 /\ c[Len(c)] = x
               /\ Sends(c, Len(c) - 1, p - (Len(c) - 1))
<1>1. /\ Len(q) \in Nat /\ Len(Append(q, x)) = Len(q) + 1
      /\ Append(q, x)[Len(q) + 1] = x
      /\ \A i \in 1..Len(q) : Append(q, x)[i] = q[i]
  OBVIOUS
<1>2. Len(Append(q, x)) - 1 = Len(q)
  BY <1>1
<1> QED
  BY Zenon, <1>1, <1>2 DEF Sends

\* Running the first of the queued chunks leaves the others consecutive, and
\* the last task in its place.
LEMMA SendsTail ==
    ASSUME NEW q \in Seq(Tasks), NEW n \in 1..Len(q), NEW g \in Nat, Sends(q, n, g)
    PROVE  /\ Head(q) = Task("send", g + 1)
           /\ Len(Tail(q)) = Len(q) - 1
           /\ Sends(Tail(q), n - 1, g + 1)
           /\ n < Len(q) => Tail(q)[Len(q) - 1] = q[Len(q)]
<1>1. /\ Len(q) \in Nat /\ Len(q) > 0 /\ Head(q) = q[1] /\ Len(Tail(q)) = Len(q) - 1
      /\ \A i \in 1..(Len(q) - 1) : Tail(q)[i] = q[i + 1]
  OBVIOUS
<1>2. \A i \in 1..(n - 1) : i \in 1..(Len(q) - 1) /\ i + 1 \in 1..n
                            /\ g + 1 + i = g + (i + 1)
  BY <1>1
<1>3. 1 \in 1..n
  BY <1>1
<1>4. n < Len(q) => Len(q) - 1 \in 1..(Len(q) - 1) /\ (Len(q) - 1) + 1 = Len(q)
  BY <1>1
<1> QED
  BY Zenon, <1>1, <1>2, <1>3, <1>4 DEF Sends

\* The wire holds 1, 2, 3, ... and gets the next number.
LEMMA WireAppend ==
    ASSUME NEW w \in Seq(0..MaxSends), w = [i \in 1..Len(w) |-> i]
    PROVE  LET v == Append(w, Len(w) + 1)
           IN  Len(v) = Len(w) + 1 /\ v = [i \in 1..Len(v) |-> i]
OBVIOUS

\* ... or the end of the response.
LEMMA WireEnd ==
    ASSUME PoolAssumption, NEW w \in Seq(0..MaxSends), w = [i \in 1..Len(w) |-> i]
    PROVE  Append(w, 0) = [i \in 1..(Len(w) + 1) |-> IF i > Len(w) THEN 0 ELSE i]
<1> DEFINE v == Append(w, 0)
           u == [i \in 1..(Len(w) + 1) |-> IF i > Len(w) THEN 0 ELSE i]
<1>1. /\ Len(w) \in Nat /\ DOMAIN v = 1..(Len(w) + 1) /\ v[Len(w) + 1] = 0
      /\ \A i \in 1..Len(w) : v[i] = w[i]
  OBVIOUS
<1>a. v \in Seq(0..MaxSends)
  BY DEF PoolAssumption
<1>2. \A i \in 1..Len(w) : w[i] = i
  BY Zenon
<1> HIDE DEF v
<1>3. \A i \in 1..(Len(w) + 1) : v[i] = u[i]
  BY <1>1, <1>2
<1>4. Len(v) = Len(w) + 1 /\ v = [i \in 1..Len(v) |-> v[i]]
  BY <1>1, <1>a
<1> QED
  BY Zenon, <1>1, <1>3, <1>4 DEF v
-----------------------------------------------------------------------------
(* The steps, one lemma for each action.                                   *)

\* What the steps below use of the invariant.
LEMMA PoolTypes ==
    ASSUME PoolInv, NEW r \in Requests
    PROVE  /\ sess[r] \in Session /\ tasks[r] \in Seq(Tasks) /\ wire[r] \in Seq(0..MaxSends)
           /\ accepted[r] \in 0..MaxSends /\ Len(tasks[r]) \in Nat /\ Len(wire[r]) \in Nat
           /\ Anywhere(r) /\ (r \in Streaming => StreamInv(r))
<1>1. TypeOK /\ Anywhere(r) /\ (r \in Streaming => StreamInv(r))
  BY Zenon DEF PoolInv
<1>2. /\ sess[r] \in Session /\ tasks[r] \in Seq(Tasks) /\ wire[r] \in Seq(0..MaxSends)
      /\ accepted[r] \in 0..MaxSends
  BY Zenon, <1>1 DEF TypeOK, Session, Tasks
<1>3. Len(tasks[r]) \in Nat /\ Len(wire[r]) \in Nat
  BY <1>2
<1> QED
  BY Zenon, <1>1, <1>2, <1>3

\* A step that only moves the worker of a request.
LEMMA JobOnly ==
    ASSUME PoolInv, NEW r \in Requests, NEW j,
           j \in InBackend \union {"none", "limited", "queued", "done", "dropped"},
           job' = [job EXCEPT ![r] = j],
           UNCHANGED <<server, netVars, sess, tasks, accepted, wire, badLoop>>,
           queue' \in Seq(Requests), idle' \in IdleStates,
           j \in {"wait", "parked", "awake", "push"} =>
               r \in Streaming /\ ~sess[r].closed /\ accepted[r] < MaxSends,
           r \in Streaming =>
               /\ j \in {"wait", "parked"} => ~sess[r].stream
               /\ j = "push" => sess[r].stream
               /\ j = "done" => sess[r].closed
    PROVE  PoolInv'
<1>0. TypeOK /\ Anywhere(r) /\ (r \in Streaming => StreamInv(r))
  BY Zenon, PoolTypes DEF PoolInv
<1>1. job'[r] = j /\ \A t \in Requests \ {r} : job'[t] = job[t]
  BY Zenon, <1>0 DEF TypeOK
<1>2. TypeOK'
  BY Zenon, <1>0 DEF TypeOK, netVars
<1>3. Anywhere(r)'
  BY Zenon, <1>0, <1>1 DEF Anywhere, LoopsAlive, netVars
<1>4. ASSUME r \in Streaming PROVE StreamInv(r)'
  <2>1. Working(r)'
    BY Zenon, <1>1, <1>4 DEF Working, netVars
  <2>2. Before(r)' = Before(r) /\ Flowing(r)' = Flowing(r)
        /\ Closing(r)' = Closing(r) /\ Closed(r)' = Closed(r)
    BY Zenon DEF Before, Flowing, Closing, Closed, InOrder, Complete, netVars
  <2>3. LoopsAlive' <=> LoopsAlive
    BY Zenon DEF LoopsAlive
  <2> QED
    BY Zenon, <1>0, <1>4, <2>1, <2>2, <2>3 DEF StreamInv, netVars
<1>5. \A t \in Requests \ {r} : Same(t)
  BY Zenon, <1>1 DEF Same, netVars
<1> QED
  BY Zenon, <1>2, <1>3, <1>4, <1>5, OneRequest

\* drogonR_cpp_stream_send() begins: the stream's flags decide.
LEMMA SendBeginStep ==
    ASSUME PoolAssumption, PoolInv, NEW r \in Requests, SendBegin(r) PROVE PoolInv'
<1> DEFINE j == IF sess[r].cancelled THEN "told" ELSE IF sess[r].stream THEN "push" ELSE "wait"
<1>1. /\ job' = [job EXCEPT ![r] = j] /\ r \in Streaming /\ ~sess[r].closed
      /\ accepted[r] < MaxSends
      /\ UNCHANGED <<server, netVars, sess, tasks, accepted, wire, badLoop>>
      /\ UNCHANGED <<queue, idle>>
  BY Zenon DEF SendBegin, poolVars
<1>2. queue' \in Seq(Requests) /\ idle' \in IdleStates
  BY Zenon, <1>1 DEF PoolInv, TypeOK
<1>3. /\ j \in InBackend \union {"none", "limited", "queued", "done", "dropped"}
      /\ j \in {"wait", "parked"} => ~sess[r].stream
      /\ j = "push" => sess[r].stream
      /\ j # "done"
  BY Zenon DEF InBackend
<1> HIDE DEF j
<1> QED
  BY Zenon, <1>1, <1>2, <1>3, JobOnly

\* The steps of a worker in send() up to the push.
LEMMA WaitSteps ==
    ASSUME PoolAssumption, PoolInv, NEW r \in Requests, Park(r) \/ Wake(r) \/ WaitTimeout(r)
    PROVE  PoolInv'
<1>0. Anywhere(r) /\ (r \in Streaming => StreamInv(r))
  BY Zenon, PoolTypes
<1>1. PICK j \in {"parked", "told", "push"} :
        /\ job' = [job EXCEPT ![r] = j]
        /\ j = "parked" => job[r] = "wait"
        /\ j = "push" => sess[r].stream
        /\ job[r] \in {"wait", "parked", "awake"}
  <2>1. CASE Park(r)
    BY Zenon, <2>1 DEF Park
  <2>2. CASE Wake(r) \/ WaitTimeout(r)
    <3>1. job' = [job EXCEPT ![r] = IF sess[r].cancelled \/ ~sess[r].stream THEN "told" ELSE "push"]
          /\ job[r] \in {"parked", "awake"}
      BY Zenon, <2>2 DEF Wake, WaitTimeout, AfterWait
    <3>2. CASE sess[r].cancelled \/ ~sess[r].stream
      BY Zenon, <3>1, <3>2
    <3>3. CASE ~(sess[r].cancelled \/ ~sess[r].stream)
      BY Zenon, <3>1, <3>3
    <3> QED
      BY Zenon, <3>2, <3>3
  <2> QED
    BY Zenon, <2>1, <2>2
<1>2. UNCHANGED <<server, netVars, sess, tasks, accepted, wire, badLoop>>
      /\ UNCHANGED <<queue, idle>>
  BY Zenon DEF Park, Wake, WaitTimeout, poolVars
<1>3. queue' \in Seq(Requests) /\ idle' \in IdleStates
  BY Zenon, <1>2 DEF PoolInv, TypeOK
<1>4. r \in Streaming /\ ~sess[r].closed /\ accepted[r] < MaxSends
  BY Zenon, <1>0, <1>1 DEF Anywhere
<1>5. j \in {"wait", "parked"} => ~sess[r].stream
  BY Zenon, <1>0, <1>1, <1>4 DEF StreamInv, Working
<1>6. j \in InBackend \union {"none", "limited", "queued", "done", "dropped"} /\ j # "done"
  BY Zenon, <1>1 DEF InBackend
<1> QED
  BY Zenon, <1>1, <1>2, <1>3, <1>4, <1>5, <1>6, JobOnly

\* Workers that only move between looking, nodding and asleep, or end, stay within
\* the number of workers.
LEMMA IdleMoves ==
    ASSUME Workers \in Nat, idle \in IdleStates
    PROVE  /\ NotifyOne(idle) \in IdleStates
           /\ idle.looking > 0 => At(idle.looking - 1, idle.nodding, idle.asleep) \in IdleStates
           /\ idle.looking > 0 /\ idle.nodding = 0 =>
                At(idle.looking - 1, 1, idle.asleep) \in IdleStates
           /\ idle.nodding > 0 => At(idle.looking, 0, idle.asleep + 1) \in IdleStates
           /\ At(idle.looking + idle.asleep, idle.nodding, 0) \in IdleStates
<1> DEFINE l == idle.looking
           n == idle.nodding
           a == idle.asleep
<1>1. l \in Nat /\ n \in Nat /\ a \in Nat /\ l + n + a <= Workers
  BY DEF IdleStates
<1> HIDE DEF l, n, a
<1>2. ASSUME NEW x \in Nat, NEW y \in Nat, NEW z \in Nat, x + y + z <= Workers
      PROVE  At(x, y, z) \in IdleStates
  BY <1>2 DEF IdleStates, At
<1>3. l > 0 => l - 1 \in Nat /\ l - 1 + n + a <= Workers
  BY <1>1
<1>4. l > 0 /\ n = 0 => l - 1 \in Nat /\ l - 1 + 1 + a <= Workers
  BY <1>1
<1>5. n > 0 => a + 1 \in Nat /\ l + 0 + (a + 1) <= Workers
  BY <1>1
<1>6. l + a \in Nat /\ (l + a) + n + 0 <= Workers
  BY <1>1
<1>7. a > 0 => a - 1 \in Nat /\ l + 1 \in Nat /\ (l + 1) + n + (a - 1) <= Workers
  BY <1>1
<1>8. 0 \in Nat /\ 1 \in Nat
  OBVIOUS
<1>9. /\ l > 0 => At(l - 1, n, a) \in IdleStates
      /\ l > 0 /\ n = 0 => At(l - 1, 1, a) \in IdleStates
      /\ n > 0 => At(l, 0, a + 1) \in IdleStates
      /\ At(l + a, n, 0) \in IdleStates
      /\ a > 0 => At(l + 1, n, a - 1) \in IdleStates
  BY Zenon, <1>1, <1>2, <1>3, <1>4, <1>5, <1>6, <1>7, <1>8
<1> QED
  BY Zenon, <1>9 DEF NotifyOne, l, n, a

\* A worker takes the next task.
LEMMA PopStep == ASSUME PoolAssumption, PoolInv, Pop PROVE PoolInv'
<1>1. /\ idle.looking > 0 /\ queue # <<>> /\ queue' = Tail(queue)
      /\ idle' = At(idle.looking - 1, idle.nodding, idle.asleep)
      /\ job' = [job EXCEPT ![Head(queue)] = "run"]
      /\ UNCHANGED <<server, netVars, sess, tasks, accepted, wire, badLoop>>
  BY Zenon DEF Pop
<1>2. queue \in Seq(Requests) /\ idle \in IdleStates /\ Workers \in Nat
  BY Zenon DEF PoolInv, TypeOK, PoolAssumption
<1>3. Head(queue) \in Requests /\ queue' \in Seq(Requests)
  BY Zenon, <1>1, <1>2, HeadAndTail
<1>4. idle' \in IdleStates
  BY Zenon, <1>1, <1>2, IdleMoves
<1>5. "run" \in InBackend \union {"none", "limited", "queued", "done", "dropped"}
  BY Zenon DEF InBackend
<1> QED
  BY Zenon, <1>1, <1>3, <1>4, <1>5, JobOnly

\* A connection that has no request yet: nothing has happened to its stream.
LEMMA FreshRequest ==
    ASSUME PoolInv, NEW r \in Streaming, conn[r] = "none"
    PROVE  /\ Before(r) /\ tasks[r] = <<>>
           /\ ~sess[r].loop /\ ~sess[r].stream /\ accepted[r] = 0 /\ wire[r] = <<>>
           /\ badLoop = "no" => ~sess[r].closed
<1>1. StreamInv(r)
  BY Zenon, PoolTypes DEF Requests
<1> QED
  BY Zenon, <1>1 DEF StreamInv, Before

\* A request that is refused by a rate limit.
LEMMA LimitedStep ==
    ASSUME PoolAssumption, PoolInv, NEW r \in Requests, Limited(r) PROVE PoolInv'
<1>0. TypeOK /\ Anywhere(r) /\ server = "up" /\ conn[r] = "none"
  BY Zenon DEF PoolInv, Limited
<1>1. /\ conn' = [conn EXCEPT ![r] = "open"] /\ job' = [job EXCEPT ![r] = "limited"]
      /\ UNCHANGED <<server, keep, queue, idle, sess, tasks, accepted, wire, badLoop>>
  BY Zenon DEF Limited, poolVars
<1>2. conn'[r] = "open" /\ job'[r] = "limited"
  BY Zenon, <1>0, <1>1 DEF TypeOK
<1>3. TypeOK'
  BY Zenon, <1>0, <1>1 DEF TypeOK
<1>4. Anywhere(r)'
  BY Zenon, <1>0, <1>1, <1>2 DEF Anywhere, LoopsAlive
<1>5. ASSUME r \in Streaming PROVE StreamInv(r)'
  <2>1. Before(r)'
    BY Zenon, <1>0, <1>1, <1>5, FreshRequest DEF Before
  <2>2. Working(r)'
    BY Zenon, <1>2 DEF Working
  <2> QED
    BY Zenon, <1>0, <1>1, <1>2, <2>1, <2>2 DEF StreamInv, LoopsAlive
<1>6. \A t \in Requests \ {r} : Same(t)
  BY Zenon, <1>0, <1>1 DEF Same, TypeOK
<1> QED
  BY Zenon, <1>3, <1>4, <1>5, <1>6, OneRequest

\* A request for a unary backend is queued.
LEMMA HandleUnaryStep ==
    ASSUME PoolAssumption, PoolInv, NEW r \in Requests, HandleUnary(r) PROVE PoolInv'
<1>0. TypeOK /\ Anywhere(r) /\ server = "up" /\ conn[r] = "none" /\ r \notin Streaming
  BY Zenon DEF PoolInv, HandleUnary, PoolAssumption
<1>1. /\ conn' = [conn EXCEPT ![r] = "open"] /\ job' = [job EXCEPT ![r] = "queued"]
      /\ queue' = Append(queue, r) /\ idle' = NotifyOne(idle)
      /\ UNCHANGED <<server, keep, sess, tasks, accepted, wire, badLoop>>
  BY Zenon DEF HandleUnary, RunTaskInQueue
<1>2. conn'[r] = "open" /\ job'[r] = "queued"
  BY Zenon, <1>0, <1>1 DEF TypeOK
<1>3. TypeOK'
  <2>1. queue' \in Seq(Requests)
    BY <1>0, <1>1 DEF TypeOK
  <2>2. idle' \in IdleStates
    BY Zenon, <1>0, <1>1, IdleMoves DEF TypeOK, PoolAssumption
  <2> QED
    BY Zenon, <1>0, <1>1, <2>1, <2>2 DEF TypeOK
<1>4. Anywhere(r)'
  BY Zenon, <1>0, <1>1, <1>2 DEF Anywhere, LoopsAlive
<1>6. \A t \in Requests \ {r} : Same(t)
  BY Zenon, <1>0, <1>1 DEF Same, TypeOK
<1> QED
  BY Zenon, <1>0, <1>3, <1>4, <1>6, OneRequest

\* A request for a streaming backend is queued, the stream to be handed over.
LEMMA HandleStreamStep ==
    ASSUME PoolAssumption, PoolInv, NEW r \in Requests, HandleStream(r) PROVE PoolInv'
<1>0. TypeOK /\ Anywhere(r) /\ server = "up" /\ conn[r] = "none" /\ r \in Streaming
  BY Zenon DEF PoolInv, HandleStream
<1>1. /\ conn' = [conn EXCEPT ![r] = "open"] /\ job' = [job EXCEPT ![r] = "queued"]
      /\ queue' = Append(queue, r) /\ idle' = NotifyOne(idle)
      /\ tasks' = [tasks EXCEPT ![r] = Append(tasks[r], Task("deliver", 0))]
      /\ UNCHANGED <<server, keep, sess, accepted, wire, badLoop>>
  BY Zenon DEF HandleStream, RunTaskInQueue
<1>2. conn'[r] = "open" /\ job'[r] = "queued"
  BY Zenon, <1>0, <1>1 DEF TypeOK
<1>3. /\ tasks' = [tasks EXCEPT ![r] = <<Task("deliver", 0)>>]
      /\ tasks'[r] = <<Task("deliver", 0)>>
  <2>1. tasks[r] = <<>>
    BY Zenon, <1>0, FreshRequest
  <2>2. Append(<<>>, Task("deliver", 0)) = <<Task("deliver", 0)>>
    BY Zenon, AppendToNone, TaskTypes
  <2> QED
    BY Zenon, <1>0, <1>1, <2>1, <2>2 DEF TypeOK
<1>4. TypeOK'
  <2>1. queue' \in Seq(Requests)
    BY <1>0, <1>1 DEF TypeOK
  <2>2. <<Task("deliver", 0)>> \in Seq(Tasks)
    BY TaskTypes
  <2>3. tasks' \in [Requests -> Seq(Tasks)]
    BY Zenon, <1>0, <1>3, <2>2 DEF TypeOK, Tasks
  <2>4. idle' \in IdleStates
    BY Zenon, <1>0, <1>1, IdleMoves DEF TypeOK, PoolAssumption
  <2> QED
    BY Zenon, <1>0, <1>1, <2>1, <2>3, <2>4 DEF TypeOK, Tasks
<1>5. Anywhere(r)'
  BY Zenon, <1>0, <1>1, <1>2 DEF Anywhere, LoopsAlive
<1>6. StreamInv(r)'
  <2>1. Before(r)'
    BY Zenon, <1>0, <1>1, <1>3, FreshRequest DEF Before
  <2>2. Working(r)'
    BY Zenon, <1>2 DEF Working
  <2> QED
    BY Zenon, <1>0, <1>1, <1>2, <2>1, <2>2 DEF StreamInv, LoopsAlive
<1>7. \A t \in Requests \ {r} : Same(t)
  BY Zenon, <1>0, <1>1 DEF Same, TypeOK
<1> QED
  BY Zenon, <1>4, <1>5, <1>6, <1>7, OneRequest

\* A unary backend is done; its answer is queued on the loop, or dropped.
LEMMA UnaryReturnStep ==
    ASSUME PoolAssumption, PoolInv, NEW r \in Requests, NEW ok \in BOOLEAN, UnaryReturn(r, ok)
    PROVE  PoolInv'
<1>0. TypeOK /\ Anywhere(r) /\ r \notin Streaming
  BY Zenon DEF PoolInv, UnaryReturn, PoolAssumption
<1>1. /\ job' = [job EXCEPT ![r] = "done"]
      /\ \/ tasks' = [tasks EXCEPT ![r] = Append(tasks[r], Task("reply", 0))]
         \/ tasks' = tasks
      /\ UNCHANGED <<server, conn, keep, queue, idle, sess, accepted, wire, badLoop>>
  BY Zenon DEF UnaryReturn, netVars, poolVars
<1>2. job'[r] = "done"
  BY Zenon, <1>0, <1>1 DEF TypeOK
<1>3. TypeOK'
  <2>1. Append(tasks[r], Task("reply", 0)) \in Seq(Tasks)
    BY TaskTypes, PoolTypes
  <2>2. tasks' \in [Requests -> Seq(Tasks)]
    BY Zenon, <1>0, <1>1, <2>1 DEF TypeOK, Tasks
  <2> QED
    BY Zenon, <1>0, <1>1, <2>2 DEF TypeOK, Tasks
<1>4. Anywhere(r)'
  BY Zenon, <1>0, <1>1, <1>2 DEF Anywhere, LoopsAlive
<1>5. \A t \in Requests \ {r} : Same(t)
  BY Zenon, <1>0, <1>1 DEF Same, TypeOK
<1> QED
  BY Zenon, <1>0, <1>3, <1>4, <1>5, OneRequest

\* The connection ends: what is on its way to the client no longer matters.
LEMMA PeerGoneStep ==
    ASSUME PoolAssumption, PoolInv, NEW r \in Requests, PeerGone(r) PROVE PoolInv'
<1>0. /\ TypeOK /\ Anywhere(r) /\ LoopsAlive /\ conn[r] = "open"
      /\ sess[r] \in Session /\ (r \in Streaming => StreamInv(r))
  BY Zenon, PoolTypes DEF PoolInv, PeerGone
<1>1. /\ conn' = [conn EXCEPT ![r] = "closed"]
      /\ UNCHANGED <<server, keep, queue, idle, tasks, accepted, wire, badLoop>>
  BY Zenon DEF PeerGone, poolVars
<1>2. conn'[r] = "closed" /\ \A t \in Requests \ {r} : conn'[t] = conn[t]
  BY Zenon, <1>0, <1>1 DEF TypeOK
<1>3. CASE r \notin Streaming
  <2>1. UNCHANGED <<sess, job>>
    BY Zenon, <1>3 DEF PeerGone
  <2>2. TypeOK'
    BY Zenon, <1>0, <1>1, <2>1 DEF TypeOK
  <2>3. Anywhere(r)'
    BY Zenon, <1>0, <1>1, <1>2, <2>1 DEF Anywhere
  <2>4. \A t \in Requests \ {r} : Same(t)
    BY Zenon, <1>1, <1>2, <2>1 DEF Same
  <2> QED
    BY Zenon, <1>3, <2>2, <2>3, <2>4, OneRequest
<1>4. CASE r \in Streaming
  <2> DEFINE d == [sess[r] EXCEPT !.cancelled = TRUE]
  <2>1. sess' = [sess EXCEPT ![r] = d] /\ job' = Notified(r)
    BY Zenon, <1>4 DEF PeerGone
  <2>2. /\ d \in Session /\ d.loop = sess[r].loop /\ d.stream = sess[r].stream
        /\ d.closed = sess[r].closed
    BY Zenon, <1>0 DEF Session
  <2> HIDE DEF d
  <2>3. sess'[r] = d /\ \A t \in Requests \ {r} : sess'[t] = sess[t]
    BY Zenon, <1>0, <2>1 DEF TypeOK
  <2>4. /\ job'[r] = job[r] \/ (job[r] = "parked" /\ job'[r] = "awake")
        /\ \A t \in Requests \ {r} : job'[t] = job[t]
        /\ job' \in [Requests -> InBackend \union {"none", "limited", "queued", "done", "dropped"}]
    BY Zenon, <1>0, <2>1 DEF Notified, TypeOK, InBackend
  <2>5. TypeOK'
    <3>1. sess' \in [Requests -> Session]
      BY Zenon, <1>0, <2>1, <2>2 DEF TypeOK, Session
    <3> QED
      BY Zenon, <1>0, <1>1, <2>4, <3>1 DEF TypeOK, Session
  <2>6. Anywhere(r)'
    BY Zenon, <1>0, <1>1, <1>2, <1>4, <2>2, <2>3, <2>4 DEF Anywhere
  <2>7. StreamInv(r)'
    <3>1. Before(r) => Before(r)'
      BY Zenon, <1>1, <2>2, <2>3 DEF Before
    <3>2. Flowing(r) => Flowing(r)'
      BY Zenon, <1>1, <1>2, <2>2, <2>3 DEF Flowing
    <3>3. Closing(r) => Closing(r)'
      BY Zenon, <1>1, <1>2, <2>2, <2>3 DEF Closing
    <3>4. Closed(r) => Closed(r)'
      BY Zenon, <1>1, <1>2, <2>2, <2>3 DEF Closed, InOrder
    <3>5. Working(r)'
      BY Zenon, <1>0, <1>4, <2>2, <2>3, <2>4 DEF Working, StreamInv
    <3>6. LoopsAlive'
      BY Zenon, <1>0, <1>1 DEF LoopsAlive
    <3> QED
      BY Zenon, <1>0, <1>2, <1>4, <3>1, <3>2, <3>3, <3>4, <3>5, <3>6 DEF StreamInv
  <2>8. \A t \in Requests \ {r} : Same(t)
    BY Zenon, <1>1, <1>2, <2>3, <2>4 DEF Same
  <2> QED
    BY Zenon, <2>5, <2>6, <2>7, <2>8, OneRequest
<1> QED
  BY Zenon, <1>3, <1>4

\* The first queued function tells the phase of a stream.
LEMMA HeadTells ==
    ASSUME PoolAssumption, PoolInv, NEW r \in Streaming, tasks[r] # <<>>
    PROVE  /\ Len(tasks[r]) > 0 /\ LoopsAlive /\ conn[r] # "none" /\ ~Closed(r)
           /\ Before(r) => tasks[r] = <<Task("deliver", 0)>> /\ Head(tasks[r]) = Task("deliver", 0)
           /\ Flowing(r) => Head(tasks[r]) = Task("send", accepted[r] - Len(tasks[r]) + 1)
           /\ Closing(r) /\ Len(tasks[r]) > 1 =>
                Head(tasks[r]) = Task("send", accepted[r] - (Len(tasks[r]) - 1) + 1)
           /\ Closing(r) /\ Len(tasks[r]) = 1 => Head(tasks[r]) = Task("close", 0)
<1> DEFINE q == tasks[r]
           p == accepted[r]
<1>0. /\ StreamInv(r) /\ q \in Seq(Tasks) /\ p \in Nat /\ q # <<>> /\ r \in Requests
      /\ Len(q) \in Nat
  BY PoolTypes DEF Requests, PoolAssumption
<1>1. LoopsAlive /\ conn[r] # "none" /\ ~Closed(r)
  BY Zenon, <1>0 DEF StreamInv, Closed
<1>2. Len(q) > 0 /\ Head(q) = q[1]
  <2> HIDE DEF q, p
  <2> QED
    BY <1>0, NoTasks
<1>3. Before(r) => q = <<Task("deliver", 0)>> /\ Head(q) = Task("deliver", 0)
  <2>1. Before(r) => q = <<Task("deliver", 0)>>
    BY Zenon, <1>0 DEF Before
  <2>2. Head(<<Task("deliver", 0)>>) = Task("deliver", 0)
    OBVIOUS
  <2> QED
    BY Zenon, <2>1, <2>2
<1>4. Flowing(r) => Head(q) = Task("send", p - Len(q) + 1)
  <2>1. Flowing(r) => \A i \in 1..Len(q) : q[i] = Task("send", p - Len(q) + i)
    BY Zenon DEF Flowing, Sends
  <2> HIDE DEF q, p
  <2>2. 1 \in 1..Len(q)
    BY <1>0, <1>2
  <2> QED
    BY Zenon, <1>2, <2>1, <2>2
<1>5. Closing(r) /\ Len(q) > 1 => Head(q) = Task("send", p - (Len(q) - 1) + 1)
  <2>1. Closing(r) => \A i \in 1..(Len(q) - 1) : q[i] = Task("send", p - (Len(q) - 1) + i)
    BY Zenon DEF Closing, Sends
  <2> HIDE DEF q, p
  <2>2. Len(q) > 1 => 1 \in 1..(Len(q) - 1)
    BY <1>0, <1>2
  <2> QED
    BY Zenon, <1>2, <2>1, <2>2
<1>6. Closing(r) /\ Len(q) = 1 => Head(q) = Task("close", 0)
  <2>1. Closing(r) => q[Len(q)] = Task("close", 0)
    BY Zenon DEF Closing
  <2> HIDE DEF q, p
  <2> QED
    BY Zenon, <1>2, <2>1
<1> QED
  BY Zenon, <1>1, <1>2, <1>3, <1>4, <1>5, <1>6

\* A stream that is being closed has its close queued, with or without chunks.
LEMMA ClosingLength ==
    ASSUME PoolInv, NEW r \in Requests
    PROVE  Closing(r) => Len(tasks[r]) > 1 \/ Len(tasks[r]) = 1
<1> DEFINE n == Len(tasks[r])
<1>1. n \in Nat /\ (Closing(r) => n > 0)
  BY Zenon, PoolTypes DEF Closing
<1> HIDE DEF n
<1>2. Closing(r) => n > 1 \/ n = 1
  BY <1>1
<1> QED
  BY Zenon, <1>2 DEF n

\* The loop runs the first queued function.
LEMMA TaskRun ==
    ASSUME PoolInv, NEW r \in Requests, tasks[r] # <<>>, RunTask(r)
    PROVE  /\ tasks'[r] = Tail(tasks[r]) /\ tasks' \in [Requests -> Seq(Tasks)]
           /\ Len(tasks'[r]) = Len(tasks[r]) - 1
           /\ \A t \in Requests \ {r} : tasks'[t] = tasks[t]
<1>1. tasks \in [Requests -> Seq(Tasks)]
  BY Zenon DEF PoolInv, TypeOK, Tasks
<1>2. Tail(tasks[r]) \in Seq(Tasks) /\ Len(Tail(tasks[r])) = Len(tasks[r]) - 1
  BY Zenon, <1>1, HeadAndTail
<1> QED
  BY Zenon, <1>1, <1>2 DEF RunTask

\* The stream is handed over, or not.
LEMMA DeliverStep ==
    ASSUME PoolAssumption, PoolInv, NEW r \in Requests, Deliver(r) PROVE PoolInv'
<1> DEFINE d == [sess[r] EXCEPT !.loop = TRUE, !.stream = TRUE]
<1>0. /\ TypeOK /\ Anywhere(r) /\ LoopsAlive /\ tasks[r] # <<>> /\ sess[r] \in Session
      /\ (r \in Streaming => StreamInv(r)) /\ Head(tasks[r]).do = "deliver"
      /\ job[r] # "wait" /\ RunTask(r)
  BY Zenon, PoolTypes DEF PoolInv, Deliver, NextTask, MutexFree
<1>1. /\ \/ /\ conn[r] = "open" /\ sess' = [sess EXCEPT ![r] = d] /\ job' = Notified(r)
         \/ UNCHANGED <<sess, job>>
      /\ UNCHANGED <<server, conn, keep, queue, idle, accepted, wire, badLoop>>
  BY Zenon DEF Deliver, netVars, poolVars
<1>2. /\ d \in Session /\ d.loop = TRUE /\ d.stream = TRUE /\ d.closed = sess[r].closed
  BY Zenon, <1>0 DEF Session
<1> HIDE DEF d
<1>3. /\ sess'[r] = sess[r] \/ sess'[r] = d
      /\ \A t \in Requests \ {r} : sess'[t] = sess[t]
      /\ sess' \in [Requests -> Session]
  <2>1. sess \in [Requests -> Session]
    BY Zenon, <1>0 DEF TypeOK, Session
  <2>2. CASE sess' = [sess EXCEPT ![r] = d]
    BY Zenon, <1>2, <2>1, <2>2
  <2>3. CASE sess' = sess
    BY Zenon, <2>1, <2>3
  <2> QED
    BY Zenon, <1>1, <2>2, <2>3
<1>4. /\ job'[r] = job[r] \/ (job[r] = "parked" /\ job'[r] = "awake")
      /\ \A t \in Requests \ {r} : job'[t] = job[t]
      /\ job' \in [Requests -> InBackend \union {"none", "limited", "queued", "done", "dropped"}]
  BY Zenon, <1>0, <1>1 DEF Notified, TypeOK, InBackend
<1>5. TypeOK'
  BY Zenon, <1>0, <1>1, <1>3, <1>4, TaskRun DEF TypeOK, Tasks, Session
<1>6. Anywhere(r)'
  <2>1. LoopsAlive'
    BY Zenon, <1>0, <1>1 DEF LoopsAlive
  <2>2. sess'[r].closed = sess[r].closed
    BY Zenon, <1>2, <1>3
  <2> QED
    BY Zenon, <1>0, <1>1, <1>4, <2>1, <2>2 DEF Anywhere
<1>7. \A t \in Requests \ {r} : Same(t)
  BY Zenon, <1>0, <1>1, <1>3, <1>4, TaskRun DEF Same
<1>8. ASSUME r \in Streaming PROVE StreamInv(r)'
  <2>1. Before(r) /\ tasks[r] = <<Task("deliver", 0)>>
    <3>1. Before(r) \/ Flowing(r) \/ Closing(r) \/ Closed(r)
      BY Zenon, <1>0, <1>8 DEF StreamInv
    <3>2. /\ \A n : Task("send", n).do # "deliver"
          /\ Task("close", 0).do # "deliver"
      BY Zenon DEF Task
    <3>3. Closing(r) => Len(tasks[r]) > 1 \/ Len(tasks[r]) = 1
      BY Zenon, ClosingLength
    <3> QED
      BY Zenon, <1>0, <1>8, <3>1, <3>2, <3>3, HeadTells
  <2>2. tasks'[r] = <<>> /\ Len(tasks'[r]) = 0
    <3>1. tasks'[r] = Tail(<<Task("deliver", 0)>>)
      BY Zenon, <1>0, <2>1, TaskRun
    <3>2. Tail(<<Task("deliver", 0)>>) = <<>>
      BY TaskTypes
    <3> QED
      BY <3>1, <3>2
  <2>3. conn'[r] # "none" /\ LoopsAlive'
    BY Zenon, <1>0, <1>1, <1>8, HeadTells DEF LoopsAlive
  <2>4. /\ ~sess[r].stream /\ ~sess[r].loop /\ accepted'[r] = 0 /\ wire'[r] = <<>>
        /\ badLoop' = "no" => ~sess[r].closed
    BY Zenon, <1>1, <2>1 DEF Before
  <2>5. CASE sess'[r] = sess[r] /\ UNCHANGED job
    <3>1. Before(r)'
      BY Zenon, <2>2, <2>4, <2>5 DEF Before
    <3>2. Working(r)'
      BY Zenon, <1>0, <1>8, <2>5 DEF StreamInv, Working
    <3> QED
      BY Zenon, <2>2, <2>3, <3>1, <3>2 DEF StreamInv
  <2>6. CASE sess'[r] = d /\ job' = Notified(r)
    <3>1. Flowing(r)'
      <4>1. wire'[r] = [i \in 1..Len(wire'[r]) |-> i] /\ Len(wire'[r]) = 0
        BY <2>4
      <4>2. /\ sess'[r].loop = TRUE /\ sess'[r].stream = TRUE
            /\ badLoop' = "no" => ~sess'[r].closed
        BY Zenon, <1>2, <2>4, <2>6
      <4>3. Sends(tasks'[r], Len(tasks'[r]), accepted'[r] - Len(tasks'[r]))
        BY Zenon, <2>2, NoSends
      <4>4. Len(tasks'[r]) <= accepted'[r] /\ Len(wire'[r]) = accepted'[r] - Len(tasks'[r])
        <5>1. Len(tasks'[r]) = 0 /\ accepted'[r] = 0 /\ Len(wire'[r]) = 0
          BY Zenon, <2>2, <2>4, <4>1
        <5> QED
          BY ONLY <5>1
      <4> QED
        BY Zenon, <4>1, <4>2, <4>3, <4>4 DEF Flowing
    <3>2. Working(r)'
      <4>1. job'[r] \notin {"wait", "parked"}
        BY Zenon, <1>0, <2>6 DEF Notified, TypeOK
      <4>2. job'[r] = "done" => sess'[r].closed
        BY Zenon, <1>0, <1>2, <1>4, <1>8, <2>6 DEF StreamInv, Working
      <4>3. sess'[r].stream = TRUE
        BY Zenon, <1>2, <2>6
      <4> QED
        BY Zenon, <4>1, <4>2, <4>3 DEF Working
    <3> QED
      BY Zenon, <2>2, <2>3, <3>1, <3>2 DEF StreamInv
  <2> QED
    BY Zenon, <1>0, <1>1, <1>2, <1>3, <2>5, <2>6 DEF TypeOK
<1> QED
  BY Zenon, <1>5, <1>6, <1>7, <1>8, OneRequest

\* The response of a unary handler is written.
LEMMA ReplyTaskStep ==
    ASSUME PoolAssumption, PoolInv, NEW r \in Requests, ReplyTask(r) PROVE PoolInv'
<1>0. /\ TypeOK /\ Anywhere(r) /\ LoopsAlive /\ tasks[r] # <<>>
      /\ Head(tasks[r]).do = "reply" /\ RunTask(r)
  BY Zenon DEF PoolInv, ReplyTask, NextTask
<1>1. r \notin Streaming
  <2> SUFFICES ASSUME r \in Streaming PROVE FALSE
    BY Zenon
  <2>1. Before(r) \/ Flowing(r) \/ Closing(r) \/ Closed(r)
    BY Zenon DEF PoolInv, StreamInv
  <2>2. /\ \A n : Task("send", n).do # "reply"
        /\ Task("close", 0).do # "reply" /\ Task("deliver", 0).do # "reply"
    BY Zenon DEF Task
  <2>3. Closing(r) => Len(tasks[r]) > 1 \/ Len(tasks[r]) = 1
    BY Zenon, ClosingLength
  <2> QED
    BY Zenon, <1>0, <2>1, <2>2, <2>3, HeadTells
<1>2. /\ wire' = [wire EXCEPT ![r] = Append(wire[r], 0)] \/ wire' = wire
      /\ UNCHANGED <<server, conn, keep, queue, idle, job, sess, accepted, badLoop>>
  BY Zenon DEF ReplyTask, netVars, poolVars
<1>3. TypeOK'
  <2>1. Append(wire[r], 0) \in Seq(0..MaxSends)
    BY <1>0 DEF TypeOK, PoolAssumption
  <2>2. wire' \in [Requests -> Seq(0..MaxSends)]
    BY Zenon, <1>0, <1>2, <2>1 DEF TypeOK
  <2> QED
    BY Zenon, <1>0, <1>2, <2>2, TaskRun DEF TypeOK, Tasks
<1>4. Anywhere(r)'
  BY Zenon, <1>0, <1>2 DEF Anywhere, LoopsAlive
<1>5. \A t \in Requests \ {r} : Same(t)
  BY Zenon, <1>0, <1>2, TaskRun DEF Same, TypeOK
<1> QED
  BY Zenon, <1>1, <1>3, <1>4, <1>5, OneRequest

\* What the function of a send() does to the session and the wire.
LEMMA SendTaskEffect ==
    ASSUME PoolAssumption, PoolInv, NEW r \in Requests, SendTask(r)
    PROVE  /\ tasks[r] # <<>> /\ LoopsAlive /\ RunTask(r) /\ Head(tasks[r]).do = "send"
           /\ sess'[r].loop = sess[r].loop /\ sess'[r].stream = sess[r].stream
           /\ sess'[r].closed = sess[r].closed
           /\ sess[r].stream /\ conn[r] = "open" =>
                wire'[r] = Append(wire[r], Head(tasks[r]).chunk)
           /\ ~(sess[r].stream /\ conn[r] = "open") => wire'[r] = wire[r]
           /\ \A t \in Requests \ {r} : Same(t)
           /\ TypeOK' /\ Anywhere(r)'
           /\ UNCHANGED <<server, conn, job, accepted, badLoop>>
<1> DEFINE d == [sess[r] EXCEPT !.cancelled = TRUE]
           c == Head(tasks[r]).chunk
<1>0. /\ TypeOK /\ Anywhere(r) /\ LoopsAlive /\ tasks[r] # <<>> /\ sess[r] \in Session
      /\ Head(tasks[r]).do = "send" /\ RunTask(r) /\ tasks[r] \in Seq(Tasks)
  BY Zenon, PoolTypes DEF PoolInv, SendTask, NextTask
<1>1. /\ wire' = IF sess[r].stream /\ conn[r] = "open"
                 THEN [wire EXCEPT ![r] = Append(wire[r], c)] ELSE wire
      /\ sess' = [sess EXCEPT ![r] = d] \/ sess' = sess
      /\ UNCHANGED <<server, conn, keep, queue, idle, job, accepted, badLoop>>
  BY Zenon DEF SendTask, netVars, poolVars
<1>2. /\ d \in Session /\ d.loop = sess[r].loop /\ d.stream = sess[r].stream
      /\ d.closed = sess[r].closed
  BY Zenon, <1>0 DEF Session
<1>3. c \in 0..MaxSends
  <2>1. Head(tasks[r]) \in Tasks
    BY Zenon, <1>0, HeadAndTail
  <2> QED
    BY Zenon, <2>1 DEF Tasks
<1> HIDE DEF d, c
<1>4. /\ sess'[r] = sess[r] \/ sess'[r] = d
      /\ \A t \in Requests \ {r} : sess'[t] = sess[t]
      /\ sess' \in [Requests -> Session]
  <2>1. sess \in [Requests -> Session]
    BY Zenon, <1>0 DEF TypeOK, Session
  <2>2. CASE sess' = [sess EXCEPT ![r] = d]
    BY Zenon, <1>2, <2>1, <2>2
  <2>3. CASE sess' = sess
    BY Zenon, <2>1, <2>3
  <2> QED
    BY Zenon, <1>1, <2>2, <2>3
<1>5. /\ sess[r].stream /\ conn[r] = "open" => wire'[r] = Append(wire[r], c)
      /\ ~(sess[r].stream /\ conn[r] = "open") => wire'[r] = wire[r]
      /\ \A t \in Requests \ {r} : wire'[t] = wire[t]
      /\ wire' \in [Requests -> Seq(0..MaxSends)]
  <2>1. wire \in [Requests -> Seq(0..MaxSends)]
    BY Zenon, <1>0 DEF TypeOK
  <2>2. Append(wire[r], c) \in Seq(0..MaxSends)
    BY <1>3, <2>1
  <2>3. CASE sess[r].stream /\ conn[r] = "open"
    BY Zenon, <1>1, <2>1, <2>2, <2>3
  <2>4. CASE ~(sess[r].stream /\ conn[r] = "open")
    BY Zenon, <1>1, <2>1, <2>4
  <2> QED
    BY Zenon, <2>3, <2>4
<1>6. TypeOK'
  BY Zenon, <1>0, <1>1, <1>4, <1>5, TaskRun DEF TypeOK, Tasks, Session
<1>7. sess'[r].closed = sess[r].closed
  BY Zenon, <1>2, <1>4
<1>8. Anywhere(r)'
  BY Zenon, <1>0, <1>1, <1>7 DEF Anywhere, LoopsAlive
<1>9. \A t \in Requests \ {r} : Same(t)
  BY Zenon, <1>0, <1>1, <1>4, <1>5, TaskRun DEF Same
<1> QED
  BY Zenon, <1>0, <1>1, <1>2, <1>4, <1>5, <1>6, <1>7, <1>8, <1>9 DEF c

\* A chunk is written, or found too late.
LEMMA SendTaskStep ==
    ASSUME PoolAssumption, PoolInv, NEW r \in Requests, SendTask(r) PROVE PoolInv'
<1> DEFINE q == tasks[r]
           p == accepted[r]
           n == Len(q)
           w == wire[r]
<1>1. /\ q # <<>> /\ LoopsAlive /\ Head(q).do = "send"
      /\ sess'[r].loop = sess[r].loop /\ sess'[r].stream = sess[r].stream
      /\ sess'[r].closed = sess[r].closed
      /\ UNCHANGED <<server, conn, job, accepted, badLoop>>
  BY Zenon, SendTaskEffect
<1>2. /\ tasks'[r] = Tail(q) /\ Len(tasks'[r]) = n - 1
  BY Zenon, SendTaskEffect, TaskRun
<1>3. /\ q \in Seq(Tasks) /\ n \in Nat /\ p \in 0..MaxSends /\ p \in Nat /\ w \in Seq(0..MaxSends)
      /\ Len(w) \in Nat
  BY PoolTypes DEF PoolAssumption
<1>4. ASSUME r \in Streaming PROVE StreamInv(r)'
  <2>0. StreamInv(r) /\ LoopsAlive' /\ conn'[r] # "none" /\ n > 0
    BY Zenon, <1>1, <1>4, PoolTypes, HeadTells DEF LoopsAlive
  <2>1. Working(r)'
    BY Zenon, <1>1, <2>0 DEF StreamInv, Working
  <2>2. \/ Flowing(r)
        \/ Closing(r) /\ n > 1
    <3>1. Before(r) \/ Flowing(r) \/ Closing(r) \/ Closed(r)
      BY Zenon, <2>0 DEF StreamInv
    <3>2. Task("close", 0).do # "send" /\ Task("deliver", 0).do # "send"
      BY Zenon DEF Task
    <3> QED
      BY Zenon, <1>1, <1>4, <3>1, <3>2, ClosingLength, HeadTells
  <2>3. ASSUME NEW g \in Nat, sess[r].stream, Head(q) = Task("send", g + 1),
               w = [i \in 1..Len(w) |-> i], conn[r] = "open" => Len(w) = g
        PROVE  /\ wire'[r] = [i \in 1..Len(wire'[r]) |-> i]
               /\ conn'[r] = "open" => Len(wire'[r]) = g + 1
    <3>1. Head(q).chunk = g + 1
      BY <2>3 DEF Task
    <3>2. CASE conn[r] = "open"
      <4>1. wire'[r] = Append(w, Len(w) + 1)
        BY <2>3, <3>1, <3>2, SendTaskEffect
      <4> HIDE DEF w
      <4> QED
        BY Zenon, <1>1, <1>3, <2>3, <3>2, <4>1, WireAppend
    <3>3. CASE conn[r] # "open"
      <4>1. wire'[r] = w
        BY Zenon, <3>3, SendTaskEffect
      <4> QED
        BY Zenon, <1>1, <2>3, <3>3, <4>1
    <3> QED
      BY Zenon, <3>2, <3>3
  <2>4. CASE Flowing(r)
    <3> DEFINE g == p - n
    <3>1. /\ n <= p /\ Sends(q, n, g) /\ w = [i \in 1..Len(w) |-> i]
          /\ conn[r] = "open" => Len(w) = g
          /\ sess[r].loop /\ sess[r].stream
          /\ badLoop = "no" => ~sess[r].closed
      BY Zenon, <2>4 DEF Flowing
    <3> HIDE DEF q, n, p, w
    <3>2. g \in Nat /\ n \in 1..n /\ n - 1 <= p /\ p - (n - 1) = g + 1
      BY <1>3, <2>0, <3>1
    <3>3. Head(q) = Task("send", g + 1) /\ Sends(Tail(q), n - 1, g + 1)
      BY Zenon, <1>3, <3>1, <3>2, SendsTail DEF n
    <3> HIDE DEF g
    <3>4. /\ wire'[r] = [i \in 1..Len(wire'[r]) |-> i]
          /\ conn'[r] = "open" => Len(wire'[r]) = g + 1
      BY Zenon, <2>3, <3>1, <3>2, <3>3
    <3>5. accepted'[r] = p
      BY Zenon, <1>1 DEF p
    <3>6. Flowing(r)'
      BY Zenon, <1>1, <1>2, <3>1, <3>2, <3>3, <3>4, <3>5 DEF Flowing
    <3> QED
      BY Zenon, <2>0, <2>1, <3>6 DEF StreamInv
  <2>5. CASE Closing(r) /\ n > 1
    <3> DEFINE k == n - 1
               g == p - k
    <3>1. /\ k <= p /\ Sends(q, k, g) /\ w = [i \in 1..Len(w) |-> i]
          /\ conn[r] = "open" => Len(w) = g
          /\ sess[r].loop /\ sess[r].stream /\ sess[r].closed
          /\ q[n] = Task("close", 0)
      BY Zenon, <2>5 DEF Closing
    <3> HIDE DEF q, n, p, w
    <3>2. /\ g \in Nat /\ k \in 1..n /\ k < n /\ k > 0 /\ k - 1 <= p /\ p - (k - 1) = g + 1
      BY <1>3, <2>5, <3>1
    <3>3. /\ Head(q) = Task("send", g + 1) /\ Sends(Tail(q), k - 1, g + 1)
          /\ Tail(q)[k] = q[n]
      BY Zenon, <1>3, <3>1, <3>2, SendsTail DEF n
    <3>4. Len(tasks'[r]) = k
      BY Zenon, <1>2
    <3> HIDE DEF g, k
    <3>5. /\ wire'[r] = [i \in 1..Len(wire'[r]) |-> i]
          /\ conn'[r] = "open" => Len(wire'[r]) = g + 1
      BY Zenon, <2>3, <3>1, <3>2, <3>3
    <3>6. accepted'[r] = p
      BY Zenon, <1>1 DEF p
    <3>7. Closing(r)'
      BY Zenon, <1>1, <1>2, <3>1, <3>2, <3>3, <3>4, <3>5, <3>6 DEF Closing
    <3> QED
      BY Zenon, <2>0, <2>1, <3>7 DEF StreamInv
  <2> QED
    BY Zenon, <2>2, <2>4, <2>5
<1>5. TypeOK' /\ Anywhere(r)' /\ \A t \in Requests \ {r} : Same(t)
  BY Zenon, SendTaskEffect
<1> QED
  BY Zenon, <1>4, <1>5, OneRequest

\* The end of the response is written, behind all the chunks.
LEMMA CloseTaskStep ==
    ASSUME PoolAssumption, PoolInv, NEW r \in Requests, CloseTask(r) PROVE PoolInv'
<1> DEFINE d == [sess[r] EXCEPT !.stream = FALSE]
           w == wire[r]
           p == accepted[r]
<1>0. /\ TypeOK /\ Anywhere(r) /\ LoopsAlive /\ tasks[r] # <<>> /\ sess[r] \in Session
      /\ Head(tasks[r]).do = "close" /\ RunTask(r) /\ tasks[r] \in Seq(Tasks)
      /\ w \in Seq(0..MaxSends) /\ Len(w) \in Nat /\ p \in Nat
      /\ r \in Streaming => StreamInv(r)
  BY PoolTypes DEF PoolInv, CloseTask, NextTask, PoolAssumption
<1>1. /\ wire' = IF sess[r].stream /\ conn[r] = "open"
                 THEN [wire EXCEPT ![r] = Append(w, 0)] ELSE wire
      /\ sess' = [sess EXCEPT ![r] = d]
      /\ UNCHANGED <<server, conn, keep, queue, idle, job, accepted, badLoop>>
  BY Zenon DEF CloseTask, netVars, poolVars
<1>2. /\ d \in Session /\ d.loop = sess[r].loop /\ d.stream = FALSE
      /\ d.closed = sess[r].closed
  BY Zenon, <1>0 DEF Session
<1> HIDE DEF d, w, p
<1>3. /\ sess'[r] = d /\ \A t \in Requests \ {r} : sess'[t] = sess[t]
      /\ sess' \in [Requests -> Session]
  <2>1. sess \in [Requests -> Session]
    BY Zenon, <1>0 DEF TypeOK, Session
  <2> QED
    BY Zenon, <1>1, <1>2, <2>1
<1>4. /\ sess[r].stream /\ conn[r] = "open" => wire'[r] = Append(w, 0)
      /\ ~(sess[r].stream /\ conn[r] = "open") => wire'[r] = w
      /\ \A t \in Requests \ {r} : wire'[t] = wire[t]
      /\ wire' \in [Requests -> Seq(0..MaxSends)]
  <2>1. wire \in [Requests -> Seq(0..MaxSends)]
    BY Zenon, <1>0 DEF TypeOK
  <2>2. Append(w, 0) \in Seq(0..MaxSends)
    BY <1>0 DEF PoolAssumption
  <2>3. CASE sess[r].stream /\ conn[r] = "open"
    BY Zenon, <1>1, <2>1, <2>2, <2>3
  <2>4. CASE ~(sess[r].stream /\ conn[r] = "open")
    BY Zenon, <1>1, <2>1, <2>4 DEF w
  <2> QED
    BY Zenon, <2>3, <2>4
<1>5. TypeOK'
  BY Zenon, <1>0, <1>1, <1>3, <1>4, TaskRun DEF TypeOK, Tasks, Session
<1>6. Anywhere(r)'
  BY Zenon, <1>0, <1>1, <1>2, <1>3 DEF Anywhere, LoopsAlive
<1>7. \A t \in Requests \ {r} : Same(t)
  BY Zenon, <1>0, <1>1, <1>3, <1>4, TaskRun DEF Same
<1>8. ASSUME r \in Streaming PROVE StreamInv(r)'
  <2>1. Closing(r) /\ Len(tasks[r]) = 1
    <3>1. Before(r) \/ Flowing(r) \/ Closing(r) \/ Closed(r)
      BY Zenon, <1>0, <1>8 DEF StreamInv
    <3>2. (\A n : Task("send", n).do # "close") /\ Task("deliver", 0).do # "close"
      BY Zenon DEF Task
    <3> QED
      BY Zenon, <1>0, <1>8, <3>1, <3>2, ClosingLength, HeadTells
  <2>2. tasks'[r] = <<>>
    <3>1. tasks'[r] \in Seq(Tasks) /\ Len(tasks'[r]) = 0
      BY <1>0, <2>1, TaskRun
    <3> QED
      BY Zenon, <3>1, NoTasks
  <2>3. /\ sess[r].loop /\ sess[r].stream /\ sess[r].closed /\ w = [i \in 1..Len(w) |-> i]
        /\ conn[r] = "open" => Len(w) = p
    <3>1. /\ sess[r].loop /\ sess[r].stream /\ sess[r].closed /\ w = [i \in 1..Len(w) |-> i]
          /\ conn[r] = "open" => Len(w) = p - (Len(tasks[r]) - 1)
      BY Zenon, <2>1 DEF Closing, w, p
    <3>2. p - (1 - 1) = p
      BY <1>0
    <3> QED
      BY Zenon, <2>1, <3>1, <3>2
  <2>4. /\ InOrder(r)'
        /\ conn'[r] = "open" => Complete(r)'
    <3>1. CASE conn[r] = "open"
      <4>1. wire'[r] = [i \in 1..(p + 1) |-> IF i > p THEN 0 ELSE i]
        <5>1. Append(w, 0) = [i \in 1..(Len(w) + 1) |-> IF i > Len(w) THEN 0 ELSE i]
          BY Zenon, <1>0, <2>3, WireEnd
        <5>2. Len(w) = p /\ wire'[r] = Append(w, 0)
          BY Zenon, <1>4, <2>3, <3>1
        <5> QED
          BY Zenon, <5>1, <5>2
      <4>2. Complete(r)'
        BY Zenon, <1>1, <4>1 DEF Complete, p
      <4>3. Len(wire'[r]) = p + 1 /\ \A i \in 1..(p + 1) : wire'[r][i] = IF i > p THEN 0 ELSE i
        BY <1>0, <4>1
      <4>4. InOrder(r)'
        <5>1. \A i \in 1..(p + 1) : i > p => i = p + 1
          BY <1>0
        <5> QED
          BY <4>3, <5>1 DEF InOrder
      <4> QED
        BY Zenon, <4>2, <4>4
    <3>2. CASE conn[r] # "open"
      <4>1. wire'[r] = w /\ \A i \in 1..Len(w) : w[i] = i
        BY Zenon, <1>4, <2>3, <3>2
      <4> QED
        BY Zenon, <1>1, <3>2, <4>1 DEF InOrder
    <3> QED
      BY Zenon, <3>1, <3>2
  <2>5. Closed(r)'
    BY Zenon, <1>2, <1>3, <2>2, <2>3, <2>4 DEF Closed
  <2>6. Working(r)'
    <3>1. job[r] # "push" /\ (job[r] = "done" => sess[r].closed)
      BY Zenon, <1>0, <1>8, <2>3 DEF Anywhere, StreamInv, Working
    <3> QED
      BY Zenon, <1>1, <1>2, <1>3, <3>1 DEF Working
  <2>7. conn'[r] # "none" /\ LoopsAlive'
    BY Zenon, <1>0, <1>1, <1>8, HeadTells DEF LoopsAlive
  <2> QED
    BY Zenon, <2>5, <2>6, <2>7 DEF StreamInv
<1> QED
  BY Zenon, <1>5, <1>6, <1>7, <1>8, OneRequest

\* The accepted chunk is queued; without a live loop it is lost, and that is
\* recorded.
LEMMA PushStep ==
    ASSUME PoolAssumption, PoolInv, NEW r \in Requests, Push(r) PROVE PoolInv'
<1> DEFINE q == tasks[r]
           p == accepted[r]
           x == Task("send", p + 1)
<1>0. /\ TypeOK /\ Anywhere(r) /\ job[r] = "push"
      /\ q \in Seq(Tasks) /\ Len(q) \in Nat /\ p \in 0..MaxSends /\ p \in Nat /\ MaxSends \in Nat
  BY PoolTypes DEF PoolInv, Push, PoolAssumption
<1>1. r \in Streaming /\ ~sess[r].closed /\ p < MaxSends
  BY Zenon, <1>0 DEF Anywhere
<1>2. StreamInv(r) /\ Flowing(r)
  <2>1. StreamInv(r)
    BY Zenon, <1>1, PoolTypes
  <2>2. sess[r].stream
    BY Zenon, <1>0, <2>1 DEF StreamInv, Working
  <2> QED
    BY Zenon, <1>1, <2>1, <2>2 DEF StreamInv, Before, Closing, Closed
<1>3. /\ job' = [job EXCEPT ![r] = "run"] /\ accepted' = [accepted EXCEPT ![r] = p + 1]
      /\ UNCHANGED <<server, conn, keep, queue, idle, sess, wire>>
      /\ QueueInLoop(r, x)
  BY Zenon DEF Push, netVars, poolVars
<1>4. /\ sess[r].loop /\ sess[r].stream /\ Len(q) <= p /\ Sends(q, Len(q), p - Len(q))
      /\ wire[r] = [i \in 1..Len(wire[r]) |-> i]
      /\ conn[r] = "open" => Len(wire[r]) = p - Len(q)
  BY Zenon, <1>2 DEF Flowing
<1>5. x \in Tasks /\ p + 1 \in 0..MaxSends
  <2>1. p + 1 \in 0..MaxSends
    BY <1>0, <1>1
  <2> QED
    BY Zenon, <2>1, TaskTypes
<1>6. /\ badLoop' = "no" => badLoop = "no" /\ LoopsAlive
      /\ badLoop' \in {"no", "null", "dead"}
      /\ LoopsAlive => tasks' = [tasks EXCEPT ![r] = Append(q, x)]
      /\ ~LoopsAlive => tasks' = tasks
  BY Zenon, <1>0, <1>3, <1>4 DEF QueueInLoop, TypeOK
<1> HIDE DEF q, p, x
<1>7. /\ job'[r] = "run" /\ accepted'[r] = p + 1
      /\ \A t \in Requests \ {r} : job'[t] = job[t] /\ accepted'[t] = accepted[t]
      /\ job' \in [Requests -> InBackend \union {"none", "limited", "queued", "done", "dropped"}]
      /\ accepted' \in [Requests -> 0..MaxSends]
  BY Zenon, <1>0, <1>3, <1>5 DEF TypeOK, InBackend
<1>8. /\ LoopsAlive => tasks'[r] = Append(q, x)
      /\ ~LoopsAlive => tasks'[r] = q
      /\ tasks' \in [Requests -> Seq(Tasks)]
      /\ \A t \in Requests \ {r} : tasks'[t] = tasks[t]
  <2>0. Append(q, x) \in Seq(Tasks)
    BY <1>0, <1>5
  <2>1. tasks \in [Requests -> Seq(Tasks)]
    BY Zenon, <1>0 DEF TypeOK, Tasks
  <2>2. CASE LoopsAlive
    BY Zenon, <1>6, <2>0, <2>1, <2>2
  <2>3. CASE ~LoopsAlive
    BY Zenon, <1>6, <2>1, <2>3 DEF q
  <2> QED
    BY Zenon, <2>2, <2>3
<1>9. TypeOK'
  BY Zenon, <1>0, <1>3, <1>6, <1>7, <1>8 DEF TypeOK, Tasks
<1>10. Anywhere(r)'
  BY Zenon, <1>0, <1>3, <1>7 DEF Anywhere, LoopsAlive
<1>11. \A t \in Requests \ {r} : Same(t)
  BY Zenon, <1>3, <1>6, <1>7, <1>8 DEF Same
<1>12. StreamInv(r)'
  <2>1. Working(r)'
    BY Zenon, <1>7 DEF Working
  <2>2. Len(tasks'[r]) <= p + 1 /\ Sends(tasks'[r], Len(tasks'[r]), p + 1 - Len(tasks'[r]))
        /\ (conn[r] = "open" => p + 1 - Len(tasks'[r]) = p - Len(q))
        /\ (~LoopsAlive => tasks'[r] = <<>>)
    <3>1. CASE LoopsAlive
      <4>1. /\ Len(tasks'[r]) = Len(q) + 1
            /\ Sends(tasks'[r], Len(q) + 1, p + 1 - (Len(q) + 1))
        <5>1. x = Task("send", p + 1)
          BY Zenon DEF x
        <5>2. /\ Len(Append(q, x)) = Len(q) + 1
              /\ Sends(Append(q, x), Len(q) + 1, p + 1 - (Len(q) + 1))
          BY ONLY Zenon, <1>0, <1>4, <1>5, <5>1, SendsAppend
        <5> QED
          BY Zenon, <1>8, <3>1, <5>2
      <4> QED
        BY <1>0, <1>4, <3>1, <4>1
    <3>2. CASE ~LoopsAlive
      <4>1. q = <<>> /\ conn[r] # "open"
        BY Zenon, <1>0, <1>2, <3>2 DEF StreamInv, Anywhere, q
      <4>2. tasks'[r] = <<>> /\ Len(tasks'[r]) = 0
        BY Zenon, <1>8, <3>2, <4>1
      <4> QED
        BY <1>0, <4>1, <4>2, NoSends
    <3> QED
      BY Zenon, <3>1, <3>2
  <2>3. Flowing(r)'
    <3>0. sess'[r] = sess[r] /\ wire'[r] = wire[r] /\ conn'[r] = conn[r] /\ accepted'[r] = p + 1
      BY Zenon, <1>3, <1>7
    <3>a. sess[r].loop /\ sess[r].stream
      BY Zenon, <1>4
    <3>b. wire[r] = [i \in 1..Len(wire[r]) |-> i]
      BY Zenon, <1>4
    <3>c. conn[r] = "open" => Len(wire[r]) = p - Len(q)
      BY Zenon, <1>4
    <3>d. /\ Len(tasks'[r]) <= accepted'[r]
          /\ Sends(tasks'[r], Len(tasks'[r]), accepted'[r] - Len(tasks'[r]))
      <4>1. /\ Len(tasks'[r]) <= p + 1
            /\ Sends(tasks'[r], Len(tasks'[r]), p + 1 - Len(tasks'[r]))
        BY Zenon, <2>2
      <4>2. tasks'[r] \in Seq(Tasks) /\ Len(tasks'[r]) \in Nat
        BY <1>8
      <4>3. p + 1 - Len(tasks'[r]) = accepted'[r] - Len(tasks'[r])
        BY <1>0, <3>0, <4>2
      <4> QED
        BY Zenon, <3>0, <4>1, <4>3
    <3>e. conn[r] = "open" => accepted'[r] - Len(tasks'[r]) = p - Len(q)
      BY <1>0, <2>2, <3>0
    <3>1. /\ sess'[r].loop /\ sess'[r].stream /\ (badLoop' = "no" => ~sess'[r].closed)
          /\ Len(tasks'[r]) <= accepted'[r]
          /\ Sends(tasks'[r], Len(tasks'[r]), accepted'[r] - Len(tasks'[r]))
      BY Zenon, <1>1, <3>a, <3>0, <3>d
    <3>2. wire'[r] = [i \in 1..Len(wire'[r]) |-> i]
      BY ONLY Zenon, <3>b, <3>0
    <3>3. conn'[r] = "open" => Len(wire'[r]) = accepted'[r] - Len(tasks'[r])
      BY Zenon, <3>c, <3>0, <3>e
    <3> QED
      BY Zenon, <3>1, <3>2, <3>3 DEF Flowing
  <2>4. conn'[r] # "none" /\ (~LoopsAlive' => tasks'[r] = <<>>)
    <3>1. ~Before(r)
      BY Zenon, <1>4 DEF Before
    <3> QED
      BY Zenon, <1>2, <1>3, <2>2, <3>1 DEF StreamInv, LoopsAlive
  <2> QED
    BY Zenon, <2>1, <2>3, <2>4 DEF StreamInv
<1> QED
  BY Zenon, <1>9, <1>10, <1>11, <1>12, OneRequest

\* The first close of a stream, by the backend or after it returned (j): behind
\* the chunks of a stream that was handed over, lost otherwise.
LEMMA FirstClose ==
    ASSUME PoolAssumption, PoolInv, NEW r \in Requests, r \in Streaming, ~sess[r].closed,
           CloseStream(r), NEW j \in {"run", "told", "done"}, job' = [job EXCEPT ![r] = j],
           UNCHANGED <<server, conn, keep, queue, idle, accepted, wire>>
    PROVE  PoolInv'
<1> DEFINE q == tasks[r]
           p == accepted[r]
           x == Task("close", 0)
           d == [sess[r] EXCEPT !.closed = TRUE]
<1>0. /\ TypeOK /\ Anywhere(r) /\ StreamInv(r) /\ sess[r] \in Session
      /\ q \in Seq(Tasks) /\ Len(q) \in Nat /\ p \in Nat /\ x \in Tasks
  BY PoolTypes, TaskTypes DEF PoolInv, PoolAssumption
<1>1. sess' = [sess EXCEPT ![r] = d] /\ QueueInLoop(r, x)
  BY Zenon DEF CloseStream
<1>2. /\ d \in Session /\ d.loop = sess[r].loop /\ d.stream = sess[r].stream
      /\ d.closed = TRUE
  BY Zenon, <1>0 DEF Session
<1>3. /\ badLoop' = "no" => badLoop = "no" /\ sess[r].loop /\ LoopsAlive
      /\ badLoop' \in {"no", "null", "dead"}
      /\ sess[r].loop /\ LoopsAlive => tasks' = [tasks EXCEPT ![r] = Append(q, x)]
      /\ ~(sess[r].loop /\ LoopsAlive) => tasks' = tasks
  BY Zenon, <1>0, <1>1 DEF QueueInLoop, TypeOK
<1> HIDE DEF q, p, x, d
<1>4. /\ sess'[r] = d /\ \A t \in Requests \ {r} : sess'[t] = sess[t]
      /\ sess' \in [Requests -> Session]
  <2>1. sess \in [Requests -> Session]
    BY Zenon, <1>0 DEF TypeOK, Session
  <2> QED
    BY Zenon, <1>1, <1>2, <2>1
<1>5. /\ job'[r] = j /\ \A t \in Requests \ {r} : job'[t] = job[t]
      /\ job' \in [Requests -> InBackend \union {"none", "limited", "queued", "done", "dropped"}]
  BY Zenon, <1>0 DEF TypeOK, InBackend
<1>6. /\ sess[r].loop /\ LoopsAlive => tasks'[r] = Append(q, x)
      /\ ~(sess[r].loop /\ LoopsAlive) => tasks'[r] = q
      /\ tasks' \in [Requests -> Seq(Tasks)]
      /\ \A t \in Requests \ {r} : tasks'[t] = tasks[t]
  <2>0. Append(q, x) \in Seq(Tasks)
    BY <1>0
  <2>1. tasks \in [Requests -> Seq(Tasks)]
    BY Zenon, <1>0 DEF TypeOK, Tasks
  <2>2. CASE sess[r].loop /\ LoopsAlive
    BY Zenon, <1>3, <2>0, <2>1, <2>2
  <2>3. CASE ~(sess[r].loop /\ LoopsAlive)
    BY Zenon, <1>3, <2>1, <2>3 DEF q
  <2> QED
    BY Zenon, <2>2, <2>3
<1>7. TypeOK'
  BY Zenon, <1>0, <1>3, <1>4, <1>5, <1>6 DEF TypeOK, Tasks, Session
<1>8. Anywhere(r)'
  BY Zenon, <1>0, <1>5 DEF Anywhere, LoopsAlive
<1>9. \A t \in Requests \ {r} : Same(t)
  BY Zenon, <1>3, <1>4, <1>5, <1>6 DEF Same
<1>10. StreamInv(r)'
  <2>1. Working(r)'
    BY Zenon, <1>2, <1>4, <1>5 DEF Working
  <2>2. LoopsAlive' <=> LoopsAlive
    BY Zenon DEF LoopsAlive
  <2>3. /\ sess'[r].loop = sess[r].loop /\ sess'[r].stream = sess[r].stream /\ sess'[r].closed
        /\ wire'[r] = wire[r] /\ accepted'[r] = p /\ conn'[r] = conn[r]
    BY Zenon, <1>2, <1>4 DEF p
  <2>4. Before(r) \/ Flowing(r)
    BY Zenon, <1>0 DEF StreamInv, Closing, Closed
  <2>5. CASE Before(r)
    <3>1. tasks'[r] = tasks[r] /\ badLoop' # "no"
      BY Zenon, <1>3, <1>6, <2>5 DEF Before, q
    <3>2. Before(r)'
      BY Zenon, <2>3, <2>5, <3>1 DEF Before, p
    <3> QED
      BY Zenon, <1>0, <2>1, <2>2, <2>3, <3>1, <3>2 DEF StreamInv
  <2>6. CASE Flowing(r)
    <3>1. /\ sess[r].loop /\ sess[r].stream /\ Len(q) <= p /\ Sends(q, Len(q), p - Len(q))
          /\ conn[r] = "open" => Len(wire[r]) = p - Len(q)
      BY Zenon, <2>6 DEF Flowing, p, q
    <3>2. wire'[r] = [i \in 1..Len(wire'[r]) |-> i]
      BY Zenon, <2>3, <2>6 DEF Flowing
    <3>3. conn[r] # "none"
      BY Zenon, <1>0, <3>1 DEF StreamInv, Before
    <3>4. CASE LoopsAlive
      <4> DEFINE c == Append(q, x)
      <4>1. /\ Len(c) = Len(q) + 1 /\ c[Len(c)] = x
            /\ Sends(c, Len(c) - 1, p - (Len(c) - 1))
        BY ONLY Zenon, <1>0, <3>1, CloseAppend
      <4>2. tasks'[r] = c
        BY Zenon, <1>6, <3>1, <3>4
      <4> HIDE DEF c
      <4>3. Len(c) > 0 /\ Len(c) - 1 = Len(q) /\ Len(c) - 1 <= p /\ Len(c) \in Nat
        BY <1>0, <3>1, <4>1
      <4>4. conn[r] = "open" => Len(wire[r]) = p - (Len(c) - 1)
        BY Zenon, <3>1, <4>3
      <4>5. /\ tasks'[r][Len(tasks'[r])] = Task("close", 0)
            /\ Len(tasks'[r]) > 0 /\ Len(tasks'[r]) - 1 <= accepted'[r]
            /\ Sends(tasks'[r], Len(tasks'[r]) - 1, accepted'[r] - (Len(tasks'[r]) - 1))
        BY Zenon, <2>3, <4>1, <4>2, <4>3 DEF x
      <4>6. conn'[r] = "open" => Len(wire'[r]) = accepted'[r] - (Len(tasks'[r]) - 1)
        BY Zenon, <2>3, <4>2, <4>4
      <4>7. Closing(r)'
        BY Zenon, <2>3, <3>1, <3>2, <4>5, <4>6 DEF Closing
      <4> QED
        BY Zenon, <2>1, <2>2, <2>3, <3>3, <3>4, <4>7 DEF StreamInv
    <3>5. CASE ~LoopsAlive
      <4>1. tasks'[r] = q /\ q = <<>> /\ badLoop' # "no"
        BY Zenon, <1>0, <1>3, <1>6, <3>5 DEF StreamInv, q
      <4>2. Flowing(r)'
        <5>1. Len(tasks'[r]) <= accepted'[r] /\ Sends(tasks'[r], Len(tasks'[r]), accepted'[r] - Len(tasks'[r]))
          BY Zenon, <1>0, <2>3, <3>1, <4>1
        <5>2. conn'[r] = "open" => Len(wire'[r]) = accepted'[r] - Len(tasks'[r])
          BY Zenon, <1>0, <2>3, <3>1, <4>1
        <5> QED
          BY Zenon, <2>3, <3>1, <3>2, <4>1, <5>1, <5>2 DEF Flowing
      <4> QED
        BY Zenon, <2>1, <2>2, <2>3, <3>3, <4>1, <4>2 DEF StreamInv
    <3> QED
      BY Zenon, <3>4, <3>5
  <2> QED
    BY Zenon, <2>4, <2>5, <2>6
<1> QED
  BY Zenon, <1>7, <1>8, <1>9, <1>10, OneRequest

LEMMA BackendCloseStep ==
    ASSUME PoolAssumption, PoolInv, NEW r \in Requests, BackendClose(r) PROVE PoolInv'
<1>1. /\ r \in Streaming /\ ~sess[r].closed /\ CloseStream(r) /\ job[r] \in {"run", "told", "done"}
      /\ UNCHANGED <<server, conn, keep, queue, idle, accepted, wire>> /\ job' = job
  BY Zenon DEF BackendClose, netVars, poolVars
<1>2. job' = [job EXCEPT ![r] = job[r]]
  BY Zenon, <1>1 DEF PoolInv, TypeOK
<1> QED
  BY Zenon, <1>1, <1>2, FirstClose

LEMMA StreamReturnStep ==
    ASSUME PoolAssumption, PoolInv, NEW r \in Requests, StreamReturn(r) PROVE PoolInv'
<1>1. /\ r \in Streaming /\ CloseStream(r) /\ job' = [job EXCEPT ![r] = "done"]
      /\ UNCHANGED <<server, conn, keep, queue, idle, accepted, wire>>
  BY Zenon DEF StreamReturn, netVars, poolVars
<1>2. CASE sess[r].closed
  <2>1. UNCHANGED <<server, netVars, sess, tasks, accepted, wire, badLoop>>
    BY Zenon, <1>1, <1>2 DEF CloseStream, netVars
  <2>2. queue' \in Seq(Requests) /\ idle' \in IdleStates
    BY Zenon, <1>1 DEF PoolInv, TypeOK
  <2> QED
    BY Zenon, <1>1, <1>2, <2>1, <2>2, JobOnly
<1>3. CASE ~sess[r].closed
  BY Zenon, <1>1, <1>3, FirstClose
<1> QED
  BY Zenon, <1>2, <1>3
-----------------------------------------------------------------------------
(* drogonR_server_stop().                                                  *)

LEMMA StopBeginStep == ASSUME PoolAssumption, PoolInv, StopBegin PROVE PoolInv'
<1>1. /\ server = "up" /\ server' = "stopping"
      /\ UNCHANGED <<conn, keep, queue, idle, job, sess, tasks, accepted, wire, badLoop>>
  BY Zenon DEF StopBegin, netVars, poolVars
<1>2. TypeOK'
  BY Zenon, <1>1 DEF PoolInv, TypeOK
<1>3. \A t \in Requests : Same(t)
  BY Zenon, <1>1 DEF Same
<1> QED
  BY Zenon, <1>2, <1>3, NoRequest

\* No connection is open any more; what the loops had not run is gone.
LEMMA LoopsJoinedStep == ASSUME PoolAssumption, PoolInv, LoopsJoined PROVE PoolInv'
<1>0. /\ \A r \in Requests : conn[r] # "open" /\ tasks'[r] = <<>>
      /\ tasks' = [r \in Requests |-> <<>>] /\ server' = "joined"
      /\ UNCHANGED <<conn, keep, queue, idle, job, sess, accepted, wire, badLoop>>
  BY Zenon DEF LoopsJoined, netVars, poolVars
<1>1. TypeOK'
  <2>1. <<>> \in Seq([do : {"deliver", "send", "close", "reply"}, chunk : 0..MaxSends])
    OBVIOUS
  <2> QED
    BY Zenon, <1>0, <2>1 DEF PoolInv, TypeOK
<1>2. ASSUME NEW r \in Requests PROVE Anywhere(r)'
  BY Zenon, <1>0 DEF PoolInv, Anywhere
<1>3. ASSUME NEW r \in Streaming PROVE StreamInv(r)'
  <2>0. /\ r \in Requests /\ StreamInv(r) /\ conn'[r] = conn[r] /\ conn[r] # "open"
        /\ tasks'[r] = <<>> /\ Len(tasks'[r]) = 0
        /\ accepted'[r] = accepted[r] /\ accepted[r] \in Nat
        /\ wire'[r] = wire[r] /\ sess'[r] = sess[r] /\ badLoop' = badLoop
    BY <1>0, PoolTypes DEF PoolInv, Requests
  <2>1. Working(r)'
    BY Zenon, <1>0 , <2>0 DEF StreamInv, Working
  <2>2. Before(r) => Before(r)'
    BY Zenon, <2>0 DEF Before
  <2>3. Flowing(r) => Flowing(r)'
    <3>1. Sends(tasks'[r], Len(tasks'[r]), accepted'[r] - Len(tasks'[r]))
      BY Zenon, <2>0, NoSends
    <3>2. Len(tasks'[r]) <= accepted'[r]
      BY <2>0
    <3>3. Flowing(r) => wire'[r] = [i \in 1..Len(wire'[r]) |-> i]
      BY Zenon, <2>0 DEF Flowing
    <3> QED
      BY Zenon, <2>0, <3>1, <3>2, <3>3 DEF Flowing
  <2>4. Closing(r) => Closed(r)'
    <3>1. Closing(r) => \A i \in 1..Len(wire[r]) : wire[r][i] = i
      BY Zenon DEF Closing
    <3>2. Closing(r) => InOrder(r)'
      BY Zenon, <2>0, <3>1 DEF InOrder
    <3> QED
      BY Zenon, <2>0, <3>2 DEF Closing, Closed
  <2>5. Closed(r) => Closed(r)'
    BY Zenon, <2>0 DEF Closed, InOrder
  <2>6. conn[r] = "none" => Before(r)
    BY Zenon, <2>0 DEF StreamInv
  <2> QED
    BY Zenon, <2>0, <2>1, <2>2, <2>3, <2>4, <2>5, <2>6 DEF StreamInv
<1> QED
  BY Zenon, <1>1, <1>2, <1>3 DEF PoolInv

\* The loops are gone: only the pool's own state changes.
LEMMA PoolStopSteps ==
    ASSUME PoolAssumption, PoolInv, PoolStop \/ PoolNotify \/ PoolJoined PROVE PoolInv'
<1>0. /\ ~LoopsAlive /\ ~LoopsAlive' /\ TypeOK
      /\ UNCHANGED <<conn, keep, sess, tasks, accepted, wire, badLoop>>
  BY Zenon DEF PoolStop, PoolNotify, PoolJoined, LoopsAlive, PoolInv, netVars, poolVars
<1>1. \A r \in Requests : job'[r] = job[r] \/ job'[r] = "dropped"
  BY Zenon DEF PoolStop, PoolNotify, PoolJoined
<1>2. TypeOK'
  <2>1. CASE PoolStop
    BY Zenon, <1>0, <2>1 DEF PoolStop, TypeOK, poolVars
  <2>2. CASE PoolNotify
    <3>1. idle' \in IdleStates
      BY Zenon, <1>0, <2>2, IdleMoves DEF PoolNotify, TypeOK, PoolAssumption
    <3> QED
      BY Zenon, <1>0, <2>2, <3>1 DEF PoolNotify, TypeOK
  <2>3. CASE PoolJoined
    <3>1. job' \in [Requests -> InBackend \union {"none", "limited", "queued", "done", "dropped"}]
      BY Zenon, <1>0, <2>3 DEF PoolJoined, TypeOK
    <3>2. queue' \in Seq(Requests) /\ server' = "down" /\ idle' = idle
      BY <2>3 DEF PoolJoined
    <3> QED
      BY Zenon, <1>0, <3>1, <3>2 DEF TypeOK
  <2> QED
    BY Zenon, <2>1, <2>2, <2>3
<1>3. ASSUME NEW r \in Requests PROVE Anywhere(r)'
  BY Zenon, <1>0, <1>1 DEF PoolInv, Anywhere
<1>4. ASSUME NEW r \in Streaming PROVE StreamInv(r)'
  <2>0. r \in Requests /\ StreamInv(r)
    BY Zenon DEF PoolInv, Requests
  <2>1. Working(r)'
    BY Zenon, <1>0, <1>1, <2>0 DEF StreamInv, Working
  <2>2. Before(r)' = Before(r) /\ Flowing(r)' = Flowing(r)
        /\ Closing(r)' = Closing(r) /\ Closed(r)' = Closed(r)
    BY Zenon, <1>0 DEF Before, Flowing, Closing, Closed, InOrder, Complete
  <2> QED
    BY Zenon, <1>0, <2>0, <2>1, <2>2 DEF StreamInv
<1> QED
  BY Zenon, <1>2, <1>3, <1>4 DEF PoolInv
-----------------------------------------------------------------------------
LEMMA PoolInit == ASSUME PoolAssumption, Init PROVE PoolInv
<1>1. TypeOK
  <2>1. /\ <<>> \in Seq([do : {"deliver", "send", "close", "reply"}, chunk : 0..MaxSends])
        /\ <<>> \in Seq(0..MaxSends) /\ <<>> \in Seq(Requests)
    OBVIOUS
  <2>2. 0 \in 0..MaxSends /\ At(0, 0, 0) \in IdleStates
    BY DEF PoolAssumption, At, IdleStates
  <2>3. NoSession \in [loop : BOOLEAN, stream : BOOLEAN, cancelled : BOOLEAN, closed : BOOLEAN]
    BY Zenon DEF NoSession
  <2> QED
    BY Zenon, <2>1, <2>2, <2>3 DEF Init, TypeOK
<1>2. ASSUME NEW r \in Requests
      PROVE  /\ job[r] = "none" /\ conn[r] = "none" /\ tasks[r] = <<>> /\ wire[r] = <<>>
             /\ accepted[r] = 0 /\ sess[r] = NoSession
  BY Zenon DEF Init
<1>3. \A r \in Requests : Anywhere(r)
  BY Zenon, <1>2 DEF Anywhere
<1>4. ASSUME NEW r \in Streaming PROVE StreamInv(r)
  <2>1. r \in Requests
    BY Zenon DEF Requests
  <2>2. ~sess[r].loop /\ ~sess[r].stream /\ ~sess[r].closed
    BY <1>2, <2>1 DEF NoSession
  <2> QED
    BY Zenon, <1>2, <2>1, <2>2 DEF StreamInv, Before, Working
<1> QED
  BY Zenon, <1>1, <1>3, <1>4 DEF PoolInv
-----------------------------------------------------------------------------
(* The steps that count, and the theorems.                                 *)

INSTANCE FiniteSetTheorems

\* Workers come for a task, sleep, wake and end.
LEMMA IdleStep ==
    ASSUME PoolAssumption, PoolInv, Enter \/ Nod \/ Sleep \/ SpuriousWakeup \/ Leave
    PROVE  PoolInv'
<1>1. TypeOK /\ Workers \in Nat /\ idle \in IdleStates
  BY Zenon DEF PoolInv, PoolAssumption, TypeOK
<1>2. UNCHANGED <<server, netVars, queue, job, sess, tasks, accepted, wire, badLoop>>
  BY Zenon DEF Enter, Nod, Sleep, SpuriousWakeup, Leave
<1>3. idle' \in IdleStates
  <2>1. CASE Enter
    <3> DEFINE busy == Cardinality(Running)
    <3>1. Running \subseteq Unary \union Streaming
      BY Zenon DEF Running, Requests
    <3>2. busy \in Nat
      BY Zenon, <3>1, FS_Subset, FS_CardinalityType DEF PoolAssumption
    <3>3. Idle + busy < Workers /\ idle' = At(idle.looking + 1, idle.nodding, idle.asleep)
      BY Zenon, <2>1 DEF Enter
    <3> HIDE DEF busy
    <3> QED
      BY <1>1, <3>2, <3>3 DEF Idle, IdleStates, At
  <2>2. CASE Nod
    BY Zenon, <1>1, <2>2, IdleMoves DEF Nod, TaskMutexFree
  <2>3. CASE Sleep
    BY Zenon, <1>1, <2>3, IdleMoves DEF Sleep
  <2>4. CASE SpuriousWakeup
    BY Zenon, <1>1, <2>4, IdleMoves DEF SpuriousWakeup
  <2>5. CASE Leave
    BY Zenon, <1>1, <2>5, IdleMoves DEF Leave
  <2> QED
    BY Zenon, <2>1, <2>2, <2>3, <2>4, <2>5
<1>4. TypeOK'
  BY Zenon, <1>1, <1>2, <1>3 DEF TypeOK, netVars
<1>5. \A t \in Requests : Same(t)
  BY Zenon, <1>2 DEF Same, netVars
<1> QED
  BY Zenon, <1>4, <1>5, NoRequest

LEMMA PoolStep == ASSUME PoolAssumption, PoolInv, [Next]_vars PROVE PoolInv'
<1>1. CASE UNCHANGED vars
  <2>1. \A t \in Requests : Same(t)
    BY Zenon, <1>1 DEF vars, netVars, Same
  <2>2. TypeOK'
    BY Zenon, <1>1 DEF vars, netVars, poolVars, PoolInv, TypeOK
  <2> QED
    BY Zenon, <2>1, <2>2, NoRequest
<1>2. ASSUME NEW r \in Requests,
             \/ Limited(r) \/ HandleUnary(r) \/ HandleStream(r) \/ PeerGone(r) \/ LoopThread(r)
             \/ SendBegin(r) \/ SendSteps(r) \/ BackendClose(r) \/ Returns(r)
      PROVE  PoolInv'
  <2>1. CASE Limited(r) \/ HandleUnary(r) \/ HandleStream(r) \/ PeerGone(r)
    BY Zenon, <2>1, LimitedStep, HandleUnaryStep, HandleStreamStep, PeerGoneStep
  <2>2. CASE LoopThread(r)
    BY Zenon, <2>2, DeliverStep, SendTaskStep, CloseTaskStep, ReplyTaskStep DEF LoopThread
  <2>3. CASE SendBegin(r) \/ SendSteps(r)
    BY Zenon, <2>3, SendBeginStep, WaitSteps, PushStep DEF SendSteps
  <2>4. CASE BackendClose(r) \/ Returns(r)
    BY Zenon, <2>4, BackendCloseStep, StreamReturnStep, UnaryReturnStep DEF Returns
  <2> QED
    BY Zenon, <1>2, <2>1, <2>2, <2>3, <2>4
<1>3. CASE Enter \/ Pop \/ Nod \/ Sleep \/ SpuriousWakeup \/ Leave
  BY Zenon, <1>3, IdleStep, PopStep
<1>4. CASE StopBegin \/ LoopsJoined \/ PoolStop \/ PoolNotify \/ PoolJoined
  BY Zenon, <1>4, StopBeginStep, LoopsJoinedStep, PoolStopSteps
<1> QED
  BY Zenon, <1>1, <1>2, <1>3, <1>4 DEF Next

\* The variables of the pool, the sessions and the loops' queues keep their
\* types, for any number of requests, workers and chunks.
THEOREM PoolTypeCorrect == ASSUME PoolAssumption PROVE Spec => []TypeOK
<1>1. Init => PoolInv
  BY Zenon, PoolInit
<1>2. PoolInv /\ [Next]_vars => PoolInv'
  BY Zenon, PoolStep
<1>3. PoolInv => TypeOK
  BY Zenon DEF PoolInv
<1> QED
  BY <1>1, <1>2, <1>3, PTL DEF Spec

\* A worker never sleeps in send() through the delivery of its stream, and the
\* client of a streaming backend sees the accepted chunks in order and then the
\* end of the response, for any number of requests, workers and chunks.
THEOREM PoolIsServed == ASSUME PoolAssumption PROVE Spec => []PoolServed
<1>1. Init => PoolInv
  BY Zenon, PoolInit
<1>2. PoolInv /\ [Next]_vars => PoolInv'
  BY Zenon, PoolStep
<1>3. ASSUME PoolInv PROVE PoolServed
  <2>1. DeliveryWakes
    BY Zenon, <1>3 DEF DeliveryWakes, PoolInv, StreamInv, Working
  <2>2. ASSUME NEW r \in Streaming PROVE InOrder(r)
    <3>1. Before(r) \/ Flowing(r) \/ Closing(r) \/ Closed(r)
      BY Zenon, <1>3 DEF PoolInv, StreamInv
    <3>2. CASE Before(r)
      BY <3>2 DEF Before, InOrder
    <3>3. CASE Flowing(r)
      <4>1. \A i \in 1..Len(wire[r]) : wire[r][i] = i
        BY Zenon, <3>3 DEF Flowing
      <4> QED
        BY Zenon, <4>1 DEF InOrder
    <3>4. CASE Closing(r)
      <4>1. \A i \in 1..Len(wire[r]) : wire[r][i] = i
        BY Zenon, <3>4 DEF Closing
      <4> QED
        BY Zenon, <4>1 DEF InOrder
    <3>5. CASE Closed(r)
      BY Zenon, <3>5 DEF Closed
    <3> QED
      BY Zenon, <3>1, <3>2, <3>3, <3>4, <3>5
  <2>3. ASSUME NEW r \in Streaming, job[r] = "done", sess[r].loop, conn[r] = "open",
               tasks[r] = <<>>, badLoop = "no"
        PROVE  Complete(r)
    <3>1. sess[r].closed /\ (Before(r) \/ Flowing(r) \/ Closing(r) \/ Closed(r))
      BY Zenon, <1>3, <2>3 DEF PoolInv, StreamInv, Working
    <3>2. ~Before(r) /\ ~Flowing(r)
      BY Zenon, <2>3, <3>1 DEF Before, Flowing
    <3>3. ~Closing(r)
      <4>1. Len(tasks[r]) = 0
        BY <2>3
      <4> QED
        BY <4>1 DEF Closing
    <3> QED
      BY Zenon, <2>3, <3>1, <3>2, <3>3 DEF Closed
  <2> QED
    BY Zenon, <2>1, <2>2, <2>3 DEF PoolServed, StreamFaithful, InOrder, Complete
<1> QED
  BY <1>1, <1>2, <1>3, PTL DEF Spec
=============================================================================
