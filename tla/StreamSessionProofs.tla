------------------------ MODULE StreamSessionProofs ------------------------
(***************************************************************************)
(* Proofs about StreamSession, for any set of sessions and any number of   *)
(* chunks, in programs whose generators do not stop the server.  (A        *)
(* generator that does is the subject of the run stream_stop_in_generator, *)
(* where NoDeadLoopUse fails.)                                             *)
(***************************************************************************)
EXTENDS StreamSession, TLAPS

\* Before the stream is handed over: nothing was generated, and at most the
\* delivery is queued.
Waiting(s) ==
    /\ sess[s].reg \in {"none", "live"} /\ ~sess[s].stream
    /\ produced[s] = 0 /\ wire[s] = <<>>
    /\ tasks[s] \in {<<>>, <<Task("deliver", 0)>>, <<Task("stash", 0)>>}
    /\ tasks[s] # <<>> => sess[s].reg = "live"
    /\ tasks[s] = <<Task("stash", 0)>> => sess[s].loop

\* What waits on the loop, after the first `gone' chunks, is the next n.
Sends(q, n, gone) == \A i \in 1..n : q[i] = Task("send", gone + i)

\* The generator is being pumped: the chunks that are not yet on the wire of
\* an open connection are queued, in order.
Streaming(s) ==
    /\ sess[s].reg = "live" /\ sess[s].stream /\ sess[s].loop
    /\ Len(tasks[s]) <= produced[s]
    /\ Sends(tasks[s], Len(tasks[s]), produced[s] - Len(tasks[s]))
    /\ conn[s] = "open" => Len(wire[s]) = produced[s] - Len(tasks[s])

\* The session was dropped and the close is queued behind its last chunks.
Closing(s) ==
    /\ sess[s].reg = "gone" /\ sess[s].stream
    /\ Len(tasks[s]) > 0 /\ Len(tasks[s]) - 1 <= produced[s]
    /\ Sends(tasks[s], Len(tasks[s]) - 1, produced[s] - (Len(tasks[s]) - 1))
    /\ tasks[s][Len(tasks[s])] = Task("close", 0)
    /\ conn[s] = "open" => Len(wire[s]) = produced[s] - (Len(tasks[s]) - 1)

\* Nothing is left to do for the session.
Ended(s) ==
    /\ sess[s].reg = "gone" /\ tasks[s] = <<>>
    /\ conn[s] = "open" => Len(wire[s]) = produced[s] /\ ~sess[s].stream

\* Where the main thread may be with session s, and who pumps it.
Pumped(s) ==
    /\ pumps[s] <= 1
    /\ sess[s].reg = "none" => pumps[s] = 0
    /\ sess[s].reg = "live" => running
    /\ Busy(s) => sess[s].reg = "live" /\ pumps[s] = 0
    /\ sess[s].reg = "live" /\ ~Busy(s) => pumps[s] = 1
    /\ Busy(s) /\ main.at = "respond" => ~sess[s].stream /\ tasks[s] = <<>>
    /\ Busy(s) /\ main.at = "call" => sess[s].stream
    /\ finals[s] > 0 =>
        sess[s].reg = "gone" \/ (Busy(s) /\ main.at = "call" /\ main.cancelled)

\* Which R objects are preserved for it.
Held(s) ==
    /\ preserved[s] = Pointers(sess[s])
    /\ sess[s].reg # "live" => ~sess[s].fn /\ ~sess[s].st
    /\ sess[s].closing <=> sess[s].reg = "gone"

SessionInv(s) ==
    /\ Waiting(s) \/ Streaming(s) \/ Closing(s) \/ Ended(s)
    /\ Pumped(s)
    /\ Held(s)
    /\ wire[s] = [i \in 1..Len(wire[s]) |-> i]
    /\ conn[s] = "open" => running

\* The inductive invariant.
StreamInv == TypeOK /\ ~deadUse /\ \A s \in Streams : SessionInv(s)
-----------------------------------------------------------------------------
(* Steps that do not concern a session leave its part of the invariant.    *)

\* Nothing of session t changes, and the main thread is with it as before.
Same(t) ==
    /\ sess'[t] = sess[t] /\ preserved'[t] = preserved[t] /\ pumps'[t] = pumps[t]
    /\ conn'[t] = conn[t] /\ tasks'[t] = tasks[t] /\ running' = running
    /\ produced'[t] = produced[t] /\ wire'[t] = wire[t] /\ finals'[t] = finals[t]
    /\ Busy(t)' <=> Busy(t)
    /\ Busy(t) => main' = main

\* A step of another session's threads cannot break the session's invariant.
LEMMA SameKeeps ==
    ASSUME NEW t \in Streams, SessionInv(t), Same(t)
    PROVE  SessionInv(t)'
<1>1. (Waiting(t) \/ Streaming(t) \/ Closing(t) \/ Ended(t))'
  <2>1. CASE Waiting(t)
    BY Zenon, <2>1 DEF Same, Waiting
  <2>2. CASE Streaming(t)
    BY Zenon, <2>2 DEF Same, Streaming, Sends
  <2>3. CASE Closing(t)
    BY Zenon, <2>3 DEF Same, Closing, Sends
  <2>4. CASE Ended(t)
    BY Zenon, <2>4 DEF Same, Ended
  <2> QED
    BY Zenon, <2>1, <2>2, <2>3, <2>4 DEF SessionInv
<1>2. Pumped(t)'
  BY DEF Same, SessionInv, Pumped
<1>3. Held(t)'
  BY Zenon DEF Same, SessionInv, Held, Pointers
<1> QED
  BY Zenon, <1>1, <1>2, <1>3 DEF Same, SessionInv
-----------------------------------------------------------------------------
(* Queues.                                                                 *)

Tasks == [do : {"deliver", "stash", "send", "close"}, chunk : 0..MaxChunks]

\* The tasks that the model queues.
LEMMA TaskTypes ==
    ASSUME StreamAssumption
    PROVE  /\ Task("deliver", 0) \in Tasks /\ Task("stash", 0) \in Tasks
           /\ Task("close", 0) \in Tasks
           /\ \A n \in 0..MaxChunks : Task("send", n) \in Tasks
BY DEF Task, Tasks, StreamAssumption

\* No chunks wait.
LEMMA NoSends == \A q, g : Sends(q, 0, g)
BY DEF Sends

\* Appending the next chunk keeps the queued chunks consecutive.
LEMMA SendsAppend ==
    ASSUME NEW q \in Seq(Tasks), NEW p \in Nat, Len(q) <= p,
           Sends(q, Len(q), p - Len(q)), NEW x \in Tasks, x = Task("send", p + 1)
    PROVE  /\ Len(Append(q, x)) = Len(q) + 1
           /\ Sends(Append(q, x), Len(q) + 1, p + 1 - (Len(q) + 1))
<1>1. /\ Len(q) \in Nat /\ Len(Append(q, x)) = Len(q) + 1
      /\ Append(q, x)[Len(q) + 1] = x
      /\ \A i \in 1..Len(q) : Append(q, x)[i] = q[i]
  OBVIOUS
<1>2. \A i \in 1..(Len(q) + 1) : i \in 1..Len(q) \/ i = Len(q) + 1
  BY <1>1
<1>3. p + 1 - (Len(q) + 1) = p - Len(q) /\ p - Len(q) + (Len(q) + 1) = p + 1
  BY <1>1
<1> QED
  BY Zenon, <1>1, <1>2, <1>3 DEF Sends

\* Running the first of the queued chunks leaves the others consecutive.
LEMMA SendsTail ==
    ASSUME NEW q \in Seq(Tasks), NEW n \in 1..Len(q), NEW g \in Nat, Sends(q, n, g)
    PROVE  /\ Head(q) = Task("send", g + 1)
           /\ Len(Tail(q)) = Len(q) - 1
           /\ Sends(Tail(q), n - 1, g + 1)
           /\ n < Len(q) => Tail(q)[Len(q) - 1] = q[Len(q)]
<1>1. /\ Len(q) \in Nat /\ Len(q) > 0 /\ Head(q) = q[1] /\ Len(Tail(q)) = Len(q) - 1
      /\ \A i \in 1..(Len(q) - 1) : Tail(q)[i] = q[i + 1]
  OBVIOUS
<1>2. \A i \in 1..(n - 1) : i \in 1..(Len(q) - 1) /\ i + 1 \in 1..n
                            /\ g + 1 + i = g + (i + 1)
  BY <1>1
<1>3. 1 \in 1..n
  BY <1>1
<1>4. n < Len(q) => Len(q) - 1 \in 1..(Len(q) - 1) /\ (Len(q) - 1) + 1 = Len(q)
  BY <1>1
<1> QED
  BY Zenon, <1>1, <1>2, <1>3, <1>4 DEF Sends

\* A sequence is empty when its length is 0.
LEMMA EmptyLength == ASSUME NEW q \in Seq(Tasks) PROVE q = <<>> <=> Len(q) = 0
OBVIOUS

\* A queue of one task is empty after it.
LEMMA TailOfOne == ASSUME NEW q \in Seq(Tasks), Len(q) = 1 PROVE Tail(q) = <<>>
<1>1. q # <<>>
  <2>1. Len(<<>>) = 0 /\ 0 # 1
    OBVIOUS
  <2> QED
    BY Zenon, <2>1
<1>2. Tail(q) \in Seq(Tasks) /\ Len(Tail(q)) = 0
  BY <1>1
<1> QED
  BY Zenon, <1>2, EmptyLength

\* The close goes behind the queued chunks.
LEMMA CloseAppend ==
    ASSUME NEW q \in Seq(Tasks), NEW p \in Nat, Len(q) <= p,
           Sends(q, Len(q), p - Len(q)), NEW x \in Tasks
    PROVE  LET c == Append(q, x)
           IN  /\ Len(c) = Len(q) + 1 /\ c[Len(c)] = x
               /\ Sends(c, Len(c) - 1, p - (Len(c) - 1))
<1>1. /\ Len(q) \in Nat /\ Len(Append(q, x)) = Len(q) + 1
      /\ Append(q, x)[Len(q) + 1] = x
      /\ \A i \in 1..Len(q) : Append(q, x)[i] = q[i]
  OBVIOUS
<1>2. Len(Append(q, x)) - 1 = Len(q)
  BY <1>1
<1> QED
  BY Zenon, <1>1, <1>2 DEF Sends

\* Concatenating one task appends it.
LEMMA ConcatOne ==
    ASSUME NEW q \in Seq(Tasks), NEW x \in Tasks
    PROVE  q \o <<x>> = Append(q, x)
OBVIOUS

\* What one generator call queues behind q.
LEMMA OutputQueued ==
    ASSUME NEW q \in Seq(Tasks), NEW m \in Nat, Task("close", 0) \in Tasks
    PROVE  /\ q \o Output(FALSE, FALSE, m) = q
           /\ q \o Output(FALSE, TRUE, m) = Append(q, Task("close", 0))
           /\ Task("send", m) \in Tasks =>
                /\ q \o Output(TRUE, FALSE, m) = Append(q, Task("send", m))
                /\ q \o Output(TRUE, TRUE, m)
                     = Append(Append(q, Task("send", m)), Task("close", 0))
<1> DEFINE n == Task("send", m)
           c == Task("close", 0)
<1>0. c \in Tasks
  BY Zenon
<1> HIDE DEF n, c
<1>1. \A x : <<x>> \o <<>> = <<x>> /\ <<>> \o <<x>> = <<x>>
  OBVIOUS
<1>2. <<>> \o <<>> = <<>> /\ q \o <<>> = q
  OBVIOUS
<1>3. /\ Output(FALSE, FALSE, m) = <<>> \o <<>> /\ Output(FALSE, TRUE, m) = <<>> \o <<c>>
      /\ Output(TRUE, FALSE, m) = <<n>> \o <<>> /\ Output(TRUE, TRUE, m) = <<n>> \o <<c>>
  BY Zenon DEF Output, n, c
<1>4. q \o Output(FALSE, FALSE, m) = q
  BY Zenon, <1>2, <1>3
<1>5. q \o Output(FALSE, TRUE, m) = Append(q, c)
  <2>1. Output(FALSE, TRUE, m) = <<c>>
    BY Zenon, <1>1, <1>3
  <2> QED
    BY Zenon, <1>0, <2>1, ConcatOne
<1>6. ASSUME n \in Tasks PROVE q \o Output(TRUE, FALSE, m) = Append(q, n)
  <2>1. Output(TRUE, FALSE, m) = <<n>>
    BY Zenon, <1>1, <1>3
  <2> QED
    BY Zenon, <1>6, <2>1, ConcatOne
<1>7. ASSUME n \in Tasks PROVE q \o Output(TRUE, TRUE, m) = Append(Append(q, n), c)
  <2>1. <<n>> \in Seq(Tasks) /\ <<c>> \in Seq(Tasks)
    BY <1>0, <1>7
  <2>2. q \o (<<n>> \o <<c>>) = (q \o <<n>>) \o <<c>>
    BY <2>1
  <2>3. q \o <<n>> = Append(q, n) /\ Append(q, n) \in Seq(Tasks)
    BY <1>7, ConcatOne
  <2>4. Append(q, n) \o <<c>> = Append(Append(q, n), c)
    BY Zenon, <1>0, <2>3, ConcatOne
  <2> QED
    BY Zenon, <1>3, <2>2, <2>3, <2>4
<1> QED
  BY Zenon, <1>4, <1>5, <1>6, <1>7 DEF n, c

\* The wire holds 1, 2, 3, ... and gets the next number.
LEMMA WireAppend ==
    ASSUME NEW w \in Seq(1..MaxChunks), w = [i \in 1..Len(w) |-> i]
    PROVE  LET v == Append(w, Len(w) + 1)
           IN  Len(v) = Len(w) + 1 /\ v = [i \in 1..Len(v) |-> i]
  OBVIOUS
-----------------------------------------------------------------------------
(* Sessions.                                                               *)

Sessions == [reg : {"none", "live", "gone"}, closing : BOOLEAN,
             cancelled : BOOLEAN, loop : BOOLEAN,
             stream : BOOLEAN, fn : BOOLEAN, st : BOOLEAN]

\* closeStreamFromMain() drops the session and both of its R objects.
LEMMA CloseStreamDrops ==
    ASSUME NEW e \in Sessions
    PROVE  LET d == CloseStream(e)
           IN  /\ d \in Sessions
               /\ d.reg = "gone" /\ d.closing /\ Pointers(d) = 0 /\ ~d.fn /\ ~d.st
               /\ d.stream = e.stream /\ d.loop = e.loop
<1> DEFINE r == ReleaseSEXPs(e)
           d == CloseStream(e)
<1>1. r \in Sessions /\ ~r.fn /\ ~r.st /\ r.stream = e.stream /\ r.loop = e.loop
  BY Zenon DEF ReleaseSEXPs, Sessions
<1>2. d = [r EXCEPT !.closing = TRUE, !.reg = "gone"]
  BY Zenon DEF CloseStream
<1> HIDE DEF r, d
<1>3. /\ d \in Sessions /\ d.reg = "gone" /\ d.closing
      /\ d.fn = r.fn /\ d.st = r.st /\ d.stream = r.stream /\ d.loop = r.loop
  BY Zenon, <1>1, <1>2 DEF Sessions
<1>4. Pointers(d) = 0
  BY <1>1, <1>3 DEF Pointers
<1> QED
  BY Zenon, <1>1, <1>3, <1>4 DEF d

\* What a session points to is one or two R objects.
LEMMA PointersNat == ASSUME NEW e \in Sessions PROVE Pointers(e) \in 0..2
BY DEF Sessions, Pointers

\* queueInLoop() on a loop that is known and alive queues the functions.
LEMMA QueueInLoopQueues ==
    ASSUME NEW s \in Streams, NEW fs, running, sess[s].loop, ~deadUse, QueueInLoop(s, fs)
    PROVE  tasks' = [tasks EXCEPT ![s] = @ \o fs] /\ deadUse' = FALSE
<1>1. tasks' = [tasks EXCEPT ![s] = @ \o fs]
  BY Zenon DEF QueueInLoop
<1>2. deadUse' = FALSE
  BY Zenon DEF QueueInLoop
<1> QED
  BY Zenon, <1>1, <1>2
-----------------------------------------------------------------------------
(* The steps, one lemma for each action.                                   *)

\* A step that concerns one session only.
LEMMA OneSession ==
    ASSUME StreamInv, NEW s \in Streams, TypeOK', ~deadUse', SessionInv(s)',
           \A t \in Streams \ {s} : Same(t)
    PROVE  StreamInv'
<1>1. \A t \in Streams \ {s} : SessionInv(t)'
  BY Zenon, SameKeeps DEF StreamInv
<1> QED
  BY Zenon, <1>1 DEF StreamInv

\* startStreamSession() registers a session with nothing generated.
LEMMA StartSessionStep ==
    ASSUME StreamAssumption, StreamInv, NEW s \in Streams, StartSession(s)
    PROVE  StreamInv'
<1> USE DEF StartSession, NoSession, netVars, logVars
<1>0. TypeOK /\ SessionInv(s)
  BY Zenon DEF StreamInv
<1>1. PICK hasState \in BOOLEAN :
        LET e == [NoSession EXCEPT !.reg = "live", !.fn = TRUE, !.st = hasState]
        IN  /\ sess' = [sess EXCEPT ![s] = e]
            /\ preserved' = [preserved EXCEPT ![s] = Pointers(e)]
  BY Zenon
<1>2. /\ sess'[s].reg = "live" /\ ~sess'[s].closing /\ ~sess'[s].stream
      /\ preserved'[s] = Pointers(sess'[s])
      /\ sess'[s] \in [reg : {"none", "live", "gone"}, closing : BOOLEAN,
                       cancelled : BOOLEAN, loop : BOOLEAN,
                       stream : BOOLEAN, fn : BOOLEAN, st : BOOLEAN]
      /\ preserved'[s] \in Nat
  <2> DEFINE e == [NoSession EXCEPT !.reg = "live", !.fn = TRUE, !.st = hasState]
  <2>1. /\ e.reg = "live" /\ ~e.closing /\ ~e.stream
        /\ e \in [reg : {"none", "live", "gone"}, closing : BOOLEAN,
                  cancelled : BOOLEAN, loop : BOOLEAN,
                  stream : BOOLEAN, fn : BOOLEAN, st : BOOLEAN]
    BY Zenon
  <2>2. sess' = [sess EXCEPT ![s] = e] /\ preserved' = [preserved EXCEPT ![s] = Pointers(e)]
    BY Zenon, <1>1
  <2> HIDE DEF e
  <2>3. Pointers(e) \in Nat
    BY DEF Pointers
  <2>4. sess'[s] = e /\ preserved'[s] = Pointers(e)
    BY Zenon, <1>0, <2>2 DEF TypeOK
  <2> QED
    BY Zenon, <2>1, <2>3, <2>4
<1>3. TypeOK'
  BY Zenon, <1>0, <1>1, <1>2 DEF TypeOK
<1>4. Waiting(s)'
  <2>1. Waiting(s)
    BY Zenon, <1>0 DEF SessionInv, Streaming, Closing, Ended
  <2>2. produced[s] = 0 /\ wire[s] = <<>> /\ tasks[s] = <<>>
    BY Zenon, <2>1 DEF Waiting
  <2> QED
    BY <1>2, <2>2 DEF Waiting
<1>5. Pumped(s)'
  BY Zenon, <1>0, <1>2 DEF SessionInv, Pumped, Busy, Idle, Waiting, Streaming, Closing, Ended, TypeOK
<1>6. Held(s)'
  BY Zenon, <1>0, <1>2 DEF Held
<1>7. SessionInv(s)'
  BY Zenon, <1>0, <1>4, <1>5, <1>6 DEF SessionInv
<1>8. \A t \in Streams \ {s} : Same(t)
  BY Zenon, <1>0, <1>1 DEF Same, TypeOK, Busy, Idle
<1> QED
  BY Zenon, <1>3, <1>7, <1>8, OneSession DEF StreamInv

\* respond() queues the delivery and schedules the first pump.
LEMMA RespondStep ==
    ASSUME StreamAssumption, StreamInv, NEW s \in Streams, Respond(s)
    PROVE  StreamInv'
<1> USE DEF Respond, netVars, logVars
<1>0. TypeOK /\ SessionInv(s)
  BY Zenon DEF StreamInv
<1>1. Busy(s) /\ main.at = "respond" /\ ~Busy(s)'
  BY Zenon DEF Busy, Idle
<1>2. /\ sess[s].reg = "live" /\ running /\ pumps[s] = 0 /\ ~sess[s].stream
      /\ tasks[s] = <<>> /\ Waiting(s) /\ ~(finals[s] > 0)
  BY Zenon, <1>0, <1>1 DEF SessionInv, Pumped, Streaming, Closing, Ended, TypeOK
<1>3. /\ tasks'[s] \in {<<>>, <<Task("deliver", 0)>>} /\ pumps'[s] = 1
      /\ \A t \in Streams \ {s} : tasks'[t] = tasks[t] /\ pumps'[t] = pumps[t]
  BY <1>0, <1>2 DEF TypeOK
<1>4. Task("deliver", 0) \in Tasks
  BY DEF Task, Tasks, StreamAssumption
<1>5. tasks' \in [Streams -> Seq(Tasks)]
  <2>1. tasks \in [Streams -> Seq(Tasks)]
    BY Zenon, <1>0 DEF TypeOK, Tasks
  <2>2. Append(tasks[s], Task("deliver", 0)) \in Seq(Tasks)
    BY <1>4, <2>1
  <2> QED
    BY Zenon, <2>1, <2>2
<1>6. TypeOK'
  <2>1. main' \in {Idle} /\ pumps' \in [Streams -> Nat]
    BY <1>0 DEF TypeOK
  <2> QED
    BY Zenon, <1>0, <1>5, <2>1 DEF TypeOK, Tasks
<1>7. Waiting(s)'
  BY <1>2, <1>3 DEF Waiting, Task
<1>8. Pumped(s)' /\ Held(s)'
  BY <1>0, <1>1, <1>2, <1>3 DEF SessionInv, Pumped, Held, Pointers
<1>9. SessionInv(s)'
  BY Zenon, <1>0, <1>7, <1>8 DEF SessionInv
<1>10. \A t \in Streams \ {s} : Same(t)
  BY Zenon, <1>0, <1>3 DEF Same, Busy, Idle
<1> QED
  BY Zenon, <1>6, <1>9, <1>10, OneSession DEF StreamInv

\* The pump of a session that has ended is the last one.
LEMMA PumpNothingStep ==
    ASSUME StreamAssumption, StreamInv, NEW s \in Streams, PumpNothing(s)
    PROVE  StreamInv'
<1> USE DEF PumpNothing, netVars, logVars
<1>0. TypeOK /\ SessionInv(s)
  BY Zenon DEF StreamInv
<1>1. sess[s].reg = "gone" /\ pumps[s] = 1 /\ pumps'[s] = 0
  BY <1>0 DEF SessionInv, Pumped, Held, TypeOK
<1>2. TypeOK'
  <2>1. pumps' \in [Streams -> Nat]
    BY <1>0, <1>1 DEF TypeOK
  <2> QED
    BY Zenon, <1>0, <2>1 DEF TypeOK
<1>3. Pumped(s)' /\ Held(s)'
  BY <1>0, <1>1 DEF SessionInv, Pumped, Held, Pointers, Busy, Idle
<1>4. (Waiting(s) \/ Streaming(s) \/ Closing(s) \/ Ended(s))'
  <2>1. Closing(s) \/ Ended(s)
    BY Zenon, <1>0, <1>1 DEF SessionInv, Waiting, Streaming
  <2> QED
    BY Zenon, <2>1 DEF Closing, Ended, Sends
<1>5. SessionInv(s)'
  BY Zenon, <1>0, <1>3, <1>4 DEF SessionInv
<1>6. \A t \in Streams \ {s} : Same(t)
  BY Zenon, <1>0 DEF Same, Busy, TypeOK
<1> QED
  BY Zenon, <1>2, <1>5, <1>6, OneSession DEF StreamInv

\* The generator is called for a session whose stream was handed over; a call
\* with cancelled = TRUE is the first of its kind.
LEMMA CallGeneratorStep ==
    ASSUME StreamAssumption, StreamInv, NEW s \in Streams, CallGenerator(s)
    PROVE  StreamInv'
<1> USE DEF CallGenerator, netVars, logVars
<1>0. TypeOK /\ SessionInv(s)
  BY Zenon DEF StreamInv
<1>1. Streaming(s) /\ ~Busy(s) /\ ~(finals[s] > 0) /\ pumps[s] = 1 /\ pumps'[s] = 0
  BY <1>0 DEF SessionInv, Waiting, Closing, Ended, Pumped, Busy, Idle, TypeOK
<1>2. /\ main' = [at |-> "call", id |-> s, cancelled |-> sess[s].cancelled]
      /\ sess[s].cancelled \in BOOLEAN
      /\ finals' \in [Streams -> Nat] /\ (finals'[s] > 0 => sess[s].cancelled)
      /\ \A t \in Streams \ {s} : finals'[t] = finals[t]
  BY <1>0, <1>1 DEF TypeOK
<1>3. main' \in [at : {"call"}, id : Streams, cancelled : BOOLEAN]
  BY <1>2
<1>4. TypeOK'
  <2>1. pumps' \in [Streams -> Nat]
    BY SMTT(30), <1>0, <1>1 DEF TypeOK
  <2> QED
    BY Zenon, <1>0, <1>2, <1>3, <2>1 DEF TypeOK
<1>6. Pumped(s)' /\ Held(s)'
  BY SMTT(30), <1>0, <1>1, <1>2 DEF SessionInv, Streaming, Pumped, Held, Pointers, Busy
<1>7. Streaming(s)'
  BY Zenon, <1>1 DEF Streaming, Sends
<1>8. SessionInv(s)'
  BY Zenon, <1>0, <1>6, <1>7 DEF SessionInv
<1>9. \A t \in Streams \ {s} : Same(t)
  BY <1>0, <1>2 DEF Same, Busy, Idle, TypeOK
<1> QED
  BY Zenon, <1>4, <1>8, <1>9, OneSession DEF StreamInv

\* A failed call ends the session: the close is queued, the R objects go.
LEMMA GeneratorFailsStep ==
    ASSUME StreamAssumption, StreamInv, NEW s \in Streams, GeneratorFails(s)
    PROVE  StreamInv'
<1> USE DEF GeneratorFails, netVars, logVars
<1> DEFINE q == tasks[s]
           c == Task("close", 0)
<1>0. TypeOK /\ SessionInv(s) /\ ~deadUse
  BY Zenon DEF StreamInv
<1>1. Busy(s) /\ main.at = "call" /\ ~Busy(s)' /\ main' = Idle
  BY Zenon DEF Busy, Idle
<1>2. Streaming(s) /\ running /\ pumps[s] = 0
  BY Zenon, <1>0, <1>1 DEF SessionInv, Pumped, Waiting, Closing, Ended
<1>3. c \in Tasks /\ c = Task("close", 0) /\ q \in Seq(Tasks)
  BY Zenon, <1>0, TaskTypes DEF Tasks, TypeOK
<1> HIDE DEF c
<1>4. tasks' = [tasks EXCEPT ![s] = Append(q, c)] /\ deadUse' = FALSE
  <2>1. q \o <<c>> = Append(q, c)
    BY Zenon, <1>3, ConcatOne
  <2>2. QueueInLoop(s, <<c>>)
    BY Zenon, <1>3
  <2>3. running /\ sess[s].loop /\ ~deadUse
    BY Zenon, <1>0, <1>2 DEF Streaming
  <2>4. tasks' = [tasks EXCEPT ![s] = @ \o <<c>>] /\ deadUse' = FALSE
    BY Zenon, <2>2, <2>3, QueueInLoopQueues
  <2> QED
    BY Zenon, <2>1, <2>4
<1> DEFINE e == CloseStream(sess[s])
<1>5. /\ e \in Sessions /\ Pointers(e) = 0
      /\ e.reg = "gone" /\ e.closing /\ ~e.fn /\ ~e.st /\ e.stream
  <2>1. sess[s] \in Sessions /\ sess[s].stream
    BY Zenon, <1>0, <1>2 DEF TypeOK, Sessions, Streaming
  <2> QED
    BY Zenon, <2>1, CloseStreamDrops
<1>6. preserved[s] - Pointers(sess[s]) = 0
  BY <1>0 DEF SessionInv, Held, TypeOK
<1>7. /\ sess'[s] = e /\ preserved'[s] = 0 /\ tasks'[s] = Append(q, c)
      /\ Append(q, c) \in Seq(Tasks)
      /\ \A t \in Streams \ {s} : /\ sess'[t] = sess[t] /\ preserved'[t] = preserved[t]
                                  /\ tasks'[t] = tasks[t]
  BY <1>0, <1>3, <1>4, <1>6 DEF TypeOK
<1> HIDE DEF e
<1>8. TypeOK'
  <2>1. sess' \in [Streams -> Sessions]
    BY Zenon, <1>0, <1>5 DEF TypeOK, Sessions, e
  <2>2. preserved' \in [Streams -> Nat]
    BY <1>0, <1>6 DEF TypeOK
  <2>3. tasks' \in [Streams -> Seq(Tasks)]
    BY Zenon, <1>0, <1>4, <1>7 DEF TypeOK, Tasks
  <2> QED
    BY Zenon, <1>0, <1>1, <1>4, <2>1, <2>2, <2>3 DEF TypeOK, Tasks, Sessions
<1>9. Closing(s)'
  <2>1. produced[s] \in Nat /\ Len(q) \in Nat
    BY <1>0, <1>3 DEF TypeOK
  <2>2. LET d == Append(q, c)
        IN  /\ Len(d) = Len(q) + 1 /\ d[Len(d)] = c
            /\ Sends(d, Len(d) - 1, produced[s] - (Len(d) - 1))
    BY Zenon, <1>2, <1>3, <2>1, CloseAppend DEF Streaming
  <2> QED
    BY <1>2, <1>3, <1>5, <1>7, <2>1, <2>2 DEF Closing, Streaming
<1>10. Pumped(s)' /\ Held(s)'
  BY Zenon, <1>0, <1>1, <1>2, <1>5, <1>6, <1>7 DEF SessionInv, Pumped, Held
<1>11. SessionInv(s)'
  BY Zenon, <1>0, <1>9, <1>10 DEF SessionInv
<1>12. \A t \in Streams \ {s} : Same(t)
  BY <1>1, <1>7 DEF Same, Busy, Idle
<1> QED
  BY Zenon, <1>0, <1>4, <1>8, <1>11, <1>12, OneSession DEF StreamInv

\* A successful call queues its chunk, if any, and then either the close or
\* the next pump.
LEMMA GeneratorReturnsStep ==
    ASSUME StreamAssumption, StreamInv, NEW s \in Streams, NEW chunk \in BOOLEAN,
           NEW state \in BOOLEAN, NEW done \in BOOLEAN,
           GeneratorReturns(s, chunk, state, done)
    PROVE  StreamInv'
<1> DEFINE q == tasks[s]
           p == produced[s]
           c == Task("close", 0)
           n == Task("send", p + 1)
           e == [sess[s] EXCEPT !.st = @ \/ state]
           refs == preserved[s] + IF state THEN StateRefs(sess[s]) ELSE 0
           send == chunk /\ ~main.cancelled
           close == MustClose(main.cancelled, done)
           p1 == IF send THEN p + 1 ELSE p
           q1 == IF send THEN Append(q, n) ELSE q
           q2 == IF close THEN Append(q1, c) ELSE q1
           e2 == IF close THEN CloseStream(e) ELSE e
<1>0. TypeOK /\ SessionInv(s) /\ ~deadUse
  BY Zenon DEF StreamInv
<1>1. /\ Busy(s) /\ main.at = "call" /\ main' = Idle
      /\ chunk => p < MaxChunks
      /\ produced' = [produced EXCEPT ![s] = p1]
      /\ sess' = [sess EXCEPT ![s] = e2]
      /\ preserved' = [preserved EXCEPT ![s] = IF close THEN refs - Pointers(e) ELSE refs]
      /\ pumps' = [pumps EXCEPT ![s] = IF close THEN @ ELSE @ + 1]
      /\ QueueInLoop(s, Output(send, close, p + 1))
      /\ UNCHANGED <<running, netVars, wire, finals>>
  BY Zenon DEF GeneratorReturns, Busy
<1>2. /\ Streaming(s) /\ running /\ pumps[s] = 0
      /\ finals[s] > 0 => main.cancelled
  BY Zenon, <1>0, <1>1 DEF SessionInv, Pumped, Waiting, Closing, Ended
<1>3. /\ c \in Tasks /\ q \in Seq(Tasks) /\ p \in 0..MaxChunks /\ MaxChunks \in Nat
      /\ sess[s] \in Sessions /\ main.cancelled \in BOOLEAN
  <2>1. main.cancelled \in BOOLEAN
    BY <1>0, <1>1 DEF TypeOK, Idle
  <2> QED
    BY Zenon, <1>0, <2>1, TaskTypes DEF TypeOK, Sessions, Tasks, StreamAssumption
<1>4. send => p + 1 \in 0..MaxChunks /\ n \in Tasks
  BY <1>1, <1>3, TaskTypes
<1>5. q \o Output(send, close, p + 1) = q2
  <2>1. send \in BOOLEAN /\ close \in BOOLEAN
    BY Zenon, <1>3 DEF MustClose
  <2>2. p + 1 \in Nat
    BY <1>3
  <2>7. /\ q \o Output(FALSE, FALSE, p + 1) = q
        /\ q \o Output(FALSE, TRUE, p + 1) = Append(q, c)
        /\ n \in Tasks => /\ q \o Output(TRUE, FALSE, p + 1) = Append(q, n)
                          /\ q \o Output(TRUE, TRUE, p + 1) = Append(Append(q, n), c)
    BY Zenon, <1>3, <2>2, OutputQueued
  <2> HIDE DEF send, close, q, p, c, n
  <2>3. CASE send = TRUE /\ close = TRUE
    BY Zenon, <1>4, <2>3, <2>7
  <2>4. CASE send = TRUE /\ close = FALSE
    BY Zenon, <1>4, <2>4, <2>7
  <2>5. CASE send = FALSE /\ close = TRUE
    BY Zenon, <2>5, <2>7
  <2>6. CASE send = FALSE /\ close = FALSE
    BY Zenon, <2>6, <2>7
  <2> QED
    BY Zenon, <2>1, <2>3, <2>4, <2>5, <2>6
<1>6. tasks' = [tasks EXCEPT ![s] = q2] /\ deadUse' = FALSE
  <2>1. running /\ sess[s].loop /\ ~deadUse
    BY Zenon, <1>0, <1>2 DEF Streaming
  <2>2. tasks' = [tasks EXCEPT ![s] = @ \o Output(send, close, p + 1)] /\ deadUse' = FALSE
    BY Zenon, <1>1, <2>1, QueueInLoopQueues
  <2> QED
    BY Zenon, <1>5, <2>2
<1>7. /\ q1 \in Seq(Tasks) /\ p1 \in 0..MaxChunks
      /\ Len(q1) <= p1 /\ Sends(q1, Len(q1), p1 - Len(q1))
      /\ conn[s] = "open" => Len(wire[s]) = p1 - Len(q1)
  <2>1. Len(q) <= p /\ Sends(q, Len(q), p - Len(q)) /\ Len(q) \in Nat
        /\ (conn[s] = "open" => Len(wire[s]) = p - Len(q))
    BY <1>2, <1>3 DEF Streaming
  <2>2. CASE send
    <3>1. /\ Len(Append(q, n)) = Len(q) + 1
          /\ Sends(Append(q, n), Len(q) + 1, p + 1 - (Len(q) + 1))
      BY SMTT(30), <1>3, <1>4, <2>1, <2>2, SendsAppend
    <3>2. Append(q, n) \in Seq(Tasks)
      BY <1>3, <1>4, <2>2
    <3>3. p + 1 - (Len(q) + 1) = p - Len(q) /\ Len(q) + 1 <= p + 1
      BY <1>3, <2>1
    <3>4. q1 = Append(q, n) /\ p1 = p + 1
      BY Zenon, <2>2
    <3> HIDE DEF q1, p1, send, q, p, n
    <3>5. q1 \in Seq(Tasks) /\ p1 \in 0..MaxChunks /\ Len(q1) = Len(q) + 1
      BY Zenon, <1>4, <2>2, <3>1, <3>2, <3>4
    <3>6. Len(q1) <= p1 /\ p1 - Len(q1) = p - Len(q)
      BY <1>3, <2>1, <3>3, <3>4, <3>5
    <3>7. Sends(q1, Len(q1), p1 - Len(q1))
      BY <1>3, <2>1, <3>1, <3>4, <3>5
    <3> QED
      BY Zenon, <2>1, <3>5, <3>6, <3>7
  <2>3. CASE ~send
    BY Zenon, <1>3, <2>1, <2>3
  <2> QED
    BY Zenon, <2>2, <2>3
<1>8. /\ e \in Sessions /\ e.reg = "live" /\ e.stream /\ e.loop /\ ~e.closing
      /\ refs = Pointers(e)
  <2>1. sess[s].reg = "live" /\ sess[s].stream /\ sess[s].loop /\ ~sess[s].closing
    BY Zenon, <1>0, <1>2 DEF Streaming, SessionInv, Held
  <2>2. preserved[s] = Pointers(sess[s])
    BY Zenon, <1>0 DEF SessionInv, Held
  <2>3. /\ e \in Sessions /\ e.reg = "live" /\ e.stream /\ e.loop /\ ~e.closing
        /\ e.fn = sess[s].fn /\ e.st = (sess[s].st \/ state)
    BY Zenon, <1>3, <2>1 DEF Sessions
  <2> HIDE DEF e
  <2>4. refs = Pointers(e)
    BY <1>3, <2>2, <2>3 DEF Pointers, StateRefs, Sessions
  <2> QED
    BY Zenon, <2>3, <2>4
<1>9. /\ sess'[s] = e2 /\ tasks'[s] = q2 /\ produced'[s] = p1
      /\ preserved'[s] = Pointers(e2)
      /\ pumps'[s] = (IF close THEN 0 ELSE 1)
      /\ e2 \in Sessions /\ q2 \in Seq(Tasks) /\ Pointers(e2) \in Nat
  <2>1. e2 \in Sessions /\ Pointers(e2) = (IF close THEN 0 ELSE Pointers(e))
    BY Zenon, <1>8, CloseStreamDrops
  <2>2. q2 \in Seq(Tasks)
    BY SMTT(30), <1>3, <1>7
  <2>3. Pointers(e) \in Nat
    BY <1>8, PointersNat
  <2> HIDE DEF e, e2, q1, q2, p1, refs, close, send
  <2>4. sess'[s] = e2 /\ tasks'[s] = q2 /\ produced'[s] = p1
    BY Zenon, <1>0, <1>1, <1>6 DEF TypeOK
  <2>5. preserved'[s] = Pointers(e2)
    BY SMTT(30), <1>0, <1>1, <1>8, <2>1, <2>3 DEF TypeOK
  <2>6. pumps'[s] = (IF close THEN 0 ELSE 1)
    BY SMTT(30), <1>0, <1>1, <1>2 DEF TypeOK
  <2> QED
    BY <2>1, <2>2, <2>3, <2>4, <2>5, <2>6
<1>10. Streaming(s)' \/ Closing(s)'
  <2>1. ASSUME close PROVE Closing(s)'
    <3>1. LET d == Append(q1, c)
          IN  /\ Len(d) = Len(q1) + 1 /\ d[Len(d)] = c
              /\ Sends(d, Len(d) - 1, p1 - (Len(d) - 1))
      <4>1. p1 \in Nat
        BY <1>3, <1>7
      <4> HIDE DEF q1, p1, c
      <4> QED
        BY Zenon, <1>3, <1>7, <4>1, CloseAppend
    <3>2. e2.reg = "gone" /\ e2.stream
      BY Zenon, <1>8, <2>1, CloseStreamDrops
    <3>3. q2 = Append(q1, c)
      BY Zenon, <2>1
    <3>4. Len(q1) \in Nat /\ conn'[s] = conn[s] /\ wire'[s] = wire[s]
      BY <1>1, <1>7 DEF netVars
    <3>5. /\ Len(q2) = Len(q1) + 1 /\ q2[Len(q2)] = c
          /\ Sends(q2, Len(q2) - 1, p1 - (Len(q2) - 1))
      BY Zenon, <3>1, <3>3
    <3> HIDE DEF e2, q1, q2, p1
    <3>6. Len(q2) > 0 /\ Len(q2) - 1 = Len(q1)
      BY <3>4, <3>5
    <3> QED
      BY Zenon, <1>7, <1>9, <3>2, <3>4, <3>5, <3>6 DEF Closing
  <2>2. ASSUME ~close PROVE Streaming(s)'
    <3>1. e2 = e /\ q2 = q1
      BY Zenon, <2>2
    <3>2. conn'[s] = conn[s] /\ wire'[s] = wire[s]
      BY Zenon, <1>1 DEF netVars
    <3> HIDE DEF e, e2, q1, q2, p1
    <3> QED
      BY Zenon, <1>7, <1>8, <1>9, <3>1, <3>2 DEF Streaming
  <2> QED
    BY Zenon, <2>1, <2>2
<1>11. ~Busy(s)'
  BY Zenon, <1>1 DEF Busy, Idle
<1>12. /\ close => e2.reg = "gone" /\ e2.closing /\ ~e2.fn /\ ~e2.st
       /\ ~close => e2.reg = "live" /\ ~e2.closing /\ ~main.cancelled
  <2>1. ASSUME close PROVE e2.reg = "gone" /\ e2.closing /\ ~e2.fn /\ ~e2.st
    BY Zenon, <1>8, <2>1, CloseStreamDrops
  <2>2. ASSUME ~close PROVE e2.reg = "live" /\ ~e2.closing /\ ~main.cancelled
    BY Zenon, <1>8, <2>2 DEF MustClose
  <2> QED
    BY Zenon, <2>1, <2>2
<1> HIDE DEF e, e2, q1, q2, p1, refs, close, send
<1>13. Pumped(s)' /\ Held(s)'
  BY <1>1, <1>2, <1>9, <1>11, <1>12 DEF Pumped, Held
<1>14. SessionInv(s)'
  BY Zenon, <1>0, <1>1, <1>10, <1>13 DEF SessionInv, netVars
<1>15. TypeOK'
  <2>1. sess' \in [Streams -> Sessions] /\ tasks' \in [Streams -> Seq(Tasks)]
    BY Zenon, <1>0, <1>1, <1>6, <1>9 DEF TypeOK, Sessions, Tasks
  <2>2. produced' \in [Streams -> 0..MaxChunks] /\ pumps' \in [Streams -> Nat]
    <3>1. pumps[s] + 1 \in Nat /\ pumps[s] \in Nat
      BY <1>0 DEF TypeOK
    <3>2. pumps' \in [Streams -> Nat]
      BY Zenon, <1>0, <1>1, <3>1 DEF TypeOK
    <3> QED
      BY Zenon, <1>0, <1>1, <1>7, <3>2 DEF TypeOK
  <2>3. preserved' \in [Streams -> Nat]
    BY Zenon, <1>0, <1>1, <1>9 DEF TypeOK
  <2> QED
    BY Zenon, <1>0, <1>1, <1>6, <2>1, <2>2, <2>3 DEF TypeOK, Sessions, Tasks, netVars
<1>16. \A t \in Streams \ {s} : Same(t)
  BY Zenon, <1>0, <1>1, <1>6 DEF Same, Busy, Idle, TypeOK, netVars
<1> QED
  BY Zenon, <1>6, <1>14, <1>15, <1>16, OneSession

\* The task at the head of the queue tells in which phase the session is.
LEMMA HeadTells ==
    ASSUME TypeOK, NEW s \in Streams, SessionInv(s), tasks[s] # <<>>
    PROVE  /\ Head(tasks[s]).do = "deliver" => Waiting(s) /\ tasks[s] = <<Task("deliver", 0)>>
           /\ Head(tasks[s]).do = "stash" => Waiting(s) /\ tasks[s] = <<Task("stash", 0)>>
           /\ Head(tasks[s]).do = "send" => Streaming(s) \/ (Closing(s) /\ Len(tasks[s]) > 1)
           /\ Head(tasks[s]).do = "close" => Closing(s) /\ Len(tasks[s]) = 1
<1> DEFINE q == tasks[s]
<1>1. q \in Seq(Tasks) /\ Len(q) \in Nat /\ Len(q) > 0 /\ Head(q) = q[1]
  <2>1. q \in Seq(Tasks) /\ q # <<>>
    BY Zenon DEF TypeOK, Tasks
  <2> HIDE DEF q
  <2> QED
    BY <2>1
<1>2. ASSUME Streaming(s) PROVE Head(q).do = "send"
  <2>1. 1 \in 1..Len(q)
    BY <1>1
  <2>2. q[1] = Task("send", produced[s] - Len(q) + 1)
    BY Zenon, <1>2, <2>1 DEF Streaming, Sends
  <2> QED
    BY <1>1, <2>2 DEF Task
<1>3. ASSUME Closing(s), Len(q) > 1 PROVE Head(q).do = "send"
  <2>1. 1 \in 1..(Len(q) - 1)
    BY <1>1, <1>3
  <2>2. q[1] = Task("send", produced[s] - (Len(q) - 1) + 1)
    BY Zenon, <1>3, <2>1 DEF Closing, Sends
  <2> QED
    BY <1>1, <2>2 DEF Task
<1>4. ASSUME Closing(s), Len(q) = 1 PROVE Head(q).do = "close"
  BY <1>1, <1>4 DEF Closing, Task
<1>5. ASSUME Waiting(s)
      PROVE  \/ q = <<Task("deliver", 0)>> /\ Head(q).do = "deliver"
             \/ q = <<Task("stash", 0)>> /\ Head(q).do = "stash"
  BY <1>5 DEF Waiting, Task
<1>6. ~Ended(s)
  BY Zenon DEF Ended
<1> HIDE DEF q
<1>7. Len(q) > 1 \/ Len(q) = 1
  BY <1>1
<1>8. Waiting(s) \/ Streaming(s) \/ Closing(s)
  BY Zenon, <1>6 DEF SessionInv
<1> QED
  BY Zenon, <1>2, <1>3, <1>4, <1>5, <1>7, <1>8 DEF q

\* Drogon hands the stream over: the callback knows the loop first.
LEMMA DeliverStep ==
    ASSUME StreamAssumption, StreamInv, NEW s \in Streams, Deliver(s)
    PROVE  StreamInv'
<1> USE DEF Deliver, netVars, logVars
<1>0. TypeOK /\ SessionInv(s)
  BY Zenon DEF StreamInv
<1>1. Waiting(s) /\ tasks[s] = <<Task("deliver", 0)>> /\ sess[s] \in Sessions
  BY Zenon, <1>0, HeadTells DEF NextTask, TypeOK, Sessions
<1>2. ~Busy(s)
  BY <1>0, <1>1 DEF SessionInv, Pumped, Waiting, TypeOK, Busy, Idle
<1>3. Tail(tasks[s]) = <<>> /\ <<Task("stash", 0)>> \o Tail(tasks[s]) = <<Task("stash", 0)>>
  BY <1>1
<1> DEFINE d == [sess[s] EXCEPT !.loop = TRUE]
<1>4. /\ d \in Sessions /\ d.loop /\ d.reg = sess[s].reg /\ d.stream = sess[s].stream
      /\ d.closing = sess[s].closing /\ d.fn = sess[s].fn /\ d.st = sess[s].st
  BY Zenon, <1>1 DEF Sessions
<1>5. \/ sess' = [sess EXCEPT ![s] = d] /\ tasks' = [tasks EXCEPT ![s] = <<Task("stash", 0)>>]
      \/ sess' = sess /\ tasks' = [tasks EXCEPT ![s] = <<>>]
  BY Zenon, <1>3
<1> HIDE DEF d
<1>6. /\ \/ sess'[s] = d /\ tasks'[s] = <<Task("stash", 0)>>
         \/ sess'[s] = sess[s] /\ tasks'[s] = <<>>
      /\ \A t \in Streams \ {s} : sess'[t] = sess[t] /\ tasks'[t] = tasks[t]
  BY Zenon, <1>0, <1>5 DEF TypeOK
<1>7. TypeOK'
  <2>1. sess' \in [Streams -> Sessions]
    <3>1. sess \in [Streams -> Sessions]
      BY Zenon, <1>0 DEF TypeOK, Sessions
    <3> QED
      BY Zenon, <1>4, <1>5, <3>1
  <2>2. <<Task("stash", 0)>> \in Seq(Tasks) /\ <<>> \in Seq(Tasks)
    BY TaskTypes
  <2>3. tasks' \in [Streams -> Seq(Tasks)]
    BY Zenon, <1>0, <1>5, <2>2 DEF TypeOK, Tasks
  <2> QED
    BY Zenon, <1>0, <2>1, <2>3 DEF TypeOK, Sessions, Tasks
<1>8. Waiting(s)'
  <2>1. /\ sess[s].reg = "live" /\ ~sess[s].stream /\ produced[s] = 0 /\ wire[s] = <<>>
        /\ produced'[s] = 0 /\ wire'[s] = <<>>
    BY <1>1 DEF Waiting
  <2> QED
    BY <1>4, <1>6, <2>1 DEF Waiting, Task
<1>9. Pumped(s)' /\ Held(s)'
  BY <1>0, <1>2, <1>4, <1>6 DEF SessionInv, Pumped, Held, Pointers, Busy
<1>10. SessionInv(s)'
  BY Zenon, <1>0, <1>8, <1>9 DEF SessionInv
<1>11. \A t \in Streams \ {s} : Same(t)
  BY Zenon, <1>6 DEF Same, Busy
<1> QED
  BY Zenon, <1>7, <1>10, <1>11, OneSession DEF StreamInv

\* The callback stores the stream: the generator may be called from now on.
LEMMA StashStep ==
    ASSUME StreamAssumption, StreamInv, NEW s \in Streams, Stash(s)
    PROVE  StreamInv'
<1>0. /\ TypeOK /\ SessionInv(s) /\ NextTask(s, "stash")
      /\ sess' = [sess EXCEPT ![s].stream = TRUE]
      /\ tasks' = [tasks EXCEPT ![s] = Tail(@)]
      /\ UNCHANGED <<running, preserved, pumps, netVars, main, logVars>>
  BY Zenon DEF StreamInv, Stash
<1> USE DEF netVars, logVars
<1>1. Waiting(s) /\ tasks[s] = <<Task("stash", 0)>> /\ sess[s] \in Sessions
  BY Zenon, <1>0, HeadTells DEF NextTask, TypeOK, Sessions
<1>2. ~Busy(s)
  BY <1>0, <1>1 DEF SessionInv, Pumped, Waiting, TypeOK, Busy, Idle
<1>3. Tail(tasks[s]) = <<>>
  BY <1>1
<1> DEFINE d == [sess[s] EXCEPT !.stream = TRUE]
<1>4. /\ d \in Sessions /\ d.loop = sess[s].loop /\ d.reg = sess[s].reg /\ d.stream
      /\ d.closing = sess[s].closing /\ d.fn = sess[s].fn /\ d.st = sess[s].st
  BY Zenon, <1>1 DEF Sessions
<1>5. sess' = [sess EXCEPT ![s] = d] /\ tasks' = [tasks EXCEPT ![s] = <<>>]
  BY Zenon, <1>0, <1>3
<1> HIDE DEF d
<1>6. /\ sess'[s] = d /\ tasks'[s] = <<>>
      /\ \A t \in Streams \ {s} : sess'[t] = sess[t] /\ tasks'[t] = tasks[t]
  BY Zenon, <1>0, <1>5 DEF TypeOK
<1>7. TypeOK'
  <2>1. sess' \in [Streams -> Sessions]
    <3>1. sess \in [Streams -> Sessions]
      BY Zenon, <1>0 DEF TypeOK, Sessions
    <3> QED
      BY Zenon, <1>4, <1>5, <3>1
  <2>2. tasks \in [Streams -> Seq(Tasks)]
    BY Zenon, <1>0 DEF TypeOK, Tasks
  <2>3. tasks' \in [Streams -> Seq(Tasks)]
    BY <1>5, <2>2
  <2> QED
    BY Zenon, <1>0, <2>1, <2>3 DEF TypeOK, Sessions, Tasks
<1>8. Streaming(s)'
  <2>1. /\ sess[s].reg = "live" /\ sess[s].loop
        /\ produced'[s] = 0 /\ wire'[s] = <<>> /\ tasks'[s] = <<>>
    BY <1>0, <1>1, <1>6 DEF Waiting, Task
  <2>2. Len(tasks'[s]) = 0 /\ Len(wire'[s]) = 0 /\ 0 - 0 = 0 /\ 0 <= 0
    BY <2>1
  <2> QED
    BY Zenon, <1>4, <1>6, <2>1, <2>2, NoSends DEF Streaming
<1>9. Pumped(s)' /\ Held(s)'
  BY Zenon, <1>0, <1>2, <1>4, <1>6 DEF SessionInv, Pumped, Held, Pointers, Busy
<1>10. SessionInv(s)'
  BY Zenon, <1>0, <1>8, <1>9 DEF SessionInv
<1>11. \A t \in Streams \ {s} : Same(t)
  BY Zenon, <1>0, <1>6 DEF Same, Busy
<1> QED
  BY Zenon, <1>0, <1>7, <1>10, <1>11, OneSession DEF StreamInv

\* A queued chunk reaches the wire of an open connection; a failed send only
\* sets the flag.
LEMMA SendStep ==
    ASSUME StreamAssumption, StreamInv, NEW s \in Streams, Send(s)
    PROVE  StreamInv'
<1> DEFINE q == tasks[s]
           w == wire[s]
           p == produced[s]
           k == IF Streaming(s) THEN Len(q) ELSE Len(q) - 1
<1>0. /\ TypeOK /\ SessionInv(s) /\ NextTask(s, "send")
      /\ tasks' = [tasks EXCEPT ![s] = Tail(@)]
      /\ IF sess[s].stream /\ conn[s] = "open"
         THEN wire' = [wire EXCEPT ![s] = Append(@, Head(tasks[s]).chunk)] /\ UNCHANGED sess
         ELSE /\ sess' = IF sess[s].stream THEN [sess EXCEPT ![s].cancelled = TRUE] ELSE sess
              /\ UNCHANGED wire
      /\ UNCHANGED <<running, preserved, pumps, netVars, main, produced, finals, deadUse>>
  BY Zenon DEF StreamInv, Send
<1> USE DEF netVars
<1>1. /\ q \in Seq(Tasks) /\ q # <<>> /\ w \in Seq(1..MaxChunks) /\ p \in 0..MaxChunks
      /\ Len(q) \in Nat /\ MaxChunks \in Nat /\ sess[s] \in Sessions
  <2>1. /\ q \in Seq(Tasks) /\ w \in Seq(1..MaxChunks) /\ p \in 0..MaxChunks
        /\ sess[s] \in Sessions
    BY Zenon, <1>0 DEF TypeOK, Tasks, Sessions
  <2>2. q # <<>> /\ MaxChunks \in Nat
    BY Zenon, <1>0 DEF NextTask, StreamAssumption
  <2> HIDE DEF q
  <2> QED
    BY <2>1, <2>2
<1>2. Streaming(s) \/ (Closing(s) /\ Len(q) > 1)
  BY Zenon, <1>0, HeadTells DEF NextTask
<1>3. sess[s].stream
  BY Zenon, <1>2 DEF Streaming, Closing
<1>4. /\ k \in 1..Len(q) /\ k <= p /\ Sends(q, k, p - k)
      /\ conn[s] = "open" => Len(w) = p - k
  <2>1. CASE Streaming(s)
    <3>1. k = Len(q) /\ Len(q) > 0
      BY <1>1, <2>1
    <3> QED
      BY SMTT(30), <1>1, <2>1, <3>1 DEF Streaming
  <2>2. CASE ~Streaming(s)
    <3>1. k = Len(q) - 1
      BY Zenon, <2>2
    <3> QED
      BY SMTT(30), <1>1, <1>2, <2>2, <3>1 DEF Closing
  <2> QED
    BY Zenon, <2>1, <2>2
<1>5. (Streaming(s) => k = Len(q)) /\ (~Streaming(s) => k = Len(q) - 1)
  BY Zenon
<1> HIDE DEF q, w, p, k
<1>6. /\ Head(q) = Task("send", p - k + 1) /\ Len(Tail(q)) = Len(q) - 1
      /\ Sends(Tail(q), k - 1, p - k + 1)
      /\ k < Len(q) => Tail(q)[Len(q) - 1] = q[Len(q)]
      /\ p - k \in Nat /\ Tail(q) \in Seq(Tasks)
  <2>1. p - k \in Nat
    BY <1>1, <1>4
  <2>2. Tail(q) \in Seq(Tasks)
    BY <1>1
  <2> QED
    BY Zenon, <1>1, <1>4, <2>1, <2>2, SendsTail
<1>7. /\ tasks'[s] = Tail(q) /\ produced'[s] = p /\ conn'[s] = conn[s]
      /\ tasks' \in [Streams -> Seq(Tasks)]
      /\ \A t \in Streams \ {s} : tasks'[t] = tasks[t]
  BY Zenon, <1>0, <1>6 DEF TypeOK, Tasks, q, p
<1> DEFINE d == [sess[s] EXCEPT !.cancelled = TRUE]
<1>8. /\ d \in Sessions /\ d.loop = sess[s].loop /\ d.reg = sess[s].reg /\ d.stream = sess[s].stream
      /\ d.closing = sess[s].closing /\ d.fn = sess[s].fn /\ d.st = sess[s].st
  BY Zenon, <1>1 DEF Sessions
<1>9. sess' = sess \/ sess' = [sess EXCEPT ![s] = d]
  BY Zenon, <1>0
<1> HIDE DEF d
<1>10. /\ sess' \in [Streams -> Sessions]
       /\ \A t \in Streams \ {s} : sess'[t] = sess[t]
       /\ sess'[s].loop = sess[s].loop /\ sess'[s].reg = sess[s].reg
       /\ sess'[s].stream = sess[s].stream /\ sess'[s].closing = sess[s].closing
       /\ sess'[s].fn = sess[s].fn /\ sess'[s].st = sess[s].st
  <2>1. sess \in [Streams -> Sessions]
    BY Zenon, <1>0 DEF TypeOK, Sessions
  <2>2. CASE sess' = sess
    BY Zenon, <2>1, <2>2
  <2>3. CASE sess' = [sess EXCEPT ![s] = d]
    BY Zenon, <1>8, <2>1, <2>3
  <2> QED
    BY Zenon, <1>9, <2>2, <2>3
<1>11. /\ wire' \in [Streams -> Seq(1..MaxChunks)]
       /\ \A t \in Streams \ {s} : wire'[t] = wire[t]
       /\ wire'[s] = [i \in 1..Len(wire'[s]) |-> i]
       /\ conn[s] = "open" => Len(wire'[s]) = p - (k - 1)
  <2>0. w = [i \in 1..Len(w) |-> i]
    BY Zenon, <1>0 DEF SessionInv, w
  <2>1. CASE conn[s] = "open"
    <3>1. wire' = [wire EXCEPT ![s] = Append(w, Len(w) + 1)]
      <4>1. Head(q).chunk = Len(w) + 1
        BY <1>4, <1>6, <2>1 DEF Task
      <4> QED
        BY Zenon, <1>0, <1>3, <2>1, <4>1 DEF q, w
    <3>2. /\ Len(Append(w, Len(w) + 1)) = Len(w) + 1
          /\ Append(w, Len(w) + 1) = [i \in 1..Len(Append(w, Len(w) + 1)) |-> i]
      BY Zenon, <1>1, <2>0, WireAppend
    <3>3. Len(w) + 1 \in 1..MaxChunks /\ Len(w) + 1 = p - (k - 1)
      BY SMTT(30), <1>1, <1>4, <2>1
    <3>4. Append(w, Len(w) + 1) \in Seq(1..MaxChunks)
      BY <1>1, <3>3
    <3>5. wire'[s] = Append(w, Len(w) + 1)
      BY Zenon, <1>0, <3>1 DEF TypeOK
    <3> QED
      BY Zenon, <1>0, <3>1, <3>2, <3>3, <3>4, <3>5 DEF TypeOK
  <2>2. CASE conn[s] # "open"
    BY Zenon, <1>0, <2>0, <2>2 DEF TypeOK, w
  <2> QED
    BY Zenon, <2>1, <2>2
<1>12. Streaming(s)' \/ Closing(s)'
  <2>1. p - (k - 1) = p - k + 1 /\ k - 1 <= p
    BY <1>1, <1>4
  <2>2. CASE Streaming(s)
    <3>1. Len(tasks'[s]) = k - 1
      BY Zenon, <1>5, <1>6, <1>7, <2>2
    <3>2. sess[s].reg = "live" /\ sess[s].loop
      BY Zenon, <2>2 DEF Streaming
    <3> QED
      BY Zenon, <1>3, <1>6, <1>7, <1>10, <1>11, <2>1, <3>1, <3>2 DEF Streaming
  <2>3. CASE ~Streaming(s)
    <3>1. Len(tasks'[s]) = k /\ k - 1 = Len(tasks'[s]) - 1 /\ Len(tasks'[s]) > 0
      <4>1. k = Len(q) - 1 /\ Len(tasks'[s]) = Len(q) - 1
        BY Zenon, <1>5, <1>6, <1>7, <2>3
      <4>2. k > 0
        BY <1>1, <1>4
      <4> QED
        BY Zenon, <1>1, <4>1, <4>2
    <3>2. sess[s].reg = "gone" /\ q[Len(q)] = Task("close", 0)
      BY Zenon, <1>2, <2>3 DEF Closing, q
    <3>3. tasks'[s][Len(tasks'[s])] = Task("close", 0)
      <4>1. k < Len(q) /\ Len(tasks'[s]) = Len(q) - 1
        <5>1. k = Len(q) - 1 /\ Len(tasks'[s]) = Len(q) - 1
          BY Zenon, <1>5, <1>6, <1>7, <2>3
        <5> QED
          BY <1>1, <5>1
      <4> QED
        BY Zenon, <1>6, <1>7, <3>2, <4>1
    <3> QED
      BY Zenon, <1>3, <1>6, <1>7, <1>10, <1>11, <2>1, <3>1, <3>2, <3>3 DEF Closing
  <2> QED
    BY Zenon, <2>2, <2>3
<1>13. Pumped(s)' /\ Held(s)'
  <2>1. Busy(s) => main.at = "call"
    BY <1>0, <1>3 DEF SessionInv, Pumped, TypeOK, Busy, Idle
  <2>2. Busy(s)' <=> Busy(s)
    BY Zenon, <1>0 DEF Busy
  <2>3. Pumped(s)'
    BY Zenon, <1>0, <1>3, <1>10, <2>1, <2>2 DEF SessionInv, Pumped
  <2>4. Held(s)'
    BY Zenon, <1>0, <1>10 DEF SessionInv, Held, Pointers
  <2> QED
    BY Zenon, <2>3, <2>4
<1>14. SessionInv(s)'
  BY Zenon, <1>0, <1>7, <1>11, <1>12, <1>13 DEF SessionInv
<1>15. TypeOK'
  BY Zenon, <1>0, <1>7, <1>10, <1>11 DEF TypeOK, Tasks, Sessions
<1>16. \A t \in Streams \ {s} : Same(t)
  BY Zenon, <1>0, <1>7, <1>10, <1>11 DEF Same, Busy
<1> QED
  BY Zenon, <1>0, <1>14, <1>15, <1>16, OneSession DEF StreamInv

\* The close is the last task of a session; on an open connection all of its
\* chunks have been written by then.
LEMMA CloseStep ==
    ASSUME StreamAssumption, StreamInv, NEW s \in Streams, Close(s)
    PROVE  StreamInv'
<1>0. /\ TypeOK /\ SessionInv(s) /\ NextTask(s, "close")
      /\ sess' = [sess EXCEPT ![s].stream = FALSE]
      /\ tasks' = [tasks EXCEPT ![s] = Tail(@)]
      /\ UNCHANGED <<running, preserved, pumps, netVars, main, logVars>>
  BY Zenon DEF StreamInv, Close
<1> USE DEF netVars, logVars
<1>1. /\ Closing(s) /\ Len(tasks[s]) = 1 /\ sess[s] \in Sessions
      /\ tasks \in [Streams -> Seq(Tasks)]
  BY Zenon, <1>0, HeadTells DEF NextTask, TypeOK, Sessions, Tasks
<1>2. Tail(tasks[s]) = <<>>
  <2>1. tasks[s] \in Seq(Tasks)
    BY Zenon, <1>1
  <2> QED
    BY Zenon, <1>1, <2>1, TailOfOne
<1> DEFINE d == [sess[s] EXCEPT !.stream = FALSE]
<1>4. /\ d \in Sessions /\ d.loop = sess[s].loop /\ d.reg = sess[s].reg /\ ~d.stream
      /\ d.closing = sess[s].closing /\ d.fn = sess[s].fn /\ d.st = sess[s].st
  BY Zenon, <1>1 DEF Sessions
<1>5. sess' = [sess EXCEPT ![s] = d] /\ tasks' = [tasks EXCEPT ![s] = <<>>]
  BY Zenon, <1>0, <1>2
<1> HIDE DEF d
<1>6. /\ sess'[s] = d /\ tasks'[s] = <<>>
      /\ \A t \in Streams \ {s} : sess'[t] = sess[t] /\ tasks'[t] = tasks[t]
  BY Zenon, <1>0, <1>5 DEF TypeOK
<1>7. TypeOK'
  <2>1. sess' \in [Streams -> Sessions]
    <3>1. sess \in [Streams -> Sessions]
      BY Zenon, <1>0 DEF TypeOK, Sessions
    <3> QED
      BY Zenon, <1>4, <1>5, <3>1
  <2>2. tasks' \in [Streams -> Seq(Tasks)]
    BY <1>1, <1>5
  <2> QED
    BY Zenon, <1>0, <2>1, <2>2 DEF TypeOK, Sessions, Tasks
<1>8. Ended(s)'
  <2>1. sess[s].reg = "gone" /\ produced[s] \in 0..MaxChunks
    BY Zenon, <1>0, <1>1 DEF Closing, TypeOK
  <2>2. conn[s] = "open" => Len(wire[s]) = produced[s]
    BY <1>1, <2>1 DEF Closing, StreamAssumption
  <2> QED
    BY Zenon, <1>0, <1>4, <1>6, <2>1, <2>2 DEF Ended
<1>9. Pumped(s)' /\ Held(s)'
  <2>1. sess[s].reg = "gone"
    BY Zenon, <1>1 DEF Closing
  <2> QED
    BY Zenon, <1>0, <1>4, <1>6, <2>1 DEF SessionInv, Pumped, Held, Pointers, Busy
<1>10. SessionInv(s)'
  BY Zenon, <1>0, <1>8, <1>9 DEF SessionInv
<1>11. \A t \in Streams \ {s} : Same(t)
  BY Zenon, <1>0, <1>6 DEF Same, Busy
<1> QED
  BY Zenon, <1>0, <1>7, <1>10, <1>11, OneSession DEF StreamInv

\* A disconnect at any point leaves the session in its phase.
LEMMA PeerGoneStep ==
    ASSUME StreamAssumption, StreamInv, NEW s \in Streams, PeerGone(s)
    PROVE  StreamInv'
<1>0. /\ TypeOK /\ SessionInv(s)
      /\ conn' = [conn EXCEPT ![s] = "closed"]
      /\ sess' = IF hook[s] THEN [sess EXCEPT ![s].cancelled = TRUE] ELSE sess
      /\ UNCHANGED <<running, preserved, pumps, keep, hook, tasks, main, logVars>>
  BY Zenon DEF StreamInv, PeerGone
<1> USE DEF logVars
<1>1. sess \in [Streams -> Sessions]
  BY Zenon, <1>0 DEF TypeOK, Sessions
<1> DEFINE d == [sess[s] EXCEPT !.cancelled = TRUE]
<1>2. /\ d \in Sessions /\ d.loop = sess[s].loop /\ d.reg = sess[s].reg /\ d.stream = sess[s].stream
      /\ d.closing = sess[s].closing /\ d.fn = sess[s].fn /\ d.st = sess[s].st
  BY Zenon, <1>1 DEF Sessions
<1>3. sess' = sess \/ sess' = [sess EXCEPT ![s] = d]
  BY Zenon, <1>0
<1> HIDE DEF d
<1>4. /\ sess' \in [Streams -> Sessions]
      /\ \A t \in Streams \ {s} : sess'[t] = sess[t]
      /\ sess'[s].loop = sess[s].loop /\ sess'[s].reg = sess[s].reg
      /\ sess'[s].stream = sess[s].stream /\ sess'[s].closing = sess[s].closing
      /\ sess'[s].fn = sess[s].fn /\ sess'[s].st = sess[s].st
  <2>1. CASE sess' = sess
    BY Zenon, <1>1, <2>1
  <2>2. CASE sess' = [sess EXCEPT ![s] = d]
    BY Zenon, <1>1, <1>2, <2>2
  <2> QED
    BY Zenon, <1>3, <2>1, <2>2
<1>5. conn'[s] = "closed" /\ \A t \in Streams \ {s} : conn'[t] = conn[t]
  BY Zenon, <1>0 DEF TypeOK
<1>6. TypeOK'
  BY Zenon, <1>0, <1>4 DEF TypeOK, Sessions
<1>7. (Waiting(s) \/ Streaming(s) \/ Closing(s) \/ Ended(s))'
  <2>1. CASE Waiting(s)
    BY Zenon, <1>0, <1>4, <1>5, <2>1 DEF Waiting
  <2>2. CASE Streaming(s)
    BY Zenon, <1>0, <1>4, <1>5, <2>2 DEF Streaming
  <2>3. CASE Closing(s)
    BY Zenon, <1>0, <1>4, <1>5, <2>3 DEF Closing
  <2>4. CASE Ended(s)
    BY Zenon, <1>0, <1>4, <1>5, <2>4 DEF Ended
  <2> QED
    BY Zenon, <1>0, <2>1, <2>2, <2>3, <2>4 DEF SessionInv
<1>8. Pumped(s)' /\ Held(s)'
  <2>1. Busy(s)' <=> Busy(s)
    BY Zenon, <1>0 DEF Busy
  <2>2. Pumped(s)'
    BY Zenon, <1>0, <1>4, <2>1 DEF SessionInv, Pumped
  <2>3. Held(s)'
    BY Zenon, <1>0, <1>4 DEF SessionInv, Held, Pointers
  <2> QED
    BY Zenon, <2>2, <2>3
<1>9. SessionInv(s)'
  BY Zenon, <1>0, <1>5, <1>7, <1>8 DEF SessionInv
<1>10. \A t \in Streams \ {s} : Same(t)
  BY Zenon, <1>0, <1>4, <1>5 DEF Same, Busy
<1> QED
  BY Zenon, <1>0, <1>6, <1>9, <1>10, OneSession DEF StreamInv

\* dr_stop() ends every session and releases what it holds; it runs when the
\* main thread is in no generator.
LEMMA ServerStopStep ==
    ASSUME StreamAssumption, ~StopInGenerator, StreamInv, ServerStop
    PROVE  StreamInv'
<1>0. /\ TypeOK /\ main = Idle /\ running' = FALSE
      /\ conn' = [s \in Streams |-> "closed"]
      /\ tasks' = [s \in Streams |-> <<>>]
      /\ UNCHANGED <<pumps, keep, hook, main, logVars>>
      /\ sess \in [Streams -> Sessions] /\ hook \in [Streams -> BOOLEAN]
  BY Zenon DEF StreamInv, ServerStop, TypeOK, Sessions
<1> DEFINE c(s) == CloseStream(sess[s])
           d(s) == [c(s) EXCEPT !.stream = FALSE,
                                !.cancelled = sess[s].cancelled \/ hook[s]]
<1>1. /\ sess' = [s \in Streams |-> IF sess[s].reg # "live" THEN sess[s] ELSE d(s)]
      /\ preserved' = [s \in Streams |->
                        IF sess[s].reg = "live" THEN preserved[s] - Pointers(sess[s])
                        ELSE preserved[s]]
  BY Zenon DEF ServerStop
<1>2. ASSUME NEW s \in Streams
      PROVE  /\ d(s) \in Sessions /\ d(s).reg = "gone" /\ d(s).closing
             /\ ~d(s).fn /\ ~d(s).st /\ Pointers(d(s)) = 0
  <2>1. c(s) \in Sessions /\ c(s).reg = "gone" /\ c(s).closing /\ ~c(s).fn /\ ~c(s).st
    BY Zenon, <1>0, CloseStreamDrops
  <2> HIDE DEF c
  <2>2. d(s) \in Sessions /\ d(s).reg = "gone" /\ d(s).closing /\ ~d(s).fn /\ ~d(s).st
    BY Zenon, <1>0, <2>1 DEF Sessions
  <2> HIDE DEF d
  <2> QED
    BY <2>2 DEF Pointers
<1> HIDE DEF c, d
<1>3. ASSUME NEW s \in Streams
      PROVE  SessionInv(s)' /\ preserved'[s] \in Nat /\ sess'[s] \in Sessions
  <2>0. SessionInv(s) /\ ~Busy(s) /\ ~Busy(s)' /\ preserved[s] \in Nat /\ sess[s] \in Sessions
    BY Zenon, <1>0, <1>3 DEF StreamInv, Busy, Idle, TypeOK
  <2>1. /\ conn'[s] = "closed" /\ tasks'[s] = <<>> /\ pumps'[s] = pumps[s]
        /\ wire'[s] = wire[s] /\ produced'[s] = produced[s] /\ finals'[s] = finals[s]
    BY Zenon, <1>0, <1>3 DEF logVars
  <2>2. CASE sess[s].reg = "live"
    <3>1. sess'[s] = d(s) /\ preserved'[s] = 0
      BY SMTT(30), <1>1, <1>3, <2>0, <2>2 DEF SessionInv, Held
    <3>2. Ended(s)'
      BY Zenon, <1>2, <2>1, <3>1 DEF Ended
    <3>3. Pumped(s)' /\ Held(s)'
      BY Zenon, <1>2, <2>0, <2>1, <2>2, <3>1 DEF SessionInv, Pumped, Held
    <3> QED
      BY SMTT(30), <1>2, <2>0, <2>1, <3>1, <3>2, <3>3 DEF SessionInv
  <2>3. CASE sess[s].reg # "live"
    <3>1. sess'[s] = sess[s] /\ preserved'[s] = preserved[s]
      BY Zenon, <1>1, <1>3, <2>3
    <3>2. Waiting(s)' \/ Ended(s)'
      <4>1. CASE Waiting(s)
        BY SMTT(30), <2>1, <3>1, <4>1 DEF Waiting
      <4>2. CASE ~Waiting(s)
        <5>1. sess[s].reg = "gone"
          BY Zenon, <2>0, <2>3, <4>2 DEF SessionInv, Streaming, Closing, Ended
        <5> QED
          BY Zenon, <2>1, <3>1, <5>1 DEF Ended
      <4> QED
        BY Zenon, <4>1, <4>2
    <3>3. Pumped(s)' /\ Held(s)'
      BY Zenon, <2>0, <2>1, <2>3, <3>1 DEF SessionInv, Pumped, Held, Pointers
    <3> QED
      BY Zenon, <2>0, <2>1, <3>1, <3>2, <3>3 DEF SessionInv
  <2> QED
    BY Zenon, <2>2, <2>3
<1>4. TypeOK'
  <2>1. sess' \in [Streams -> Sessions] /\ preserved' \in [Streams -> Nat]
    BY Zenon, <1>1, <1>3
  <2>2. tasks' \in [Streams -> Seq(Tasks)]
    BY <1>0
  <2> QED
    BY Zenon, <1>0, <2>1, <2>2 DEF TypeOK, Sessions, Tasks, logVars
<1> QED
  BY Zenon, <1>0, <1>3, <1>4 DEF StreamInv, logVars
-----------------------------------------------------------------------------
(* The theorems.                                                           *)

\* StreamInv holds at the start.
LEMMA StreamInit == ASSUME StreamAssumption, Init PROVE StreamInv
<1>1. TypeOK
  <2>1. NoSession \in Sessions
    BY Zenon DEF NoSession, Sessions
  <2>2. sess \in [Streams -> Sessions] /\ tasks \in [Streams -> Seq(Tasks)]
    BY <2>1 DEF Init
  <2>3. produced \in [Streams -> 0..MaxChunks] /\ wire \in [Streams -> Seq(1..MaxChunks)]
    BY DEF Init, StreamAssumption
  <2> QED
    BY Zenon, <2>2, <2>3 DEF Init, TypeOK, Sessions, Tasks
<1>2. ASSUME NEW s \in Streams PROVE SessionInv(s)
  <2>1. /\ sess[s] = NoSession /\ preserved[s] = 0 /\ pumps[s] = 0 /\ tasks[s] = <<>>
        /\ produced[s] = 0 /\ wire[s] = <<>> /\ finals[s] = 0 /\ ~Busy(s) /\ running
    BY Zenon DEF Init, Busy, Idle
  <2>2. Waiting(s) /\ Pumped(s) /\ Held(s)
    BY SMTT(30), <2>1 DEF Waiting, Pumped, Held, NoSession, Pointers, Task
  <2>3. wire[s] = [i \in 1..Len(wire[s]) |-> i]
    BY <2>1
  <2> QED
    BY Zenon, <2>1, <2>2, <2>3 DEF SessionInv
<1> QED
  BY Zenon, <1>1, <1>2 DEF StreamInv, Init

\* StreamInv is preserved by every step of the main thread, of the loops and
\* of the peers.
LEMMA StreamStep ==
    ASSUME StreamAssumption, ~StopInGenerator, StreamInv, [Next]_vars
    PROVE  StreamInv'
<1>1. ASSUME NEW s \in Streams, MainThread(s) PROVE StreamInv'
  <2>1. CASE PumpTooEarly(s)
    <3>1. UNCHANGED vars
      BY Zenon, <2>1 DEF PumpTooEarly
    <3>2. \A t \in Streams : Same(t)
      BY Zenon, <3>1 DEF vars, netVars, logVars, Same, Busy
    <3>3. TypeOK' /\ ~deadUse'
      BY Zenon, <3>1 DEF StreamInv, TypeOK, vars, netVars, logVars
    <3> QED
      BY Zenon, <3>2, <3>3, SameKeeps DEF StreamInv
  <2> QED
    BY Zenon, <1>1, <2>1, StartSessionStep, RespondStep, PumpNothingStep, CallGeneratorStep,
       GeneratorFailsStep, GeneratorReturnsStep DEF MainThread
<1>2. ASSUME NEW s \in Streams, LoopThread(s) PROVE StreamInv'
  BY Zenon, <1>2, DeliverStep, StashStep, SendStep, CloseStep DEF LoopThread
<1>3. CASE UNCHANGED vars
  <2>1. \A t \in Streams : Same(t)
    BY Zenon, <1>3 DEF vars, netVars, logVars, Same, Busy
  <2>2. TypeOK' /\ ~deadUse'
    BY Zenon, <1>3 DEF StreamInv, TypeOK, vars, netVars, logVars
  <2> QED
    BY Zenon, <2>1, <2>2, SameKeeps DEF StreamInv
<1> QED
  BY Zenon, <1>1, <1>2, <1>3, PeerGoneStep, ServerStopStep DEF Next

\* All variables keep their types; in particular, no session releases an R
\* object that it has not preserved.
THEOREM StreamTypeCorrect ==
    ASSUME StreamAssumption, ~StopInGenerator PROVE Spec => []TypeOK
<1>1. Init => StreamInv
  BY Zenon, StreamInit
<1>2. StreamInv /\ [Next]_vars => StreamInv'
  BY Zenon, StreamStep
<1>3. StreamInv => TypeOK
  BY Zenon DEF StreamInv
<1> QED
  BY <1>1, <1>2, <1>3, PTL DEF Spec

\* A stream is served as promised, for any number of sessions and chunks and
\* whenever peers disconnect or the server stops: one pump at a time, R objects
\* kept exactly as long as the session, the chunks on the wire in order and, if
\* the peer stays, completely, and no loop used that is gone.
THEOREM StreamsAreServed ==
    ASSUME StreamAssumption, ~StopInGenerator PROVE Spec => []StreamServed
<1>1. Init => StreamInv
  BY Zenon, StreamInit
<1>2. StreamInv /\ [Next]_vars => StreamInv'
  BY Zenon, StreamStep
<1>3. StreamInv => StreamServed
  <2> SUFFICES ASSUME StreamInv PROVE StreamServed
    BY Zenon
  <2>1. ASSUME NEW s \in Streams
        PROVE  /\ pumps[s] <= 1
               /\ (sess[s].reg = "live" /\ ~Busy(s)) => pumps[s] = 1
    BY Zenon, <2>1 DEF StreamInv, SessionInv, Pumped
  <2>2. ASSUME NEW s \in Streams
        PROVE  preserved[s] = Pointers(sess[s]) /\ (sess[s].reg = "gone" => preserved[s] = 0)
    <3>1. Held(s)
      BY Zenon, <2>2 DEF StreamInv, SessionInv
    <3> QED
      BY <3>1 DEF Held, Pointers
  <2>3. ASSUME NEW s \in Streams
        PROVE  /\ wire[s] = [i \in 1..Len(wire[s]) |-> i]
               /\ (sess[s].reg = "gone" /\ tasks[s] = <<>> /\ conn[s] = "open")
                     => Len(wire[s]) = produced[s] /\ ~sess[s].stream
    <3>1. ASSUME sess[s].reg = "gone", tasks[s] = <<>> PROVE Ended(s)
      <4>1. Len(tasks[s]) = 0
        BY <3>1
      <4> QED
        <5>1. ~Waiting(s) /\ ~Streaming(s) /\ ~Closing(s)
          BY SMTT(30), <3>1, <4>1 DEF Waiting, Streaming, Closing
        <5> QED
          BY Zenon, <2>3, <5>1 DEF StreamInv, SessionInv
    <3> QED
      BY Zenon, <2>3, <3>1 DEF StreamInv, SessionInv, Ended
  <2> QED
    BY Zenon, <2>1, <2>2, <2>3
       DEF StreamServed, OnePump, ObjectsReleased, WireFaithful, NoDeadLoopUse, StreamInv
<1> QED
  BY <1>1, <1>2, <1>3, PTL DEF Spec

\* A generator that was called with cancelled = TRUE is never called again.
THEOREM CancelledCallComesLast ==
    ASSUME StreamAssumption, ~StopInGenerator PROVE Spec => CancelledCallIsLast
<1>1. Init => StreamInv
  BY Zenon, StreamInit
<1>2. StreamInv /\ [Next]_vars => StreamInv'
  BY Zenon, StreamStep
<1>3. StreamInv /\ [Next]_vars =>
        [\A s \in Streams :
            finals[s] > 0 => ~(main = Idle /\ main'.at = "call" /\ main'.id = s)]_vars
  <2> SUFFICES ASSUME StreamInv, NEW s \in Streams, finals[s] > 0, [Next]_vars,
                      main = Idle, main'.at = "call", main'.id = s
               PROVE  FALSE
    BY Zenon
  <2>1. sess[s].reg = "gone"
    BY Zenon DEF StreamInv, SessionInv, Pumped, Busy, Idle
  <2>2. ~UNCHANGED main
    BY SMTT(30) DEF Idle
  <2>3. PICK t \in Streams : StartSession(t) \/ CallGenerator(t)
    <3>1. ~UNCHANGED vars /\ ~ServerStop
      BY Zenon, <2>2 DEF vars, ServerStop
    <3>2. PICK t \in Streams : MainThread(t) \/ LoopThread(t) \/ PeerGone(t)
      BY Zenon, <3>1 DEF Next
    <3>3. ~LoopThread(t) /\ ~PeerGone(t)
      BY Zenon, <2>2 DEF LoopThread, Deliver, Stash, Send, Close, PeerGone
    <3>4. ~Respond(t) /\ ~PumpNothing(t) /\ ~PumpTooEarly(t) /\ ~GeneratorFails(t)
      BY Zenon, <2>2 DEF Respond, PumpNothing, PumpTooEarly, GeneratorFails, vars, Idle
    <3>5. ~\E chunk, state, done \in BOOLEAN : GeneratorReturns(t, chunk, state, done)
      BY Zenon, <2>2 DEF GeneratorReturns, Idle
    <3> QED
      BY Zenon, <3>2, <3>3, <3>4, <3>5 DEF MainThread
  <2>4. CallGenerator(t) /\ t = s
    <3>1. StartSession(t) => main' = [at |-> "respond", id |-> t]
      BY Zenon DEF StartSession
    <3>2. CallGenerator(t) =>
            main' = [at |-> "call", id |-> t, cancelled |-> sess[t].cancelled]
      BY Zenon DEF CallGenerator
    <3>3. ~StartSession(t)
      BY <3>1
    <3>4. CallGenerator(t) => t = s
      BY SMTT(30), <3>2
    <3> QED
      BY Zenon, <2>3, <3>3, <3>4
  <2> QED
    BY Zenon, <2>1, <2>4 DEF CallGenerator
<1> QED
  BY <1>1, <1>2, <1>3, PTL DEF Spec, CancelledCallIsLast
=============================================================================
