--------------------------- MODULE StreamSession ---------------------------
(***************************************************************************)
(* Streaming responses of R handlers.  A session is created on the main R  *)
(* thread; Drogon hands the response stream over later, on the loop of the *)
(* connection; from then on the main thread pumps the R generator, one     *)
(* later callback per chunk, and queues sends and the close on that loop.  *)
(* The peer may disconnect at any point, which the loop thread reports     *)
(* through an atomic flag.                                                 *)
(***************************************************************************)
EXTENDS Naturals, Sequences

CONSTANTS Streams,         \* session ids, one connection each
          MaxChunks,       \* bound: non-empty chunks a generator returns
          StopInGenerator  \* whether a generator may call dr_stop()

\* What instances of this module assume of the constants.
StreamAssumption == MaxChunks \in Nat /\ StopInGenerator \in BOOLEAN

VARIABLES
    running,     \* the server's loops are alive
    sess,        \* the StreamSession objects
    preserved,   \* R objects a session keeps from the garbage collector
    pumps,       \* later callbacks pending per session
    conn,        \* TCP connection: open / closed
    keep,        \* the request asked for keep-alive
    hook,        \* the user-close callback is installed
    tasks,       \* functions queued on the connection's loop
    main,        \* what the main R thread is doing
    produced,    \* chunks handed to sendChunkInLoop()
    wire,        \* chunks written to the connection
    finals,      \* generator calls with cancelled = TRUE
    deadUse      \* queueInLoop() was called on no loop or a destroyed one

netVars  == <<conn, keep, hook>>
logVars  == <<produced, wire, finals, deadUse>>
vars == <<running, sess, preserved, pumps, netVars, tasks, main, logVars>>

Task(f, n) == [do |-> f, chunk |-> n]

Idle == [at |-> "idle"]
Busy(s) == main.at # "idle" /\ main.id = s

\* reg: in g_streams; loop, stream, fn, st: the pointer is not null.
NoSession == [reg |-> "none", closing |-> FALSE, cancelled |-> FALSE,
              loop |-> FALSE, stream |-> FALSE, fn |-> FALSE, st |-> FALSE]

Init ==
    /\ running = TRUE
    /\ sess = [s \in Streams |-> NoSession]
    /\ preserved = [s \in Streams |-> 0]
    /\ pumps = [s \in Streams |-> 0]
    /\ conn = [s \in Streams |-> "open"]
    /\ keep \in [Streams -> BOOLEAN]
    /\ hook = [s \in Streams |-> FALSE]
    /\ tasks = [s \in Streams |-> <<>>]
    /\ main = Idle
    /\ produced = [s \in Streams |-> 0]
    /\ wire = [s \in Streams |-> <<>>]
    /\ finals = [s \in Streams |-> 0]
    /\ deadUse = FALSE
-----------------------------------------------------------------------------
(* Helpers of the main R thread.                                           *)

\* releaseSEXPs(): both pointers are released and set to null.
ReleaseSEXPs(e) == [e EXCEPT !.fn = FALSE, !.st = FALSE]

Pointers(e) == (IF e.fn THEN 1 ELSE 0) + (IF e.st THEN 1 ELSE 0)

\* closeStreamFromMain(): mark, release, erase.  Its close task is queued by
\* the caller.
CloseStream(e) == [ReleaseSEXPs(e) EXCEPT !.closing = TRUE, !.reg = "gone"]

\* A state returned by the generator is preserved before the old one goes.
MutStateRefs(e) == 1

StateRefs(e) == IF e.st THEN 0 ELSE 1
-----------------------------------------------------------------------------
(* startStreamSession(), in a handler's dispatch on the main R thread.     *)

\* The session is registered and the close hook installed: the request still
\* holds the connection, so the weak pointer always locks here, also when the
\* peer has gone and the hook will never fire.
StartSession(s) ==
    /\ running /\ main = Idle
    /\ sess[s].reg = "none"
    /\ \E hasState \in BOOLEAN :
        LET e == [NoSession EXCEPT !.reg = "live", !.fn = TRUE, !.st = hasState]
        IN  /\ sess' = [sess EXCEPT ![s] = e]
            /\ preserved' = [preserved EXCEPT ![s] = Pointers(e)]
    /\ hook' = [hook EXCEPT ![s] = TRUE]
    /\ main' = [at |-> "respond", id |-> s]
    /\ UNCHANGED <<running, pumps, conn, keep, tasks, logVars>>

\* respond(): Drogon drops the response when the peer has gone, otherwise it
\* queues the delivery on the connection's loop.  The first pump is scheduled
\* in any case.
Respond(s) ==
    /\ main = [at |-> "respond", id |-> s]
    /\ main' = Idle
    /\ tasks' = IF conn[s] = "open"
                THEN [tasks EXCEPT ![s] = Append(@, Task("deliver", 0))] ELSE tasks
    /\ pumps' = [pumps EXCEPT ![s] = @ + 1]
    /\ UNCHANGED <<running, sess, preserved, netVars, logVars>>
-----------------------------------------------------------------------------
(* pumpStreamMain(): a later callback on the main R thread.                *)

\* A pump of a session that is gone or closing returns.
PumpNothing(s) ==
    /\ main = Idle
    /\ pumps[s] > 0
    /\ sess[s].reg # "live" \/ sess[s].closing
    /\ pumps' = [pumps EXCEPT ![s] = @ - 1]
    /\ UNCHANGED <<running, sess, preserved, netVars, tasks, main, logVars>>

\* Drogon has not delivered the stream: re-arm and try again.
MutPumpTooEarly(s) ==
    /\ main = Idle
    /\ pumps[s] > 0
    /\ sess[s].reg = "live" /\ ~sess[s].closing /\ ~sess[s].stream
    /\ pumps' = [pumps EXCEPT ![s] = @ - 1]
    /\ UNCHANGED <<running, sess, preserved, netVars, tasks, main, logVars>>

PumpTooEarly(s) ==
    /\ main = Idle
    /\ pumps[s] > 0
    /\ sess[s].reg = "live" /\ ~sess[s].closing /\ ~sess[s].stream
    /\ UNCHANGED vars

\* The flag is read, then the R generator runs while the loops go on.
MutCallGenerator(s) ==
    /\ main = Idle
    /\ pumps[s] > 0
    /\ sess[s].reg = "live" /\ ~sess[s].closing
    /\ pumps' = [pumps EXCEPT ![s] = @ - 1]
    /\ main' = [at |-> "call", id |-> s, cancelled |-> sess[s].cancelled]
    /\ finals' = IF sess[s].cancelled THEN [finals EXCEPT ![s] = @ + 1] ELSE finals
    /\ UNCHANGED <<running, sess, preserved, netVars, tasks, produced, wire,
                   deadUse>>

CallGenerator(s) ==
    /\ main = Idle
    /\ pumps[s] > 0
    /\ sess[s].reg = "live" /\ ~sess[s].closing /\ sess[s].stream
    /\ pumps' = [pumps EXCEPT ![s] = @ - 1]
    /\ main' = [at |-> "call", id |-> s, cancelled |-> sess[s].cancelled]
    /\ finals' = IF sess[s].cancelled THEN [finals EXCEPT ![s] = @ + 1] ELSE finals
    /\ UNCHANGED <<running, sess, preserved, netVars, tasks, produced, wire,
                   deadUse>>

\* queueInLoop() on the session's loop.
QueueInLoop(s, fs) ==
    /\ tasks' = IF running THEN [tasks EXCEPT ![s] = @ \o fs] ELSE tasks
    /\ deadUse' = (deadUse \/ (fs # <<>> /\ ~(running /\ sess[s].loop)))

\* The generator raised an error or returned something that is no list.
GeneratorFails(s) ==
    /\ main.at = "call" /\ main.id = s
    /\ main' = Idle
    /\ sess' = [sess EXCEPT ![s] = CloseStream(@)]
    /\ preserved' = [preserved EXCEPT ![s] = @ - Pointers(sess[s])]
    /\ QueueInLoop(s, <<Task("close", 0)>>)
    /\ UNCHANGED <<running, pumps, netVars, produced, wire, finals>>

\* After a cancelled call the chunk is dropped and the session ends whatever
\* `done' says.
MutMustClose(cancelled, done) == done

MustClose(cancelled, done) == cancelled \/ done

\* The chunk is queued before the close.
MutOutput(send, close, n) ==
    (IF close THEN <<Task("close", 0)>> ELSE <<>>)
        \o (IF send THEN <<Task("send", n)>> ELSE <<>>)

Output(send, close, n) ==
    (IF send THEN <<Task("send", n)>> ELSE <<>>)
        \o (IF close THEN <<Task("close", 0)>> ELSE <<>>)

\* It returned list(chunk, state, done).
GeneratorReturns(s, chunk, state, done) ==
    LET e == [sess[s] EXCEPT !.st = @ \/ state]
        refs == preserved[s] + IF state THEN StateRefs(sess[s]) ELSE 0
        send == chunk /\ ~main.cancelled
        close == MustClose(main.cancelled, done)
    IN  /\ main.at = "call" /\ main.id = s
        /\ chunk => produced[s] < MaxChunks
        /\ main' = Idle
        /\ produced' = [produced EXCEPT ![s] = IF send THEN @ + 1 ELSE @]
        /\ sess' = [sess EXCEPT ![s] = IF close THEN CloseStream(e) ELSE e]
        /\ preserved' = [preserved EXCEPT ![s] = IF close THEN refs - Pointers(e) ELSE refs]
        /\ pumps' = [pumps EXCEPT ![s] = IF close THEN @ ELSE @ + 1]
        /\ QueueInLoop(s, Output(send, close, produced[s] + 1))
        /\ UNCHANGED <<running, netVars, wire, finals>>
-----------------------------------------------------------------------------
(* The connection's loop thread.                                           *)

NextTask(s, f) == tasks[s] # <<>> /\ Head(tasks[s]).do = f

\* Drogon sends the headers and hands the stream over, unless the peer has
\* gone or the connection is to be closed after the response.  The callback
\* stores the loop, then the stream; the main thread may look in between.
Deliver(s) ==
    /\ running
    /\ NextTask(s, "deliver")
    /\ IF conn[s] = "open" /\ keep[s]
       THEN /\ sess' = [sess EXCEPT ![s].loop = TRUE]
            /\ tasks' = [tasks EXCEPT ![s] = <<Task("stash", 0)>> \o Tail(@)]
       ELSE /\ tasks' = [tasks EXCEPT ![s] = Tail(@)]
            /\ UNCHANGED sess
    /\ UNCHANGED <<running, preserved, pumps, netVars, main, logVars>>

Stash(s) ==
    /\ running
    /\ NextTask(s, "stash")
    /\ sess' = [sess EXCEPT ![s].stream = TRUE]
    /\ tasks' = [tasks EXCEPT ![s] = Tail(@)]
    /\ UNCHANGED <<running, preserved, pumps, netVars, main, logVars>>

\* sendChunkInLoop()'s function: a failed send sets the flag.
Send(s) ==
    /\ running
    /\ NextTask(s, "send")
    /\ tasks' = [tasks EXCEPT ![s] = Tail(@)]
    /\ IF sess[s].stream /\ conn[s] = "open"
       THEN wire' = [wire EXCEPT ![s] = Append(@, Head(tasks[s]).chunk)] /\ UNCHANGED sess
       ELSE /\ sess' = IF sess[s].stream THEN [sess EXCEPT ![s].cancelled = TRUE] ELSE sess
            /\ UNCHANGED wire
    /\ UNCHANGED <<running, preserved, pumps, netVars, main, produced,
                   finals, deadUse>>

\* closeStreamFromMain()'s function.
Close(s) ==
    /\ running
    /\ NextTask(s, "close")
    /\ sess' = [sess EXCEPT ![s].stream = FALSE]
    /\ tasks' = [tasks EXCEPT ![s] = Tail(@)]
    /\ UNCHANGED <<running, preserved, pumps, netVars, main, logVars>>

\* The connection ends; its user-close callback sets the flag.
MutPeerGone(s) ==
    /\ running /\ conn[s] = "open"
    /\ ~NextTask(s, "stash")
    /\ conn' = [conn EXCEPT ![s] = "closed"]
    /\ UNCHANGED <<running, sess, preserved, pumps, keep, hook, tasks, main, logVars>>

PeerGone(s) ==
    /\ running /\ conn[s] = "open"
    /\ ~NextTask(s, "stash")
    /\ conn' = [conn EXCEPT ![s] = "closed"]
    /\ sess' = IF hook[s] THEN [sess EXCEPT ![s].cancelled = TRUE] ELSE sess
    /\ UNCHANGED <<running, preserved, pumps, keep, hook, tasks, main, logVars>>
-----------------------------------------------------------------------------
\* drogonR_server_stop(): the loops close their connections and are joined,
\* then clearAllStreamSessions() drops every session without using them.
ServerStop ==
    /\ running
    /\ main = Idle \/ (StopInGenerator /\ main.at = "call")
    /\ running' = FALSE
    /\ conn' = [s \in Streams |-> "closed"]
    /\ tasks' = [s \in Streams |-> <<>>]
    /\ sess' = [s \in Streams |->
                  IF sess[s].reg # "live" THEN sess[s]
                  ELSE [CloseStream(sess[s]) EXCEPT !.stream = FALSE,
                                                    !.cancelled = sess[s].cancelled \/ hook[s]]]
    /\ preserved' = [s \in Streams |->
                       IF sess[s].reg = "live" THEN preserved[s] - Pointers(sess[s])
                       ELSE preserved[s]]
    /\ UNCHANGED <<pumps, keep, hook, main, logVars>>

MainThread(s) ==
    \/ StartSession(s) \/ Respond(s)
    \/ PumpNothing(s) \/ PumpTooEarly(s) \/ CallGenerator(s)
    \/ GeneratorFails(s)
    \/ \E chunk, state, done \in BOOLEAN : GeneratorReturns(s, chunk, state, done)

LoopThread(s) == Deliver(s) \/ Stash(s) \/ Send(s) \/ Close(s)

Next ==
    \/ \E s \in Streams : MainThread(s) \/ LoopThread(s) \/ PeerGone(s)
    \/ ServerStop

Spec == Init /\ [][Next]_vars

\* later runs every pending callback, generators return, and the loops run
\* what is queued on them.
Fairness ==
    \A s \in Streams :
        /\ SF_vars(CallGenerator(s))
        /\ WF_vars(Respond(s))
        /\ WF_vars(GeneratorFails(s) \/ \E chunk, state, done \in BOOLEAN :
                        GeneratorReturns(s, chunk, state, done))
        /\ WF_vars(LoopThread(s))

FairSpec == Spec /\ Fairness
-----------------------------------------------------------------------------
(* Properties.                                                             *)

\* Type correctness of the sessions; in particular no session releases more
\* R objects than it preserved.
TypeOK ==
    /\ running \in BOOLEAN /\ deadUse \in BOOLEAN
    /\ sess \in [Streams -> [reg : {"none", "live", "gone"}, closing : BOOLEAN,
                             cancelled : BOOLEAN, loop : BOOLEAN,
                             stream : BOOLEAN, fn : BOOLEAN, st : BOOLEAN]]
    /\ preserved \in [Streams -> Nat]
    /\ pumps \in [Streams -> Nat]
    /\ conn \in [Streams -> {"open", "closed"}]
    /\ keep \in [Streams -> BOOLEAN] /\ hook \in [Streams -> BOOLEAN]
    /\ tasks \in [Streams -> Seq([do : {"deliver", "stash", "send", "close"},
                              chunk : 0..MaxChunks])]
    /\ main \in {Idle} \union [at : {"respond"}, id : Streams]
                       \union [at : {"call"}, id : Streams, cancelled : BOOLEAN]
    /\ produced \in [Streams -> 0..MaxChunks]
    /\ wire \in [Streams -> Seq(1..MaxChunks)]
    /\ finals \in [Streams -> Nat]

\* A live session that the main thread is not working on has exactly one pump
\* pending: none would freeze the stream, two would run its generator twice
\* per step (scheduleNextPump(), stream_session.cpp:135).
OnePump ==
    \A s \in Streams :
        /\ pumps[s] <= 1
        /\ (sess[s].reg = "live" /\ ~Busy(s)) => pumps[s] = 1

\* R objects are kept exactly as long as the session: what is preserved is
\* what the session points to, and a session that ended keeps nothing, on
\* whichever path it ended (done, error, cancel, server stop).
ObjectsReleased ==
    \A s \in Streams :
        ~Busy(s) => /\ preserved[s] = Pointers(sess[s])
                    /\ sess[s].reg = "gone" => preserved[s] = 0

\* The generator is called with cancelled = TRUE at most once, and never again
\* after that, although the flag can be set by the close hook and by several
\* failed sends.
CancelledCallIsLast ==
    [][\A s \in Streams :
        finals[s] > 0 => ~(main = Idle /\ main'.at = "call" /\ main'.id = s)]_vars

\* The client sees the chunks in the order in which the generator returned
\* them, none twice; and when the session has ended and the peer stayed, it
\* has seen all of them and the stream is closed.
WireFaithful ==
    \A s \in Streams :
        /\ wire[s] = [i \in 1..Len(wire[s]) |-> i]
        /\ (sess[s].reg = "gone" /\ tasks[s] = <<>> /\ conn[s] = "open")
              => Len(wire[s]) = produced[s] /\ ~sess[s].stream

\* Nothing is queued on a loop that is unknown or destroyed: "queueInLoop on
\* it is a use-after-free" (stream_session.cpp:373-375).
NoDeadLoopUse == ~deadUse

\* What a stream promises R code and the client, taken together: one pump at a
\* time, R objects kept exactly as long as they are needed, the chunks on the
\* wire, and no use of a loop that is gone.
StreamServed == OnePump /\ ObjectsReleased /\ WireFaithful /\ NoDeadLoopUse

\* A stream that was delivered learns of its peer's disconnect and ends, also
\* when the generator goes on forever without sending anything.
CancelEndsStream ==
    \A s \in Streams :
        (sess[s].reg = "live" /\ sess[s].stream /\ conn[s] = "closed")
            ~> (sess[s].reg = "gone")

\* A generator whose client has gone "will be invoked exactly once with
\* cancelled = TRUE so it can free state" (R/stream.R:25-26), unless it ended
\* by itself or the server was stopped.
CancelReachesGenerator ==
    \A s \in Streams :
        (sess[s].reg = "live" /\ conn[s] = "closed") ~> (sess[s].reg = "gone")
=============================================================================
