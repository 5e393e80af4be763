-------------------------- MODULE DispatcherProofs --------------------------
(***************************************************************************)
(* Proofs about Dispatcher, for any set of requests, any queue and pipe    *)
(* capacity and any number of waiting events.                              *)
(***************************************************************************)
EXTENDS Dispatcher, TLAPS

\* All variables keep their types.
THEOREM TypeCorrect == Spec => []TypeOK
<1>1. Init => TypeOK
  <2> SUFFICES ASSUME Init PROVE TypeOK
    BY Zenon
  <2>1. bytes \in 0..PipeCap
    BY DispatcherAssumption DEF Init
  <2>2. queue \in Seq(Requests) /\ items \in Seq(Requests)
    BY DEF Init
  <2> QED
    BY Zenon, <2>1, <2>2 DEF Init, TypeOK
<1>2. TypeOK /\ [Next]_vars => TypeOK'
  <2> SUFFICES ASSUME TypeOK, [Next]_vars PROVE TypeOK'
    BY Zenon
  <2> USE DispatcherAssumption DEF TypeOK, httpVars, wsVars, clientVars, pipeVars, Replies
  <2>1. CASE ServerStart
    BY Zenon, <2>1 DEF ServerStart, EnsureDispatcherRunning
  <2>2. CASE ServerStop
    <3>1. queue' \in Seq(Requests) /\ bytes' \in 0..PipeCap
      BY <2>2 DEF ServerStop, ShutdownDispatcher
    <3>2. armed' \in Nat /\ stale' \in Nat
      BY <2>2 DEF ServerStop, ShutdownDispatcher
    <3>3. pipeOpen' \in BOOLEAN
      BY Zenon, <2>2 DEF ServerStop, ShutdownDispatcher
    <3> QED
      BY Zenon, <2>2, <3>1, <3>2, <3>3 DEF ServerStop
  <2>3. CASE WsConnect
    BY Zenon, <2>3 DEF WsConnect, EnsureDispatcherRunning
  <2>4. ASSUME NEW r \in Requests, HandlerRefuse(r) PROVE TypeOK'
    <3>1. PICK code \in {"429", "503"} : Respond(r, code)
      BY Zenon, <2>4 DEF HandlerRefuse
    <3>2. reply' \in [Requests -> Replies \union {"none", "pending"}]
      BY Zenon, <3>1 DEF Respond
    <3>3. responses' \in [Requests -> Nat]
      BY <3>1 DEF Respond
    <3> QED
      BY Zenon, <2>4, <3>2, <3>3 DEF HandlerRefuse
  <2>5. ASSUME NEW r \in Requests, HandlerEnqueue(r) PROVE TypeOK'
    BY <2>5 DEF HandlerEnqueue, Push
  <2>6. ASSUME NEW r \in Requests, NotifyDispatcher(r) PROVE TypeOK'
    BY <2>6 DEF NotifyDispatcher, WriteWakeByte
  <2>7. CASE EnqueueWsEvent
    BY <2>7 DEF EnqueueWsEvent
  <2>8. CASE NotifyWsEvent
    BY <2>8 DEF NotifyWsEvent, WriteWakeByte
  <2>9. CASE EnqueueClientEvent
    BY <2>9 DEF EnqueueClientEvent
  <2>10. CASE NotifyClientEvent
    BY <2>10 DEF NotifyClientEvent, WriteWakeByte
  <2>11. CASE DispatchTimeout
    BY <2>11 DEF DispatchTimeout, DrainWakePipe
  <2>12. CASE DispatchReadable
    BY <2>12 DEF DispatchReadable, DrainWakePipe
  <2>13. CASE DispatchStale
    BY <2>13 DEF DispatchStale, DrainWakePipe, InRCode
  <2>14. CASE DrainQueue
    BY <2>14 DEF DrainQueue
  <2>15. CASE Serve
    BY <2>15 DEF Serve, Respond
  <2>16. CASE DrainWsEvents
    BY Zenon, <2>16 DEF DrainWsEvents
  <2>17. CASE DrainWsClientEvents
    BY Zenon, <2>17 DEF DrainWsClientEvents
  <2>18. CASE Rearm
    BY <2>18 DEF Rearm
  <2>19. CASE UNCHANGED vars
    BY Zenon, <2>19 DEF vars
  <2>20. CASE WsShutdown
    <3>1. bytes' \in 0..PipeCap
      BY <2>20 DEF WsShutdown, WriteWakeByte
    <3>2. clientEvents' \in Nat
      BY Zenon, <2>20 DEF WsShutdown
    <3>3. clientAlive' \in BOOLEAN
      BY Zenon, <2>20 DEF WsShutdown
    <3> QED
      BY Zenon, <2>20, <3>1, <3>2, <3>3 DEF WsShutdown
  <2> QED
    BY Zenon, <2>1, <2>2, <2>3, <2>4, <2>5, <2>6, <2>7, <2>8, <2>9, <2>10, <2>11,
       <2>12, <2>13, <2>14, <2>15, <2>16, <2>17, <2>18, <2>19, <2>20
       DEF Next, MainThread
<1> QED
  BY <1>1, <1>2, PTL DEF Spec
-----------------------------------------------------------------------------
(* Wakeups.                                                                *)

\* Why no wakeup is lost: a queue that is not empty has a byte in the pipe, a
\* thread that still has to write one, or a dispatcher that emptied the pipe
\* and has not come to this queue yet.
WakeInv ==
    /\ running => pipeOpen
    /\ (notify # {} \/ wsNotify > 0 \/ queue # <<>> \/ wsEvents > 0) => running
    /\ queue # <<>> => bytes > 0 \/ notify # {} \/ pc = "swap"
    /\ wsEvents > 0 => bytes > 0 \/ wsNotify > 0 \/ pc \in {"swap", "serve"}
    /\ PipeIsWatched

\* WakeInv is preserved by every step of every thread.
LEMMA WakeStep == TypeOK /\ WakeInv /\ [Next]_vars => WakeInv'
<1> SUFFICES ASSUME TypeOK, WakeInv, [Next]_vars PROVE WakeInv'
  BY Zenon
<1> USE DispatcherAssumption
    DEF TypeOK, WakeInv, PipeIsWatched, httpVars, wsVars, clientVars, pipeVars
<1>1. CASE ServerStart
  BY <1>1 DEF ServerStart, EnsureDispatcherRunning
<1>2. CASE ServerStop
  BY <1>2 DEF ServerStop, ShutdownDispatcher
<1>3. CASE WsConnect
  BY <1>3 DEF WsConnect, EnsureDispatcherRunning
<1>4. ASSUME NEW r \in Requests, HandlerRefuse(r) PROVE WakeInv'
  BY Zenon, <1>4 DEF HandlerRefuse
<1>5. ASSUME NEW r \in Requests, HandlerEnqueue(r) PROVE WakeInv'
  BY Zenon, <1>5 DEF HandlerEnqueue
<1>6. ASSUME NEW r \in Requests, NotifyDispatcher(r) PROVE WakeInv'
  <2>1. bytes' > 0
    BY <1>6 DEF NotifyDispatcher, WriteWakeByte
  <2> QED
    BY Zenon, <1>6, <2>1 DEF NotifyDispatcher
<1>7. CASE EnqueueWsEvent
  BY <1>7 DEF EnqueueWsEvent
<1>8. CASE NotifyWsEvent
  <2>1. bytes' > 0
    BY <1>8 DEF NotifyWsEvent, WriteWakeByte
  <2> QED
    BY Zenon, <1>8, <2>1 DEF NotifyWsEvent
<1>9. CASE EnqueueClientEvent
  BY Zenon, <1>9 DEF EnqueueClientEvent
<1>10. CASE NotifyClientEvent
  <2>1. bytes > 0 => bytes' > 0
    BY <1>10 DEF NotifyClientEvent, WriteWakeByte
  <2> QED
    BY Zenon, <1>10, <2>1 DEF NotifyClientEvent
<1>11. CASE DispatchTimeout
  BY Zenon, <1>11 DEF DispatchTimeout, DrainWakePipe
<1>12. CASE DispatchReadable
  BY Zenon, <1>12 DEF DispatchReadable, DrainWakePipe
<1>13. CASE DispatchStale
  BY Zenon, <1>13 DEF DispatchStale, DrainWakePipe, InRCode
<1>14. CASE DrainQueue
  BY Zenon, <1>14 DEF DrainQueue
<1>15. CASE Serve
  BY Zenon, <1>15 DEF Serve
<1>16. CASE DrainWsEvents
  BY <1>16 DEF DrainWsEvents
<1>17. CASE DrainWsClientEvents
  BY Zenon, <1>17 DEF DrainWsClientEvents
<1>18. CASE Rearm
  BY <1>18 DEF Rearm
<1>19. CASE UNCHANGED vars
  BY Zenon, <1>19 DEF vars
<1>20. CASE WsShutdown
  BY <1>20 DEF WsShutdown, WriteWakeByte
<1> QED
  BY Zenon, <1>1, <1>2, <1>3, <1>4, <1>5, <1>6, <1>7, <1>8, <1>9, <1>10, <1>11,
     <1>12, <1>13, <1>14, <1>15, <1>16, <1>17, <1>18, <1>19, <1>20
     DEF Next, MainThread

\* WakeInv holds in every reachable state.
THEOREM WakeInvariant == Spec => []WakeInv
<1>1. Init => WakeInv
  BY DEF Init, WakeInv, PipeIsWatched
<1> QED
  BY <1>1, WakeStep, TypeCorrect, PTL DEF Spec

\* No wakeup is ever lost, for any number of requests and any capacity of the
\* queue and of the pipe: a one-byte pipe is enough.
THEOREM WakeupsAreKept == Spec => []NoLostWakeup
<1>1. WakeInv => NoLostWakeup
  BY DEF WakeInv, PipeIsWatched, NoLostWakeup
<1> QED
  BY <1>1, WakeInvariant, PTL

\* An open pipe is always watched between two runs of the dispatcher.
THEOREM PipeStaysWatched == Spec => []PipeIsWatched
<1>1. WakeInv => PipeIsWatched
  BY Zenon DEF WakeInv
<1> QED
  BY <1>1, WakeInvariant, PTL
-----------------------------------------------------------------------------
(* Watches.                                                                *)

\* The watches that exist, a running callback counted as the one it re-arms.
Watches == armed + stale + (IF pc = "idle" THEN 0 ELSE 1)

\* Until the server is stopped there is one watch, and only on an open pipe.
\* The stop leaves at most that one behind; a later dr_ws_connect() can open a
\* second pipe beside it, and nothing can open a third.
WatchInv ==
    /\ running => everStarted /\ pipeOpen
    /\ ~pipeOpen => armed = 0
    /\ (running \/ ~everStarted) => Watches = (IF pipeOpen THEN 1 ELSE 0)
    /\ (everStarted /\ ~running) => Watches <= (IF pipeOpen THEN 2 ELSE 1)

\* WatchInv is preserved by every step of every thread.
LEMMA WatchStep == TypeOK /\ WatchInv /\ [Next]_vars => WatchInv'
<1> SUFFICES ASSUME TypeOK, WatchInv, [Next]_vars PROVE WatchInv'
  BY Zenon
<1> USE DEF TypeOK, WatchInv, Watches, httpVars, wsVars, clientVars, pipeVars
<1>1. CASE ServerStart
  BY <1>1 DEF ServerStart, EnsureDispatcherRunning
<1>2. CASE ServerStop
  BY <1>2 DEF ServerStop, ShutdownDispatcher
<1>3. CASE WsConnect
  BY <1>3 DEF WsConnect, EnsureDispatcherRunning
<1>4. ASSUME NEW r \in Requests, HandlerRefuse(r) PROVE WatchInv'
  BY Zenon, <1>4 DEF HandlerRefuse
<1>5. ASSUME NEW r \in Requests, HandlerEnqueue(r) PROVE WatchInv'
  BY Zenon, <1>5 DEF HandlerEnqueue
<1>6. ASSUME NEW r \in Requests, NotifyDispatcher(r) PROVE WatchInv'
  BY Zenon, <1>6 DEF NotifyDispatcher
<1>7. CASE EnqueueWsEvent
  BY Zenon, <1>7 DEF EnqueueWsEvent
<1>8. CASE NotifyWsEvent
  BY Zenon, <1>8 DEF NotifyWsEvent
<1>9. CASE EnqueueClientEvent
  BY Zenon, <1>9 DEF EnqueueClientEvent
<1>10. CASE NotifyClientEvent
  BY Zenon, <1>10 DEF NotifyClientEvent
<1>11. CASE DispatchTimeout
  BY <1>11 DEF DispatchTimeout, DrainWakePipe
<1>12. CASE DispatchReadable
  BY <1>12 DEF DispatchReadable, DrainWakePipe
<1>13. CASE DispatchStale
  BY <1>13 DEF DispatchStale, DrainWakePipe, InRCode
<1>14. CASE DrainQueue
  BY Zenon, <1>14 DEF DrainQueue
<1>15. CASE Serve
  BY Zenon, <1>15 DEF Serve
<1>16. CASE DrainWsEvents
  BY Zenon, <1>16 DEF DrainWsEvents
<1>17. CASE DrainWsClientEvents
  BY Zenon, <1>17 DEF DrainWsClientEvents
<1>18. CASE Rearm
  BY <1>18 DEF Rearm
<1>19. CASE UNCHANGED vars
  BY Zenon, <1>19 DEF vars
<1>20. CASE WsShutdown
  BY Zenon, <1>20 DEF WsShutdown, WriteWakeByte
<1> QED
  BY Zenon, <1>1, <1>2, <1>3, <1>4, <1>5, <1>6, <1>7, <1>8, <1>9, <1>10, <1>11,
     <1>12, <1>13, <1>14, <1>15, <1>16, <1>17, <1>18, <1>19, <1>20
     DEF Next, MainThread

\* There are never more than two fd watches, however often R code stops the
\* server or connects WebSocket clients.
THEOREM WatchesStayBounded == Spec => []WatchesBounded
<1>1. Init => WatchInv
  BY DEF Init, WatchInv, Watches
<1>2. TypeOK /\ WatchInv => WatchesBounded
  BY DEF TypeOK, WatchInv, Watches, WatchesBounded
<1> QED
  BY <1>1, <1>2, WatchStep, TypeCorrect, PTL DEF Spec
-----------------------------------------------------------------------------
(* Requests.                                                               *)

\* No request stands in s twice.
Distinct(s) == \A i, j \in 1..Len(s) : s[i] = s[j] => i = j

\* The empty sequence holds nothing.
LEMMA EmptyHolds == Distinct(<<>>) /\ \A r : ~InSeq(r, <<>>)
BY DEF Distinct, InSeq

\* Appending a new request adds it and nothing else.
LEMMA AppendHolds ==
    ASSUME NEW s \in Seq(Requests), NEW r \in Requests
    PROVE  /\ \A q \in Requests : InSeq(q, Append(s, r)) <=> InSeq(q, s) \/ q = r
           /\ Distinct(s) /\ ~InSeq(r, s) => Distinct(Append(s, r))
<1> DEFINE t == Append(s, r)
<1>1. /\ Len(t) = Len(s) + 1 /\ Len(s) \in Nat
      /\ t[Len(s) + 1] = r
      /\ \A i \in 1..Len(s) : t[i] = s[i]
  OBVIOUS
<1> HIDE DEF t
<1>2. \A i \in 1..Len(t) : i \in 1..Len(s) \/ i = Len(s) + 1
  BY <1>1
<1>3. \A i \in 1..Len(s) : i \in 1..Len(t)
  BY <1>1
<1>4. ASSUME NEW q \in Requests PROVE InSeq(q, t) <=> InSeq(q, s) \/ q = r
  <2>1. ASSUME InSeq(q, t) PROVE InSeq(q, s) \/ q = r
    BY Zenon, <1>1, <1>2, <2>1 DEF InSeq
  <2>2. ASSUME InSeq(q, s) PROVE InSeq(q, t)
    BY Zenon, <1>1, <1>3, <2>2 DEF InSeq
  <2>3. ASSUME q = r PROVE InSeq(q, t)
    BY <1>1, <2>3 DEF InSeq
  <2> QED
    BY Zenon, <2>1, <2>2, <2>3
<1>5. ASSUME Distinct(s), ~InSeq(r, s) PROVE Distinct(t)
  <2> SUFFICES ASSUME NEW i \in 1..Len(t), NEW j \in 1..Len(t), t[i] = t[j]
               PROVE i = j
    BY Zenon DEF Distinct
  <2> QED
    BY Zenon, <1>1, <1>2, <1>5 DEF Distinct, InSeq
<1> QED
  BY Zenon, <1>4, <1>5 DEF t

\* Removing the first of distinct requests removes it and nothing else.
LEMMA TailHolds ==
    ASSUME NEW s \in Seq(Requests), s # <<>>, Distinct(s)
    PROVE  /\ Head(s) \in Requests /\ InSeq(Head(s), s)
           /\ \A q \in Requests : InSeq(q, Tail(s)) <=> InSeq(q, s) /\ q # Head(s)
           /\ Distinct(Tail(s))
<1> DEFINE t == Tail(s)
<1>1. /\ Len(s) \in Nat \ {0} /\ Head(s) = s[1] /\ s[1] \in Requests
      /\ Len(t) = Len(s) - 1
      /\ \A i \in 1..Len(t) : t[i] = s[i + 1]
  OBVIOUS
<1> HIDE DEF t
<1>2. \A i \in 1..Len(t) : i + 1 \in 1..Len(s) /\ i + 1 # 1
  BY <1>1
<1>3. \A i \in 1..Len(s) : i = 1 \/ (i - 1 \in 1..Len(t) /\ t[i - 1] = s[i])
  BY <1>1
<1>4. 1 \in 1..Len(s)
  BY <1>1
<1>5. ASSUME NEW q \in Requests PROVE InSeq(q, t) <=> InSeq(q, s) /\ q # s[1]
  <2>1. ASSUME InSeq(q, t) PROVE InSeq(q, s) /\ q # s[1]
    <3>1. PICK i \in 1..Len(t) : t[i] = q
      BY Zenon, <2>1 DEF InSeq
    <3>2. i + 1 \in 1..Len(s) /\ s[i + 1] = q /\ i + 1 # 1
      BY Zenon, <1>1, <1>2, <3>1
    <3> QED
      BY Zenon, <1>4, <3>2 DEF InSeq, Distinct
  <2>2. ASSUME InSeq(q, s), q # s[1] PROVE InSeq(q, t)
    BY Zenon, <1>3, <2>2 DEF InSeq
  <2> QED
    BY Zenon, <2>1, <2>2
<1>6. Distinct(t)
  <2> SUFFICES ASSUME NEW i \in 1..Len(t), NEW j \in 1..Len(t), t[i] = t[j]
               PROVE i = j
    BY Zenon DEF Distinct
  <2>1. s[i + 1] = s[j + 1] /\ i + 1 \in 1..Len(s) /\ j + 1 \in 1..Len(s)
    BY Zenon, <1>1, <1>2
  <2>2. i + 1 = j + 1
    BY Zenon, <2>1 DEF Distinct
  <2> QED
    BY <1>1, <2>2
<1>7. InSeq(s[1], s)
  BY Zenon, <1>4 DEF InSeq
<1> QED
  BY Zenon, <1>1, <1>5, <1>6, <1>7 DEF t

\* The queue and the dispatcher's batch hold distinct pending requests, no
\* request is in both, and a batch exists only inside the serving loop.
HeldOnce ==
    /\ Distinct(queue) /\ Distinct(items)
    /\ \A r \in Requests :
        /\ InSeq(r, queue) \/ InSeq(r, items) => reply[r] = "pending"
        /\ ~(InSeq(r, queue) /\ InSeq(r, items))
    /\ pc # "serve" => items = <<>>

\* A request is answered only while it is pending, hence once.
RequestInv ==
    /\ HeldOnce /\ RespondedOnce /\ NeverSilentlyDropped
    /\ ~everStarted => ~running /\ \A r \in Requests : reply[r] = "none"

\* RequestInv is preserved by every step of every thread.
LEMMA RequestStep == TypeOK /\ RequestInv /\ [Next]_vars => RequestInv'
<1> SUFFICES ASSUME TypeOK, RequestInv, [Next]_vars PROVE RequestInv'
  BY Zenon
<1> USE DEF RequestInv, HeldOnce, RespondedOnce, NeverSilentlyDropped,
            httpVars, wsVars, clientVars, pipeVars
<1>0. /\ queue \in Seq(Requests) /\ items \in Seq(Requests)
      /\ reply \in [Requests -> Replies \union {"none", "pending"}]
      /\ responses \in [Requests -> Nat]
  BY Zenon DEF TypeOK
<1>1. CASE ServerStart
  BY Zenon, <1>1 DEF ServerStart, EnsureDispatcherRunning
<1>2. CASE ServerStop
  BY Zenon, <1>2, EmptyHolds DEF ServerStop, ShutdownDispatcher
<1>3. CASE WsConnect
  BY Zenon, <1>3 DEF WsConnect, EnsureDispatcherRunning
<1>4. ASSUME NEW r \in Requests, HandlerRefuse(r) PROVE RequestInv'
  <2>1. PICK code \in {"429", "503"} : Respond(r, code)
    BY Zenon, <1>4 DEF HandlerRefuse
  <2>2. /\ running /\ reply[r] = "none"
        /\ UNCHANGED <<running, everStarted, pc, queue, items>>
    BY Zenon, <1>4 DEF HandlerRefuse
  <2>3. /\ reply' = [reply EXCEPT ![r] = code]
        /\ responses' = [responses EXCEPT ![r] = @ + 1]
        /\ code \in Replies /\ code # "pending"
    BY Zenon, <2>1 DEF Respond, Replies
  <2>4. HeldOnce'
    BY Zenon, <1>0, <2>2, <2>3
  <2>5. RespondedOnce'
    BY <1>0, <2>2, <2>3 DEF Replies
  <2>6. NeverSilentlyDropped'
    BY Zenon, <1>0, <2>2, <2>3
  <2> QED
    BY Zenon, <2>2, <2>4, <2>5, <2>6
<1>5. ASSUME NEW r \in Requests, HandlerEnqueue(r) PROVE RequestInv'
  <2>1. /\ running /\ reply[r] = "none"
        /\ reply' = [reply EXCEPT ![r] = "pending"]
        /\ queue' = Append(queue, r)
        /\ UNCHANGED <<running, everStarted, pc, items, responses>>
    BY Zenon, <1>5 DEF HandlerEnqueue, Push
  <2>2. /\ \A q \in Requests : InSeq(q, queue') <=> InSeq(q, queue) \/ q = r
        /\ Distinct(queue')
    BY Zenon, <1>0, <2>1, AppendHolds
  <2>3. HeldOnce'
    BY Zenon, <1>0, <2>1, <2>2
  <2>4. RespondedOnce'
    BY Zenon, <1>0, <2>1 DEF Replies
  <2>5. NeverSilentlyDropped'
    BY Zenon, <1>0, <2>1, <2>2
  <2> QED
    BY Zenon, <2>1, <2>3, <2>4, <2>5
<1>6. ASSUME NEW r \in Requests, NotifyDispatcher(r) PROVE RequestInv'
  BY Zenon, <1>6 DEF NotifyDispatcher
<1>7. CASE EnqueueWsEvent
  BY Zenon, <1>7 DEF EnqueueWsEvent
<1>8. CASE NotifyWsEvent
  BY Zenon, <1>8 DEF NotifyWsEvent
<1>9. CASE EnqueueClientEvent
  BY Zenon, <1>9 DEF EnqueueClientEvent
<1>10. CASE NotifyClientEvent
  BY Zenon, <1>10 DEF NotifyClientEvent
<1>11. CASE DispatchTimeout
  BY Zenon, <1>11 DEF DispatchTimeout, DrainWakePipe
<1>12. CASE DispatchReadable
  BY Zenon, <1>12 DEF DispatchReadable, DrainWakePipe
<1>13. CASE DispatchStale
  BY Zenon, <1>13 DEF DispatchStale, DrainWakePipe, InRCode
<1>14. CASE DrainQueue
  BY Zenon, <1>14, EmptyHolds DEF DrainQueue
<1>15. CASE Serve
  <2> DEFINE r == Head(items)
  <2>1. PICK code \in {"500", "value", "stream"} : Respond(r, code)
    BY Zenon, <1>15 DEF Serve
  <2>2. /\ pc = "serve" /\ items # <<>> /\ items' = Tail(items)
        /\ UNCHANGED <<running, everStarted, pc, queue>>
    BY Zenon, <1>15 DEF Serve
  <2>3. /\ r \in Requests /\ InSeq(r, items)
        /\ \A q \in Requests : InSeq(q, items') <=> InSeq(q, items) /\ q # r
        /\ Distinct(items')
    BY Zenon, <1>0, <2>2, TailHolds
  <2> HIDE DEF r
  <2>4. /\ reply' = [reply EXCEPT ![r] = code]
        /\ responses' = [responses EXCEPT ![r] = @ + 1]
        /\ code \in Replies /\ code # "pending" /\ reply[r] = "pending"
    BY Zenon, <2>1, <2>3 DEF Respond, Replies
  <2>5. HeldOnce'
    BY Zenon, <1>0, <2>2, <2>3, <2>4
  <2>6. RespondedOnce'
    BY <1>0, <2>3, <2>4 DEF Replies
  <2>7. NeverSilentlyDropped'
    BY Zenon, <1>0, <2>2, <2>3, <2>4
  <2> QED
    BY Zenon, <1>0, <2>2, <2>3, <2>4, <2>5, <2>6, <2>7
<1>16. CASE DrainWsEvents
  BY Zenon, <1>16 DEF DrainWsEvents
<1>17. CASE DrainWsClientEvents
  BY Zenon, <1>17 DEF DrainWsClientEvents
<1>18. CASE Rearm
  BY Zenon, <1>18 DEF Rearm
<1>19. CASE UNCHANGED vars
  BY Zenon, <1>19 DEF vars
<1>20. CASE WsShutdown
  BY Zenon, <1>20 DEF WsShutdown, WriteWakeByte
<1> QED
  BY Zenon, <1>1, <1>2, <1>3, <1>4, <1>5, <1>6, <1>7, <1>8, <1>9, <1>10, <1>11,
     <1>12, <1>13, <1>14, <1>15, <1>16, <1>17, <1>18, <1>19, <1>20
     DEF Next, MainThread

\* RequestInv holds in every reachable state.
THEOREM RequestInvariant == Spec => []RequestInv
<1>1. Init => RequestInv
  BY Zenon, EmptyHolds
     DEF Init, RequestInv, HeldOnce, RespondedOnce, NeverSilentlyDropped, Replies
<1> QED
  BY <1>1, RequestStep, TypeCorrect, PTL DEF Spec

\* Every request is answered at most once, and exactly once when it leaves the
\* bridge.
THEOREM AnsweredExactlyOnce == Spec => []RespondedOnce
<1>1. RequestInv => RespondedOnce
  BY Zenon DEF RequestInv
<1> QED
  BY <1>1, RequestInvariant, PTL

\* While the server runs, no accepted request is lost.
THEOREM NothingIsDropped == Spec => []NeverSilentlyDropped
<1>1. RequestInv => NeverSilentlyDropped
  BY Zenon DEF RequestInv
<1> QED
  BY <1>1, RequestInvariant, PTL
-----------------------------------------------------------------------------
(* Capacity.                                                               *)

\* The limit set by dr_serve() is in force while I/O threads can push, and an
\* idle bridge has nothing queued.
CapacityInv ==
    /\ QueueBounded
    /\ running => queueMax = MaxQueue
    /\ ~running => queue = <<>>

\* CapacityInv holds in every reachable state.
THEOREM CapacityInvariant == Spec => []CapacityInv
<1>1. Init => CapacityInv
  BY DispatcherAssumption DEF Init, CapacityInv, QueueBounded
<1>2. TypeOK /\ CapacityInv /\ [Next]_vars => CapacityInv'
  <2> SUFFICES ASSUME TypeOK, CapacityInv, [Next]_vars PROVE CapacityInv'
    BY Zenon
  <2> USE DispatcherAssumption
      DEF TypeOK, CapacityInv, QueueBounded, httpVars, wsVars, clientVars, pipeVars
  <2>1. CASE ServerStart
    BY Zenon, <2>1 DEF ServerStart, EnsureDispatcherRunning
  <2>2. CASE ServerStop
    BY <2>2 DEF ServerStop, ShutdownDispatcher
  <2>3. CASE WsConnect
    BY Zenon, <2>3 DEF WsConnect, EnsureDispatcherRunning
  <2>4. ASSUME NEW r \in Requests, HandlerRefuse(r) PROVE CapacityInv'
    BY Zenon, <2>4 DEF HandlerRefuse
  <2>5. ASSUME NEW r \in Requests, HandlerEnqueue(r) PROVE CapacityInv'
    BY <2>5 DEF HandlerEnqueue, Push, QueueFull
  <2>6. ASSUME NEW r \in Requests, NotifyDispatcher(r) PROVE CapacityInv'
    BY Zenon, <2>6 DEF NotifyDispatcher
  <2>7. CASE EnqueueWsEvent
    BY Zenon, <2>7 DEF EnqueueWsEvent
  <2>8. CASE NotifyWsEvent
    BY Zenon, <2>8 DEF NotifyWsEvent
  <2>9. CASE EnqueueClientEvent
    BY Zenon, <2>9 DEF EnqueueClientEvent
  <2>10. CASE NotifyClientEvent
    BY Zenon, <2>10 DEF NotifyClientEvent
  <2>11. CASE DispatchTimeout
    BY Zenon, <2>11 DEF DispatchTimeout, DrainWakePipe
  <2>12. CASE DispatchReadable
    BY Zenon, <2>12 DEF DispatchReadable, DrainWakePipe
  <2>13. CASE DispatchStale
    BY Zenon, <2>13 DEF DispatchStale, DrainWakePipe, InRCode
  <2>14. CASE DrainQueue
    BY <2>14 DEF DrainQueue
  <2>15. CASE Serve
    BY <2>15 DEF Serve
  <2>16. CASE DrainWsEvents
    BY Zenon, <2>16 DEF DrainWsEvents
  <2>17. CASE DrainWsClientEvents
    BY Zenon, <2>17 DEF DrainWsClientEvents
  <2>18. CASE Rearm
    BY Zenon, <2>18 DEF Rearm
  <2>19. CASE UNCHANGED vars
    BY Zenon, <2>19 DEF vars
  <2>20. CASE WsShutdown
    BY Zenon, <2>20 DEF WsShutdown, WriteWakeByte
  <2> QED
    BY Zenon, <2>1, <2>2, <2>3, <2>4, <2>5, <2>6, <2>7, <2>8, <2>9, <2>10, <2>11,
       <2>12, <2>13, <2>14, <2>15, <2>16, <2>17, <2>18, <2>19, <2>20
       DEF Next, MainThread
<1> QED
  BY <1>1, <1>2, TypeCorrect, PTL DEF Spec

\* The queue and the batch swapped out of it never exceed max_queue.
THEOREM CapacityRespected == Spec => []QueueBounded
<1>1. CapacityInv => QueueBounded
  BY Zenon DEF CapacityInv
<1> QED
  BY <1>1, CapacityInvariant, PTL
-----------------------------------------------------------------------------
(* The bridge implements RequestService.                                   *)

\* What became of a request that was answered `code' and is held or not.
Outcome(code, held) ==
    CASE code = "none" -> "none"
      [] code = "429" -> "limited"
      [] code = "503" -> "shed"
      [] code \in {"500", "value", "stream"} -> "answered"
      [] code = "pending" -> IF held THEN "pending" ELSE "dropped"

LEMMA OutcomeOf ==
    /\ \A h : Outcome("none", h) = "none" /\ Outcome("429", h) = "limited"
              /\ Outcome("503", h) = "shed"
    /\ \A h, c : c \in {"500", "value", "stream"} => Outcome(c, h) = "answered"
    /\ Outcome("pending", TRUE) = "pending" /\ Outcome("pending", FALSE) = "dropped"
BY Zenon DEF Outcome

Held(r) == InSeq(r, items) \/ InSeq(r, queue)

\* The mapped outcome, request by request, before and after a step.
LEMMA MappedOutcome ==
    /\ ServiceOutcome = [r \in Requests |-> Outcome(reply[r], Held(r))]
    /\ ServiceOutcome' = [r \in Requests |-> Outcome(reply'[r], Held(r)')]
BY Zenon DEF ServiceOutcome, Outcome, Held

\* What the two queues hold, one behind the other.
LEMMA Behind ==
    ASSUME NEW s \in Seq(Requests), NEW t \in Seq(Requests)
    PROVE  /\ s \o <<>> = s /\ <<>> \o s = s
           /\ Len(s) \in Nat /\ Len(t) \in Nat /\ Len(s \o t) = Len(s) + Len(t)
           /\ SubSeq(s \o t, 1, Len(s)) = s
           /\ \A r \in Requests :
                InSeq(r, t) <=> \E i \in (Len(s) + 1)..Len(s \o t) : (s \o t)[i] = r
           /\ \A r \in Requests : s \o Append(t, r) = Append(s \o t, r)
           /\ s # <<>> => /\ s \o t # <<>> /\ Head(s \o t) = Head(s)
                          /\ Tail(s \o t) = Tail(s) \o t
<1> DEFINE c == s \o t
<1>1. /\ s \o <<>> = s /\ <<>> \o s = s /\ Len(s) \in Nat /\ Len(t) \in Nat
      /\ Len(c) = Len(s) + Len(t) /\ c \in Seq(Requests)
  OBVIOUS
<1>2. SubSeq(c, 1, Len(s)) = s
  OBVIOUS
<1>3. /\ \A i \in 1..Len(t) : c[Len(s) + i] = t[i]
      /\ \A i \in 1..Len(s) : c[i] = s[i]
  OBVIOUS
<1>4. \A r \in Requests : s \o Append(t, r) = Append(c, r)
  OBVIOUS
<1>5. ASSUME s # <<>> PROVE c # <<>> /\ Head(c) = Head(s) /\ Tail(c) = Tail(s) \o t
  BY <1>5
<1> HIDE DEF c
<1>6. ASSUME NEW r \in Requests
      PROVE  InSeq(r, t) <=> \E i \in (Len(s) + 1)..Len(c) : c[i] = r
  <2>1. \A i \in 1..Len(t) : Len(s) + i \in (Len(s) + 1)..Len(c)
    BY <1>1
  <2>2. \A i \in (Len(s) + 1)..Len(c) : i - Len(s) \in 1..Len(t) /\ Len(s) + (i - Len(s)) = i
    BY <1>1
  <2>3. InSeq(r, t) => \E i \in (Len(s) + 1)..Len(c) : c[i] = r
    BY Zenon, <1>3, <2>1 DEF InSeq
  <2>4. (\E i \in (Len(s) + 1)..Len(c) : c[i] = r) => InSeq(r, t)
    BY Zenon, <1>3, <2>2 DEF InSeq
  <2> QED
    BY Zenon, <2>3, <2>4
<1> QED
  BY Zenon, <1>1, <1>2, <1>4, <1>5, <1>6 DEF c

\* Every step of the bridge is a step of the service, or none.
LEMMA ServiceStep ==
    TypeOK /\ RequestInv /\ CapacityInv /\ [Next]_vars
        => [Service!Next]_(Service!serviceVars)
<1> SUFFICES ASSUME TypeOK, RequestInv, CapacityInv, [Next]_vars
             PROVE  Service!Next \/ UNCHANGED Service!serviceVars
  BY Zenon
<1> DEFINE o == ServiceOutcome
           held == items \o queue
<1>0. /\ queue \in Seq(Requests) /\ items \in Seq(Requests) /\ running \in BOOLEAN
      /\ reply \in [Requests -> Replies \union {"none", "pending"}]
      /\ HeldOnce
  BY Zenon DEF TypeOK, RequestInv
<1>1. /\ o \in [Requests -> {Outcome(reply[r], Held(r)) : r \in Requests}]
      /\ \A r \in Requests : o[r] = Outcome(reply[r], Held(r))
      /\ o' = [r \in Requests |-> Outcome(reply'[r], Held(r)')]
  BY Zenon, MappedOutcome
<1>2. ASSUME UNCHANGED <<running, queue, items, reply>>
      PROVE  UNCHANGED Service!serviceVars
  <2>1. \A r \in Requests : Held(r)' = Held(r)
    BY Zenon, <1>2 DEF Held, InSeq
  <2>2. o' = o
    BY Zenon, <1>2, <2>1, MappedOutcome
  <2> QED
    BY Zenon, <1>2, <2>2 DEF Service!serviceVars
<1>3. CASE ServerStart
  <2>1. ~everStarted /\ ~running /\ running' = TRUE /\ UNCHANGED <<queue, items, reply>>
    BY Zenon, <1>3 DEF ServerStart
  <2>2. \A r \in Requests : o[r] = "none"
    BY Zenon, <1>1, <2>1, OutcomeOf DEF RequestInv
  <2>3. o' = o
    <3>1. \A r \in Requests : Held(r)' = Held(r)
      BY Zenon, <2>1 DEF Held, InSeq
    <3> QED
      BY Zenon, <2>1, <3>1, MappedOutcome
  <2>4. Service!Open
    BY Zenon, <2>1, <2>2, <2>3 DEF Service!Open
  <2> QED
    BY Zenon, <2>4 DEF Service!Next
<1>4. CASE ServerStop
  <2>1. /\ running /\ running' = FALSE /\ queue' = <<>>
        /\ items' = items /\ reply' = reply
    BY Zenon, <1>4 DEF ServerStop, ShutdownDispatcher
  <2> DEFINE k == Len(items)
  <2>2. k \in 0..Len(held) /\ items' \o queue' = SubSeq(held, 1, k)
    <3>1. Len(held) = Len(items) + Len(queue) /\ Len(items) \in Nat /\ Len(queue) \in Nat
      BY Zenon, <1>0, Behind
    <3>2. k \in 0..Len(held)
      BY <3>1
    <3>3. items \o <<>> = items /\ SubSeq(held, 1, k) = items
      BY Zenon, <1>0, Behind
    <3> QED
      BY Zenon, <2>1, <3>2, <3>3
  <2>3. ASSUME NEW r \in Requests
        PROVE  Outcome(reply'[r], Held(r)') =
                 IF \E i \in (k + 1)..Len(held) : held[i] = r THEN "dropped" ELSE o[r]
    <3>1. InSeq(r, queue) <=> \E i \in (k + 1)..Len(held) : held[i] = r
      BY <1>0, Behind
    <3>2. Held(r)' <=> InSeq(r, items)
      BY Zenon, <2>1, EmptyHolds DEF Held
    <3>3. o[r] = Outcome(reply[r], Held(r)) /\ reply'[r] = reply[r]
      BY Zenon, <1>1, <2>1
    <3>4. CASE InSeq(r, queue)
      <4>1. Held(r)' = FALSE /\ reply'[r] = "pending"
        BY Zenon, <1>0, <2>1, <3>2, <3>4 DEF HeldOnce, Held, InSeq
      <4> QED
        BY Zenon, <3>1, <3>4, <4>1, OutcomeOf
    <3>5. CASE ~InSeq(r, queue)
      <4>1. Held(r)' = Held(r)
        BY Zenon, <3>2, <3>5 DEF Held, InSeq
      <4> QED
        BY Zenon, <3>1, <3>3, <3>5, <4>1
    <3> QED
      BY Zenon, <3>4, <3>5
  <2>4. o' = [r \in Requests |->
                IF \E i \in (k + 1)..Len(held) : held[i] = r THEN "dropped" ELSE o[r]]
    BY Zenon, <1>1, <2>3
  <2>5. Service!Close
    BY Zenon, <2>1, <2>2, <2>4 DEF Service!Close
  <2> QED
    BY Zenon, <2>5 DEF Service!Next
<1>5. ASSUME NEW r \in Requests, reply[r] = "none", NEW code \in {"429", "503"},
             reply' = [reply EXCEPT ![r] = code], UNCHANGED <<running, queue, items>>
      PROVE  /\ o[r] = "none" /\ held' = held
             /\ o' = [o EXCEPT ![r] = IF code = "429" THEN "limited" ELSE "shed"]
  <2>1. /\ \A t \in Requests : Held(t)' = Held(t)
        /\ \A t \in Requests \ {r} : reply'[t] = reply[t]
        /\ reply'[r] = code
    BY Zenon, <1>0, <1>5 DEF Held, InSeq
  <2>2. o'[r] = IF code = "429" THEN "limited" ELSE "shed"
    <3>1. o'[r] = Outcome(code, Held(r)') /\ (code = "429" \/ code = "503")
      BY Zenon, <1>1, <1>5, <2>1
    <3> QED
      BY Zenon, <3>1, OutcomeOf
  <2>3. \A t \in Requests \ {r} : o'[t] = o[t]
    BY Zenon, <1>1, <2>1
  <2>4. o' = [o EXCEPT ![r] = IF code = "429" THEN "limited" ELSE "shed"]
    BY Zenon, <1>1, <2>2, <2>3
  <2>5. o[r] = "none"
    BY Zenon, <1>1, <1>5, OutcomeOf
  <2>6. held' = held
    BY Zenon, <1>5
  <2> QED
    BY Zenon, <2>4, <2>5, <2>6
<1>6. ASSUME NEW r \in Requests, HandlerRefuse(r) PROVE Service!Next
  <2>1. running /\ reply[r] = "none" /\ UNCHANGED <<running, queue, items>>
    BY Zenon, <1>6 DEF HandlerRefuse
  <2>2. CASE Respond(r, "429")
    <3>1. Service!Limit(r)
      BY Zenon, <1>5, <2>1, <2>2 DEF Service!Limit, Respond
    <3> QED
      BY Zenon, <3>1 DEF Service!Next
  <2>3. CASE QueueFull /\ Respond(r, "503")
    <3>1. Len(held) >= MaxQueue
      <4>1. Len(held) = Len(items) + Len(queue) /\ Len(items) \in Nat /\ Len(queue) \in Nat
        BY Zenon, <1>0, Behind
      <4>2. Len(queue) >= MaxQueue /\ MaxQueue \in Nat
        BY Zenon, <2>1, <2>3, DispatcherAssumption DEF QueueFull, CapacityInv
      <4> QED
        BY <4>1, <4>2
    <3>2. "503" # "429"
      BY Zenon
    <3>3. o[r] = "none" /\ held' = held /\ o' = [o EXCEPT ![r] = "shed"]
      BY Zenon, <1>5, <2>1, <2>3, <3>2 DEF Respond
    <3>4. Service!Shed(r)
      BY Zenon, <2>1, <3>1, <3>3 DEF Service!Shed
    <3> QED
      BY Zenon, <3>4 DEF Service!Next
  <2> QED
    BY Zenon, <1>6, <2>2, <2>3 DEF HandlerRefuse
<1>7. ASSUME NEW r \in Requests, HandlerEnqueue(r) PROVE Service!Next
  <2>1. /\ running /\ reply[r] = "none" /\ queue' = Append(queue, r)
        /\ reply' = [reply EXCEPT ![r] = "pending"] /\ UNCHANGED <<running, items>>
    BY Zenon, <1>7 DEF HandlerEnqueue, Push
  <2>2. \A q \in Requests : InSeq(q, queue') <=> InSeq(q, queue) \/ q = r
    BY Zenon, <1>0, <2>1, AppendHolds
  <2>3. /\ \A t \in Requests \ {r} : Held(t)' = Held(t) /\ reply'[t] = reply[t]
        /\ Held(r)' = TRUE /\ reply'[r] = "pending"
    <3>1. \A t \in Requests \ {r} : reply'[t] = reply[t]
      BY Zenon, <1>0, <2>1
    <3>2. reply'[r] = "pending"
      BY Zenon, <1>0, <2>1
    <3>3. \A t \in Requests : InSeq(t, items)' = InSeq(t, items)
      BY Zenon, <2>1 DEF InSeq
    <3>4. \A t \in Requests : Held(t)' = (InSeq(t, items) \/ InSeq(t, queue) \/ t = r)
      BY Zenon, <2>1, <2>2, <3>3 DEF Held, InSeq
    <3> QED
      BY Zenon, <3>1, <3>2, <3>4 DEF Held
  <2>4. o[r] = "none" /\ o'[r] = "pending" /\ \A t \in Requests \ {r} : o'[t] = o[t]
    <3>1. o[r] = Outcome("none", Held(r)) /\ o'[r] = Outcome("pending", TRUE)
      BY Zenon, <1>1, <2>1, <2>3
    <3>2. \A t \in Requests \ {r} : o'[t] = o[t]
      BY Zenon, <1>1, <2>3
    <3> QED
      BY Zenon, <3>1, <3>2, OutcomeOf
  <2>5. o' = [o EXCEPT ![r] = "pending"]
    BY Zenon, <1>1, <2>4
  <2>6. held' = Append(held, r)
    <3>1. items \o Append(queue, r) = Append(items \o queue, r)
      BY <1>0
    <3> QED
      BY Zenon, <2>1, <3>1
  <2>7. Service!Accept(r)
    BY Zenon, <2>1, <2>4, <2>5, <2>6 DEF Service!Accept
  <2> QED
    BY Zenon, <2>7 DEF Service!Next
<1>8. CASE DrainQueue
  <2>1. items = <<>> /\ items' = queue /\ queue' = <<>> /\ UNCHANGED <<running, reply>>
    <3>1. pc # "serve"
      BY Zenon, <1>8 DEF DrainQueue
    <3> QED
      BY Zenon, <1>0, <1>8, <3>1 DEF DrainQueue, HeldOnce
  <2>2. held' = held
    BY Zenon, <1>0, <2>1, Behind
  <2>3. \A r \in Requests : Held(r)' = Held(r)
    BY Zenon, <2>1, EmptyHolds DEF Held, InSeq
  <2>4. o' = o
    BY Zenon, <2>1, <2>3, MappedOutcome
  <2> QED
    BY Zenon, <2>1, <2>2, <2>4 DEF Service!serviceVars
<1>9. CASE Serve
  <2> DEFINE r == Head(items)
  <2>1. PICK code \in {"500", "value", "stream"} : Respond(r, code)
    BY Zenon, <1>9 DEF Serve
  <2>2. /\ items # <<>> /\ items' = Tail(items) /\ UNCHANGED <<running, queue>>
        /\ reply' = [reply EXCEPT ![r] = code]
    BY Zenon, <1>9, <2>1 DEF Serve, Respond
  <2>3. /\ r \in Requests
        /\ \A q \in Requests : InSeq(q, items') <=> InSeq(q, items) /\ q # r
    BY Zenon, <1>0, <2>2, TailHolds DEF HeldOnce
  <2>4. held # <<>> /\ Head(held) = r /\ held' = Tail(held)
    BY Zenon, <1>0, <2>2, Behind
  <2> HIDE DEF r
  <2>5. /\ \A t \in Requests \ {r} : Held(t)' = Held(t) /\ reply'[t] = reply[t]
        /\ reply'[r] = code
    BY Zenon, <1>0, <2>2, <2>3 DEF Held, InSeq
  <2>6. o'[r] = "answered" /\ \A t \in Requests \ {r} : o'[t] = o[t]
    BY Zenon, <1>1, <2>3, <2>5, OutcomeOf
  <2>7. o' = [o EXCEPT ![r] = "answered"]
    BY Zenon, <1>1, <2>3, <2>6
  <2>8. Service!Answer
    BY Zenon, <2>2, <2>4, <2>7 DEF Service!Answer
  <2> QED
    BY Zenon, <2>8 DEF Service!Next
<1>10. CASE WsConnect \/ WsShutdown \/ EnqueueWsEvent \/ NotifyWsEvent \/ EnqueueClientEvent
            \/ NotifyClientEvent \/ \E r \in Requests : NotifyDispatcher(r)
  <2>1. UNCHANGED <<running, queue, items, reply>>
    BY Zenon, <1>10 DEF WsConnect, WsShutdown, EnqueueWsEvent, NotifyWsEvent,
         EnqueueClientEvent, NotifyClientEvent, NotifyDispatcher, httpVars
  <2> QED
    BY Zenon, <1>2, <2>1
<1>11. CASE DispatchTimeout \/ DispatchReadable \/ DispatchStale \/ DrainWsEvents
            \/ DrainWsClientEvents \/ Rearm \/ UNCHANGED vars
  <2>1. UNCHANGED <<running, queue, items, reply>>
    BY Zenon, <1>11 DEF DispatchTimeout, DispatchReadable, DispatchStale, DrainWsEvents,
         DrainWsClientEvents, Rearm, httpVars, vars
  <2> QED
    BY Zenon, <1>2, <2>1
<1> QED
  BY Zenon, <1>3, <1>4, <1>6, <1>7, <1>8, <1>9, <1>10, <1>11 DEF Next, MainThread

\* The bridge with its threads, its pipe and its two queues implements the
\* abstract request service, for any set of requests and any capacities:
\* requests are answered once, in the order of their acceptance, shed only with
\* max_queue of them waiting and lost only when the server is stopped.
THEOREM BridgeImplementsService == Spec => ImplementsService
<1>1. Init => Service!Init
  <2> SUFFICES ASSUME Init PROVE Service!Init
    BY Zenon
  <2>1. items \o queue = <<>> /\ ~running
    BY DEF Init
  <2>2. \A r \in Requests : reply[r] = "none"
    BY Zenon DEF Init
  <2>3. ServiceOutcome = [r \in Requests |-> "none"]
    BY Zenon, <2>2, MappedOutcome, OutcomeOf
  <2> QED
    BY Zenon, <2>1, <2>3 DEF Service!Init, Init
<1> QED
  BY <1>1, ServiceStep, TypeCorrect, RequestInvariant, CapacityInvariant, PTL
     DEF Spec, ImplementsService, Service!Spec
=============================================================================
