-------------------------- MODULE WsSessionProofs --------------------------
(***************************************************************************)
(* Proofs about WsSession, for any sets of connections and rooms, any      *)
(* limit and any bounds: what the hooks and the native handlers hear of a  *)
(* connection comes in order, a session that ends leaves its rooms, and    *)
(* the count of the sessions of a route is right and within its limit.     *)
(***************************************************************************)
EXTENDS WsSession, TLAPS

EventTypes == {"connect", "message", "close"}
Events == [type : EventTypes, id : RConns]
Regs == {"none", "live", "gone"}
Sessions == [reg : Regs, ctx : BOOLEAN, closing : BOOLEAN, counted : BOOLEAN]

\* Everything of TypeOK but the count.
SessionTypes ==
    /\ server \in {"up", "stopping", "down"} /\ routes \in BOOLEAN
    /\ net \in [Conns -> {"none", "open", "shut", "closed"}]
    /\ sess \in [Conns -> Sessions]
    /\ io \in [Conns -> {"idle", "connect", "close", "erase"}]
    /\ main \in {"idle", "drain", "hook", "skip", "stop"}
    /\ backend \in [Conns -> {"idle", "send", "shutdown"}]
    /\ deadUse \in BOOLEAN
    /\ rooms \in [Rooms -> SUBSET RConns]
    /\ reap \in SUBSET CppConns
    /\ frames \in [Conns -> 0..MaxMsgs]
    /\ tasks \in [Conns -> Seq({"send", "shutdown"})]

QueueTypes ==
    /\ events \in Seq(Events) /\ batch \in Seq(Events)
    /\ heard \in [Conns -> Seq(EventTypes)]

\* Where the threads are: a drained batch is being worked on, its head until
\* the hook returns; the loops are idle once they are joined; the routes go
\* with the server.
ThreadInv ==
    /\ main = "idle" => batch = <<>>
    /\ main \in {"hook", "skip"} => batch # <<>>
    /\ server = "down" => \A c \in Conns : io[c] = "idle"
    /\ ~routes => server = "down"
    /\ main = "skip" => ~routes

\* A connection and its session: handlers on the loop thread exist for native
\* routes only, and a session is registered after the connect and taken out by
\* the close.
ConnInv(c) ==
    /\ c \notin CppConns => io[c] = "idle" /\ ~sess[c].counted /\ backend[c] = "idle"
    /\ net[c] = "none" => io[c] = "idle" /\ sess[c].reg = "none" /\ ~sess[c].counted
    /\ io[c] = "connect" => sess[c].reg = "none" /\ ~sess[c].counted
    /\ io[c] = "close" => sess[c].reg = "live"
    /\ io[c] = "erase" => sess[c].reg = "gone"
    /\ (c \in CppConns /\ sess[c].reg = "live") => sess[c].counted = (MaxConns > 0)
    /\ MaxConns = 0 => ~sess[c].counted

\* What was heard of a connection: in order, and not yet over or over.
InOrder(h) ==
    \A i \in 1..Len(h) : /\ h[i] = "connect" <=> i = 1
                         /\ h[i] = "close" => i = Len(h)

Over(h) == h # <<>> /\ h[Len(h)] = "close"

\* Native handlers are called on the loop thread.
CppHeard(c) ==
    /\ InOrder(heard[c])
    /\ sess[c].reg = "none" => heard[c] = <<>>
    /\ sess[c].reg = "live" => heard[c] # <<>> /\ ~Over(heard[c])
    /\ (sess[c].reg = "gone" /\ server # "down") => Over(heard[c])

\* The events R hooks are yet to be called with, oldest first.
Taken == main \in {"hook", "skip", "stop"} /\ batch # <<>>
Queue == batch \o events
Rest == IF Taken THEN Tail(Queue) ELSE Queue

\* What was heard of connection c, in state n, with what is to be heard.
Continues(h, c, s, n) ==
    /\ \A i \in 1..Len(s) : s[i].id = c =>
            (s[i].type = "connect" <=> h = <<>> /\ \A j \in 1..(i - 1) : s[j].id # c)
    /\ \A i \in 1..Len(s) : (s[i].id = c /\ s[i].type = "close") =>
            \A j \in 1..Len(s) : s[j].id = c => j <= i
    /\ Over(h) => \A i \in 1..Len(s) : s[i].id # c
    /\ n = "none" => h = <<>> /\ \A i \in 1..Len(s) : s[i].id # c
    /\ n \in {"open", "shut"} =>
            ~Over(h) /\ \A i \in 1..Len(s) : s[i].id = c => s[i].type # "close"
    /\ n # "none" => h # <<>> \/ \E i \in 1..Len(s) : s[i].id = c

\* R hooks are called from the queue, as long as their routes exist.
RHeard(c) ==
    /\ InOrder(heard[c])
    /\ routes => Continues(heard[c], c, Rest, net[c])
    /\ (sess[c].reg = "gone" /\ server = "up") => Over(heard[c])

\* The hook that runs was called with the head of the batch.
HookInv ==
    (main = "hook" /\ routes) =>
        /\ heard[Head(batch).id] # <<>>
        /\ heard[Head(batch).id][Len(heard[Head(batch).id])] = Head(batch).type

SessionInv ==
    /\ SessionTypes /\ QueueTypes /\ ThreadInv /\ HookInv
    /\ \A c \in Conns : ConnInv(c)
    /\ \A c \in CppConns : CppHeard(c)
    /\ \A c \in RConns : RHeard(c)
-----------------------------------------------------------------------------
(* What is heard, and what is to be heard.                                 *)

\* One more event is heard.
LEMMA HearAppend ==
    ASSUME NEW h \in Seq(EventTypes), NEW t \in EventTypes
    PROVE  /\ Append(h, t) \in Seq(EventTypes)
           /\ Append(h, t) # <<>> /\ Append(h, t)[Len(Append(h, t))] = t
           /\ Over(Append(h, t)) <=> t = "close"
           /\ h = <<>> => InOrder(Append(h, "connect"))
           /\ (InOrder(h) /\ h # <<>> /\ ~Over(h) /\ t # "connect") => InOrder(Append(h, t))
<1> DEFINE g == Append(h, t)
<1>1. /\ g \in Seq(EventTypes) /\ Len(g) = Len(h) + 1 /\ g # <<>> /\ Len(h) \in Nat
      /\ g[Len(g)] = t /\ \A i \in 1..Len(h) : g[i] = h[i]
  OBVIOUS
<1>2. h = <<>> => Len(Append(h, "connect")) = 1 /\ Append(h, "connect")[1] = "connect"
  OBVIOUS
<1>3. h # <<>> => Len(h) > 0
  OBVIOUS
<1> HIDE DEF g
<1>4. Over(g) <=> t = "close"
  BY Zenon, <1>1 DEF Over
<1>5. h = <<>> => InOrder(Append(h, "connect"))
  BY <1>2 DEF InOrder
<1>6. ASSUME InOrder(h), h # <<>>, ~Over(h), t # "connect" PROVE InOrder(g)
  <2>1. \A i \in 1..Len(h) : h[i] # "close"
    BY Zenon, <1>6 DEF InOrder, Over
  <2> SUFFICES ASSUME NEW i \in 1..Len(g)
               PROVE  (g[i] = "connect" <=> i = 1) /\ (g[i] = "close" => i = Len(g))
    BY Zenon DEF InOrder
  <2>2. CASE i = Len(g)
    BY <1>1, <1>3, <1>6, <2>2
  <2>3. CASE i # Len(g)
    <3>1. i \in 1..Len(h)
      BY <1>1, <2>3
    <3> QED
      BY Zenon, <1>1, <1>6, <2>1, <3>1 DEF InOrder
  <2> QED
    BY Zenon, <2>2, <2>3
<1> QED
  BY Zenon, <1>1, <1>4, <1>5, <1>6 DEF g

\* An event is queued.
LEMMA QueueAppend ==
    ASSUME NEW s \in Seq(Events), NEW e \in Events, NEW h, NEW c, NEW n,
           Continues(h, c, s, n)
    PROVE  /\ e.id # c => Continues(h, c, Append(s, e), n)
           /\ (e.id = c /\ e.type = "connect" /\ n = "none")
                => Continues(h, c, Append(s, e), "open")
           /\ (e.id = c /\ e.type = "message" /\ n \in {"open", "shut"})
                => Continues(h, c, Append(s, e), n)
           /\ (e.id = c /\ e.type = "close" /\ n \in {"open", "shut"})
                => Continues(h, c, Append(s, e), "closed")
<1> DEFINE g == Append(s, e)
<1>1. /\ g \in Seq(Events) /\ Len(g) = Len(s) + 1 /\ Len(s) \in Nat
      /\ g[Len(s) + 1] = e /\ \A i \in 1..Len(s) : g[i] = s[i]
  OBVIOUS
<1> HIDE DEF g
<1>2. /\ \A i \in 1..Len(g) : i \in 1..Len(s) \/ i = Len(s) + 1
      /\ \A i \in 1..Len(s) : i \in 1..Len(g) /\ 1..(i - 1) \subseteq 1..Len(s)
                              /\ i # Len(s) + 1 /\ i <= Len(s) + 1
      /\ Len(s) + 1 \in 1..Len(g) /\ 1..((Len(s) + 1) - 1) = 1..Len(s)
      /\ Len(s) + 1 <= Len(s) + 1
  BY <1>1
<1>3. ASSUME e.id # c PROVE Continues(h, c, g, n)
  BY Zenon, <1>1, <1>2, <1>3 DEF Continues
<1>4. ASSUME e.id = c, e.type = "connect", n = "none" PROVE Continues(h, c, g, "open")
  <2>1. h = <<>> /\ \A i \in 1..Len(s) : s[i].id # c
    BY Zenon, <1>4 DEF Continues
  <2>2. ~Over(h)
    BY Zenon, <2>1 DEF Over
  <2> QED
    BY <1>1, <1>2, <1>4, <2>1, <2>2 DEF Continues
<1>5. ASSUME e.id = c, e.type = "message", n \in {"open", "shut"}
      PROVE  Continues(h, c, g, n)
  <2>1. /\ ~Over(h) /\ \A i \in 1..Len(s) : s[i].id = c => s[i].type # "close"
        /\ h # <<>> \/ \E i \in 1..Len(s) : s[i].id = c
    BY <1>5 DEF Continues
  <2> QED
    BY SMTT(30), <1>1, <1>2, <1>5, <2>1 DEF Continues
<1>6. ASSUME e.id = c, e.type = "close", n \in {"open", "shut"}
      PROVE  Continues(h, c, g, "closed")
  <2>1. /\ ~Over(h) /\ \A i \in 1..Len(s) : s[i].id = c => s[i].type # "close"
        /\ h # <<>> \/ \E i \in 1..Len(s) : s[i].id = c
    BY <1>6 DEF Continues
  <2> QED
    BY <1>1, <1>2, <1>6, <2>1 DEF Continues
<1> QED
  BY Zenon, <1>3, <1>4, <1>5, <1>6 DEF g

\* A connection is shut down, or closes without a session.
LEMMA NetChanges ==
    ASSUME NEW s, NEW h, NEW c, NEW n \in {"open", "shut"}, NEW k \in {"shut", "closed"},
           Continues(h, c, s, n)
    PROVE  Continues(h, c, s, k)
BY DEF Continues

\* A hook is called with the oldest event.
LEMMA QueueTail ==
    ASSUME NEW s \in Seq(Events), s # <<>>, NEW h \in Seq(EventTypes), NEW c, NEW n,
           Continues(h, c, s, n), InOrder(h)
    PROVE  IF s[1].id = c
           THEN /\ Continues(Append(h, s[1].type), c, Tail(s), n)
                /\ InOrder(Append(h, s[1].type))
           ELSE Continues(h, c, Tail(s), n)
<1> DEFINE g == Tail(s)
           k == Append(h, s[1].type)
<1>1. /\ g \in Seq(Events) /\ Len(g) = Len(s) - 1 /\ Len(s) \in Nat /\ Len(s) > 0
      /\ \A i \in 1..Len(g) : g[i] = s[i + 1]
      /\ s[1] \in Events
  OBVIOUS
<1>2. s[1].type \in EventTypes
  BY Zenon, <1>1 DEF Events
<1> HIDE DEF g
<1>3. /\ \A i \in 1..Len(g) : i + 1 \in 1..Len(s) /\ i + 1 > 1 /\ i + 1 # 1
      /\ \A i \in 1..Len(s) : i = 1 \/ (i - 1 \in 1..Len(g) /\ s[i] = g[i - 1])
      /\ 1 \in 1..Len(s)
      /\ \A i \in 1..Len(g) : \A j \in 1..((i + 1) - 1) : j = 1 \/ (j - 1 \in 1..(i - 1) /\ s[j] = g[j - 1])
      /\ \A i \in 1..Len(g) : \A j \in 1..(i - 1) : j + 1 \in 1..((i + 1) - 1) /\ g[j] = s[j + 1]
      /\ \A i, j \in 1..Len(g) : j + 1 <= i + 1 => j <= i
  BY <1>1
<1>4. ASSUME s[1].id # c PROVE Continues(h, c, g, n)
  <2>1. ASSUME NEW i \in 1..Len(g), g[i].id = c
        PROVE  g[i].type = "connect" <=> h = <<>> /\ \A j \in 1..(i - 1) : g[j].id # c
    <3>1. s[i + 1].type = "connect" <=> h = <<>> /\ \A j \in 1..((i + 1) - 1) : s[j].id # c
      BY <1>1, <1>3, <2>1 DEF Continues
    <3>2. (\A j \in 1..((i + 1) - 1) : s[j].id # c) <=> \A j \in 1..(i - 1) : g[j].id # c
      BY <1>3, <1>4
    <3> QED
      BY <1>1, <3>1, <3>2
  <2>2. ASSUME NEW i \in 1..Len(g), g[i].id = c, g[i].type = "close",
               NEW j \in 1..Len(g), g[j].id = c
        PROVE  j <= i
    BY <1>1, <1>3, <2>2 DEF Continues
  <2>3. (\A i \in 1..Len(s) : s[i].id # c) <=> \A i \in 1..Len(g) : g[i].id # c
    BY <1>1, <1>3, <1>4
  <2>4. (\A i \in 1..Len(s) : s[i].id = c => s[i].type # "close")
            => \A i \in 1..Len(g) : g[i].id = c => g[i].type # "close"
    BY <1>1, <1>3
  <2> QED
    BY Zenon, <2>1, <2>2, <2>3, <2>4 DEF Continues
<1>5. ASSUME s[1].id = c PROVE Continues(k, c, g, n) /\ InOrder(k)
  <2>1. k # <<>> /\ (Over(k) <=> s[1].type = "close")
    BY Zenon, <1>2, HearAppend
  <2>2. s[1].type = "connect" <=> h = <<>>
    <3>1. \A j \in 1..(1 - 1) : s[j].id # c
      OBVIOUS
    <3> QED
      BY Zenon, <1>3, <1>5, <3>1 DEF Continues
  <2>3. ~Over(h)
    BY Zenon, <1>3, <1>5 DEF Continues
  <2>4. InOrder(k)
    BY Zenon, <1>2, <2>2, <2>3, HearAppend
  <2>5. \A i \in 1..Len(g) : g[i].id = c => g[i].type # "connect"
    BY <1>1, <1>3, <1>5 DEF Continues
  <2>6. ASSUME NEW i \in 1..Len(g), g[i].id = c, g[i].type = "close",
               NEW j \in 1..Len(g), g[j].id = c
        PROVE  j <= i
    BY <1>1, <1>3, <2>6 DEF Continues
  <2>7. s[1].type = "close" => \A i \in 1..Len(g) : g[i].id # c
    BY <1>1, <1>3, <1>5 DEF Continues
  <2>8. /\ n # "none"
        /\ n \in {"open", "shut"} =>
             /\ s[1].type # "close"
             /\ \A i \in 1..Len(g) : g[i].id = c => g[i].type # "close"
    BY <1>1, <1>3, <1>5 DEF Continues
  <2> HIDE DEF k
  <2> QED
    BY Zenon, <2>1, <2>4, <2>5, <2>6, <2>7, <2>8 DEF Continues
<1> QED
  BY Zenon, <1>4, <1>5 DEF g, k
-----------------------------------------------------------------------------
(* The steps.                                                              *)

\* The steps that concern one connection, and the calls that concern a room.
OwnStep(c) ==
    \/ ConnectR(c) \/ ConnectCount(c) \/ NewMessage(c) \/ ConnectionClosed(c)
    \/ LoopThread(c)
    \/ BackendFind(c, "send") \/ BackendFind(c, "shutdown") \/ BackendQueue(c)
    \/ ReapClose(c) \/ (c \in RConns /\ (WsSend(c) \/ WsClose(c)))

RoomStep ==
    \E r \in Rooms : WsBroadcast(r) \/ \E c \in RConns : WsJoin(r, c) \/ WsLeave(r, c)

LEMMA StepKinds ==
    ASSUME [Next]_vars
    PROVE  \/ \E c \in Conns : OwnStep(c)
           \/ RoomStep
           \/ ReapSnapshot \/ DrainWsEvents \/ CallHook \/ HookDone \/ DrainDone
           \/ ClearAllWsSessions \/ StopBegin \/ LoopsJoined
           \/ UNCHANGED vars
BY Zenon DEF Next, MainThread, RCalls, Conns, OwnStep, RoomStep

\* What becomes of the sessions in a step.
SameSessions ==
    \A c \in Conns : sess'[c].reg = sess[c].reg /\ sess'[c].counted = sess[c].counted

SessionBecomes(c, reg, counted) ==
    /\ sess'[c].reg = reg /\ sess'[c].counted = counted
    /\ \A d \in Conns \ {c} : sess'[d].reg = sess[d].reg /\ sess'[d].counted = sess[d].counted

LEMMA SessionAt ==
    ASSUME sess \in [Conns -> Sessions], NEW c \in Conns, NEW n \in Sessions,
           sess' = [sess EXCEPT ![c] = n]
    PROVE  sess' \in [Conns -> Sessions] /\ SessionBecomes(c, n.reg, n.counted)
BY Zenon DEF SessionBecomes

LEMMA SessionFields ==
    ASSUME sess \in [Conns -> Sessions], NEW c \in Conns, NEW b \in BOOLEAN
    PROVE  /\ (sess' = sess) => sess' \in [Conns -> Sessions] /\ SameSessions
           /\ (sess' = [sess EXCEPT ![c].closing = TRUE])
                => sess' \in [Conns -> Sessions] /\ SameSessions
           /\ (sess' = [sess EXCEPT ![c].reg = "live", ![c].ctx = TRUE])
                => sess' \in [Conns -> Sessions] /\ SessionBecomes(c, "live", sess[c].counted)
           /\ (sess' = [sess EXCEPT ![c].reg = "live", ![c].ctx = TRUE, ![c].counted = b])
                => sess' \in [Conns -> Sessions] /\ SessionBecomes(c, "live", b)
           /\ (sess' = [sess EXCEPT ![c].reg = "gone"])
                => sess' \in [Conns -> Sessions] /\ SessionBecomes(c, "gone", sess[c].counted)
           /\ (sess' = [sess EXCEPT ![c].counted = FALSE])
                => sess' \in [Conns -> Sessions] /\ SessionBecomes(c, sess[c].reg, FALSE)
<1>1. (sess' = sess) => sess' \in [Conns -> Sessions] /\ SameSessions
  BY Zenon DEF SameSessions
<1>2. (sess' = [sess EXCEPT ![c].closing = TRUE])
        => sess' \in [Conns -> Sessions] /\ SameSessions
  <2> SUFFICES ASSUME sess' = [sess EXCEPT ![c].closing = TRUE]
               PROVE  sess' \in [Conns -> Sessions] /\ SameSessions
    BY Zenon
  <2> DEFINE n == [sess[c] EXCEPT !.closing = TRUE]
  <2>1. n \in Sessions /\ n.reg = sess[c].reg /\ n.counted = sess[c].counted
    BY DEF Sessions, Regs
  <2>2. sess' = [sess EXCEPT ![c] = n]
    BY Zenon
  <2> HIDE DEF n
  <2>3. sess' \in [Conns -> Sessions] /\ SessionBecomes(c, n.reg, n.counted)
    BY Zenon, <2>1, <2>2, SessionAt
  <2> QED
    BY <2>1, <2>3 DEF SessionBecomes, SameSessions
<1>3. (sess' = [sess EXCEPT ![c].reg = "live", ![c].ctx = TRUE])
        => sess' \in [Conns -> Sessions] /\ SessionBecomes(c, "live", sess[c].counted)
  <2> SUFFICES ASSUME sess' = [sess EXCEPT ![c].reg = "live", ![c].ctx = TRUE]
               PROVE  sess' \in [Conns -> Sessions] /\ SessionBecomes(c, "live", sess[c].counted)
    BY Zenon
  <2> DEFINE n == [sess[c] EXCEPT !.reg = "live", !.ctx = TRUE]
  <2>1. n \in Sessions /\ n.reg = "live" /\ n.counted = sess[c].counted
    BY DEF Sessions, Regs
  <2>2. sess' = [sess EXCEPT ![c] = n]
    OBVIOUS
  <2> HIDE DEF n
  <2>3. sess' \in [Conns -> Sessions] /\ SessionBecomes(c, n.reg, n.counted)
    BY Zenon, <2>1, <2>2, SessionAt
  <2> QED
    BY <2>1, <2>3 DEF SessionBecomes
<1>4. (sess' = [sess EXCEPT ![c].reg = "live", ![c].ctx = TRUE, ![c].counted = b])
        => sess' \in [Conns -> Sessions] /\ SessionBecomes(c, "live", b)
  <2> SUFFICES ASSUME sess' = [sess EXCEPT ![c].reg = "live", ![c].ctx = TRUE, ![c].counted = b]
               PROVE  sess' \in [Conns -> Sessions] /\ SessionBecomes(c, "live", b)
    BY Zenon
  <2> DEFINE n == [sess[c] EXCEPT !.reg = "live", !.ctx = TRUE, !.counted = b]
  <2>1. n \in Sessions /\ n.reg = "live" /\ n.counted = b
    BY DEF Sessions, Regs
  <2>2. sess' = [sess EXCEPT ![c] = n]
    OBVIOUS
  <2> HIDE DEF n
  <2>3. sess' \in [Conns -> Sessions] /\ SessionBecomes(c, n.reg, n.counted)
    BY Zenon, <2>1, <2>2, SessionAt
  <2> QED
    BY <2>1, <2>3 DEF SessionBecomes
<1>5. (sess' = [sess EXCEPT ![c].reg = "gone"])
        => sess' \in [Conns -> Sessions] /\ SessionBecomes(c, "gone", sess[c].counted)
  <2> SUFFICES ASSUME sess' = [sess EXCEPT ![c].reg = "gone"]
               PROVE  sess' \in [Conns -> Sessions] /\ SessionBecomes(c, "gone", sess[c].counted)
    BY Zenon
  <2> DEFINE n == [sess[c] EXCEPT !.reg = "gone"]
  <2>1. n \in Sessions /\ n.reg = "gone" /\ n.counted = sess[c].counted
    BY DEF Sessions, Regs
  <2>2. sess' = [sess EXCEPT ![c] = n]
    BY Zenon
  <2> HIDE DEF n
  <2>3. sess' \in [Conns -> Sessions] /\ SessionBecomes(c, n.reg, n.counted)
    BY Zenon, <2>1, <2>2, SessionAt
  <2> QED
    BY <2>1, <2>3 DEF SessionBecomes
<1>6. (sess' = [sess EXCEPT ![c].counted = FALSE])
        => sess' \in [Conns -> Sessions] /\ SessionBecomes(c, sess[c].reg, FALSE)
  <2> SUFFICES ASSUME sess' = [sess EXCEPT ![c].counted = FALSE]
               PROVE  sess' \in [Conns -> Sessions] /\ SessionBecomes(c, sess[c].reg, FALSE)
    BY Zenon
  <2> DEFINE n == [sess[c] EXCEPT !.counted = FALSE]
  <2>1. n \in Sessions /\ n.reg = sess[c].reg /\ n.counted = FALSE
    BY DEF Sessions, Regs
  <2>2. sess' = [sess EXCEPT ![c] = n]
    BY Zenon
  <2> HIDE DEF n
  <2>3. sess' \in [Conns -> Sessions] /\ SessionBecomes(c, n.reg, n.counted)
    BY Zenon, <2>1, <2>2, SessionAt
  <2> QED
    BY <2>1, <2>3 DEF SessionBecomes
<1> QED
  BY Zenon, <1>1, <1>2, <1>3, <1>4, <1>5, <1>6

\* clearAllWsSessions() ends every session that lives.
LEMMA SessionsCleared ==
    ASSUME sess \in [Conns -> Sessions],
           sess' = [c \in Conns |-> IF Live(c) THEN [sess[c] EXCEPT !.reg = "gone"] ELSE sess[c]]
    PROVE  /\ sess' \in [Conns -> Sessions]
           /\ \A c \in Conns :
                /\ sess'[c].reg = IF sess[c].reg = "live" THEN "gone" ELSE sess[c].reg
                /\ sess'[c].counted = sess[c].counted
<1>1. ASSUME NEW c \in Conns
      PROVE  /\ sess'[c] \in Sessions
             /\ sess'[c].reg = IF sess[c].reg = "live" THEN "gone" ELSE sess[c].reg
             /\ sess'[c].counted = sess[c].counted
  BY DEF Sessions, Regs, Live
<1> QED
  BY Zenon, <1>1

\* The session of a connection in a step of the connection's own.
LEMMA SessTypeStep ==
    ASSUME sess \in [Conns -> Sessions], [Next]_vars, QueueTypes, ThreadInv
    PROVE  sess' \in [Conns -> Sessions]
<1>1. ASSUME NEW c \in Conns, OwnStep(c)
      PROVE  sess' \in [Conns -> Sessions]
  <2>1. \/ sess' = sess \/ sess' = [sess EXCEPT ![c].closing = TRUE]
        \/ sess' = [sess EXCEPT ![c].reg = "live", ![c].ctx = TRUE]
        \/ sess' = [sess EXCEPT ![c].reg = "live", ![c].ctx = TRUE, ![c].counted = MaxConns > 0]
        \/ sess' = [sess EXCEPT ![c].reg = "gone"]
        \/ sess' = [sess EXCEPT ![c].counted = FALSE]
    BY Zenon, <1>1 DEF OwnStep, ConnectR, ConnectCount, NewMessage, ConnectionClosed, LoopThread,
         ConnectRefuse, ConnectCpp, CloseCpp, GiveBack, RunTask, BackendFind, BackendQueue,
         ReapClose, WsSend, WsClose
  <2>2. (MaxConns > 0) \in BOOLEAN
    OBVIOUS
  <2> QED
    BY Zenon, <2>1, <2>2, SessionFields
<1>2. CASE HookDone
  <2>1. batch # <<>> /\ Head(batch) \in Events
    BY <1>2 DEF HookDone, ThreadInv, QueueTypes
  <2>2. Head(batch).id \in Conns
    BY Zenon, <2>1 DEF Events, Conns
  <2> QED
    BY Zenon, <1>2, <2>2, SessionFields DEF HookDone
<1>3. CASE ClearAllWsSessions
  BY Zenon, <1>3, SessionsCleared DEF ClearAllWsSessions
<1>4. CASE \/ ReapSnapshot \/ DrainWsEvents \/ CallHook \/ DrainDone \/ StopBegin
           \/ LoopsJoined \/ RoomStep \/ UNCHANGED vars
  BY Zenon, <1>4 DEF RoomStep, ReapSnapshot, DrainWsEvents, CallHook, DrainDone, StopBegin, LoopsJoined,
       WsBroadcast, WsJoin, WsLeave, vars
<1> QED
  BY Zenon, <1>1, <1>2, <1>3, <1>4, StepKinds

\* Everything else that a step for one connection changes.
LEMMA OwnEffects ==
    ASSUME NEW c \in Conns, OwnStep(c)
    PROVE  /\ UNCHANGED <<server, routes, batch, main>>
           /\ \/ net' = net \/ net' = [net EXCEPT ![c] = "open"]
              \/ net' = [net EXCEPT ![c] = "shut"] \/ net' = [net EXCEPT ![c] = "closed"]
           /\ \/ io' = io \/ io' = [io EXCEPT ![c] = "connect"]
              \/ io' = [io EXCEPT ![c] = "idle"] \/ io' = [io EXCEPT ![c] = "close"]
              \/ io' = [io EXCEPT ![c] = "erase"]
           /\ \/ backend' = backend \/ backend' = [backend EXCEPT ![c] = "send"]
              \/ backend' = [backend EXCEPT ![c] = "shutdown"]
              \/ backend' = [backend EXCEPT ![c] = "idle"]
           /\ rooms' = rooms \/ rooms' = DropFromAllRooms(c)
           /\ reap' = reap \/ reap' = reap \ {c}
           /\ frames' = frames \/ (frames[c] < MaxMsgs /\ frames' = [frames EXCEPT ![c] = @ + 1])
           /\ after' = after \/ after' = [after EXCEPT ![c] = live + 1]
<1>1. UNCHANGED <<server, routes, batch, main>>
  BY Zenon DEF OwnStep, ConnectR, ConnectCount, NewMessage, ConnectionClosed, LoopThread,
       ConnectRefuse, ConnectCpp, CloseCpp, GiveBack, RunTask, BackendFind, BackendQueue,
       ReapClose, WsSend, WsClose, mainVars
<1>2. \/ net' = net \/ net' = [net EXCEPT ![c] = "open"]
      \/ net' = [net EXCEPT ![c] = "shut"] \/ net' = [net EXCEPT ![c] = "closed"]
  BY Zenon DEF OwnStep, ConnectR, ConnectCount, NewMessage, ConnectionClosed, LoopThread,
       ConnectRefuse, ConnectCpp, CloseCpp, GiveBack, RunTask, BackendFind, BackendQueue,
       ReapClose, WsSend, WsClose, ioVars
<1>3. \/ io' = io \/ io' = [io EXCEPT ![c] = "connect"]
      \/ io' = [io EXCEPT ![c] = "idle"] \/ io' = [io EXCEPT ![c] = "close"]
      \/ io' = [io EXCEPT ![c] = "erase"]
  BY Zenon DEF OwnStep, ConnectR, ConnectCount, NewMessage, ConnectionClosed, LoopThread,
       ConnectRefuse, ConnectCpp, CloseCpp, GiveBack, RunTask, BackendFind, BackendQueue,
       ReapClose, WsSend, WsClose, ioVars
<1>4. \/ backend' = backend \/ backend' = [backend EXCEPT ![c] = "send"]
      \/ backend' = [backend EXCEPT ![c] = "shutdown"]
      \/ backend' = [backend EXCEPT ![c] = "idle"]
  BY Zenon DEF OwnStep, ConnectR, ConnectCount, NewMessage, ConnectionClosed, LoopThread,
       ConnectRefuse, ConnectCpp, CloseCpp, GiveBack, RunTask, BackendFind, BackendQueue,
       ReapClose, WsSend, WsClose
<1>5. rooms' = rooms \/ rooms' = DropFromAllRooms(c)
  BY Zenon DEF OwnStep, ConnectR, ConnectCount, NewMessage, ConnectionClosed, LoopThread,
       ConnectRefuse, ConnectCpp, CloseCpp, GiveBack, RunTask, BackendFind, BackendQueue,
       ReapClose, WsSend, WsClose, mainVars
<1>6. reap' = reap \/ reap' = reap \ {c}
  BY Zenon DEF OwnStep, ConnectR, ConnectCount, NewMessage, ConnectionClosed, LoopThread,
       ConnectRefuse, ConnectCpp, CloseCpp, GiveBack, RunTask, BackendFind, BackendQueue,
       ReapClose, WsSend, WsClose
<1>7. frames' = frames \/ (frames[c] < MaxMsgs /\ frames' = [frames EXCEPT ![c] = @ + 1])
  BY Zenon DEF OwnStep, ConnectR, ConnectCount, NewMessage, ConnectionClosed, LoopThread,
       ConnectRefuse, ConnectCpp, CloseCpp, GiveBack, RunTask, BackendFind, BackendQueue,
       ReapClose, WsSend, WsClose, ioVars
<1>8. after' = after \/ after' = [after EXCEPT ![c] = live + 1]
  BY Zenon DEF OwnStep, ConnectR, ConnectCount, NewMessage, ConnectionClosed, LoopThread,
       ConnectRefuse, ConnectCpp, CloseCpp, GiveBack, RunTask, BackendFind, BackendQueue,
       ReapClose, WsSend, WsClose, ioVars
<1> QED
  BY Zenon, <1>1, <1>2, <1>3, <1>4, <1>5, <1>6, <1>7, <1>8

\* The queues of a step for one connection.
LEMMA OwnQueues ==
    ASSUME NEW c \in Conns, OwnStep(c), QueueTypes, SessionTypes
    PROVE  /\ \/ events' = events
              \/ \E t \in EventTypes : events' = Append(events, Event(t, c)) /\ c \in RConns
           /\ heard' = heard \/ \E t \in EventTypes : heard' = [heard EXCEPT ![c] = Append(@, t)]
           /\ \/ tasks' = tasks \/ (tasks' = [tasks EXCEPT ![c] = Tail(@)] /\ tasks[c] # <<>>)
              \/ \E f \in {"send", "shutdown"} : tasks' = [tasks EXCEPT ![c] = Append(@, f)]
           /\ deadUse' \in BOOLEAN
<1>0. {"connect", "message", "close"} = EventTypes /\ (c \in CppConns \/ c \in RConns)
  BY Zenon DEF EventTypes, Conns
<1>1. \/ events' = events
      \/ \E t \in EventTypes : events' = Append(events, Event(t, c)) /\ c \in RConns
  BY Zenon, <1>0 DEF OwnStep, ConnectR, ConnectCount, NewMessage, ConnectionClosed, LoopThread,
       ConnectRefuse, ConnectCpp, CloseCpp, GiveBack, RunTask, BackendFind, BackendQueue,
       ReapClose, WsSend, WsClose, EnqueueWsEvent
<1>2. heard' = heard \/ \E t \in EventTypes : heard' = [heard EXCEPT ![c] = Append(@, t)]
  BY Zenon, <1>0 DEF OwnStep, ConnectR, ConnectCount, NewMessage, ConnectionClosed, LoopThread,
       ConnectRefuse, ConnectCpp, CloseCpp, GiveBack, RunTask, BackendFind, BackendQueue,
       ReapClose, WsSend, WsClose, DispatchCpp
<1>3. \/ tasks' = tasks \/ (tasks' = [tasks EXCEPT ![c] = Tail(@)] /\ tasks[c] # <<>>)
      \/ \E f \in {"send", "shutdown"} : tasks' = [tasks EXCEPT ![c] = Append(@, f)]
  <2>1. backend[c] # "idle" => backend[c] = "send" \/ backend[c] = "shutdown"
    BY Zenon DEF SessionTypes
  <2>2. \/ tasks' = tasks \/ (tasks' = [tasks EXCEPT ![c] = Tail(@)] /\ tasks[c] # <<>>)
        \/ QueueInLoop(c, "send") \/ QueueInLoop(c, "shutdown")
    <3>1. CASE BackendQueue(c)
      BY Zenon, <2>1, <3>1 DEF BackendQueue
    <3>2. CASE ~BackendQueue(c)
      BY Zenon, <3>2 DEF OwnStep, ConnectR, ConnectCount, NewMessage, ConnectionClosed,
         LoopThread, ConnectRefuse, ConnectCpp, CloseCpp, GiveBack, RunTask, BackendFind,
         ReapClose, WsSend, WsClose
    <3> QED
      BY Zenon, <3>1, <3>2
  <2>3. \A f : QueueInLoop(c, f) => tasks' = tasks \/ tasks' = [tasks EXCEPT ![c] = Append(@, f)]
    BY Zenon DEF QueueInLoop
  <2>4. "send" \in {"send", "shutdown"} /\ "shutdown" \in {"send", "shutdown"}
    OBVIOUS
  <2> QED
    BY Zenon, <2>2, <2>3, <2>4
<1>4. deadUse' \in BOOLEAN
  <2>1. deadUse' = deadUse \/ deadUse' = (deadUse \/ server = "down")
    BY Zenon DEF OwnStep, ConnectR, ConnectCount, NewMessage, ConnectionClosed, LoopThread,
       ConnectRefuse, ConnectCpp, CloseCpp, GiveBack, RunTask, BackendFind, BackendQueue,
       ReapClose, WsSend, WsClose, QueueInLoop
  <2> QED
    BY <2>1 DEF SessionTypes
<1> QED
  BY Zenon, <1>1, <1>2, <1>3, <1>4

\* Types are kept.
LEMMA TypesStep ==
    ASSUME WsAssumption, SessionTypes, QueueTypes, ThreadInv, [Next]_vars
    PROVE  SessionTypes' /\ QueueTypes'
<1>0. sess' \in [Conns -> Sessions]
  BY Zenon, SessTypeStep DEF SessionTypes
<1>1. ASSUME NEW c \in Conns, OwnStep(c) PROVE SessionTypes' /\ QueueTypes'
  <2>1. /\ server' \in {"up", "stopping", "down"} /\ routes' \in BOOLEAN
        /\ main' \in {"idle", "drain", "hook", "skip", "stop"} /\ batch' \in Seq(Events)
    BY Zenon, <1>1, OwnEffects DEF SessionTypes, QueueTypes
  <2>2. /\ net' \in [Conns -> {"none", "open", "shut", "closed"}]
        /\ io' \in [Conns -> {"idle", "connect", "close", "erase"}]
        /\ backend' \in [Conns -> {"idle", "send", "shutdown"}]
    <3>1. net' \in [Conns -> {"none", "open", "shut", "closed"}]
      <4>1. \/ net' = net \/ net' = [net EXCEPT ![c] = "open"]
            \/ net' = [net EXCEPT ![c] = "shut"] \/ net' = [net EXCEPT ![c] = "closed"]
        BY Zenon, <1>1, OwnEffects
      <4> QED
        BY <1>1, <4>1 DEF SessionTypes
    <3>2. io' \in [Conns -> {"idle", "connect", "close", "erase"}]
      <4>1. \/ io' = io \/ io' = [io EXCEPT ![c] = "connect"]
            \/ io' = [io EXCEPT ![c] = "idle"] \/ io' = [io EXCEPT ![c] = "close"]
            \/ io' = [io EXCEPT ![c] = "erase"]
        BY Zenon, <1>1, OwnEffects
      <4> QED
        BY <1>1, <4>1 DEF SessionTypes
    <3>3. backend' \in [Conns -> {"idle", "send", "shutdown"}]
      <4>1. \/ backend' = backend \/ backend' = [backend EXCEPT ![c] = "send"]
            \/ backend' = [backend EXCEPT ![c] = "shutdown"]
            \/ backend' = [backend EXCEPT ![c] = "idle"]
        BY Zenon, <1>1, OwnEffects
      <4> QED
        BY <1>1, <4>1 DEF SessionTypes
    <3> QED
      BY Zenon, <3>1, <3>2, <3>3
  <2>3. rooms' \in [Rooms -> SUBSET RConns] /\ reap' \in SUBSET CppConns
    <3>1. DropFromAllRooms(c) \in [Rooms -> SUBSET RConns]
      BY DEF SessionTypes, DropFromAllRooms
    <3> QED
      BY Zenon, <1>1, <3>1, OwnEffects DEF SessionTypes
  <2>4. frames' \in [Conns -> 0..MaxMsgs]
    <3>1. frames[c] < MaxMsgs => frames[c] + 1 \in 0..MaxMsgs
      BY DEF SessionTypes, WsAssumption
    <3>2. frames' = frames \/ (frames[c] < MaxMsgs /\ frames' = [frames EXCEPT ![c] = @ + 1])
      BY Zenon, <1>1, OwnEffects
    <3> QED
      BY <3>1, <3>2 DEF SessionTypes
  <2>5. events' \in Seq(Events)
    <3>1. \A t \in EventTypes : c \in RConns => Append(events, Event(t, c)) \in Seq(Events)
      BY DEF QueueTypes, Event, Events
    <3> QED
      BY Zenon, <1>1, <3>1, OwnQueues DEF QueueTypes
  <2>6. heard' \in [Conns -> Seq(EventTypes)]
    <3>1. \A t \in EventTypes : Append(heard[c], t) \in Seq(EventTypes)
      BY DEF QueueTypes
    <3>2. heard' = heard \/ \E t \in EventTypes : heard' = [heard EXCEPT ![c] = Append(@, t)]
      BY Zenon, <1>1, OwnQueues
    <3> QED
      BY <3>1, <3>2 DEF QueueTypes
  <2>7. tasks' \in [Conns -> Seq({"send", "shutdown"})]
    <3>1. /\ \A f \in {"send", "shutdown"} : Append(tasks[c], f) \in Seq({"send", "shutdown"})
          /\ tasks[c] # <<>> => Tail(tasks[c]) \in Seq({"send", "shutdown"})
      BY DEF SessionTypes
    <3>2. \/ tasks' = tasks \/ (tasks' = [tasks EXCEPT ![c] = Tail(@)] /\ tasks[c] # <<>>)
          \/ \E f \in {"send", "shutdown"} : tasks' = [tasks EXCEPT ![c] = Append(@, f)]
      BY Zenon, <1>1, OwnQueues
    <3> QED
      BY <3>1, <3>2 DEF SessionTypes
  <2>8. deadUse' \in BOOLEAN
    BY Zenon, <1>1, OwnQueues
  <2> QED
    BY Zenon, <1>0, <2>1, <2>2, <2>3, <2>4, <2>5, <2>6, <2>7, <2>8 DEF SessionTypes, QueueTypes
<1>2. CASE RoomStep
  <2>1. PICK r \in Rooms : WsBroadcast(r) \/ \E c \in RConns : WsJoin(r, c) \/ WsLeave(r, c)
    BY Zenon, <1>2 DEF RoomStep
  <2>2. /\ UNCHANGED <<server, routes, net, io, main, backend, reap, frames, events, batch, heard>>
    BY Zenon, <2>1 DEF WsBroadcast, WsJoin, WsLeave, ioVars, mainVars
  <2>3. rooms' \in [Rooms -> SUBSET RConns]
    <3>1. \/ rooms' = rooms
          \/ \E c \in RConns : \/ rooms' = [rooms EXCEPT ![r] = @ \union {c}]
                               \/ rooms' = [rooms EXCEPT ![r] = @ \ {c}]
      BY Zenon, <2>1 DEF WsBroadcast, WsJoin, WsLeave, mainVars
    <3>2. \A c \in RConns : rooms[r] \union {c} \in SUBSET RConns /\ rooms[r] \ {c} \in SUBSET RConns
      BY DEF SessionTypes
    <3> QED
      BY Zenon, <3>1, <3>2 DEF SessionTypes
  <2>4. tasks' \in [Conns -> Seq({"send", "shutdown"})]
    <3>1. \A c \in Conns : Append(tasks[c], "send") \in Seq({"send", "shutdown"})
      BY DEF SessionTypes
    <3> QED
      BY Zenon, <2>1, <3>1 DEF SessionTypes, WsBroadcast, WsJoin, WsLeave
  <2>5. deadUse' \in BOOLEAN
    BY <2>1 DEF SessionTypes, WsBroadcast, WsJoin, WsLeave
  <2> QED
    BY Zenon, <1>0, <2>2, <2>3, <2>4, <2>5 DEF SessionTypes, QueueTypes
<1>3. CASE ReapSnapshot
  BY Zenon, <1>0, <1>3 DEF ReapSnapshot, SessionTypes, QueueTypes, ioVars, mainVars
<1>4. CASE DrainWsEvents
  <2>1. <<>> \in Seq(Events)
    OBVIOUS
  <2> QED
    BY Zenon, <1>0, <1>4, <2>1 DEF DrainWsEvents, SessionTypes, QueueTypes, ioVars
<1>5. CASE CallHook
  <2>1. Head(batch) \in Events
    BY <1>5 DEF CallHook, QueueTypes
  <2>2. Head(batch).id \in Conns /\ Head(batch).type \in EventTypes
    BY <2>1 DEF Events, Conns
  <2>3. Append(heard[Head(batch).id], Head(batch).type) \in Seq(EventTypes)
    BY <2>2 DEF QueueTypes
  <2>4. heard' \in [Conns -> Seq(EventTypes)]
    BY Zenon, <1>5, <2>3 DEF QueueTypes, CallHook
  <2> QED
    BY Zenon, <1>0, <1>5, <2>4 DEF CallHook, SessionTypes, QueueTypes, ioVars
<1>6. CASE HookDone
  <2>1. batch # <<>>
    BY Zenon, <1>6 DEF HookDone, ThreadInv
  <2>2. Tail(batch) \in Seq(Events)
    BY <2>1 DEF QueueTypes
  <2>3. DropFromAllRooms(Head(batch).id) \in [Rooms -> SUBSET RConns]
    BY DEF SessionTypes, DropFromAllRooms
  <2> QED
    BY Zenon, <1>0, <1>6, <2>2, <2>3 DEF HookDone, SessionTypes, QueueTypes, ioVars
<1>7. CASE DrainDone
  BY Zenon, <1>0, <1>7 DEF DrainDone, SessionTypes, QueueTypes, ioVars
<1>8. CASE ClearAllWsSessions
  <2>1. <<>> \in Seq(Events)
    OBVIOUS
  <2> QED
    BY Zenon, <1>0, <1>8, <2>1 DEF ClearAllWsSessions, SessionTypes, QueueTypes, ioVars
<1>9. CASE StopBegin
  BY Zenon, <1>0, <1>9 DEF StopBegin, SessionTypes, QueueTypes, ioVars
<1>10. CASE LoopsJoined
  <2>1. <<>> \in Seq({"send", "shutdown"})
    OBVIOUS
  <2> QED
    BY Zenon, <1>0, <1>10, <2>1 DEF LoopsJoined, SessionTypes, QueueTypes, ioVars, mainVars
<1>11. CASE UNCHANGED vars
  BY Zenon, <1>11 DEF vars, SessionTypes, QueueTypes, ioVars, mainVars
<1> QED
  BY Zenon, <1>1, <1>2, <1>3, <1>4, <1>5, <1>6, <1>7, <1>8, <1>9, <1>10, <1>11, StepKinds

\* The loops are idle for good once they are joined.
LEMMA ThreadStep ==
    ASSUME WsAssumption, SessionTypes, QueueTypes, ThreadInv, [Next]_vars
    PROVE  ThreadInv'
<1>1. ASSUME NEW c \in Conns, OwnStep(c) PROVE ThreadInv'
  <2>1. UNCHANGED <<server, routes, batch, main>>
    BY Zenon, <1>1, OwnEffects
  <2>2. server = "down" => io' = io
    <3>1. server = "down" => io[c] = "idle"
      BY Zenon DEF ThreadInv
    <3>2. "down" # "up" /\ "idle" # "connect" /\ "idle" # "close" /\ "idle" # "erase"
      OBVIOUS
    <3> QED
      BY Zenon, <1>1, <3>1, <3>2 DEF OwnStep, ConnectR, ConnectCount, NewMessage,
         ConnectionClosed, LoopThread, ConnectRefuse, ConnectCpp, CloseCpp, GiveBack, RunTask,
         BackendFind, BackendQueue, ReapClose, WsSend, WsClose, ioVars
  <2> QED
    BY Zenon, <2>1, <2>2 DEF ThreadInv
<1>2. CASE RoomStep \/ ReapSnapshot \/ UNCHANGED vars
  <2>1. UNCHANGED <<server, routes, batch, main, io>>
    BY Zenon, <1>2 DEF RoomStep, ReapSnapshot, WsBroadcast, WsJoin, WsLeave, vars, ioVars, mainVars
  <2> QED
    BY Zenon, <2>1 DEF ThreadInv
<1>3. CASE DrainWsEvents
  BY <1>3 DEF DrainWsEvents, ThreadInv, ioVars
<1>4. CASE CallHook
  BY <1>4 DEF CallHook, ThreadInv, ioVars
<1>5. CASE HookDone
  BY <1>5 DEF HookDone, ThreadInv, ioVars
<1>6. CASE DrainDone
  BY <1>6 DEF DrainDone, ThreadInv, ioVars
<1>7. CASE ClearAllWsSessions
  BY <1>7 DEF ClearAllWsSessions, ThreadInv, ioVars
<1>8. CASE StopBegin
  BY <1>8 DEF StopBegin, ThreadInv, ioVars
<1>9. CASE LoopsJoined
  BY <1>9 DEF LoopsJoined, ThreadInv, ioVars, mainVars
<1> QED
  BY Zenon, <1>1, <1>2, <1>3, <1>4, <1>5, <1>6, <1>7, <1>8, <1>9, StepKinds

\* A step for one connection leaves the others alone.
LEMMA OwnFrame ==
    ASSUME SessionTypes, QueueTypes, NEW c \in Conns, OwnStep(c), NEW d \in Conns, d # c
    PROVE  /\ net'[d] = net[d] /\ io'[d] = io[d] /\ backend'[d] = backend[d]
           /\ sess'[d].reg = sess[d].reg /\ sess'[d].counted = sess[d].counted
           /\ heard'[d] = heard[d]
<1>1. net'[d] = net[d] /\ io'[d] = io[d] /\ backend'[d] = backend[d]
  <2>1. net'[d] = net[d]
    <3>1. \/ net' = net \/ net' = [net EXCEPT ![c] = "open"]
          \/ net' = [net EXCEPT ![c] = "shut"] \/ net' = [net EXCEPT ![c] = "closed"]
      BY Zenon, OwnEffects
    <3> QED
      BY Zenon, <3>1 DEF SessionTypes
  <2>2. io'[d] = io[d]
    <3>1. \/ io' = io \/ io' = [io EXCEPT ![c] = "connect"]
          \/ io' = [io EXCEPT ![c] = "idle"] \/ io' = [io EXCEPT ![c] = "close"]
          \/ io' = [io EXCEPT ![c] = "erase"]
      BY Zenon, OwnEffects
    <3> QED
      BY Zenon, <3>1 DEF SessionTypes
  <2>3. backend'[d] = backend[d]
    <3>1. \/ backend' = backend \/ backend' = [backend EXCEPT ![c] = "send"]
          \/ backend' = [backend EXCEPT ![c] = "shutdown"]
          \/ backend' = [backend EXCEPT ![c] = "idle"]
      BY Zenon, OwnEffects
    <3> QED
      BY Zenon, <3>1 DEF SessionTypes
  <2> QED
    BY Zenon, <2>1, <2>2, <2>3
<1>2. heard'[d] = heard[d]
  BY Zenon, OwnQueues DEF QueueTypes
<1>3. sess'[d].reg = sess[d].reg /\ sess'[d].counted = sess[d].counted
  <2>1. \/ sess' = sess \/ sess' = [sess EXCEPT ![c].closing = TRUE]
        \/ sess' = [sess EXCEPT ![c].reg = "live", ![c].ctx = TRUE]
        \/ sess' = [sess EXCEPT ![c].reg = "live", ![c].ctx = TRUE, ![c].counted = MaxConns > 0]
        \/ sess' = [sess EXCEPT ![c].reg = "gone"]
        \/ sess' = [sess EXCEPT ![c].counted = FALSE]
    BY Zenon DEF OwnStep, ConnectR, ConnectCount, NewMessage, ConnectionClosed, LoopThread,
         ConnectRefuse, ConnectCpp, CloseCpp, GiveBack, RunTask, BackendFind, BackendQueue,
         ReapClose, WsSend, WsClose
  <2> QED
    BY Zenon, <2>1 DEF SessionTypes
<1> QED
  BY Zenon, <1>1, <1>2, <1>3

\* The state of a connection after a step of its own.
LEMMA OwnConn ==
    ASSUME WsAssumption, SessionTypes, NEW c \in Conns, OwnStep(c), ConnInv(c)
    PROVE  ConnInv(c)'
<1> DEFINE r == sess[c].reg
           k == sess[c].counted
<1>0. /\ sess \in [Conns -> Sessions] /\ r \in Regs /\ k \in BOOLEAN
      /\ net \in [Conns -> {"none", "open", "shut", "closed"}]
      /\ io \in [Conns -> {"idle", "connect", "close", "erase"}]
      /\ backend \in [Conns -> {"idle", "send", "shutdown"}]
      /\ c \in CppConns <=> c \notin RConns
  BY DEF SessionTypes, Sessions, Conns, WsAssumption
<1>1. CASE ConnectR(c)
  <2>1. /\ c \in RConns /\ net[c] = "none" /\ net'[c] = "open" /\ io' = io /\ backend' = backend
        /\ sess' = [sess EXCEPT ![c].reg = "live", ![c].ctx = TRUE]
    BY Zenon, <1>0, <1>1 DEF ConnectR
  <2>2. sess'[c].reg = "live" /\ sess'[c].counted = k
    BY Zenon, <1>0, <2>1, SessionFields DEF SessionBecomes
  <2> QED
    BY <1>0, <2>1, <2>2 DEF ConnInv
<1>2. CASE ConnectCount(c)
  <2>1. /\ c \in CppConns /\ net[c] = "none" /\ net'[c] = "open" /\ io'[c] = "connect"
        /\ backend' = backend /\ sess' = sess
    BY Zenon, <1>0, <1>2 DEF ConnectCount
  <2> QED
    BY <1>0, <2>1 DEF ConnInv
<1>3. CASE ConnectRefuse(c)
  <2>1. /\ io[c] = "connect" /\ net'[c] = "shut" /\ io'[c] = "idle"
        /\ backend' = backend /\ sess' = sess
    BY Zenon, <1>0, <1>3 DEF ConnectRefuse
  <2> QED
    BY <1>0, <2>1 DEF ConnInv
<1>4. CASE ConnectCpp(c)
  <2>1. /\ io[c] = "connect" /\ net' = net /\ io'[c] = "idle" /\ backend' = backend
        /\ sess' = [sess EXCEPT ![c].reg = "live", ![c].ctx = TRUE, ![c].counted = MaxConns > 0]
    BY Zenon, <1>0, <1>4 DEF ConnectCpp
  <2>2. sess'[c].reg = "live" /\ sess'[c].counted = (MaxConns > 0)
    <3>1. (MaxConns > 0) \in BOOLEAN
      OBVIOUS
    <3> QED
      BY Zenon, <1>0, <2>1, <3>1, SessionFields DEF SessionBecomes
  <2> QED
    BY <1>0, <2>1, <2>2 DEF ConnInv
<1>5. CASE ConnectionClosed(c)
  <2>1. /\ net'[c] = "closed" /\ io[c] = "idle" /\ backend' = backend
        /\ \/ io' = io \/ (io'[c] = "close" /\ c \in CppConns /\ r = "live")
        /\ sess' = sess \/ sess' = [sess EXCEPT ![c].closing = TRUE]
    BY Zenon, <1>0, <1>5 DEF ConnectionClosed, Live
  <2>2. sess'[c].reg = r /\ sess'[c].counted = k
    BY Zenon, <1>0, <2>1, SessionFields DEF SameSessions
  <2> QED
    BY <1>0, <2>1, <2>2 DEF ConnInv
<1>6. CASE CloseCpp(c)
  <2>1. /\ io[c] = "close" /\ net' = net /\ io'[c] = "erase" /\ backend' = backend
        /\ sess' = [sess EXCEPT ![c].reg = "gone"]
    BY Zenon, <1>0, <1>6 DEF CloseCpp
  <2>2. sess'[c].reg = "gone" /\ sess'[c].counted = k
    BY Zenon, <1>0, <2>1, SessionFields DEF SessionBecomes
  <2> QED
    BY <1>0, <2>1, <2>2 DEF ConnInv
<1>7. CASE GiveBack(c)
  <2>1. /\ io[c] = "erase" /\ net' = net /\ io'[c] = "idle" /\ backend' = backend
        /\ sess' = [sess EXCEPT ![c].counted = FALSE]
    BY Zenon, <1>0, <1>7 DEF GiveBack
  <2>2. sess'[c].reg = r /\ sess'[c].counted = FALSE
    BY Zenon, <1>0, <2>1, SessionFields DEF SessionBecomes
  <2> QED
    BY <1>0, <2>1, <2>2 DEF ConnInv
<1>8. CASE RunTask(c)
  <2>1. /\ net'[c] = net[c] \/ (net[c] = "open" /\ net'[c] = "shut")
        /\ io' = io /\ backend' = backend /\ sess' = sess
    BY Zenon, <1>0, <1>8 DEF RunTask, Connected
  <2> QED
    BY <1>0, <2>1 DEF ConnInv
<1>9. CASE BackendFind(c, "send") \/ BackendFind(c, "shutdown")
  <2>1. /\ c \in CppConns /\ net' = net /\ io' = io /\ sess' = sess
    BY Zenon, <1>9 DEF BackendFind, ioVars
  <2> QED
    BY Zenon, <2>1 DEF ConnInv
<1>10. CASE BackendQueue(c)
  <2>1. /\ backend'[c] = "idle" /\ net' = net /\ io' = io
        /\ sess' = sess \/ sess' = [sess EXCEPT ![c].closing = TRUE]
    BY Zenon, <1>0, <1>10 DEF BackendQueue, ioVars
  <2>2. sess'[c].reg = r /\ sess'[c].counted = k
    BY Zenon, <1>0, <2>1, SessionFields DEF SameSessions
  <2> QED
    BY Zenon, <2>1, <2>2 DEF ConnInv
<1>11. CASE NewMessage(c) \/ ReapClose(c) \/ WsSend(c) \/ WsClose(c)
  <2>1. /\ backend' = backend /\ net' = net /\ io' = io
        /\ sess' = sess \/ sess' = [sess EXCEPT ![c].closing = TRUE]
    BY Zenon, <1>0, <1>11 DEF NewMessage, ReapClose, WsSend, WsClose, ioVars
  <2>2. sess'[c].reg = r /\ sess'[c].counted = k
    BY Zenon, <1>0, <2>1, SessionFields DEF SameSessions
  <2> QED
    BY Zenon, <2>1, <2>2 DEF ConnInv
<1> QED
  BY Zenon, <1>1, <1>2, <1>3, <1>4, <1>5, <1>6, <1>7, <1>8, <1>9, <1>10, <1>11
     DEF OwnStep, LoopThread

LEMMA ConnStep ==
    ASSUME WsAssumption, SessionTypes, QueueTypes, ThreadInv, [Next]_vars,
           \A c \in Conns : ConnInv(c)
    PROVE  \A c \in Conns : ConnInv(c)'
<1> SUFFICES ASSUME NEW d \in Conns PROVE ConnInv(d)'
  OBVIOUS
<1>0. sess \in [Conns -> Sessions]
  BY Zenon DEF SessionTypes
<1>1. ASSUME NEW c \in Conns, OwnStep(c) PROVE ConnInv(d)'
  <2>1. CASE c = d
    BY Zenon, <1>1, <2>1, OwnConn
  <2>2. CASE c # d
    <3>1. /\ net'[d] = net[d] /\ io'[d] = io[d] /\ backend'[d] = backend[d]
          /\ sess'[d].reg = sess[d].reg /\ sess'[d].counted = sess[d].counted
      BY Zenon, <1>1, <2>2, OwnFrame
    <3> QED
      BY Zenon, <3>1 DEF ConnInv
  <2> QED
    BY Zenon, <2>1, <2>2
<1>2. CASE \/ RoomStep \/ ReapSnapshot \/ DrainWsEvents \/ CallHook \/ DrainDone \/ StopBegin
           \/ LoopsJoined \/ UNCHANGED vars
  <2>1. UNCHANGED <<net, io, sess, backend>>
    BY Zenon, <1>2 DEF RoomStep, ReapSnapshot, DrainWsEvents, CallHook, DrainDone, StopBegin,
         LoopsJoined, WsBroadcast, WsJoin, WsLeave, vars, ioVars
  <2> QED
    BY Zenon, <2>1 DEF ConnInv
<1>3. CASE HookDone
  <2> DEFINE c == Head(batch).id
  <2>1. c \in RConns /\ c \in Conns
    <3>1. Head(batch) \in Events
      BY <1>3 DEF HookDone, ThreadInv, QueueTypes
    <3> QED
      BY Zenon, <3>1 DEF Events, Conns
  <2>2. /\ UNCHANGED <<net, io, backend>>
        /\ sess' = sess \/ (sess[c].reg = "live" /\ sess' = [sess EXCEPT ![c].reg = "gone"])
    BY Zenon, <1>3 DEF HookDone, ioVars, Live
  <2> HIDE DEF c
  <2>3. c \notin CppConns
    BY <2>1 DEF WsAssumption
  <2>4. CASE d = c /\ sess[c].reg = "live" /\ sess' = [sess EXCEPT ![c].reg = "gone"]
    <3>1. sess'[c].reg = "gone" /\ sess'[c].counted = sess[c].counted
      BY Zenon, <1>0, <2>1, <2>4, SessionFields DEF SessionBecomes
    <3> QED
      BY <2>1, <2>2, <2>3, <2>4, <3>1 DEF ConnInv
  <2>5. CASE sess' = sess \/ (d # c /\ sess' = [sess EXCEPT ![c].reg = "gone"])
    <3>1. sess'[d].reg = sess[d].reg /\ sess'[d].counted = sess[d].counted
      BY Zenon, <1>0, <2>1, <2>5, SessionFields DEF SessionBecomes
    <3> QED
      BY Zenon, <2>2, <3>1 DEF ConnInv
  <2> QED
    BY Zenon, <2>2, <2>4, <2>5
<1>4. CASE ClearAllWsSessions
  <2>1. /\ sess'[d].reg = IF sess[d].reg = "live" THEN "gone" ELSE sess[d].reg
        /\ sess'[d].counted = sess[d].counted
    BY Zenon, <1>0, <1>4, SessionsCleared DEF ClearAllWsSessions
  <2>2. UNCHANGED <<net, io, backend>> /\ io[d] = "idle"
    BY Zenon, <1>4 DEF ClearAllWsSessions, ThreadInv, ioVars
  <2> QED
    BY <2>1, <2>2 DEF ConnInv
<1> QED
  BY Zenon, <1>1, <1>2, <1>3, <1>4, StepKinds
-----------------------------------------------------------------------------
(* Order.                                                                  *)

\* What a native handler hears in a step of its own connection.
LEMMA OwnCppHeard ==
    ASSUME WsAssumption, SessionTypes, QueueTypes, NEW c \in CppConns, OwnStep(c),
           ConnInv(c), CppHeard(c)
    PROVE  CppHeard(c)'
<1> DEFINE h == heard[c]
<1>0. /\ c \in Conns /\ c \notin RConns /\ h \in Seq(EventTypes)
      /\ sess \in [Conns -> Sessions] /\ sess[c].reg \in Regs
      /\ heard \in [Conns -> Seq(EventTypes)]
  BY DEF WsAssumption, SessionTypes, QueueTypes, Sessions, Conns
<1>1. server' = server
  BY Zenon, <1>0, OwnEffects
<1>2. /\ "connect" \in EventTypes /\ "message" \in EventTypes /\ "close" \in EventTypes
      /\ "message" # "connect" /\ "close" # "connect" /\ "message" # "close"
      /\ "live" # "none" /\ "live" # "gone" /\ "gone" # "none"
  BY DEF EventTypes
<1>3. CASE ConnectCpp(c)
  <2>1. /\ io[c] = "connect" /\ heard' = [heard EXCEPT ![c] = Append(@, "connect")]
        /\ sess' = [sess EXCEPT ![c].reg = "live", ![c].ctx = TRUE, ![c].counted = MaxConns > 0]
    BY Zenon, <1>3 DEF ConnectCpp, DispatchCpp
  <2>2. sess'[c].reg = "live"
    <3>1. (MaxConns > 0) \in BOOLEAN
      OBVIOUS
    <3> QED
      BY Zenon, <1>0, <2>1, <3>1, SessionFields DEF SessionBecomes
  <2>3. h = <<>> /\ heard'[c] = Append(h, "connect")
    BY Zenon, <1>0, <2>1 DEF ConnInv, CppHeard
  <2>4. InOrder(heard'[c]) /\ heard'[c] # <<>> /\ ~Over(heard'[c])
    <3> DEFINE g == Append(h, "connect")
    <3>1. h \in Seq(EventTypes) /\ "connect" \in EventTypes
      BY Zenon, <1>0, <1>2
    <3>2. g # <<>> /\ ~Over(g)
      BY Zenon, <1>2, <3>1, HearAppend
    <3>3. InOrder(g)
      BY Zenon, <1>2, <2>3, <3>1, HearAppend
    <3> QED
      BY Zenon, <2>3, <3>2, <3>3
  <2> QED
    BY Zenon, <1>2, <2>2, <2>4 DEF CppHeard
<1>4. CASE NewMessage(c)
  <2>1. /\ sess[c].reg = "live" /\ sess' = sess /\ heard'[c] = Append(h, "message")
    BY Zenon, <1>0, <1>4 DEF NewMessage, DispatchCpp, Live
  <2>2. InOrder(h) /\ h # <<>> /\ ~Over(h)
    BY Zenon, <2>1 DEF CppHeard
  <2>3. InOrder(heard'[c]) /\ heard'[c] # <<>> /\ ~Over(heard'[c])
    <3> DEFINE g == Append(h, "message")
    <3>1. h \in Seq(EventTypes) /\ "message" \in EventTypes
      BY Zenon, <1>0, <1>2
    <3>2. g # <<>> /\ ~Over(g)
      BY Zenon, <1>2, <3>1, HearAppend
    <3>3. InOrder(g)
      BY Zenon, <1>2, <2>2, <3>1, HearAppend
    <3> QED
      BY Zenon, <2>1, <3>2, <3>3
  <2> QED
    BY Zenon, <1>2, <2>1, <2>3 DEF CppHeard
<1>5. CASE CloseCpp(c)
  <2>1. /\ io[c] = "close" /\ heard'[c] = Append(h, "close")
        /\ sess' = [sess EXCEPT ![c].reg = "gone"]
    BY Zenon, <1>0, <1>5 DEF CloseCpp, DispatchCpp
  <2>2. sess'[c].reg = "gone"
    BY Zenon, <1>0, <2>1, SessionFields DEF SessionBecomes
  <2>3. InOrder(h) /\ h # <<>> /\ ~Over(h)
    BY Zenon, <2>1 DEF CppHeard, ConnInv
  <2>4. InOrder(heard'[c]) /\ heard'[c] # <<>> /\ Over(heard'[c])
    <3> DEFINE g == Append(h, "close")
    <3>1. h \in Seq(EventTypes) /\ "close" \in EventTypes
      BY Zenon, <1>0, <1>2
    <3>2. g # <<>> /\ Over(g)
      BY Zenon, <1>2, <3>1, HearAppend
    <3>3. InOrder(g)
      BY Zenon, <1>2, <2>3, <3>1, HearAppend
    <3> QED
      BY Zenon, <2>1, <3>2, <3>3
  <2> QED
    BY Zenon, <1>2, <2>2, <2>4 DEF CppHeard
<1>6. CASE ~ConnectCpp(c) /\ ~NewMessage(c) /\ ~CloseCpp(c)
  <2>1. /\ heard' = heard
        /\ \/ sess' = sess \/ sess' = [sess EXCEPT ![c].closing = TRUE]
           \/ sess' = [sess EXCEPT ![c].counted = FALSE]
    BY Zenon, <1>0, <1>6 DEF OwnStep, ConnectR, ConnectCount, ConnectionClosed, LoopThread,
         ConnectRefuse, GiveBack, RunTask, BackendFind, BackendQueue, ReapClose, WsSend, WsClose
  <2>2. sess'[c].reg = sess[c].reg
    BY Zenon, <1>0, <2>1, SessionFields DEF SessionBecomes, SameSessions
  <2> QED
    BY Zenon, <1>1, <2>1, <2>2 DEF CppHeard
<1> QED
  BY Zenon, <1>3, <1>4, <1>5, <1>6

LEMMA CppStep ==
    ASSUME WsAssumption, SessionTypes, QueueTypes, ThreadInv, [Next]_vars,
           NEW d \in CppConns, ConnInv(d), CppHeard(d)
    PROVE  CppHeard(d)'
<1>0. sess \in [Conns -> Sessions] /\ d \in Conns /\ d \notin RConns
  BY DEF SessionTypes, WsAssumption, Conns
<1>1. ASSUME NEW c \in Conns, OwnStep(c) PROVE CppHeard(d)'
  <2>1. CASE c = d
    BY Zenon, <1>1, <2>1, OwnCppHeard
  <2>2. CASE c # d
    <3>1. sess'[d].reg = sess[d].reg /\ heard'[d] = heard[d] /\ server' = server
      BY Zenon, <1>0, <1>1, <2>2, OwnFrame, OwnEffects
    <3> QED
      BY Zenon, <3>1 DEF CppHeard
  <2> QED
    BY Zenon, <2>1, <2>2
<1>2. ASSUME main \in {"hook", "skip"} \/ batch # <<>> PROVE Head(batch).id \in RConns
  <2>1. Head(batch) \in Events
    BY <1>2 DEF ThreadInv, QueueTypes
  <2> QED
    BY Zenon, <2>1 DEF Events
<1>3. CASE \/ RoomStep \/ ReapSnapshot \/ DrainWsEvents \/ DrainDone \/ StopBegin
           \/ LoopsJoined \/ UNCHANGED vars
  <2>1. UNCHANGED <<sess, heard>> /\ (server = "down" => server' = "down")
    BY Zenon, <1>3 DEF RoomStep, ReapSnapshot, DrainWsEvents, DrainDone, StopBegin,
         LoopsJoined, WsBroadcast, WsJoin, WsLeave, vars
  <2> QED
    BY Zenon, <2>1 DEF CppHeard
<1>4. CASE CallHook
  <2>1. Head(batch).id # d
    BY Zenon, <1>0, <1>2, <1>4 DEF CallHook
  <2>2. heard'[d] = heard[d] /\ sess' = sess /\ server' = server
    BY Zenon, <1>0, <1>4, <2>1 DEF CallHook, QueueTypes
  <2> QED
    BY Zenon, <2>2 DEF CppHeard
<1>5. CASE HookDone
  <2>1. Head(batch).id # d /\ Head(batch).id \in Conns
    BY Zenon, <1>0, <1>2, <1>5 DEF HookDone, Conns
  <2>2. /\ heard' = heard /\ server' = server
        /\ sess' = sess \/ sess' = [sess EXCEPT ![Head(batch).id].reg = "gone"]
    BY Zenon, <1>5 DEF HookDone
  <2>3. sess'[d].reg = sess[d].reg
    BY Zenon, <1>0, <2>1, <2>2, SessionFields DEF SessionBecomes
  <2> QED
    BY Zenon, <2>2, <2>3 DEF CppHeard
<1>6. CASE ClearAllWsSessions
  <2>1. sess'[d].reg = IF sess[d].reg = "live" THEN "gone" ELSE sess[d].reg
    BY Zenon, <1>0, <1>6, SessionsCleared DEF ClearAllWsSessions
  <2>2. heard' = heard /\ server' = "down"
    BY Zenon, <1>6 DEF ClearAllWsSessions
  <2> QED
    BY <2>1, <2>2 DEF CppHeard
<1> QED
  BY Zenon, <1>1, <1>3, <1>4, <1>5, <1>6, StepKinds

\* How the events that are yet to be heard change.
LEMMA RestChanges ==
    ASSUME QueueTypes, ThreadInv
    PROVE  /\ Rest \in Seq(Events)
           /\ \A e \in Events :
                (events' = Append(events, e) /\ UNCHANGED <<batch, main>>)
                    => Rest' = Append(Rest, e)
           /\ UNCHANGED <<batch, events, main>> => Rest' = Rest
           /\ DrainWsEvents \/ DrainDone \/ StopBegin \/ HookDone => Rest' = Rest
           /\ CallHook => Rest # <<>> /\ Rest[1] = Head(batch) /\ Rest' = Tail(Rest)
<1>0. batch \in Seq(Events) /\ events \in Seq(Events)
  BY Zenon DEF QueueTypes
<1>1. /\ Queue \in Seq(Events) /\ (batch # <<>> => Queue # <<>>)
      /\ batch # <<>> => /\ Tail(Queue) = Tail(batch) \o events /\ Tail(Queue) \in Seq(Events)
                         /\ Queue[1] = Head(batch)
      /\ \A e \in Events : batch \o Append(events, e) = Append(Queue, e)
      /\ \A e \in Events : batch # <<>> => Tail(Append(Queue, e)) = Append(Tail(Queue), e)
      /\ <<>> \o events = events /\ events \o <<>> = events
  <2>1. /\ Queue \in Seq(Events) /\ (batch # <<>> => Queue # <<>>)
        /\ \A e \in Events : batch \o Append(events, e) = Append(Queue, e)
        /\ <<>> \o events = events /\ events \o <<>> = events
    BY <1>0 DEF Queue
  <2>2. batch # <<>> => /\ Tail(Queue) = Tail(batch) \o events /\ Tail(Queue) \in Seq(Events)
                        /\ Queue[1] = Head(batch)
    BY <1>0 DEF Queue
  <2>3. \A e \in Events : batch # <<>> => Tail(Append(Queue, e)) = Append(Tail(Queue), e)
    BY <2>1
  <2> QED
    BY Zenon, <2>1, <2>2, <2>3
<1>2. Rest \in Seq(Events)
  BY Zenon, <1>1 DEF Rest, Taken
<1>3. ASSUME NEW e \in Events, events' = Append(events, e), UNCHANGED <<batch, main>>
      PROVE  Rest' = Append(Rest, e)
  <2>1. Queue' = Append(Queue, e) /\ Taken' = Taken
    BY Zenon, <1>1, <1>3 DEF Queue, Taken
  <2> QED
    BY Zenon, <1>1, <2>1 DEF Rest, Taken
<1>4. ASSUME UNCHANGED <<batch, events, main>> PROVE Rest' = Rest
  BY Zenon, <1>4 DEF Rest, Taken, Queue
<1>5. ASSUME DrainWsEvents PROVE Rest' = Rest
  <2>1. batch = <<>> /\ batch' = events /\ events' = <<>> /\ main' = "drain"
    BY Zenon, <1>5 DEF DrainWsEvents, ThreadInv
  <2>2. ~Taken /\ ~Taken'
    BY <2>1 DEF Taken
  <2>3. Queue' = Queue
    BY Zenon, <1>1, <2>1 DEF Queue
  <2> QED
    BY Zenon, <2>2, <2>3 DEF Rest
<1>6. ASSUME DrainDone PROVE Rest' = Rest
  <2>1. batch = <<>> /\ batch' = batch /\ events' = events
    BY Zenon, <1>6 DEF DrainDone
  <2> QED
    BY Zenon, <2>1 DEF Rest, Taken, Queue
<1>7. ASSUME StopBegin PROVE Rest' = Rest
  <2>1. /\ main \in {"idle", "hook"} /\ main' = "stop" /\ batch' = batch /\ events' = events
        /\ main = "idle" => batch = <<>>
    BY Zenon, <1>7 DEF StopBegin, InRCode, ThreadInv
  <2>2. Taken' = Taken /\ Queue' = Queue
    BY <2>1 DEF Taken, Queue
  <2> QED
    BY Zenon, <2>2 DEF Rest
<1>8. ASSUME HookDone PROVE Rest' = Rest
  <2>1. /\ main \in {"hook", "skip"} /\ batch # <<>> /\ main' = "drain"
        /\ batch' = Tail(batch) /\ events' = events
    BY Zenon, <1>8 DEF HookDone, ThreadInv
  <2>2. Taken /\ ~Taken'
    BY <2>1 DEF Taken
  <2>3. Queue' = Tail(Queue)
    BY Zenon, <1>1, <2>1 DEF Queue
  <2> QED
    BY Zenon, <2>2, <2>3 DEF Rest
<1>9. ASSUME CallHook PROVE Rest # <<>> /\ Rest[1] = Head(batch) /\ Rest' = Tail(Rest)
  <2>1. /\ main = "drain" /\ batch # <<>> /\ main' \in {"hook", "skip"}
        /\ batch' = batch /\ events' = events
    BY <1>9 DEF CallHook
  <2>2. ~Taken /\ Taken' /\ Queue' = Queue
    BY <2>1 DEF Taken, Queue
  <2> QED
    BY Zenon, <1>1, <2>1, <2>2 DEF Rest
<1> QED
  BY Zenon, <1>2, <1>3, <1>4, <1>5, <1>6, <1>7, <1>8, <1>9

\* What a step for a connection of an R route changes.
LEMMA OwnR ==
    ASSUME WsAssumption, SessionTypes, QueueTypes, NEW c \in RConns, OwnStep(c), ConnInv(c)
    PROVE  /\ heard' = heard /\ (sess'[c].reg = "gone" => sess[c].reg = "gone")
           /\ \/ /\ net[c] = "none" /\ net'[c] = "open"
                 /\ events' = Append(events, Event("connect", c))
              \/ /\ net[c] \in {"open", "shut"} /\ net'[c] = net[c]
                 /\ events' = Append(events, Event("message", c))
              \/ /\ net[c] \in {"open", "shut"} /\ net'[c] = "closed"
                 /\ events' = Append(events, Event("close", c))
              \/ /\ net[c] \in {"open", "shut"} /\ net'[c] \in {"shut", "closed"}
                 /\ events' = events
              \/ net'[c] = net[c] /\ events' = events
<1>0. /\ c \in Conns /\ c \notin CppConns /\ sess \in [Conns -> Sessions] /\ io[c] = "idle"
      /\ net \in [Conns -> {"none", "open", "shut", "closed"}]
  BY DEF SessionTypes, WsAssumption, Conns, ConnInv
<1>1. "live" # "gone" /\ "idle" # "connect" /\ "idle" # "close" /\ "idle" # "erase"
  OBVIOUS
<1>2. CASE ConnectR(c)
  <2>1. /\ heard' = heard /\ net[c] = "none" /\ net'[c] = "open"
        /\ events' = Append(events, Event("connect", c))
        /\ sess' = [sess EXCEPT ![c].reg = "live", ![c].ctx = TRUE]
    BY Zenon, <1>0, <1>2 DEF ConnectR, EnqueueWsEvent
  <2>2. sess'[c].reg = "live"
    BY Zenon, <1>0, <2>1, SessionFields DEF SessionBecomes
  <2> QED
    BY Zenon, <1>1, <2>1, <2>2
<1>3. CASE NewMessage(c)
  BY Zenon, <1>0, <1>3 DEF NewMessage, EnqueueWsEvent
<1>4. CASE ConnectionClosed(c)
  <2>1. /\ heard' = heard /\ net[c] \in {"open", "shut"} /\ net'[c] = "closed"
        /\ events' = events \/ events' = Append(events, Event("close", c))
        /\ sess' = sess \/ sess' = [sess EXCEPT ![c].closing = TRUE]
    BY Zenon, <1>0, <1>4 DEF ConnectionClosed, EnqueueWsEvent
  <2>2. sess'[c].reg = sess[c].reg
    BY Zenon, <1>0, <2>1, SessionFields DEF SameSessions
  <2> QED
    BY Zenon, <2>1, <2>2
<1>5. CASE RunTask(c)
  <2>1. /\ heard' = heard /\ events' = events /\ sess' = sess
        /\ net'[c] = net[c] \/ (net[c] = "open" /\ net'[c] = "shut")
    BY Zenon, <1>0, <1>5 DEF RunTask, Connected
  <2> QED
    BY Zenon, <2>1
<1>6. CASE ~ConnectR(c) /\ ~NewMessage(c) /\ ~ConnectionClosed(c) /\ ~RunTask(c)
  <2>1. /\ heard' = heard /\ events' = events /\ net' = net
        /\ sess' = sess \/ sess' = [sess EXCEPT ![c].closing = TRUE]
    BY Zenon, <1>0, <1>1, <1>6 DEF OwnStep, ConnectCount, LoopThread, ConnectRefuse, ConnectCpp,
         CloseCpp, GiveBack, BackendFind, BackendQueue, ReapClose, WsSend, WsClose, ioVars
  <2>2. sess'[c].reg = sess[c].reg
    BY Zenon, <1>0, <2>1, SessionFields DEF SameSessions
  <2> QED
    BY Zenon, <2>1, <2>2
<1> QED
  BY Zenon, <1>2, <1>3, <1>4, <1>5, <1>6

LEMMA OwnRHeard ==
    ASSUME WsAssumption, SessionTypes, QueueTypes, ThreadInv, NEW c \in RConns, OwnStep(c),
           ConnInv(c), RHeard(c)
    PROVE  RHeard(c)'
<1>0. c \in Conns /\ UNCHANGED <<server, routes, batch, main>>
  <2>1. c \in Conns
    BY Zenon DEF Conns
  <2> QED
    BY Zenon, <2>1, OwnEffects
<1>1. heard' = heard /\ (sess'[c].reg = "gone" => sess[c].reg = "gone")
  BY Zenon, OwnR
<1>2. /\ Rest \in Seq(Events)
      /\ \A e \in Events : events' = Append(events, e) => Rest' = Append(Rest, e)
      /\ events' = events => Rest' = Rest
  BY Zenon, <1>0, RestChanges
<1>3. /\ \A t \in EventTypes : Event(t, c) \in Events /\ Event(t, c).id = c /\ Event(t, c).type = t
      /\ "connect" \in EventTypes /\ "message" \in EventTypes /\ "close" \in EventTypes
  BY DEF Event, Events, EventTypes
<1>4. ASSUME routes, Continues(heard[c], c, Rest, net[c])
      PROVE  Continues(heard[c], c, Rest', net'[c])
  <2>1. CASE /\ net[c] = "none" /\ net'[c] = "open"
             /\ events' = Append(events, Event("connect", c))
    <3>1. Rest' = Append(Rest, Event("connect", c))
      BY Zenon, <1>2, <1>3, <2>1
    <3>2. Continues(heard[c], c, Append(Rest, Event("connect", c)), "open")
      BY Zenon, <1>2, <1>3, <1>4, <2>1, QueueAppend
    <3> QED
      BY Zenon, <2>1, <3>1, <3>2
  <2>2. CASE /\ net[c] \in {"open", "shut"} /\ net'[c] = net[c]
             /\ events' = Append(events, Event("message", c))
    <3>1. Rest' = Append(Rest, Event("message", c))
      BY Zenon, <1>2, <1>3, <2>2
    <3>2. Continues(heard[c], c, Append(Rest, Event("message", c)), net[c])
      BY Zenon, <1>2, <1>3, <1>4, <2>2, QueueAppend
    <3> QED
      BY Zenon, <2>2, <3>1, <3>2
  <2>3. CASE /\ net[c] \in {"open", "shut"} /\ net'[c] = "closed"
             /\ events' = Append(events, Event("close", c))
    <3>1. Rest' = Append(Rest, Event("close", c))
      BY Zenon, <1>2, <1>3, <2>3
    <3>2. Continues(heard[c], c, Append(Rest, Event("close", c)), "closed")
      BY Zenon, <1>2, <1>3, <1>4, <2>3, QueueAppend
    <3> QED
      BY Zenon, <2>3, <3>1, <3>2
  <2>4. CASE /\ net[c] \in {"open", "shut"} /\ net'[c] \in {"shut", "closed"}
             /\ events' = events
    BY Zenon, <1>2, <1>4, <2>4, NetChanges
  <2>5. CASE net'[c] = net[c] /\ events' = events
    BY Zenon, <1>2, <1>4, <2>5
  <2> QED
    BY Zenon, <2>1, <2>2, <2>3, <2>4, <2>5, OwnR
<1> QED
  BY Zenon, <1>0, <1>1, <1>4 DEF RHeard

LEMMA OtherRHeard ==
    ASSUME WsAssumption, SessionTypes, QueueTypes, ThreadInv, NEW c \in Conns, OwnStep(c),
           NEW d \in RConns, d # c, RHeard(d)
    PROVE  RHeard(d)'
<1>0. d \in Conns /\ UNCHANGED <<server, routes, batch, main>>
  <2>1. d \in Conns
    BY Zenon DEF Conns
  <2> QED
    BY Zenon, <2>1, OwnEffects
<1>1. heard'[d] = heard[d] /\ sess'[d].reg = sess[d].reg /\ net'[d] = net[d]
  BY Zenon, <1>0, OwnFrame
<1>2. CASE events' = events
  <2>1. Rest' = Rest
    BY Zenon, <1>0, <1>2, RestChanges
  <2> QED
    BY Zenon, <1>0, <1>1, <2>1 DEF RHeard
<1>3. ASSUME NEW t \in EventTypes, c \in RConns, events' = Append(events, Event(t, c))
      PROVE  RHeard(d)'
  <2>1. Event(t, c) \in Events /\ Event(t, c).id # d
    BY <1>3 DEF Event, Events
  <2>2. Rest' = Append(Rest, Event(t, c)) /\ Rest \in Seq(Events)
    BY Zenon, <1>0, <1>3, <2>1, RestChanges
  <2>3. Continues(heard[d], d, Rest, net[d]) => Continues(heard[d], d, Rest', net[d])
    BY Zenon, <2>1, <2>2, QueueAppend
  <2> QED
    BY Zenon, <1>0, <1>1, <2>3 DEF RHeard
<1> QED
  BY Zenon, <1>2, <1>3, OwnQueues

LEMMA RStep ==
    ASSUME WsAssumption, SessionTypes, QueueTypes, ThreadInv, HookInv, [Next]_vars,
           NEW d \in RConns, ConnInv(d), RHeard(d)
    PROVE  RHeard(d)'
<1>0. sess \in [Conns -> Sessions] /\ d \in Conns
  BY Zenon DEF SessionTypes, Conns
<1>1. ASSUME NEW c \in Conns, OwnStep(c) PROVE RHeard(d)'
  BY Zenon, <1>1, OwnRHeard, OtherRHeard
<1>2. CASE \/ RoomStep \/ ReapSnapshot \/ LoopsJoined \/ UNCHANGED vars \/ DrainWsEvents
           \/ DrainDone \/ StopBegin
  <2>1. UNCHANGED <<sess, heard, net, routes>> /\ (server' = "up" => server = "up")
    <3>1. "stopping" # "up" /\ "down" # "up"
      OBVIOUS
    <3> QED
      BY Zenon, <1>2, <3>1 DEF RoomStep, ReapSnapshot, LoopsJoined, DrainWsEvents, DrainDone,
         StopBegin, WsBroadcast, WsJoin, WsLeave, vars, ioVars
  <2>2. Rest' = Rest
    <3>1. CASE RoomStep \/ ReapSnapshot \/ LoopsJoined \/ UNCHANGED vars
      <4>1. UNCHANGED <<batch, events, main>>
        BY Zenon, <3>1 DEF RoomStep, ReapSnapshot, LoopsJoined, WsBroadcast, WsJoin, WsLeave,
             vars, mainVars
      <4> QED
        BY Zenon, <4>1, RestChanges
    <3>2. CASE DrainWsEvents \/ DrainDone \/ StopBegin
      BY Zenon, <3>2, RestChanges
    <3> QED
      BY Zenon, <1>2, <3>1, <3>2
  <2> QED
    BY Zenon, <2>1, <2>2 DEF RHeard
<1>3. CASE CallHook
  <2> DEFINE e == Rest[1]
  <2>1. /\ Rest \in Seq(Events) /\ Rest # <<>> /\ e = Head(batch) /\ Rest' = Tail(Rest)
    BY Zenon, <1>3, RestChanges
  <2>2. /\ UNCHANGED <<sess, net, routes, server>>
        /\ heard' = IF routes THEN [heard EXCEPT ![e.id] = Append(@, e.type)] ELSE heard
    BY Zenon, <1>3, <2>1 DEF CallHook, ioVars
  <2>3. CASE ~routes
    BY Zenon, <2>2, <2>3 DEF RHeard
  <2>4. CASE routes
    <3>1. /\ Continues(heard[d], d, Rest, net[d]) /\ InOrder(heard[d])
          /\ heard[d] \in Seq(EventTypes) /\ heard \in [Conns -> Seq(EventTypes)]
      BY Zenon, <1>0, <2>4 DEF RHeard, QueueTypes
    <3>2. CASE e.id = d
      <4>1. heard'[d] = Append(heard[d], e.type)
        BY Zenon, <1>0, <2>2, <2>4, <3>1, <3>2
      <4>2. /\ Continues(heard'[d], d, Rest', net[d]) /\ InOrder(heard'[d])
        BY Zenon, <2>1, <3>1, <3>2, <4>1, QueueTail
      <4>3. ~(sess[d].reg = "gone" /\ server = "up")
        <5>1. ~Over(heard[d])
          BY <2>1, <3>1, <3>2 DEF Continues
        <5> QED
          BY Zenon, <5>1 DEF RHeard
      <4> QED
        BY Zenon, <2>2, <4>2, <4>3 DEF RHeard
    <3>3. CASE e.id # d
      <4>1. heard'[d] = heard[d]
        BY Zenon, <1>0, <2>2, <2>4, <3>1, <3>3
      <4>2. Continues(heard'[d], d, Rest', net[d])
        BY Zenon, <2>1, <3>1, <3>3, <4>1, QueueTail
      <4> QED
        BY Zenon, <2>2, <4>1, <4>2 DEF RHeard
    <3> QED
      BY Zenon, <3>2, <3>3
  <2> QED
    BY Zenon, <2>3, <2>4
<1>4. CASE HookDone
  <2> DEFINE c == Head(batch).id
  <2>1. Rest' = Rest
    BY Zenon, <1>4, RestChanges
  <2>2. /\ UNCHANGED <<heard, net, routes, server>> /\ main \in {"hook", "skip"}
        /\ \/ sess' = sess
           \/ Head(batch).type = "close" /\ sess' = [sess EXCEPT ![c].reg = "gone"]
    BY Zenon, <1>4 DEF HookDone, ioVars
  <2>3. Head(batch) \in Events
    BY <1>4 DEF HookDone, ThreadInv, QueueTypes
  <2>4. c \in Conns
    BY Zenon, <2>3 DEF Events, Conns
  <2>5. CASE sess' = sess
    BY Zenon, <2>1, <2>2, <2>5 DEF RHeard
  <2>6. CASE Head(batch).type = "close" /\ sess' = [sess EXCEPT ![c].reg = "gone"] /\ c # d
    <3>1. SessionBecomes(c, "gone", sess[c].counted)
      <4>1. TRUE \in BOOLEAN
        OBVIOUS
      <4> QED
        BY Zenon, <1>0, <2>4, <2>6, <4>1, SessionFields
    <3>2. sess'[d].reg = sess[d].reg
      BY Zenon, <2>6, <3>1 DEF SessionBecomes, Conns
    <3> QED
      BY Zenon, <2>1, <2>2, <3>2 DEF RHeard
  <2>7. CASE Head(batch).type = "close" /\ c = d
    <3>1. server = "up" => routes /\ main = "hook"
      BY <2>2 DEF ThreadInv
    <3>2. server = "up" => Over(heard[d])
      BY Zenon, <2>7, <3>1 DEF HookInv, Over
    <3> QED
      BY Zenon, <2>1, <2>2, <3>2 DEF RHeard
  <2> QED
    BY Zenon, <2>2, <2>5, <2>6, <2>7
<1>5. CASE ClearAllWsSessions
  <2>1. heard' = heard /\ server' # "up" /\ ~routes'
    BY <1>5 DEF ClearAllWsSessions
  <2> QED
    BY Zenon, <2>1 DEF RHeard
<1> QED
  BY Zenon, <1>1, <1>2, <1>3, <1>4, <1>5, StepKinds

LEMMA HookStep ==
    ASSUME WsAssumption, SessionTypes, QueueTypes, ThreadInv, HookInv, [Next]_vars,
           \A c \in Conns : ConnInv(c)
    PROVE  HookInv'
<1> DEFINE d == Head(batch).id
<1>0. main = "hook" \/ batch # <<>> => d \in RConns /\ d \in Conns /\ Head(batch).type \in EventTypes
  <2> SUFFICES ASSUME main = "hook" \/ batch # <<>>
               PROVE  d \in RConns /\ d \in Conns /\ Head(batch).type \in EventTypes
    BY Zenon
  <2>1. Head(batch) \in Events
    BY DEF ThreadInv, QueueTypes
  <2> QED
    BY Zenon, <2>1 DEF Events, Conns
<1>1. ASSUME NEW c \in Conns, OwnStep(c) PROVE HookInv'
  <2>1. UNCHANGED <<routes, batch, main>>
    BY Zenon, <1>1, OwnEffects
  <2>2. CASE main # "hook"
    BY Zenon, <2>1, <2>2 DEF HookInv
  <2>3. CASE main = "hook"
    <3>1. heard'[d] = heard[d]
      <4>1. CASE c = d
        BY Zenon, <1>0, <1>1, <2>3, <4>1, OwnR
      <4>2. CASE c # d
        BY Zenon, <1>0, <1>1, <2>3, <4>2, OwnFrame
      <4> QED
        BY Zenon, <4>1, <4>2
    <3> QED
      BY Zenon, <2>1, <3>1 DEF HookInv
  <2> QED
    BY Zenon, <2>2, <2>3
<1>2. CASE RoomStep \/ ReapSnapshot \/ LoopsJoined \/ UNCHANGED vars
  <2>1. UNCHANGED <<batch, heard, main, routes>>
    BY Zenon, <1>2 DEF RoomStep, ReapSnapshot, LoopsJoined, WsBroadcast, WsJoin, WsLeave,
         vars, mainVars
  <2> QED
    BY Zenon, <2>1 DEF HookInv
<1>3. CASE DrainWsEvents \/ DrainDone \/ StopBegin \/ HookDone
  BY <1>3 DEF DrainWsEvents, DrainDone, StopBegin, HookDone, HookInv
<1>4. CASE CallHook
  <2>1. /\ batch # <<>> /\ batch' = batch /\ routes' = routes
        /\ routes => heard' = [heard EXCEPT ![d] = Append(@, Head(batch).type)]
    BY Zenon, <1>4 DEF CallHook
  <2>2. d \in Conns /\ Head(batch).type \in EventTypes /\ heard[d] \in Seq(EventTypes)
    BY Zenon, <1>0, <2>1 DEF QueueTypes
  <2>3. routes => heard'[d] = Append(heard[d], Head(batch).type)
    BY Zenon, <2>1, <2>2 DEF QueueTypes
  <2>4. LET g == Append(heard[d], Head(batch).type)
        IN  g # <<>> /\ g[Len(g)] = Head(batch).type
    BY Zenon, <2>2, HearAppend
  <2> QED
    BY Zenon, <2>1, <2>3, <2>4 DEF HookInv
<1>5. CASE ClearAllWsSessions
  BY <1>5 DEF ClearAllWsSessions, HookInv
<1> QED
  BY Zenon, <1>1, <1>2, <1>3, <1>4, <1>5, StepKinds

LEMMA SessionInit == ASSUME WsAssumption, Init PROVE SessionInv
<1>1. SessionTypes
  <2>1. NoSession \in Sessions /\ <<>> \in Seq({"send", "shutdown"}) /\ 0 \in 0..MaxMsgs
    BY DEF NoSession, Sessions, Regs, WsAssumption
  <2> QED
    BY Zenon, <2>1 DEF Init, SessionTypes
<1>2. QueueTypes
  <2>1. <<>> \in Seq(Events) /\ <<>> \in Seq(EventTypes)
    OBVIOUS
  <2> QED
    BY Zenon, <2>1 DEF Init, QueueTypes
<1>3. ThreadInv /\ HookInv
  BY DEF Init, ThreadInv, HookInv
<1>4. ASSUME NEW c \in Conns PROVE ConnInv(c)
  BY DEF Init, ConnInv, NoSession
<1>5. /\ batch \o events = <<>> /\ ~Taken
  BY DEF Init, Taken
<1>6. Rest = <<>>
  BY Zenon, <1>5 DEF Rest, Queue
<1>7. InOrder(<<>>) /\ ~Over(<<>>)
  BY DEF InOrder, Over
<1>8. ASSUME NEW c \in Conns PROVE heard[c] = <<>> /\ net[c] = "none" /\ sess[c].reg = "none"
  BY Zenon DEF Init, NoSession
<1>9. ASSUME NEW c \in CppConns PROVE CppHeard(c)
  <2>1. c \in Conns
    BY Zenon DEF Conns
  <2> QED
    BY <1>7, <1>8, <2>1 DEF CppHeard
<1>10. ASSUME NEW c \in RConns PROVE RHeard(c)
  <2>1. c \in Conns
    BY Zenon DEF Conns
  <2>2. Continues(<<>>, c, <<>>, "none")
    BY <1>7 DEF Continues
  <2> QED
    BY <1>6, <1>7, <1>8, <2>1, <2>2 DEF RHeard
<1> QED
  BY Zenon, <1>1, <1>2, <1>3, <1>4, <1>9, <1>10 DEF SessionInv

LEMMA SessionStep == ASSUME WsAssumption, SessionInv, [Next]_vars PROVE SessionInv'
<1>0. CppConns \subseteq Conns /\ RConns \subseteq Conns
  BY DEF Conns
<1>1. SessionTypes' /\ QueueTypes'
  BY Zenon, TypesStep DEF SessionInv
<1>2. ThreadInv' /\ HookInv'
  BY Zenon, ThreadStep, HookStep DEF SessionInv
<1>3. \A c \in Conns : ConnInv(c)'
  BY Zenon, ConnStep DEF SessionInv
<1>4. \A c \in CppConns : CppHeard(c)'
  BY Zenon, <1>0, CppStep DEF SessionInv
<1>5. \A c \in RConns : RHeard(c)'
  BY Zenon, <1>0, RStep DEF SessionInv
<1> QED
  BY Zenon, <1>1, <1>2, <1>3, <1>4, <1>5 DEF SessionInv
-----------------------------------------------------------------------------
(* The slots of a native route.                                            *)

Holds(c) == sess[c].counted \/ io[c] = "connect"
MayStay(c) == sess[c].counted \/ (io[c] = "connect" /\ after[c] <= MaxConns)

\* The connections that hold a slot, and those of them that keep it.
Slots == {c \in CppConns : Holds(c)}
Admitted == {c \in CppConns : MayStay(c)}

AfterTypes == live \in Nat /\ after \in [Conns -> Nat]

\* What a step does to them: nothing, or a connect takes a slot, which it may
\* keep if the count allows, or a connection gives its slot back.
TakesSlot(c) ==
    /\ c \notin Slots /\ Slots' = Slots \union {c}
    /\ live' = live + 1 /\ after' = [after EXCEPT ![c] = live + 1]
    /\ Admitted' = IF live + 1 <= MaxConns THEN Admitted \union {c} ELSE Admitted

GivesSlot(c) ==
    /\ c \in Slots /\ Slots' = Slots \ {c}
    /\ live' = live - 1 /\ after' = after
    /\ Admitted' \subseteq Admitted

KeepsSlots == Slots' = Slots /\ live' = live /\ after' = after /\ Admitted' = Admitted

LEMMA SameSlots ==
    ASSUME \A c \in CppConns : Holds(c)' = Holds(c) /\ MayStay(c)' = MayStay(c)
    PROVE  Slots' = Slots /\ Admitted' = Admitted
<1>1. Slots' = {c \in CppConns : Holds(c)'} /\ Admitted' = {c \in CppConns : MayStay(c)'}
  BY Zenon DEF Slots, Admitted
<1> QED
  BY Zenon, <1>1 DEF Slots, Admitted

\* A step for one connection, with a limit.
LEMMA OwnSlots ==
    ASSUME WsAssumption, MaxConns > 0, SessionTypes, QueueTypes, AfterTypes,
           NEW c \in Conns, OwnStep(c), ConnInv(c)
    PROVE  KeepsSlots \/ (c \in CppConns /\ (TakesSlot(c) \/ GivesSlot(c)))
<1>0. /\ sess \in [Conns -> Sessions] /\ sess[c].counted \in BOOLEAN
      /\ io \in [Conns -> {"idle", "connect", "close", "erase"}]
      /\ after \in [Conns -> Nat] /\ live \in Nat /\ MaxConns \in Nat
      /\ CppConns \subseteq Conns
      /\ c \notin CppConns => io[c] = "idle" /\ ~sess[c].counted
  BY DEF SessionTypes, Sessions, WsAssumption, AfterTypes, Conns, ConnInv
<1>1. \A d \in Conns \ {c} : after'[d] = after[d]
  BY Zenon, <1>0, OwnEffects
<1>2. \A d \in CppConns \ {c} : Holds(d)' = Holds(d) /\ MayStay(d)' = MayStay(d)
  BY Zenon, <1>0, <1>1, OwnFrame DEF Holds, MayStay
<1>3. ASSUME Holds(c)' = Holds(c), MayStay(c)' = MayStay(c), live' = live, after' = after
      PROVE  KeepsSlots
  BY Zenon, <1>2, <1>3, SameSlots DEF KeepsSlots
<1>4. CASE ConnectCount(c)
  <2>1. /\ c \in CppConns /\ net[c] = "none" /\ io'[c] = "connect" /\ sess' = sess
        /\ live' = live + 1 /\ after' = [after EXCEPT ![c] = live + 1]
    BY Zenon, <1>0, <1>4 DEF ConnectCount
  <2>2. ~Holds(c) /\ ~MayStay(c) /\ ~sess[c].counted
    BY <2>1 DEF Holds, MayStay, ConnInv
  <2>3. Holds(c)' /\ (MayStay(c)' <=> live + 1 <= MaxConns)
    <3>1. after'[c] = live + 1
      BY Zenon, <1>0, <2>1
    <3> QED
      BY Zenon, <2>1, <2>2, <3>1 DEF Holds, MayStay
  <2>4. /\ c \notin Slots /\ Slots' = Slots \union {c}
    BY Zenon, <1>2, <2>1, <2>2, <2>3 DEF Slots
  <2>5. Admitted' = IF live + 1 <= MaxConns THEN Admitted \union {c} ELSE Admitted
    <3>1. CASE live + 1 <= MaxConns
      BY Zenon, <1>2, <2>1, <2>2, <2>3, <3>1 DEF Admitted
    <3>2. CASE ~(live + 1 <= MaxConns)
      BY Zenon, <1>2, <2>1, <2>2, <2>3, <3>2 DEF Admitted
    <3> QED
      BY Zenon, <3>1, <3>2
  <2> QED
    BY Zenon, <2>1, <2>4, <2>5 DEF TakesSlot
<1>5. CASE ConnectRefuse(c)
  <2>1. /\ io[c] = "connect" /\ io'[c] = "idle" /\ sess' = sess /\ after[c] > MaxConns
        /\ live' = live - 1 /\ after' = after
    BY Zenon, <1>0, <1>5 DEF ConnectRefuse, OverCapacity
  <2>2. c \in CppConns /\ Holds(c) /\ ~MayStay(c) /\ ~Holds(c)' /\ ~MayStay(c)'
    BY <1>0, <2>1 DEF Holds, MayStay, ConnInv
  <2>3. c \in Slots /\ Slots' = Slots \ {c}
    BY Zenon, <1>2, <2>2 DEF Slots
  <2>4. Admitted' \subseteq Admitted
    BY Zenon, <1>2, <2>2 DEF Admitted
  <2> QED
    BY Zenon, <2>1, <2>2, <2>3, <2>4 DEF GivesSlot
<1>6. CASE ConnectCpp(c)
  <2>1. /\ io[c] = "connect" /\ io'[c] = "idle" /\ live' = live /\ after' = after
        /\ sess' = [sess EXCEPT ![c].reg = "live", ![c].ctx = TRUE, ![c].counted = MaxConns > 0]
        /\ ~(after[c] > MaxConns)
    BY Zenon, <1>0, <1>6 DEF ConnectCpp, OverCapacity
  <2>2. sess'[c].counted = TRUE
    <3>1. (MaxConns > 0) \in BOOLEAN /\ (MaxConns > 0) = TRUE
      OBVIOUS
    <3> QED
      BY Zenon, <1>0, <2>1, <3>1, SessionFields DEF SessionBecomes
  <2>3. Holds(c) /\ Holds(c)' /\ MayStay(c) /\ MayStay(c)'
    BY <1>0, <2>1, <2>2 DEF Holds, MayStay
  <2>4. Holds(c)' = Holds(c) /\ MayStay(c)' = MayStay(c)
    BY <2>3 DEF Holds, MayStay
  <2> QED
    BY Zenon, <1>3, <2>1, <2>4
<1>7. CASE GiveBack(c)
  <2>1. /\ io[c] = "erase" /\ io'[c] = "idle" /\ after' = after
        /\ live' = IF sess[c].counted THEN live - 1 ELSE live
        /\ sess' = [sess EXCEPT ![c].counted = FALSE]
    BY Zenon, <1>0, <1>7 DEF GiveBack
  <2>2. sess'[c].counted = FALSE
    BY Zenon, <1>0, <2>1, SessionFields DEF SessionBecomes
  <2>3. ~Holds(c)' /\ ~MayStay(c)' /\ (Holds(c) <=> sess[c].counted)
        /\ (MayStay(c) <=> sess[c].counted) /\ c \in CppConns
    BY <1>0, <2>1, <2>2 DEF Holds, MayStay
  <2>4. CASE sess[c].counted
    <3>1. c \in Slots /\ Slots' = Slots \ {c}
      BY Zenon, <1>2, <2>3, <2>4 DEF Slots
    <3>2. Admitted' \subseteq Admitted
      BY Zenon, <1>2, <2>3 DEF Admitted
    <3> QED
      BY Zenon, <2>1, <2>3, <2>4, <3>1, <3>2 DEF GivesSlot
  <2>5. CASE ~sess[c].counted
    <3>1. Holds(c)' = Holds(c) /\ MayStay(c)' = MayStay(c)
      BY <2>3, <2>5 DEF Holds, MayStay
    <3> QED
      BY Zenon, <1>3, <2>1, <2>5, <3>1
  <2> QED
    BY Zenon, <2>4, <2>5
<1>8. CASE ConnectionClosed(c) \/ CloseCpp(c)
  <2>1. /\ io[c] # "connect" /\ io'[c] # "connect" /\ after' = after /\ live' = live
        /\ \/ sess' = sess \/ sess' = [sess EXCEPT ![c].closing = TRUE]
           \/ sess' = [sess EXCEPT ![c].reg = "gone"]
    <3>1. "idle" # "connect" /\ "close" # "connect" /\ "erase" # "connect"
      OBVIOUS
    <3> QED
      BY Zenon, <1>0, <1>8, <3>1 DEF ConnectionClosed, CloseCpp
  <2>2. sess'[c].counted = sess[c].counted
    BY Zenon, <1>0, <2>1, SessionFields DEF SessionBecomes, SameSessions
  <2>3. Holds(c)' = Holds(c) /\ MayStay(c)' = MayStay(c)
    BY <2>1, <2>2 DEF Holds, MayStay
  <2> QED
    BY Zenon, <1>3, <2>1, <2>3
<1>9. CASE /\ ~ConnectCount(c) /\ ~ConnectRefuse(c) /\ ~ConnectCpp(c) /\ ~GiveBack(c)
           /\ ~ConnectionClosed(c) /\ ~CloseCpp(c)
  <2>1. /\ io' = io /\ after' = after /\ live' = live
        /\ \/ sess' = sess \/ sess' = [sess EXCEPT ![c].closing = TRUE]
           \/ sess' = [sess EXCEPT ![c].reg = "live", ![c].ctx = TRUE]
    BY Zenon, <1>9 DEF OwnStep, ConnectR, NewMessage, LoopThread, RunTask, BackendFind,
         BackendQueue, ReapClose, WsSend, WsClose, ioVars
  <2>2. sess'[c].counted = sess[c].counted
    BY Zenon, <1>0, <2>1, SessionFields DEF SessionBecomes, SameSessions
  <2>3. Holds(c)' = Holds(c) /\ MayStay(c)' = MayStay(c)
    BY Zenon, <2>1, <2>2 DEF Holds, MayStay
  <2> QED
    BY Zenon, <1>3, <2>1, <2>3
<1> QED
  BY Zenon, <1>4, <1>5, <1>6, <1>7, <1>8, <1>9

\* Every other step leaves the slots alone: neither a hook that ends a session
\* nor the end of the server touches the count.
LEMMA OtherSlots ==
    ASSUME WsAssumption, SessionTypes, QueueTypes, ThreadInv,
           \/ RoomStep \/ ReapSnapshot \/ DrainWsEvents \/ CallHook \/ HookDone \/ DrainDone
           \/ ClearAllWsSessions \/ StopBegin \/ LoopsJoined \/ UNCHANGED vars
    PROVE  KeepsSlots
<1>0. sess \in [Conns -> Sessions] /\ CppConns \subseteq Conns
  BY DEF SessionTypes, Conns
<1>1. UNCHANGED <<io, after, live>>
  BY Zenon DEF RoomStep, ReapSnapshot, DrainWsEvents, CallHook, HookDone, DrainDone, StopBegin,
       ClearAllWsSessions, LoopsJoined, WsBroadcast, WsJoin, WsLeave, vars, ioVars
<1>2. \A d \in Conns : sess'[d].counted = sess[d].counted
  <2>1. CASE HookDone
    <3> DEFINE c == Head(batch).id
    <3>1. c \in Conns
      <4>1. Head(batch) \in Events
        BY <2>1 DEF HookDone, ThreadInv, QueueTypes
      <4> QED
        BY Zenon, <4>1 DEF Events, Conns
    <3>2. sess' = sess \/ sess' = [sess EXCEPT ![c].reg = "gone"]
      BY Zenon, <2>1 DEF HookDone
    <3> HIDE DEF c
    <3>3. TRUE \in BOOLEAN
      OBVIOUS
    <3>4. SameSessions \/ SessionBecomes(c, "gone", sess[c].counted)
      BY Zenon, <1>0, <3>1, <3>2, <3>3, SessionFields
    <3> QED
      BY Zenon, <3>4 DEF SessionBecomes, SameSessions
  <2>2. CASE ClearAllWsSessions
    BY Zenon, <1>0, <2>2, SessionsCleared DEF ClearAllWsSessions
  <2>3. CASE \/ RoomStep \/ ReapSnapshot \/ DrainWsEvents \/ CallHook \/ DrainDone \/ StopBegin
             \/ LoopsJoined \/ UNCHANGED vars
    <3>1. sess' = sess
      BY Zenon, <2>3 DEF RoomStep, ReapSnapshot, DrainWsEvents, CallHook, DrainDone, StopBegin,
           LoopsJoined, WsBroadcast, WsJoin, WsLeave, vars
    <3> QED
      BY Zenon, <3>1
  <2> QED
    BY Zenon, <2>1, <2>2, <2>3
<1>3. \A c \in CppConns : Holds(c)' = Holds(c) /\ MayStay(c)' = MayStay(c)
  BY Zenon, <1>0, <1>1, <1>2 DEF Holds, MayStay
<1> QED
  BY Zenon, <1>1, <1>3, SameSlots DEF KeepsSlots

\* Without a limit nothing is counted.
LEMMA UnlimitedStep ==
    ASSUME SessionTypes, AfterTypes, MaxConns = 0, live = 0, [Next]_vars,
           \A c \in Conns : ConnInv(c)
    PROVE  live' = 0 /\ AfterTypes'
<1>0. ~(MaxConns > 0) /\ live + 1 \in Nat /\ 0 \in Nat
  BY DEF AfterTypes
<1>1. ASSUME NEW c \in Conns, OwnStep(c)
      PROVE  live' = live /\ (after' = after \/ after' = [after EXCEPT ![c] = live + 1])
  <2>1. ~sess[c].counted
    BY Zenon, <1>1 DEF ConnInv
  <2>2. live' = live
    BY Zenon, <1>0, <1>1, <2>1 DEF OwnStep, ConnectR, ConnectCount, NewMessage, ConnectionClosed,
         LoopThread, ConnectRefuse, OverCapacity, ConnectCpp, CloseCpp, GiveBack, RunTask,
         BackendFind, BackendQueue, ReapClose, WsSend, WsClose
  <2> QED
    BY Zenon, <1>1, <2>2, OwnEffects
<1>2. ASSUME \/ RoomStep \/ ReapSnapshot \/ DrainWsEvents \/ CallHook \/ HookDone \/ DrainDone
             \/ ClearAllWsSessions \/ StopBegin \/ LoopsJoined \/ UNCHANGED vars
      PROVE  live' = live /\ after' = after
  BY Zenon, <1>2 DEF RoomStep, ReapSnapshot, DrainWsEvents, CallHook, HookDone, DrainDone, StopBegin,
       ClearAllWsSessions, LoopsJoined, WsBroadcast, WsJoin, WsLeave, vars, ioVars
<1>3. live' = 0
  BY Zenon, <1>1, <1>2, StepKinds
<1>4. after' \in [Conns -> Nat]
  <2>1. ASSUME NEW c \in Conns, OwnStep(c) PROVE after' \in [Conns -> Nat]
    BY Zenon, <1>0, <1>1, <2>1 DEF AfterTypes
  <2> QED
    BY Zenon, <1>2, <2>1, StepKinds DEF AfterTypes
<1> QED
  BY Zenon, <1>0, <1>3, <1>4 DEF AfterTypes

\* A session ends for an R connection when its on_close hook returns or the
\* server is down, and then it is in no room.
LEMMA RoomsStep ==
    ASSUME WsAssumption, SessionInv, [Next]_vars PROVE RoomsForgetStep
<1> SUFFICES ASSUME NEW d \in RConns, Live(d), sess'[d].reg = "gone", NEW r \in Rooms
             PROVE  d \notin rooms'[r]
  BY Zenon DEF RoomsForgetStep
<1>0. /\ sess \in [Conns -> Sessions] /\ d \in Conns /\ d \notin CppConns
      /\ sess[d].reg = "live" /\ "live" # "gone"
      /\ \A c \in Conns : ConnInv(c)
  BY DEF SessionInv, SessionTypes, Conns, WsAssumption, Live
<1>1. ASSUME NEW c \in Conns, OwnStep(c) PROVE FALSE
  <2>1. c = d
    BY Zenon, <1>0, <1>1, OwnFrame DEF SessionInv
  <2>2. io[d] = "idle" /\ "idle" # "close" /\ "idle" # "connect" /\ "idle" # "erase"
    BY Zenon, <1>0 DEF ConnInv
  <2>3. \/ sess' = sess \/ sess' = [sess EXCEPT ![d].closing = TRUE]
        \/ sess' = [sess EXCEPT ![d].reg = "live", ![d].ctx = TRUE]
    BY Zenon, <1>0, <1>1, <2>1, <2>2 DEF OwnStep, ConnectR, ConnectCount, NewMessage,
         ConnectionClosed, LoopThread, ConnectRefuse, ConnectCpp, CloseCpp, GiveBack, RunTask,
         BackendFind, BackendQueue, ReapClose, WsSend, WsClose
  <2>4. sess'[d].reg = "live"
    BY Zenon, <1>0, <2>3, SessionFields DEF SessionBecomes, SameSessions
  <2> QED
    BY Zenon, <1>0, <2>4
<1>2. CASE HookDone
  <2> DEFINE c == Head(batch).id
  <2>1. c \in Conns
    <3>1. Head(batch) \in Events
      BY <1>2 DEF SessionInv, HookDone, ThreadInv, QueueTypes
    <3> QED
      BY Zenon, <3>1 DEF Events, Conns
  <2>2. \/ sess' = sess
        \/ sess' = [sess EXCEPT ![c].reg = "gone"] /\ rooms' = DropFromAllRooms(c)
    BY Zenon, <1>2 DEF HookDone
  <2> HIDE DEF c
  <2>3. c = d /\ rooms' = DropFromAllRooms(c)
    BY Zenon, <1>0, <2>1, <2>2, SessionFields DEF SessionBecomes, SameSessions
  <2> QED
    BY Zenon, <2>3 DEF DropFromAllRooms
<1>3. CASE ClearAllWsSessions
  BY Zenon, <1>3 DEF ClearAllWsSessions
<1>4. ASSUME \/ RoomStep \/ ReapSnapshot \/ DrainWsEvents \/ CallHook \/ DrainDone \/ StopBegin
             \/ LoopsJoined \/ UNCHANGED vars
      PROVE  FALSE
  <2>1. sess' = sess
    BY Zenon, <1>4 DEF RoomStep, ReapSnapshot, DrainWsEvents, CallHook, DrainDone, StopBegin,
         LoopsJoined, WsBroadcast, WsJoin, WsLeave, vars
  <2> QED
    BY Zenon, <1>0, <2>1
<1> QED
  BY Zenon, <1>1, <1>2, <1>3, <1>4, StepKinds
-----------------------------------------------------------------------------
(* The steps that count, and the theorems.                                 *)

INSTANCE FiniteSetTheorems

\* The count is the number of slots held; a connect that saw a count within the
\* limit, and every session that came of one, is among the first MaxConns.
LiveInv ==
    /\ AfterTypes
    /\ MaxConns > 0 => live = Cardinality(Slots) /\ Cardinality(Admitted) <= MaxConns
    /\ MaxConns = 0 => live = 0

WsInv == SessionInv /\ LiveInv

LEMMA SlotsFinite ==
    ASSUME WsAssumption
    PROVE  /\ IsFiniteSet(Slots) /\ IsFiniteSet(Admitted) /\ Admitted \subseteq Slots
           /\ Cardinality(Slots) \in Nat /\ Cardinality(Admitted) \in Nat
           /\ Cardinality(Admitted) <= Cardinality(Slots)
<1>1. Slots \subseteq CppConns /\ Admitted \subseteq Slots /\ IsFiniteSet(CppConns)
  BY Zenon DEF Slots, Admitted, Holds, MayStay, WsAssumption
<1>2. IsFiniteSet(Slots)
  BY Zenon, <1>1, FS_Subset
<1>3. IsFiniteSet(Admitted) /\ Cardinality(Admitted) <= Cardinality(Slots)
  BY Zenon, <1>1, <1>2, FS_Subset
<1> QED
  BY Zenon, <1>1, <1>2, <1>3, FS_CardinalityType

\* A connect takes a slot: if the count allows it to stay, so few are held that
\* the admitted ones are fewer than the limit.
LEMMA TakeKeepsLive ==
    ASSUME WsAssumption, MaxConns > 0, LiveInv, NEW c \in CppConns, TakesSlot(c)
    PROVE  LiveInv'
<1>1. /\ live \in Nat /\ MaxConns \in Nat /\ live = Cardinality(Slots)
      /\ Cardinality(Admitted) <= MaxConns /\ after \in [Conns -> Nat]
  BY Zenon DEF LiveInv, AfterTypes, WsAssumption
<1>2. live + 1 \in Nat /\ live' = live + 1 /\ after' = [after EXCEPT ![c] = live + 1]
  BY <1>1 DEF TakesSlot
<1>3. AfterTypes'
  BY Zenon, <1>1, <1>2 DEF AfterTypes
<1>4. Cardinality(Slots') = Cardinality(Slots) + 1
  <2>1. IsFiniteSet(Slots) /\ c \notin Slots /\ Slots' = Slots \union {c}
    BY Zenon, SlotsFinite DEF TakesSlot
  <2> QED
    BY Zenon, <2>1, FS_AddElement
<1>5. Cardinality(Admitted') <= MaxConns
  <2>1. CASE live + 1 <= MaxConns
    <3>1. /\ IsFiniteSet(Admitted) /\ Cardinality(Admitted) \in Nat
          /\ c \notin Admitted /\ Admitted' = Admitted \union {c}
      BY Zenon, <2>1, SlotsFinite DEF TakesSlot
    <3>2. Cardinality(Admitted') = Cardinality(Admitted) + 1
      BY Zenon, <3>1, FS_AddElement
    <3>3. Cardinality(Admitted) <= Cardinality(Slots)
      BY Zenon, SlotsFinite
    <3> QED
      BY <1>1, <2>1, <3>1, <3>2, <3>3
  <2>2. CASE ~(live + 1 <= MaxConns)
    BY Zenon, <1>1, <2>2 DEF TakesSlot
  <2> QED
    BY Zenon, <2>1, <2>2
<1>6. ~(MaxConns = 0)
  OBVIOUS
<1> QED
  BY Zenon, <1>1, <1>2, <1>3, <1>4, <1>5, <1>6 DEF LiveInv

\* A refused connect or an erased session gives its slot back.
LEMMA GiveKeepsLive ==
    ASSUME WsAssumption, MaxConns > 0, LiveInv, NEW c \in CppConns, GivesSlot(c)
    PROVE  LiveInv'
<1>1. /\ live \in Nat /\ MaxConns \in Nat /\ live = Cardinality(Slots)
      /\ Cardinality(Admitted) <= MaxConns /\ after \in [Conns -> Nat]
  BY Zenon DEF LiveInv, AfterTypes, WsAssumption
<1>2. live' = live - 1 /\ after' = after
  BY Zenon DEF GivesSlot
<1>3. Cardinality(Slots') = Cardinality(Slots) - 1 /\ Cardinality(Slots') \in Nat
  <2>1. IsFiniteSet(Slots) /\ c \in Slots /\ Slots' = Slots \ {c}
    BY Zenon, SlotsFinite DEF GivesSlot
  <2>2. IsFiniteSet(Slots') /\ Cardinality(Slots') = Cardinality(Slots) - 1
    BY Zenon, <2>1, FS_RemoveElement
  <2> QED
    BY Zenon, <2>2, FS_CardinalityType
<1>4. live' = Cardinality(Slots') /\ live' \in Nat
  BY Zenon, <1>1, <1>2, <1>3
<1>5. Cardinality(Admitted') <= MaxConns
  <2>1. IsFiniteSet(Admitted) /\ Admitted' \subseteq Admitted /\ Cardinality(Admitted) \in Nat
    BY Zenon, SlotsFinite DEF GivesSlot
  <2>2. IsFiniteSet(Admitted') /\ Cardinality(Admitted') <= Cardinality(Admitted)
    BY Zenon, <2>1, FS_Subset
  <2>3. Cardinality(Admitted') \in Nat
    BY Zenon, <2>2, FS_CardinalityType
  <2> QED
    BY <1>1, <2>1, <2>2, <2>3
<1>6. ~(MaxConns = 0)
  OBVIOUS
<1> QED
  BY Zenon, <1>1, <1>2, <1>4, <1>5, <1>6 DEF LiveInv, AfterTypes

LEMMA LiveStep == ASSUME WsAssumption, WsInv, [Next]_vars PROVE LiveInv'
<1>0. /\ SessionTypes /\ QueueTypes /\ ThreadInv /\ AfterTypes
      /\ \A c \in Conns : ConnInv(c)
  BY Zenon DEF WsInv, SessionInv, LiveInv
<1>1. CASE MaxConns > 0
  <2>1. ASSUME KeepsSlots PROVE LiveInv'
    BY Zenon, <2>1 DEF WsInv, LiveInv, AfterTypes, KeepsSlots
  <2>2. ASSUME NEW c \in Conns, OwnStep(c) PROVE LiveInv'
    <3>1. KeepsSlots \/ (c \in CppConns /\ (TakesSlot(c) \/ GivesSlot(c)))
      BY Zenon, <1>0, <1>1, <2>2, OwnSlots
    <3> QED
      BY Zenon, <1>1, <2>1, <3>1, TakeKeepsLive, GiveKeepsLive DEF WsInv
  <2> QED
    BY Zenon, <1>0, <2>1, <2>2, OtherSlots, StepKinds
<1>2. CASE MaxConns = 0
  <2>1. live' = 0 /\ AfterTypes'
    BY Zenon, <1>0, <1>2, UnlimitedStep DEF WsInv, LiveInv
  <2>2. ~(MaxConns > 0)
    BY <1>2
  <2> QED
    BY Zenon, <2>1, <2>2 DEF LiveInv
<1>3. MaxConns > 0 \/ MaxConns = 0
  BY DEF WsAssumption
<1> QED
  BY Zenon, <1>1, <1>2, <1>3

LEMMA WsInit == ASSUME WsAssumption, Init PROVE WsInv
<1>1. SessionInv
  BY Zenon, SessionInit
<1>2. AfterTypes /\ live = 0
  BY DEF Init, AfterTypes
<1>3. Slots = {} /\ Admitted = {}
  <2>1. \A c \in Conns : sess[c].counted = FALSE /\ io[c] = "idle"
    BY DEF Init, NoSession
  <2>2. CppConns \subseteq Conns /\ "idle" # "connect"
    BY DEF Conns
  <2> QED
    BY Zenon, <2>1, <2>2 DEF Slots, Admitted, Holds, MayStay
<1>4. Cardinality({}) = 0
  BY Zenon, FS_EmptySet
<1>5. MaxConns > 0 => 0 <= MaxConns
  BY DEF WsAssumption
<1> QED
  BY Zenon, <1>1, <1>2, <1>3, <1>4, <1>5 DEF WsInv, LiveInv

LEMMA WsStep == ASSUME WsAssumption, WsInv, [Next]_vars PROVE WsInv'
BY Zenon, SessionStep, LiveStep DEF WsInv
-----------------------------------------------------------------------------
\* The variables of sessions, queues and threads keep their types, for any
\* connections and rooms, any limit and any bounds.
THEOREM WsTypeCorrect == ASSUME WsAssumption PROVE Spec => []TypeOK
<1>1. Init => WsInv
  BY Zenon, WsInit
<1>2. WsInv /\ [Next]_vars => WsInv'
  BY Zenon, WsStep
<1>3. WsInv => TypeOK
  BY Zenon DEF WsInv, SessionInv, SessionTypes, QueueTypes, LiveInv, AfterTypes, TypeOK,
       Sessions, Regs, Events, EventTypes
<1> QED
  BY <1>1, <1>2, <1>3, PTL DEF Spec

\* The live-count of a native route is the number of slots its sessions and its
\* connects hold, never more than max_conns sessions are live however many
\* connects race, and hooks and native handlers hear of a connection in order
\* and of its end last, for any connections and rooms and any limit.
THEOREM SocketsAreSound == ASSUME WsAssumption PROVE Spec => []SocketsSound
<1>1. Init => WsInv
  BY Zenon, WsInit
<1>2. WsInv /\ [Next]_vars => WsInv'
  BY Zenon, WsStep
<1>3. ASSUME WsInv PROVE SocketsSound
  <2>0. /\ CppConns \subseteq Conns /\ Conns = RConns \union CppConns
        /\ \A c \in Conns : ConnInv(c)
    BY <1>3 DEF Conns, WsInv, SessionInv
  <2>1. LiveBalanced
    BY Zenon, <1>3 DEF WsInv, LiveInv, LiveBalanced, Slots, Holds
  <2>2. CapacityRespected
    <3> SUFFICES ASSUME MaxConns > 0
                 PROVE  Cardinality({c \in CppConns : Live(c)}) <= MaxConns
      BY Zenon DEF CapacityRespected
    <3> DEFINE S == {c \in CppConns : Live(c)}
    <3>1. \A c \in CppConns : Live(c) => sess[c].counted
      BY <2>0 DEF ConnInv, Live
    <3>2. S \subseteq Admitted
      BY Zenon, <3>1 DEF Admitted, MayStay
    <3> HIDE DEF S
    <3>3. /\ IsFiniteSet(Admitted) /\ Cardinality(Admitted) \in Nat
          /\ Cardinality(Admitted) <= MaxConns /\ MaxConns \in Nat
      BY Zenon, <1>3, SlotsFinite DEF WsInv, LiveInv, WsAssumption
    <3>4. IsFiniteSet(S) /\ Cardinality(S) <= Cardinality(Admitted)
      BY Zenon, <3>2, <3>3, FS_Subset
    <3>5. Cardinality(S) \in Nat
      BY Zenon, <3>4, FS_CardinalityType
    <3>6. Cardinality(S) <= MaxConns
      BY <3>3, <3>4, <3>5
    <3> QED
      BY Zenon, <3>6 DEF S
  <2>3. HeardInOrder
    <3>1. "up" # "down"
      OBVIOUS
    <3>2. ASSUME NEW c \in CppConns
          PROVE  /\ InOrder(heard[c])
                 /\ (sess[c].reg = "gone" /\ server = "up") => Over(heard[c])
      BY Zenon, <1>3, <3>1 DEF WsInv, SessionInv, CppHeard
    <3>3. ASSUME NEW c \in RConns
          PROVE  /\ InOrder(heard[c])
                 /\ (sess[c].reg = "gone" /\ server = "up") => Over(heard[c])
      BY Zenon, <1>3 DEF WsInv, SessionInv, RHeard
    <3> QED
      BY Zenon, <2>0, <3>2, <3>3 DEF HeardInOrder, InOrder, Over
  <2> QED
    BY Zenon, <2>1, <2>2, <2>3 DEF SocketsSound
<1> QED
  BY <1>1, <1>2, <1>3, PTL DEF Spec

\* No step ends the session of an R connection and leaves the connection in a
\* room, whatever its hooks joined, for any connections and rooms.
THEOREM RoomsAreForgotten == ASSUME WsAssumption PROVE Spec => RoomsForgetClosed
<1>1. Init => WsInv
  BY Zenon, WsInit
<1>2. WsInv /\ [Next]_vars => WsInv'
  BY Zenon, WsStep
<1>3. WsInv /\ [Next]_vars => [RoomsForgetStep]_vars
  BY Zenon, RoomsStep DEF WsInv
<1> QED
  BY <1>1, <1>2, <1>3, PTL DEF Spec, RoomsForgetClosed
=============================================================================
