-------------------------- MODULE AppServerProofs --------------------------
(***************************************************************************)
(* Proofs about AppServer, for any number of I/O loops and any finite set  *)
(* of connections: the servers outlive what points to them, and nothing    *)
(* runs, listens or is connected when dr_stop() has returned.              *)
(***************************************************************************)
EXTENDS AppServer, TLAPS

\* What a queue of functions holds.
Waits(q, t) == \E k \in 1..Len(q) : q[k][1] = t
Single(q, t) == \A j, k \in 1..Len(q) : q[j][1] = t /\ q[k][1] = t => j = k
NoneAfterStop(q) == \A j, k \in 1..Len(q) : j < k /\ q[j][1] = "stop" => q[k][1] # "start"
Destroyed(q) == {c \in Conns : \E k \in 1..Len(q) : q[k] = <<"destroy", c>>}

\* How far the tear-down has come with the server of loop i.
Ended == app[1] \in {"wait", "exited"}
Past(i) == Ended \/ (app[1] \in {"stop", "stopping", "dropping"} /\ i < app[2])
Stopping(i) == app[1] = "stopping" /\ i = app[2]
Dropping(i) == app[1] = "dropping" /\ i = app[2]

\* What its loop has still to do, at each of these places.
ServerInv(i) ==
  /\ linked[i] \subseteq conns[i] \union Destroyed(ioTasks[i])
  /\ Past(i) => /\ acceptor[i] = "gone" /\ ~wheel[i] /\ conns[i] = {}
                /\ ~Waits(ioTasks[i], "start") /\ ~Waits(ioTasks[i], "stop")
                /\ ~Waits(ioTasks[i], "drop")
  /\ Dropping(i) => /\ acceptor[i] = "gone" /\ conns[i] = {}
                    /\ ~Waits(ioTasks[i], "start") /\ ~Waits(ioTasks[i], "stop")
                    /\ Single(ioTasks[i], "drop") /\ (~wheel[i] => ~Waits(ioTasks[i], "drop"))
  /\ Stopping(i) => /\ ~Waits(ioTasks[i], "drop") /\ Single(ioTasks[i], "stop")
                    /\ NoneAfterStop(ioTasks[i])
                    /\ acceptor[i] = "gone" =>
                         /\ conns[i] = {} /\ ~Waits(ioTasks[i], "start")
                         /\ ~Waits(ioTasks[i], "stop")
  /\ ~Past(i) /\ ~Dropping(i) /\ ~Stopping(i) =>
       acceptor[i] # "gone" /\ ~Waits(ioTasks[i], "stop") /\ ~Waits(ioTasks[i], "drop")
  /\ ioQuit[i] => Ended
  /\ io[i] = "exited" => Ended /\ ioTasks[i] = <<>>

\* Where the main thread and R are.
PlaceInv ==
  /\ servers = "destroyed" => Ended
  /\ app[1] = "wait" => \A j \in Io : j < app[2] => io[j] = "exited"
  /\ app[1] = "exited" => \A j \in Io : io[j] = "exited"
  /\ rpc = "stopped" => app[1] = "exited"
  /\ app[1] # "none" => everStarted

AppInv == ASTypeOK /\ PlaceInv /\ \A i \in Io : ServerInv(i)
-----------------------------------------------------------------------------
(* The queues of the I/O loops.                                            *)

LEMMA TaskAppend ==
  ASSUME NEW q \in Seq(IoTasks), NEW a \in IoTasks
  PROVE  /\ Append(q, a) \in Seq(IoTasks)
         /\ \A t : Waits(Append(q, a), t) <=> (Waits(q, t) \/ a[1] = t)
         /\ \A t : ~Waits(q, t) => Single(Append(q, a), t)
         /\ \A t : a[1] # t /\ Single(q, t) => Single(Append(q, a), t)
         /\ a[1] # "start" /\ NoneAfterStop(q) => NoneAfterStop(Append(q, a))
         /\ ~Waits(q, "stop") => NoneAfterStop(Append(q, a))
         /\ \A c \in Destroyed(q) : c \in Destroyed(Append(q, a))
         /\ \A c \in Conns : a = <<"destroy", c>> => c \in Destroyed(Append(q, a))
<1> DEFINE g == Append(q, a)
<1>1. /\ g \in Seq(IoTasks) /\ Len(g) = Len(q) + 1 /\ Len(q) \in Nat
      /\ g[Len(q) + 1] = a /\ \A k \in 1..Len(q) : g[k] = q[k]
  OBVIOUS
<1> HIDE DEF g
<1>2. /\ \A k \in 1..Len(g) : k \in 1..Len(q) \/ k = Len(q) + 1
      /\ \A k \in 1..Len(q) : k \in 1..Len(g) /\ ~(Len(q) + 1 < k)
      /\ Len(q) + 1 \in 1..Len(g) /\ ~(Len(q) + 1 < Len(q) + 1)
  BY <1>1
<1>3. ASSUME NEW t PROVE Waits(g, t) <=> (Waits(q, t) \/ a[1] = t)
  BY Zenon, <1>1, <1>2 DEF Waits
<1>4. ASSUME NEW t, ~Waits(q, t) PROVE Single(g, t)
  BY Zenon, <1>1, <1>2, <1>4 DEF Waits, Single
<1>5. ASSUME NEW t, a[1] # t, Single(q, t) PROVE Single(g, t)
  BY Zenon, <1>1, <1>2, <1>5 DEF Single
<1>6. ASSUME a[1] # "start", NoneAfterStop(q) PROVE NoneAfterStop(g)
  BY Zenon, <1>1, <1>2, <1>6 DEF NoneAfterStop
<1>7. ASSUME ~Waits(q, "stop") PROVE NoneAfterStop(g)
  BY Zenon, <1>1, <1>2, <1>7 DEF NoneAfterStop, Waits
<1>8. \A c \in Destroyed(q) : c \in Destroyed(g)
  BY Zenon, <1>1, <1>2 DEF Destroyed
<1>9. \A c \in Conns : a = <<"destroy", c>> => c \in Destroyed(g)
  BY Zenon, <1>1, <1>2 DEF Destroyed
<1> QED
  BY Zenon, <1>1, <1>3, <1>4, <1>5, <1>6, <1>7, <1>8, <1>9 DEF g

LEMMA TaskTail ==
  ASSUME NEW q \in Seq(IoTasks), q # <<>>
  PROVE  /\ Tail(q) \in Seq(IoTasks) /\ Head(q) \in IoTasks /\ Waits(q, Head(q)[1])
         /\ \A t : Waits(Tail(q), t) => Waits(q, t)
         /\ \A t : Single(q, t) => Single(Tail(q), t)
         /\ \A t : Single(q, t) /\ Head(q)[1] = t => ~Waits(Tail(q), t)
         /\ NoneAfterStop(q) => NoneAfterStop(Tail(q))
         /\ NoneAfterStop(q) /\ Head(q)[1] = "stop" => ~Waits(Tail(q), "start")
         /\ \A c \in Destroyed(q) : c \in Destroyed(Tail(q)) \/ Head(q) = <<"destroy", c>>
<1> DEFINE g == Tail(q)
<1>1. /\ g \in Seq(IoTasks) /\ Len(q) = Len(g) + 1 /\ Len(g) \in Nat
      /\ \A k \in 1..Len(g) : g[k] = q[k + 1]
      /\ Head(q) = q[1] /\ Head(q) \in IoTasks
  OBVIOUS
<1> HIDE DEF g
<1>2. /\ 1 \in 1..Len(q)
      /\ \A k \in 1..Len(g) : k + 1 \in 1..Len(q) /\ 1 # k + 1 /\ 1 < k + 1
      /\ \A j, k \in 1..Len(g) : (j + 1 = k + 1 => j = k) /\ (j < k => j + 1 < k + 1)
      /\ \A k \in 1..Len(q) : k = 1 \/ (k - 1 \in 1..Len(g) /\ (k - 1) + 1 = k)
  BY <1>1
<1>3. Waits(q, Head(q)[1])
  BY Zenon, <1>1, <1>2 DEF Waits
<1>4. ASSUME NEW t, Waits(g, t) PROVE Waits(q, t)
  <2>1. PICK k \in 1..Len(g) : g[k][1] = t
    BY Zenon, <1>4 DEF Waits
  <2>2. k + 1 \in 1..Len(q) /\ q[k + 1][1] = t
    BY Zenon, <1>1, <1>2, <2>1
  <2> QED
    BY Zenon, <2>2 DEF Waits
<1>5. ASSUME NEW t, Single(q, t) PROVE Single(g, t)
  <2> SUFFICES ASSUME NEW j \in 1..Len(g), NEW k \in 1..Len(g), g[j][1] = t, g[k][1] = t PROVE j = k
    BY Zenon DEF Single
  <2>1. j + 1 \in 1..Len(q) /\ k + 1 \in 1..Len(q) /\ q[j + 1][1] = t /\ q[k + 1][1] = t
    BY Zenon, <1>1, <1>2
  <2>2. j + 1 = k + 1
    BY Zenon, <1>5, <2>1 DEF Single
  <2> QED
    BY Zenon, <1>2, <2>2
<1>6. ASSUME NEW t, Single(q, t), Head(q)[1] = t PROVE ~Waits(g, t)
  <2> SUFFICES ASSUME NEW k \in 1..Len(g), g[k][1] = t PROVE FALSE
    BY Zenon DEF Waits
  <2>1. k + 1 \in 1..Len(q) /\ q[k + 1][1] = t /\ q[1][1] = t /\ 1 # k + 1
    BY Zenon, <1>1, <1>2, <1>6
  <2> QED
    BY Zenon, <1>2, <1>6, <2>1 DEF Single
<1>7. ASSUME NoneAfterStop(q) PROVE NoneAfterStop(g)
  <2> SUFFICES ASSUME NEW j \in 1..Len(g), NEW k \in 1..Len(g), j < k, g[j][1] = "stop"
               PROVE  g[k][1] # "start"
    BY Zenon DEF NoneAfterStop
  <2>1. /\ j + 1 \in 1..Len(q) /\ k + 1 \in 1..Len(q) /\ q[j + 1][1] = "stop"
        /\ q[k + 1] = g[k] /\ j + 1 < k + 1
    BY Zenon, <1>1, <1>2
  <2>2. q[k + 1][1] # "start"
    BY Zenon, <1>7, <2>1 DEF NoneAfterStop
  <2> QED
    BY Zenon, <2>1, <2>2
<1>8. ASSUME NoneAfterStop(q), Head(q)[1] = "stop" PROVE ~Waits(g, "start")
  <2> SUFFICES ASSUME NEW k \in 1..Len(g), g[k][1] = "start" PROVE FALSE
    BY Zenon DEF Waits
  <2>1. k + 1 \in 1..Len(q) /\ q[k + 1][1] = "start" /\ q[1][1] = "stop" /\ 1 < k + 1
    BY Zenon, <1>1, <1>2, <1>8
  <2> QED
    BY Zenon, <1>2, <1>8, <2>1 DEF NoneAfterStop
<1>9. ASSUME NEW c \in Destroyed(q), Head(q) # <<"destroy", c>> PROVE c \in Destroyed(g)
  <2>1. c \in Conns /\ \E k \in 1..Len(q) : q[k] = <<"destroy", c>>
    BY Zenon, <1>9 DEF Destroyed
  <2>2. PICK k \in 1..Len(q) : q[k] = <<"destroy", c>>
    BY Zenon, <2>1
  <2>3. k - 1 \in 1..Len(g) /\ (k - 1) + 1 = k
    BY Zenon, <1>1, <1>2, <1>9, <2>2
  <2>4. g[k - 1] = <<"destroy", c>>
    BY Zenon, <1>1, <2>2, <2>3
  <2> QED
    BY Zenon, <2>1, <2>3, <2>4 DEF Destroyed
<1> QED
  BY Zenon, <1>1, <1>3, <1>4, <1>5, <1>6, <1>7, <1>8, <1>9 DEF g

\* The connections of a stopped server are queued to be destroyed.
LEMMA TaskJoin ==
  ASSUME NEW cs \in SUBSET Conns, NEW q \in Seq(IoTasks), NEW d \in Seq({"destroy"} \X cs),
         \A c \in cs : \E k \in 1..Len(d) : d[k] = <<"destroy", c>>
  PROVE  /\ q \o d \in Seq(IoTasks)
         /\ \A t : t # "destroy" /\ Waits(q \o d, t) => Waits(q, t)
         /\ \A c \in Destroyed(q) \union cs : c \in Destroyed(q \o d)
<1> DEFINE g == q \o d
<1>1. {"destroy"} \X cs \subseteq IoTasks /\ \A x \in {"destroy"} \X cs : x[1] = "destroy"
  BY DEF IoTasks
<1>2. d \in Seq(IoTasks) /\ \A k \in 1..Len(d) : d[k] \in {"destroy"} \X cs
  BY <1>1
<1>3. /\ g \in Seq(IoTasks) /\ Len(g) = Len(q) + Len(d) /\ Len(q) \in Nat /\ Len(d) \in Nat
      /\ \A k \in 1..Len(q) : g[k] = q[k]
      /\ \A k \in 1..Len(d) : g[Len(q) + k] = d[k]
  BY <1>2
<1> HIDE DEF g
<1>4. /\ \A k \in 1..Len(g) : k \in 1..Len(q) \/ (k - Len(q) \in 1..Len(d) /\ Len(q) + (k - Len(q)) = k)
      /\ \A k \in 1..Len(q) : k \in 1..Len(g)
      /\ \A k \in 1..Len(d) : Len(q) + k \in 1..Len(g)
  BY <1>3
<1>5. ASSUME NEW t, t # "destroy", Waits(g, t) PROVE Waits(q, t)
  <2>1. PICK k \in 1..Len(g) : g[k][1] = t
    BY Zenon, <1>5 DEF Waits
  <2>2. CASE k \in 1..Len(q)
    BY Zenon, <1>3, <2>1, <2>2 DEF Waits
  <2>3. CASE k - Len(q) \in 1..Len(d) /\ Len(q) + (k - Len(q)) = k
    <3>1. g[k] = d[k - Len(q)]
      BY Zenon, <1>3, <2>3
    <3> QED
      BY Zenon, <1>1, <1>2, <1>5, <2>1, <2>3, <3>1
  <2> QED
    BY Zenon, <1>4, <2>2, <2>3
<1>6. \A c \in Destroyed(q) : c \in Destroyed(g)
  BY Zenon, <1>3, <1>4 DEF Destroyed
<1>7. ASSUME NEW c \in cs PROVE c \in Destroyed(g)
  <2>1. PICK k \in 1..Len(d) : d[k] = <<"destroy", c>>
    BY Zenon
  <2>2. Len(q) + k \in 1..Len(g) /\ g[Len(q) + k] = <<"destroy", c>> /\ c \in Conns
    BY Zenon, <1>3, <1>4, <2>1
  <2> QED
    BY Zenon, <2>2 DEF Destroyed
<1> QED
  BY Zenon, <1>3, <1>5, <1>6, <1>7 DEF g

\* A queue in which nothing waits.
LEMMA Quiet ==
  ASSUME NEW q
  PROVE  /\ \A t : ~Waits(q, t) => Single(q, t)
         /\ ~Waits(q, "stop") => NoneAfterStop(q)
BY Zenon DEF Waits, Single, NoneAfterStop
-----------------------------------------------------------------------------
(* The places of the main thread.                                          *)

Early == app[1] \in {"none", "listeners", "start", "loop", "terminated"}

LEMMA PlaceType ==
  ASSUME ASAssumption, ASTypeOK
  PROVE  app[1] \in {"start", "stop", "stopping", "dropping", "wait"} => app[2] \in 1 .. IoNum + 1
<1>1. app \in {<<"none">>, <<"listeners">>, <<"begin">>, <<"loop">>, <<"exited">>, <<"terminated">>}
      \/ app \in {"start", "stop", "stopping", "dropping", "wait"} \X (1 .. IoNum + 1)
  BY Zenon DEF ASTypeOK, Places
<1>2. CASE app \in {<<"none">>, <<"listeners">>, <<"begin">>, <<"loop">>, <<"exited">>, <<"terminated">>}
  BY <1>2
<1>3. CASE app \in {"start", "stop", "stopping", "dropping", "wait"} \X (1 .. IoNum + 1)
  BY <1>3
<1> QED
  BY Zenon, <1>1, <1>2, <1>3

LEMMA EarlyPlaces ==
  ASSUME Early, NEW i
  PROVE  ~Past(i) /\ ~Stopping(i) /\ ~Dropping(i) /\ ~Ended /\ app[1] # "wait" /\ app[1] # "exited"
BY DEF Early, Past, Stopping, Dropping, Ended

\* The types of the queues and the tables.
LEMMA Types ==
  ASSUME ASTypeOK
  PROVE  /\ io \in [Io -> {"none", "created", "released", "loop", "exited"}]
         /\ ioQuit \in [Io -> BOOLEAN] /\ ioTasks \in [Io -> Seq(IoTasks)]
         /\ acceptor \in [Io -> {"none", "bound", "listening", "gone"}]
         /\ wheel \in [Io -> BOOLEAN]
         /\ conns \in [Io -> SUBSET Conns] /\ linked \in [Io -> SUBSET Conns]
         /\ mainTasks \in Seq({"listen", "quit"})
BY Zenon DEF ASTypeOK

\* The server of a loop that a step leaves alone, at a place that stays.
LEMMA ServerKept ==
  ASSUME NEW i \in Io, ServerInv(i), Past(i)' <=> Past(i), Stopping(i)' <=> Stopping(i),
         Dropping(i)' <=> Dropping(i), Ended => Ended',
         acceptor'[i] = acceptor[i], wheel'[i] = wheel[i], conns'[i] = conns[i], linked'[i] = linked[i],
         ioTasks'[i] = ioTasks[i], ioQuit'[i] => ioQuit[i] \/ Ended',
         io'[i] = "exited" => io[i] = "exited"
  PROVE  ServerInv(i)'
<1>1. /\ linked'[i] \subseteq conns'[i] \union Destroyed(ioTasks'[i])
      /\ Past(i)' =>
           /\ acceptor'[i] = "gone" /\ ~wheel'[i] /\ conns'[i] = {}
           /\ ~Waits(ioTasks'[i], "start") /\ ~Waits(ioTasks'[i], "stop")
           /\ ~Waits(ioTasks'[i], "drop")
  BY Zenon DEF ServerInv
<1>2. Dropping(i)' =>
        /\ acceptor'[i] = "gone" /\ conns'[i] = {}
        /\ ~Waits(ioTasks'[i], "start") /\ ~Waits(ioTasks'[i], "stop")
        /\ Single(ioTasks'[i], "drop") /\ (~wheel'[i] => ~Waits(ioTasks'[i], "drop"))
  BY Zenon DEF ServerInv
<1>3. Stopping(i)' =>
        /\ ~Waits(ioTasks'[i], "drop") /\ Single(ioTasks'[i], "stop")
        /\ NoneAfterStop(ioTasks'[i])
        /\ acceptor'[i] = "gone" =>
             /\ conns'[i] = {} /\ ~Waits(ioTasks'[i], "start")
             /\ ~Waits(ioTasks'[i], "stop")
  BY Zenon DEF ServerInv
<1>4. /\ ~Past(i)' /\ ~Dropping(i)' /\ ~Stopping(i)' =>
            acceptor'[i] # "gone" /\ ~Waits(ioTasks'[i], "stop") /\ ~Waits(ioTasks'[i], "drop")
      /\ ioQuit'[i] => Ended'
      /\ io'[i] = "exited" => Ended' /\ ioTasks'[i] = <<>>
  BY Zenon DEF ServerInv
<1> QED
  BY Zenon, <1>1, <1>2, <1>3, <1>4 DEF ServerInv

LEMMA AppInit == ASSUME ASAssumption, ASInit PROVE AppInv
<1>1. app[1] = "none" /\ Early
  BY DEF ASInit, Early
<1>2. ASTypeOK
  <2>1. app \in Places /\ <<>> \in Seq({"listen", "quit"}) /\ <<>> \in Seq(IoTasks)
    BY DEF ASInit, Places
  <2>2. FALSE \in BOOLEAN /\ {} \in SUBSET Conns
    OBVIOUS
  <2> QED
    BY Zenon, <2>1, <2>2 DEF ASInit, ASTypeOK
<1>3. PlaceInv
  <2>1. servers # "destroyed" /\ rpc # "stopped"
    BY DEF ASInit
  <2>2. "none" # "wait" /\ "none" # "exited"
    OBVIOUS
  <2> QED
    BY Zenon, <1>1, <2>1, <2>2 DEF PlaceInv
<1>4. ASSUME NEW i \in Io PROVE ServerInv(i)
  <2>1. /\ linked[i] = {} /\ acceptor[i] # "gone" /\ ioTasks[i] = <<>> /\ io[i] # "exited" /\ ~ioQuit[i]
    BY DEF ASInit
  <2>2. \A t : ~Waits(<<>>, t)
    BY DEF Waits
  <2>3. ~Past(i) /\ ~Stopping(i) /\ ~Dropping(i)
    BY Zenon, <1>1, EarlyPlaces
  <2> QED
    BY Zenon, <2>1, <2>2, <2>3 DEF ServerInv
<1> QED
  BY Zenon, <1>2, <1>3, <1>4 DEF AppInv
-----------------------------------------------------------------------------
(* R, and the main thread up to its loop.                                  *)

LEMMA SamePlace ==
  ASSUME app' = app, NEW i
  PROVE  /\ Past(i)' <=> Past(i)
         /\ Stopping(i)' <=> Stopping(i)
         /\ Dropping(i)' <=> Dropping(i)
         /\ Ended' <=> Ended
BY Zenon DEF Past, Stopping, Dropping, Ended

\* A step of R, which touches no server.
LEMMA RStep ==
  ASSUME AppInv, app' = app, servers' = servers, everStarted' = everStarted,
         UNCHANGED <<io, ioQuit, ioTasks, acceptor, wheel, conns, linked>>,
         rpc' = "stopped" => app[1] = "exited", ASTypeOK'
  PROVE  AppInv'
<1>1. \A i \in Io : ServerInv(i)'
  BY Zenon, SamePlace, ServerKept DEF AppInv
<1>2. PlaceInv'
  BY Zenon DEF AppInv, PlaceInv, Ended
<1> QED
  BY Zenon, <1>1, <1>2 DEF AppInv

LEMMA ServerStopStep == ASSUME ASAssumption, AppInv, ServerStop PROVE AppInv'
<1>1. rpc' = "join" /\ "join" # "stopped"
  BY DEF ServerStop
<1>2. mainTasks \in Seq({"listen", "quit"}) /\ appRunning \in BOOLEAN
  BY Zenon DEF AppInv, ASTypeOK
<1>3. Append(mainTasks, "quit") \in Seq({"listen", "quit"})
  BY <1>2
<1>4. mainTasks' \in Seq({"listen", "quit"}) /\ appRunning' \in BOOLEAN
  BY Zenon, <1>2, <1>3 DEF ServerStop, Quit
<1>5. ASTypeOK'
  BY Zenon, <1>1, <1>4 DEF ServerStop, AppInv, ASTypeOK
<1> QED
  BY Zenon, <1>1, <1>5, RStep DEF ServerStop

LEMMA JoinedStep == ASSUME ASAssumption, AppInv, Joined PROVE AppInv'
<1>1. app[1] = "exited"
  BY DEF Joined
<1>2. ASTypeOK'
  BY Zenon DEF Joined, AppInv, ASTypeOK
<1> QED
  BY Zenon, <1>1, <1>2, RStep DEF Joined

LEMMA StutterStep == ASSUME ASAssumption, AppInv, UNCHANGED asVars PROVE AppInv'
<1>1. ASTypeOK' /\ (rpc' = "stopped" => app[1] = "exited")
  BY Zenon DEF AppInv, ASTypeOK, PlaceInv, asVars
<1> QED
  BY Zenon, <1>1, RStep DEF asVars

\* Before the tear-down nothing is queued that would stop a server.
LEMMA EarlyServer ==
  ASSUME NEW i \in Io, ServerInv(i), Early, Early', acceptor'[i] # "gone",
         ioTasks'[i] = ioTasks[i], conns'[i] = conns[i], linked'[i] = linked[i],
         ioQuit'[i] = ioQuit[i], io'[i] # "exited"
  PROVE  ServerInv(i)'
<1>1. ~Past(i)' /\ ~Stopping(i)' /\ ~Dropping(i)'
  BY DEF Early, Past, Stopping, Dropping, Ended
<1>2. ~Past(i) /\ ~Stopping(i) /\ ~Dropping(i) /\ ~Ended
  BY Zenon, EarlyPlaces
<1>3. /\ linked'[i] \subseteq conns'[i] \union Destroyed(ioTasks'[i])
      /\ ~Waits(ioTasks'[i], "stop") /\ ~Waits(ioTasks'[i], "drop") /\ ~ioQuit'[i]
  BY Zenon, <1>2 DEF ServerInv
<1> QED
  BY Zenon, <1>1, <1>3 DEF ServerInv

LEMMA EarlyStep ==
  ASSUME AppInv, Early, Early', everStarted', UNCHANGED <<ioQuit, ioTasks, conns, linked>>,
         servers' # "destroyed", rpc' = rpc,
         \A i \in Io : io'[i] # "exited" /\ acceptor'[i] # "gone", ASTypeOK'
  PROVE  AppInv'
<1>1. \A i \in Io : ServerInv(i)'
  BY Zenon, EarlyServer DEF AppInv
<1>2. app[1] # "exited" /\ (app[1])' # "wait" /\ (app[1])' # "exited"
  BY DEF Early
<1>3. PlaceInv'
  BY Zenon, <1>2 DEF AppInv, PlaceInv
<1> QED
  BY Zenon, <1>1, <1>3 DEF AppInv

LEMMA EarlyFacts ==
  ASSUME AppInv, Early
  PROVE  servers # "destroyed" /\ \A i \in Io : io[i] # "exited" /\ acceptor[i] # "gone"
<1>1. ~Ended
  BY DEF Early, Ended
<1>2. \A i \in Io : ~Past(i) /\ ~Stopping(i) /\ ~Dropping(i)
  BY Zenon, EarlyPlaces
<1> QED
  BY Zenon, <1>1, <1>2 DEF AppInv, PlaceInv, ServerInv

LEMMA ServerStartStep == ASSUME ASAssumption, AppInv, ServerStart PROVE AppInv'
<1>1. app[1] = "none"
  BY Zenon DEF ServerStart, AppInv, PlaceInv
<1>2. Early /\ Early' /\ app' \in Places
  BY <1>1 DEF ServerStart, Early, Places
<1>3. ASTypeOK'
  BY Zenon, <1>2 DEF ServerStart, AppInv, ASTypeOK
<1>4. servers # "destroyed" /\ \A i \in Io : io[i] # "exited" /\ acceptor[i] # "gone"
  BY Zenon, <1>2, EarlyFacts
<1> QED
  BY Zenon, <1>2, <1>3, <1>4, EarlyStep DEF ServerStart

LEMMA CreateListenersStep == ASSUME ASAssumption, AppInv, CreateListeners PROVE AppInv'
<1>1. app[1] = "listeners" /\ Early /\ Early' /\ app' \in Places
  BY DEF CreateListeners, Early, Places, ASAssumption
<1>2. mainTasks' \in Seq({"listen", "quit"})
  BY DEF CreateListeners
<1>3. /\ io' \in [Io -> {"none", "created", "released", "loop", "exited"}]
      /\ acceptor' \in [Io -> {"none", "bound", "listening", "gone"}]
      /\ \A i \in Io : io'[i] # "exited" /\ acceptor'[i] # "gone"
      /\ servers' # "destroyed" /\ servers' \in {"none", "made", "destroyed"}
  BY DEF CreateListeners
<1>4. ASTypeOK'
  BY Zenon, <1>1, <1>2, <1>3 DEF CreateListeners, AppInv, ASTypeOK
<1>5. app[1] # "none" /\ everStarted
  BY Zenon, <1>1 DEF AppInv, PlaceInv
<1> QED
  BY Zenon, <1>1, <1>3, <1>4, <1>5, EarlyStep DEF CreateListeners

\* The main thread moves on, and leaves everything of the servers alone.
LEMMA EarlyMove ==
  ASSUME AppInv, Early, Early', app[1] # "none", app' \in Places, looping' \in BOOLEAN,
         UNCHANGED <<rpc, gRunning, everStarted, appRunning, mainTasks, servers, ioQuit, ioTasks,
                     acceptor, wheel, conns, linked>>,
         io' \in [Io -> {"none", "created", "released", "loop", "exited"}],
         \A i \in Io : io'[i] # io[i] => io'[i] # "exited"
  PROVE  AppInv'
<1>1. everStarted
  BY Zenon DEF AppInv, PlaceInv
<1>2. servers # "destroyed" /\ \A i \in Io : io[i] # "exited" /\ acceptor[i] # "gone"
  BY Zenon, EarlyFacts
<1>3. ASTypeOK'
  BY Zenon DEF AppInv, ASTypeOK
<1> QED
  BY Zenon, <1>1, <1>2, <1>3, EarlyStep

LEMMA BindFailsStep == ASSUME ASAssumption, AppInv, BindFails PROVE AppInv'
<1>1. app[1] # "none" /\ Early /\ Early' /\ app' \in Places
  BY DEF BindFails, Early, Places
<1>2. looping' \in BOOLEAN /\ io' \in [Io -> {"none", "created", "released", "loop", "exited"}]
  BY Zenon DEF BindFails, AppInv, ASTypeOK
<1> QED
  BY Zenon, <1>1, <1>2, EarlyMove DEF BindFails

LEMMA StartIoStep == ASSUME ASAssumption, AppInv, NEW i \in Io, StartIo(i) PROVE AppInv'
<1>1. app[1] # "none" /\ Early /\ i + 1 \in 1 .. IoNum + 1
  BY DEF StartIo, Early, Io, ASAssumption
<1>2. app \in Places /\ looping \in BOOLEAN
      /\ io \in [Io -> {"none", "created", "released", "loop", "exited"}]
  BY Zenon DEF AppInv, ASTypeOK
<1>3. CASE io[i] = "created" /\ io' = [io EXCEPT ![i] = "released"] /\ UNCHANGED app
  <2>1. /\ io' \in [Io -> {"none", "created", "released", "loop", "exited"}]
        /\ \A j \in Io : io'[j] # io[j] => io'[j] # "exited"
    BY <1>2, <1>3
  <2>2. Early'
    BY Zenon, <1>1, <1>3 DEF Early
  <2> QED
    BY Zenon, <1>1, <1>2, <1>3, <2>1, <2>2, EarlyMove DEF StartIo
<1>4. CASE io[i] = "loop" /\ app' = <<"start", i + 1>> /\ UNCHANGED io
  <2>1. Early' /\ app' \in Places
    BY <1>1, <1>4 DEF Early, Places
  <2> QED
    BY Zenon, <1>1, <1>2, <1>4, <2>1, EarlyMove DEF StartIo
<1> QED
  BY Zenon, <1>3, <1>4 DEF StartIo

LEMMA LoopStep == ASSUME ASAssumption, AppInv, Loop PROVE AppInv'
<1>1. app[1] # "none" /\ Early /\ Early' /\ app' \in Places
  BY DEF Loop, Early, Places
<1>2. looping' \in BOOLEAN /\ io' \in [Io -> {"none", "created", "released", "loop", "exited"}]
  BY Zenon DEF Loop, AppInv, ASTypeOK
<1> QED
  BY Zenon, <1>1, <1>2, EarlyMove DEF Loop

\* start() is queued for every server while none of them is being stopped.
LEMMA StartListeningStep == ASSUME ASAssumption, AppInv, StartListening PROVE AppInv'
<1>1. app[1] # "none" /\ Early /\ app' = app
  BY DEF StartListening, Early
<1>2. mainTasks' \in Seq({"listen", "quit"})
  BY DEF StartListening, AppInv, ASTypeOK
<1>3. <<"start">> \in IoTasks /\ <<"start">>[1] = "start"
  BY DEF IoTasks
<1>4. \A i \in Io : ioTasks[i] \in Seq(IoTasks) /\ ioTasks'[i] = Append(ioTasks[i], <<"start">>)
  BY DEF StartListening, AppInv, ASTypeOK
<1>5. \A i \in Io : Append(ioTasks[i], <<"start">>) \in Seq(IoTasks)
  BY Zenon, <1>3, <1>4, TaskAppend
<1>6. ioTasks' \in [Io -> Seq(IoTasks)]
  BY Zenon, <1>5 DEF StartListening
<1>7. ASTypeOK'
  BY Zenon, <1>2, <1>6 DEF StartListening, AppInv, ASTypeOK
<1>8. PlaceInv'
  BY Zenon, <1>1 DEF StartListening, AppInv, PlaceInv, Ended
<1>9. ASSUME NEW i \in Io PROVE ServerInv(i)'
  <2>1. ~Past(i) /\ ~Stopping(i) /\ ~Dropping(i) /\ ~Ended
    BY Zenon, <1>1, EarlyPlaces
  <2>2. ~Past(i)' /\ ~Stopping(i)' /\ ~Dropping(i)' /\ ~Ended'
    BY Zenon, <1>1, <2>1, SamePlace
  <2>3. "start" # "stop" /\ "start" # "drop"
    OBVIOUS
  <2>4. /\ ~Waits(ioTasks'[i], "stop") /\ ~Waits(ioTasks'[i], "drop")
        /\ \A c \in Destroyed(ioTasks[i]) : c \in Destroyed(ioTasks'[i])
    <3>1. ~Waits(ioTasks[i], "stop") /\ ~Waits(ioTasks[i], "drop")
      BY Zenon, <2>1 DEF AppInv, ServerInv
    <3> DEFINE q == ioTasks[i]  a == <<"start">>
    <3>2. q \in Seq(IoTasks) /\ a \in IoTasks /\ ioTasks'[i] = Append(q, a) /\ a[1] = "start"
      BY Zenon, <1>3, <1>4
    <3> HIDE DEF q, a
    <3>3. /\ \A t : Waits(Append(q, a), t) <=> (Waits(q, t) \/ a[1] = t)
          /\ \A c \in Destroyed(q) : c \in Destroyed(Append(q, a))
      BY Zenon, <3>2, TaskAppend
    <3> QED
      BY Zenon, <2>3, <3>1, <3>2, <3>3 DEF q
  <2>5. linked'[i] \subseteq conns'[i] \union Destroyed(ioTasks'[i])
    BY Zenon, <2>4 DEF StartListening, AppInv, ServerInv
  <2>6. acceptor'[i] # "gone" /\ ~ioQuit'[i] /\ io'[i] # "exited"
    BY Zenon, <2>1 DEF StartListening, AppInv, ServerInv
  <2> QED
    BY Zenon, <2>2, <2>4, <2>5, <2>6 DEF ServerInv
<1> QED
  BY Zenon, <1>7, <1>8, <1>9 DEF AppInv
-----------------------------------------------------------------------------
(* The tear-down, on the main thread.                                      *)

LEMMA StopListeningStep == ASSUME ASAssumption, AppInv, StopListening PROVE AppInv'
<1>1. /\ Early /\ app[1] # "none" /\ app' \in Places
      /\ (app[1])' = "stop" /\ (app[2])' = 1
  BY DEF StopListening, Early, Places, ASAssumption
<1>2. mainTasks' \in Seq({"listen", "quit"})
  BY DEF StopListening, AppInv, ASTypeOK
<1>3. ASTypeOK'
  BY Zenon, <1>1, <1>2 DEF StopListening, AppInv, ASTypeOK
<1>4. servers # "destroyed" /\ app[1] # "exited" /\ ~Ended'
  BY <1>1, EarlyFacts DEF Early, Ended
<1>5. PlaceInv'
  <2>1. everStarted /\ rpc # "stopped"
    BY Zenon, <1>1, <1>4 DEF AppInv, PlaceInv
  <2>2. (app[1])' # "wait" /\ (app[1])' # "exited"
    BY <1>1
  <2> QED
    BY Zenon, <1>4, <2>1, <2>2 DEF StopListening, PlaceInv
<1>6. ASSUME NEW i \in Io PROVE ServerInv(i)'
  <2>1. ~Past(i)' /\ ~Stopping(i)' /\ ~Dropping(i)'
    BY <1>1, <1>4 DEF Past, Stopping, Dropping, Io, ASAssumption
  <2>2. ~Past(i) /\ ~Stopping(i) /\ ~Dropping(i) /\ ~Ended
    BY Zenon, <1>1, EarlyPlaces
  <2> QED
    BY Zenon, <2>1, <2>2, ServerKept DEF StopListening, AppInv
<1> QED
  BY Zenon, <1>3, <1>5, <1>6 DEF AppInv

\* The places of the tear-down, before and after a step of it.
LEMMA TearDown ==
  ASSUME AppInv, app[1] \in {"stop", "stopping", "dropping"}, (app[1])' \in {"stop", "stopping", "dropping"},
         UNCHANGED <<rpc, everStarted, servers, io>>
  PROVE  PlaceInv' /\ ~Ended /\ ~Ended'
<1>1. app[1] \notin {"wait", "exited", "none"} /\ (app[1])' \notin {"wait", "exited", "none"}
  OBVIOUS
<1>2. ~Ended /\ ~Ended'
  BY Zenon, <1>1 DEF Ended
<1>3. servers # "destroyed" /\ rpc # "stopped" /\ everStarted
  BY Zenon, <1>1, <1>2 DEF AppInv, PlaceInv
<1> QED
  BY Zenon, <1>1, <1>2, <1>3 DEF PlaceInv

LEMMA StopServerStep == ASSUME ASAssumption, AppInv, NEW i \in Io, StopServer(i) PROVE AppInv'
<1>1. /\ app[1] = "stop" /\ app[2] = i /\ app' \in Places
      /\ (app[1])' = "stopping" /\ (app[2])' = i
  BY DEF StopServer, Places, Io, ASAssumption
<1>2. PlaceInv' /\ ~Ended /\ ~Ended'
  <2>1. app[1] \in {"stop", "stopping", "dropping"} /\ (app[1])' \in {"stop", "stopping", "dropping"}
    BY <1>1
  <2> QED
    BY Zenon, <2>1, TearDown DEF StopServer
<1>3. <<"stop">> \in IoTasks /\ <<"stop">>[1] = "stop"
  BY DEF IoTasks
<1>4. /\ ioTasks[i] \in Seq(IoTasks) /\ ioTasks'[i] = Append(ioTasks[i], <<"stop">>)
      /\ \A j \in Io : j # i => ioTasks'[j] = ioTasks[j]
      /\ ioTasks' = [ioTasks EXCEPT ![i] = Append(ioTasks[i], <<"stop">>)]
  BY DEF StopServer, Queue, AppInv, ASTypeOK
<1>5. Append(ioTasks[i], <<"stop">>) \in Seq(IoTasks)
  BY Zenon, <1>3, <1>4, TaskAppend
<1>6. ioTasks' \in [Io -> Seq(IoTasks)]
  <2>1. ioTasks \in [Io -> Seq(IoTasks)]
    BY Zenon DEF AppInv, ASTypeOK
  <2> QED
    BY <1>4, <1>5, <2>1
<1>7. ASTypeOK'
  BY Zenon, <1>1, <1>6 DEF StopServer, AppInv, ASTypeOK
<1>8. ASSUME NEW j \in Io, j # i PROVE ServerInv(j)'
  <2>1. (Past(j)' <=> Past(j)) /\ (Stopping(j)' <=> Stopping(j)) /\ (Dropping(j)' <=> Dropping(j))
    BY <1>1, <1>2, <1>8 DEF Past, Stopping, Dropping
  <2> QED
    BY Zenon, <1>2, <1>4, <1>8, <2>1, ServerKept DEF StopServer, AppInv
<1>9. ServerInv(i)'
  <2>1. ~Past(i) /\ ~Stopping(i) /\ ~Dropping(i)
    BY <1>1, <1>2 DEF Past, Stopping, Dropping, Io
  <2>2. ~Past(i)' /\ Stopping(i)' /\ ~Dropping(i)'
    BY <1>1, <1>2 DEF Past, Stopping, Dropping, Io
  <2>3. /\ acceptor[i] # "gone" /\ ~Waits(ioTasks[i], "stop") /\ ~Waits(ioTasks[i], "drop")
        /\ ~ioQuit[i] /\ io[i] # "exited"
        /\ linked[i] \subseteq conns[i] \union Destroyed(ioTasks[i])
    BY Zenon, <1>2, <2>1 DEF AppInv, ServerInv
  <2> DEFINE q == ioTasks[i]  a == <<"stop">>
  <2>4. /\ q \in Seq(IoTasks) /\ a \in IoTasks /\ ioTasks'[i] = Append(q, a)
        /\ a[1] = "stop" /\ q = ioTasks[i]
    BY Zenon, <1>3, <1>4
  <2> HIDE DEF q, a
  <2>5. /\ \A t : Waits(Append(q, a), t) <=> (Waits(q, t) \/ a[1] = t)
        /\ \A t : ~Waits(q, t) => Single(Append(q, a), t)
        /\ ~Waits(q, "stop") => NoneAfterStop(Append(q, a))
        /\ \A c \in Destroyed(q) : c \in Destroyed(Append(q, a))
    BY Zenon, <2>4, TaskAppend
  <2>6. /\ ~Waits(ioTasks'[i], "drop") /\ Single(ioTasks'[i], "stop") /\ NoneAfterStop(ioTasks'[i])
        /\ \A c \in Destroyed(ioTasks[i]) : c \in Destroyed(ioTasks'[i])
    <3>1. "stop" # "drop"
      OBVIOUS
    <3> QED
      BY Zenon, <2>3, <2>4, <2>5, <3>1
  <2>7. /\ acceptor'[i] # "gone" /\ ~ioQuit'[i] /\ io'[i] # "exited"
        /\ linked'[i] \subseteq conns'[i] \union Destroyed(ioTasks'[i])
    BY Zenon, <2>3, <2>6 DEF StopServer
  <2> QED
    BY Zenon, <2>2, <2>6, <2>7 DEF ServerInv
<1> QED
  BY Zenon, <1>2, <1>7, <1>8, <1>9 DEF AppInv

LEMMA StoppedStep == ASSUME ASAssumption, AppInv, NEW i \in Io, Stopped(i) PROVE AppInv'
<1>1. /\ app[1] = "stopping" /\ app[2] = i /\ app' \in Places
      /\ (app[1])' = "dropping" /\ (app[2])' = i
  BY DEF Stopped, Places, Io, ASAssumption
<1>2. PlaceInv' /\ ~Ended /\ ~Ended'
  <2>1. app[1] \in {"stop", "stopping", "dropping"} /\ (app[1])' \in {"stop", "stopping", "dropping"}
    BY <1>1
  <2> QED
    BY Zenon, <2>1, TearDown DEF Stopped
<1> DEFINE q == ioTasks[i]  a == <<"drop">>
<1>3. q \in Seq(IoTasks) /\ a \in IoTasks /\ a[1] = "drop" /\ q = ioTasks[i]
  BY DEF AppInv, ASTypeOK, IoTasks
<1>4. /\ \A j \in Io : j # i => ioTasks'[j] = ioTasks[j]
      /\ ioTasks'[i] = IF wheel[i] THEN Append(q, a) ELSE q
      /\ ioTasks' = IF wheel[i] THEN [ioTasks EXCEPT ![i] = Append(q, a)] ELSE ioTasks
  BY DEF Stopped, Queue, AppInv, ASTypeOK
<1> HIDE DEF q, a
<1>5. Append(q, a) \in Seq(IoTasks)
  BY Zenon, <1>3, TaskAppend
<1>6. ioTasks' \in [Io -> Seq(IoTasks)]
  <2>1. ioTasks \in [Io -> Seq(IoTasks)]
    BY Zenon DEF AppInv, ASTypeOK
  <2> QED
    BY <1>4, <1>5, <2>1
<1>7. ASTypeOK'
  BY Zenon, <1>1, <1>6 DEF Stopped, AppInv, ASTypeOK
<1>8. ASSUME NEW j \in Io, j # i PROVE ServerInv(j)'
  <2>1. (Past(j)' <=> Past(j)) /\ (Stopping(j)' <=> Stopping(j)) /\ (Dropping(j)' <=> Dropping(j))
    BY <1>1, <1>2, <1>8 DEF Past, Stopping, Dropping
  <2> QED
    BY Zenon, <1>2, <1>4, <1>8, <2>1, ServerKept DEF Stopped, AppInv
<1>9. ServerInv(i)'
  <2>1. ~Past(i) /\ Stopping(i) /\ ~Dropping(i)
    BY <1>1, <1>2 DEF Past, Stopping, Dropping, Io
  <2>2. ~Past(i)' /\ ~Stopping(i)' /\ Dropping(i)'
    BY <1>1, <1>2 DEF Past, Stopping, Dropping, Io
  <2>3. /\ acceptor[i] = "gone" /\ conns[i] = {} /\ ~Waits(q, "start") /\ ~Waits(q, "stop")
        /\ ~Waits(q, "drop") /\ ~ioQuit[i] /\ io[i] # "exited"
        /\ linked[i] \subseteq conns[i] \union Destroyed(q)
    BY Zenon, <1>2, <1>3, <2>1 DEF Stopped, AppInv, ServerInv
  <2>4. /\ \A t : Waits(Append(q, a), t) <=> (Waits(q, t) \/ a[1] = t)
        /\ \A t : ~Waits(q, t) => Single(Append(q, a), t)
        /\ \A c \in Destroyed(q) : c \in Destroyed(Append(q, a))
    BY Zenon, <1>3, TaskAppend
  <2>5. \A t : ~Waits(q, t) => Single(q, t)
    BY Zenon, Quiet
  <2>6. /\ ~Waits(ioTasks'[i], "start") /\ ~Waits(ioTasks'[i], "stop") /\ Single(ioTasks'[i], "drop")
        /\ ~wheel'[i] => ~Waits(ioTasks'[i], "drop")
        /\ \A c \in Destroyed(q) : c \in Destroyed(ioTasks'[i])
    <3>1. "stop" # "drop" /\ "start" # "drop" /\ wheel' = wheel
      BY DEF Stopped
    <3>2. CASE wheel[i]
      <4>1. ioTasks'[i] = Append(q, a) /\ wheel'[i]
        BY Zenon, <1>4, <3>1, <3>2
      <4>2. ~Waits(Append(q, a), "start") /\ ~Waits(Append(q, a), "stop") /\ Single(Append(q, a), "drop")
        BY Zenon, <1>3, <2>3, <2>4, <3>1
      <4> QED
        BY Zenon, <2>4, <4>1, <4>2
    <3>3. CASE ~wheel[i]
      BY Zenon, <1>4, <2>3, <2>5, <3>1, <3>3
    <3> QED
      BY Zenon, <3>2, <3>3
  <2>7. /\ acceptor'[i] = "gone" /\ conns'[i] = {} /\ ~ioQuit'[i] /\ io'[i] # "exited"
        /\ linked'[i] \subseteq conns'[i] \union Destroyed(ioTasks'[i])
    BY Zenon, <2>3, <2>6 DEF Stopped
  <2> QED
    BY Zenon, <2>2, <2>6, <2>7 DEF ServerInv
<1> QED
  BY Zenon, <1>2, <1>7, <1>8, <1>9 DEF AppInv

LEMMA DroppedStep == ASSUME ASAssumption, AppInv, NEW i \in Io, Dropped(i) PROVE AppInv'
<1>1. /\ app[1] = "dropping" /\ app[2] = i /\ app' \in Places
      /\ (app[1])' = "stop" /\ (app[2])' = i + 1
  BY DEF Dropped, Places, Io, ASAssumption
<1>2. PlaceInv' /\ ~Ended /\ ~Ended'
  <2>1. app[1] \in {"stop", "stopping", "dropping"} /\ (app[1])' \in {"stop", "stopping", "dropping"}
    BY <1>1
  <2> QED
    BY Zenon, <2>1, TearDown DEF Dropped
<1>3. ASTypeOK'
  BY Zenon, <1>1 DEF Dropped, AppInv, ASTypeOK
<1>4. ASSUME NEW j \in Io, j # i PROVE ServerInv(j)'
  <2>1. (Past(j)' <=> Past(j)) /\ (Stopping(j)' <=> Stopping(j)) /\ (Dropping(j)' <=> Dropping(j))
    BY <1>1, <1>2, <1>4 DEF Past, Stopping, Dropping, Io, ASAssumption
  <2> QED
    BY Zenon, <1>2, <1>4, <2>1, ServerKept DEF Dropped, AppInv
<1>5. ServerInv(i)'
  <2>1. Dropping(i)
    BY Zenon, <1>1 DEF Dropping
  <2>2. ~Stopping(i)' /\ ~Dropping(i)' /\ Past(i)'
    BY <1>1 DEF Past, Stopping, Dropping, Io
  <2>3. /\ acceptor'[i] = "gone" /\ ~wheel'[i] /\ conns'[i] = {}
        /\ ~Waits(ioTasks'[i], "start") /\ ~Waits(ioTasks'[i], "stop") /\ ~Waits(ioTasks'[i], "drop")
        /\ ~ioQuit'[i] /\ io'[i] # "exited"
        /\ linked'[i] \subseteq conns'[i] \union Destroyed(ioTasks'[i])
    BY Zenon, <1>2, <2>1 DEF Dropped, AppInv, ServerInv
  <2> QED
    BY Zenon, <2>2, <2>3 DEF ServerInv
<1> QED
  BY Zenon, <1>2, <1>3, <1>4, <1>5 DEF AppInv

\* The servers are destroyed, and the loops told to quit, when all are stopped.
LEMMA QuitLoopsStep == ASSUME ASAssumption, AppInv, QuitLoops PROVE AppInv'
<1>1. /\ app[1] = "stop" /\ app[2] = IoNum + 1 /\ app' \in Places
      /\ (app[1])' = "wait" /\ (app[2])' = 1 /\ Ended'
  BY DEF QuitLoops, Places, Ended, ASAssumption
<1>2. ioQuit' \in [Io -> BOOLEAN] /\ servers' \in {"none", "made", "destroyed"}
  BY DEF QuitLoops
<1>3. ASTypeOK'
  BY Zenon, <1>1, <1>2 DEF QuitLoops, AppInv, ASTypeOK
<1>4. PlaceInv'
  <2>1. app[1] # "none" /\ app[1] # "exited" /\ (app[1])' # "exited"
    BY <1>1
  <2>2. everStarted /\ rpc # "stopped"
    BY Zenon, <2>1 DEF AppInv, PlaceInv
  <2>3. \A j \in Io : ~(j < (app[2])')
    BY <1>1 DEF Io, ASAssumption
  <2> QED
    BY Zenon, <1>1, <2>1, <2>2, <2>3 DEF QuitLoops, PlaceInv
<1>5. ASSUME NEW i \in Io PROVE ServerInv(i)'
  <2>1. Past(i) /\ ~Ended
    BY <1>1 DEF Past, Ended, Io, ASAssumption
  <2>2. Past(i)' /\ ~Stopping(i)' /\ ~Dropping(i)'
    BY <1>1 DEF Past, Stopping, Dropping
  <2>3. /\ acceptor'[i] = "gone" /\ ~wheel'[i] /\ conns'[i] = {}
        /\ ~Waits(ioTasks'[i], "start") /\ ~Waits(ioTasks'[i], "stop") /\ ~Waits(ioTasks'[i], "drop")
        /\ io'[i] # "exited" /\ linked'[i] \subseteq conns'[i] \union Destroyed(ioTasks'[i])
    BY Zenon, <2>1 DEF QuitLoops, AppInv, ServerInv
  <2> QED
    BY Zenon, <1>1, <2>2, <2>3 DEF ServerInv
<1> QED
  BY Zenon, <1>3, <1>4, <1>5 DEF AppInv

LEMMA WaitIoStep == ASSUME ASAssumption, AppInv, NEW i \in Io, WaitIo(i) PROVE AppInv'
<1>1. /\ app[1] = "wait" /\ app[2] = i /\ app' \in Places
      /\ (app[1])' = "wait" /\ (app[2])' = i + 1
  BY DEF WaitIo, Places, Io, ASAssumption
<1>2. ASTypeOK'
  BY Zenon, <1>1 DEF WaitIo, AppInv, ASTypeOK
<1>3. Ended /\ Ended' /\ (app[1])' # "exited" /\ app[1] # "exited" /\ app[1] # "none"
  BY <1>1 DEF Ended
<1>4. PlaceInv'
  <2>1. \A j \in Io : j < i \/ j = i \/ ~(j < i + 1)
    BY DEF Io, ASAssumption
  <2>2. \A j \in Io : j < (app[2])' => io'[j] = "exited"
    BY Zenon, <1>1, <2>1 DEF WaitIo, AppInv, PlaceInv
  <2>3. everStarted /\ rpc # "stopped"
    BY Zenon, <1>3 DEF AppInv, PlaceInv
  <2> QED
    BY Zenon, <1>3, <2>2, <2>3 DEF WaitIo, PlaceInv
<1>5. ASSUME NEW j \in Io PROVE ServerInv(j)'
  <2>1. (Past(j)' <=> Past(j)) /\ (Stopping(j)' <=> Stopping(j)) /\ (Dropping(j)' <=> Dropping(j))
    BY <1>1, <1>3 DEF Past, Stopping, Dropping
  <2> QED
    BY Zenon, <1>3, <2>1, ServerKept DEF WaitIo, AppInv
<1> QED
  BY Zenon, <1>2, <1>4, <1>5 DEF AppInv

LEMMA ReturnStep == ASSUME ASAssumption, AppInv, Return PROVE AppInv'
<1>1. /\ app[1] = "wait" /\ app[2] = IoNum + 1 /\ app' \in Places /\ (app[1])' = "exited"
  BY DEF Return, Places
<1>2. ASTypeOK'
  BY Zenon, <1>1 DEF Return, AppInv, ASTypeOK
<1>3. Ended /\ Ended' /\ (app[1])' # "wait" /\ app[1] # "none"
  BY <1>1 DEF Ended
<1>4. PlaceInv'
  <2>1. \A j \in Io : j < app[2]
    BY <1>1 DEF Io, ASAssumption
  <2>2. everStarted /\ \A j \in Io : io[j] = "exited"
    BY Zenon, <1>1, <1>3, <2>1 DEF AppInv, PlaceInv
  <2> QED
    BY Zenon, <1>1, <1>3, <2>2 DEF Return, PlaceInv
<1>5. ASSUME NEW j \in Io PROVE ServerInv(j)'
  <2>1. (Past(j)' <=> Past(j)) /\ (Stopping(j)' <=> Stopping(j)) /\ (Dropping(j)' <=> Dropping(j))
    BY <1>1, <1>3 DEF Past, Stopping, Dropping
  <2> QED
    BY Zenon, <1>3, <2>1, ServerKept DEF Return, AppInv
<1> QED
  BY Zenon, <1>2, <1>4, <1>5 DEF AppInv
-----------------------------------------------------------------------------
(* The I/O loops.  A step of one of them leaves the others' servers alone. *)

LEMMA LoopIStep ==
  ASSUME AppInv, NEW i \in Io, UNCHANGED <<rpc, everStarted, app, servers>>,
         io[i] # "exited", \A j \in Io : j # i => io'[j] = io[j],
         \A j \in Io : j # i => /\ ioQuit'[j] = ioQuit[j] /\ ioTasks'[j] = ioTasks[j]
                                /\ acceptor'[j] = acceptor[j] /\ wheel'[j] = wheel[j]
                                /\ conns'[j] = conns[j] /\ linked'[j] = linked[j],
         ServerInv(i)', ASTypeOK'
  PROVE  AppInv'
<1>1. ASSUME NEW j \in Io, j # i PROVE ServerInv(j)'
  BY Zenon, <1>1, SamePlace, ServerKept DEF AppInv
<1>2. PlaceInv'
  BY Zenon DEF AppInv, PlaceInv, Ended
<1> QED
  BY Zenon, <1>1, <1>2 DEF AppInv

LEMMA IoBeginStep == ASSUME ASAssumption, AppInv, NEW i \in Io, IoBegin(i) PROVE AppInv'
<1>1. /\ io' \in [Io -> {"none", "created", "released", "loop", "exited"}]
      /\ ioQuit' \in [Io -> BOOLEAN] /\ io[i] # "exited" /\ io'[i] # "exited" /\ ~ioQuit'[i]
      /\ \A j \in Io : j # i => io'[j] = io[j] /\ ioQuit'[j] = ioQuit[j]
  BY DEF IoBegin, AppInv, ASTypeOK
<1>2. ASTypeOK'
  BY Zenon, <1>1 DEF IoBegin, AppInv, ASTypeOK
<1>3. ServerInv(i)'
  BY Zenon, <1>1, SamePlace, ServerKept DEF IoBegin, AppInv
<1> QED
  BY Zenon, <1>1, <1>2, <1>3, LoopIStep DEF IoBegin

LEMMA IoExitStep == ASSUME ASAssumption, AppInv, NEW i \in Io, IoExit(i) PROVE AppInv'
<1>1. /\ io' \in [Io -> {"none", "created", "released", "loop", "exited"}] /\ io[i] # "exited"
      /\ \A j \in Io : j # i => io'[j] = io[j]
  BY DEF IoExit, AppInv, ASTypeOK
<1>2. ASTypeOK'
  BY Zenon, <1>1 DEF IoExit, AppInv, ASTypeOK
<1>3. Ended /\ Ended'
  BY Zenon, SamePlace DEF IoExit, AppInv, ServerInv
<1>4. Past(i) /\ Past(i)' /\ ~Stopping(i)' /\ ~Dropping(i)'
  BY <1>3 DEF Past, Stopping, Dropping, Ended
<1>5. /\ acceptor'[i] = "gone" /\ ~wheel'[i] /\ conns'[i] = {} /\ ioTasks'[i] = <<>>
      /\ ~Waits(ioTasks'[i], "start") /\ ~Waits(ioTasks'[i], "stop") /\ ~Waits(ioTasks'[i], "drop")
      /\ linked'[i] \subseteq conns'[i] \union Destroyed(ioTasks'[i])
  BY Zenon, <1>4 DEF IoExit, AppInv, ServerInv
<1>6. ServerInv(i)'
  BY Zenon, <1>3, <1>4, <1>5 DEF ServerInv
<1> QED
  BY Zenon, <1>1, <1>2, <1>6, LoopIStep DEF IoExit

\* A connection is taken in, or lost: its server is not stopped yet.
LEMMA NewConnectionStep ==
  ASSUME ASAssumption, AppInv, NEW i \in Io, NEW c \in Conns, NewConnection(i, c) PROVE AppInv'
<1>1. /\ conns' \in [Io -> SUBSET Conns] /\ linked' \in [Io -> SUBSET Conns]
      /\ conns'[i] = conns[i] \union {c} /\ linked'[i] = linked[i] \union {c}
      /\ \A j \in Io : j # i => conns'[j] = conns[j] /\ linked'[j] = linked[j]
      /\ io[i] # "exited" /\ acceptor[i] # "gone"
  BY DEF NewConnection, AppInv, ASTypeOK
<1>2. ASTypeOK'
  BY Zenon, <1>1 DEF NewConnection, AppInv, ASTypeOK
<1>3. ~Past(i) /\ ~Dropping(i)
  BY Zenon, <1>1 DEF AppInv, ServerInv
<1>4. ~Past(i)' /\ ~Dropping(i)' /\ (Stopping(i)' <=> Stopping(i)) /\ (Ended' <=> Ended)
  BY Zenon, <1>3, SamePlace DEF NewConnection
<1>5. linked'[i] \subseteq conns'[i] \union Destroyed(ioTasks'[i])
  <2>1. linked[i] \subseteq conns[i] \union Destroyed(ioTasks[i])
    BY Zenon DEF AppInv, ServerInv
  <2>2. ioTasks'[i] = ioTasks[i]
    BY Zenon DEF NewConnection
  <2> QED
    BY Zenon, <1>1, <2>1, <2>2
<1>6. Stopping(i)' => /\ ~Waits(ioTasks'[i], "drop") /\ Single(ioTasks'[i], "stop")
                      /\ NoneAfterStop(ioTasks'[i]) /\ acceptor'[i] # "gone"
  BY Zenon, <1>1, <1>4 DEF NewConnection, AppInv, ServerInv
<1>7. /\ acceptor'[i] # "gone" /\ (ioQuit'[i] => Ended') /\ io'[i] # "exited"
      /\ ~Stopping(i)' => ~Waits(ioTasks'[i], "stop") /\ ~Waits(ioTasks'[i], "drop")
  BY Zenon, <1>1, <1>3, <1>4 DEF NewConnection, AppInv, ServerInv
<1>8. ServerInv(i)'
  BY Zenon, <1>4, <1>5, <1>6, <1>7 DEF ServerInv
<1> QED
  BY Zenon, <1>1, <1>2, <1>8, LoopIStep DEF NewConnection

LEMMA ConnectionClosedStep ==
  ASSUME ASAssumption, AppInv, NEW i \in Io, NEW c \in Conns, ConnectionClosed(i, c) PROVE AppInv'
<1> DEFINE q == ioTasks[i]  a == <<"destroy", c>>
<1>1. q \in Seq(IoTasks) /\ a \in IoTasks /\ a[1] = "destroy" /\ a = <<"destroy", c>> /\ q = ioTasks[i]
  BY DEF AppInv, ASTypeOK, IoTasks
<1>2. Append(q, a) \in Seq(IoTasks)
  BY Zenon, <1>1, TaskAppend
<1>3. /\ conns' \in [Io -> SUBSET Conns] /\ conns'[i] = conns[i] \ {c}
      /\ \A j \in Io : j # i => conns'[j] = conns[j] /\ ioTasks'[j] = ioTasks[j]
      /\ io[i] # "exited" /\ conns[i] # {}
  BY DEF ConnectionClosed, Queue, AppInv, ASTypeOK
<1>4. ioTasks' \in [Io -> Seq(IoTasks)] /\ ioTasks'[i] = Append(q, a)
  BY <1>2 DEF ConnectionClosed, Queue, AppInv, ASTypeOK
<1> HIDE DEF q, a
<1>5. ASTypeOK'
  BY Zenon, <1>3, <1>4 DEF ConnectionClosed, AppInv, ASTypeOK
<1>6. ~Past(i) /\ ~Dropping(i) /\ acceptor[i] # "gone"
  BY Zenon, <1>3 DEF AppInv, ServerInv
<1>7. ~Past(i)' /\ ~Dropping(i)' /\ (Stopping(i)' <=> Stopping(i)) /\ (Ended' <=> Ended)
  BY Zenon, <1>6, SamePlace DEF ConnectionClosed
<1>8. /\ \A t : Waits(Append(q, a), t) <=> (Waits(q, t) \/ a[1] = t)
      /\ \A t : a[1] # t /\ Single(q, t) => Single(Append(q, a), t)
      /\ a[1] # "start" /\ NoneAfterStop(q) => NoneAfterStop(Append(q, a))
      /\ \A x \in Destroyed(q) : x \in Destroyed(Append(q, a))
      /\ c \in Destroyed(Append(q, a))
  BY Zenon, <1>1, TaskAppend
<1>9. "destroy" # "start" /\ "destroy" # "stop" /\ "destroy" # "drop"
  OBVIOUS
<1>10. linked'[i] \subseteq conns'[i] \union Destroyed(ioTasks'[i])
  <2>1. linked[i] \subseteq conns[i] \union Destroyed(q) /\ linked' = linked
    BY Zenon, <1>1 DEF ConnectionClosed, AppInv, ServerInv
  <2>2. \A x \in conns[i] : x \in conns'[i] \/ x = c
    BY Zenon, <1>3
  <2> QED
    BY Zenon, <1>4, <1>8, <2>1, <2>2
<1>11. Stopping(i)' => /\ ~Waits(ioTasks'[i], "drop") /\ Single(ioTasks'[i], "stop")
                       /\ NoneAfterStop(ioTasks'[i]) /\ acceptor'[i] # "gone"
  <2>1. Stopping(i) => ~Waits(q, "drop") /\ Single(q, "stop") /\ NoneAfterStop(q)
    BY Zenon, <1>1 DEF AppInv, ServerInv
  <2>2. acceptor' = acceptor
    BY Zenon DEF ConnectionClosed
  <2> QED
    BY Zenon, <1>1, <1>4, <1>6, <1>7, <1>8, <1>9, <2>1, <2>2
<1>12. /\ acceptor'[i] # "gone" /\ (ioQuit'[i] => Ended') /\ io'[i] # "exited"
       /\ ~Stopping(i)' => ~Waits(ioTasks'[i], "stop") /\ ~Waits(ioTasks'[i], "drop")
  <2>1. (ioQuit[i] => Ended) /\ (~Stopping(i) => ~Waits(q, "stop") /\ ~Waits(q, "drop"))
    BY Zenon, <1>1, <1>6 DEF AppInv, ServerInv
  <2>2. acceptor' = acceptor /\ ioQuit' = ioQuit /\ io' = io
    BY Zenon DEF ConnectionClosed
  <2>3. ~Stopping(i)' => ~Waits(ioTasks'[i], "stop") /\ ~Waits(ioTasks'[i], "drop")
    BY Zenon, <1>1, <1>4, <1>7, <1>8, <1>9, <2>1
  <2> QED
    BY Zenon, <1>3, <1>6, <1>7, <2>1, <2>2, <2>3
<1>13. ServerInv(i)'
  BY Zenon, <1>7, <1>10, <1>11, <1>12 DEF ServerInv
<1>14. UNCHANGED <<rpc, everStarted, app, servers, io, ioQuit, acceptor, wheel, linked>>
  BY Zenon DEF ConnectionClosed
<1> QED
  BY Zenon, <1>3, <1>5, <1>13, <1>14, LoopIStep

\* What the loop's thread takes from its queue, and what is left in it.
LEMMA TaskTaken ==
  ASSUME AppInv, NEW i \in Io, IoTask(i)
  PROVE  /\ ioTasks[i] \in Seq(IoTasks) /\ ioTasks[i] # <<>> /\ Tail(ioTasks[i]) \in Seq(IoTasks)
         /\ Waits(ioTasks[i], Head(ioTasks[i])[1]) /\ io[i] # "exited"
         /\ UNCHANGED <<rpc, gRunning, everStarted, app, appRunning, looping, mainTasks, servers, io, ioQuit>>
<1>1. ioTasks[i] \in Seq(IoTasks) /\ ioTasks[i] # <<>> /\ io[i] = "loop"
  BY DEF IoTask, AppInv, ASTypeOK
<1>2. Tail(ioTasks[i]) \in Seq(IoTasks) /\ Waits(ioTasks[i], Head(ioTasks[i])[1])
  BY Zenon, <1>1, TaskTail
<1>3. io[i] # "exited"
  BY <1>1
<1> QED
  BY Zenon, <1>1, <1>2, <1>3 DEF IoTask

LEMMA StartTask ==
  ASSUME ASAssumption, AppInv, NEW i \in Io, IoTask(i), Head(ioTasks[i])[1] = "start", StartInLoop(i)
  PROVE  AppInv'
<1> DEFINE q == ioTasks[i]  g == Tail(q)
<1>1. /\ q \in Seq(IoTasks) /\ q # <<>> /\ g \in Seq(IoTasks) /\ Waits(q, "start") /\ io[i] # "exited"
      /\ UNCHANGED <<rpc, gRunning, everStarted, app, appRunning, looping, mainTasks, servers, io, ioQuit>>
  BY Zenon, TaskTaken
<1>2. /\ wheel' \in [Io -> BOOLEAN] /\ wheel'[i] /\ acceptor'[i] # "gone"
      /\ acceptor' \in [Io -> {"none", "bound", "listening", "gone"}]
      /\ \A j \in Io : j # i => wheel'[j] = wheel[j] /\ acceptor'[j] = acceptor[j]
  BY DEF StartInLoop, AppInv, ASTypeOK
<1>3. /\ ioTasks' \in [Io -> Seq(IoTasks)] /\ ioTasks'[i] = g
      /\ \A j \in Io : j # i => ioTasks'[j] = ioTasks[j]
  BY <1>1 DEF StartInLoop, AppInv, ASTypeOK
<1>4. q = ioTasks[i]
  OBVIOUS
<1>5. /\ \A t : Waits(g, t) => Waits(q, t)
      /\ \A t : Single(q, t) => Single(g, t)
      /\ NoneAfterStop(q) => NoneAfterStop(g)
      /\ \A c \in Destroyed(q) : c \in Destroyed(g) \/ Head(q) = <<"destroy", c>>
  BY Zenon, <1>1, TaskTail
<1>6. \A c : Head(q) # <<"destroy", c>>
  <2>1. \A c : <<"destroy", c>>[1] = "destroy"
    OBVIOUS
  <2>2. "destroy" # "start"
    OBVIOUS
  <2> QED
    BY Zenon, <2>1, <2>2
<1> HIDE DEF q, g
<1>7. UNCHANGED <<conns, linked>>
  BY Zenon DEF StartInLoop
<1>8. ASTypeOK'
  BY Zenon, <1>1, <1>2, <1>3, <1>7 DEF AppInv, ASTypeOK
<1>9. ~Past(i) /\ ~Dropping(i)
  BY Zenon, <1>1, <1>4 DEF AppInv, ServerInv
<1>10. ~Past(i)' /\ ~Dropping(i)' /\ (Stopping(i)' <=> Stopping(i)) /\ (Ended' <=> Ended)
  BY Zenon, <1>1, <1>9, SamePlace
<1>11. linked'[i] \subseteq conns'[i] \union Destroyed(ioTasks'[i])
  <2>1. linked[i] \subseteq conns[i] \union Destroyed(q)
    BY Zenon, <1>4 DEF AppInv, ServerInv
  <2> QED
    BY Zenon, <1>3, <1>5, <1>6, <1>7, <2>1
<1>12. Stopping(i)' => ~Waits(ioTasks'[i], "drop") /\ Single(ioTasks'[i], "stop") /\ NoneAfterStop(ioTasks'[i])
  <2>1. Stopping(i) => ~Waits(q, "drop") /\ Single(q, "stop") /\ NoneAfterStop(q)
    BY Zenon, <1>4 DEF AppInv, ServerInv
  <2> QED
    BY Zenon, <1>3, <1>5, <1>10, <2>1
<1>13. /\ ioQuit'[i] => Ended'
       /\ ~Stopping(i)' => ~Waits(ioTasks'[i], "stop") /\ ~Waits(ioTasks'[i], "drop")
  <2>1. (ioQuit[i] => Ended) /\ (~Stopping(i) => ~Waits(q, "stop") /\ ~Waits(q, "drop"))
    BY Zenon, <1>4, <1>9 DEF AppInv, ServerInv
  <2>2. ~Stopping(i)' => ~Waits(ioTasks'[i], "stop") /\ ~Waits(ioTasks'[i], "drop")
    BY Zenon, <1>3, <1>5, <1>10, <2>1
  <2> QED
    BY Zenon, <1>1, <1>10, <2>1, <2>2
<1>14. ServerInv(i)'
  BY Zenon, <1>1, <1>2, <1>10, <1>11, <1>12, <1>13 DEF ServerInv
<1> QED
  BY Zenon, <1>1, <1>2, <1>3, <1>7, <1>8, <1>14, LoopIStep

\* The wheel is dropped for a server whose acceptor is gone.
LEMMA DropTask ==
  ASSUME ASAssumption, AppInv, NEW i \in Io, IoTask(i), Head(ioTasks[i])[1] = "drop", DropWheel(i)
  PROVE  AppInv'
<1> DEFINE q == ioTasks[i]  g == Tail(q)
<1>1. /\ q \in Seq(IoTasks) /\ q # <<>> /\ g \in Seq(IoTasks) /\ Waits(q, "drop") /\ io[i] # "exited"
      /\ UNCHANGED <<rpc, gRunning, everStarted, app, appRunning, looping, mainTasks, servers, io, ioQuit>>
  BY Zenon, TaskTaken
<1>2. /\ wheel' \in [Io -> BOOLEAN] /\ ~wheel'[i]
      /\ \A j \in Io : j # i => wheel'[j] = wheel[j]
  BY DEF DropWheel, AppInv, ASTypeOK
<1>3. /\ ioTasks' \in [Io -> Seq(IoTasks)] /\ ioTasks'[i] = g
      /\ \A j \in Io : j # i => ioTasks'[j] = ioTasks[j]
  BY <1>1 DEF DropWheel, AppInv, ASTypeOK
<1>4. q = ioTasks[i] /\ Head(q)[1] = "drop"
  OBVIOUS
<1>5. /\ \A t : Waits(g, t) => Waits(q, t)
      /\ \A t : Single(q, t) /\ Head(q)[1] = t => ~Waits(g, t)
      /\ \A c \in Destroyed(q) : c \in Destroyed(g) \/ Head(q) = <<"destroy", c>>
  BY Zenon, <1>1, TaskTail
<1>6. \A c : Head(q) # <<"destroy", c>>
  <2>1. \A c : <<"destroy", c>>[1] = "destroy"
    OBVIOUS
  <2>2. "destroy" # "drop"
    OBVIOUS
  <2> QED
    BY Zenon, <2>1, <2>2
<1> HIDE DEF q, g
<1>7. UNCHANGED <<acceptor, conns, linked>>
  BY Zenon DEF DropWheel
<1>8. ASTypeOK'
  BY Zenon, <1>1, <1>2, <1>3, <1>7 DEF AppInv, ASTypeOK
<1>9. ~Past(i) /\ ~Stopping(i) /\ Dropping(i)
  BY Zenon, <1>1, <1>4 DEF AppInv, ServerInv
<1>10. ~Past(i)' /\ ~Stopping(i)' /\ Dropping(i)' /\ (Ended' <=> Ended)
  BY Zenon, <1>1, <1>9, SamePlace
<1>11. /\ acceptor[i] = "gone" /\ conns[i] = {} /\ ~Waits(q, "start") /\ ~Waits(q, "stop")
       /\ Single(q, "drop") /\ (ioQuit[i] => Ended) /\ linked[i] \subseteq conns[i] \union Destroyed(q)
  BY Zenon, <1>4, <1>9 DEF AppInv, ServerInv
<1>12. linked'[i] \subseteq conns'[i] \union Destroyed(ioTasks'[i])
  BY Zenon, <1>3, <1>5, <1>6, <1>7, <1>11
<1>13. ~Waits(g, "start") /\ ~Waits(g, "stop") /\ ~Waits(g, "drop")
  BY Zenon, <1>4, <1>5, <1>11
<1>14. Single(g, "drop")
  BY Zenon, <1>13, Quiet
<1>15. ServerInv(i)'
  BY Zenon, <1>1, <1>3, <1>7, <1>10, <1>11, <1>12, <1>13, <1>14 DEF ServerInv
<1> QED
  BY Zenon, <1>1, <1>2, <1>3, <1>7, <1>8, <1>15, LoopIStep

\* A connection is taken out of the poller: any server, at any place.
LEMMA DestroyTask ==
  ASSUME ASAssumption, AppInv, NEW i \in Io, IoTask(i), Head(ioTasks[i])[1] = "destroy",
         ConnectDestroyed(i, Head(ioTasks[i])[2])
  PROVE  AppInv'
<1> DEFINE q == ioTasks[i]  g == Tail(q)
<1>1. /\ q \in Seq(IoTasks) /\ q # <<>> /\ g \in Seq(IoTasks) /\ io[i] # "exited"
      /\ UNCHANGED <<rpc, gRunning, everStarted, app, appRunning, looping, mainTasks, servers, io, ioQuit>>
  BY Zenon, TaskTaken
<1>2. /\ linked' \in [Io -> SUBSET Conns] /\ linked'[i] = linked[i] \ {Head(q)[2]}
      /\ \A j \in Io : j # i => linked'[j] = linked[j]
  BY DEF ConnectDestroyed, AppInv, ASTypeOK
<1>3. /\ ioTasks' \in [Io -> Seq(IoTasks)] /\ ioTasks'[i] = g
      /\ \A j \in Io : j # i => ioTasks'[j] = ioTasks[j]
  BY <1>1 DEF ConnectDestroyed, AppInv, ASTypeOK
<1>4. q = ioTasks[i]
  OBVIOUS
<1>5. /\ \A t : Waits(g, t) => Waits(q, t)
      /\ \A t : Single(q, t) => Single(g, t)
      /\ NoneAfterStop(q) => NoneAfterStop(g)
      /\ \A c \in Destroyed(q) : c \in Destroyed(g) \/ Head(q) = <<"destroy", c>>
  BY Zenon, <1>1, TaskTail
<1> HIDE DEF q, g
<1>6. \A c : Head(q) = <<"destroy", c>> => Head(q)[2] = c
  OBVIOUS
<1>7. UNCHANGED <<acceptor, wheel, conns>>
  BY Zenon DEF ConnectDestroyed
<1>8. ASTypeOK'
  BY Zenon, <1>1, <1>2, <1>3, <1>7 DEF AppInv, ASTypeOK
<1>9. /\ Past(i)' <=> Past(i)
      /\ Dropping(i)' <=> Dropping(i)
      /\ Stopping(i)' <=> Stopping(i)
      /\ Ended' <=> Ended
  BY Zenon, <1>1, SamePlace
<1>10. linked'[i] \subseteq conns'[i] \union Destroyed(ioTasks'[i])
  <2>1. linked[i] \subseteq conns[i] \union Destroyed(q)
    BY Zenon, <1>4 DEF AppInv, ServerInv
  <2> SUFFICES ASSUME NEW c \in linked'[i] PROVE c \in conns[i] \union Destroyed(g)
    BY Zenon, <1>3, <1>7
  <2>2. c \in linked[i] /\ c # Head(q)[2]
    BY Zenon, <1>2
  <2> QED
    BY Zenon, <1>5, <1>6, <2>1, <2>2
<1>11. Past(i)' => /\ acceptor'[i] = "gone" /\ ~wheel'[i] /\ conns'[i] = {}
                   /\ ~Waits(g, "start") /\ ~Waits(g, "stop") /\ ~Waits(g, "drop")
  BY Zenon, <1>4, <1>5, <1>7, <1>9 DEF AppInv, ServerInv
<1>12. Dropping(i)' => /\ acceptor'[i] = "gone" /\ conns'[i] = {}
                       /\ ~Waits(g, "start") /\ ~Waits(g, "stop")
                       /\ Single(g, "drop") /\ (~wheel'[i] => ~Waits(g, "drop"))
  BY Zenon, <1>4, <1>5, <1>7, <1>9 DEF AppInv, ServerInv
<1>13. Stopping(i)' => /\ ~Waits(g, "drop") /\ Single(g, "stop") /\ NoneAfterStop(g)
                       /\ acceptor'[i] = "gone" => conns'[i] = {} /\ ~Waits(g, "start") /\ ~Waits(g, "stop")
  BY Zenon, <1>4, <1>5, <1>7, <1>9 DEF AppInv, ServerInv
<1>14. /\ ~Past(i)' /\ ~Dropping(i)' /\ ~Stopping(i)' =>
            acceptor'[i] # "gone" /\ ~Waits(g, "stop") /\ ~Waits(g, "drop")
       /\ ioQuit'[i] => Ended'
       /\ io'[i] # "exited"
  BY Zenon, <1>1, <1>4, <1>5, <1>7, <1>9 DEF AppInv, ServerInv
<1>15. ServerInv(i)'
  BY Zenon, <1>3, <1>10, <1>11, <1>12, <1>13, <1>14 DEF ServerInv
<1> QED
  BY Zenon, <1>1, <1>2, <1>3, <1>7, <1>8, <1>15, LoopIStep

INSTANCE FiniteSetTheorems

\* forceClose() for all: the functions queued are a sequence of all of them.
LEMMA DestroysType ==
  ASSUME ASAssumption, NEW cs \in SUBSET Conns
  PROVE  /\ Destroys(cs) \in Seq({"destroy"} \X cs)
         /\ \A c \in cs : \E k \in 1..Len(Destroys(cs)) : Destroys(cs)[k] = <<"destroy", c>>
<1> DEFINE n == Cardinality(cs)
           All(s) == \A c \in cs : \E k \in DOMAIN s : s[k] = <<"destroy", c>>
<1>1. IsFiniteSet(cs)
  BY Zenon, FS_Subset DEF ASAssumption
<1>2. n \in Nat /\ ExistsBijection(1..n, cs)
  BY Zenon, <1>1, FS_CardinalityType
<1> HIDE DEF n
<1>3. PICK f \in [1..n -> cs] : \A c \in cs : \E k \in 1..n : f[k] = c
  BY Zenon, <1>2 DEF ExistsBijection, Bijection, Surjection
<1> DEFINE s == [k \in 1..n |-> <<"destroy", f[k]>>]
<1>4. s \in [1..n -> {"destroy"} \X cs] /\ DOMAIN s = 1..n
  BY <1>3
<1>5. All(s)
  BY Zenon, <1>3
<1> HIDE DEF s
<1>6. /\ Destroys(cs) = CHOOSE x \in [1..n -> {"destroy"} \X cs] : All(x)
      /\ \E x \in [1..n -> {"destroy"} \X cs] : All(x)
  BY Zenon, <1>4, <1>5 DEF Destroys, n
<1> HIDE DEF All
<1>7. Destroys(cs) \in [1..n -> {"destroy"} \X cs] /\ All(Destroys(cs))
  BY Zenon, <1>6
<1>8. Destroys(cs) \in Seq({"destroy"} \X cs) /\ Len(Destroys(cs)) = n /\ DOMAIN Destroys(cs) = 1..n
  BY <1>2, <1>7
<1> QED
  BY Zenon, <1>7, <1>8 DEF All

\* The acceptor goes, and all the connections: no start() is left behind it.
LEMMA StopTask ==
  ASSUME ASAssumption, AppInv, NEW i \in Io, IoTask(i), Head(ioTasks[i])[1] = "stop", StopInLoop(i)
  PROVE  AppInv'
<1> DEFINE q == ioTasks[i]  g == Tail(q)  d == Destroys(conns[i])  h == g \o d
<1>1. /\ q \in Seq(IoTasks) /\ q # <<>> /\ g \in Seq(IoTasks) /\ Waits(q, "stop") /\ io[i] # "exited"
      /\ UNCHANGED <<rpc, gRunning, everStarted, app, appRunning, looping, mainTasks, servers, io, ioQuit>>
  BY Zenon, TaskTaken
<1>2. /\ conns[i] \in SUBSET Conns /\ conns' \in [Io -> SUBSET Conns] /\ conns'[i] = {}
      /\ acceptor' \in [Io -> {"none", "bound", "listening", "gone"}] /\ acceptor'[i] = "gone"
      /\ \A j \in Io : j # i => conns'[j] = conns[j] /\ acceptor'[j] = acceptor[j]
  BY DEF StopInLoop, AppInv, ASTypeOK
<1>3. /\ d \in Seq({"destroy"} \X conns[i])
      /\ \A c \in conns[i] : \E k \in 1..Len(d) : d[k] = <<"destroy", c>>
  BY Zenon, <1>2, DestroysType
<1> HIDE DEF d
<1>4. /\ h \in Seq(IoTasks)
      /\ \A t : t # "destroy" /\ Waits(h, t) => Waits(g, t)
      /\ \A c \in Destroyed(g) \union conns[i] : c \in Destroyed(h)
  BY Zenon, <1>1, <1>2, <1>3, TaskJoin
<1>5. /\ \A t : Waits(g, t) => Waits(q, t)
      /\ \A t : Single(q, t) /\ Head(q)[1] = t => ~Waits(g, t)
      /\ NoneAfterStop(q) /\ Head(q)[1] = "stop" => ~Waits(g, "start")
      /\ \A c \in Destroyed(q) : c \in Destroyed(g) \/ Head(q) = <<"destroy", c>>
  BY Zenon, <1>1, TaskTail
<1>6. \A c : Head(q) # <<"destroy", c>>
  <2>1. \A c : <<"destroy", c>>[1] = "destroy"
    OBVIOUS
  <2>2. "destroy" # "stop"
    OBVIOUS
  <2> QED
    BY Zenon, <2>1, <2>2
<1>7. q = ioTasks[i] /\ Head(q)[1] = "stop"
  OBVIOUS
<1>8. /\ ioTasks' = [ioTasks EXCEPT ![i] = h] /\ UNCHANGED <<wheel, linked>>
  BY Zenon DEF StopInLoop, d
<1> HIDE DEF q, g, h
<1>9. /\ ioTasks' \in [Io -> Seq(IoTasks)] /\ ioTasks'[i] = h
      /\ \A j \in Io : j # i => ioTasks'[j] = ioTasks[j]
  BY <1>4, <1>8 DEF AppInv, ASTypeOK
<1>10. ASTypeOK'
  BY Zenon, <1>1, <1>2, <1>8, <1>9 DEF AppInv, ASTypeOK
<1>11. ~Past(i) /\ Stopping(i) /\ ~Dropping(i)
  BY Zenon, <1>1, <1>7 DEF AppInv, ServerInv
<1>12. ~Past(i)' /\ Stopping(i)' /\ ~Dropping(i)' /\ (Ended' <=> Ended)
  BY Zenon, <1>1, <1>11, SamePlace
<1>13. /\ ~Waits(q, "drop") /\ Single(q, "stop") /\ NoneAfterStop(q) /\ (ioQuit[i] => Ended)
       /\ linked[i] \subseteq conns[i] \union Destroyed(q)
  BY Zenon, <1>7, <1>11 DEF AppInv, ServerInv
<1>14. linked'[i] \subseteq conns'[i] \union Destroyed(ioTasks'[i])
  BY Zenon, <1>4, <1>5, <1>6, <1>8, <1>9, <1>13
<1>15. ~Waits(h, "start") /\ ~Waits(h, "stop") /\ ~Waits(h, "drop")
  <2>1. ~Waits(g, "start") /\ ~Waits(g, "stop") /\ ~Waits(g, "drop")
    BY Zenon, <1>5, <1>7, <1>13
  <2>2. "start" # "destroy" /\ "stop" # "destroy" /\ "drop" # "destroy"
    OBVIOUS
  <2> QED
    BY Zenon, <1>4, <2>1, <2>2
<1>16. Single(h, "stop") /\ NoneAfterStop(h)
  BY Zenon, <1>15, Quiet
<1>17. ServerInv(i)'
  BY Zenon, <1>1, <1>2, <1>9, <1>12, <1>13, <1>14, <1>15, <1>16 DEF ServerInv
<1> QED
  BY Zenon, <1>1, <1>2, <1>8, <1>9, <1>10, <1>17, LoopIStep

LEMMA IoTaskStep == ASSUME ASAssumption, AppInv, NEW i \in Io, IoTask(i) PROVE AppInv'
BY Zenon, StartTask, StopTask, DropTask, DestroyTask DEF IoTask
-----------------------------------------------------------------------------
(* The theorems.                                                           *)

LEMMA AppStep == ASSUME ASAssumption, AppInv, [ASNext]_asVars PROVE AppInv'
<1>1. CASE UNCHANGED asVars
  BY Zenon, <1>1, StutterStep
<1>2. CASE ServerStart \/ ServerStop \/ Joined
  BY Zenon, <1>2, ServerStartStep, ServerStopStep, JoinedStep
<1>3. CASE MainStep
  <2>1. CASE CreateListeners \/ BindFails \/ Loop \/ StartListening \/ StopListening \/ QuitLoops \/ Return
    BY Zenon, <2>1, CreateListenersStep, BindFailsStep, LoopStep, StartListeningStep, StopListeningStep,
       QuitLoopsStep, ReturnStep
  <2>2. ASSUME NEW i \in Io, StartIo(i) \/ StopServer(i) \/ Stopped(i) \/ Dropped(i) \/ WaitIo(i)
        PROVE  AppInv'
    BY Zenon, <2>2, StartIoStep, StopServerStep, StoppedStep, DroppedStep, WaitIoStep
  <2> QED
    BY Zenon, <1>3, <2>1, <2>2 DEF MainStep
<1>4. ASSUME NEW i \in Io, IoBegin(i) \/ IoTask(i) \/ IoExit(i) PROVE AppInv'
  BY Zenon, <1>4, IoBeginStep, IoTaskStep, IoExitStep
<1>5. ASSUME NEW i \in Io, NEW c \in Conns, NewConnection(i, c) \/ ConnectionClosed(i, c) PROVE AppInv'
  BY Zenon, <1>5, NewConnectionStep, ConnectionClosedStep
<1> QED
  BY Zenon, <1>1, <1>2, <1>3, <1>4, <1>5 DEF ASNext

\* The inductive invariant, along every behaviour.
LEMMA AppInvariant == ASSUME ASAssumption PROVE ASSpec => []AppInv
<1>1. ASInit => AppInv
  BY AppInit
<1>2. AppInv /\ [ASNext]_asVars => AppInv'
  BY AppStep
<1> QED
  BY <1>1, <1>2, PTL DEF ASSpec

\* The places, the queues and the tables of the server's threads keep the types
\* the code gives them, through start, service and tear-down.
THEOREM AppTypeCorrect == ASSUME ASAssumption PROVE ASSpec => []ASTypeOK
<1>1. AppInv => ASTypeOK
  BY DEF AppInv
<1> QED
  BY <1>1, AppInvariant, PTL

\* quit() destroys the TcpServers when no connection and no queued start(), stop()
\* or wheel function is left that holds a plain pointer to one, and listen() never
\* comes to an acceptor that stop() has reset: for any number of I/O loops.
THEOREM ServersOutliveUsers == ASSUME ASAssumption PROVE ASSpec => []ServerOutlivesUsers
<1>1. ASSUME AppInv PROVE ServerOutlivesUsers
  <2> SUFFICES ASSUME NEW i \in Io
               PROVE  LET waiting == {ioTasks[i][k][1] : k \in DOMAIN ioTasks[i]} IN
                      /\ servers = "destroyed" => conns[i] = {} /\ waiting \cap {"start", "stop", "drop"} = {}
                      /\ acceptor[i] = "gone" => "start" \notin waiting
    BY Zenon DEF ServerOutlivesUsers
  <2> DEFINE waiting == {ioTasks[i][k][1] : k \in DOMAIN ioTasks[i]}
  <2>1. ioTasks[i] \in Seq(IoTasks)
    BY <1>1 DEF AppInv, ASTypeOK
  <2>2. DOMAIN ioTasks[i] = 1..Len(ioTasks[i])
    BY <2>1
  <2>3. \A t \in waiting : Waits(ioTasks[i], t)
    BY Zenon, <2>2 DEF Waits
  <2> HIDE DEF waiting
  <2>4. ASSUME servers = "destroyed" PROVE conns[i] = {} /\ waiting \cap {"start", "stop", "drop"} = {}
    <3>1. Past(i)
      BY Zenon, <1>1, <2>4 DEF AppInv, PlaceInv, Past
    <3>2. /\ conns[i] = {} /\ ~Waits(ioTasks[i], "start") /\ ~Waits(ioTasks[i], "stop")
          /\ ~Waits(ioTasks[i], "drop")
      BY Zenon, <1>1, <3>1 DEF AppInv, ServerInv
    <3> QED
      BY Zenon, <2>3, <3>2
  <2>5. ASSUME acceptor[i] = "gone" PROVE "start" \notin waiting
    <3>1. ~Waits(ioTasks[i], "start")
      BY Zenon, <1>1, <2>5 DEF AppInv, ServerInv
    <3> QED
      BY Zenon, <2>3, <3>1
  <2> QED
    BY Zenon, <2>4, <2>5 DEF waiting
<1>2. AppInv => ServerOutlivesUsers
  BY <1>1
<1> QED
  BY <1>2, AppInvariant, PTL

\* When drogonR_server_stop() has returned, every I/O thread has ended, nothing
\* listens and no connection is left in a poller.
THEOREM StopLeavesQuiet == ASSUME ASAssumption PROVE ASSpec => []StoppedIsQuiet
<1>1. ASSUME AppInv PROVE StoppedIsQuiet
  <2> SUFFICES ASSUME rpc = "stopped", NEW i \in Io
               PROVE  io[i] = "exited" /\ acceptor[i] = "gone" /\ conns[i] = {} /\ linked[i] = {}
    BY Zenon DEF StoppedIsQuiet
  <2>1. app[1] = "exited" /\ io[i] = "exited"
    BY Zenon, <1>1 DEF AppInv, PlaceInv
  <2>2. Past(i)
    BY <2>1 DEF Past, Ended
  <2>3. /\ acceptor[i] = "gone" /\ conns[i] = {} /\ ioTasks[i] = <<>>
        /\ linked[i] \subseteq conns[i] \union Destroyed(ioTasks[i])
    BY Zenon, <1>1, <2>1, <2>2 DEF AppInv, ServerInv
  <2>4. Destroyed(<<>>) = {}
    BY DEF Destroyed
  <2>5. linked[i] = {}
    BY Zenon, <2>3, <2>4
  <2> QED
    BY Zenon, <2>1, <2>3, <2>5
<1>2. AppInv => StoppedIsQuiet
  BY <1>1
<1> QED
  BY <1>2, AppInvariant, PTL
=============================================================================
