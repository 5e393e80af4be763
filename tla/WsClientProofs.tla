--------------------------- MODULE WsClientProofs ---------------------------
(***************************************************************************)
(* Proofs about WsClient, for any clients and any bound: R hooks are kept  *)
(* exactly as long as their client is in the table, no client, task, timer *)
(* or event comes back after the loop was joined, and the hooks of a client *)
(* are called in order although the client object reconnects by itself.    *)
(***************************************************************************)
EXTENDS WsClient, TLAPS

EventTypes == {"Open", "Message", "Close"}
Events == [type : EventTypes, client : Clients]
Starting == {"connect", "resolved"}
Tasks == [do : {"connect", "resolved", "send", "forceClose"}, client : Clients]

\* Where the main thread is: a hook has a batch, and a client that is being
\* stopped is in the table.
MainInv ==
    /\ inHook => batch # <<>>
    /\ inStop # NoClient => entry[inStop] = "live"
    /\ shutting # {} => down
    /\ \A c \in shutting : entry[c] = "live"

\* What is left of a joined loop, and that the lookups of `resolving' are those
\* whose loop runs: the others are in `lost'.
QuietLoop == ShutdownClean /\ (loop = "none" => resolving = {})

TableInv == TypeOK /\ HooksBalanced /\ QuietLoop /\ MainInv

\* The events no hook was called with yet, oldest first.
Rest == (IF inHook THEN Tail(batch) ELSE batch) \o events

\* No event of c, no Close of c, in a queue of events.
Silent(c, s) == \A i \in 1..Len(s) : s[i].client # c
NoClose(c, s) == \A i \in 1..Len(s) : s[i] # Event("Close", c)

\* The events of c up to its first Close continue what was heard.
Ordered(h, c, s) ==
    \A i \in 1..Len(s) :
        (s[i].client = c /\ \A j \in 1..(i - 1) : s[j] # Event("Close", c)) =>
            /\ s[i].type = "Open" => h = "nothing" /\ \A j \in 1..(i - 1) : s[j].client # c
            /\ s[i].type = "Message" => h # "nothing" \/ \E j \in 1..(i - 1) : s[j].client = c

\* No task, at most one task, in a queue that leads to a connection of c.
NoStart(c, t) == \A i \in 1..Len(t) : ~(t[i].client = c /\ t[i].do \in Starting)
OneStart(c, t) ==
    \A i, j \in 1..Len(t) :
        (t[i].client = c /\ t[i].do \in Starting /\ t[j].client = c /\ t[j].do \in Starting) => i = j

\* A client nobody has used.
Unused(c) ==
    /\ heard[c] = "nothing" /\ Silent(c, Rest) /\ tcp[c] = "none" /\ conn[c] = "none"
    /\ NoStart(c, tasks) /\ c \notin resolving /\ c \notin timers

\* A client none of whose closes was reported: it is on its way to its only
\* connection, or has it, and has reported it if it is upgraded.
FirstConnection(c) ==
    /\ c \notin timers
    /\ (heard[c] # "nothing" \/ ~Silent(c, Rest)) => conn[c] = "upgraded"
    /\ conn[c] = "upgraded" => heard[c] # "nothing" \/ ~Silent(c, Rest)
    /\ OneStart(c, tasks)
    /\ c \in resolving => NoStart(c, tasks)
    /\ tcp[c] = "connecting" => NoStart(c, tasks) /\ c \notin resolving
    /\ conn[c] # "none" => NoStart(c, tasks) /\ c \notin resolving /\ tcp[c] # "connecting"

\* A client whose on_close hook runs.
Ending(c) == inHook /\ Head(batch) = Event("Close", c) /\ heard[c] = "Close"

ClientInv(c) ==
    /\ entry[c] = "none" => Unused(c)
    /\ entry[c] = "live" =>
        \/ Ending(c)
        \/ /\ heard[c] # "Close" /\ Ordered(heard[c], c, Rest)
           /\ NoClose(c, Rest) => FirstConnection(c)

AllClients == \A c \in Clients : ClientInv(c)
-----------------------------------------------------------------------------
(* The queues.                                                             *)

\* An event is queued.
LEMMA EventAppend ==
    ASSUME NEW s \in Seq(Events), NEW e \in Events, NEW c \in Clients, NEW h
    PROVE  /\ Append(s, e) \in Seq(Events)
           /\ e.client # c =>
                /\ Silent(c, Append(s, e)) <=> Silent(c, s)
                /\ NoClose(c, Append(s, e)) <=> NoClose(c, s)
                /\ Ordered(h, c, s) => Ordered(h, c, Append(s, e))
           /\ e.client = c => ~Silent(c, Append(s, e))
           /\ e = Event("Close", c) =>
                ~NoClose(c, Append(s, e)) /\ (Ordered(h, c, s) => Ordered(h, c, Append(s, e)))
           /\ e # Event("Close", c) => (NoClose(c, Append(s, e)) <=> NoClose(c, s))
           /\ (e = Event("Open", c) /\ Ordered(h, c, s)
                 /\ (NoClose(c, s) => h = "nothing" /\ Silent(c, s)))
                => Ordered(h, c, Append(s, e))
           /\ (e = Event("Message", c) /\ Ordered(h, c, s)
                 /\ (NoClose(c, s) => h # "nothing" \/ ~Silent(c, s)))
                => Ordered(h, c, Append(s, e))
<1> DEFINE g == Append(s, e)
<1>1. /\ g \in Seq(Events) /\ Len(g) = Len(s) + 1 /\ Len(s) \in Nat
      /\ g[Len(s) + 1] = e /\ \A i \in 1..Len(s) : g[i] = s[i]
  OBVIOUS
<1> HIDE DEF g
<1>2. /\ \A i \in 1..Len(g) : i \in 1..Len(s) \/ i = Len(s) + 1
      /\ \A i \in 1..Len(s) : i \in 1..Len(g) /\ 1..(i - 1) \subseteq 1..Len(s)
      /\ Len(s) + 1 \in 1..Len(g) /\ 1..((Len(s) + 1) - 1) = 1..Len(s)
  BY <1>1
<1>3. /\ Event("Close", c).client = c /\ Event("Open", c).client = c
      /\ Event("Message", c).client = c /\ Event("Close", c).type = "Close"
      /\ Event("Open", c).type = "Open" /\ Event("Message", c).type = "Message"
      /\ "Open" # "Close" /\ "Message" # "Close" /\ "Open" # "Message"
  BY DEF Event
<1>4. /\ Silent(c, g) <=> Silent(c, s) /\ e.client # c
      /\ NoClose(c, g) <=> NoClose(c, s) /\ e # Event("Close", c)
  <2>1. Silent(c, g) <=> (Silent(c, s) /\ e.client # c)
    BY Zenon, <1>1, <1>2 DEF Silent
  <2>2. NoClose(c, g) <=> (NoClose(c, s) /\ e # Event("Close", c))
    BY Zenon, <1>1, <1>2 DEF NoClose
  <2> QED
    BY Zenon, <2>1, <2>2
<1>5. ASSUME Ordered(h, c, s),
             (e.client = c /\ NoClose(c, s)) =>
                 /\ e.type = "Open" => h = "nothing" /\ Silent(c, s)
                 /\ e.type = "Message" => h # "nothing" \/ ~Silent(c, s)
      PROVE  Ordered(h, c, g)
  <2> SUFFICES ASSUME NEW i \in 1..Len(g), g[i].client = c,
                      \A j \in 1..(i - 1) : g[j] # Event("Close", c)
               PROVE  /\ g[i].type = "Open" => h = "nothing" /\ \A j \in 1..(i - 1) : g[j].client # c
                      /\ g[i].type = "Message" => h # "nothing" \/ \E j \in 1..(i - 1) : g[j].client = c
    BY Zenon DEF Ordered
  <2>1. CASE i \in 1..Len(s)
    <3>1. /\ g[i] = s[i] /\ \A j \in 1..(i - 1) : g[j] = s[j]
      BY Zenon, <1>1, <1>2, <2>1
    <3> QED
      BY Zenon, <1>5, <2>1, <3>1 DEF Ordered
  <2>2. CASE i = Len(s) + 1
    <3>1. g[i] = e /\ 1..(i - 1) = 1..Len(s) /\ \A j \in 1..(i - 1) : g[j] = s[j]
      BY Zenon, <1>1, <1>2, <2>2
    <3>2. NoClose(c, s)
      BY Zenon, <3>1 DEF NoClose
    <3> QED
      BY Zenon, <1>5, <3>1, <3>2 DEF Silent
  <2> QED
    BY Zenon, <1>2, <2>1, <2>2
<1> QED
  BY Zenon, <1>1, <1>3, <1>4, <1>5 DEF g

\* The oldest event is taken out.
LEMMA EventTail ==
    ASSUME NEW s \in Seq(Events), s # <<>>, NEW c \in Clients, NEW h, NEW k
    PROVE  /\ Tail(s) \in Seq(Events)
           /\ Silent(c, s) => Silent(c, Tail(s)) /\ s[1].client # c
           /\ s[1].client # c =>
                /\ Silent(c, Tail(s)) <=> Silent(c, s)
                /\ NoClose(c, Tail(s)) <=> NoClose(c, s)
                /\ Ordered(h, c, s) => Ordered(h, c, Tail(s))
           /\ (s[1].client = c /\ s[1].type # "Close") =>
                /\ NoClose(c, Tail(s)) <=> NoClose(c, s)
                /\ (Ordered(h, c, s) /\ k # "nothing") => Ordered(k, c, Tail(s))
<1> DEFINE g == Tail(s)
<1>1. /\ g \in Seq(Events) /\ Len(s) = Len(g) + 1 /\ Len(g) \in Nat
      /\ \A i \in 1..Len(g) : g[i] = s[i + 1]
  OBVIOUS
<1> HIDE DEF g
<1>2. /\ 1 \in 1..Len(s) /\ \A i \in 1..Len(s) : i = 1 \/ (i - 1 \in 1..Len(g) /\ (i - 1) + 1 = i)
      /\ \A i \in 1..Len(g) : i + 1 \in 1..Len(s) /\ (i + 1) - 1 = i
      /\ \A i \in 1..Len(g) : \A j \in 1..i : j = 1 \/ (j - 1 \in 1..(i - 1) /\ (j - 1) + 1 = j)
      /\ \A i \in 1..Len(g) : 1 \in 1..i /\ \A j \in 1..(i - 1) : j + 1 \in 1..i /\ j \in 1..Len(g)
  BY <1>1
<1>0. \A i \in 1..Len(s) : i = 1 \/ \E m \in 1..Len(g) : s[i] = g[m]
  <2> SUFFICES ASSUME NEW i \in 1..Len(s), i # 1 PROVE \E m \in 1..Len(g) : s[i] = g[m]
    BY Zenon
  <2>1. i - 1 \in 1..Len(g) /\ (i - 1) + 1 = i
    BY Zenon, <1>2
  <2>2. g[i - 1] = s[(i - 1) + 1]
    BY Zenon, <1>1, <2>1
  <2> QED
    BY Zenon, <2>1, <2>2
<1>3. Silent(c, s) <=> (Silent(c, g) /\ s[1].client # c)
  <2>1. Silent(c, s) => Silent(c, g) /\ s[1].client # c
    BY Zenon, <1>1, <1>2 DEF Silent
  <2>2. Silent(c, g) /\ s[1].client # c => Silent(c, s)
    BY Zenon, <1>0 DEF Silent
  <2> QED
    BY Zenon, <2>1, <2>2
<1>4. NoClose(c, s) <=> (NoClose(c, g) /\ s[1] # Event("Close", c))
  <2>1. NoClose(c, s) => NoClose(c, g) /\ s[1] # Event("Close", c)
    BY Zenon, <1>1, <1>2 DEF NoClose
  <2>2. NoClose(c, g) /\ s[1] # Event("Close", c) => NoClose(c, s)
    BY Zenon, <1>0 DEF NoClose
  <2> QED
    BY Zenon, <2>1, <2>2
<1>5. Event("Close", c).client = c /\ Event("Close", c).type = "Close"
  BY DEF Event
<1>6. ASSUME Ordered(h, c, s), s[1].client # c PROVE Ordered(h, c, g)
  <2> SUFFICES ASSUME NEW i \in 1..Len(g), g[i].client = c,
                      \A j \in 1..(i - 1) : g[j] # Event("Close", c)
               PROVE  /\ g[i].type = "Open" => h = "nothing" /\ \A j \in 1..(i - 1) : g[j].client # c
                      /\ g[i].type = "Message" => h # "nothing" \/ \E j \in 1..(i - 1) : g[j].client = c
    BY Zenon DEF Ordered
  <2>1. /\ \A j \in 1..i : j = 1 \/ (j - 1 \in 1..(i - 1) /\ s[j] = g[j - 1])
        /\ \A j \in 1..(i - 1) : j + 1 \in 1..i /\ s[j + 1] = g[j]
        /\ g[i] = s[i + 1] /\ i + 1 \in 1..Len(s) /\ (i + 1) - 1 = i
    BY Zenon, <1>1, <1>2
  <2>2. \A j \in 1..i : s[j] # Event("Close", c)
    BY Zenon, <1>5, <1>6, <2>1
  <2>3. /\ s[i + 1].type = "Open" => h = "nothing" /\ \A j \in 1..i : s[j].client # c
        /\ s[i + 1].type = "Message" => h # "nothing" \/ \E j \in 1..i : s[j].client = c
    <3>1. s[i + 1].client = c /\ \A j \in 1..((i + 1) - 1) : s[j] # Event("Close", c)
      BY Zenon, <2>1, <2>2
    <3> QED
      BY Zenon, <1>6, <2>1, <3>1 DEF Ordered
  <2> QED
    BY Zenon, <1>6, <2>1, <2>3
<1>7. ASSUME Ordered(h, c, s), s[1].client = c, s[1].type # "Close", k # "nothing"
      PROVE  Ordered(k, c, g)
  <2> SUFFICES ASSUME NEW i \in 1..Len(g), g[i].client = c,
                      \A j \in 1..(i - 1) : g[j] # Event("Close", c)
               PROVE  g[i].type # "Open"
    BY Zenon, <1>7 DEF Ordered
  <2>1. /\ \A j \in 1..i : j = 1 \/ (j - 1 \in 1..(i - 1) /\ s[j] = g[j - 1])
        /\ 1 \in 1..i /\ g[i] = s[i + 1] /\ i + 1 \in 1..Len(s) /\ (i + 1) - 1 = i
    BY Zenon, <1>1, <1>2
  <2>2. \A j \in 1..((i + 1) - 1) : s[j] # Event("Close", c)
    BY Zenon, <1>5, <1>7, <2>1
  <2>3. s[i + 1].type = "Open" => \A j \in 1..((i + 1) - 1) : s[j].client # c
    BY Zenon, <1>7, <2>1, <2>2 DEF Ordered
  <2> QED
    BY Zenon, <1>7, <2>1, <2>3
<1> QED
  BY Zenon, <1>1, <1>3, <1>4, <1>5, <1>6, <1>7 DEF g

\* A task is queued, or the oldest one is taken out.
LEMMA TaskAppend ==
    ASSUME NEW t \in Seq(Tasks), NEW a \in Tasks, NEW c \in Clients
    PROVE  /\ Append(t, a) \in Seq(Tasks)
           /\ ~(a.client = c /\ a.do \in Starting) =>
                /\ NoStart(c, t) => NoStart(c, Append(t, a))
                /\ OneStart(c, t) => OneStart(c, Append(t, a))
           /\ NoStart(c, t) => OneStart(c, Append(t, a)) /\ OneStart(c, t)
<1> DEFINE g == Append(t, a)
<1>1. /\ g \in Seq(Tasks) /\ Len(g) = Len(t) + 1 /\ Len(t) \in Nat
      /\ g[Len(t) + 1] = a /\ \A i \in 1..Len(t) : g[i] = t[i]
  OBVIOUS
<1>2. \A i \in 1..Len(g) : i \in 1..Len(t) \/ i = Len(t) + 1
  BY <1>1
<1> HIDE DEF g
<1>3. ASSUME ~(a.client = c /\ a.do \in Starting), NoStart(c, t) PROVE NoStart(c, g)
  BY Zenon, <1>1, <1>2, <1>3 DEF NoStart
<1>4. ASSUME ~(a.client = c /\ a.do \in Starting), OneStart(c, t) PROVE OneStart(c, g)
  BY Zenon, <1>1, <1>2, <1>4 DEF OneStart
<1>5. ASSUME NoStart(c, t) PROVE OneStart(c, g) /\ OneStart(c, t)
  BY Zenon, <1>1, <1>2, <1>5 DEF OneStart, NoStart
<1> QED
  BY Zenon, <1>1, <1>3, <1>4, <1>5 DEF g

LEMMA TaskTail ==
    ASSUME NEW t \in Seq(Tasks), t # <<>>, NEW c \in Clients
    PROVE  /\ Tail(t) \in Seq(Tasks) /\ Head(t) \in Tasks
           /\ NoStart(c, t) => NoStart(c, Tail(t)) /\ ~(Head(t).client = c /\ Head(t).do \in Starting)
           /\ OneStart(c, t) => OneStart(c, Tail(t))
           /\ (OneStart(c, t) /\ Head(t).client = c /\ Head(t).do \in Starting)
                => NoStart(c, Tail(t))
<1> DEFINE g == Tail(t)
<1>1. /\ g \in Seq(Tasks) /\ Len(t) = Len(g) + 1 /\ Len(g) \in Nat
      /\ \A i \in 1..Len(g) : g[i] = t[i + 1] /\ Head(t) = t[1] /\ Head(t) \in Tasks
      /\ Head(t) = t[1] /\ Head(t) \in Tasks
  OBVIOUS
<1> HIDE DEF g
<1>2. /\ 1 \in 1..Len(t)
      /\ \A i \in 1..Len(g) : i + 1 \in 1..Len(t) /\ 1 # i + 1
      /\ \A i, j \in 1..Len(g) : i + 1 = j + 1 => i = j
  BY <1>1
<1>3. NoStart(c, t) => NoStart(c, g) /\ ~(Head(t).client = c /\ Head(t).do \in Starting)
  BY Zenon, <1>1, <1>2 DEF NoStart
<1>4. ASSUME OneStart(c, t) PROVE OneStart(c, g)
  <2> SUFFICES ASSUME NEW i \in 1..Len(g), NEW j \in 1..Len(g),
                      g[i].client = c, g[i].do \in Starting, g[j].client = c, g[j].do \in Starting
               PROVE  i = j
    BY Zenon DEF OneStart
  <2>1. i + 1 \in 1..Len(t) /\ j + 1 \in 1..Len(t) /\ g[i] = t[i + 1] /\ g[j] = t[j + 1]
    BY Zenon, <1>1, <1>2
  <2>2. i + 1 = j + 1
    BY Zenon, <1>4, <2>1 DEF OneStart
  <2> QED
    BY Zenon, <1>2, <2>2
<1>5. ASSUME OneStart(c, t), Head(t).client = c, Head(t).do \in Starting PROVE NoStart(c, g)
  <2> SUFFICES ASSUME NEW i \in 1..Len(g), g[i].client = c, g[i].do \in Starting PROVE FALSE
    BY Zenon DEF NoStart
  <2>1. /\ i + 1 \in 1..Len(t) /\ 1 \in 1..Len(t) /\ 1 # i + 1
        /\ t[i + 1] = g[i] /\ t[1] = Head(t)
    BY Zenon, <1>1, <1>2
  <2> QED
    BY Zenon, <1>5, <2>1 DEF OneStart
<1> QED
  BY Zenon, <1>1, <1>3, <1>4, <1>5 DEF g
-----------------------------------------------------------------------------
(* The steps.                                                              *)

TcpStates == {"none", "connecting", "open", "idle"}
ConnStates == {"none", "up", "upgraded"}

\* The steps of the loop, its timers and the network that concern one client.
LoopOf(c) ==
    \/ tasks # <<>> /\ Head(tasks).client = c /\ RunTask
    \/ ResolverAnswers(c) \/ ConnectEnds(c) \/ UpgradeOk(c) \/ UpgradeBad(c)
    \/ Message(c) \/ PeerCloses(c) \/ Reconnect(c)

LEMMA StepKinds ==
    ASSUME TypeOK, [Next]_vars
    PROVE  \/ \E c \in Clients : LoopOf(c) \/ ResolverAnswersLate(c) \/ ShutdownStop(c)
                \/ Connect(c) \/ ClientSend(c) \/ ClientClose(c)
           \/ Shutdown \/ StopTcp \/ ShutdownJoin \/ Drain \/ CallHook \/ SkipEvent \/ HookDone
           \/ UNCHANGED vars
<1>1. tasks # <<>> => Head(tasks).client \in Clients
  <2>1. tasks \in Seq(Tasks)
    BY Zenon DEF TypeOK, Tasks
  <2>2. tasks # <<>> => Head(tasks) \in Tasks
    BY <2>1
  <2> QED
    BY Zenon, <2>2 DEF Tasks
<1>2. RunTask => tasks # <<>>
  BY Zenon DEF RunTask, RunConnect, RunResolved, RunSend, RunForceClose
<1> QED
  BY Zenon, <1>1, <1>2 DEF Next, MainStep, LoopOf

\* What a step of the loop for one client changes.
LEMMA LoopEffects ==
    ASSUME TypeOK, NEW c \in Clients, LoopOf(c)
    PROVE  /\ UNCHANGED <<entry, hooks, closing, stopped, loop, mainVars, heard, ghosts>>
           /\ loop = "running" \/ c \in resolving
           /\ \/ events' = events \/ events' = Append(events, Event("Open", c))
              \/ events' = Append(events, Event("Message", c))
              \/ events' = Append(events, Event("Close", c))
              \/ events' = events \o <<Event("Close", c), Event("Close", c)>>
           /\ \/ tasks' = tasks \/ tasks' = Append(tasks, Task("resolved", c))
              \/ tasks # <<>> /\ Head(tasks).client = c /\ tasks' = Tail(tasks)
           /\ resolving' = resolving \/ resolving' = resolving \union {c} \/ resolving' = resolving \ {c}
           /\ timers' = timers \/ timers' = timers \union {c} \/ timers' = timers \ {c}
           /\ ws' = ws \/ ws' = [ws EXCEPT ![c] = TRUE] \/ ws' = [ws EXCEPT ![c] = FALSE]
           /\ tcp' \in [Clients -> TcpStates] /\ \A d \in Clients \ {c} : tcp'[d] = tcp[d]
           /\ conn' \in [Clients -> ConnStates] /\ \A d \in Clients \ {c} : conn'[d] = conn[d]
<1>0. /\ tcp \in [Clients -> TcpStates] /\ conn \in [Clients -> ConnStates]
      /\ "none" \in TcpStates /\ "connecting" \in TcpStates /\ "open" \in TcpStates
      /\ "idle" \in TcpStates /\ "none" \in ConnStates /\ "up" \in ConnStates
      /\ "upgraded" \in ConnStates
  BY DEF TypeOK, TcpStates, ConnStates
<1>1. UNCHANGED <<entry, hooks, closing, stopped, loop, mainVars, heard, ghosts>>
  BY Zenon DEF LoopOf, RunTask, RunConnect, RunResolved, RunSend, RunForceClose, ResolverAnswers,
       ConnectEnds, ConnectOk, ConnectError, ConnectSilent, UpgradeOk, UpgradeBad, Message,
       PeerCloses, Reconnect, tableVars, implVars
<1>2. loop = "running" \/ c \in resolving
  BY Zenon DEF LoopOf, RunTask, RunConnect, RunResolved, RunSend, RunForceClose, ResolverAnswers,
       ConnectEnds, ConnectOk, ConnectError, ConnectSilent, UpgradeOk, UpgradeBad, Message,
       PeerCloses, Reconnect, LoopRuns
<1>3. \/ events' = events \/ events' = Append(events, Event("Open", c))
      \/ events' = Append(events, Event("Message", c))
      \/ events' = Append(events, Event("Close", c))
      \/ events' = events \o <<Event("Close", c), Event("Close", c)>>
  BY Zenon DEF LoopOf, RunTask, RunConnect, RunResolved, RunSend, RunForceClose, ResolverAnswers,
       ConnectEnds, ConnectOk, ConnectError, ConnectSilent, UpgradeOk, UpgradeBad, Message,
       PeerCloses, Reconnect, ConnectToServer, ConnectionClosed, Closed
<1>4. \/ tasks' = tasks \/ tasks' = Append(tasks, Task("resolved", c))
      \/ tasks # <<>> /\ Head(tasks).client = c /\ tasks' = Tail(tasks)
  BY Zenon DEF LoopOf, RunTask, RunConnect, RunResolved, RunSend, RunForceClose, ResolverAnswers,
       ConnectEnds, ConnectOk, ConnectError, ConnectSilent, UpgradeOk, UpgradeBad, Message,
       PeerCloses, Reconnect, ConnectToServer, Released, implVars
<1>5. resolving' = resolving \/ resolving' = resolving \union {c} \/ resolving' = resolving \ {c}
  BY Zenon DEF LoopOf, RunTask, RunConnect, RunResolved, RunSend, RunForceClose, ResolverAnswers,
       ConnectEnds, ConnectOk, ConnectError, ConnectSilent, UpgradeOk, UpgradeBad, Message,
       PeerCloses, Reconnect, ConnectToServer, Released, implVars
<1>6. timers' = timers \/ timers' = timers \union {c} \/ timers' = timers \ {c}
  BY Zenon DEF LoopOf, RunTask, RunConnect, RunResolved, RunSend, RunForceClose, ResolverAnswers,
       ConnectEnds, ConnectOk, ConnectError, ConnectSilent, UpgradeOk, UpgradeBad, Message,
       PeerCloses, Reconnect, ConnectToServer, Released, ConnectionClosed, Closed, implVars
<1>7. ws' = ws \/ ws' = [ws EXCEPT ![c] = TRUE] \/ ws' = [ws EXCEPT ![c] = FALSE]
  BY Zenon DEF LoopOf, RunTask, RunConnect, RunResolved, RunSend, RunForceClose, ResolverAnswers,
       ConnectEnds, ConnectOk, ConnectError, ConnectSilent, UpgradeOk, UpgradeBad, Message,
       PeerCloses, Reconnect, ConnectionClosed, Closed, implVars
<1>8. /\ tcp' \in [Clients -> TcpStates] /\ \A d \in Clients \ {c} : tcp'[d] = tcp[d]
      /\ conn' \in [Clients -> ConnStates] /\ \A d \in Clients \ {c} : conn'[d] = conn[d]
  <2>1. ASSUME NEW tsk, NEW tim, ConnectToServer(c, tsk, tim)
        PROVE  /\ tcp' \in [Clients -> TcpStates] /\ \A d \in Clients \ {c} : tcp'[d] = tcp[d]
               /\ conn' \in [Clients -> ConnStates] /\ \A d \in Clients \ {c} : conn'[d] = conn[d]
    <3>1. \E t \in {[tcp EXCEPT ![c] = "none"], [tcp EXCEPT ![c] = "connecting"]} :
             \E res : Released(c, tsk, res, tim, t, conn)
      BY Zenon, <2>1 DEF ConnectToServer
    <3>2. PICK t \in {[tcp EXCEPT ![c] = "none"], [tcp EXCEPT ![c] = "connecting"]} :
             \E res : Released(c, tsk, res, tim, t, conn)
      BY Zenon, <3>1
    <3>3. PICK res : Released(c, tsk, res, tim, t, conn)
      BY Zenon, <3>2
    <3>4. t \in [Clients -> TcpStates] /\ \A d \in Clients \ {c} : t[d] = tcp[d]
      BY Zenon, <1>0, <3>2
    <3>5. /\ tcp' = t \/ tcp' = [t EXCEPT ![c] = "none"]
          /\ conn' = conn \/ conn' = [conn EXCEPT ![c] = "none"]
      BY Zenon, <3>3 DEF Released
    <3>6. tcp' \in [Clients -> TcpStates] /\ \A d \in Clients \ {c} : tcp'[d] = tcp[d]
      BY Zenon, <1>0, <3>4, <3>5
    <3>7. conn' \in [Clients -> ConnStates] /\ \A d \in Clients \ {c} : conn'[d] = conn[d]
      BY Zenon, <1>0, <3>5
    <3> QED
      BY Zenon, <3>6, <3>7
  <2>2. CASE (Head(tasks).client = c /\ RunConnect) \/ Reconnect(c)
    BY Zenon, <2>1, <2>2 DEF RunConnect, Reconnect
  <2>3. CASE Head(tasks).client = c /\ (RunResolved \/ RunSend)
    <3>1. \E t \in {tcp, [tcp EXCEPT ![c] = "connecting"]} :
             Released(c, Tail(tasks), resolving, timers, t, conn)
      BY Zenon, <2>3 DEF RunResolved, RunSend
    <3>2. PICK t \in {tcp, [tcp EXCEPT ![c] = "connecting"]} :
             Released(c, Tail(tasks), resolving, timers, t, conn)
      BY Zenon, <3>1
    <3>3. t \in [Clients -> TcpStates] /\ \A d \in Clients \ {c} : t[d] = tcp[d]
      BY Zenon, <1>0, <3>2
    <3>4. /\ tcp' = t \/ tcp' = [t EXCEPT ![c] = "none"]
          /\ conn' = conn \/ conn' = [conn EXCEPT ![c] = "none"]
      BY Zenon, <3>2 DEF Released
    <3>5. tcp' \in [Clients -> TcpStates] /\ \A d \in Clients \ {c} : tcp'[d] = tcp[d]
      BY Zenon, <1>0, <3>3, <3>4
    <3>6. conn' \in [Clients -> ConnStates] /\ \A d \in Clients \ {c} : conn'[d] = conn[d]
      BY Zenon, <1>0, <3>4
    <3> QED
      BY Zenon, <3>5, <3>6
  <2>4. CASE \/ Head(tasks).client = c /\ RunForceClose
             \/ ResolverAnswers(c) \/ ConnectEnds(c) \/ UpgradeOk(c) \/ UpgradeBad(c)
             \/ Message(c) \/ PeerCloses(c)
    <3>1. \E v \in TcpStates : tcp' = tcp \/ tcp' = [tcp EXCEPT ![c] = v]
      <4>1. \/ tcp' = tcp \/ tcp' = [tcp EXCEPT ![c] = "open"] \/ tcp' = [tcp EXCEPT ![c] = "idle"]
            \/ tcp' = [tcp EXCEPT ![c] = "none"]
            \/ tcp' = [tcp EXCEPT ![c] = IF tcp[c] = "open" THEN "idle" ELSE tcp[c]]
        BY Zenon, <2>4 DEF RunForceClose, ResolverAnswers, ConnectEnds, ConnectOk, ConnectError,
             ConnectSilent, UpgradeOk, UpgradeBad, Message, PeerCloses, implVars
      <4>2. (IF tcp[c] = "open" THEN "idle" ELSE tcp[c]) \in TcpStates
        BY Zenon, <1>0
      <4> QED
        BY Zenon, <1>0, <4>1, <4>2
    <3>2. \E v \in ConnStates : conn' = conn \/ conn' = [conn EXCEPT ![c] = v]
      <4>1. \/ conn' = conn \/ conn' = [conn EXCEPT ![c] = "none"]
            \/ conn' = [conn EXCEPT ![c] = "up"] \/ conn' = [conn EXCEPT ![c] = "upgraded"]
        BY Zenon, <2>4 DEF RunForceClose, ResolverAnswers, ConnectEnds, ConnectOk, ConnectError,
             ConnectSilent, UpgradeOk, UpgradeBad, Message, PeerCloses, implVars
      <4> QED
        BY Zenon, <1>0, <4>1
    <3> QED
      BY Zenon, <1>0, <3>1, <3>2
  <2> QED
    BY Zenon, <2>2, <2>3, <2>4 DEF LoopOf, RunTask
<1> QED
  BY Zenon, <1>1, <1>2, <1>3, <1>4, <1>5, <1>6, <1>7, <1>8
-----------------------------------------------------------------------------
(* The table of clients and the end of the loop.                           *)

LEMMA Queued ==
    ASSUME NEW q \in Seq(Events), NEW t \in Seq(Tasks), NEW c \in Clients
    PROVE  /\ \A y \in EventTypes : Event(y, c) \in Events /\ Append(q, Event(y, c)) \in Seq(Events)
           /\ q \o <<Event("Close", c), Event("Close", c)>> \in Seq(Events)
           /\ \A f \in {"connect", "resolved", "send", "forceClose"} :
                Task(f, c) \in Tasks /\ Append(t, Task(f, c)) \in Seq(Tasks)
           /\ t # <<>> => Tail(t) \in Seq(Tasks)
           /\ q # <<>> => Tail(q) \in Seq(Events) /\ Head(q) \in Events
           /\ <<>> \in Seq(Events) /\ <<>> \in Seq(Tasks)
<1>1. \A y \in EventTypes : Event(y, c) \in Events
  BY DEF Event, Events
<1>2. \A f \in {"connect", "resolved", "send", "forceClose"} : Task(f, c) \in Tasks
  BY DEF Task, Tasks
<1>3. Event("Close", c) \in Events
  BY <1>1 DEF EventTypes
<1>4. q \o <<Event("Close", c), Event("Close", c)>> \in Seq(Events)
  BY <1>3
<1>5. \A e \in Events : Append(q, e) \in Seq(Events)
  OBVIOUS
<1>6. \A e \in Tasks : Append(t, e) \in Seq(Tasks)
  OBVIOUS
<1>7. /\ t # <<>> => Tail(t) \in Seq(Tasks)
      /\ q # <<>> => Tail(q) \in Seq(Events) /\ Head(q) \in Events
      /\ <<>> \in Seq(Events) /\ <<>> \in Seq(Tasks)
  OBVIOUS
<1> QED
  BY Zenon, <1>1, <1>2, <1>4, <1>5, <1>6, <1>7

\* The queues and the functions of TypeOK, by their names here.
LEMMA Types ==
    TypeOK <=>
    /\ entry \in [Clients -> {"none", "live", "gone"}]
    /\ hooks \in [Clients -> Nat] /\ closing \in [Clients -> BOOLEAN]
    /\ stopped \in [Clients -> BOOLEAN] /\ ws \in [Clients -> BOOLEAN]
    /\ tcp \in [Clients -> TcpStates] /\ conn \in [Clients -> ConnStates]
    /\ tasks \in Seq(Tasks)
    /\ resolving \subseteq Clients /\ timers \subseteq Clients /\ lost \subseteq Clients
    /\ loop \in {"none", "running"} /\ deadLoop \in BOOLEAN /\ inHook \in BOOLEAN
    /\ events \in Seq(Events) /\ batch \in Seq(Events)
    /\ inStop \in Clients \union {NoClient}
    /\ down \in BOOLEAN /\ shutting \subseteq Clients
    /\ heard \in [Clients -> {"nothing", "Open", "Message", "Close"}]
BY Zenon DEF TypeOK, TcpStates, ConnStates, Tasks, Events, EventTypes

LEMMA LoopTable ==
    ASSUME TableInv, NEW c \in Clients, LoopOf(c) PROVE TableInv'
<1>0. TypeOK /\ tasks \in Seq(Tasks) /\ events \in Seq(Events) /\ batch \in Seq(Events)
      /\ HooksBalanced /\ QuietLoop /\ MainInv
  BY Zenon, Types DEF TableInv
<1>1. UNCHANGED <<entry, hooks, closing, stopped, loop, batch, inHook, inStop, down, shutting,
                  heard, lost, deadLoop>>
  BY Zenon, <1>0, LoopEffects DEF mainVars, ghosts
<1>2. loop = "running"
  BY <1>0, LoopEffects DEF QuietLoop, ShutdownClean, TypeOK
<1>3. events' \in Seq(Events)
  <2>1. "Open" \in EventTypes /\ "Message" \in EventTypes /\ "Close" \in EventTypes
    BY DEF EventTypes
  <2>2. \/ events' = events \/ events' = Append(events, Event("Open", c))
        \/ events' = Append(events, Event("Message", c))
        \/ events' = Append(events, Event("Close", c))
        \/ events' = events \o <<Event("Close", c), Event("Close", c)>>
    BY Zenon, <1>0, LoopEffects
  <2>3. /\ \A y \in EventTypes : Append(events, Event(y, c)) \in Seq(Events)
        /\ events \o <<Event("Close", c), Event("Close", c)>> \in Seq(Events)
    BY Zenon, <1>0, Queued
  <2> QED
    BY Zenon, <1>0, <2>1, <2>2, <2>3
<1>4. tasks' \in Seq(Tasks)
  <2>1. \/ tasks' = tasks \/ tasks' = Append(tasks, Task("resolved", c))
        \/ tasks # <<>> /\ tasks' = Tail(tasks)
    BY Zenon, <1>0, LoopEffects
  <2>2. /\ Append(tasks, Task("resolved", c)) \in Seq(Tasks)
        /\ tasks # <<>> => Tail(tasks) \in Seq(Tasks)
    BY Zenon, <1>0, Queued
  <2> QED
    BY Zenon, <1>0, <2>1, <2>2
<1>5. resolving' \subseteq Clients /\ timers' \subseteq Clients
  <2>1. /\ resolving' = resolving \/ resolving' = resolving \union {c} \/ resolving' = resolving \ {c}
        /\ timers' = timers \/ timers' = timers \union {c} \/ timers' = timers \ {c}
    BY Zenon, <1>0, LoopEffects
  <2> QED
    BY <1>0, <2>1 DEF TypeOK
<1>6. ws' \in [Clients -> BOOLEAN]
  <2>1. ws' = ws \/ ws' = [ws EXCEPT ![c] = TRUE] \/ ws' = [ws EXCEPT ![c] = FALSE]
    BY Zenon, <1>0, LoopEffects
  <2> QED
    BY <1>0, <2>1 DEF TypeOK
<1>7. tcp' \in [Clients -> TcpStates] /\ conn' \in [Clients -> ConnStates]
  BY Zenon, <1>0, LoopEffects
<1>8. TypeOK'
  BY Zenon, <1>0, <1>1, <1>3, <1>4, <1>5, <1>6, <1>7 DEF TypeOK, TcpStates, ConnStates, Tasks,
       Events, EventTypes
<1>9. HooksBalanced' /\ MainInv'
  BY Zenon, <1>0, <1>1 DEF HooksBalanced, MainInv
<1>10. QuietLoop'
  BY <1>1, <1>2 DEF QuietLoop, ShutdownClean
<1> QED
  BY Zenon, <1>8, <1>9, <1>10 DEF TableInv

\* The calls of R code that only queue or flag something.
LEMMA CallTable ==
    ASSUME WsClientAssumption, TableInv, NEW c \in Clients,
           Connect(c) \/ ClientSend(c) \/ ClientClose(c) \/ ShutdownStop(c) \/ ResolverAnswersLate(c)
    PROVE  TableInv'
<1>0. TypeOK /\ tasks \in Seq(Tasks) /\ HooksBalanced /\ QuietLoop /\ MainInv
  BY Zenon, Types DEF TableInv
<1>1. CASE Connect(c)
  <2>1. /\ UNCHANGED <<closing, stopped, ws, tcp, conn, resolving, timers, events, batch, inHook,
                       inStop, down, shutting, heard, lost, deadLoop>>
        /\ loop' = "running" /\ entry' = [entry EXCEPT ![c] = "live"]
        /\ hooks' = [hooks EXCEPT ![c] = hooks[c] + 1] /\ tasks' = Append(tasks, Task("connect", c))
        /\ inStop = NoClient /\ ~down /\ entry[c] = "none"
    BY Zenon, <1>1 DEF Connect, RFree, mainVars, ghosts
  <2>2. tasks' \in Seq(Tasks)
    <3>1. events \in Seq(Events)
      BY Zenon, <1>0, Types
    <3> QED
      BY Zenon, <1>0, <2>1, <3>1, Queued
  <2>3. entry' \in [Clients -> {"none", "live", "gone"}] /\ hooks' \in [Clients -> Nat]
    BY <1>0, <2>1 DEF TypeOK
  <2>4. TypeOK'
    <3>1. loop' \in {"none", "running"}
      BY <2>1
    <3> QED
      BY Zenon, <1>0, <2>1, <2>2, <2>3, <3>1 DEF TypeOK, Tasks
  <2>5. HooksBalanced'
    BY <1>0, <2>1 DEF HooksBalanced, TypeOK
  <2>6. MainInv' /\ QuietLoop'
    BY <1>0, <2>1 DEF MainInv, QuietLoop, ShutdownClean
  <2> QED
    BY Zenon, <2>4, <2>5, <2>6 DEF TableInv
<1>2. CASE ClientSend(c)
  <2>1. /\ UNCHANGED <<entry, hooks, closing, stopped, ws, tcp, conn, resolving, timers, loop, events,
                       batch, inHook, inStop, down, shutting, heard, lost, deadLoop>>
        /\ tasks' = Append(tasks, Task("send", c)) /\ entry[c] = "live"
    BY Zenon, <1>2 DEF ClientSend, tableVars, mainVars, ghosts
  <2>2. tasks' \in Seq(Tasks)
    <3>1. events \in Seq(Events)
      BY Zenon, <1>0, Types
    <3> QED
      BY Zenon, <1>0, <2>1, <3>1, Queued
  <2>3. TypeOK'
    BY Zenon, <1>0, <2>1, <2>2 DEF TypeOK, Tasks
  <2>4. HooksBalanced' /\ MainInv'
    BY Zenon, <1>0, <2>1 DEF HooksBalanced, MainInv
  <2>5. loop = "running"
    BY <1>0, <2>1 DEF QuietLoop, ShutdownClean, TypeOK
  <2>6. QuietLoop'
    BY <2>1, <2>5 DEF QuietLoop, ShutdownClean
  <2> QED
    BY Zenon, <2>3, <2>4, <2>6 DEF TableInv
<1>3. CASE ClientClose(c) \/ ShutdownStop(c)
  <2>1. /\ UNCHANGED <<entry, hooks, tcp, conn, tasks, resolving, timers, loop, events, batch, inHook,
                       down, heard, lost, deadLoop>>
        /\ closing' = [closing EXCEPT ![c] = TRUE] /\ stopped' = [stopped EXCEPT ![c] = TRUE]
        /\ ws' = [ws EXCEPT ![c] = FALSE] /\ inStop' = c
        /\ \/ entry[c] = "live" /\ shutting' = shutting
           \/ c \in shutting /\ shutting' = shutting \ {c}
    BY Zenon, <1>3 DEF ClientClose, ShutdownStop, StopConnection, ghosts
  <2>2. entry[c] = "live"
    BY Zenon, <1>0, <2>1 DEF MainInv
  <2>3. /\ closing' \in [Clients -> BOOLEAN] /\ stopped' \in [Clients -> BOOLEAN]
        /\ ws' \in [Clients -> BOOLEAN] /\ shutting' \subseteq Clients
        /\ inStop' \in Clients \union {NoClient}
    BY <1>0, <2>1 DEF TypeOK
  <2>4. TypeOK'
    BY Zenon, <1>0, <2>1, <2>3 DEF TypeOK
  <2>5. HooksBalanced' /\ QuietLoop'
    BY Zenon, <1>0, <2>1 DEF HooksBalanced, QuietLoop, ShutdownClean
  <2>6. MainInv'
    BY Zenon, <1>0, <2>1, <2>2 DEF MainInv
  <2> QED
    BY Zenon, <2>4, <2>5, <2>6 DEF TableInv
<1>4. CASE ResolverAnswersLate(c)
  <2>1. /\ UNCHANGED <<entry, hooks, closing, stopped, ws, tcp, conn, tasks, resolving, timers, loop,
                       events, batch, inHook, inStop, down, shutting, heard>>
        /\ lost' = lost \ {c} /\ deadLoop' = TRUE
    BY Zenon, <1>4 DEF ResolverAnswersLate, tableVars, implVars, mainVars
  <2>2. lost' \subseteq Clients /\ deadLoop' \in BOOLEAN
    BY <1>0, <2>1 DEF TypeOK
  <2>3. TypeOK'
    BY Zenon, <1>0, <2>1, <2>2 DEF TypeOK
  <2>4. HooksBalanced' /\ MainInv' /\ QuietLoop'
    BY Zenon, <1>0, <2>1 DEF HooksBalanced, MainInv, QuietLoop, ShutdownClean
  <2> QED
    BY Zenon, <2>3, <2>4 DEF TableInv
<1> QED
  BY Zenon, <1>1, <1>2, <1>3, <1>4

\* The main thread stops a client: its connection, if open, is to be closed by
\* the loop, which still runs.
LEMMA StopTable ==
    ASSUME WsClientAssumption, TableInv, Shutdown \/ StopTcp PROVE TableInv'
<1>0. TypeOK /\ tasks \in Seq(Tasks) /\ HooksBalanced /\ QuietLoop /\ MainInv
  BY Zenon, Types DEF TableInv
<1>1. CASE Shutdown
  <2>1. /\ UNCHANGED <<entry, hooks, closing, stopped, ws, tcp, conn, tasks, resolving, timers, loop,
                       events, batch, inHook, inStop, heard, lost, deadLoop>>
        /\ down' = TRUE /\ shutting' = LiveClients
    BY Zenon, <1>1 DEF Shutdown, tableVars, implVars, ghosts
  <2>2. TypeOK'
    <3>1. down' \in BOOLEAN /\ shutting' \subseteq Clients
      BY <2>1 DEF LiveClients
    <3> QED
      BY Zenon, <1>0, <2>1, <3>1 DEF TypeOK
  <2>3. HooksBalanced' /\ MainInv' /\ QuietLoop'
    BY Zenon, <1>0, <2>1 DEF HooksBalanced, MainInv, QuietLoop, ShutdownClean, LiveClients
  <2> QED
    BY Zenon, <2>2, <2>3 DEF TableInv
<1>2. CASE StopTcp
  <2>0. inStop # NoClient /\ inStop \in Clients /\ entry[inStop] = "live"
    BY <1>0, <1>2 DEF StopTcp, TypeOK, MainInv
  <2>1. /\ UNCHANGED <<entry, hooks, closing, stopped, ws, conn, resolving, timers, loop, events,
                       batch, inHook, down, shutting, heard, lost, deadLoop>>
        /\ tasks' = tasks \/ tasks' = Append(tasks, Task("forceClose", inStop))
        /\ tcp' = [tcp EXCEPT ![inStop] = "none"] /\ inStop' = NoClient
    BY Zenon, <1>2 DEF StopTcp, TcpClientGone, tableVars, ghosts
  <2>2. tasks' \in Seq(Tasks)
    <3>1. events \in Seq(Events)
      BY Zenon, <1>0, Types
    <3>2. Append(tasks, Task("forceClose", inStop)) \in Seq(Tasks)
      BY Zenon, <1>0, <2>0, <3>1, Queued
    <3> QED
      BY Zenon, <1>0, <2>1, <3>2
  <2>3. tcp' \in [Clients -> {"none", "connecting", "open", "idle"}]
        /\ inStop' \in Clients \union {NoClient}
    BY <1>0, <2>1 DEF TypeOK
  <2>4. TypeOK'
    BY Zenon, <1>0, <2>1, <2>2, <2>3 DEF TypeOK, Tasks
  <2>5. HooksBalanced' /\ MainInv'
    BY Zenon, <1>0, <2>1 DEF HooksBalanced, MainInv
  <2>6. loop = "running"
    BY <1>0, <2>0 DEF QuietLoop, ShutdownClean, TypeOK
  <2>7. QuietLoop'
    BY <2>1, <2>6 DEF QuietLoop, ShutdownClean
  <2> QED
    BY Zenon, <2>4, <2>5, <2>7 DEF TableInv
<1> QED
  BY Zenon, <1>1, <1>2

\* The loop is joined: every client leaves the table with its hooks.
LEMMA JoinTable ==
    ASSUME WsClientAssumption, TableInv, ShutdownJoin PROVE TableInv'
<1>0. TypeOK /\ HooksBalanced /\ QuietLoop /\ MainInv
  BY Zenon DEF TableInv
<1>1. /\ UNCHANGED <<closing, stopped, ws, batch, inHook, inStop, shutting, heard>>
      /\ down' = FALSE /\ shutting = {} /\ inStop = NoClient
      /\ loop' = "none" /\ tasks' = <<>> /\ timers' = {} /\ events' = <<>> /\ resolving' = {}
      /\ tcp' = [c \in Clients |-> "none"] /\ conn' = [c \in Clients |-> "none"]
      /\ entry' = [c \in Clients |-> IF entry[c] = "live" THEN "gone" ELSE entry[c]]
      /\ hooks' = [c \in Clients |-> IF c \in LiveClients THEN hooks[c] - 1 ELSE hooks[c]]
      /\ lost' = lost \union resolving
      /\ deadLoop' = (deadLoop \/ \E c \in LiveClients : tcp[c] # "none")
  BY Zenon DEF ShutdownJoin, ReleaseClientHooks, Cleared
<1>2. /\ entry' \in [Clients -> {"none", "live", "gone"}]
      /\ tcp' \in [Clients -> {"none", "connecting", "open", "idle"}]
      /\ conn' \in [Clients -> {"none", "up", "upgraded"}]
      /\ \A c \in Clients : entry'[c] # "live"
  BY <1>0, <1>1 DEF TypeOK
<1>3. HooksBalanced' /\ hooks' \in [Clients -> Nat]
  <2>1. \A c \in Clients : hooks'[c] = 0
    BY <1>0, <1>1 DEF HooksBalanced, LiveClients
  <2>2. hooks' \in [Clients -> Nat]
    <3>1. hooks' = [c \in Clients |-> hooks'[c]]
      BY Zenon, <1>1
    <3>2. \A c \in Clients : hooks'[c] \in Nat
      BY <2>1
    <3> QED
      BY Zenon, <3>1, <3>2
  <2> QED
    BY Zenon, <1>2, <2>1, <2>2 DEF HooksBalanced
<1>4. TypeOK'
  <2>1. /\ tasks' \in Seq([do : {"connect", "resolved", "send", "forceClose"}, client : Clients])
        /\ events' \in Seq([type : {"Open", "Message", "Close"}, client : Clients])
    BY <1>1
  <2>2. /\ resolving' \subseteq Clients /\ timers' \subseteq Clients /\ lost' \subseteq Clients
        /\ loop' \in {"none", "running"} /\ down' \in BOOLEAN
    BY <1>0, <1>1 DEF TypeOK
  <2>3. deadLoop' \in BOOLEAN
    BY Zenon, <1>1
  <2>4. /\ closing' \in [Clients -> BOOLEAN] /\ stopped' \in [Clients -> BOOLEAN]
        /\ ws' \in [Clients -> BOOLEAN] /\ inHook' \in BOOLEAN
        /\ batch' \in Seq([type : {"Open", "Message", "Close"}, client : Clients])
        /\ inStop' \in Clients \union {NoClient} /\ shutting' \subseteq Clients
        /\ heard' \in [Clients -> {"nothing", "Open", "Message", "Close"}]
    BY Zenon, <1>0, <1>1 DEF TypeOK
  <2> QED
    BY Zenon, <1>2, <1>3, <2>1, <2>2, <2>3, <2>4 DEF TypeOK
<1>5. MainInv'
  BY Zenon, <1>0, <1>1 DEF MainInv
<1>6. QuietLoop'
  BY Zenon, <1>1, <1>2 DEF QuietLoop, ShutdownClean
<1> QED
  BY Zenon, <1>3, <1>4, <1>5, <1>6 DEF TableInv

\* The pump before a hook.
LEMMA PumpTable ==
    ASSUME TableInv, Drain \/ CallHook \/ SkipEvent PROVE TableInv'
<1>0. /\ TypeOK /\ events \in Seq(Events) /\ batch \in Seq(Events)
      /\ HooksBalanced /\ QuietLoop /\ MainInv
  BY Zenon, Types DEF TableInv
<1>1. /\ UNCHANGED <<entry, hooks, closing, stopped, ws, tcp, conn, tasks, resolving, timers, loop,
                     inStop, down, shutting, lost, deadLoop>>
      /\ \/ batch' = events /\ events' = <<>> /\ events # <<>>
         \/ batch # <<>> /\ events' = events /\ batch' = batch
         \/ batch # <<>> /\ events' = events /\ batch' = Tail(batch) /\ inHook' = FALSE
      /\ inHook' = TRUE \/ inHook' = inHook
      /\ inHook' = FALSE \/ batch' # <<>>
      /\ \/ heard' = heard
         \/ batch # <<>> /\ heard' = [heard EXCEPT ![Head(batch).client] = Head(batch).type]
  <2>1. inHook \in BOOLEAN /\ (batch = <<>> => ~inHook)
    BY Zenon, <1>0 DEF TypeOK, MainInv
  <2>2. CASE Drain
    BY Zenon, <2>1, <2>2 DEF Drain, tableVars, implVars, ghosts
  <2>3. CASE CallHook
    BY Zenon, <2>1, <2>3 DEF CallHook, Pumping, tableVars, implVars, ghosts
  <2>4. CASE SkipEvent
    BY Zenon, <2>1, <2>4 DEF SkipEvent, Pumping, tableVars, implVars, ghosts
  <2> QED
    BY Zenon, <2>2, <2>3, <2>4
<1>2. events' \in Seq(Events) /\ batch' \in Seq(Events)
  <2>1. \/ batch' = events /\ events' = <<>>
        \/ events' = events /\ batch' = batch
        \/ batch # <<>> /\ events' = events /\ batch' = Tail(batch)
    BY Zenon, <1>1
  <2>2. batch \in Seq(Events) /\ batch # <<>> => Tail(batch) \in Seq(Events)
    OBVIOUS
  <2>3. <<>> \in Seq(Events)
    OBVIOUS
  <2> QED
    BY Zenon, <1>0, <2>1, <2>2, <2>3
<1>3. heard' \in [Clients -> {"nothing", "Open", "Message", "Close"}]
  <2>1. batch # <<>> => Head(batch) \in Events
    BY <1>0
  <2>2. batch # <<>> => Head(batch).type \in EventTypes
    BY Zenon, <2>1 DEF Events
  <2>3. batch # <<>> => Head(batch).type \in {"nothing", "Open", "Message", "Close"}
    BY <2>2 DEF EventTypes
  <2> QED
    BY Zenon, <1>0, <1>1, <2>3 DEF TypeOK
<1>4. TypeOK'
  <2>1. inHook' \in BOOLEAN
    BY Zenon, <1>0, <1>1 DEF TypeOK
  <2> QED
    BY Zenon, <1>0, <1>1, <1>2, <1>3, <2>1 DEF TypeOK, Events, EventTypes
<1>5. HooksBalanced'
  BY Zenon, <1>0, <1>1 DEF HooksBalanced
<1>6. MainInv'
  BY Zenon, <1>0, <1>1 DEF MainInv
<1>7. QuietLoop'
  BY Zenon, <1>0, <1>1 DEF QuietLoop, ShutdownClean
<1> QED
  BY Zenon, <1>4, <1>5, <1>6, <1>7 DEF TableInv

\* What follows a hook.
LEMMA HookEffects ==
    ASSUME HookDone
    PROVE  /\ UNCHANGED <<closing, stopped, ws, conn, resolving, timers, loop, events, inStop, down,
                          shutting, heard, lost, deadLoop>>
           /\ inHook /\ inStop = NoClient /\ ~down /\ inHook' = FALSE /\ batch' = Tail(batch)
           /\ ~Erases(Head(batch)) => UNCHANGED <<entry, hooks, tasks, tcp>>
           /\ Erases(Head(batch)) =>
                /\ entry' = [entry EXCEPT ![Head(batch).client] = "gone"]
                /\ hooks' = ReleaseClientHooks({Head(batch).client})
                /\ tasks' = tasks \/ tasks' = Append(tasks, Task("forceClose", Head(batch).client))
                /\ tcp' = tcp \/ tcp' = [tcp EXCEPT ![Head(batch).client] = "none"]
<1>1. /\ UNCHANGED <<closing, stopped, ws, conn, resolving, timers, loop, events, inStop, down,
                     shutting, heard, lost, deadLoop>>
      /\ inHook /\ inStop = NoClient /\ ~down /\ inHook' = FALSE /\ batch' = Tail(batch)
  BY Zenon DEF HookDone, RFree, ghosts
<1>2. ~Erases(Head(batch)) => UNCHANGED <<entry, hooks, tasks, tcp>>
  BY Zenon DEF HookDone
<1>3. Erases(Head(batch)) =>
                /\ entry' = [entry EXCEPT ![Head(batch).client] = "gone"]
                /\ hooks' = ReleaseClientHooks({Head(batch).client})
                /\ tasks' = tasks \/ tasks' = Append(tasks, Task("forceClose", Head(batch).client))
                /\ tcp' = tcp \/ tcp' = [tcp EXCEPT ![Head(batch).client] = "none"]
  BY Zenon DEF HookDone, TcpClientGone
<1> QED
  BY Zenon, <1>1, <1>2, <1>3

LEMMA HookTable ==
    ASSUME TableInv, HookDone PROVE TableInv'
<1> DEFINE c == Head(batch).client
<1>0. /\ TypeOK /\ tasks \in Seq(Tasks) /\ events \in Seq(Events) /\ batch \in Seq(Events)
      /\ HooksBalanced /\ QuietLoop /\ MainInv
  BY Zenon, Types DEF TableInv
<1>1. batch # <<>> /\ Head(batch) \in Events /\ Tail(batch) \in Seq(Events)
  <2>1. batch # <<>>
    BY Zenon, <1>0, HookEffects DEF MainInv
  <2> QED
    BY <1>0, <2>1
<1>2. c \in Clients
  BY Zenon, <1>1 DEF Events
<1>3. /\ UNCHANGED <<closing, stopped, ws, conn, resolving, timers, loop, events, inStop, down,
                     shutting, heard, lost, deadLoop>>
      /\ inStop = NoClient /\ ~down /\ inHook' = FALSE /\ batch' = Tail(batch)
  BY Zenon, HookEffects
<1>4. inHook' \in BOOLEAN /\ batch' \in Seq(Events)
  BY Zenon, <1>1, <1>3
<1>5. CASE ~Erases(Head(batch))
  <2>1. UNCHANGED <<entry, hooks, tasks, tcp>>
    BY Zenon, <1>5, HookEffects
  <2>2. TypeOK'
    BY Zenon, <1>0, <1>3, <1>4, <2>1 DEF TypeOK, Events, EventTypes
  <2>3. HooksBalanced' /\ MainInv' /\ QuietLoop'
    BY Zenon, <1>0, <1>3, <2>1 DEF HooksBalanced, MainInv, QuietLoop, ShutdownClean
  <2> QED
    BY Zenon, <2>2, <2>3 DEF TableInv
<1>6. CASE Erases(Head(batch))
  <2>1. /\ entry' = [entry EXCEPT ![c] = "gone"] /\ hooks' = ReleaseClientHooks({c})
        /\ tasks' = tasks \/ tasks' = Append(tasks, Task("forceClose", c))
        /\ tcp' = tcp \/ tcp' = [tcp EXCEPT ![c] = "none"]
        /\ entry[c] = "live"
    BY Zenon, <1>6, HookEffects DEF Erases
  <2> HIDE DEF c
  <2>2. /\ entry' \in [Clients -> {"none", "live", "gone"}]
        /\ tcp' \in [Clients -> {"none", "connecting", "open", "idle"}]
    BY <1>0, <1>2, <2>1 DEF TypeOK
  <2>3. HooksBalanced' /\ hooks' \in [Clients -> Nat]
    <3>1. \A d \in Clients : hooks'[d] = IF d = c THEN hooks[d] - 1 ELSE hooks[d]
      BY <2>1 DEF ReleaseClientHooks
    <3>2. \A d \in Clients : hooks'[d] = (IF entry'[d] = "live" THEN 1 ELSE 0) /\ hooks'[d] \in Nat
      <4> SUFFICES ASSUME NEW d \in Clients
                   PROVE  hooks'[d] = (IF entry'[d] = "live" THEN 1 ELSE 0) /\ hooks'[d] \in Nat
        BY Zenon
      <4>1. hooks[d] = IF entry[d] = "live" THEN 1 ELSE 0
        BY Zenon, <1>0 DEF HooksBalanced
      <4>2. entry'[d] = IF d = c THEN "gone" ELSE entry[d]
        BY Zenon, <1>0, <1>2, <2>1 DEF TypeOK
      <4>3. CASE d = c
        <5>1. hooks'[d] = hooks[d] - 1 /\ hooks[d] = 1 /\ entry'[d] = "gone"
          BY Zenon, <2>1, <3>1, <4>1, <4>2, <4>3
        <5> QED
          BY <5>1
      <4>4. CASE d # c
        <5>1. hooks'[d] = hooks[d] /\ entry'[d] = entry[d]
          BY Zenon, <3>1, <4>2, <4>4
        <5> QED
          BY <4>1, <5>1
      <4> QED
        BY Zenon, <4>3, <4>4
    <3>3. hooks' = [d \in Clients |-> hooks'[d]]
      BY Zenon, <2>1 DEF ReleaseClientHooks
    <3> QED
      BY Zenon, <3>2, <3>3 DEF HooksBalanced
  <2>4. tasks' \in Seq(Tasks)
    <3>1. Append(tasks, Task("forceClose", c)) \in Seq(Tasks)
      BY Zenon, <1>0, <1>2, Queued
    <3> QED
      BY Zenon, <1>0, <2>1, <3>1
  <2>5. TypeOK'
    BY Zenon, <1>0, <1>3, <1>4, <2>2, <2>3, <2>4 DEF TypeOK, Tasks, Events, EventTypes
  <2>6. MainInv'
    <3>1. shutting = {}
      BY Zenon, <1>0, <1>3 DEF MainInv
    <3> QED
      BY Zenon, <1>3, <3>1 DEF MainInv
  <2>7. loop = "running"
    BY <1>0, <1>2, <2>1 DEF QuietLoop, ShutdownClean, TypeOK
  <2>8. QuietLoop'
    BY <1>3, <2>7 DEF QuietLoop, ShutdownClean
  <2> QED
    BY Zenon, <2>3, <2>5, <2>6, <2>8 DEF TableInv
<1> QED
  BY Zenon, <1>5, <1>6

LEMMA TableInit == ASSUME WsClientAssumption, Init PROVE TableInv
<1>1. TypeOK
  <2>1. /\ entry \in [Clients -> {"none", "live", "gone"}]
        /\ hooks \in [Clients -> Nat] /\ closing \in [Clients -> BOOLEAN]
        /\ stopped \in [Clients -> BOOLEAN] /\ ws \in [Clients -> BOOLEAN]
    BY DEF Init
  <2>2. /\ tcp \in [Clients -> TcpStates] /\ conn \in [Clients -> ConnStates]
        /\ heard \in [Clients -> {"nothing", "Open", "Message", "Close"}]
    BY DEF Init, TcpStates, ConnStates
  <2>3. tasks \in Seq(Tasks) /\ events \in Seq(Events) /\ batch \in Seq(Events)
    BY DEF Init
  <2>4. /\ resolving \subseteq Clients /\ timers \subseteq Clients /\ lost \subseteq Clients
        /\ loop \in {"none", "running"} /\ deadLoop \in BOOLEAN /\ inHook \in BOOLEAN
        /\ inStop \in Clients \union {NoClient}
        /\ down \in BOOLEAN /\ shutting \subseteq Clients
    BY DEF Init
  <2> QED
    BY Zenon, <2>1, <2>2, <2>3, <2>4, Types
<1>2. HooksBalanced
  BY DEF Init, HooksBalanced
<1>3. QuietLoop /\ MainInv
  BY DEF Init, QuietLoop, ShutdownClean, MainInv
<1> QED
  BY Zenon, <1>1, <1>2, <1>3 DEF TableInv

LEMMA TableStep == ASSUME WsClientAssumption, TableInv, [Next]_vars PROVE TableInv'
<1>1. CASE UNCHANGED vars
  <2>1. UNCHANGED <<entry, hooks, closing, stopped, ws, tcp, conn, tasks, resolving, timers, loop,
                    events, batch, inHook, inStop, down, shutting, heard, lost, deadLoop>>
    BY Zenon, <1>1 DEF vars, tableVars, implVars, mainVars, ghosts
  <2>2. TypeOK'
    BY Zenon, <2>1 DEF TableInv, TypeOK
  <2>3. HooksBalanced' /\ MainInv' /\ QuietLoop'
    BY Zenon, <2>1 DEF TableInv, HooksBalanced, MainInv, QuietLoop, ShutdownClean
  <2> QED
    BY Zenon, <2>2, <2>3 DEF TableInv
<1>2. TypeOK
  BY Zenon DEF TableInv
<1> QED
  BY Zenon, <1>1, <1>2, StepKinds, LoopTable, CallTable, StopTable, JoinTable, PumpTable, HookTable
-----------------------------------------------------------------------------
(* What the hooks of a client hear.                                        *)

\* What is yet to be heard, in steps of the loop and of the pump.
LEMMA RestType == ASSUME TypeOK, MainInv PROVE Rest \in Seq(Events)
<1>1. events \in Seq(Events) /\ batch \in Seq(Events) /\ (inHook => batch # <<>>)
  BY Zenon, Types DEF MainInv
<1>2. (IF inHook THEN Tail(batch) ELSE batch) \in Seq(Events)
  BY <1>1
<1>3. \A p, q \in Seq(Events) : p \o q \in Seq(Events)
  OBVIOUS
<1> QED
  BY Zenon, <1>1, <1>2, <1>3 DEF Rest

LEMMA RestAppend ==
    ASSUME TypeOK, MainInv, batch' = batch, inHook' = inHook
    PROVE  /\ events' = events => Rest' = Rest
           /\ \A e \in Events : events' = Append(events, e) => Rest' = Append(Rest, e)
           /\ \A e \in Events : events' = events \o <<e, e>> => Rest' = Append(Append(Rest, e), e)
<1> DEFINE p == IF inHook THEN Tail(batch) ELSE batch
<1>1. events \in Seq(Events) /\ batch \in Seq(Events) /\ (inHook => batch # <<>>)
  BY Zenon, Types DEF MainInv
<1>2. p \in Seq(Events)
  BY <1>1
<1>3. Rest = p \o events /\ Rest' = p \o events'
  BY Zenon DEF Rest
<1> HIDE DEF p
<1>4. \A e \in Events : p \o Append(events, e) = Append(p \o events, e)
  BY <1>1, <1>2
<1>5. \A e \in Events : events \o <<e, e>> = Append(Append(events, e), e)
  BY <1>1
<1>6. \A e \in Events : p \o Append(Append(events, e), e) = Append(Append(p \o events, e), e)
  BY <1>1, <1>2
<1> QED
  BY Zenon, <1>3, <1>4, <1>5, <1>6

LEMMA RestPump ==
    ASSUME TypeOK, MainInv
    PROVE  /\ Drain => Rest' = Rest
           /\ CallHook \/ SkipEvent => Rest # <<>> /\ Rest[1] = Head(batch) /\ Rest' = Tail(Rest)
           /\ HookDone => Rest' = Rest
<1>1. /\ events \in Seq(Events) /\ batch \in Seq(Events) /\ (inHook => batch # <<>>)
      /\ inHook \in BOOLEAN
  BY Zenon, Types DEF MainInv
<1>2. ASSUME Drain PROVE Rest' = Rest
  <2>1. <<>> \o events = events /\ events \o <<>> = events
    BY <1>1
  <2>2. batch = <<>> /\ batch' = events /\ events' = <<>> /\ inHook' = inHook
    BY Zenon, <1>2 DEF Drain
  <2>3. ~inHook
    BY Zenon, <1>1, <2>2
  <2>4. Rest = <<>> \o events /\ Rest' = events \o <<>>
    BY Zenon, <2>2, <2>3 DEF Rest
  <2> QED
    BY Zenon, <2>1, <2>4
<1>3. ASSUME CallHook \/ SkipEvent
      PROVE  Rest # <<>> /\ Rest[1] = Head(batch) /\ Rest' = Tail(Rest)
  <2>1. batch # <<>> /\ ~inHook /\ events' = events
    BY Zenon, <1>3 DEF CallHook, SkipEvent, Pumping
  <2>2. (inHook' /\ batch' = batch) \/ (~inHook' /\ batch' = Tail(batch))
    BY Zenon, <1>3, <2>1 DEF CallHook, SkipEvent
  <2>3. Rest = batch \o events /\ Rest' = Tail(batch) \o events
    BY Zenon, <2>1, <2>2 DEF Rest
  <2>4. /\ batch \o events # <<>> /\ (batch \o events)[1] = Head(batch)
        /\ Tail(batch \o events) = Tail(batch) \o events
    BY <1>1, <2>1
  <2> QED
    BY Zenon, <2>3, <2>4
<1>4. HookDone => Rest' = Rest
  BY Zenon, HookEffects DEF Rest
<1> QED
  BY Zenon, <1>2, <1>3, <1>4

\* A step that leaves a client in its place.
LEMMA Keeps ==
    ASSUME NEW d \in Clients, ClientInv(d),
           entry'[d] = entry[d], heard'[d] = heard[d], Ending(d) => Ending(d)',
           tcp'[d] = tcp[d] \/ tcp'[d] = "none", conn'[d] = conn[d],
           d \in timers' <=> d \in timers, d \in resolving' <=> d \in resolving,
           NoStart(d, tasks) => NoStart(d, tasks'), OneStart(d, tasks) => OneStart(d, tasks'),
           Silent(d, Rest') <=> Silent(d, Rest), NoClose(d, Rest') <=> NoClose(d, Rest),
           Ordered(heard[d], d, Rest) => Ordered(heard[d], d, Rest')
    PROVE  ClientInv(d)'
<1>0. "none" # "connecting"
  OBVIOUS
<1>1. Unused(d) => Unused(d)'
  BY Zenon DEF Unused
<1>2. FirstConnection(d) => FirstConnection(d)'
  BY Zenon, <1>0 DEF FirstConnection
<1> QED
  BY Zenon, <1>1, <1>2 DEF ClientInv

\* The loop works for another client.
LEMMA LoopOther ==
    ASSUME TableInv, NEW c \in Clients, LoopOf(c), NEW d \in Clients, d # c, ClientInv(d)
    PROVE  ClientInv(d)'
<1>0. TypeOK /\ MainInv /\ tasks \in Seq(Tasks) /\ events \in Seq(Events) /\ Rest \in Seq(Events)
  BY Zenon, Types, RestType DEF TableInv
<1>1. UNCHANGED <<entry, heard, batch, inHook>>
  BY Zenon, <1>0, LoopEffects DEF mainVars
<1>2. /\ tcp'[d] = tcp[d] /\ conn'[d] = conn[d]
      /\ d \in timers' <=> d \in timers
      /\ d \in resolving' <=> d \in resolving
  <2>1. tcp'[d] = tcp[d] /\ conn'[d] = conn[d]
    BY Zenon, <1>0, LoopEffects
  <2>2. /\ resolving' = resolving \/ resolving' = resolving \union {c} \/ resolving' = resolving \ {c}
        /\ timers' = timers \/ timers' = timers \union {c} \/ timers' = timers \ {c}
    BY Zenon, <1>0, LoopEffects
  <2> QED
    BY Zenon, <2>1, <2>2
<1>3. NoStart(d, tasks) => NoStart(d, tasks')
  <2>1. \/ tasks' = tasks \/ tasks' = Append(tasks, Task("resolved", c))
        \/ tasks # <<>> /\ tasks' = Tail(tasks)
    BY Zenon, <1>0, LoopEffects
  <2>2. Task("resolved", c) \in Tasks /\ Task("resolved", c).client # d
    BY DEF Task, Tasks
  <2> QED
    BY Zenon, <1>0, <2>1, <2>2, TaskAppend, TaskTail
<1>4. OneStart(d, tasks) => OneStart(d, tasks')
  <2>1. \/ tasks' = tasks \/ tasks' = Append(tasks, Task("resolved", c))
        \/ tasks # <<>> /\ tasks' = Tail(tasks)
    BY Zenon, <1>0, LoopEffects
  <2>2. Task("resolved", c) \in Tasks /\ Task("resolved", c).client # d
    BY DEF Task, Tasks
  <2> QED
    BY Zenon, <1>0, <2>1, <2>2, TaskAppend, TaskTail
<1>5. /\ Silent(d, Rest') <=> Silent(d, Rest)
      /\ NoClose(d, Rest') <=> NoClose(d, Rest)
      /\ Ordered(heard[d], d, Rest) => Ordered(heard[d], d, Rest')
  <2>1. \E e \in Events : /\ e.client # d
                           /\ \/ Rest' = Rest \/ Rest' = Append(Rest, e)
                              \/ Rest' = Append(Append(Rest, e), e)
    <3>1. \A y \in EventTypes : Event(y, c) \in Events /\ Event(y, c).client # d
      BY DEF Event, Events
    <3>2. "Open" \in EventTypes /\ "Message" \in EventTypes /\ "Close" \in EventTypes
      BY DEF EventTypes
    <3>3. \E y \in EventTypes : \/ events' = events \/ events' = Append(events, Event(y, c))
                               \/ events' = events \o <<Event(y, c), Event(y, c)>>
      BY Zenon, <1>0, <3>2, LoopEffects
    <3>4. PICK y \in EventTypes : \/ events' = events \/ events' = Append(events, Event(y, c))
                                 \/ events' = events \o <<Event(y, c), Event(y, c)>>
      BY Zenon, <3>3
    <3>5. \/ Rest' = Rest \/ Rest' = Append(Rest, Event(y, c))
          \/ Rest' = Append(Append(Rest, Event(y, c)), Event(y, c))
      BY Zenon, <1>0, <1>1, <3>1, <3>4, RestAppend
    <3> QED
      BY Zenon, <3>1, <3>5
  <2>2. PICK e \in Events : /\ e.client # d
                            /\ \/ Rest' = Rest \/ Rest' = Append(Rest, e)
                               \/ Rest' = Append(Append(Rest, e), e)
    BY Zenon, <2>1
  <2>3. /\ Append(Rest, e) \in Seq(Events)
        /\ Silent(d, Append(Rest, e)) <=> Silent(d, Rest)
        /\ NoClose(d, Append(Rest, e)) <=> NoClose(d, Rest)
        /\ Ordered(heard[d], d, Rest) => Ordered(heard[d], d, Append(Rest, e))
    BY Zenon, <1>0, <2>2, EventAppend
  <2>4. /\ Silent(d, Append(Append(Rest, e), e)) <=> Silent(d, Append(Rest, e))
        /\ NoClose(d, Append(Append(Rest, e), e)) <=> NoClose(d, Append(Rest, e))
        /\ Ordered(heard[d], d, Append(Rest, e)) => Ordered(heard[d], d, Append(Append(Rest, e), e))
    BY Zenon, <2>2, <2>3, EventAppend
  <2> QED
    BY Zenon, <2>2, <2>3, <2>4
<1>6. Ending(d) => Ending(d)'
  BY Zenon, <1>1 DEF Ending
<1> QED
  BY Zenon, <1>1, <1>2, <1>3, <1>4, <1>5, <1>6, Keeps

\* The loop reports the end of a connection of a client in the table: from then
\* on nothing is known of it but what was queued before.
LEMMA LoopCloses ==
    ASSUME TableInv, NEW c \in Clients, ClientInv(c), entry[c] = "live",
           UNCHANGED <<entry, heard, batch, inHook>>,
           \/ events' = Append(events, Event("Close", c))
           \/ events' = events \o <<Event("Close", c), Event("Close", c)>>
    PROVE  ClientInv(c)'
<1> DEFINE e == Event("Close", c)
<1>0. TypeOK /\ MainInv /\ Rest \in Seq(Events)
  BY Zenon, RestType DEF TableInv
<1>1. e \in Events /\ e.client = c
  BY DEF Event, Events, EventTypes
<1>2. Rest' = Append(Rest, e) \/ Rest' = Append(Append(Rest, e), e)
  BY Zenon, <1>0, <1>1, RestAppend
<1>3. /\ Append(Rest, e) \in Seq(Events) /\ ~NoClose(c, Append(Rest, e))
      /\ Ordered(heard[c], c, Rest) => Ordered(heard[c], c, Append(Rest, e))
  BY Zenon, <1>0, <1>1, EventAppend
<1>4. /\ ~NoClose(c, Append(Append(Rest, e), e))
      /\ Ordered(heard[c], c, Append(Rest, e)) => Ordered(heard[c], c, Append(Append(Rest, e), e))
  BY Zenon, <1>1, <1>3, EventAppend
<1>5. Ending(c) => Ending(c)'
  BY Zenon DEF Ending
<1>6. "live" # "none"
  OBVIOUS
<1> HIDE DEF e
<1> QED
  BY Zenon, <1>2, <1>3, <1>4, <1>5, <1>6 DEF ClientInv

\* The loop works for a client nobody has used: it can only be a task that
\* finds nothing to do.
LEMMA LoopUnused ==
    ASSUME TableInv, NEW c \in Clients, LoopOf(c), ClientInv(c), entry[c] = "none"
    PROVE  ClientInv(c)'
<1>0. /\ TypeOK /\ MainInv /\ Unused(c) /\ tasks \in Seq(Tasks)
      /\ tcp \in [Clients -> TcpStates] /\ conn \in [Clients -> ConnStates]
  BY Zenon, Types DEF TableInv, ClientInv
<1>1. UNCHANGED <<entry, heard, batch, inHook>>
  BY Zenon, <1>0, LoopEffects DEF mainVars
<1>2. tcp[c] # "connecting" /\ tcp[c] = "none" /\ conn[c] = "none" /\ conn[c] # "up"
      /\ conn[c] # "upgraded" /\ "connect" \in Starting /\ "resolved" \in Starting
  BY <1>0 DEF Unused, Starting
<1>3. /\ tasks # <<>> /\ tasks' = Tail(tasks) /\ resolving' = resolving /\ timers' = timers
      /\ events' = events
      /\ tcp' = tcp \/ tcp' = [tcp EXCEPT ![c] = "none"]
      /\ conn' = conn \/ conn' = [conn EXCEPT ![c] = "none"]
  <2>1. ~ResolverAnswers(c) /\ ~ConnectEnds(c) /\ ~UpgradeOk(c) /\ ~UpgradeBad(c) /\ ~Message(c)
        /\ ~PeerCloses(c) /\ ~Reconnect(c)
    BY Zenon, <1>0, <1>2 DEF Unused, ResolverAnswers, ConnectEnds, ConnectOk, ConnectError,
         ConnectSilent, UpgradeOk, UpgradeBad, Message, PeerCloses, Reconnect
  <2>2. tasks # <<>> /\ Head(tasks).client = c /\ RunTask
    BY Zenon, <2>1 DEF LoopOf
  <2>3. Head(tasks).do \notin Starting
    BY Zenon, <1>0, <2>2, TaskTail DEF Unused
  <2>4. RunSend \/ RunForceClose
    BY Zenon, <1>2, <2>2, <2>3 DEF RunTask, RunConnect, RunResolved
  <2> QED
    BY Zenon, <1>2, <2>2, <2>4 DEF RunSend, RunForceClose, Released
<1>4. (NoStart(c, tasks) => NoStart(c, tasks')) /\ (OneStart(c, tasks) => OneStart(c, tasks'))
  BY Zenon, <1>0, <1>3, TaskTail
<1>5. Rest' = Rest
  BY Zenon, <1>0, <1>1, <1>3, RestAppend
<1>6. conn'[c] = conn[c] /\ (tcp'[c] = tcp[c] \/ tcp'[c] = "none")
  BY Zenon, <1>0, <1>2, <1>3
<1>7. Ending(c) => Ending(c)'
  BY Zenon, <1>1 DEF Ending
<1> QED
  BY Zenon, <1>1, <1>3, <1>4, <1>5, <1>6, <1>7, Keeps

\* The loop works for a client in the table and reports nothing: a step on the
\* way to the client's first connection, or one after a reported close.
LEMMA LoopConnects ==
    ASSUME TableInv, NEW c \in Clients, ClientInv(c), entry[c] = "live", LoopOf(c),
           events' = events
    PROVE  ClientInv(c)'
<1>0. /\ TypeOK /\ MainInv /\ tasks \in Seq(Tasks)
      /\ tcp \in [Clients -> TcpStates] /\ conn \in [Clients -> ConnStates]
  BY Zenon, Types DEF TableInv
<1>1. UNCHANGED <<entry, heard, batch, inHook>>
  BY Zenon, <1>0, LoopEffects DEF mainVars
<1>2. Rest' = Rest
  BY Zenon, <1>0, <1>1, RestAppend
<1>3. "live" # "none" /\ (Ending(c) => Ending(c)')
  BY Zenon, <1>1 DEF Ending
<1> SUFFICES ASSUME FirstConnection(c) PROVE FirstConnection(c)'
  BY Zenon, <1>1, <1>2, <1>3 DEF ClientInv
<1>4. /\ "connect" \in Starting /\ "resolved" \in Starting
      /\ "none" # "connecting" /\ "idle" # "connecting" /\ "open" # "connecting"
      /\ "up" # "upgraded" /\ "up" # "none"
  BY DEF Starting
<1>5. ASSUME tasks # <<>>, Head(tasks).client = c, Head(tasks).do \in Starting, tasks' = Tail(tasks),
             timers' = timers, conn' = conn,
             \/ resolving' = resolving \union {c} /\ tcp'[c] = "none"
             \/ resolving' = resolving /\ tcp'[c] = "connecting"
      PROVE  FirstConnection(c)'
  <2>1. ~NoStart(c, tasks) /\ NoStart(c, tasks') /\ OneStart(c, tasks')
    BY Zenon, <1>0, <1>5, TaskTail DEF FirstConnection
  <2> QED
    BY Zenon, <1>1, <1>2, <1>4, <1>5, <2>1 DEF FirstConnection
<1>6. ASSUME tasks # <<>>, tasks' = Tail(tasks), UNCHANGED <<timers, resolving>>,
             tcp'[c] = tcp[c], conn'[c] = conn[c]
      PROVE  FirstConnection(c)'
  <2>1. (NoStart(c, tasks) => NoStart(c, tasks')) /\ (OneStart(c, tasks) => OneStart(c, tasks'))
    BY Zenon, <1>0, <1>6, TaskTail
  <2> QED
    BY Zenon, <1>1, <1>2, <1>6, <2>1 DEF FirstConnection
<1>7. /\ events # Append(events, Event("Close", c)) /\ events # Append(events, Event("Open", c))
      /\ events # Append(events, Event("Message", c))
      /\ events # events \o <<Event("Close", c), Event("Close", c)>>
  <2>1. events \in Seq(Events)
    BY Zenon, <1>0, Types
  <2>2. \A y \in EventTypes : Event(y, c) \in Events
    BY DEF Event, Events
  <2>3. \A e \in Events : Len(Append(events, e)) = Len(events) + 1 /\ Len(events) \in Nat
    BY <2>1
  <2>4. \A e \in Events : Len(events \o <<e, e>>) = Len(events) + 2 /\ Len(events) \in Nat
    BY <2>1
  <2>5. \A e \in Events : events # Append(events, e)
    BY <2>3
  <2>6. \A e \in Events : events # events \o <<e, e>>
    BY <2>4
  <2>7. "Open" \in EventTypes /\ "Message" \in EventTypes /\ "Close" \in EventTypes
    BY DEF EventTypes
  <2> QED
    BY Zenon, <2>2, <2>5, <2>6, <2>7
<1>8. CASE tasks # <<>> /\ Head(tasks).client = c /\ RunConnect
  <2>1. /\ Head(tasks).do \in Starting
        /\ \/ Released(c, Tail(tasks), resolving \union {c}, timers, [tcp EXCEPT ![c] = "none"], conn)
           \/ Released(c, Tail(tasks), resolving, timers, [tcp EXCEPT ![c] = "connecting"], conn)
           \/ events' = Append(events, Event("Close", c))
    BY Zenon, <1>4, <1>8 DEF RunConnect, ConnectToServer
  <2>2. /\ tasks' = Tail(tasks) /\ timers' = timers /\ conn' = conn
        /\ \/ resolving' = resolving \union {c} /\ tcp' = [tcp EXCEPT ![c] = "none"]
           \/ resolving' = resolving /\ tcp' = [tcp EXCEPT ![c] = "connecting"]
    BY Zenon, <2>1, <1>7 DEF Released, Held
  <2> QED
    BY Zenon, <1>0, <1>5, <1>8, <2>1, <2>2
<1>9. CASE tasks # <<>> /\ Head(tasks).client = c /\ RunResolved
  <2>1. /\ Head(tasks).do \in Starting
        /\ \/ Released(c, Tail(tasks), resolving, timers, [tcp EXCEPT ![c] = "connecting"], conn)
           \/ events' = Append(events, Event("Close", c))
    BY Zenon, <1>4, <1>9 DEF RunResolved
  <2>2. /\ tasks' = Tail(tasks) /\ timers' = timers /\ conn' = conn
        /\ resolving' = resolving /\ tcp' = [tcp EXCEPT ![c] = "connecting"]
    BY Zenon, <2>1, <1>7 DEF Released, Held
  <2> QED
    BY Zenon, <1>0, <1>5, <1>9, <2>1, <2>2
<1>10. CASE tasks # <<>> /\ (Head(tasks).client = c /\ (RunSend \/ RunForceClose))
  <2>1. /\ tasks' = Tail(tasks) /\ timers' = timers /\ resolving' = resolving /\ tcp' = tcp
        /\ conn' = conn \/ (conn[c] = "none" /\ conn' = [conn EXCEPT ![c] = "none"])
    <3>1. RunSend => UNCHANGED <<timers, resolving, tcp, conn>> /\ tasks' = Tail(tasks)
      BY Zenon, <1>10 DEF RunSend, Released, Held
    <3>2. RunForceClose => conn[c] = "none"
      BY Zenon, <1>7, <1>10 DEF RunForceClose, ConnectionClosed, Closed, Alive, Held
    <3> QED
      BY Zenon, <1>10, <3>1, <3>2 DEF RunForceClose
  <2> QED
    BY Zenon, <1>0, <1>6, <1>10, <2>1
<1>11. CASE ResolverAnswers(c)
  <2>1. /\ c \in resolving /\ resolving' = resolving \ {c} /\ tasks' = Append(tasks, Task("resolved", c))
        /\ UNCHANGED <<tcp, conn, timers>>
    BY Zenon, <1>11 DEF ResolverAnswers
  <2>2. Task("resolved", c) \in Tasks
    BY DEF Task, Tasks
  <2>3. OneStart(c, tasks')
    BY Zenon, <1>0, <2>1, <2>2, TaskAppend DEF FirstConnection
  <2> QED
    BY Zenon, <1>1, <1>2, <2>1, <2>3 DEF FirstConnection
<1>12. CASE ConnectEnds(c)
  <2>1. /\ UNCHANGED <<tasks, resolving, timers>> /\ tcp[c] = "connecting"
        /\ \/ tcp' = [tcp EXCEPT ![c] = "open"] /\ conn' = [conn EXCEPT ![c] = "up"]
           \/ tcp' = [tcp EXCEPT ![c] = "idle"] /\ conn' = conn
    BY Zenon, <1>7, <1>12 DEF ConnectEnds, ConnectOk, ConnectError, ConnectSilent, Closed
  <2>2. tcp'[c] # "connecting" /\ (conn'[c] = "up" \/ conn'[c] = conn[c])
    BY Zenon, <1>0, <1>4, <2>1
  <2>3. conn[c] = "none" /\ heard[c] = "nothing" /\ Silent(c, Rest)
    <3>1. conn[c] = "none"
      BY Zenon, <2>1 DEF FirstConnection
    <3>2. conn[c] # "upgraded"
      BY <3>1
    <3> QED
      BY Zenon, <3>1, <3>2 DEF FirstConnection
  <2>4. NoStart(c, tasks) /\ c \notin resolving
    BY Zenon, <2>1 DEF FirstConnection
  <2>5. conn'[c] # "upgraded"
    BY <2>2, <2>3
  <2> QED
    BY Zenon, <1>1, <1>2, <2>1, <2>2, <2>3, <2>4, <2>5 DEF FirstConnection
<1>13. ~UpgradeOk(c) /\ ~UpgradeBad(c) /\ ~Message(c) /\ ~PeerCloses(c) /\ ~Reconnect(c)
  BY Zenon, <1>7 DEF UpgradeOk, UpgradeBad, Message, PeerCloses, Reconnect, ConnectionClosed, Closed,
       Alive, Held, FirstConnection
<1> QED
  BY Zenon, <1>8, <1>9, <1>10, <1>11, <1>12, <1>13 DEF LoopOf, RunTask

\* The loop reports an open connection or a message of a client in the table.
LEMMA LoopSpeaks ==
    ASSUME TableInv, NEW c \in Clients, ClientInv(c), entry[c] = "live", UpgradeOk(c) \/ Message(c)
    PROVE  ClientInv(c)'
<1>0. TypeOK /\ MainInv /\ Rest \in Seq(Events) /\ conn \in [Clients -> ConnStates]
  BY Zenon, RestType, Types DEF TableInv
<1>1. UNCHANGED <<entry, heard, batch, inHook, timers, tasks, resolving, tcp>>
  BY Zenon DEF UpgradeOk, Message, mainVars, tableVars, implVars
<1>2. Ending(c) => Ending(c)'
  BY Zenon, <1>1 DEF Ending
<1>3. PICK e \in Events : /\ e.client = c /\ e # Event("Close", c) /\ Rest' = Append(Rest, e)
                          /\ \/ e = Event("Open", c) /\ UpgradeOk(c)
                             \/ e = Event("Message", c) /\ Message(c)
  <2>1. \A y \in {"Open", "Message"} : /\ Event(y, c) \in Events /\ Event(y, c).client = c
                                       /\ Event(y, c) # Event("Close", c)
    BY DEF Event, Events, EventTypes
  <2>2. CASE UpgradeOk(c)
    <3>1. events' = Append(events, Event("Open", c))
      BY Zenon, <2>2 DEF UpgradeOk
    <3>2. Rest' = Append(Rest, Event("Open", c))
      BY Zenon, <1>0, <1>1, <2>1, <3>1, RestAppend
    <3> QED
      BY Zenon, <2>1, <2>2, <3>2
  <2>3. CASE Message(c)
    <3>1. events' = Append(events, Event("Message", c))
      BY Zenon, <2>3 DEF Message
    <3>2. Rest' = Append(Rest, Event("Message", c))
      BY Zenon, <1>0, <1>1, <2>1, <3>1, RestAppend
    <3> QED
      BY Zenon, <2>1, <2>3, <3>2
  <2> QED
    BY Zenon, <2>2, <2>3
<1>4. ~Silent(c, Rest') /\ (NoClose(c, Rest') <=> NoClose(c, Rest))
  BY Zenon, <1>0, <1>3, EventAppend
<1>5. conn[c] # "none" /\ conn'[c] = "upgraded"
  <2>1. \/ conn[c] = "up" /\ conn' = [conn EXCEPT ![c] = "upgraded"]
        \/ conn[c] = "upgraded" /\ conn' = conn
    BY Zenon DEF UpgradeOk, Message, implVars
  <2> QED
    BY <1>0, <2>1
<1>6. ASSUME heard[c] # "Close", Ordered(heard[c], c, Rest), NoClose(c, Rest) => FirstConnection(c)
      PROVE  Ordered(heard[c], c, Rest') /\ (NoClose(c, Rest') => FirstConnection(c)')
  <2>1. (UpgradeOk(c) /\ NoClose(c, Rest)) => heard[c] = "nothing" /\ Silent(c, Rest)
    <3>1. UpgradeOk(c) => conn[c] # "upgraded"
      BY DEF UpgradeOk
    <3> QED
      BY Zenon, <1>6, <3>1 DEF FirstConnection
  <2>2. (Message(c) /\ NoClose(c, Rest)) => heard[c] # "nothing" \/ ~Silent(c, Rest)
    BY Zenon, <1>6 DEF Message, FirstConnection
  <2>3. Ordered(heard[c], c, Rest')
    BY Zenon, <1>0, <1>3, <1>6, <2>1, <2>2, EventAppend
  <2>4. NoClose(c, Rest') => FirstConnection(c)'
    BY Zenon, <1>1, <1>4, <1>5, <1>6 DEF FirstConnection
  <2> QED
    BY Zenon, <2>3, <2>4
<1>7. "live" # "none"
  OBVIOUS
<1> QED
  BY Zenon, <1>1, <1>2, <1>6, <1>7 DEF ClientInv

\* The loop works for this client.
LEMMA LoopOwn ==
    ASSUME TableInv, NEW c \in Clients, LoopOf(c), ClientInv(c)
    PROVE  ClientInv(c)'
<1>0. TypeOK /\ entry \in [Clients -> {"none", "live", "gone"}]
  BY Zenon, Types DEF TableInv
<1>1. UNCHANGED <<entry, heard, batch, inHook>>
  BY Zenon, <1>0, LoopEffects DEF mainVars
<1>2. CASE entry[c] = "none"
  BY Zenon, <1>2, LoopUnused
<1>3. CASE entry[c] = "gone"
  <2>1. "gone" # "none" /\ "gone" # "live"
    OBVIOUS
  <2> QED
    BY Zenon, <1>1, <1>3, <2>1 DEF ClientInv
<1>4. CASE entry[c] = "live"
  <2>1. \/ UpgradeOk(c) \/ Message(c) \/ events' = events
        \/ events' = Append(events, Event("Close", c))
        \/ events' = events \o <<Event("Close", c), Event("Close", c)>>
    BY Zenon DEF LoopOf, RunTask, RunConnect, RunResolved, RunSend, RunForceClose, ResolverAnswers,
       ConnectEnds, ConnectOk, ConnectError, ConnectSilent, UpgradeBad, PeerCloses, Reconnect,
       ConnectToServer, ConnectionClosed, Closed
  <2>2. CASE UpgradeOk(c) \/ Message(c)
    BY Zenon, <1>4, <2>2, LoopSpeaks
  <2>3. CASE events' = events
    BY Zenon, <1>4, <2>3, LoopConnects
  <2>4. CASE \/ events' = Append(events, Event("Close", c))
             \/ events' = events \o <<Event("Close", c), Event("Close", c)>>
    BY Zenon, <1>1, <1>4, <2>4, LoopCloses
  <2> QED
    BY Zenon, <2>1, <2>2, <2>3, <2>4
<1> QED
  BY Zenon, <1>0, <1>2, <1>3, <1>4

\* R calls in, or a resolver thread answers a destroyed loop.
LEMMA CallClients ==
    ASSUME TableInv, NEW c \in Clients, NEW d \in Clients, ClientInv(d),
           \/ Connect(c) \/ ClientSend(c) \/ ClientClose(c) \/ ShutdownStop(c)
           \/ ResolverAnswersLate(c) \/ Shutdown \/ UNCHANGED vars
    PROVE  ClientInv(d)'
<1>0. TypeOK /\ MainInv /\ tasks \in Seq(Tasks) /\ entry \in [Clients -> {"none", "live", "gone"}]
  BY Zenon, Types DEF TableInv
<1>1. UNCHANGED <<events, batch, inHook, heard, tcp, conn, timers, resolving>>
  BY Zenon DEF Connect, ClientSend, ClientClose, ShutdownStop, StopConnection, ResolverAnswersLate,
       Shutdown, vars, implVars, mainVars
<1>2. Rest' = Rest
  BY Zenon, <1>0, <1>1, RestAppend
<1>3. Ending(d) => Ending(d)'
  BY Zenon, <1>1 DEF Ending
<1>4. ASSUME entry'[d] = entry[d],
             (NoStart(d, tasks) => NoStart(d, tasks')) /\ (OneStart(d, tasks) => OneStart(d, tasks'))
      PROVE  ClientInv(d)'
  BY Zenon, <1>1, <1>2, <1>3, <1>4, Keeps
<1>5. CASE Connect(c)
  <2>1. /\ entry[c] = "none" /\ entry' = [entry EXCEPT ![c] = "live"]
        /\ tasks' = Append(tasks, Task("connect", c))
    BY Zenon, <1>5 DEF Connect
  <2>2. Task("connect", c) \in Tasks /\ Task("connect", c).client = c
    BY DEF Task, Tasks
  <2>3. CASE d # c
    <3>1. (NoStart(d, tasks) => NoStart(d, tasks')) /\ (OneStart(d, tasks) => OneStart(d, tasks'))
      BY Zenon, <1>0, <2>1, <2>2, <2>3, TaskAppend
    <3> QED
      BY Zenon, <1>0, <1>4, <2>1, <2>3, <3>1
  <2>4. CASE d = c
    <3>1. Unused(c) /\ entry'[c] = "live"
      BY Zenon, <1>0, <2>1, <2>4 DEF ClientInv
    <3>2. OneStart(c, tasks')
      BY Zenon, <1>0, <2>1, <2>2, <3>1, TaskAppend DEF Unused
    <3>3. /\ tcp'[c] # "connecting" /\ conn'[c] = "none" /\ conn'[c] # "upgraded"
          /\ heard'[c] = "nothing" /\ heard'[c] # "Close" /\ "live" # "none"
      BY <1>1, <3>1 DEF Unused
    <3>4. Ordered(heard'[c], c, Rest')
      BY Zenon, <1>2, <3>1 DEF Ordered, Silent, Unused
    <3>5. FirstConnection(c)'
      BY Zenon, <1>1, <1>2, <3>1, <3>2, <3>3 DEF FirstConnection, Unused
    <3> QED
      BY Zenon, <2>4, <3>1, <3>3, <3>4, <3>5 DEF ClientInv
  <2> QED
    BY Zenon, <2>3, <2>4
<1>6. CASE ClientSend(c)
  <2>1. entry' = entry /\ tasks' = Append(tasks, Task("send", c))
    BY Zenon, <1>6 DEF ClientSend, tableVars
  <2>2. Task("send", c) \in Tasks /\ Task("send", c).do \notin Starting
    BY DEF Task, Tasks, Starting
  <2>3. (NoStart(d, tasks) => NoStart(d, tasks')) /\ (OneStart(d, tasks) => OneStart(d, tasks'))
    BY Zenon, <1>0, <2>1, <2>2, TaskAppend
  <2> QED
    BY Zenon, <1>4, <2>1, <2>3
<1>7. CASE \/ ClientClose(c) \/ ShutdownStop(c) \/ ResolverAnswersLate(c) \/ Shutdown
           \/ UNCHANGED vars
  <2>1. entry' = entry /\ tasks' = tasks
    BY Zenon, <1>7 DEF ClientClose, ShutdownStop, StopConnection, ResolverAnswersLate,
       Shutdown, vars, implVars, tableVars
  <2> QED
    BY Zenon, <1>4, <2>1
<1> QED
  BY Zenon, <1>5, <1>6, <1>7

\* The main thread stops a client, or has joined the loop.
LEMMA StopClients ==
    ASSUME TableInv, NEW d \in Clients, ClientInv(d), StopTcp \/ ShutdownJoin
    PROVE  ClientInv(d)'
<1>0. /\ TypeOK /\ MainInv /\ tasks \in Seq(Tasks) /\ entry \in [Clients -> {"none", "live", "gone"}]
      /\ tcp \in [Clients -> TcpStates] /\ events \in Seq(Events) /\ batch \in Seq(Events)
      /\ inStop \in Clients \union {NoClient}
  BY Zenon, Types DEF TableInv
<1>1. CASE StopTcp
  <2>1. /\ UNCHANGED <<entry, events, batch, inHook, heard, conn, timers, resolving>>
        /\ inStop # NoClient /\ tcp' = [tcp EXCEPT ![inStop] = "none"]
        /\ tasks' = tasks \/ tasks' = Append(tasks, Task("forceClose", inStop))
    BY Zenon, <1>1 DEF StopTcp, TcpClientGone, tableVars
  <2>2. inStop \in Clients /\ tcp'[d] \in {tcp[d], "none"}
    BY Zenon, <1>0, <2>1
  <2>3. Task("forceClose", inStop) \in Tasks /\ Task("forceClose", inStop).do \notin Starting
    BY <2>2 DEF Task, Tasks, Starting
  <2>4. (NoStart(d, tasks) => NoStart(d, tasks')) /\ (OneStart(d, tasks) => OneStart(d, tasks'))
    BY Zenon, <1>0, <2>1, <2>3, TaskAppend
  <2>5. Rest' = Rest /\ (Ending(d) => Ending(d)')
    BY Zenon, <1>0, <2>1, RestAppend DEF Ending
  <2> QED
    BY Zenon, <2>1, <2>2, <2>4, <2>5, Keeps
<1>2. CASE ShutdownJoin
  <2>1. /\ UNCHANGED <<batch, inHook, heard>>
        /\ tasks' = <<>> /\ timers' = {} /\ resolving' = {} /\ events' = <<>>
        /\ tcp' = [c \in Clients |-> "none"] /\ conn' = [c \in Clients |-> "none"]
        /\ entry' = [c \in Clients |-> IF entry[c] = "live" THEN "gone" ELSE entry[c]]
    BY Zenon, <1>2 DEF ShutdownJoin, Cleared
  <2>2. entry'[d] # "live" /\ (entry'[d] = "none" => entry[d] = "none")
    BY <1>0, <2>1
  <2>3. ASSUME Unused(d) PROVE Unused(d)'
    <3>1. Silent(d, Rest')
      <4> DEFINE p == IF inHook THEN Tail(batch) ELSE batch
      <4>1. Rest = p \o events /\ Rest' = p \o <<>>
        BY Zenon, <2>1 DEF Rest
      <4>2. p \in Seq(Events)
        BY <1>0 DEF MainInv
      <4> HIDE DEF p
      <4>3. p \o <<>> = p
        BY <4>2
      <4>4. \A i \in 1..Len(p) : i \in 1..Len(p \o events) /\ (p \o events)[i] = p[i]
        BY <1>0, <4>2
      <4> QED
        BY Zenon, <2>3, <4>1, <4>3, <4>4 DEF Unused, Silent
    <3>2. NoStart(d, tasks')
      BY <2>1 DEF NoStart
    <3>3. tcp'[d] = "none" /\ conn'[d] = "none" /\ d \notin timers' /\ d \notin resolving'
      BY Zenon, <2>1
    <3> QED
      BY Zenon, <2>1, <2>3, <3>1, <3>2, <3>3 DEF Unused
  <2> QED
    BY Zenon, <2>2, <2>3 DEF ClientInv
<1> QED
  BY Zenon, <1>1, <1>2

\* The pump swaps the queue, skips an event or calls a hook.
LEMMA PumpClients ==
    ASSUME TableInv, NEW d \in Clients, ClientInv(d), Drain \/ SkipEvent \/ CallHook
    PROVE  ClientInv(d)'
<1>0. /\ TypeOK /\ MainInv /\ Rest \in Seq(Events) /\ batch \in Seq(Events)
      /\ heard \in [Clients -> {"nothing", "Open", "Message", "Close"}]
      /\ entry \in [Clients -> {"none", "live", "gone"}]
  BY Zenon, Types, RestType DEF TableInv
<1>1. UNCHANGED <<entry, tcp, conn, timers, resolving, tasks>>
  BY Zenon DEF Drain, SkipEvent, CallHook, tableVars, implVars
<1>2. CASE Drain
  <2>1. batch = <<>> /\ heard' = heard /\ Rest' = Rest
    BY Zenon, <1>0, <1>2, RestPump DEF Drain
  <2>2. ~Ending(d)
    BY Zenon, <1>0, <2>1 DEF Ending, MainInv
  <2> QED
    BY Zenon, <1>1, <2>1, <2>2, Keeps
<1>3. CASE SkipEvent
  <2>1. heard' = heard /\ entry[Head(batch).client] # "live" /\ ~inHook
    BY Zenon, <1>3 DEF SkipEvent, Pumping
  <2>2. Rest # <<>> /\ Rest[1] = Head(batch) /\ Rest' = Tail(Rest)
    BY Zenon, <1>0, <1>3, RestPump
  <2>3. ~Ending(d)
    BY Zenon, <2>1 DEF Ending
  <2>4. CASE Head(batch).client # d
    <3>1. /\ Silent(d, Tail(Rest)) <=> Silent(d, Rest)
          /\ NoClose(d, Tail(Rest)) <=> NoClose(d, Rest)
          /\ Ordered(heard[d], d, Rest) => Ordered(heard[d], d, Tail(Rest))
      BY Zenon, <1>0, <2>2, <2>4, EventTail
    <3> QED
      BY Zenon, <1>1, <2>1, <2>2, <2>3, <3>1, Keeps
  <2>5. CASE Head(batch).client = d
    <3>1. Silent(d, Rest) => Rest[1].client # d
      BY Zenon, <1>0, <2>2, EventTail
    <3>2. entry[d] # "none"
      BY Zenon, <2>2, <2>5, <3>1 DEF ClientInv, Unused
    <3> QED
      BY Zenon, <1>1, <2>1, <2>5, <3>2 DEF ClientInv
  <2> QED
    BY Zenon, <2>4, <2>5
<1>4. CASE CallHook
  <2>1. /\ inHook' /\ ~inHook /\ batch' = batch /\ batch # <<>> /\ entry[Head(batch).client] = "live"
        /\ heard' = [heard EXCEPT ![Head(batch).client] = Head(batch).type]
    BY Zenon, <1>4 DEF CallHook, Pumping
  <2>2. Rest # <<>> /\ Rest[1] = Head(batch) /\ Rest' = Tail(Rest)
    BY Zenon, <1>0, <1>4, RestPump
  <2>3. ~Ending(d)
    BY Zenon, <2>1 DEF Ending
  <2>4. CASE Head(batch).client # d
    <3>1. /\ Silent(d, Tail(Rest)) <=> Silent(d, Rest)
          /\ NoClose(d, Tail(Rest)) <=> NoClose(d, Rest)
          /\ Ordered(heard[d], d, Rest) => Ordered(heard[d], d, Tail(Rest))
      BY Zenon, <1>0, <2>2, <2>4, EventTail
    <3>2. heard'[d] = heard[d]
      BY Zenon, <1>0, <2>1, <2>4
    <3> QED
      BY Zenon, <1>1, <2>2, <2>3, <3>1, <3>2, Keeps
  <2>5. CASE Head(batch).client = d
    <3>0. Head(batch) \in Events
      BY <1>0, <2>1
    <3>1. heard'[d] = Head(batch).type /\ entry'[d] = "live" /\ "live" # "none"
      BY Zenon, <1>0, <1>1, <2>1, <2>5
    <3>2. heard[d] # "Close" /\ Ordered(heard[d], d, Rest) /\ (NoClose(d, Rest) => FirstConnection(d))
      BY Zenon, <2>1, <2>3, <2>5 DEF ClientInv
    <3>3. CASE Head(batch).type = "Close"
      <4>1. Head(batch) = Event("Close", d)
        BY <2>5, <3>0, <3>3 DEF Event, Events
      <4>2. Ending(d)'
        BY Zenon, <2>1, <3>1, <3>3, <4>1 DEF Ending
      <4> QED
        BY Zenon, <3>1, <4>2 DEF ClientInv
    <3>4. CASE Head(batch).type # "Close"
      <4>1. heard'[d] # "nothing"
        BY <3>0, <3>1 DEF Events, EventTypes
      <4>2. /\ NoClose(d, Tail(Rest)) <=> NoClose(d, Rest)
            /\ Ordered(heard'[d], d, Tail(Rest))
        <5>1. Rest[1].client = d /\ Rest[1].type # "Close"
          BY Zenon, <2>2, <2>5, <3>4
        <5>2. NoClose(d, Tail(Rest)) <=> NoClose(d, Rest)
          BY Zenon, <1>0, <2>2, <5>1, EventTail
        <5>3. \A k : k # "nothing" => Ordered(k, d, Tail(Rest))
          BY Zenon, <1>0, <2>2, <3>2, <5>1, EventTail
        <5> QED
          BY Zenon, <4>1, <5>2, <5>3
      <4>3. ~Silent(d, Rest)
        BY Zenon, <1>0, <2>2, <2>5, EventTail
      <4>4. FirstConnection(d) => FirstConnection(d)'
        BY Zenon, <1>1, <4>1, <4>3 DEF FirstConnection
      <4> QED
        BY Zenon, <2>2, <3>1, <3>2, <3>4, <4>1, <4>2, <4>4 DEF ClientInv
    <3> QED
      BY Zenon, <3>3, <3>4
  <2> QED
    BY Zenon, <2>4, <2>5
<1> QED
  BY Zenon, <1>2, <1>3, <1>4

\* A hook returns: its client has left the table if it was on_close.
LEMMA HookClients ==
    ASSUME TableInv, NEW d \in Clients, ClientInv(d), HookDone
    PROVE  ClientInv(d)'
<1>0. /\ TypeOK /\ MainInv /\ tasks \in Seq(Tasks) /\ batch \in Seq(Events)
      /\ entry \in [Clients -> {"none", "live", "gone"}] /\ tcp \in [Clients -> TcpStates]
  BY Zenon, Types DEF TableInv
<1>1. /\ UNCHANGED <<conn, resolving, timers, heard>> /\ inHook /\ Rest' = Rest
      /\ ~Erases(Head(batch)) => UNCHANGED <<entry, tasks, tcp>>
      /\ Erases(Head(batch)) =>
           /\ entry' = [entry EXCEPT ![Head(batch).client] = "gone"]
           /\ tasks' = tasks \/ tasks' = Append(tasks, Task("forceClose", Head(batch).client))
           /\ tcp' = tcp \/ tcp' = [tcp EXCEPT ![Head(batch).client] = "none"]
  BY Zenon, <1>0, HookEffects, RestPump
<1>2. Head(batch) \in Events /\ Head(batch).client \in Clients
  <2>1. batch # <<>>
    BY Zenon, <1>0, <1>1 DEF MainInv
  <2>2. Head(batch) \in Events
    BY <1>0, <2>1
  <2> QED
    BY Zenon, <2>2 DEF Events
<1>3. CASE Erases(Head(batch)) /\ Head(batch).client = d
  <2>1. entry'[d] = "gone"
    BY Zenon, <1>0, <1>1, <1>3
  <2>2. "gone" # "none" /\ "gone" # "live"
    OBVIOUS
  <2> QED
    BY Zenon, <2>1, <2>2 DEF ClientInv
<1>4. CASE ~(Erases(Head(batch)) /\ Head(batch).client = d)
  <2>1. entry'[d] = entry[d] /\ tcp'[d] = tcp[d]
    BY Zenon, <1>0, <1>1, <1>2, <1>4
  <2>2. /\ Task("forceClose", Head(batch).client) \in Tasks
        /\ Task("forceClose", Head(batch).client).do \notin Starting
    BY <1>2 DEF Task, Tasks, Starting
  <2>3. tasks' = tasks \/ tasks' = Append(tasks, Task("forceClose", Head(batch).client))
    BY Zenon, <1>1
  <2>4. (NoStart(d, tasks) => NoStart(d, tasks')) /\ (OneStart(d, tasks) => OneStart(d, tasks'))
    BY Zenon, <1>0, <2>2, <2>3, TaskAppend
  <2>5. CASE Ending(d) /\ entry[d] = "live"
    <3>1. Head(batch).type = "Close" /\ Head(batch).client = d
      <4>1. Head(batch) = Event("Close", d)
        BY Zenon, <2>5 DEF Ending
      <4>2. Event("Close", d).type = "Close" /\ Event("Close", d).client = d
        BY DEF Event
      <4> QED
        BY Zenon, <4>1, <4>2
    <3> QED
      BY Zenon, <1>4, <2>5, <3>1 DEF Erases
  <2>6. CASE ~Ending(d)
    BY Zenon, <1>1, <2>1, <2>4, <2>6, Keeps
  <2>7. CASE Ending(d) /\ entry[d] # "live"
    <3>1. heard[d] # "nothing"
      BY <2>7 DEF Ending
    <3>2. entry[d] # "none"
      BY Zenon, <3>1 DEF ClientInv, Unused
    <3> QED
      BY Zenon, <2>1, <2>7, <3>2 DEF ClientInv
  <2> QED
    BY Zenon, <2>5, <2>6, <2>7
<1> QED
  BY Zenon, <1>3, <1>4

LEMMA ClientsInit == ASSUME Init PROVE AllClients
<1> SUFFICES ASSUME NEW c \in Clients PROVE ClientInv(c)
  BY Zenon DEF AllClients
<1>1. /\ entry[c] = "none" /\ heard[c] = "nothing" /\ tcp[c] = "none" /\ conn[c] = "none"
      /\ tasks = <<>> /\ c \notin resolving /\ c \notin timers
      /\ ~inHook /\ batch = <<>> /\ events = <<>>
  BY Zenon DEF Init
<1>2. Rest = <<>> \o <<>>
  BY Zenon, <1>1 DEF Rest
<1>3. Silent(c, Rest) /\ NoStart(c, tasks) /\ entry[c] # "live"
  BY <1>1, <1>2 DEF Silent, NoStart
<1> QED
  BY Zenon, <1>1, <1>3 DEF ClientInv, Unused

LEMMA ClientsStep == ASSUME TableInv, AllClients, [Next]_vars PROVE AllClients'
<1> SUFFICES ASSUME NEW d \in Clients PROVE ClientInv(d)'
  BY Zenon DEF AllClients
<1>1. ClientInv(d) /\ TypeOK
  BY Zenon DEF AllClients, TableInv
<1>2. ASSUME NEW c \in Clients, LoopOf(c) PROVE ClientInv(d)'
  BY Zenon, <1>1, <1>2, LoopOwn, LoopOther
<1>3. ASSUME NEW c \in Clients,
             \/ Connect(c) \/ ClientSend(c) \/ ClientClose(c) \/ ShutdownStop(c)
             \/ ResolverAnswersLate(c) \/ Shutdown \/ UNCHANGED vars
      PROVE  ClientInv(d)'
  BY Zenon, <1>1, <1>3, CallClients
<1>4. CASE StopTcp \/ ShutdownJoin
  BY Zenon, <1>1, <1>4, StopClients
<1>5. CASE Drain \/ SkipEvent \/ CallHook
  BY Zenon, <1>1, <1>5, PumpClients
<1>6. CASE HookDone
  BY Zenon, <1>1, <1>6, HookClients
<1> QED
  BY Zenon, <1>1, <1>2, <1>3, <1>4, <1>5, <1>6, StepKinds

\* The hook the pump calls continues what its client has heard.
LEMMA HookInOrder ==
    ASSUME TableInv, AllClients, [Next]_vars, ~inHook, inHook'
    PROVE  <<heard[Head(batch).client], Head(batch).type>> \in
             {<<"nothing", "Open">>, <<"nothing", "Close">>, <<"Open", "Message">>,
              <<"Open", "Close">>, <<"Message", "Message">>, <<"Message", "Close">>}
<1>0. TypeOK /\ MainInv /\ Rest \in Seq(Events) /\ batch \in Seq(Events)
      /\ heard \in [Clients -> {"nothing", "Open", "Message", "Close"}]
  BY Zenon, Types, RestType DEF TableInv
<1>1. CallHook
  <2>1. \A c \in Clients : LoopOf(c) => inHook' = inHook
    BY Zenon, <1>0, LoopEffects DEF mainVars
  <2>2. \A c \in Clients : ResolverAnswersLate(c) \/ ShutdownStop(c)
                \/ Connect(c) \/ ClientSend(c) \/ ClientClose(c) => inHook' = inHook
    BY Zenon DEF Connect, ClientSend, ClientClose, ShutdownStop, StopConnection, ResolverAnswersLate,
         mainVars
  <2>3. Shutdown \/ StopTcp \/ ShutdownJoin \/ Drain \/ SkipEvent \/ UNCHANGED vars => inHook' = inHook
    BY Zenon DEF Shutdown, StopTcp, ShutdownJoin, Drain, SkipEvent, vars, mainVars
  <2>4. ~HookDone
    BY Zenon DEF HookDone
  <2> QED
    BY Zenon, <1>0, <2>1, <2>2, <2>3, <2>4, StepKinds
<1> DEFINE c == Head(batch).client
<1>2. batch # <<>> /\ entry[c] = "live"
  BY Zenon, <1>1 DEF CallHook, Pumping
<1>3. Head(batch) \in Events
  BY <1>0, <1>2
<1>4. c \in Clients /\ Head(batch).type \in EventTypes
  BY Zenon, <1>3 DEF Events
<1>5. heard[c] # "Close" /\ Ordered(heard[c], c, Rest)
  BY Zenon, <1>2, <1>4 DEF AllClients, ClientInv, Ending
<1>6. Rest # <<>> /\ Rest[1] = Head(batch)
  BY Zenon, <1>0, <1>1, RestPump
<1>7. 1 \in 1..Len(Rest) /\ 1..(1 - 1) = {}
  BY <1>0, <1>6
<1>8. /\ Head(batch).type = "Open" => heard[c] = "nothing"
      /\ Head(batch).type = "Message" => heard[c] # "nothing"
  BY Zenon, <1>5, <1>6, <1>7 DEF Ordered
<1>9. heard[c] \in {"nothing", "Open", "Message", "Close"}
  BY Zenon, <1>0, <1>4
<1> HIDE DEF c
<1>10. <<heard[c], Head(batch).type>> \in
             {<<"nothing", "Open">>, <<"nothing", "Close">>, <<"Open", "Message">>,
              <<"Open", "Close">>, <<"Message", "Message">>, <<"Message", "Close">>}
  BY <1>4, <1>5, <1>8, <1>9 DEF EventTypes
<1> QED
  BY Zenon, <1>10 DEF c
-----------------------------------------------------------------------------
LEMMA ClientsKept == ASSUME WsClientAssumption PROVE Spec => [](TableInv /\ AllClients)
<1>1. Init => TableInv /\ AllClients
  BY Zenon, TableInit, ClientsInit
<1>2. TableInv /\ AllClients /\ [Next]_vars => (TableInv /\ AllClients)'
  BY Zenon, TableStep, ClientsStep
<1> QED
  BY <1>1, <1>2, PTL DEF Spec

\* For any clients and any bound, every variable of the outgoing connections
\* keeps its type: in particular R_ReleaseObject() is never called once more
\* than R_PreserveObject().
THEOREM ClientTypeCorrect == ASSUME WsClientAssumption PROVE Spec => []TypeOK
<1>1. TableInv => TypeOK
  BY Zenon DEF TableInv
<1> QED
  BY <1>1, ClientsKept, PTL

\* R hooks are preserved exactly while their client is in the table, whichever
\* of a Close event and dr_ws_shutdown() ends it, also when dr_ws_shutdown() is
\* called from the on_close hook; and after it, until the next connect, no client,
\* task, timer or event comes back.  Name lookups in progress are not covered:
\* they outlive the loop and use it (NeverOnStoppedLoop is false).
THEOREM ClientsAreSound == ASSUME WsClientAssumption PROVE Spec => []ClientSound
<1>1. TableInv => ClientSound
  BY Zenon DEF TableInv, QuietLoop, ClientSound
<1> QED
  BY <1>1, ClientsKept, PTL

\* The hooks of every dr_ws_connect() come in order, although the client object
\* reconnects by itself and a stopped connection may still report: on_open at
\* most once and first, then messages, on_close once and last.
THEOREM HooksComeInOrder == ASSUME WsClientAssumption PROVE Spec => HeardInOrder
<1>1. TableInv /\ AllClients /\ [Next]_vars =>
        [~inHook /\ inHook' =>
          <<heard[Head(batch).client], Head(batch).type>> \in
             {<<"nothing", "Open">>, <<"nothing", "Close">>, <<"Open", "Message">>,
              <<"Open", "Close">>, <<"Message", "Message">>, <<"Message", "Close">>}]_vars
  BY Zenon, HookInOrder
<1> QED
  BY <1>1, ClientsKept, PTL DEF Spec, HeardInOrder
=============================================================================
