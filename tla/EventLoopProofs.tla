-------------------------- MODULE EventLoopProofs --------------------------
(***************************************************************************)
(* Proofs about EventLoop, for any threads that queue functions and any    *)
(* number of functions: the loop calls what was queued in order, sleeps    *)
(* through no wakeup, and sees its owner's quit().                         *)
(***************************************************************************)
EXTENDS EventLoop, TLAPS

FuncIds == (Producers \X Nat) \union {Ready} \union ({"nested"} \X Producers)
Nodes == [f : FuncIds, linked : BOOLEAN]

\* loop() has begun, so that quitFlag is not reset any more.
Begun == lpc \in {"check", "poll", "handle", "drain", "onQuit", "exit", "done"}

Calls(q) == [k \in DOMAIN q |-> q[k].f]

\* The queue.
QueueInv ==
  /\ funcs \in Seq(Nodes) /\ order \in Seq(FuncIds) /\ ran \in Seq(FuncIds)
  /\ order = ran \o Calls(funcs)
  /\ lpc = "create" => funcs = <<>> /\ ran = <<>> /\ order = <<>>

\* Whoever makes a function reachable for a loop that does not look at its queue
\* has written the eventfd, or is about to.
WakeInv ==
  lpc \in {"waitRun", "begin", "check", "poll"} /\ ~Empty =>
    wakefd \/ \E p \in Producers : ppc[p] = "linked"

\* The owner and the loop: run() has waited for the loop before the destructor
\* can call quit(), and from then on the flag stays and the loop cannot sleep.
OwnerInv ==
  /\ opc # "constructing" => lpc # "create"
  /\ loopPtr => lpc \notin {"create", "done"}
  /\ ~loopPtr => lpc \in {"create", "done"}
  /\ goLoop => Begun
  /\ opc \in {"running", "wake", "join", "joined"} => goLoop
  /\ opc \in {"wake", "join"} => quitFlag \/ lpc = "done"
  /\ opc = "join" /\ lpc = "poll" => wakefd

LoopInv == ELTypeOK /\ QueueInv /\ WakeInv /\ OwnerInv
-----------------------------------------------------------------------------
(* The queue of functions.                                                 *)

LEMMA CallsType == ASSUME NEW q \in Seq(Nodes) PROVE Calls(q) \in Seq(FuncIds) /\ Len(Calls(q)) = Len(q)
<1>1. DOMAIN q = 1..Len(q) /\ Len(q) \in Nat /\ \A k \in 1..Len(q) : q[k] \in Nodes
  OBVIOUS
<1>2. \A k \in 1..Len(q) : q[k].f \in FuncIds
  BY Zenon, <1>1 DEF Nodes
<1> QED
  BY <1>1, <1>2 DEF Calls

LEMMA SameSeq ==
  ASSUME NEW s \in Seq(FuncIds), NEW t \in Seq(FuncIds), Len(s) = Len(t),
         \A k \in 1..Len(s) : s[k] = t[k]
  PROVE  s = t
OBVIOUS

LEMMA LinkedType == ASSUME NEW q \in Seq(Nodes) PROVE \A k \in DOMAIN q : q[k].linked \in BOOLEAN
<1>1. \A k \in DOMAIN q : q[k] \in Nodes
  OBVIOUS
<1> QED
  BY Zenon, <1>1 DEF Nodes

\* A function takes its place behind the others.
LEMMA CallsAppend ==
  ASSUME NEW q \in Seq(Nodes), NEW n \in Nodes PROVE Calls(Append(q, n)) = Append(Calls(q), n.f)
<1>1. Append(q, n) \in Seq(Nodes) /\ n.f \in FuncIds
  <2>1. n.f \in FuncIds
    BY Zenon DEF Nodes
  <2> QED
    BY <2>1
<1>2. /\ Calls(q) \in Seq(FuncIds) /\ Len(Calls(q)) = Len(q)
      /\ Calls(Append(q, n)) \in Seq(FuncIds) /\ Len(Calls(Append(q, n))) = Len(Append(q, n))
  BY Zenon, <1>1, CallsType
<1>3. \A k \in 1..Len(q) + 1 : Calls(Append(q, n))[k] = Append(Calls(q), n.f)[k]
  <2> SUFFICES ASSUME NEW k \in 1..Len(q) + 1 PROVE Calls(Append(q, n))[k] = Append(Calls(q), n.f)[k]
    OBVIOUS
  <2>1. Calls(Append(q, n))[k] = Append(q, n)[k].f
    BY <1>1 DEF Calls
  <2>2. CASE k = Len(q) + 1
    BY <1>1, <1>2, <2>1, <2>2
  <2>3. CASE k \in 1..Len(q)
    <3>1. Append(q, n)[k] = q[k] /\ Append(Calls(q), n.f)[k] = Calls(q)[k]
      BY <1>1, <1>2, <2>3
    <3>2. Calls(q)[k] = q[k].f
      BY <2>3 DEF Calls
    <3> QED
      BY Zenon, <2>1, <3>1, <3>2
  <2>4. Len(q) \in Nat /\ (k = Len(q) + 1 \/ k \in 1..Len(q))
    OBVIOUS
  <2> QED
    BY Zenon, <2>2, <2>3, <2>4
<1> HIDE DEF Calls
<1> QED
  BY <1>1, <1>2, <1>3

\* The oldest function is taken out.
LEMMA CallsTail ==
  ASSUME NEW q \in Seq(Nodes), q # <<>>
  PROVE  /\ Tail(q) \in Seq(Nodes) /\ Head(q) \in Nodes /\ Head(q).f \in FuncIds
         /\ Calls(Tail(q)) = Tail(Calls(q)) /\ Head(Calls(q)) = Head(q).f /\ Calls(q) # <<>>
<1>1. Tail(q) \in Seq(Nodes) /\ Head(q) \in Nodes /\ Len(Tail(q)) = Len(q) - 1 /\ Len(q) \in Nat \ {0}
  OBVIOUS
<1>2. Head(q).f \in FuncIds
  BY Zenon, <1>1 DEF Nodes
<1>3. /\ Calls(q) \in Seq(FuncIds) /\ Len(Calls(q)) = Len(q)
      /\ Calls(Tail(q)) \in Seq(FuncIds) /\ Len(Calls(Tail(q))) = Len(q) - 1
  BY Zenon, <1>1, CallsType
<1>4. \A k \in 1..Len(q) - 1 : Calls(Tail(q))[k] = Tail(Calls(q))[k]
  <2> SUFFICES ASSUME NEW k \in 1..Len(q) - 1 PROVE Calls(Tail(q))[k] = Tail(Calls(q))[k]
    OBVIOUS
  <2>1. Calls(Tail(q))[k] = Tail(q)[k].f
    BY <1>1 DEF Calls
  <2>2. Tail(q)[k] = q[k + 1] /\ Tail(Calls(q))[k] = Calls(q)[k + 1]
    BY <1>1, <1>3
  <2>3. Calls(q)[k + 1] = q[k + 1].f
    BY <1>1 DEF Calls
  <2> QED
    BY Zenon, <2>1, <2>2, <2>3
<1>5. Calls(q)[1] = q[1].f
  BY <1>1 DEF Calls
<1> HIDE DEF Calls
<1>6. Calls(Tail(q)) = Tail(Calls(q))
  <2>1. Tail(Calls(q)) \in Seq(FuncIds) /\ Len(Tail(Calls(q))) = Len(q) - 1
    BY <1>1, <1>3
  <2> QED
    BY Zenon, <1>3, <1>4, <2>1, SameSeq
<1>7. Head(Calls(q)) = Head(q).f /\ Calls(q) # <<>>
  BY <1>1, <1>3, <1>5
<1> QED
  BY Zenon, <1>1, <1>2, <1>6, <1>7

\* A link changes no function and no place.
LEMMA CallsLink ==
  ASSUME NEW q \in Seq(Nodes), NEW f
  PROVE  LinkNode(q, f) \in Seq(Nodes) /\ Calls(LinkNode(q, f)) = Calls(q)
<1>1. DOMAIN q = 1..Len(q) /\ Len(q) \in Nat /\ \A k \in 1..Len(q) : q[k] \in Nodes
  OBVIOUS
<1>2. \A n \in Nodes : [n EXCEPT !.linked = TRUE] \in Nodes /\ [n EXCEPT !.linked = TRUE].f = n.f
  BY DEF Nodes
<1>3. /\ DOMAIN LinkNode(q, f) = 1..Len(q)
      /\ \A k \in 1..Len(q) : LinkNode(q, f)[k] = IF q[k].f = f THEN [q[k] EXCEPT !.linked = TRUE] ELSE q[k]
      /\ LinkNode(q, f) = [k \in 1..Len(q) |-> LinkNode(q, f)[k]]
  BY Zenon, <1>1 DEF LinkNode
<1>4. \A k \in 1..Len(q) : LinkNode(q, f)[k] \in Nodes /\ LinkNode(q, f)[k].f = q[k].f
  BY Zenon, <1>1, <1>2, <1>3
<1> HIDE DEF LinkNode
<1>5. LinkNode(q, f) \in Seq(Nodes)
  BY <1>1, <1>3, <1>4
<1>6. Calls(LinkNode(q, f)) = Calls(q)
  BY Zenon, <1>1, <1>3, <1>4 DEF Calls
<1> QED
  BY Zenon, <1>5, <1>6

\* Sequences put together: one grows, or an element moves from one to the other.
LEMMA JoinAppend ==
  ASSUME NEW a \in Seq(FuncIds), NEW b \in Seq(FuncIds), NEW x \in FuncIds
  PROVE  a \o Append(b, x) = Append(a \o b, x)
OBVIOUS

LEMMA JoinMoves ==
  ASSUME NEW a \in Seq(FuncIds), NEW b \in Seq(FuncIds), b # <<>>
  PROVE  Append(a, Head(b)) \o Tail(b) = a \o b
<1>1. Len(b) \in Nat \ {0} /\ Len(a) \in Nat /\ Head(b) \in FuncIds /\ Tail(b) \in Seq(FuncIds)
      /\ Len(Tail(b)) = Len(b) - 1 /\ Append(a, Head(b)) \in Seq(FuncIds)
  OBVIOUS
<1>2. Len(Append(a, Head(b)) \o Tail(b)) = Len(a) + Len(b) /\ Len(a \o b) = Len(a) + Len(b)
  BY <1>1
<1>3. \A k \in 1..Len(a) + Len(b) : (Append(a, Head(b)) \o Tail(b))[k] = (a \o b)[k]
  BY <1>1
<1>4. Append(a, Head(b)) \o Tail(b) \in Seq(FuncIds) /\ a \o b \in Seq(FuncIds)
  BY <1>1
<1> QED
  BY <1>2, <1>3, <1>4
-----------------------------------------------------------------------------
(* The steps.                                                              *)

LEMMA QueueInit == ASSUME ELAssumption, ELInit PROVE LoopInv
<1>1. <<>> \in Seq(Nodes) /\ <<>> \in Seq(FuncIds) /\ Calls(<<>>) = <<>> /\ <<>> \o <<>> = <<>>
  BY DEF Calls
<1>2. QueueInv
  BY Zenon, <1>1 DEF QueueInv, ELInit
<1>3. ELTypeOK
  <2>1. \A k \in DOMAIN funcs : funcs[k].linked \in BOOLEAN
    BY Zenon, <1>2, LinkedType DEF QueueInv
  <2>2. 0 \in 0 .. MaxFuncs
    BY DEF ELAssumption
  <2>3. FALSE \in BOOLEAN
    OBVIOUS
  <2> QED
    BY Zenon, <2>1, <2>2, <2>3 DEF ELInit, ELTypeOK
<1>4. WakeInv /\ OwnerInv
  BY DEF WakeInv, OwnerInv, ELInit
<1> QED
  BY Zenon, <1>2, <1>3, <1>4 DEF LoopInv

\* A producer takes its place, links its function, wakes the loop.
LEMMA ExchangeStep == ASSUME ELAssumption, LoopInv, NEW p \in Producers, QueueExchange(p) PROVE LoopInv'
<1> DEFINE n == [f |-> <<p, queued[p] + 1>>, linked |-> FALSE]
<1>0. ELTypeOK /\ QueueInv /\ WakeInv /\ OwnerInv
  BY Zenon DEF LoopInv
<1>1. /\ UNCHANGED <<ran, onQuit, wakefd, looping, quitFlag, lpc, opc, goRun, goLoop, loopPtr>>
      /\ ppc[p] = "idle" /\ opc # "constructing" /\ queued[p] < MaxFuncs
      /\ queued' = [queued EXCEPT ![p] = queued[p] + 1] /\ ppc' = [ppc EXCEPT ![p] = "exchanged"]
      /\ funcs' = Append(funcs, n) /\ order' = Append(order, n.f)
  <2>1. n.f = <<p, queued[p] + 1>>
    OBVIOUS
  <2> QED
    BY Zenon, <2>1 DEF QueueExchange, Exchange
<1>2. /\ ppc \in [Producers -> {"idle", "exchanged", "linked"}] /\ queued \in [Producers -> 0 .. MaxFuncs]
      /\ funcs \in Seq(Nodes) /\ order \in Seq(FuncIds) /\ ran \in Seq(FuncIds)
      /\ order = ran \o Calls(funcs)
  BY Zenon, <1>0 DEF ELTypeOK, QueueInv
<1>3. n \in Nodes /\ n.f \in FuncIds /\ ~n.linked
  <2>1. queued[p] + 1 \in Nat
    BY <1>2 DEF ELAssumption
  <2>2. <<p, queued[p] + 1>> \in FuncIds
    BY Zenon, <2>1 DEF FuncIds
  <2> QED
    BY <2>2 DEF Nodes
<1> HIDE DEF n
<1>4. QueueInv'
  <2>1. Calls(funcs) \in Seq(FuncIds) /\ Calls(funcs') = Append(Calls(funcs), n.f)
    BY Zenon, <1>1, <1>2, <1>3, CallsType, CallsAppend
  <2>2. order' = ran' \o Calls(funcs')
    <3>1. ran \o Append(Calls(funcs), n.f) = Append(ran \o Calls(funcs), n.f)
      BY Zenon, <1>2, <1>3, <2>1, JoinAppend
    <3> QED
      BY Zenon, <1>1, <1>2, <2>1, <3>1
  <2>3. funcs' \in Seq(Nodes) /\ order' \in Seq(FuncIds)
    BY <1>1, <1>2, <1>3
  <2>4. lpc' # "create"
    BY Zenon, <1>0, <1>1 DEF OwnerInv
  <2> QED
    BY Zenon, <1>1, <1>2, <2>2, <2>3, <2>4 DEF QueueInv
<1>5. ELTypeOK'
  <2>1. queued' \in [Producers -> 0 .. MaxFuncs]
    BY <1>1, <1>2 DEF ELAssumption
  <2>2. ppc' \in [Producers -> {"idle", "exchanged", "linked"}]
    BY <1>1, <1>2
  <2>3. \A k \in DOMAIN funcs' : funcs'[k].linked \in BOOLEAN
    BY Zenon, <1>4, LinkedType DEF QueueInv
  <2> QED
    BY Zenon, <1>0, <1>1, <2>1, <2>2, <2>3 DEF ELTypeOK
<1>6. Empty => Empty'
  <2>1. CASE funcs = <<>>
    <3>1. Head(funcs') = n
      BY <1>1, <2>1
    <3> QED
      BY Zenon, <1>3, <3>1 DEF Empty
  <2>2. CASE funcs # <<>>
    <3>1. Head(funcs') = Head(funcs)
      BY <1>1, <1>2, <1>3, <2>2
    <3> QED
      BY Zenon, <2>2, <3>1 DEF Empty
  <2> QED
    BY Zenon, <2>1, <2>2
<1>7. \A r \in Producers : ppc[r] = "linked" => ppc'[r] = "linked"
  BY <1>1, <1>2
<1>8. WakeInv'
  BY Zenon, <1>0, <1>1, <1>6, <1>7 DEF WakeInv
<1>9. OwnerInv'
  BY Zenon, <1>0, <1>1 DEF OwnerInv, Begun
<1> QED
  BY Zenon, <1>4, <1>5, <1>8, <1>9 DEF LoopInv

LEMMA LinkStep == ASSUME LoopInv, NEW p \in Producers, QueueLink(p) \/ Wakeup(p) PROVE LoopInv'
<1>0. ELTypeOK /\ QueueInv /\ WakeInv /\ OwnerInv
  BY Zenon DEF LoopInv
<1>1. ppc \in [Producers -> {"idle", "exchanged", "linked"}] /\ funcs \in Seq(Nodes)
  BY Zenon, <1>0 DEF ELTypeOK, QueueInv
<1>2. UNCHANGED <<order, ran, onQuit, looping, quitFlag, lpc, queued, opc, goRun, goLoop, loopPtr>>
  BY Zenon DEF QueueLink, Wakeup
<1>3. /\ wakefd' = wakefd \/ wakefd' = TRUE
      /\ \/ ppc' = [ppc EXCEPT ![p] = "linked"]
         \/ ppc' = [ppc EXCEPT ![p] = "idle"] /\ wakefd'
      /\ funcs' = funcs \/ funcs' = LinkNode(funcs, Has(p))
  BY Zenon DEF QueueLink, Wakeup
<1>4. funcs' \in Seq(Nodes) /\ Calls(funcs') = Calls(funcs)
  BY Zenon, <1>1, <1>3, CallsLink
<1>5. QueueInv'
  <2>1. lpc = "create" => funcs' = <<>>
    <3>1. lpc = "create" => funcs = <<>>
      BY Zenon, <1>0 DEF QueueInv
    <3>2. LinkNode(<<>>, Has(p)) = <<>>
      BY DEF LinkNode
    <3> QED
      BY Zenon, <1>3, <3>1, <3>2
  <2> QED
    BY Zenon, <1>0, <1>2, <1>4, <2>1 DEF QueueInv
<1>6. ELTypeOK'
  <2>1. ppc' \in [Producers -> {"idle", "exchanged", "linked"}]
    BY <1>1, <1>3
  <2>2. \A k \in DOMAIN funcs' : funcs'[k].linked \in BOOLEAN
    BY Zenon, <1>4, LinkedType
  <2>3. wakefd' \in BOOLEAN
    BY Zenon, <1>0, <1>3 DEF ELTypeOK
  <2> QED
    BY Zenon, <1>0, <1>2, <2>1, <2>2, <2>3 DEF ELTypeOK
<1>7. WakeInv'
  <2>1. wakefd' \/ ppc'[p] = "linked"
    BY Zenon, <1>1, <1>3
  <2> QED
    BY Zenon, <2>1 DEF WakeInv
<1>8. OwnerInv'
  <2>1. wakefd => wakefd'
    BY Zenon, <1>3
  <2> QED
    BY Zenon, <1>0, <1>2, <2>1 DEF OwnerInv, Begun
<1> QED
  BY Zenon, <1>5, <1>6, <1>7, <1>8 DEF LoopInv

\* The loop's thread makes the loop.
LEMMA CreateStep == ASSUME LoopInv, Create PROVE LoopInv'
<1>0. ELTypeOK /\ QueueInv /\ WakeInv /\ OwnerInv
  BY Zenon DEF LoopInv
<1> DEFINE n == [f |-> Ready, linked |-> TRUE]
<1>1. /\ UNCHANGED <<ran, onQuit, looping, quitFlag, ppc, queued, opc, goRun, goLoop>>
      /\ funcs' = <<n>> /\ order' = <<Ready>> /\ wakefd' = TRUE /\ loopPtr' = TRUE
      /\ lpc = "create" /\ lpc' = "waitRun"
  BY Zenon DEF Create
<1>2. n \in Nodes /\ n.f = Ready /\ Ready \in FuncIds
  <2>1. Ready \in FuncIds
    BY Zenon DEF FuncIds
  <2> QED
    BY <2>1 DEF Nodes
<1> HIDE DEF n
<1>3. QueueInv'
  <2>1. ran' = <<>>
    BY Zenon, <1>0, <1>1 DEF QueueInv
  <2>2. Calls(<<n>>) = <<Ready>>
    BY <1>2 DEF Calls
  <2>3. <<>> \o <<Ready>> = <<Ready>> /\ <<n>> \in Seq(Nodes) /\ <<Ready>> \in Seq(FuncIds)
        /\ <<>> \in Seq(FuncIds)
    BY <1>2
  <2>4. "waitRun" # "create"
    OBVIOUS
  <2> QED
    BY Zenon, <1>1, <2>1, <2>2, <2>3, <2>4 DEF QueueInv
<1>4. ELTypeOK'
  <2>1. \A k \in DOMAIN funcs' : funcs'[k].linked \in BOOLEAN
    BY Zenon, <1>3, LinkedType DEF QueueInv
  <2> QED
    BY Zenon, <1>0, <1>1, <2>1 DEF ELTypeOK
<1>5. WakeInv'
  BY Zenon, <1>1 DEF WakeInv
<1>6. OwnerInv'
  <2>1. opc = "constructing" /\ ~goLoop
    <3>1. ~Begun
      BY <1>1 DEF Begun
    <3> QED
      BY Zenon, <1>0, <1>1, <3>1 DEF OwnerInv
  <2>2. lpc' \notin {"create", "done", "poll"} /\ opc' \notin {"running", "wake", "join", "joined"}
    BY <1>1, <2>1
  <2> QED
    BY Zenon, <1>1, <2>1, <2>2 DEF OwnerInv
<1> QED
  BY Zenon, <1>3, <1>4, <1>5, <1>6 DEF LoopInv

\* The loop's thread goes on without touching its queue.
LEMMA LoopStepKept ==
  ASSUME LoopInv, WaitRun \/ Begin \/ Check \/ Poll \/ WakeupRead \/ Drained \/ OnQuit \/ Exit
  PROVE  LoopInv'
<1>0. ELTypeOK /\ QueueInv /\ WakeInv /\ OwnerInv
  BY Zenon DEF LoopInv
<1>1. UNCHANGED <<funcs, order, ran, ppc, queued, opc, goRun, goLoop>> /\ lpc' # "create" /\ lpc # "create"
  <2>1. UNCHANGED <<funcs, order, ran, ppc, queued, opc, goRun, goLoop>>
    BY Zenon DEF WaitRun, Begin, Check, Poll, WakeupRead, Drained, OnQuit, Exit
  <2>2. lpc' # "create" /\ lpc # "create"
    BY DEF WaitRun, Begin, Check, Poll, WakeupRead, Drained, OnQuit, Exit
  <2> QED
    BY Zenon, <2>1, <2>2
<1>2. QueueInv'
  BY Zenon, <1>0, <1>1 DEF QueueInv
<1>3. ELTypeOK'
  <2>1. lpc' \in {"begin", "check", "poll", "handle", "drain", "onQuit", "exit", "done"}
    BY Zenon DEF WaitRun, Begin, Check, Poll, WakeupRead, Drained, OnQuit, Exit
  <2>2. /\ wakefd' = wakefd \/ wakefd' = FALSE
        /\ looping' = looping \/ looping' = TRUE \/ looping' = FALSE
        /\ quitFlag' = quitFlag \/ quitFlag' = FALSE
        /\ loopPtr' = loopPtr \/ loopPtr' = FALSE
    BY Zenon DEF WaitRun, Begin, Check, Poll, WakeupRead, Drained, OnQuit, Exit
  <2>3. {wakefd', looping', quitFlag', goRun', goLoop', loopPtr'} \subseteq BOOLEAN
    <3>1. {wakefd, looping, quitFlag, goRun, goLoop, loopPtr} \subseteq BOOLEAN
      BY Zenon, <1>0 DEF ELTypeOK
    <3>2. wakefd' \in BOOLEAN /\ looping' \in BOOLEAN
      BY Zenon, <2>2, <3>1
    <3>3. quitFlag' \in BOOLEAN /\ loopPtr' \in BOOLEAN
      BY Zenon, <2>2, <3>1
    <3> QED
      BY Zenon, <1>1, <3>1, <3>2, <3>3
  <2> QED
    BY Zenon, <1>0, <1>1, <2>1, <2>3 DEF ELTypeOK
<1>4. WakeInv'
  <2>1. Empty' <=> Empty
    BY Zenon, <1>1 DEF Empty
  <2>2. \/ lpc' \notin {"waitRun", "begin", "check", "poll"}
        \/ lpc \in {"waitRun", "begin", "check", "poll"} /\ wakefd' = wakefd
        \/ Empty
    BY DEF WaitRun, Begin, Check, Poll, WakeupRead, Drained, OnQuit, Exit
  <2> QED
    BY Zenon, <1>0, <1>1, <2>1, <2>2 DEF WakeInv
<1>5. OwnerInv'
  <2>1. /\ goLoop => Begun
        /\ opc \in {"running", "wake", "join", "joined"} => goLoop
        /\ opc \in {"wake", "join"} => quitFlag \/ lpc = "done"
        /\ opc = "join" /\ lpc = "poll" => wakefd
        /\ loopPtr => lpc \notin {"create", "done"}
        /\ ~loopPtr => lpc \in {"create", "done"}
    BY Zenon, <1>0 DEF OwnerInv
  <2>2. Begun => Begun' /\ quitFlag' = quitFlag
    BY DEF Begun, WaitRun, Begin, Check, Poll, WakeupRead, Drained, OnQuit, Exit
  <2>3. lpc # "done"
    BY DEF WaitRun, Begin, Check, Poll, WakeupRead, Drained, OnQuit, Exit
  <2>4. /\ loopPtr' => lpc' \notin {"create", "done"}
        /\ ~loopPtr' => lpc' \in {"create", "done"}
    BY <1>1, <2>1, <2>3 DEF WaitRun, Begin, Check, Poll, WakeupRead, Drained, OnQuit, Exit
  <2>5. (lpc' = "poll" /\ quitFlag) => FALSE
    BY DEF WaitRun, Begin, Check, Poll, WakeupRead, Drained, OnQuit, Exit
  <2>6. "join" \in {"wake", "join"} /\ "wake" \in {"running", "wake", "join", "joined"}
        /\ "join" \in {"running", "wake", "join", "joined"}
    OBVIOUS
  <2> QED
    BY Zenon, <1>1, <2>1, <2>2, <2>3, <2>4, <2>5, <2>6 DEF OwnerInv
<1> QED
  BY Zenon, <1>2, <1>3, <1>4, <1>5 DEF LoopInv

\* The loop calls a function.
LEMMA RunFuncStep == ASSUME LoopInv, RunFunc PROVE LoopInv'
<1> DEFINE f == Head(funcs).f
           n == [f |-> Nested(f), linked |-> TRUE]
<1>0. ELTypeOK /\ QueueInv /\ WakeInv /\ OwnerInv
  BY Zenon DEF LoopInv
<1>1. /\ UNCHANGED <<onQuit, wakefd, looping, lpc, ppc, queued, opc, goRun, loopPtr>>
      /\ lpc = "drain" /\ funcs # <<>> /\ ran' = Append(ran, f) /\ goLoop' = (goLoop \/ f = Ready)
      /\ quitFlag' = quitFlag \/ quitFlag' = TRUE
      /\ \/ funcs' = Tail(funcs) /\ order' = order
         \/ f[1] \in Producers /\ funcs' = Append(Tail(funcs), n) /\ order' = Append(order, Nested(f))
  BY Zenon DEF RunFunc, Empty
<1>2. /\ funcs \in Seq(Nodes) /\ order \in Seq(FuncIds) /\ ran \in Seq(FuncIds)
      /\ order = ran \o Calls(funcs)
  BY Zenon, <1>0 DEF QueueInv
<1>3. f[1] \in Producers => n \in Nodes /\ n.f = Nested(f) /\ Nested(f) \in FuncIds
  <2>1. f[1] \in Producers => Nested(f) \in FuncIds
    BY Zenon DEF Nested, FuncIds
  <2> QED
    BY <2>1 DEF Nodes
<1>4. /\ Tail(funcs) \in Seq(Nodes) /\ f \in FuncIds /\ Calls(Tail(funcs)) = Tail(Calls(funcs))
      /\ Head(Calls(funcs)) = f /\ Calls(funcs) # <<>> /\ Calls(funcs) \in Seq(FuncIds)
  BY Zenon, <1>1, <1>2, CallsTail, CallsType
<1> HIDE DEF f, n
<1>5. QueueInv'
  <2>1. ran' \in Seq(FuncIds) /\ ran' \o Calls(Tail(funcs)) = order
    <3>1. Append(ran, Head(Calls(funcs))) \o Tail(Calls(funcs)) = ran \o Calls(funcs)
      BY Zenon, <1>2, <1>4, JoinMoves
    <3>2. ran' \in Seq(FuncIds)
      BY <1>1, <1>2, <1>4
    <3> QED
      BY Zenon, <1>1, <1>2, <1>4, <3>1, <3>2
  <2>2. lpc' # "create"
    BY <1>1
  <2>3. CASE funcs' = Tail(funcs) /\ order' = order
    BY Zenon, <1>2, <1>4, <2>1, <2>2, <2>3 DEF QueueInv
  <2>4. CASE f[1] \in Producers /\ funcs' = Append(Tail(funcs), n) /\ order' = Append(order, Nested(f))
    <3>1. Calls(Tail(funcs)) \in Seq(FuncIds) /\ Calls(funcs') = Append(Calls(Tail(funcs)), Nested(f))
      BY Zenon, <1>3, <1>4, <2>4, CallsType, CallsAppend
    <3>2. ran' \o Append(Calls(Tail(funcs)), Nested(f)) = Append(ran' \o Calls(Tail(funcs)), Nested(f))
      BY Zenon, <1>3, <2>1, <2>4, <3>1, JoinAppend
    <3>3. funcs' \in Seq(Nodes) /\ order' \in Seq(FuncIds)
      BY <1>2, <1>3, <1>4, <2>4
    <3> QED
      BY Zenon, <2>1, <2>2, <2>4, <3>1, <3>2, <3>3 DEF QueueInv
  <2> QED
    BY Zenon, <1>1, <2>3, <2>4
<1>6. ELTypeOK'
  <2>1. \A k \in DOMAIN funcs' : funcs'[k].linked \in BOOLEAN
    BY Zenon, <1>5, LinkedType DEF QueueInv
  <2>2. quitFlag' \in BOOLEAN /\ goLoop' \in BOOLEAN
    BY Zenon, <1>0, <1>1 DEF ELTypeOK
  <2> QED
    BY Zenon, <1>0, <1>1, <2>1, <2>2 DEF ELTypeOK
<1>7. WakeInv'
  <2>1. lpc' \notin {"waitRun", "begin", "check", "poll"}
    BY <1>1
  <2> QED
    BY Zenon, <2>1 DEF WakeInv
<1>8. OwnerInv'
  <2>1. Begun' /\ lpc' # "poll"
    BY <1>1 DEF Begun
  <2>2. (goLoop => goLoop') /\ (quitFlag => quitFlag')
    <3>1. quitFlag' = quitFlag \/ quitFlag' = TRUE
      BY Zenon, <1>1
    <3>2. quitFlag => quitFlag'
      BY Zenon, <3>1
    <3>3. goLoop' = (goLoop \/ f = Ready)
      BY Zenon, <1>1
    <3> QED
      BY Zenon, <3>2, <3>3
  <2> QED
    BY Zenon, <1>0, <1>1, <2>1, <2>2 DEF OwnerInv
<1> QED
  BY Zenon, <1>5, <1>6, <1>7, <1>8 DEF LoopInv

\* The owner, and runOnQuit().
LEMMA OwnerKept == ASSUME LoopInv, OwnerStep \/ RunOnQuit PROVE LoopInv'
<1>0. ELTypeOK /\ QueueInv /\ WakeInv /\ OwnerInv
  BY Zenon DEF LoopInv
<1>1. UNCHANGED <<funcs, order, ran, looping, lpc, ppc, queued, goLoop, loopPtr>>
  BY Zenon DEF OwnerStep, Constructed, Run, RunWaits, Quit, QuitWakes, Join, Owner, RunOnQuit
<1>2. /\ wakefd' = wakefd \/ wakefd' = TRUE
      /\ quitFlag' = quitFlag \/ quitFlag' = TRUE
      /\ goRun' = goRun \/ goRun' = TRUE
      /\ opc' \in {"idle", "runWait", "running", "wake", "join", "joined"} \/ opc' = opc
  BY Zenon DEF OwnerStep, Constructed, Run, RunWaits, Quit, QuitWakes, Join, Owner, RunOnQuit
<1>3. QueueInv'
  BY Zenon, <1>0, <1>1 DEF QueueInv
<1>4. ELTypeOK'
  <2>1. opc' \in {"constructing", "idle", "running", "runWait", "quit", "wake", "join", "joined"}
    BY <1>0, <1>2 DEF ELTypeOK
  <2>2. wakefd' \in BOOLEAN /\ quitFlag' \in BOOLEAN /\ goRun' \in BOOLEAN
    BY Zenon, <1>0, <1>2 DEF ELTypeOK
  <2> QED
    BY Zenon, <1>0, <1>1, <2>1, <2>2 DEF ELTypeOK
<1>5. WakeInv'
  <2>1. (Empty' <=> Empty) /\ (wakefd => wakefd')
    <3>1. wakefd' = wakefd \/ wakefd' = TRUE
      BY Zenon, <1>2
    <3>2. wakefd => wakefd'
      BY Zenon, <3>1
    <3> QED
      BY Zenon, <1>1, <3>2 DEF Empty
  <2> QED
    BY Zenon, <1>0, <1>1, <2>1 DEF WakeInv
<1>6. OwnerInv'
  <2>1. /\ goLoop => Begun
        /\ opc \in {"running", "wake", "join", "joined"} => goLoop
        /\ opc \in {"wake", "join"} => quitFlag \/ lpc = "done"
        /\ opc = "join" /\ lpc = "poll" => wakefd
        /\ opc # "constructing" => lpc # "create"
        /\ loopPtr => lpc \notin {"create", "done"}
        /\ ~loopPtr => lpc \in {"create", "done"}
    BY Zenon, <1>0 DEF OwnerInv
  <2>2. Begun => Begun' /\ lpc # "create"
    BY <1>1 DEF Begun
  <2>3. opc' # "constructing" => lpc' # "create"
    <3>1. loopPtr \/ opc # "constructing" \/ opc' = opc
      BY DEF OwnerStep, Constructed, Run, RunWaits, Quit, QuitWakes, Join, Owner, RunOnQuit
    <3> QED
      BY <1>1, <2>1, <3>1
  <2>4. opc' \in {"running", "wake", "join", "joined"} => goLoop'
    <3>1. goLoop \/ opc \in {"running", "wake", "join", "joined"}
          \/ opc' \notin {"running", "wake", "join", "joined"}
      BY DEF OwnerStep, Constructed, Run, RunWaits, Quit, QuitWakes, Join, Owner, RunOnQuit
    <3> QED
      BY Zenon, <1>1, <2>1, <3>1
  <2>5. opc' \in {"wake", "join"} => quitFlag' \/ lpc' = "done"
    <3>1. \/ opc' \notin {"wake", "join"} \/ quitFlag' = TRUE \/ (opc = "running" /\ ~loopPtr)
          \/ (opc \in {"wake", "join"} /\ quitFlag' = quitFlag)
      BY DEF OwnerStep, Constructed, Run, RunWaits, Quit, QuitWakes, Join, Owner, RunOnQuit
    <3>2. opc = "running" /\ ~loopPtr => lpc = "done"
      BY <2>1, <2>2
    <3> QED
      BY Zenon, <1>1, <2>1, <3>1, <3>2
  <2>6. opc' = "join" /\ lpc' = "poll" => wakefd'
    <3>1. \/ opc' # "join" \/ wakefd' = TRUE \/ (opc = "running" /\ ~loopPtr)
          \/ (opc = "join" /\ wakefd' = wakefd)
      BY DEF OwnerStep, Constructed, Run, RunWaits, Quit, QuitWakes, Join, Owner, RunOnQuit
    <3>2. ~loopPtr => lpc # "poll"
      BY <2>1
    <3> QED
      BY Zenon, <1>1, <2>1, <3>1, <3>2
  <2> QED
    BY Zenon, <1>1, <2>1, <2>2, <2>3, <2>4, <2>5, <2>6 DEF OwnerInv
<1> QED
  BY Zenon, <1>3, <1>4, <1>5, <1>6 DEF LoopInv

LEMMA LoopInvStep == ASSUME ELAssumption, LoopInv, [ELNext]_elVars PROVE LoopInv'
<1>1. CASE UNCHANGED elVars
  <2>1. Empty' <=> Empty
    BY Zenon, <1>1 DEF elVars, Empty
  <2>2. ELTypeOK'
    BY Zenon, <1>1 DEF elVars, LoopInv, ELTypeOK
  <2>3. QueueInv'
    BY Zenon, <1>1 DEF elVars, LoopInv, QueueInv
  <2>4. WakeInv'
    BY Zenon, <1>1, <2>1 DEF elVars, LoopInv, WakeInv
  <2>5. OwnerInv'
    BY Zenon, <1>1 DEF elVars, LoopInv, OwnerInv, Begun
  <2> QED
    BY Zenon, <2>2, <2>3, <2>4, <2>5 DEF LoopInv
<1>2. CASE LoopStep
  BY Zenon, <1>2, CreateStep, LoopStepKept, RunFuncStep DEF LoopStep
<1>3. CASE OwnerStep \/ RunOnQuit
  BY Zenon, <1>3, OwnerKept
<1>4. CASE ProducerStep
  BY Zenon, <1>4, ExchangeStep, LinkStep DEF ProducerStep
<1> QED
  BY Zenon, <1>1, <1>2, <1>3, <1>4 DEF ELNext
-----------------------------------------------------------------------------
LEMMA LoopKept == ASSUME ELAssumption PROVE ELSpec => []LoopInv
<1>1. ELInit => LoopInv
  BY Zenon, QueueInit
<1>2. LoopInv /\ [ELNext]_elVars => LoopInv'
  BY Zenon, LoopInvStep
<1> QED
  BY <1>1, <1>2, PTL DEF ELSpec

\* For any threads and any number of functions, every variable of an event loop
\* keeps its type.
THEOREM LoopTypeCorrect == ASSUME ELAssumption PROVE ELSpec => []ELTypeOK
<1>1. LoopInv => ELTypeOK
  BY Zenon DEF LoopInv
<1> QED
  BY <1>1, LoopKept, PTL

\* The loop calls the functions in the order in which queueInLoop() took their
\* places in the lock-free queue, each once, however exchanges and links of the
\* producers interleave; the others are still in the queue.
THEOREM LoopCallsInOrder == ASSUME ELAssumption PROVE ELSpec => []LoopOrder
<1>1. LoopInv => LoopOrder
  BY Zenon DEF LoopInv, QueueInv, LoopOrder, Calls
<1> QED
  BY <1>1, LoopKept, PTL

\* When the loop sleeps in poll() with nothing to wake it, a function it could
\* call has a producer that is about to write the eventfd.
THEOREM LoopWakes == ASSUME ELAssumption PROVE ELSpec => []NoLostWakeup
<1>1. LoopInv => NoLostWakeup
  <2>1. lpc = "poll" => lpc \in {"waitRun", "begin", "check", "poll"}
    OBVIOUS
  <2> QED
    BY Zenon, <2>1 DEF LoopInv, WakeInv, NoLostWakeup
<1> QED
  BY <1>1, LoopKept, PTL

\* A loop whose owner joins its thread does not sleep through the quit().
THEOREM LoopSeesQuit == ASSUME ELAssumption PROVE ELSpec => []QuitSeen
<1>1. LoopInv => QuitSeen
  BY Zenon DEF LoopInv, OwnerInv, QuitSeen
<1> QED
  BY <1>1, LoopKept, PTL
=============================================================================
