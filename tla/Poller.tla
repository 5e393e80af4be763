------------------------------- MODULE Poller -------------------------------
(***************************************************************************)
(* Channels, the epoll set and the dispatch of events in one loop.  The    *)
(* kernel hands out raw pointers to channels, and a callback may close a   *)
(* connection, or stop a connector, whose channel is still in the list of  *)
(* active ones; its descriptor may then be used again.  Channels belong to *)
(* connections and to connectors, which give theirs up to a connection.    *)
(***************************************************************************)
EXTENDS Integers, Sequences, FiniteSets

CONSTANTS MaxChannels,  \* channels of a behaviour
          Fds           \* descriptors

VARIABLES
  channels,     \* the channels there have been
  epoll,        \* what epoll_ctl() registered for each descriptor
  openFds,      \* descriptors that are open
  phase,        \* of EventLoop::loop(): "poll", "handle", "funcs"
  active,       \* activeChannels_ not handled yet
  plFuncs       \* functors of the loop: <<"destroy" or "reset", channel>>

poVars == <<channels, epoll, openFds, phase, active, plFuncs>>

Interests == SUBSET {"read", "write"}
Ids == 1 .. Len(channels)
Channel == [kind : {"conn", "connector"}, fd : Fds, events : Interests,
            index : {"kNew", "kAdded", "kDeleted"},
            state : {"used", "closed", "removed", "freed"}]
NotIn == [chan |-> 0, events |-> {}]

POTypeOK ==
  /\ channels \in Seq(Channel) /\ Len(channels) <= MaxChannels
  /\ epoll \in [Fds -> [chan : 0 .. MaxChannels, events : Interests]]
  /\ openFds \subseteq Fds /\ phase \in {"poll", "handle", "funcs"}
  /\ active \subseteq Ids /\ plFuncs \in Seq({"destroy", "reset"} \X Ids)

POInit ==
  /\ channels = <<>> /\ epoll = [f \in Fds |-> NotIn] /\ openFds = {}
  /\ phase = "poll" /\ active = {} /\ plFuncs = <<>>

\* A plausible bug: a change of the events is not passed on to epoll.
MutControlled(ep, c, id, ev) ==
  IF c.index # "kAdded" THEN [ep EXCEPT ![c.fd] = [chan |-> id, events |-> ev]]
  ELSE IF ev = {} THEN [ep EXCEPT ![c.fd] = NotIn]
  ELSE ep

\* updateChannel(): EPOLL_CTL_ADD, DEL or MOD ...
Controlled(ep, c, id, ev) ==
  IF c.index # "kAdded" THEN [ep EXCEPT ![c.fd] = [chan |-> id, events |-> ev]]
  ELSE IF ev = {} THEN [ep EXCEPT ![c.fd] = NotIn]
  ELSE [ep EXCEPT ![c.fd] = [chan |-> id, events |-> ev]]

\* ... and the channel's index after it.
Updated(c, ev) ==
  [c EXCEPT !.events = ev,
            !.index = IF @ = "kAdded" /\ ev = {} THEN "kDeleted" ELSE "kAdded"]

\* removeChannel(): EPOLL_CTL_DEL by descriptor, if the channel is still added.
Removed(c) == [c EXCEPT !.index = "kNew", !.state = "removed"]
RemovedFrom(ep, c) == IF c.index = "kAdded" THEN [ep EXCEPT ![c.fd] = NotIn] ELSE ep

\* close(): the kernel forgets the descriptor, and may give it out again.
ClosedIn(ep, f) == [ep EXCEPT ![f] = NotIn]

\* A new channel that is registered at once: connectEstablished() of a
\* connection reads, connecting() of a connector writes.
New(kind, f) ==
  [kind |-> kind, fd |-> f, events |-> {IF kind = "conn" THEN "read" ELSE "write"},
   index |-> "kAdded", state |-> "used"]
Registered(ep, kind, f) ==
  [ep EXCEPT ![f] = [chan |-> Len(channels) + 1, events |-> New(kind, f).events]]

\* poll(): any of the channels that epoll knows may have an event; also one
\* without interest, by an error.
Poll ==
  /\ phase = "poll"
  /\ \E ready \in SUBSET {epoll[f].chan : f \in Fds} : active' = ready \ {0}
  /\ phase' = "handle"
  /\ UNCHANGED <<channels, epoll, openFds, plFuncs>>

\* handleClose(): disableAll(), and connectDestroyed() when the events of this
\* round are handled: the functor keeps the connection alive.
CloseConn(id) ==
  LET c == channels[id] IN
  /\ c.kind = "conn" /\ c.state = "used"
  /\ channels' = [channels EXCEPT ![id] = [Updated(c, {}) EXCEPT !.state = "closed"]]
  /\ epoll' = Controlled(epoll, c, id, {})
  /\ plFuncs' = Append(plFuncs, <<"destroy", id>>)
  /\ UNCHANGED openFds

\* disableAll() and remove(), from which the channel is a "removed" one.
Given(c) == Removed(Updated(c, {}))
GivenIn(ep, c, id) == RemovedFrom(Controlled(ep, c, id, {}), Updated(c, {}))

\* A plausible bug: the channel is freed with the connector's pointer to it.
MutResetLater(id, cs) == channels' = [cs EXCEPT ![id].state = "freed"] /\ UNCHANGED plFuncs

\* The end of removeAndResetChannel(): "Can't reset channel_ here, because we
\* are inside Channel::handleEvent".
ResetLater(id, cs) == channels' = cs /\ plFuncs' = Append(plFuncs, <<"reset", id>>)

\* stop(): the descriptor is closed with the connector, soon.
StopConnector(id) ==
  LET c == channels[id] IN
  /\ c.kind = "connector" /\ c.state = "used"
  /\ ResetLater(id, [channels EXCEPT ![id] = Given(c)])
  /\ epoll' = ClosedIn(GivenIn(epoll, c, id), c.fd)
  /\ openFds' = openFds \ {c.fd}

\* handleWrite(): the connection takes the descriptor ...
Connected(id) ==
  LET c == channels[id] IN
  /\ c.kind = "connector" /\ Len(channels) < MaxChannels
  /\ ResetLater(id, Append([channels EXCEPT ![id] = Given(c)], New("conn", c.fd)))
  /\ epoll' = Registered(GivenIn(epoll, c, id), "conn", c.fd)
  /\ UNCHANGED openFds

\* ... or the connection failed, and it is closed (handleError() as well).
ConnectFailed(id) == StopConnector(id)

\* enableWriting(), disableWriting(): a channel whose other interest remains.
Writing(id) ==
  LET c == channels[id]
      ev == IF "write" \in c.events THEN {"read"} ELSE {"read", "write"}
  IN /\ c.kind = "conn" /\ c.state = "used"
     /\ channels' = [channels EXCEPT ![id] = Updated(c, ev)]
     /\ epoll' = Controlled(epoll, c, id, ev)
     /\ UNCHANGED <<openFds, plFuncs>>

\* connecting(), or the acceptor's connectEstablished().
Opens(kind) ==
  /\ Len(channels) < MaxChannels
  /\ \E f \in Fds \ openFds :
       /\ channels' = Append(channels, New(kind, f))
       /\ epoll' = Registered(epoll, kind, f)
       /\ openFds' = openFds \cup {f}
  /\ UNCHANGED plFuncs

\* handleEvent() of an active channel: nothing without interest; or its callback,
\* which may close, stop or open others.
Callback(id) ==
  \/ CloseConn(id) \/ Writing(id) \/ Connected(id) \/ ConnectFailed(id)
  \/ /\ channels[id].kind = "conn"
     /\ \/ \E d \in Ids : CloseConn(d) \/ StopConnector(d)
        \/ Opens("connector")
  \/ UNCHANGED <<channels, epoll, openFds, plFuncs>>

HandleEvent(id) ==
  /\ phase = "handle" /\ id \in active
  /\ active' = active \ {id}
  /\ IF channels[id].events = {} THEN UNCHANGED <<channels, epoll, openFds, plFuncs>>
                                 ELSE Callback(id)
  /\ UNCHANGED phase

Handled ==
  /\ phase = "handle" /\ active = {}
  /\ phase' = "funcs"
  /\ UNCHANGED <<channels, epoll, openFds, active, plFuncs>>

\* doRunInLoopFuncs(): connectDestroyed() removes the channel, "reset" drops the
\* last pointer to it.
RunFunc ==
  /\ phase = "funcs" /\ plFuncs # <<>>
  /\ LET id == Head(plFuncs)[2] IN
     IF Head(plFuncs)[1] = "reset"
       THEN channels' = [channels EXCEPT ![id].state = "freed"] /\ UNCHANGED epoll
       ELSE /\ channels' = [channels EXCEPT ![id] = Removed(@)]
            /\ epoll' = RemovedFrom(epoll, channels[id])
  /\ plFuncs' = Tail(plFuncs)
  /\ UNCHANGED <<openFds, phase, active>>

\* Functors of others, and the end of a round.
RunOther == phase = "funcs" /\ (Opens("conn") \/ Opens("connector")) /\ UNCHANGED <<phase, active>>

NextRound ==
  /\ phase = "funcs" /\ plFuncs = <<>>
  /\ phase' = "poll"
  /\ UNCHANGED <<channels, epoll, openFds, active, plFuncs>>

\* The last pointer to a connection that was removed goes, on any thread: its
\* channel, and its descriptor.
FreeConn(id) ==
  /\ channels[id].kind = "conn" /\ channels[id].state = "removed"
  /\ channels' = [channels EXCEPT ![id].state = "freed"]
  /\ openFds' = openFds \ {channels[id].fd}
  /\ epoll' = ClosedIn(epoll, channels[id].fd)
  /\ UNCHANGED <<phase, active, plFuncs>>

PONext ==
  \/ Poll \/ Handled \/ RunFunc \/ RunOther \/ NextRound
  \/ \E id \in Ids : HandleEvent(id) \/ FreeConn(id)

POSpec == POInit /\ [][PONext]_poVars

(***************************************************************************)
(* Properties.                                                             *)
(***************************************************************************)

\* loop() calls through the pointers of this round's list: whatever the
\* callbacks before closed or stopped, each channel in it still exists.
ActiveExist == \A id \in active : channels[id].state # "freed"

\* epoll watches what the channels ask for and nothing else: every registration
\* is of a channel in use, with its interest, at its descriptor, and every
\* channel with an interest is registered, also where a descriptor was given out
\* again while the channel before was on its way out.
InterestRegistered ==
  /\ \A f \in Fds : epoll[f] # NotIn =>
       LET c == channels[epoll[f].chan] IN
       c.fd = f /\ c.state = "used" /\ c.events = epoll[f].events /\ f \in openFds
  /\ \A id \in Ids : channels[id].events # {} /\ channels[id].state # "freed" =>
       epoll[channels[id].fd].chan = id
=============================================================================
