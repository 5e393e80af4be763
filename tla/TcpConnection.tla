--------------------------- MODULE TcpConnection ---------------------------
(***************************************************************************)
(* The sending half of a Trantor connection: the list of buffer nodes that *)
(* the loop's thread works off, the write interest of its channel, and the *)
(* half-close and close that wait for it.  Other threads reach it through  *)
(* the loop's queue; the loop's own callbacks call it directly.            *)
(***************************************************************************)
EXTENDS Integers, Sequences, FiniteSets, SequencesExt

CONSTANTS MaxCalls,     \* calls of send(), sendFile(), sendStream(), ...
          MaxRoom,      \* bytes the kernel's send buffer holds
          Kinds         \* the nodes sent: among "mem", "file", "stream", "async"

VARIABLES
  status,       \* status_
  list,         \* writeBufferList_: [kind, id, bytes, done]
  writing,      \* ioChannelPtr_->isWriting()
  reading,      \* the channel is in the poller for reading
  closeOnEmpty,
  out,          \* the socket's sending half: "open", "shut", "broken"
  room,         \* free bytes of the kernel's send buffer
  wire,         \* the bytes written
  tasks,        \* calls queued to the loop by other threads
  ncalls,
  streams,      \* async streams whose AsyncStream object is still held
  taken,        \* bytes of the calls that the connection accepted
  failed,       \* a write returned an error other than EAGAIN
  told          \* disconnect notifications (connection, close, user callback)

tcVars == <<status, list, writing, reading, closeOnEmpty, out, room, wire, tasks,
            ncalls, streams, taken, failed, told>>

\* A byte is known by its place: the call that put its node into the list, the
\* call that gave it, and its index there.
Bytes(node, call) == <<<<node, call, 1>>, <<node, call, 2>>>>

TCTypeOK ==
  /\ status \in {"Connected", "Disconnecting", "Disconnected"}
  /\ \A k \in DOMAIN list : list[k].kind \in Kinds /\ list[k].done \in BOOLEAN
  /\ {writing, reading, closeOnEmpty, failed} \subseteq BOOLEAN
  /\ out \in {"open", "shut", "broken"}
  /\ room \in 0 .. MaxRoom /\ ncalls \in 0 .. MaxCalls
  /\ told \in 0 .. MaxCalls

TCInit ==
  /\ status = "Connected" /\ list = <<>> /\ writing = FALSE /\ reading = TRUE
  /\ closeOnEmpty = FALSE /\ out = "open" /\ room = MaxRoom /\ wire = <<>>
  /\ tasks = <<>> /\ ncalls = 0 /\ streams = {} /\ taken = {} /\ failed = FALSE
  /\ told = 0

Node(kind, id, bytes) ==
  [kind |-> kind, id |-> id, bytes |-> bytes, done |-> FALSE]

\* remainingBytes() > 0: a stream has more until its callback returns 0.
Remaining(n) == IF n.kind = "stream" THEN ~n.done ELSE n.bytes # <<>>

\* What the list and the wire hold after a write(): as many bytes as there is
\* room for.
Fits(bytes) == IF Len(bytes) < room THEN Len(bytes) ELSE room
Rest(bytes) == SubSeq(bytes, Fits(bytes) + 1, Len(bytes))

\* writeRaw(): the bytes that fit are written, and with any left the channel
\* waits for the socket to become writable.
WriteRaw(bytes) ==
  /\ wire' = wire \o SubSeq(bytes, 1, Fits(bytes))
  /\ room' = room - Fits(bytes)
  /\ writing' = (writing \/ Rest(bytes) # <<>>)

Broken == out # "open"

\* A write to a socket whose sending half is gone: an error, nothing written.
WriteFails == UNCHANGED <<wire, room, writing>> /\ failed' = TRUE

----------------------------------------------------------------------------
(* What the loop's thread does for each call.                              *)

\* A plausible bug: only the write interest is asked, which an idle async
\* stream at the front does not have.
MutDirect == ~writing

\* Nothing is waiting to be written.
Direct == ~writing /\ list = <<>>

\* sendInLoop(): directly when nothing waits, otherwise behind what waits.
SendInLoop(c) ==
  LET bytes == Bytes(c, c)
      left == IF Direct THEN Rest(bytes) ELSE bytes
      intoLast == list # <<>> /\ Last(list).kind = "mem"
  IN IF status # "Connected"
     THEN UNCHANGED <<list, wire, room, writing, taken, failed>>
     ELSE IF Direct /\ Broken
     THEN WriteFails /\ UNCHANGED <<list, taken>>
     ELSE /\ IF Direct THEN WriteRaw(bytes) ELSE UNCHANGED <<wire, room, writing>>
          /\ list' = IF left = <<>> THEN list
                     ELSE IF intoLast
                     THEN [list EXCEPT ![Len(list)].bytes = @ \o left]
                     ELSE Append(list, Node("mem", c, left))
          /\ taken' = taken \cup Range(bytes)
          /\ UNCHANGED failed

\* sendStream(): the callback is asked for data until the socket is full.
SendStream(c) ==
  LET bytes == Bytes(c, c)
      node == Node("stream", c, bytes)
      sent == [node EXCEPT !.bytes = Rest(bytes), !.done = Rest(bytes) = <<>>]
  IN /\ taken' = IF status = "Connected" THEN taken \cup Range(bytes) ELSE taken
     /\ IF list # <<>>
        THEN list' = Append(list, node) /\ UNCHANGED <<wire, room, writing, failed>>
        ELSE IF Broken
        THEN WriteFails /\ UNCHANGED list
        ELSE /\ WriteRaw(bytes)
             /\ list' = IF Remaining(sent) THEN <<sent>> ELSE <<>>
             /\ UNCHANGED failed

\* sendFile(): sendfile() on a full socket returns -1, and so does
\* sendNodeInLoop(): the write interest is set and the node is not kept.
SendFile(c) ==
  LET bytes == Bytes(c, c)
      node == Node("file", c, bytes)
      sent == [node EXCEPT !.bytes = Rest(bytes)]
  IN /\ taken' = IF status = "Connected" THEN taken \cup Range(bytes) ELSE taken
     /\ IF list # <<>>
        THEN list' = Append(list, node) /\ UNCHANGED <<wire, room, writing, failed>>
        ELSE IF Broken
        THEN WriteFails /\ UNCHANGED list
        ELSE /\ WriteRaw(bytes)
             /\ list' = IF room > 0 /\ Remaining(sent) THEN <<sent>> ELSE <<>>
             /\ UNCHANGED failed

\* sendAsyncStream(): an empty node takes the stream's place in the list.
OpenAsync(c) ==
  /\ list' = Append(list, Node("async", c, <<>>))
  /\ streams' = streams \cup {c}

\* The place of a stream's node, 0 when it is not in the list.
Place(s) == IF \E k \in DOMAIN list : list[k].id = s /\ list[k].kind = "async"
            THEN CHOOSE k \in DOMAIN list : list[k].id = s /\ list[k].kind = "async"
            ELSE 0

\* sendAsyncDataInLoop() with data: written at once when the stream is at the
\* front with nothing buffered, appended to its node otherwise.
AsyncData(s, c) ==
  LET bytes == Bytes(s, c)
      k == Place(s)
      direct == k = 1 /\ list[1].bytes = <<>>
  IN IF direct /\ Broken
     THEN WriteFails /\ UNCHANGED <<list, taken>>
     ELSE /\ IF direct THEN WriteRaw(bytes) ELSE UNCHANGED <<wire, room, writing>>
          /\ list' = IF k = 0 THEN list
                     ELSE [list EXCEPT ![k].bytes =
                             @ \o (IF direct THEN Rest(bytes) ELSE bytes)]
          /\ taken' = IF k = 0 THEN taken ELSE taken \cup Range(bytes)
          /\ UNCHANGED failed

\* A plausible bug: the end of a stream at the front does not start the
\* writing of what waits behind it.
MutAsyncEnd(s) ==
  LET k == Place(s)
  IN /\ list' = IF k = 0 THEN list ELSE [list EXCEPT ![k].done = TRUE]
     /\ writing' = writing

\* sendAsyncDataInLoop() with no data: the stream is closed.
AsyncEnd(s) ==
  LET k == Place(s)
  IN /\ list' = IF k = 0 THEN list ELSE [list EXCEPT ![k].done = TRUE]
     /\ writing' = (writing \/ k = 1)

\* A plausible bug: shutdown() closes the socket whatever still waits.
MutWaits == FALSE

\* Something still has to be written before the half-close.
Waits == list # <<>>

\* shutdown(): postponed while something waits.
ShutdownInLoop ==
  /\ closeOnEmpty' = (closeOnEmpty \/ (status = "Connected" /\ Waits))
  /\ IF status = "Connected" /\ ~Waits
     THEN /\ status' = "Disconnecting"
          /\ out' = IF writing THEN out ELSE IF out = "open" THEN "shut" ELSE out
     ELSE UNCHANGED <<status, out>>

\* handleClose(): the channel is disabled and everybody is told.
HandleClose ==
  /\ status' = "Disconnected" /\ writing' = FALSE /\ reading' = FALSE
  /\ told' = told + 1

\* A plausible bug: forceClose() asks only whether the connection is connected
\* or was.
MutMayForceClose == TRUE

MayForceClose == status \in {"Connected", "Disconnecting"}

\* One call, in the loop's thread.
Do(op) ==
  \/ /\ op[1] = "mem" /\ SendInLoop(op[2])
     /\ UNCHANGED <<status, reading, closeOnEmpty, out, streams, told>>
  \/ /\ op[1] = "stream" /\ SendStream(op[2])
     /\ UNCHANGED <<status, reading, closeOnEmpty, out, streams, told>>
  \/ /\ op[1] = "file" /\ SendFile(op[2])
     /\ UNCHANGED <<status, reading, closeOnEmpty, out, streams, told>>
  \/ /\ op[1] = "async" /\ OpenAsync(op[2])
     /\ UNCHANGED <<status, writing, reading, closeOnEmpty, out, room, wire,
                    taken, failed, told>>
  \/ /\ op[1] = "data" /\ AsyncData(op[2], op[3])
     /\ UNCHANGED <<status, reading, closeOnEmpty, out, streams, told>>
  \/ /\ op[1] = "end" /\ AsyncEnd(op[2])
     /\ UNCHANGED <<status, reading, closeOnEmpty, out, room, wire, streams,
                    taken, failed, told>>
  \/ /\ op[1] = "shutdown" /\ ShutdownInLoop
     /\ UNCHANGED <<list, writing, reading, room, wire, streams, taken, failed,
                    told>>
  \/ /\ op[1] = "forceClose"
     /\ IF MayForceClose THEN HandleClose
        ELSE UNCHANGED <<status, writing, reading, told>>
     /\ UNCHANGED <<list, closeOnEmpty, out, room, wire, streams, taken, failed>>

----------------------------------------------------------------------------
(* The callers.                                                            *)

\* A caller that has been told that the connection is gone calls no more; what
\* it queued before still runs.
MayCall == ncalls < MaxCalls /\ told = 0

\* The calls that may come next, numbered upwards from 1 by other threads and
\* downwards from -1 by the loop's.  An AsyncStream gives up when it sees that
\* the connection is not connected (a read from any thread); it is used by the
\* thread that opened it.
Calls(sign) ==
  LET c == sign * (ncalls + 1)
  IN {<<k, c>> : k \in Kinds} \cup {<<"shutdown">>, <<"forceClose">>}
     \cup (IF status = "Connected"
           THEN {<<"data", s, c>> : s \in {x \in streams : x * sign > 0}} ELSE {})

\* By another thread: queued, with sendAsyncStream() returning the stream.
Post ==
  /\ MayCall
  /\ ncalls' = ncalls + 1
  /\ \E op \in Calls(1) :
       /\ tasks' = Append(tasks, op)
       /\ streams' = IF op[1] = "async" THEN streams \cup {op[2]} ELSE streams
  /\ UNCHANGED <<status, list, writing, reading, closeOnEmpty, out, room, wire,
                 taken, failed, told>>

\* By a callback of the loop.
Call ==
  /\ MayCall
  /\ ncalls' = ncalls + 1
  /\ \E op \in Calls(-1) : Do(op)
  /\ UNCHANGED tasks

\* The handler ends its stream (close() or ~AsyncStreamImpl()).
EndStream(s) ==
  /\ s \in streams
  /\ streams' = streams \ {s}
  /\ IF status = "Connected" /\ s < 0 THEN AsyncEnd(s)
                                      ELSE UNCHANGED <<list, writing>>
  /\ tasks' = IF status = "Connected" /\ s > 0 THEN Append(tasks, <<"end", s>>)
              ELSE tasks
  /\ UNCHANGED <<status, reading, closeOnEmpty, out, room, wire, ncalls, taken,
                 failed, told>>

RunTask ==
  /\ tasks # <<>>
  /\ tasks' = Tail(tasks)
  /\ Do(Head(tasks))
  /\ UNCHANGED ncalls

----------------------------------------------------------------------------
(* The socket.                                                             *)

\* The bytes of the first k nodes.
Upto(k) == FlattenSeq([j \in 1 .. k |-> list[j].bytes])

Open(k) == list[k].kind = "async" /\ ~list[k].done

\* A plausible bug: the postponed shutdown() is forgotten.
MutCloseNow(rest) == FALSE

\* A shutdown() was postponed and nothing is left to write.
CloseNow(rest) == rest = <<>> /\ closeOnEmpty /\ status = "Connected"

\* writeCallback(): nodes are written and dropped from the front until the
\* socket is full, or an open async stream has nothing more to write; an empty
\* list ends the writing and carries out a postponed shutdown().
WriteCallback ==
  /\ writing /\ (room > 0 \/ Broken)
  /\ LET upto == [k \in 0 .. Len(list) |-> Upto(k)]
         blocked == {k \in DOMAIN list : Open(k)}
         stop == IF blocked = {} THEN Len(list)
                 ELSE CHOOSE k \in blocked : \A j \in blocked : k <= j
         n == Fits(upto[stop])
         gone == {k \in 1 .. stop : ~Open(k) /\ Len(upto[k]) <= n}
         first == Cardinality(gone) + 1
         rest == IF first > Len(list) THEN <<>>
                 ELSE [SubSeq(list, first, Len(list)) EXCEPT ![1].bytes =
                         SubSeq(@, n - Len(upto[first - 1]) + 1, Len(@))]
         idle == rest # <<>> /\ Head(rest).kind = "async" /\ ~Head(rest).done
                 /\ Head(rest).bytes = <<>>
     IN IF Broken /\ upto[stop] # <<>>
        THEN failed' = TRUE /\ UNCHANGED <<list, wire, room, writing, status, out>>
        ELSE /\ wire' = wire \o SubSeq(upto[stop], 1, n)
             /\ room' = room - n
             /\ list' = rest
             /\ writing' = ~(rest = <<>> \/ idle)
             /\ IF CloseNow(rest)
                THEN /\ status' = "Disconnecting"
                     /\ out' = IF out = "open" THEN "shut" ELSE out
                ELSE UNCHANGED <<status, out>>
             /\ UNCHANGED failed
  /\ UNCHANGED <<reading, closeOnEmpty, tasks, ncalls, streams, taken, told>>

\* The peer takes bytes out of the kernel's buffer.
PeerReads ==
  /\ room < MaxRoom /\ out # "broken"
  /\ room' = MaxRoom
  /\ UNCHANGED <<status, list, writing, reading, closeOnEmpty, out, wire, tasks,
                 ncalls, streams, taken, failed, told>>

\* The peer resets the connection: writes fail from now on.
PeerResets ==
  /\ out = "open"
  /\ out' = "broken"
  /\ UNCHANGED <<status, list, writing, reading, closeOnEmpty, room, wire, tasks,
                 ncalls, streams, taken, failed, told>>

\* readCallback() reads the end of the stream (sent, or after a reset).
ReadEnd ==
  /\ reading
  /\ HandleClose
  /\ UNCHANGED <<list, closeOnEmpty, out, room, wire, tasks, ncalls, streams,
                 taken, failed>>

TCNext == \/ Post \/ Call \/ RunTask \/ WriteCallback \/ PeerReads
          \/ PeerResets \/ ReadEnd \/ \E s \in streams : EndStream(s)

TCSpec == TCInit /\ [][TCNext]_tcVars

\* The loop runs, and the peer reads what it is sent or goes away; handlers
\* end their streams.
TCFairness ==
  /\ WF_tcVars(RunTask) /\ WF_tcVars(WriteCallback) /\ WF_tcVars(PeerReads)
  /\ WF_tcVars(out = "broken" /\ ReadEnd)
  /\ WF_tcVars(\E s \in streams : EndStream(s))

----------------------------------------------------------------------------
\* Two bytes of the same caller are in the order of its calls.
InOrder(a, b) ==
  a[1] * b[1] > 0 =>
    \/ a[1] * a[1] < b[1] * b[1]
    \/ a[1] = b[1] /\ a[2] * a[2] < b[2] * b[2]
    \/ a[1] = b[1] /\ a[2] = b[2] /\ a[3] < b[3]

\* Whatever was accepted and has not been written is in the list, once and in
\* the order of each caller's calls, with the data of an async stream where the stream
\* was opened: the wire and the list together are exactly the accepted bytes,
\* in order, while the connection is connected and no write has failed.
NothingLost ==
  ~failed /\ status = "Connected" =>
    LET all == wire \o Upto(Len(list))
    IN /\ Range(all) = taken /\ Len(all) = Cardinality(taken)
       /\ \A k \in DOMAIN all : \A j \in 1 .. k - 1 : InOrder(all[j], all[k])

\* The output never stalls: while the list has something that could go out,
\* the channel waits for the socket to become writable; only an open async
\* stream with nothing to send may rest at the front.
NoStall ==
  status = "Connected" /\ ~failed /\ list # <<>> =>
    writing \/ (Open(1) /\ list[1].bytes = <<>>)

\* A shutdown() closes the sending half only after everything accepted by then
\* has been written.
ShutAfterFlush == out = "shut" /\ ~failed => taken = Range(wire)

\* The owner is told exactly once that the connection is gone, however the
\* peer's close, shutdown() and forceClose() race.
ToldOnce == told = (IF status = "Disconnected" THEN 1 ELSE 0)

\* A postponed shutdown() is carried out.
ShutdownDone == closeOnEmpty ~> out # "open" \/ status = "Disconnected"
=============================================================================
