--------------------------- MODULE TlsConnection ---------------------------
(***************************************************************************)
(* A Trantor connection over OpenSSL: what the application sends goes      *)
(* through SSL_write() and comes out as records, the part of a record that *)
(* the socket does not take waits in the provider's buffer, and everything *)
(* behind it in the connection's list.  A record is its header and the     *)
(* bytes it carries; OpenSSL itself is what the provider relies on: it     *)
(* turns a write into a record and a flight of the peer into an answer.    *)
(***************************************************************************)
EXTENDS Integers, Sequences, FiniteSets, SequencesExt, FiniteSetsExt

CONSTANTS MaxSend,    \* maxSend, the bytes of one SSL_write()
          MaxRoom,    \* bytes the kernel's send buffer holds
          MaxBytes,   \* bound: bytes sent by the application
          Sizes,      \* how much a call sends
          Flights     \* flights that are expected from the peer

VARIABLES
  status,         \* status_
  shake,          \* flights that are still to come; 0: the handshake is finished
  list,           \* writeBufferList_: [file, bytes]
  buf,            \* writeBuffer_: of records, what the socket did not take
  writing,        \* ioChannelPtr_->isWriting()
  closeOnEmpty,
  out,            \* the socket's sending half: "open", "shut", "broken"
  room, wire,
  records,        \* records written by OpenSSL
  taken,          \* bytes that the connection accepted, in order
  failed,         \* a write failed, or the connection was ended by force
  errors,         \* times that the error callback was called
  told            \* <<times that the connection came up, went down>>

tlVars == <<status, shake, list, buf, writing, closeOnEmpty, out, room, wire,
            records, taken, failed, errors, told>>

TLInit ==
  /\ status = "Connecting" /\ shake = Flights /\ list = <<>> /\ buf = <<>>
  /\ writing = FALSE /\ closeOnEmpty = FALSE /\ out = "open" /\ room = MaxRoom /\ wire = <<>>
  /\ records = 0 /\ taken = <<>> /\ failed = FALSE /\ errors = 0 /\ told = <<0, 0>>

\* Record k: a header, and what it carries.
Record(k, bytes) == <<[record |-> k, byte |-> 0]>> \o [i \in DOMAIN bytes |-> [record |-> k, byte |-> bytes[i]]]

(***************************************************************************)
(* The provider.  Each operator gives what becomes of the output, a record *)
(* [buf, writing, room, wire, records, ok].                                *)
(***************************************************************************)
Output == [buf |-> buf, writing |-> writing, room |-> room, wire |-> wire,
           records |-> records, ok |-> TRUE]

Set(o) == /\ buf' = o.buf /\ writing' = o.writing /\ room' = o.room /\ wire' = o.wire
          /\ records' = o.records

Broken == out # "open"

\* A plausible bug: nobody waits for the socket.
MutWriteRaw(o, bytes) ==
  LET n == Min({Len(bytes), o.room}) IN
  [o EXCEPT !.wire = @ \o SubSeq(bytes, 1, n), !.room = @ - n]

\* writeRaw(): the bytes that fit are written; with any left the channel waits for
\* the socket.
WriteRaw(o, bytes) ==
  LET n == Min({Len(bytes), o.room}) IN
  [o EXCEPT !.wire = @ \o SubSeq(bytes, 1, n), !.room = @ - n,
            !.writing = @ \/ n < Len(bytes)]

\* A plausible bug: what the socket did not take is dropped.
MutSendTLSData(o, bytes) ==
  IF bytes = <<>> \/ Broken THEN [o EXCEPT !.ok = bytes = <<>>] ELSE WriteRaw(o, bytes)

\* sendTLSData(): what OpenSSL has written goes out, or into the buffer.
SendTLSData(o, bytes) ==
  IF bytes = <<>> \/ Broken THEN [o EXCEPT !.ok = bytes = <<>>]
  ELSE LET p == WriteRaw(o, bytes)
       IN [p EXCEPT !.buf = @ \o SubSeq(bytes, Len(p.wire) - Len(o.wire) + 1, Len(bytes))]

\* A flight of the handshake, or an alert.
SendRecord(o) == [SendTLSData(o, Record(o.records + 1, <<>>)) EXCEPT !.records = @ + 1]

\* A plausible bug: what is waiting in the buffer is overtaken.
MutMayWrite(o) == TRUE

MayWrite(o) == o.buf = <<>>

\* sendData(): one record after the other, until the socket is full.  [output, sent]
RECURSIVE SendData(_, _, _)
SendData(o, bytes, sent) ==
  IF bytes = <<>> \/ ~MayWrite(o) \/ ~o.ok THEN [output |-> o, sent |-> sent]
  ELSE LET n == Min({Len(bytes), MaxSend})
           p == [SendTLSData(o, Record(o.records + 1, SubSeq(bytes, 1, n))) EXCEPT !.records = @ + 1]
       IN SendData(p, SubSeq(bytes, n + 1, Len(bytes)), IF p.ok THEN sent + n ELSE sent)

Write(o, bytes) == SendData(o, bytes, 0)

(***************************************************************************)
(* The connection.                                                         *)
(***************************************************************************)
Rest(bytes, sent) == SubSeq(bytes, sent + 1, Len(bytes))

\* sendInLoop()
SendInLoop(bytes) ==
  LET direct == ~writing /\ list = <<>>
      w == IF direct THEN Write(Output, bytes) ELSE [output |-> Output, sent |-> 0]
      left == Rest(bytes, w.sent)
  IN /\ Set(w.output) /\ failed' = (failed \/ ~w.output.ok)
     /\ taken' = IF w.output.ok THEN taken \o bytes ELSE taken
     /\ list' = CASE left = <<>> \/ ~w.output.ok -> list
                  [] left # <<>> /\ w.output.ok /\ (list = <<>> \/ Last(list).file) ->
                       Append(list, [file |-> FALSE, bytes |-> left])
                  [] OTHER -> [list EXCEPT ![Len(list)].bytes = @ \o left]

\* sendFile(): behind what is in the list, but not behind what the channel waits for;
\* sendData() itself holds it back then.
SendFile(bytes) ==
  LET w == IF list = <<>> THEN Write(Output, bytes) ELSE [output |-> Output, sent |-> 0]
      left == Rest(bytes, w.sent)
  IN /\ Set(w.output) /\ failed' = (failed \/ ~w.output.ok)
     /\ taken' = IF w.output.ok THEN taken \o bytes ELSE taken
     /\ list' = IF left = <<>> \/ ~w.output.ok THEN list
                ELSE Append(list, [file |-> TRUE, bytes |-> left])

Send(file, n) ==
  LET bytes == [i \in 1 .. n |-> Len(taken) + i] IN
  /\ status = "Connected" /\ told[1] = 1 /\ ~failed /\ Len(taken) + n <= MaxBytes
  /\ IF file THEN SendFile(bytes) ELSE SendInLoop(bytes)
  /\ UNCHANGED <<status, shake, closeOnEmpty, out, errors, told>>

\* A plausible bug: only the list is asked.
MutWaits(b, l) == l # <<>>

\* Something has still to be sent before the connection may be closed.
Waits(b, l) == b # <<>> \/ l # <<>>

\* shutdown(), where o and l are the output and the list by then: postponed, or the
\* alert is sent and the socket shut, unless it is waited for.
Shutdown(o, l) ==
  IF status # "Connected" THEN Set(o) /\ UNCHANGED <<status, closeOnEmpty, out>>
  ELSE IF Waits(o.buf, l)
  THEN Set(o) /\ closeOnEmpty' = TRUE /\ UNCHANGED <<status, out>>
  ELSE LET p == IF shake = 0 THEN SendRecord(o) ELSE o
       IN /\ Set(p) /\ status' = "Disconnecting" /\ UNCHANGED closeOnEmpty
          /\ out' = IF ~p.writing /\ out = "open" THEN "shut" ELSE out

CallShutdown ==
  /\ Shutdown(Output, list) /\ told[1] = 1 /\ status = "Connected"
  /\ UNCHANGED <<shake, list, taken, failed, errors, told>>

\* writeCallback(): the buffer first, then node by node.
RECURSIVE WriteNodes(_, _)
WriteNodes(o, l) ==
  IF l = <<>> THEN [output |-> o, list |-> l]
  ELSE LET w == Write(o, l[1].bytes)
           left == Rest(l[1].bytes, w.sent)
       IN IF left # <<>> \/ ~w.output.ok
          THEN [output |-> w.output, list |-> <<[l[1] EXCEPT !.bytes = left]>> \o Tail(l)]
          ELSE WriteNodes(w.output, Tail(l))

WriteCallback ==
  /\ writing /\ (room > 0 \/ Broken)
  /\ LET flushed == IF buf = <<>> THEN Output
                    ELSE IF Broken THEN [Output EXCEPT !.ok = FALSE]
                    ELSE LET p == WriteRaw([Output EXCEPT !.buf = <<>>], buf)
                         IN [p EXCEPT !.buf = Rest(buf, Len(p.wire) - Len(wire))]
         w == IF flushed.buf = <<>> /\ flushed.ok THEN WriteNodes(flushed, list)
              ELSE [output |-> flushed, list |-> list]
         done == w.output.ok /\ ~Waits(w.output.buf, w.list)
         o == [w.output EXCEPT !.writing = @ /\ ~done]
     IN /\ list' = w.list /\ failed' = (failed \/ ~o.ok)
        /\ IF done /\ closeOnEmpty THEN Shutdown(o, w.list)
           ELSE Set(o) /\ UNCHANGED <<status, closeOnEmpty, out>>
  /\ UNCHANGED <<shake, taken, errors, told>>

(***************************************************************************)
(* The peer.                                                               *)
(***************************************************************************)
\* connectEstablished() and startEncryption(): a client says hello.
Established(client) ==
  /\ status = "Connecting" /\ status' = "Connected"
  /\ Set(IF client THEN SendRecord(Output) ELSE Output)
  /\ UNCHANGED <<shake, list, closeOnEmpty, out, taken, failed, errors, told>>

Listens == status = "Connected" \/ status = "Disconnecting"

\* A flight of the peer, which has all that was sent before: processHandshake().  The
\* connection callback comes before the last flight goes out.
Flight ==
  /\ Listens /\ shake > 0 /\ buf = <<>> /\ out # "broken" /\ shake' = shake - 1
  /\ Set(SendRecord(Output)) /\ told' = IF shake = 1 THEN [told EXCEPT ![1] = @ + 1] ELSE told
  /\ UNCHANGED <<status, list, closeOnEmpty, out, taken, failed, errors>>

\* Something that is no TLS: handleSSLError() sends OpenSSL's alert, calls back and
\* closes by force.  During the handshake shutdown() comes first, and an alert that
\* follows it is not sent any more.
HandleSSLError ==
  LET shuts == shake > 0 /\ status = "Connected" /\ ~Waits(buf, list) /\ ~writing
      o == IF shuts THEN Output ELSE SendRecord(Output)
  IN /\ Listens /\ status' = "Disconnected" /\ failed' = TRUE /\ errors' = errors + 1
     /\ Set([o EXCEPT !.writing = FALSE])
     /\ out' = IF shuts /\ out = "open" THEN "shut" ELSE out
     /\ closeOnEmpty' = (closeOnEmpty \/ (shake > 0 /\ status = "Connected" /\ Waits(buf, list)))
     /\ told' = [told EXCEPT ![2] = @ + 1]
     /\ UNCHANGED <<shake, list, taken>>

\* The peer's close alert: processApplicationData() shuts down as well.
CloseAlert ==
  /\ Listens /\ shake = 0 /\ Shutdown(Output, list)
  /\ UNCHANGED <<shake, list, taken, failed, errors, told>>

PeerReads ==
  /\ room < MaxRoom /\ out # "broken" /\ room' = MaxRoom
  /\ UNCHANGED <<status, shake, list, buf, writing, closeOnEmpty, out, wire, records,
                 taken, failed, errors, told>>

PeerResets ==
  /\ out = "open" /\ status # "Connecting" /\ out' = "broken"
  /\ UNCHANGED <<status, shake, list, buf, writing, closeOnEmpty, room, wire, records,
                 taken, failed, errors, told>>

\* readCallback() reads the end: handleClose().
ReadEnd ==
  /\ Listens /\ status' = "Disconnected" /\ writing' = FALSE
  /\ told' = [told EXCEPT ![2] = @ + 1]
  /\ UNCHANGED <<shake, list, buf, closeOnEmpty, out, room, wire, records, taken, failed, errors>>

TLNext ==
  \/ \E client \in BOOLEAN : Established(client)
  \/ \E n \in Sizes, file \in BOOLEAN : Send(file, n)
  \/ CallShutdown \/ WriteCallback \/ Flight \/ HandleSSLError \/ CloseAlert
  \/ PeerReads \/ PeerResets \/ ReadEnd

TLSpec == TLInit /\ [][TLNext]_tlVars

(***************************************************************************)
(* Properties.                                                             *)
(***************************************************************************)
TLTypeOK ==
  /\ status \in {"Connecting", "Connected", "Disconnecting", "Disconnected"}
  /\ shake \in 0 .. Flights /\ room \in 0 .. MaxRoom /\ errors \in 0 .. 1
  /\ {writing, closeOnEmpty, failed} \subseteq BOOLEAN /\ out \in {"open", "shut", "broken"}

\* What goes out is whole records, one after the other, and they carry exactly what
\* the application sent, in order, however little the socket takes at a time: what
\* was written, what is buffered and what is listed.
RecordsWhole ==
  ~failed =>
    LET all == wire \o buf
        plain == SelectSeq(all, LAMBDA u : u.byte # 0)
    IN /\ \A i \in 1 .. Len(all) - 1 : all[i + 1].record = all[i].record + (IF all[i + 1].byte = 0 THEN 1 ELSE 0)
       /\ [i \in DOMAIN plain |-> plain[i].byte]
            \o FlattenSeq([i \in DOMAIN list |-> list[i].bytes]) = taken

\* While something has still to go out, the channel waits for the socket.
TlsNoStall == status = "Connected" /\ ~failed /\ (buf # <<>> \/ list # <<>>) => writing

\* The socket is shut only when all is out, the alert included:
\* neither a record of which a part is buffered nor a file in the list is cut off.
TlsShutAfterFlush == out = "shut" /\ ~failed =>
  buf = <<>> /\ list = <<>>

\* The application hears once that the connection is there, after the handshake, and
\* once that it is gone.
TlsToldOnce ==
  /\ told[1] = IF shake = 0 THEN 1 ELSE 0
  /\ told[2] = IF status = "Disconnected" THEN 1 ELSE 0
=============================================================================
