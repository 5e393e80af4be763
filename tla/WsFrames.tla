------------------------------ MODULE WsFrames ------------------------------
(***************************************************************************)
(* The WebSocket framing of Drogon, used by both ends: the header that     *)
(* sendWsData() writes for a length, and the parser that takes the stream  *)
(* apart however the network cuts it.  Header bytes are numbers, as on the *)
(* wire; a payload is known by its frame and its length.                   *)
(***************************************************************************)
EXTENDS Integers, Sequences, FiniteSets, SequencesExt

CONSTANTS Scripts,      \* sequences of frames a peer may send: records
                        \* [op, fin, masked, len]; none begins with op 0,
                        \* and none goes on after a message that is too long
          MaxMessage    \* getClientMaxWebSocketMessageSize()

VARIABLES
  script,       \* the frames of this connection
  arrived,      \* bytes that reached the buffer
  consumed,     \* ... of these, bytes that were retrieved from it
  parsing,      \* onNewMessage() is running
  message,      \* message_: the payloads <<frame, length>> joined so far
  msgType,      \* type_, as an opcode; -1: not initialised, see Scripts
  got,          \* messages handed to the callback: <<opcode, payloads>>
  pongs,        \* ... of these, pings that were answered
  shut          \* shutdown() was called

frVars == <<script, arrived, consumed, parsing, message, msgType, got, pongs, shut>>

Control == {8, 9, 10}
Known == {0, 1, 2} \cup Control

\* sendWsData(): the length in 7 bits, in 16, or in 64.
LengthBytes(len) ==
  CASE len <= 125 -> <<len>>
    [] len > 125 /\ len <= 65535 -> <<126, len \div 256, len % 256>>
    [] OTHER -> <<127, 0, 0, 0, 0, (len \div 16777216) % 256, (len \div 65536) % 256,
                  (len \div 256) % 256, len % 256>>

Header(f) ==
  LET lb == LengthBytes(f.len)
      mask == IF f.masked THEN 128 ELSE 0
  IN <<(IF f.fin THEN 128 ELSE 0) + f.op, mask + lb[1]>> \o Tail(lb)

Size(f) == 1 + Len(LengthBytes(f.len)) + (IF f.masked THEN 4 ELSE 0) + f.len

\* Where each frame of the script begins, and after the last one the end.
Offsets == FoldLeft(LAMBDA o, f : Append(o, Last(o) + Size(f)), <<0>>, script)
Offset(k) == Offsets[k]
Total == Last(Offsets)

\* The interesting places to cut the stream: around every header, mask and end.
Cuts ==
  LET at == Offsets
      around == UNION {{at[k] + d : d \in 1 .. Len(Header(script[k])) + 4}
                       \cup {at[k + 1] - 1, at[k + 1]} : k \in DOMAIN script}
  IN {c \in around : arrived < c /\ c <= Last(at)}

FRTypeOK ==
  /\ script \in Scripts /\ 0 <= consumed /\ consumed <= arrived /\ arrived <= Total
  /\ {parsing, shut} \subseteq BOOLEAN /\ msgType \in Known \cup {-1}
  /\ \A k \in DOMAIN message : message[k][1] \in DOMAIN script
  /\ pongs <= Len(got)

FRInit ==
  /\ script \in Scripts
  /\ arrived = 0 /\ consumed = 0 /\ parsing = FALSE /\ message = <<>>
  /\ msgType = -1 /\ got = <<>> /\ pongs = 0 /\ shut = FALSE

\* What is next in the buffer is the beginning of a frame, or nothing.  Only a
\* message that is too long (below) may leave it elsewhere; what is then taken
\* for frames, on a connection that is being closed, depends on the payload.
InStep == consumed \in ToSet(Offsets)

\* The peer's bytes arrive up to a cut, and onNewMessage() is called.
Receive(upto) ==
  /\ ~parsing
  /\ arrived' = upto /\ parsing' = TRUE
  /\ UNCHANGED <<script, consumed, message, msgType, got, pongs, shut>>

Readable == arrived - consumed

\* The header byte that the parser reads at index i.  It only looks at headers,
\* and never past what has arrived.
Here == SelectInSeq(Offsets, LAMBDA o : consumed < o) - 1
Byte(i) == LET k == Here IN Header(script[k])[consumed + i - Offset(k) + 1]

IndexFirstMask == CASE Byte(1) % 128 = 126 -> 4
                    [] Byte(1) % 128 = 127 -> 10
                    [] OTHER -> 2

\* A plausible bug: a byte of the length is taken as signed.
MutLength ==
  CASE IndexFirstMask = 2 -> Byte(1) % 128
    [] IndexFirstMask = 4 -> (Byte(2) * 256) + (IF Byte(3) >= 128 THEN Byte(3) - 256 ELSE Byte(3))
    [] OTHER -> FoldLeft(LAMBDA n, i : n * 256 + Byte(i), 0, <<2, 3, 4, 5, 6, 7, 8, 9>>)

Length ==
  CASE IndexFirstMask = 2 -> Byte(1) % 128
    [] IndexFirstMask = 4 -> Byte(2) * 256 + Byte(3)
    [] OTHER -> FoldLeft(LAMBDA n, i : n * 256 + Byte(i), 0, <<2, 3, 4, 5, 6, 7, 8, 9>>)

Opcode == Byte(0) % 16
IsFin == Byte(0) >= 128
Needs == IndexFirstMask + (IF Byte(1) >= 128 THEN 4 ELSE 0) + Length

\* A plausible bug: a control frame may be fragmented.
MutBadFrame ==
  \/ Opcode \notin Known
  \/ Opcode \in Control /\ IndexFirstMask > 2 /\ Readable >= IndexFirstMask

BadFrame ==
  \/ Opcode \notin Known
  \/ Opcode \in Control /\ ~IsFin
  \/ Opcode \in Control /\ IndexFirstMask > 2 /\ Readable >= IndexFirstMask

\* A masked frame, which a client sends, is longer than the limit.
TooLong == Readable >= IndexFirstMask /\ Byte(1) >= 128 /\ Length > MaxMessage

\* Not enough data yet.
Waits == Readable < IndexFirstMask \/ (~TooLong /\ Readable < Needs)

\* type_ is set before the frame is known to be complete.
NewType == IF Opcode \in Known \ {0} THEN Opcode ELSE msgType

\* Back to the caller: fewer than two bytes, a frame that has not all arrived,
\* or an error, which leaves the frame in the buffer and closes; or a message
\* that is too long, which empties the buffer.
Return ==
  /\ parsing
  /\ \/ Readable < 2 /\ UNCHANGED <<msgType, shut, consumed>>
     \/ /\ Readable >= 2 /\ BadFrame
        /\ msgType' = NewType /\ shut' = TRUE /\ UNCHANGED consumed
     \/ /\ Readable >= 2 /\ ~BadFrame /\ Waits
        /\ msgType' = NewType /\ UNCHANGED <<shut, consumed>>
     \/ /\ Readable >= 2 /\ ~BadFrame /\ TooLong
        /\ msgType' = NewType /\ shut' = TRUE /\ consumed' = arrived
  /\ parsing' = FALSE
  /\ UNCHANGED <<script, arrived, message, got, pongs>>

\* A whole frame: its payload joins message_, and the last of a message hands it
\* on.  A ping is answered, a close closes, and the callback hears of both.
Frame ==
  /\ parsing /\ Readable >= 2 /\ ~BadFrame /\ ~Waits /\ ~TooLong
  /\ consumed' = consumed + Needs
  /\ msgType' = NewType
  /\ LET joined == Append(message, <<Here, Length>>) IN
     \/ ~IsFin /\ message' = joined /\ UNCHANGED <<got, pongs, shut>>
     \/ /\ IsFin /\ message' = <<>> /\ got' = Append(got, <<NewType, joined>>)
        /\ pongs' = IF NewType = 9 THEN pongs + 1 ELSE pongs
        /\ shut' = (shut \/ NewType = 8)
  /\ UNCHANGED <<script, arrived, parsing>>

FRNext == Return \/ Frame \/ (InStep /\ \E c \in Cuts : Receive(c))

FRSpec == FRInit /\ [][FRNext]_frVars

(***************************************************************************)
(* Properties.                                                             *)
(***************************************************************************)

\* What the peer meant with the first n frames: every control frame is a message
\* of its own, the data frames up to a final one are one message (RFC 6455, 5.4
\* and 5.5, which the parser refers to).  It ends at a frame that is an error.
Whole(k) == script[k].op \in Control \/ script[k].fin
Parts(k) ==
  IF script[k].op \in Control THEN {k}
  ELSE {j \in 1 .. k : script[j].op \notin Control
                       /\ \A i \in j .. k - 1 : (script[i].op \in Control \/ ~script[i].fin)}
Wrong(k) == \/ script[k].op \notin Known
            \/ script[k].op \in Control /\ (~script[k].fin \/ script[k].len > 125)
            \/ script[k].masked /\ script[k].len > MaxMessage
Meant(n) ==
  LET ends == {k \in 1 .. n : Whole(k) /\ ~\E j \in 1 .. k : Wrong(j)}
      Msg(k) == LET parts == SetToSortSeq(Parts(k), <) IN
                <<script[parts[1]].op, [i \in DOMAIN parts |-> <<parts[i], script[parts[i]].len>>]>>
  IN [i \in 1 .. Cardinality(ends) |-> Msg(SetToSortSeq(ends, <)[i])]

\* The frames that have arrived whole.
Complete == Cardinality({k \in DOMAIN script : Offset(k + 1) <= arrived})

\* A control frame between the fragments of a message, which RFC 6455 allows.
\* The parser has one message_ and one type_ for both.
Between(k) ==
  /\ script[k].op \in Control
  /\ \E j \in 1 .. k - 1 : /\ script[j].op \notin Control /\ ~script[j].fin
                            /\ \A i \in j + 1 .. k - 1 : script[i].op \in Control
Unmixed(n) == Cardinality({k \in 1 .. n : ~\E j \in 1 .. k : Between(j)})

\* However the network cut the stream, when onNewMessage() returns the callback
\* has had exactly the messages of the frames that arrived whole: none is late,
\* split, merged or of another length or type.  It holds up to a control frame
\* that comes between two fragments: from there on the code hands the fragments
\* over with the control frame's payload, as a message of its type.
MessagesIntact ==
  ~parsing => LET n == Unmixed(Complete) IN
              IF n = Complete THEN got = Meant(n) ELSE IsPrefix(Meant(n), got)

\* A frame that breaks the rules closes the connection as soon as its header can
\* be read, and a connection is closed for no other reason than that or the
\* peer's own close.
ShutForCause ==
  ~parsing => (shut <=> \E k \in DOMAIN script :
                 /\ \A j \in 1 .. k - 1 : ~Wrong(j)
                 /\ \/ Wrong(k) /\ arrived >= Offset(k) + (IF script[k].len > 125 THEN Len(Header(script[k])) ELSE 2)
                    \/ script[k].op = 8 /\ ~Wrong(k) /\ arrived >= Offset(k + 1))
=============================================================================
