--------------------------- MODULE RequestBodies ----------------------------
(***************************************************************************)
(* A request whose handler may run before its body is there.  The loop     *)
(* receives the pieces of the body; a stream handler gives the request a   *)
(* reader, or drops its stream, at any time and from any thread; for any   *)
(* other handler the server waits until the body is complete.  The stream  *)
(* may break, by a parsing error or a lost connection.                     *)
(***************************************************************************)
EXTENDS Integers, Sequences, FiniteSets, SequencesExt

CONSTANT MaxPieces      \* pieces of the body

VARIABLES
  handlerKind,  \* isStreamHandler(): "stream" or "plain"
  streamStatus, \* streamStatus_
  pieces,       \* pieces received
  held,         \* content_ or the temporary file: pieces kept
  reader,       \* streamReaderPtr_: "none", "user", "null"
  exception,    \* streamExceptionPtr_ is set
  finishCb,     \* streamFinishCb_ is set
  handled,      \* "no"; "run": the handler ran; "waits"; "400"; "never"
  theStream,    \* the RequestStream: "none", "unset", "set" (isSet_), "queued"
  chosen,       \* the reader it was given
  heard,        \* what the user's reader was told
  plainBody     \* the body a plain handler was given

rsVars == <<handlerKind, streamStatus, pieces, held, reader, exception, finishCb,
            handled, theStream, chosen, heard, plainBody>>

Pieces == 1 .. MaxPieces
\* onStreamFinish(), without and with an exception.
End == 0
Failed == -1
Told == Pieces \cup {End, Failed}

RSTypeOK ==
  /\ handlerKind \in {"stream", "plain"} /\ streamStatus \in {"None", "Open", "Finish", "Error"}
  /\ pieces \in 0 .. MaxPieces /\ held \in Seq(Pieces) /\ reader \in {"none", "user", "null"}
  /\ {exception, finishCb} \subseteq BOOLEAN
  /\ handled \in {"no", "run", "waits", "400", "never"}
  /\ theStream \in {"none", "unset", "queued", "set"} /\ chosen \in {"none", "user", "null"}
  /\ heard \in Seq(Told) /\ plainBody \in Seq(Pieces)

\* streamStart(), when the headers are read.
RSInit ==
  /\ handlerKind \in {"stream", "plain"} /\ streamStatus = "Open" /\ pieces = 0
  /\ held = <<>> /\ reader = "none" /\ exception = FALSE /\ finishCb = FALSE
  /\ handled = "no" /\ theStream = "none" /\ chosen = "none" /\ heard = <<>>
  /\ plainBody = <<>>

Hear(what) == heard' = IF reader = "user" THEN heard \o what ELSE heard

\* appendToBody()
AppendToBody ==
  /\ streamStatus = "Open" /\ pieces < MaxPieces
  /\ pieces' = pieces + 1
  /\ IF reader # "none" THEN Hear(<<pieces + 1>>) /\ UNCHANGED held
                        ELSE held' = Append(held, pieces + 1) /\ UNCHANGED heard
  /\ UNCHANGED <<handlerKind, streamStatus, reader, exception, finishCb, handled, theStream,
                 chosen, plainBody>>

\* The functor of waitForStreamFinish(), or the end of the wait that was not
\* needed: quitStreamMode(), and the handler with the whole body.
RunPlain ==
  /\ handled' = "run" /\ plainBody' = held /\ finishCb' = FALSE /\ streamStatus' = "None"

\* streamFinish()
StreamFinish ==
  /\ streamStatus = "Open" /\ pieces = MaxPieces
  /\ IF finishCb THEN RunPlain
     ELSE streamStatus' = "Finish" /\ UNCHANGED <<handled, plainBody, finishCb>>
  /\ Hear(<<End>>) /\ reader' = "none"
  /\ UNCHANGED <<handlerKind, pieces, held, exception, theStream, chosen>>

\* streamError(): the parser's error, or the connection is gone.  A request that
\* was only parsed is then never handed on.
StreamError ==
  /\ streamStatus = "Open"
  /\ Hear(<<Failed>>) /\ reader' = "none"
  /\ exception' = (reader = "none")
  /\ streamStatus' = IF finishCb THEN "None" ELSE "Error"
  /\ finishCb' = FALSE
  /\ handled' = IF finishCb THEN "400" ELSE IF handled = "no" THEN "never" ELSE handled
  /\ UNCHANGED <<handlerKind, pieces, held, theStream, chosen, plainBody>>

\* A plausible bug: a plain handler runs with what is there.
MutMustWait == FALSE

MustWait == streamStatus # "Finish"

\* requestPostRouting(): a stream handler runs now, a plain one when the body is
\* complete.
PostRouting ==
  /\ handled = "no"
  /\ \/ /\ handlerKind = "stream"
        /\ handled' = "run" /\ theStream' = "unset"
        /\ UNCHANGED <<streamStatus, finishCb, plainBody>>
     \/ /\ handlerKind = "plain" /\ ~MustWait
        /\ RunPlain /\ UNCHANGED theStream
     \/ /\ handlerKind = "plain" /\ MustWait
        /\ handled' = "waits" /\ finishCb' = TRUE
        /\ UNCHANGED <<streamStatus, plainBody, theStream>>
  /\ UNCHANGED <<handlerKind, pieces, held, reader, exception, chosen, heard>>

\* A plausible bug: the reader is only told of what comes after it is set.
MutSetStreamReader(r) ==
  LET tell(what) == heard' = IF r = "user" THEN heard \o what ELSE heard IN
  \/ /\ exception
     /\ tell(<<Failed>>) /\ exception' = FALSE /\ UNCHANGED <<held, reader>>
  \/ /\ ~exception
     /\ tell(held) /\ held' = <<>> /\ reader' = r
     /\ UNCHANGED exception

\* setStreamReader(), on the loop's thread: what was kept goes first.
SetStreamReader(r) ==
  LET tell(what) == heard' = IF r = "user" THEN heard \o what ELSE heard IN
  \/ /\ exception
     /\ tell(<<Failed>>) /\ exception' = FALSE /\ UNCHANGED <<held, reader>>
  \/ /\ ~exception
     /\ held' = <<>>
     /\ IF streamStatus = "Finish"
          THEN tell(held \o <<End>>) /\ UNCHANGED reader
          ELSE tell(held) /\ reader' = r
     /\ UNCHANGED exception

\* The handler's RequestStream gets a reader, or is destroyed without one:
\* isSet_.exchange(true), and in the loop or by way of its queue.
UseStream(r, inLoop) ==
  /\ theStream = "unset"
  /\ chosen' = r
  /\ IF inLoop THEN theStream' = "set" /\ SetStreamReader(r)
     ELSE theStream' = "queued" /\ UNCHANGED <<held, reader, exception, heard>>
  /\ UNCHANGED <<handlerKind, streamStatus, pieces, finishCb, handled, plainBody>>

RunQueuedReader ==
  /\ theStream = "queued"
  /\ theStream' = "set" /\ SetStreamReader(chosen)
  /\ UNCHANGED <<handlerKind, streamStatus, pieces, finishCb, handled, chosen, plainBody>>

RSNext ==
  \/ AppendToBody \/ StreamFinish \/ StreamError \/ PostRouting \/ RunQueuedReader
  \/ \E r \in {"user", "null"}, l \in BOOLEAN : UseStream(r, l)

RSSpec == RSInit /\ [][RSNext]_rsVars

(***************************************************************************)
(* Properties.                                                             *)
(***************************************************************************)

Ends == SelectSeq(heard, LAMBDA x : x \in {End, Failed})
Data == SelectSeq(heard, LAMBDA x : x \in Pieces)
AllPieces == [i \in 1 .. pieces |-> i]

\* A reader that is attached has been told all that has happened, whether it was
\* attached before, between or after it: every piece, in order, then the end of
\* the stream, once.  A stream that broke is an error, with or without the
\* pieces before it; nothing follows the end.
ReaderServed ==
  theStream = "set" /\ chosen = "user" =>
    CASE streamStatus = "Open" -> heard = AllPieces
      [] streamStatus = "Finish" -> heard = AllPieces \o <<End>>
      [] streamStatus = "Error" -> /\ Ends = <<Failed>> /\ heard[Len(heard)] = Failed
                                   /\ Data = SubSeq(AllPieces, 1, Len(Data))
      [] OTHER -> FALSE

\* A handler that knows nothing of streams gets the whole body or does not run:
\* a request whose stream breaks while the server waits is answered with 400.
PlainGetsBody ==
  handlerKind = "plain" =>
    /\ handled = "run" => plainBody = [i \in 1 .. MaxPieces |-> i] /\ streamStatus = "None"
    /\ handled = "waits" => finishCb /\ streamStatus = "Open"
    /\ handled = "400" => exception /\ plainBody = <<>>

-----------------------------------------------------------------------------
(***************************************************************************)
(* The parser of a multipart body that arrives in pieces, and the reader   *)
(* around it.  The network may cut a boundary anywhere, so the parser      *)
(* holds back what may be the beginning of one.  Bytes are numbers; the    *)
(* boundary is one character, a header line is valid or not.               *)
(***************************************************************************)

CONSTANTS Forms,        \* the bodies a client may send, see Text
          MaxHeader     \* bytes after which an unfinished header line is refused

VARIABLES
  form,         \* the body of this request
  fed,          \* bytes given to parse()
  eaten,        \* ... of these, bytes erased from buffer_
  parsing,      \* parse() is running
  mstatus,      \* status_
  isValid,      \* isValid_
  isFinished,   \* isFinished_
  out,          \* calls of headerCb and dataCb, see Expected
  finishes      \* calls of finishCb

mpVars == <<form, fed, eaten, parsing, mstatus, isValid, isFinished, out, finishes>>

CR == 1
LF == 2
Hyphen == 3
Boundary == 4
Char == 5
Header == 6
BadHeader == 7
Crlf == <<CR, LF>>
DashBoundaryCrlf == <<Hyphen, Hyphen, Boundary>> \o Crlf
CrlfDashBoundary == Crlf \o <<Hyphen, Hyphen, Boundary>>

\* A form is [before, parts, after]: the text before the first boundary; the
\* parts, [head, content]; and what follows the last boundary.
PartText(p) == p.head \o Crlf \o Crlf \o p.content \o CrlfDashBoundary
Text(f) ==
  f.before \o DashBoundaryCrlf
  \o FlattenSeq([k \in DOMAIN f.parts |-> IF k = 1 THEN PartText(f.parts[k])
                                          ELSE Crlf \o PartText(f.parts[k])])
  \o f.after

MStates == {"kExpectFirstBoundary", "kExpectNewEntry", "kExpectHeader", "kExpectBody",
            "kExpectEndOrNewEntry"}

\* headerCb, and dataCb with no bytes.
HeaderCall == 0
EndCall == -1

MPTypeOK ==
  /\ form \in Forms /\ mstatus \in MStates /\ {parsing, isValid, isFinished} \subseteq BOOLEAN
  /\ 0 <= eaten /\ eaten <= fed /\ fed <= Len(Text(form))
  /\ out \in Seq(EndCall .. BadHeader)
  /\ finishes \in Seq({"ok", "invalid", "incomplete"})

MPInit ==
  /\ form \in Forms /\ fed = 0 /\ eaten = 0 /\ parsing = FALSE
  /\ mstatus = "kExpectFirstBoundary" /\ isValid = TRUE /\ isFinished = FALSE
  /\ out = <<>> /\ finishes = <<>>

View == SubSeq(Text(form), eaten + 1, fed)
Occurs(s, at) == at + Len(s) <= Len(View) /\ SubSeq(View, at + 1, at + Len(s)) = s
Positions(s) == {at \in 0 .. Len(View) : Occurs(s, at)}
Found(s) == Positions(s) # {}
Find(s) == CHOOSE at \in Positions(s) : \A b \in Positions(s) : at <= b

\* onStreamData(): parse() with n more bytes.  Nothing is read after an error
\* or the end.
OnStreamData(n) ==
  /\ ~parsing /\ fed + n <= Len(Text(form)) /\ finishes = <<>>
  /\ fed' = fed + n /\ parsing' = TRUE
  /\ UNCHANGED <<form, eaten, mstatus, isValid, isFinished, out, finishes>>

\* Steps of parse(): one goes on, the others return.
Continues(state, n) ==
  /\ mstatus' = state /\ eaten' = eaten + n
  /\ UNCHANGED <<parsing, isValid, isFinished, finishes>>

Returns == parsing' = FALSE /\ UNCHANGED <<mstatus, isValid, isFinished, finishes>>
WaitsFor == Returns /\ UNCHANGED <<eaten, out>>

Refuses ==
  /\ isValid' = FALSE /\ parsing' = FALSE /\ finishes' = Append(finishes, "invalid")
  /\ UNCHANGED <<eaten, mstatus, isFinished, out>>

\* A plausible bug: nothing of what may begin a boundary is kept.
MutKept(s) == 0

\* What is left in the buffer when the text was not found in it.
Kept(s) == Len(s)

FirstBoundary ==
  /\ mstatus = "kExpectFirstBoundary"
  /\ \/ Len(View) < Len(DashBoundaryCrlf) /\ WaitsFor
     \/ /\ Len(View) >= Len(DashBoundaryCrlf) /\ ~Found(DashBoundaryCrlf)
        /\ eaten' = fed - Kept(DashBoundaryCrlf) /\ Returns /\ UNCHANGED out
     \/ /\ Found(DashBoundaryCrlf)
        /\ Continues("kExpectNewEntry", Find(DashBoundaryCrlf) + Len(DashBoundaryCrlf))
        /\ UNCHANGED out

NewEntry == mstatus = "kExpectNewEntry" /\ Continues("kExpectHeader", 0) /\ UNCHANGED out

\* A header line; the empty one ends the headers.
HeaderLine ==
  /\ mstatus = "kExpectHeader"
  /\ \/ ~Found(Crlf) /\ Len(View) <= MaxHeader /\ WaitsFor
     \/ ~Found(Crlf) /\ Len(View) > MaxHeader /\ Refuses
     \/ /\ Found(Crlf) /\ Find(Crlf) = 0
        /\ Continues("kExpectBody", Len(Crlf)) /\ out' = Append(out, HeaderCall)
     \/ Found(Crlf) /\ Find(Crlf) > 0 /\ View[1] = BadHeader /\ Refuses
     \/ /\ Found(Crlf) /\ Find(Crlf) > 0 /\ View[1] # BadHeader
        /\ Continues("kExpectHeader", Find(Crlf) + Len(Crlf)) /\ UNCHANGED out

\* dataCb(): a call without bytes is the end of the part.
Calls(data) == IF data = <<>> THEN <<EndCall>> ELSE data

\* A plausible bug: the parser calls back when it holds all of the text back.
MutFlush(len) == out' = out \o Calls(SubSeq(View, 1, len)) /\ eaten' = eaten + len

\* What cannot be part of a boundary is handed on, unless it is nothing.
Flush(len) ==
  /\ out' = IF len > 0 THEN out \o Calls(SubSeq(View, 1, len)) ELSE out
  /\ eaten' = eaten + len

PartBody ==
  /\ mstatus = "kExpectBody"
  /\ \/ Len(View) < Len(CrlfDashBoundary) /\ WaitsFor
     \/ /\ Len(View) >= Len(CrlfDashBoundary) /\ ~Found(CrlfDashBoundary)
        /\ Flush(Len(View) - Kept(CrlfDashBoundary)) /\ Returns
     \/ /\ Found(CrlfDashBoundary)
        /\ LET pos == Find(CrlfDashBoundary) IN
           /\ out' = out \o Calls(SubSeq(View, 1, pos))
                         \o (IF pos > 0 THEN Calls(<<>>) ELSE <<>>)
           /\ Continues("kExpectEndOrNewEntry", pos + Len(CrlfDashBoundary))

EndOrNewEntry ==
  /\ mstatus = "kExpectEndOrNewEntry"
  /\ \/ Len(View) < 2 /\ WaitsFor
     \/ Occurs(Crlf, 0) /\ Continues("kExpectNewEntry", 2) /\ UNCHANGED out
     \/ /\ Occurs(<<Hyphen, Hyphen>>, 0)
        /\ isFinished' = TRUE /\ eaten' = fed /\ parsing' = FALSE
        /\ finishes' = Append(finishes, "ok")
        /\ UNCHANGED <<mstatus, isValid, out>>
     \/ Len(View) >= 2 /\ ~Occurs(Crlf, 0) /\ ~Occurs(<<Hyphen, Hyphen>>, 0) /\ Refuses

ParseStep ==
  /\ parsing
  /\ \/ View = <<>> /\ WaitsFor
     \/ /\ View # <<>>
        /\ FirstBoundary \/ NewEntry \/ HeaderLine \/ PartBody \/ EndOrNewEntry
  /\ UNCHANGED <<form, fed>>

\* onStreamFinish(): the request's body is complete.
OnStreamFinish ==
  /\ ~parsing /\ fed = Len(Text(form)) /\ finishes = <<>>
  /\ finishes' = Append(finishes, "incomplete")
  /\ UNCHANGED <<form, fed, eaten, parsing, mstatus, isValid, isFinished, out>>

MPNext == ParseStep \/ OnStreamFinish \/ \E n \in 1 .. Len(Text(form)) : OnStreamData(n)

MPSpec == MPInit /\ [][MPNext]_mpVars

(***************************************************************************)
(* Properties.                                                             *)
(***************************************************************************)

\* The calls that a form without faults calls for.
Expected == FlattenSeq([k \in DOMAIN form.parts |->
                          <<HeaderCall>> \o form.parts[k].content \o <<EndCall>>])

\* However the body was cut, the callbacks get the headers and the bytes of the
\* parts, each part ended once, with nothing of a boundary in it and nothing
\* missing: always a beginning of what the form says, and all of it at its end.
PartsIntact ==
  /\ IsPrefix(out, Expected)
  /\ finishes = <<"ok">> => out = Expected

Bad == \E k \in DOMAIN form.parts : form.parts[k].head[1] = BadHeader
Long == \E k \in DOMAIN form.parts : Len(form.parts[k].head) > MaxHeader

\* finishCb is called once, with what the form deserves: an error only for a
\* fault in it, "incomplete" only when its end is missing.  A long header line
\* is refused or not, by where it was cut.
FinishedForCause ==
  /\ Len(finishes) <= 1
  /\ finishes = <<"ok">> => ~Bad /\ IsPrefix(<<Hyphen, Hyphen>>, form.after)
  /\ finishes = <<"invalid">> => Bad \/ Long \/ ~IsPrefix(<<Hyphen, Hyphen>>, form.after)
  /\ finishes = <<"incomplete">> => ~Bad /\ Len(form.after) < 2
=============================================================================
