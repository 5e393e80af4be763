---------------------------- MODULE HttpParsers -----------------------------
(***************************************************************************)
(* The parser of HTTP requests: a state machine that stops wherever the    *)
(* network cut the stream and goes on there with the next read.  The       *)
(* stream is a sequence of items (a method, lines, a body, chunks), known  *)
(* by their length in bytes; a line is read once its CRLF has arrived, a   *)
(* body as its bytes come.  Lines are shorter than the parser's limits,    *)
(* and only a request without a body has a header line without a colon.    *)
(***************************************************************************)
EXTENDS Integers, Sequences, FiniteSets, SequencesExt

CONSTANTS Streams,      \* sequences of requests a client may send
          MaxBody       \* getClientMaxBodySize()

VARIABLES
  stream,       \* the requests of this connection
  came,         \* bytes that reached the buffer
  used,         \* ... of these, bytes that were retrieved from it
  inRead,       \* onMessage() is running
  pstatus,      \* status_
  remain,       \* remainContentLength_
  chunk,        \* currentChunkLength_
  body,         \* bytes appended to the current request's body
  parsed,       \* requests parsed: <<request, length of its body>>
  replies,      \* replies written by the parser or for it: <<request, code>>
  pstop         \* stop() was called

hpVars == <<stream, came, used, inRead, pstatus, remain, chunk, body, parsed,
            replies, pstop>>

\* A request is [ok, line, v11, colon, clen, num, te, chunks, crlf, trailer,
\* expect]: are its method and its request line valid, and of HTTP/1.1; have all
\* header lines a colon; the content-length (-1: none); are that and the lengths
\* of chunks numbers; is it "chunked", or of another transfer encoding; the
\* chunks; do their ends hold a CRLF; does a trailer field follow the last one;
\* and is there an Expect header.
Line(n) == [what |-> "line", n |-> n]
Items(r) ==
  <<[what |-> "method", n |-> 2], Line(3)>>
  \o (IF r.clen >= 0 \/ r.te # "" THEN <<Line(4)>> ELSE <<>>)
  \o (IF r.colon THEN <<>> ELSE <<[what |-> "bare", n |-> 3]>>)
  \o <<[what |-> "blank", n |-> 2]>>
  \o (IF r.clen > 0 THEN <<[what |-> "body", n |-> r.clen]>> ELSE <<>>)
  \o (IF r.clen < 0 /\ r.te = "chunked"
        THEN FlattenSeq([k \in DOMAIN r.chunks |-> <<Line(3), [what |-> "chunk", n |-> r.chunks[k] + 2]>>])
             \o <<Line(3)>> \o (IF r.trailer THEN <<Line(3)>> ELSE <<>>) \o <<[what |-> "last", n |-> 2]>>
        ELSE <<>>)

AllItems == FlattenSeq([k \in DOMAIN stream |-> Items(stream[k])])
Owner == FlattenSeq([k \in DOMAIN stream |-> [i \in DOMAIN Items(stream[k]) |-> k]])

\* Where each item ends, and the stream.
Ends ==
  LET items == AllItems
      end[i \in 0 .. Len(items)] == IF i = 0 THEN 0 ELSE end[i - 1] + items[i].n
  IN [i \in DOMAIN items |-> end[i]]
Total == Last(Ends)

PStates == {"kExpectMethod", "kExpectRequestLine", "kExpectHeaders", "kExpectBody",
            "kExpectChunkLen", "kExpectChunkBody", "kExpectLastEmptyChunk", "kGotAll"}

HPTypeOK ==
  /\ stream \in Streams /\ pstatus \in PStates /\ {inRead, pstop} \subseteq BOOLEAN
  /\ 0 <= used /\ used <= came
  /\ remain \in 0 .. MaxBody /\ chunk \in 0 .. MaxBody /\ body \in 0 .. MaxBody

HPInit ==
  /\ stream \in Streams
  /\ came = 0 /\ used = 0 /\ inRead = FALSE /\ pstatus = "kExpectMethod"
  /\ remain = 0 /\ chunk = 0 /\ body = 0 /\ parsed = <<>> /\ replies = <<>>
  /\ pstop = FALSE

\* The item at the front of the buffer, and the request it belongs to.
At == SelectInSeq(Ends, LAMBDA e : used < e)
Item == AllItems[At]
Req == stream[Owner[At]]
Available == came - used

\* The line, or what ends in a CRLF, has all arrived.
Whole == came >= Ends[At]

\* A read: n more bytes, and onMessage().
Read(n) ==
  /\ ~inRead
  /\ came' = came + n
  /\ inRead' = TRUE
  /\ UNCHANGED <<stream, used, pstatus, remain, chunk, body, parsed, replies, pstop>>

Rest == came' = came /\ stream' = stream

\* onMessage() is over, for want of bytes.
Waits ==
  /\ inRead' = FALSE
  /\ UNCHANGED <<used, pstatus, remain, chunk, body, parsed, replies, pstop>>

\* The blank line of a request that a line without a colon has ended: it is
\* taken for the beginning of the next request's method.
Stray == pstatus = "kExpectMethod" /\ Item.what = "blank"

\* A negative result: a reply on the spot, and nothing is read any more.
Fails(code) ==
  /\ replies' = Append(replies, <<Owner[At] + (IF Stray THEN 1 ELSE 0), code>>)
  /\ pstop' = TRUE /\ used' = came /\ inRead' = FALSE
  /\ UNCHANGED <<pstatus, remain, chunk, body, parsed>>

Goes(state, n) == pstatus' = state /\ used' = used + n

\* A plausible bug: reset() keeps the length of the last request.
MutGotAll(n, size) ==
  /\ parsed' = Append(parsed, <<Owner[At], size>>)
  /\ Goes("kExpectMethod", n)
  /\ body' = 0 /\ chunk' = 0
  /\ UNCHANGED <<remain, inRead, replies, pstop>>

\* The result 1, and reset() for the next request.
GotAll(n, size) ==
  /\ parsed' = Append(parsed, <<Owner[At], size>>)
  /\ Goes("kExpectMethod", n)
  /\ remain' = 0 /\ body' = 0 /\ chunk' = 0
  /\ UNCHANGED <<inRead, replies, pstop>>

ExpectMethod ==
  /\ pstatus = "kExpectMethod"
  /\ \/ ~Stray /\ ~Whole /\ Waits
     \/ Stray /\ (At = Len(Ends) \/ came < Ends[At + 1]) /\ Waits
     \/ Stray /\ At < Len(Ends) /\ came >= Ends[At + 1] /\ Fails(405)
     \/ ~Stray /\ Whole /\ ~Req.ok /\ Fails(405)
     \/ /\ ~Stray /\ Whole /\ Req.ok /\ Goes("kExpectRequestLine", Item.n)
        /\ UNCHANGED <<remain, chunk, body, inRead, parsed, replies, pstop>>

ExpectRequestLine ==
  /\ pstatus = "kExpectRequestLine"
  /\ \/ ~Whole /\ Waits
     \/ Whole /\ ~Req.line /\ Fails(400)
     \/ /\ Whole /\ Req.line /\ Goes("kExpectHeaders", Item.n)
        /\ UNCHANGED <<remain, chunk, body, inRead, parsed, replies, pstop>>

\* A header line; or one without a colon, as the blank one is, after which the
\* headers decide: a content-length sets remainContentLength_, which reset() had
\* cleared.
Length == IF Req.clen >= 0 THEN Req.clen ELSE remain

TooLarge(n) == n > MaxBody

HeaderError ==
  LET continue == Req.expect = "100-continue" /\ Req.v11 IN
  CASE Req.clen >= 0 /\ ~Req.num -> 400
    [] Req.clen < 0 /\ Req.te \notin {"", "chunked"} -> 501
    [] TooLarge(Length) -> 413
    [] continue /\ Length = 0 -> 400
    [] ~continue /\ Req.expect # "" -> 417
    [] OTHER -> 0

EndOfHeaders == Item.what \in {"blank", "bare"}

ExpectHeaders ==
  /\ pstatus = "kExpectHeaders"
  /\ \/ ~Whole /\ Waits
     \/ /\ Whole /\ Item.what = "line" /\ Goes("kExpectHeaders", Item.n)
        /\ UNCHANGED <<remain, chunk, body, inRead, parsed, replies, pstop>>
     \/ Whole /\ EndOfHeaders /\ HeaderError # 0 /\ Fails(HeaderError)
     \/ /\ Whole /\ EndOfHeaders /\ HeaderError = 0
        /\ IF Req.clen = 0 \/ (Req.clen < 0 /\ Req.te = "")
             THEN GotAll(Item.n, 0)
             ELSE /\ Goes(IF Req.clen > 0 THEN "kExpectBody" ELSE "kExpectChunkLen", Item.n)
                  /\ remain' = Length
                  /\ replies' = IF Req.expect = "" THEN replies
                                ELSE Append(replies, <<Owner[At], 100>>)
                  /\ UNCHANGED <<chunk, body, inRead, parsed, pstop>>

\* A plausible bug: all that is there is taken for the body.
MutTakes == Available

Takes == IF remain <= Available THEN remain ELSE Available

ExpectBody ==
  /\ pstatus = "kExpectBody"
  /\ IF remain = Takes
       THEN GotAll(Takes, body + Takes)
       ELSE /\ Goes(pstatus, Takes) /\ body' = body + Takes
            /\ remain' = remain - Takes /\ inRead' = FALSE
            /\ UNCHANGED <<chunk, parsed, replies, pstop>>

\* The chunk whose length line is next: as many as were used before it.
ChunkNo == Cardinality({i \in 1 .. At : Owner[i] = Owner[At] /\ AllItems[i].what = "chunk"}) + 1

\* strtol() reads what is not a number as 0, the length of the last one.
ChunkLength == IF Req.num /\ ChunkNo <= Len(Req.chunks) THEN Req.chunks[ChunkNo] ELSE 0

ExpectChunkLen ==
  /\ pstatus = "kExpectChunkLen"
  /\ \/ ~Whole /\ Waits
     \/ /\ Whole /\ ChunkLength # 0
        /\ IF TooLarge(ChunkLength + remain) THEN Fails(413)
           ELSE /\ chunk' = ChunkLength /\ Goes("kExpectChunkBody", Item.n)
                /\ UNCHANGED <<remain, body, inRead, parsed, replies, pstop>>
     \/ /\ Whole /\ ChunkLength = 0
        /\ chunk' = 0 /\ Goes("kExpectLastEmptyChunk", Item.n)
        /\ UNCHANGED <<remain, body, inRead, parsed, replies, pstop>>

ExpectChunkBody ==
  /\ pstatus = "kExpectChunkBody"
  /\ \/ Available < chunk + 2 /\ Waits
     \/ Available >= chunk + 2 /\ ~Req.crlf /\ Fails(400)
     \/ /\ Available >= chunk + 2 /\ Req.crlf
        /\ body' = body + chunk /\ remain' = remain + chunk /\ chunk' = 0
        /\ Goes("kExpectChunkLen", chunk + 2)
        /\ UNCHANGED <<inRead, parsed, replies, pstop>>

ExpectLastEmptyChunk ==
  /\ pstatus = "kExpectLastEmptyChunk"
  /\ \/ Available < 2 /\ Waits
     \/ Available >= 2 /\ Item.what # "last" /\ Fails(400)
     \/ Available >= 2 /\ Item.what = "last" /\ GotAll(2, body)

\* onMessage(): nothing is read once the parser was stopped; and with an empty
\* buffer, between two requests, the loop ends.
Stopped == pstop \/ (Available = 0 /\ pstatus = "kExpectMethod")

Ignore ==
  /\ Stopped
  /\ inRead' = FALSE /\ used' = came
  /\ UNCHANGED <<pstatus, remain, chunk, body, parsed, replies, pstop>>

Parse ==
  /\ inRead /\ Rest
  /\ \/ Ignore
     \/ /\ ~Stopped
        /\ \/ ExpectMethod \/ ExpectRequestLine \/ ExpectHeaders \/ ExpectBody
           \/ ExpectChunkLen \/ ExpectChunkBody \/ ExpectLastEmptyChunk

HPNext == Parse \/ \E n \in 1 .. Total - came : Read(n)

HPSpec == HPInit /\ [][HPNext]_hpVars

(***************************************************************************)
(* Properties.                                                             *)
(***************************************************************************)

\* What a request means, by itself: the reply that refuses it, or 0.  (The parser
\* wants no trailer field, although chunked bodies may have one.)
ChunkSum(r, k) == FoldLeft(LAMBDA n, c : n + c, 0, SubSeq(r.chunks, 1, k))
Chunked(r) == r.clen < 0 /\ r.te = "chunked"
BodyOf(r) == IF Chunked(r) THEN ChunkSum(r, Len(r.chunks)) ELSE IF r.clen > 0 THEN r.clen ELSE 0
Refusal(r) ==
  CASE ~r.ok -> 405
    [] r.ok /\ ~r.line -> 400
    [] r.ok /\ r.line /\ r.clen >= 0 /\ ~r.num -> 400
    [] r.ok /\ r.line /\ r.clen < 0 /\ r.te \notin {"", "chunked"} -> 501
    [] r.ok /\ r.line /\ (Chunked(r) \/ r.clen >= 0 \/ r.te = "") /\ r.clen > MaxBody -> 413
    [] r.expect = "100-continue" /\ r.v11 /\ r.clen < 1 -> 400
    [] r.expect # "" /\ (r.expect # "100-continue" \/ ~r.v11) -> 417
    [] Chunked(r) /\ r.chunks # <<>> /\ ~r.num -> 400
    [] Chunked(r) /\ r.chunks # <<>> /\ r.chunks[1] <= MaxBody /\ ~r.crlf -> 400
    [] BodyOf(r) > MaxBody -> 413
    [] Chunked(r) /\ r.trailer -> 400
    [] OTHER -> 0

\* ... and in its place: after a request that ended at a line without a colon, two
\* bytes early, the next one has these in front of its method.
Refused(k) == IF k > 1 /\ ~stream[k - 1].colon THEN 405 ELSE Refusal(stream[k])

\* The requests whose last byte has arrived, and that follow no refused one.
EndOfReq(k) == Ends[Cardinality({i \in DOMAIN Owner : Owner[i] <= k})] - (IF stream[k].colon THEN 0 ELSE 2)
Expected == {k \in DOMAIN stream : EndOfReq(k) <= came /\ \A j \in 1 .. k : Refused(j) = 0}

\* However the network cut the stream, when onMessage() returns it has parsed
\* exactly the requests whose last byte has arrived, with the body each one has:
\* none waits for bytes of the next, and none takes bytes of it.
RequestsIntact ==
  ~inRead => parsed = [k \in 1 .. Cardinality(Expected) |-> <<k, BodyOf(stream[k])>>]

\* At most one request is refused, with the code its own fault calls for (or that
\* of a line without a colon just before it), when all before it were parsed; a request that is accepted never is, and a 100 is
\* sent only for one whose body is to be read.
RefusedForCause ==
  \A i \in DOMAIN replies :
    LET k == replies[i][1] IN
    /\ replies[i][2] = 100 => stream[k].expect = "100-continue" /\ stream[k].clen \in 1 .. MaxBody
    /\ replies[i][2] # 100 => /\ replies[i][2] = Refused(k) /\ i = Len(replies)
                              /\ Len(parsed) = k - 1 /\ pstop

-----------------------------------------------------------------------------
(***************************************************************************)
(* The client's parser of HTTP responses, with the loop of onRecvMessage() *)
(* that calls it for the responses to pipelined requests.  As above, the   *)
(* stream is a sequence of items known by their length,                    *)
(* which the network cuts anywhere; a line is read once it is complete.    *)
(* The body of a response may have a length, be chunked, end with the      *)
(* connection, or not be there: after HEAD, and with the status 204.       *)
(***************************************************************************)

CONSTANT Answers        \* sequences of responses a server may send

VARIABLES
  sending,      \* the responses of this connection
  arrivedTo,    \* bytes that reached the buffer
  readTo,       \* ... of these, bytes that were retrieved from it
  receiving,    \* onRecvMessage() is running
  rstatus,      \* status_
  leftBody,     \* leftBodyLength_
  rchunk,       \* currentChunkLength_
  rbody,        \* bytes appended to the current body
  delivered,    \* responses handed on, in order: the length of the body
  clientEnd     \* "": goes on; "bad": onError(BadResponse); "shut": the client
                \* has called shutdown(); "closed"

rpVars == <<sending, arrivedTo, readTo, receiving, rstatus, leftBody, rchunk, rbody,
            delivered, clientEnd>>

\* A response is [ok, head, empty, clen, num, chunked, chunks, crlf, trailer,
\* rest]: is its first line valid; is it the answer to HEAD; has it the status
\* 204; the content-length (-1: none); are that and the lengths of chunks numbers;
\* is it chunked, in which chunks, do they end in a CRLF, and does a trailer field
\* follow; and the bytes of a body that ends with the connection.
RLine(n) == [what |-> "line", n |-> n]
Bodiless(a) == a.head \/ (a.empty /\ a.clen < 0 /\ ~a.chunked)
RItems(a) ==
  <<RLine(3)>> \o (IF a.clen >= 0 \/ a.chunked THEN <<RLine(4)>> ELSE <<>>)
  \o <<[what |-> "blank", n |-> 2]>>
  \o (IF Bodiless(a) THEN <<>>
      ELSE IF a.clen >= 0 THEN (IF a.clen > 0 THEN <<[what |-> "body", n |-> a.clen]>> ELSE <<>>)
      ELSE IF a.chunked
        THEN FlattenSeq([k \in DOMAIN a.chunks |-> <<RLine(3), [what |-> "chunk", n |-> a.chunks[k] + 2]>>])
             \o <<RLine(3)>> \o (IF a.trailer THEN <<RLine(3)>> ELSE <<>>) \o <<[what |-> "last", n |-> 2]>>
        ELSE IF a.rest > 0 THEN <<[what |-> "rest", n |-> a.rest]>> ELSE <<>>)

RAll == FlattenSeq([k \in DOMAIN sending |-> RItems(sending[k])])
ROwner == FlattenSeq([k \in DOMAIN sending |-> [i \in DOMAIN RItems(sending[k]) |-> k]])
REnd(i) == FoldLeft(LAMBDA n, x : n + x.n, 0, SubSeq(RAll, 1, i))
RTotal == REnd(Len(RAll))

RStates == {"kExpectResponseLine", "kExpectHeaders", "kExpectBody", "kExpectChunkLen",
            "kExpectChunkBody", "kExpectLastEmptyChunk", "kExpectClose"}

RPTypeOK ==
  /\ sending \in Answers /\ rstatus \in RStates /\ receiving \in BOOLEAN
  /\ 0 <= readTo /\ readTo <= arrivedTo /\ arrivedTo <= RTotal
  /\ {leftBody, rchunk, rbody} \subseteq Nat
  /\ clientEnd \in {"", "bad", "shut", "closed"}

RPInit ==
  /\ sending \in Answers /\ arrivedTo = 0 /\ readTo = 0 /\ receiving = FALSE
  /\ rstatus = "kExpectResponseLine" /\ leftBody = 0 /\ rchunk = 0 /\ rbody = 0
  /\ delivered = <<>> /\ clientEnd = ""

\* The item at the front of the buffer and the response it belongs to.  (With
\* nothing left, the last one.)
RAt == IF readTo = RTotal THEN Len(RAll)
       ELSE CHOOSE i \in DOMAIN RAll : REnd(i - 1) <= readTo /\ readTo < REnd(i)
Now == sending[ROwner[RAt]]
Readable == arrivedTo - readTo
RWhole == Readable > 0 /\ arrivedTo >= REnd(RAt)

\* A read: n more bytes, and onRecvMessage().
Receive(n) ==
  /\ ~receiving /\ clientEnd \in {"", "shut"}
  /\ arrivedTo' = arrivedTo + n /\ receiving' = TRUE
  /\ UNCHANGED <<sending, readTo, rstatus, leftBody, rchunk, rbody, delivered, clientEnd>>

\* parseResponse() returns, for want of bytes ...
Breaks ==
  /\ receiving' = FALSE
  /\ UNCHANGED <<readTo, rstatus, leftBody, rchunk, rbody, delivered, clientEnd>>

\* ... or with an error: onError() drops the connection.
Errs ==
  /\ receiving' = FALSE /\ clientEnd' = "bad"
  /\ UNCHANGED <<readTo, rstatus, leftBody, rchunk, rbody, delivered>>

Moves(state, n) == rstatus' = state /\ readTo' = readTo + n

\* gotAll(): reset(), handleResponse(), and the next one if bytes are left.
Got(n, size) ==
  /\ delivered' = Append(delivered, size)
  /\ rstatus' = "kExpectResponseLine" /\ readTo' = readTo + n
  /\ leftBody' = 0 /\ rchunk' = 0 /\ rbody' = 0
  /\ receiving' = (arrivedTo > readTo + n)

\* The blank line after a trailer field is none.
IsResponseLine == Now.ok /\ RAll[RAt].what = "line"

ResponseLine ==
  /\ rstatus = "kExpectResponseLine"
  /\ \/ ~RWhole /\ Breaks
     \/ RWhole /\ ~IsResponseLine /\ Errs
     \/ /\ RWhole /\ IsResponseLine /\ Moves("kExpectHeaders", RAll[RAt].n)
        /\ UNCHANGED <<leftBody, rchunk, rbody, receiving, delivered, clientEnd>>

\* The headers say how the body ends.  Without any of it the connection's close
\* does, and the client shuts its side down, also for HEAD.
ByClose == Now.clen < 0 /\ ~Now.chunked /\ ~Now.empty
AfterHeaders == CASE Now.clen >= 0 -> "kExpectBody" [] Now.chunked -> "kExpectChunkLen"
                  [] OTHER -> "kExpectClose"

Headers ==
  /\ rstatus = "kExpectHeaders"
  /\ \/ ~RWhole /\ Breaks
     \/ /\ RWhole /\ RAll[RAt].what = "line" /\ Moves("kExpectHeaders", RAll[RAt].n)
        /\ UNCHANGED <<leftBody, rchunk, rbody, receiving, delivered, clientEnd>>
     \/ RWhole /\ RAll[RAt].what = "blank" /\ Now.clen >= 0 /\ ~Now.num /\ Errs
     \/ /\ RWhole /\ RAll[RAt].what = "blank" /\ (Now.clen >= 0 => Now.num)
        /\ clientEnd' = IF ByClose THEN "shut" ELSE clientEnd
        /\ IF Bodiless(Now)
             THEN Got(2, 0)
             ELSE /\ Moves(AfterHeaders, 2)
                  /\ leftBody' = IF Now.clen >= 0 THEN Now.clen ELSE leftBody
                  /\ UNCHANGED <<rchunk, rbody, receiving, delivered>>

\* A plausible bug: all that is there is taken for the body.
MutBodyTaken == Readable

BodyTaken == IF leftBody >= Readable THEN Readable ELSE leftBody

\* With a length: also one of 0, for which no byte has to be there.
Body ==
  /\ rstatus = "kExpectBody"
  /\ IF leftBody <= BodyTaken
       THEN Got(BodyTaken, rbody + BodyTaken)
       ELSE /\ Moves(rstatus, BodyTaken) /\ rbody' = rbody + BodyTaken
            /\ leftBody' = leftBody - BodyTaken
            /\ receiving' = FALSE /\ UNCHANGED <<rchunk, delivered>>
  /\ UNCHANGED clientEnd

UntilClose ==
  /\ rstatus = "kExpectClose"
  /\ Moves(rstatus, Readable) /\ rbody' = rbody + Readable /\ receiving' = FALSE
  /\ UNCHANGED <<leftBody, rchunk, delivered, clientEnd>>

\* The chunk whose length line is next: as many as were read before it.
RChunkNo == Cardinality({i \in 1 .. RAt : ROwner[i] = ROwner[RAt] /\ RAll[i].what = "chunk"}) + 1

ChunkLen ==
  /\ rstatus = "kExpectChunkLen"
  /\ \/ ~RWhole /\ Breaks
     \/ RWhole /\ ~Now.num /\ Errs
     \/ /\ RWhole /\ Now.num
        /\ LET more == RChunkNo <= Len(Now.chunks) IN
           /\ rchunk' = IF more THEN Now.chunks[RChunkNo] ELSE 0
           /\ Moves(IF more THEN "kExpectChunkBody" ELSE "kExpectLastEmptyChunk", RAll[RAt].n)
        /\ UNCHANGED <<leftBody, rbody, receiving, delivered, clientEnd>>

ChunkBody ==
  /\ rstatus = "kExpectChunkBody"
  /\ \/ Readable < rchunk + 2 /\ Breaks
     \/ Readable >= rchunk + 2 /\ ~Now.crlf /\ Errs
     \/ /\ Readable >= rchunk + 2 /\ Now.crlf
        /\ rbody' = rbody + rchunk /\ rchunk' = 0 /\ Moves("kExpectChunkLen", rchunk + 2)
        /\ UNCHANGED <<leftBody, receiving, delivered, clientEnd>>

\* The next line ends the response, whatever it holds.
LastChunk ==
  /\ rstatus = "kExpectLastEmptyChunk"
  /\ \/ ~RWhole /\ Breaks
     \/ RWhole /\ Got(RAll[RAt].n, rbody) /\ UNCHANGED clientEnd

ParseResponse ==
  /\ receiving
  /\ \/ ResponseLine \/ Headers \/ Body \/ UntilClose \/ ChunkLen \/ ChunkBody \/ LastChunk
  /\ UNCHANGED <<sending, arrivedTo>>

\* The connection closes: parseResponseOnClose() completes a body that ends
\* with it, anything else is an error.
Closes ==
  /\ ~receiving /\ clientEnd \in {"", "shut"}
  /\ clientEnd' = "closed"
  /\ IF rstatus = "kExpectClose" THEN Got(0, rbody)
     ELSE UNCHANGED <<readTo, rstatus, leftBody, rchunk, rbody, receiving, delivered>>
  /\ UNCHANGED <<sending, arrivedTo>>

RPNext == ParseResponse \/ Closes \/ \E n \in 1 .. RTotal - arrivedTo : Receive(n)

RPSpec == RPInit /\ [][RPNext]_rpVars

(***************************************************************************)
(* Properties.                                                             *)
(***************************************************************************)

\* What a response means by itself.
Meant(a) ==
  IF Bodiless(a) THEN 0
  ELSE IF a.clen >= 0 THEN a.clen
  ELSE IF a.chunked THEN FoldLeft(LAMBDA n, c : n + c, 0, a.chunks)
  ELSE a.rest

Ended(a) == ~a.head /\ ~a.empty /\ a.clen < 0 /\ ~a.chunked
InParts(a) == a.chunked /\ a.clen < 0 /\ ~a.head
Sound(a) == /\ a.ok /\ (a.clen >= 0 => a.num)
            /\ InParts(a) => a.num /\ (a.chunks # <<>> => a.crlf)
RUpTo(k) == REnd(Cardinality({i \in DOMAIN ROwner : ROwner[i] <= k}))

\* A trailer field ends its response; what follows it, the blank line, ends the
\* connection as a bad response.
Trailed(a) == InParts(a) /\ a.trailer

\* The responses that are complete and follow sound ones.
Complete == {k \in DOMAIN sending :
               /\ RUpTo(k) - (IF Trailed(sending[k]) THEN 2 ELSE 0) <= arrivedTo /\ ~Ended(sending[k])
               /\ \A j \in 1 .. k : Sound(sending[j])
               /\ \A j \in 1 .. (k - 1) : ~Ended(sending[j]) /\ ~Trailed(sending[j])}

\* However the stream was cut, between two reads exactly the responses whose
\* last byte has come were delivered, in order, each with its own body; one that
\* ends with the connection is delivered when that closes, with all that came,
\* and never before.  Behind a chunked response with a trailer field none is.
ResponsesIntact ==
  ~receiving =>
    LET n == Cardinality(Complete)
        whole == SubSeq(delivered, 1, n)
        more == SubSeq(delivered, n + 1, Len(delivered))
    IN /\ whole = [k \in 1 .. n |-> Meant(sending[k])]
       /\ more # <<>> =>
            /\ clientEnd = "closed" /\ Len(more) = 1
            /\ Ended(sending[n + 1])
            /\ more[1] = arrivedTo - (RUpTo(n + 1) - sending[n + 1].rest)
=============================================================================
