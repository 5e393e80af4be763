---------------------------- MODULE HttpRequest ----------------------------
(***************************************************************************)
(* A request object of Drogon's server.  It comes from the parser's pool,  *)
(* takes the request line, the headers and the body (in memory, or in a    *)
(* temporary file when it is large), may have its body decompressed, is    *)
(* read and changed by handlers, may be forwarded with an HttpClient, and  *)
(* goes back to the pool.  What is parsed is parsed when it is first asked *)
(* for.  A body is its length and what it holds.                           *)
(***************************************************************************)
EXTENDS Integers, Sequences, SequencesExt, FiniteSetsExt, TLC

CONSTANTS Incoming,    \* records [head, ver, encoded, query, connection, ctype,
                       \* coding, size, plain, good, form]: see Take
          MaxMemory,   \* getClientMaxMemoryBodySize()
          MaxBody,     \* getClientMaxBodySize()
          MaxTaken,    \* bound: requests
          MaxCalls     \* bound: calls of the handler

VARIABLES
  in,        \* the request that is being served
  phase,     \* "pool", "body", "inflate", "ready" or the status of a refusal
  req,       \* the object
  todo,      \* bytes of the body that have not been appended, or inflated
  room,      \* size of the buffer decompressed
  out,       \* bytes inflated
  sets,      \* parameters set by the handler, and whether this came first
  wire,      \* <<what appendToBuffer() wrote last, and for whom>>
  taken, calls

rqVars == <<in, phase, req, todo, room, out, sets, wire, taken, calls>>

NoParams == [k \in {} |-> ""]
Fresh ==
  [method |-> "", previous |-> "", ver |-> 0, keepAlive |-> TRUE, original |-> "", path |-> "",
   query |-> <<>>, headers |-> NoParams, memory |-> 0, file |-> -1, real |-> 0,
   parsed |-> FALSE, parameters |-> NoParams, jsonParsed |-> FALSE, json |-> "", typed |-> FALSE, pass |-> FALSE]

\* A plausible bug: what was parsed for one request is left for the next.
MutReset(r) == [Fresh EXCEPT !.pass = r.pass, !.parsed = r.parsed, !.parameters = r.parameters]

\* reset() leaves passThrough_ alone.
Reset(r) == [Fresh EXCEPT !.pass = r.pass]

Nothing == [head |-> FALSE, ver |-> 11, encoded |-> FALSE, query |-> <<>>, connection |-> "",
            ctype |-> "", coding |-> "", size |-> 0, plain |-> 0, good |-> TRUE, form |-> <<>>]

RQInit ==
  /\ in = Nothing /\ phase = "pool" /\ req = Fresh /\ todo = 0 /\ room = 0 /\ out = 0
  /\ sets = [params |-> NoParams, first |-> FALSE] /\ wire = <<>> /\ taken = 0 /\ calls = 0

\* Assignments to a map, in order.
Assign(f, pairs) == FoldLeft(LAMBDA g, p : (p[1] :> p[2]) @@ g, f, pairs)

(***************************************************************************)
(* From the parser.                                                        *)
(***************************************************************************)
SetVersion(r, v) == [r EXCEPT !.ver = v, !.keepAlive = IF v = 10 THEN FALSE ELSE @]

\* setPath(): the original is kept where it differs.
SetPath(r, encoded) ==
  IF encoded THEN [r EXCEPT !.original = "raw", !.path = "decoded"] ELSE [r EXCEPT !.path = "raw"]

AddHeader(r, field, value) ==
  LET s == IF field \in DOMAIN r.headers THEN r ELSE [r EXCEPT !.headers = (field :> value) @@ @]
  IN IF field = "connection"
     THEN [s EXCEPT !.keepAlive = CASE r.ver = 11 /\ value = "close" -> FALSE
                                    [] r.ver # 11 /\ value = "keep-alive" -> TRUE
                                    [] OTHER -> @]
     ELSE s

\* Headers that were not sent are skipped.
HeadersOf(i) ==
  SelectSeq(<<<<"connection", i.connection>>, <<"content-type", i.ctype>>,
              <<"content-encoding", i.coding>>>>, LAMBDA h : h[2] # "")

\* A plausible bug: what memory holds is lost when the file is created.
MutToFile(r, n) == [r EXCEPT !.file = n, !.memory = 0]

ToFile(r, n) == [r EXCEPT !.file = r.memory + n, !.memory = 0]

ReserveBodySize(r, n) == IF r.file >= 0 \/ n <= MaxMemory THEN r ELSE ToFile(r, 0)

AppendToBody(r, n) ==
  LET s == [r EXCEPT !.real = @ + n] IN
  CASE r.file >= 0 -> [s EXCEPT !.file = @ + n]
    [] r.file < 0 /\ r.memory + n <= MaxMemory -> [s EXCEPT !.memory = @ + n]
    [] OTHER -> ToFile(s, n)

BodyLength(r) == IF r.file >= 0 THEN r.file ELSE r.memory

\* The request line and the headers; HttpServer turns HEAD into GET.
Take(i) ==
  LET r1 == SetPath([SetVersion(req, i.ver) EXCEPT !.query = i.query,
                       !.method = "GET", !.previous = IF i.head THEN "HEAD" ELSE ""], i.encoded)
      r2 == FoldLeft(LAMBDA r, h : AddHeader(r, h[1], h[2]), r1, HeadersOf(i))
  IN /\ phase = "pool" /\ taken < MaxTaken /\ taken' = taken + 1
     /\ in' = i /\ phase' = "body" /\ req' = ReserveBodySize(r2, i.size) /\ todo' = i.size
     /\ sets' = [params |-> NoParams, first |-> FALSE] /\ calls' = 0 /\ wire' = <<>>
     /\ UNCHANGED <<room, out>>

Piece(n) ==
  /\ phase = "body" /\ n <= todo
  /\ req' = AppendToBody(req, n) /\ todo' = todo - n
  /\ UNCHANGED <<in, phase, room, out, sets, wire, taken, calls>>

Without(f, k) == [x \in DOMAIN f \ {k} |-> f[x]]

\* tryDecompressRequest() and decompressBody(), where requests may be compressed.
Decompress ==
  /\ phase = "body" /\ todo = 0
  /\ LET bare == [req EXCEPT !.headers = Without(@, "content-encoding")] IN
     CASE in.coding \in {"", "identity"} -> phase' = "ready" /\ req' = bare /\ UNCHANGED <<todo, room, out>>
       [] in.coding = "gzip" ->
            /\ phase' = "inflate" /\ todo' = in.plain /\ out' = 0
            /\ room' = Min({2 * BodyLength(req), MaxMemory})
            /\ req' = [bare EXCEPT !.memory = 0, !.file = -1]
       [] OTHER -> phase' = "415" /\ UNCHANGED <<req, todo, room, out>>
  /\ UNCHANGED <<in, sets, wire, taken, calls>>

Refuse(status) == phase' = status /\ req' = [req EXCEPT !.memory = 0] /\ UNCHANGED room

\* A plausible bug: the limit is looked at after the end.
MutTooLarge(n) == FALSE

TooLarge(n) == out + n > MaxBody

\* One round of decompressBodyGzip(): inflate() fills the buffer, or is done, or
\* finds that the data are bad or that there is no room at all.
Inflate ==
  LET n == Min({todo, room}) IN
  /\ phase = "inflate" /\ out' = out + n /\ todo' = todo - n
  /\ \/ TooLarge(n) /\ Refuse("413")
     \/ /\ ~TooLarge(n) /\ (room = 0 \/ (todo = n /\ ~in.good)) /\ Refuse("422")
     \/ /\ ~TooLarge(n) /\ todo = n /\ in.good /\ room > 0
        /\ phase' = "ready" /\ req' = AppendToBody(req, n) /\ UNCHANGED room
     \/ /\ ~TooLarge(n) /\ n = room /\ room > 0 /\ (todo > n \/ in.good)
        /\ req' = AppendToBody(req, n) /\ room' = Min({2 * room, MaxMemory}) /\ UNCHANGED phase
  /\ UNCHANGED <<in, sets, wire, taken, calls>>

(***************************************************************************)
(* For the handler.                                                        *)
(***************************************************************************)
IsHead(r) == r.method = "HEAD" \/ (r.method = "GET" /\ r.previous = "HEAD")
GetOriginalPath(r) == IF r.original = "" THEN r.path ELSE r.original
Type(r) == IF "content-type" \in DOMAIN r.headers THEN r.headers["content-type"] ELSE ""

\* parseParametersOnce(): the query's, and those of a form.
ParseParameters(r) ==
  LET form == IF Type(r) \in {"", "form"} /\ BodyLength(r) > 0 THEN in.form ELSE <<>>
  IN IF r.parsed THEN r
     ELSE [r EXCEPT !.parsed = TRUE, !.parameters = Assign(@, r.query \o form)]

\* parseJson(): "error" for another type; without a body there is neither.
ParseJson(r) ==
  IF r.jsonParsed THEN r
  ELSE [r EXCEPT !.jsonParsed = TRUE,
                 !.json = CASE BodyLength(r) = 0 -> ""
                            [] BodyLength(r) > 0 /\ Type(r) = "json" -> "value"
                            [] OTHER -> "error"]

Handler == phase = "ready" /\ calls < MaxCalls /\ calls' = calls + 1

Read ==
  /\ Handler /\ req' = ParseJson(ParseParameters(req))
  /\ UNCHANGED <<in, phase, todo, room, out, sets, wire, taken>>

\* A parameter that is set keeps the others from being parsed.
SetParameter(k, v) ==
  /\ Handler
  /\ req' = [req EXCEPT !.parsed = TRUE, !.parameters = (k :> v) @@ @]
  /\ sets' = [params |-> (k :> v) @@ sets.params, first |-> sets.first \/ ~req.parsed]
  /\ UNCHANGED <<in, phase, todo, room, out, wire, taken>>

ContentType ==
  /\ Handler /\ req' = [req EXCEPT !.typed = TRUE]
  /\ UNCHANGED <<in, phase, todo, room, out, sets, wire, taken>>

\* A plausible bug: the parameters are sent again whatever was asked for.
MutAppendToBuffer(r) ==
  LET form == r.typed /\ Type(r) = "form"
  IN [query |-> r.query, more |-> IF form THEN NoParams ELSE r.parameters,
      form |-> IF form THEN r.parameters ELSE NoParams, body |-> r.memory]

\* appendToBuffer(): unless the request is passed through, the parameters that the
\* object holds are added to the query, or before the body where the type is known
\* to be that of a form.  The body is the one in memory.
AppendToBuffer(r) ==
  LET form == r.typed /\ Type(r) = "form"
      more == IF r.pass THEN NoParams ELSE r.parameters
  IN [query |-> r.query, more |-> IF form THEN NoParams ELSE more,
      form |-> IF form THEN more ELSE NoParams, body |-> r.memory]

\* forward() of the framework, to another host.
Forward ==
  /\ Handler /\ req' = [req EXCEPT !.pass = TRUE]
  /\ wire' = <<AppendToBuffer(req'), [by |-> "forward"]>>
  /\ UNCHANGED <<in, phase, todo, room, out, sets, taken>>

\* sendRequest() of an HttpClient, with the request that came.
SendOn ==
  /\ Handler /\ wire' = <<AppendToBuffer(req), [by |-> "client"]>>
  /\ UNCHANGED <<in, phase, req, todo, room, out, sets, taken>>

\* The last user is gone.
Recycle ==
  /\ phase \notin {"pool", "body", "inflate"} /\ phase' = "pool" /\ req' = Reset(req)
  /\ todo' = 0 /\ room' = 0 /\ out' = 0 /\ in' = Nothing
  /\ sets' = [params |-> NoParams, first |-> FALSE] /\ wire' = <<>> /\ calls' = 0
  /\ UNCHANGED taken

RQNext ==
  \/ \E i \in Incoming : Take(i)
  \/ \E n \in 1 .. todo : Piece(n)
  \/ SetParameter("a", "set")
  \/ Decompress \/ Inflate \/ Read \/ ContentType \/ Forward \/ SendOn \/ Recycle

RQSpec == RQInit /\ [][RQNext]_rqVars

(***************************************************************************)
(* Properties.                                                             *)
(***************************************************************************)
RQTypeOK ==
  /\ phase \in {"pool", "body", "inflate", "ready", "413", "415", "422"}
  /\ taken \in 0 .. MaxTaken /\ calls \in 0 .. MaxCalls /\ todo >= 0 /\ room >= 0
  /\ req.memory >= 0 /\ req.file >= -1 /\ DOMAIN req = DOMAIN Fresh

\* What a handler reads belongs to its own request, though the object served others
\* before: the method, the paths, whether the connection stays, the JSON value and
\* the parameters, the form's before the query's and its own before both; once it
\* has set one itself, only what had been parsed by then is there as well.
ReadsItsOwn ==
  phase = "ready" =>
    LET form == IF in.ctype \in {"", "form"} /\ BodyLength(req) > 0 THEN in.form ELSE <<>>
        sent == Assign(NoParams, in.query \o form)
    IN /\ IsHead(req) = in.head /\ GetOriginalPath(req) = "raw"
       /\ req.path = IF in.encoded THEN "decoded" ELSE "raw"
       /\ req.keepAlive = IF in.ver = 11 THEN in.connection # "close" ELSE in.connection = "keep-alive"
       /\ req.parsed => req.parameters = sets.params @@ (IF sets.first THEN NoParams ELSE sent)
       /\ req.jsonParsed => (req.json = "value" <=> in.ctype = "json" /\ BodyLength(req) > 0)

\* The handler gets the whole body, as it was before its compression, and never a
\* larger one than clients may send; memory holds at most what it may, whatever the
\* pieces; a body that is too large, bad or of another coding is refused as such.
BodyWhole ==
  /\ req.memory <= MaxMemory
  /\ phase = "ready" => BodyLength(req) = IF in.coding = "gzip" THEN in.plain ELSE in.size
  /\ phase = "ready" /\ in.coding = "gzip" => in.good /\ in.plain <= MaxBody
  /\ phase = "413" => in.plain > MaxBody
  /\ phase = "422" => ~in.good \/ MaxMemory = 0 \/ in.size = 0
  /\ phase = "415" => in.coding \notin {"", "identity", "gzip"}

\* forward() hands on what came: the query without the parameters that were read
\* from it or set, and the body, where it is in memory and was not decompressed.
\* (A body in a file is left behind, and a decompressed one goes with the length
\* that its header had before.)
ForwardedAsItCame ==
  wire # <<>> /\ wire[2].by = "forward" =>
    /\ wire[1].query = in.query /\ wire[1].more = NoParams /\ wire[1].form = NoParams
    /\ req.file < 0 /\ in.coding # "gzip" => wire[1].body = in.size
=============================================================================
