------------------------------ MODULE RValues -------------------------------
(***************************************************************************)
(* The values that pass between Drogon and an R handler: the request list  *)
(* that the dispatcher builds, the request environment that a wrapped      *)
(* handler gets instead, what the accessors read from either, what the     *)
(* response helpers make, and the HTTP response built from what the        *)
(* handler returned.  Of a text only what the code looks at is kept: a     *)
(* body and the data of an event are sequences of characters, a name is    *)
(* known with its lower-case form.                                         *)
(***************************************************************************)
EXTENDS Integers, Sequences, FiniteSets, SequencesExt

CONSTANTS Incoming,     \* requests: [headers, query, body, captures]
          ParamNames,   \* route->param_names of the route they match
          LookUps,      \* names that a handler looks up
          LowerOf,      \* the lower-case form of every header name used
          Calls,        \* what a handler may return: [fn, status, headers, body, arg]
          Datas,        \* what an SSE generator may return as data
          MaxAsks,      \* bound on accessor calls per request
          MaxChunks,    \* bound on chunks per stream
          MaxSize       \* bound on the size of the file dr_file() reads

VARIABLES
  incoming,     \* the PendingRequest
  wrapped,      \* the app has a middleware or an error handler: .dr_wrap_handler()
  phase,        \* "queued", "handling", "sized", "returned", "sent"
  req,          \* the request as the handler has it
  asked,        \* accessor calls and their results
  call,         \* how the handler makes its answer
  size,         \* dr_file(): size
  file,         \* the bytes of the file now; <<>>: there is none
  value,        \* the R value that the dispatcher gets back
  resp,         \* the HttpResponse
  datas,        \* what the SSE generator returned, chunk by chunk
  text          \* ... and the chunks that were made of it

rvVars == <<incoming, wrapped, phase, req, asked, call, size, file, value, resp, datas, text>>

NUL == "NUL"
LF == "LF"
Null == "NULL"
NoReq == [headers |-> <<>>, query |-> <<>>, body |-> <<>>, params |-> <<>>]
NoCall == [fn |-> "none", status |-> 200, headers |-> <<>>, body |-> <<>>, arg |-> ""]
\* kind: "string", "list", "stream", "error" (a condition was raised) or "other";
\* has: the fields a list has.
NoValue == [kind |-> "none", has |-> {}, status |-> 200, body |-> <<>>, headers |-> <<>>]
NoResp == [status |-> 0, body |-> <<>>, ctype |-> "", headers |-> <<>>, streams |-> FALSE]

\* Named vectors: pairs <<name, value>>, looked up by the first that matches.
First(pairs, Test(_)) ==
  LET hits == {k \in DOMAIN pairs : Test(pairs[k][1])}
  IN IF hits = {} THEN Null ELSE pairs[CHOOSE k \in hits : \A j \in hits : k <= j][2]

\* Rf_mkString(s.c_str()).
CStr(s) == SelectInSeq(s, LAMBDA c : c = NUL)
Cut(s) == IF CStr(s) = 0 THEN s ELSE SubSeq(s, 1, CStr(s) - 1)

\* A plausible bug: names and captures are paired from the end.
MutBuildRequestList(pr) ==
  LET np == Len(pr.captures) nn == Len(ParamNames) n == IF np < nn THEN np ELSE nn
  IN [headers |-> pr.headers, query |-> pr.query, body |-> Cut(pr.body),
      params |-> [k \in 1 .. n |-> <<ParamNames[nn - k + 1], pr.captures[k]>>]]

BuildRequestList(pr) ==
  LET np == Len(pr.captures) nn == Len(ParamNames) n == IF np < nn THEN np ELSE nn
  IN [headers |-> pr.headers, query |-> pr.query, body |-> Cut(pr.body),
      params |-> [k \in 1 .. n |-> <<ParamNames[k], pr.captures[k]>>]]

\* .dr_make_request(): everything but the path parameters is carried over.
MakeRequest(list) == [list EXCEPT !.params = <<>>]

\* A plausible bug: only the header's name is taken to lower case.
MutDrHeader(r, name) == First(r.headers, LAMBDA n : LowerOf[n] = name)

DrHeader(r, name) == First(r.headers, LAMBDA n : LowerOf[n] = LowerOf[name])

DrQuery(r, name) == First(r.query, LAMBDA n : n = name)

DrParam(r, name) == First(r.params, LAMBDA n : n = name)

\* headers[[name]] <- v: in place, or at the end.
SetHeader(h, name, v) ==
  LET at == {k \in DOMAIN h : h[k][1] = name}
  IN IF at = {} THEN Append(h, <<name, v>>)
     ELSE [h EXCEPT ![CHOOSE k \in at : \A j \in at : k <= j] = <<name, v>>]

\* A plausible bug: the default is set whatever the caller gave.
MutWithDefault(h, ct) == SetHeader(h, "Content-Type", ct)

\* headers[["Content-Type"]] <- headers[["Content-Type"]] %||% ct.
WithDefault(h, ct) ==
  IF First(h, LAMBDA n : n = "Content-Type") # Null THEN h
  ELSE SetHeader(h, "Content-Type", ct)

List(status, body, h) ==
  [kind |-> "list", has |-> {"status", "body", "headers"}, status |-> status, body |-> body, headers |-> h]
Error == [NoValue EXCEPT !.kind = "error"]

Mimes == [csv |-> "text/csv", json |-> "application/json", png |-> "image/png"]

\* .dr_guess_mime(): [[ on a character vector raises an error for a name that
\* is not in it, so the fallback for a NULL hit is never reached.
GuessMime(ext) ==
  IF ext = "" THEN "application/octet-stream"
  ELSE IF ext \in DOMAIN Mimes THEN Mimes[ext] ELSE Null

\* dr_stream_sse(): defaults whose name the caller did not use go last.
SseDefaults == << <<"Cache-Control", "no-cache">>, <<"X-Accel-Buffering", "no">> >>
Merged(h) == h \o SelectSeq(SseDefaults, LAMBDA d : First(h, LAMBDA n : n = d[1]) = Null)

\* What the R helper makes of its arguments (dr_file() is DrFileSize and DrFileRead).
Made(c) ==
  CASE c.fn = "dr_response" -> List(c.status, c.body, c.headers)
    [] c.fn = "dr_json" -> List(c.status, c.body, WithDefault(c.headers, "application/json"))
    [] c.fn = "dr_text" -> List(c.status, c.body, WithDefault(c.headers, "text/plain"))
    [] c.fn = "dr_html" -> List(c.status, c.body, WithDefault(c.headers, "text/html"))
    [] c.fn = "dr_redirect" ->
         IF c.arg = "" THEN Error
         ELSE List(c.status, <<>>, SetHeader(c.headers, "Location", c.arg))
    [] c.fn = "string" -> [NoValue EXCEPT !.kind = "string", !.body = c.body]
    [] c.fn = "bare list" -> [List(c.status, <<>>, <<>>) EXCEPT !.has = {"status"}]
    [] c.fn = "number" -> [NoValue EXCEPT !.kind = "other"]
    [] c.fn = "dr_stream_sse" -> [NoValue EXCEPT !.kind = "stream", !.headers = Merged(c.headers)]

\* .dr_normalize_response(), through which the answer of a wrapped handler goes;
\* an error becomes .dr_handle_error()'s 500.
Normalize(v) ==
  CASE v.kind = "string" -> List(200, v.body, << <<"Content-Type", "text/plain">> >>)
    [] v.kind = "list" /\ "body" \in v.has -> v
    [] OTHER -> List(500, <<>>, << <<"Content-Type", "text/plain">> >>)

ErrorResponse == [NoResp EXCEPT !.status = 500, !.ctype = "text/plain"]

\* A plausible bug: the status is bounded by the last one that has a name.
MutCode(status) == IF 100 <= status /\ status <= 511 THEN status ELSE 200

Code(status) == IF 100 <= status /\ status <= 599 THEN status ELSE 200

\* One header of the list: the content type has a setter of its own, the others
\* are kept by lower-case name, and the last of a name wins.
AddOne(r, h) ==
  IF LowerOf[h[1]] = "content-type" THEN [r EXCEPT !.ctype = h[2]]
  ELSE [r EXCEPT !.headers = SetHeader(@, LowerOf[h[1]], h[2])]

\* buildResponse(); a stream goes to startStreamSession(), an error of an
\* unwrapped handler to makeErrorResponse().
BuildResponse(v) ==
  CASE v.kind = "string" -> [NoResp EXCEPT !.status = 200, !.body = v.body, !.ctype = "text/plain"]
    [] v.kind = "list" ->
         FoldLeft(AddOne, [NoResp EXCEPT !.status = Code(v.status), !.body = v.body, !.ctype = "text/html"],
                  v.headers)
    [] v.kind = "stream" ->
         FoldLeft(AddOne, [NoResp EXCEPT !.status = 200, !.ctype = "text/event-stream", !.streams = TRUE],
                  v.headers)
    [] OTHER -> ErrorResponse

\* strsplit(data, "\n", fixed = TRUE): no empty piece after the last newline.
Pieces(d) ==
  LET open == d # <<>> /\ d[Len(d)] # LF
      ends == SetToSortSeq({k \in DOMAIN d : d[k] = LF} \cup (IF open THEN {Len(d) + 1} ELSE {}), <)
  IN [k \in DOMAIN ends |-> SubSeq(d, IF k = 1 THEN 1 ELSE ends[k - 1] + 1, ends[k] - 1)]

\* A plausible bug: only the first line gets a "data: ".
MutFrame(d) == <<"data: ">> \o d \o <<LF, LF>>

\* The chunk that next_chunk() of dr_stream_sse() makes of data.
Frame(d) ==
  LET lines == IF Pieces(d) = <<>> THEN << <<>> >> ELSE Pieces(d)
  IN FlattenSeq([k \in DOMAIN lines |-> <<"data: ">> \o lines[k] \o <<LF>>]) \o <<LF>>

RVTypeOK ==
  /\ incoming \in Incoming /\ wrapped \in BOOLEAN
  /\ phase \in {"queued", "handling", "sized", "returned", "sent"}
  /\ call \in Calls \cup {NoCall} /\ size \in 0 .. MaxSize /\ file \in Seq(1 .. MaxSize)
  /\ value.kind \in {"none", "string", "list", "stream", "error", "other"}
  /\ (phase = "sent") = (resp # NoResp)

RVInit ==
  /\ incoming \in Incoming /\ wrapped \in BOOLEAN
  /\ phase = "queued" /\ req = NoReq /\ asked = {} /\ call = NoCall /\ size = 0
  /\ file = [k \in 1 .. MaxSize - 1 |-> k] /\ value = NoValue /\ resp = NoResp
  /\ datas = <<>> /\ text = <<>>

\* The dispatcher calls the handler: callHandlerSafely(), .dr_wrap_handler().
Call ==
  /\ phase = "queued" /\ phase' = "handling"
  /\ req' = IF wrapped THEN MakeRequest(BuildRequestList(incoming)) ELSE BuildRequestList(incoming)
  /\ UNCHANGED <<incoming, wrapped, asked, call, size, file, value, resp, datas, text>>

Ask(what, name) ==
  /\ phase = "handling" /\ Cardinality(asked) < MaxAsks
  /\ asked' = asked \cup {[what |-> what, name |-> name,
       got |-> CASE what = "header" -> DrHeader(req, name)
                 [] what = "query" -> DrQuery(req, name)
                 [] what = "param" -> DrParam(req, name)]}
  /\ UNCHANGED <<incoming, wrapped, phase, req, call, size, file, value, resp, datas, text>>

\* The handler returns, or raises an error.
Answer(c) ==
  /\ phase = "handling" /\ c.fn # "dr_file"
  /\ call' = c /\ value' = IF wrapped THEN Normalize(Made(c)) ELSE Made(c)
  /\ phase' = "returned"
  /\ UNCHANGED <<incoming, wrapped, req, asked, size, file, resp, datas, text>>

\* dr_file(), up to file.size(); a missing file raises an error.
DrFileSize(c) ==
  /\ phase = "handling" /\ c.fn = "dr_file" /\ call' = c
  /\ \/ /\ file # <<>> /\ size' = Len(file) /\ phase' = "sized" /\ UNCHANGED value
     \/ /\ file = <<>> /\ phase' = "returned" /\ UNCHANGED size
        /\ value' = IF wrapped THEN Normalize(Error) ELSE Error
  /\ UNCHANGED <<incoming, wrapped, req, asked, file, resp, datas, text>>

\* readBin(n = size), and the rest of dr_file().
DrFileRead ==
  /\ phase = "sized" /\ phase' = "returned"
  /\ LET body == SubSeq(file, 1, IF size < Len(file) THEN size ELSE Len(file))
         mime == GuessMime(call.arg)
         made == IF file = <<>> \/ mime = Null THEN Error ELSE List(call.status, body, WithDefault(call.headers, mime))
     IN value' = IF wrapped THEN Normalize(made) ELSE made
  /\ UNCHANGED <<incoming, wrapped, req, asked, call, size, file, resp, datas, text>>

\* Another process cuts the file short, adds to it, or removes it.
FileChanges ==
  /\ phase \in {"handling", "sized"}
  /\ \/ file # <<>> /\ file' = <<>>
     \/ Len(file) > 1 /\ file' = SubSeq(file, 1, Len(file) - 1)
     \/ Len(file) \in 1 .. MaxSize - 1 /\ file' = Append(file, Len(file) + 1)
  /\ UNCHANGED <<incoming, wrapped, phase, req, asked, call, size, value, resp, datas, text>>

Send ==
  /\ phase = "returned" /\ phase' = "sent"
  /\ resp' = BuildResponse(value)
  /\ UNCHANGED <<incoming, wrapped, req, asked, call, size, file, value, datas, text>>

\* The pump of an SSE stream calls the generator once more (StreamSession has
\* the pump; here it matters what its chunks say).
NextChunk(d) ==
  /\ phase = "sent" /\ resp.streams /\ Len(datas) < MaxChunks
  /\ datas' = Append(datas, d) /\ text' = text \o Frame(d)
  /\ UNCHANGED <<incoming, wrapped, phase, req, asked, call, size, file, value, resp>>

RVNext ==
  \/ Call \/ DrFileRead \/ FileChanges \/ Send
  \/ \E what \in {"header", "query", "param"}, name \in LookUps : Ask(what, name)
  \/ \E c \in Calls : Answer(c) \/ DrFileSize(c)
  \/ \E d \in Datas : NextChunk(d)

RVSpec == RVInit /\ [][RVNext]_rvVars

(***************************************************************************)
(* Properties.                                                             *)
(***************************************************************************)

\* What a handler should be told: the header whatever the case of its name, the
\* query parameter, or the piece of the path that the named placeholder matched.
Told(a) ==
  LET hits == CASE a.what = "header" -> {h \in ToSet(incoming.headers) : LowerOf[h[1]] = LowerOf[a.name]}
                [] a.what = "query" -> {q \in ToSet(incoming.query) : q[1] = a.name}
                [] OTHER -> {<<ParamNames[k], incoming.captures[k]>> :
                               k \in {j \in DOMAIN ParamNames : ParamNames[j] = a.name}}
  IN IF hits = {} THEN Null ELSE (CHOOSE h \in hits : TRUE)[2]

\* Every accessor (dr_header, dr_query; req$params of a handler that is not
\* wrapped) answers from the request that the client sent, through either form of
\* the request, and the body is the client's up to its first NUL.
RequestSeen ==
  /\ \A a \in asked : (a.what = "param" /\ wrapped) \/ a.got = Told(a)
  /\ phase \notin {"queued"} => IsPrefix(req.body, incoming.body) /\ NUL \notin ToSet(req.body)

\* Captured values arrive in req$params keyed by name (vignettes/mode-native.Rmd),
\* whether or not the app has a middleware.
ParamsReachHandler == \A a \in asked : a.what = "param" => a.got = Told(a)

\* The content type that the caller of a helper gave.
Explicit == First(call.headers, LAMBDA n : n = "Content-Type")

\* dr_file() answers with application/octet-stream for an extension that it does
\* not know (R/response.R), as for a file that has none.
UnknownIsOctetStream ==
  phase = "sent" /\ call.fn = "dr_file" /\ size > 0 /\ file # <<>> =>
    /\ resp.status = call.status
    /\ call.arg \notin DOMAIN Mimes /\ Explicit = Null => resp.ctype = "application/octet-stream"

Helper == [dr_json |-> "application/json", dr_text |-> "text/plain", dr_html |-> "text/html"]

\* What a response helper was told reaches the client through the list, the
\* normalisation and buildResponse(): the status (any from 100 to 599), the body,
\* the content type (the explicit one, or else the helper's) and the location of a
\* redirect.  A file's body is what was in it, and never more than its size when
\* it was looked at.
AnswerMeant ==
  phase = "sent" =>
    /\ call.fn \in {"dr_json", "dr_text", "dr_html"} =>
         /\ resp.status = (IF call.status \in 100 .. 599 THEN call.status ELSE 200)
         /\ resp.body = call.body
         /\ resp.ctype = IF Explicit # Null THEN Explicit ELSE Helper[call.fn]
    /\ call.fn = "dr_redirect" /\ call.arg # "" =>
         /\ resp.status = call.status
         /\ First(resp.headers, LAMBDA n : n = "location") = call.arg
    /\ call.fn = "dr_file" /\ resp.status # 500 =>
         /\ IsPrefix(resp.body, [k \in 1 .. MaxSize |-> k]) /\ Len(resp.body) <= size
         /\ resp.ctype = IF Explicit # Null THEN Explicit ELSE GuessMime(call.arg)

\* What an event-stream client makes of the chunks, character by character
\* (the event stream format): lines that begin with "data: " add up, an empty line ends an event.
Heard ==
  LET Step(s, c) ==
        IF c # LF THEN [s EXCEPT !.line = Append(@, c)]
        ELSE IF s.line = <<>>
             THEN IF s.buf = <<>> THEN s
                  ELSE [line |-> <<>>, buf |-> <<>>, events |-> Append(s.events, SubSeq(s.buf, 1, Len(s.buf) - 1))]
             ELSE IF s.line[1] = "data: "
                  THEN [s EXCEPT !.line = <<>>, !.buf = @ \o Tail(s.line) \o <<LF>>]
                  ELSE [s EXCEPT !.line = <<>>]
  IN FoldLeft(Step, [line |-> <<>>, buf |-> <<>>, events |-> <<>>], text).events

\* A client of dr_stream_sse() hears one event for each call of the generator,
\* with the data that it returned, newlines included (but for one at the end).
SseHeard ==
  Heard = [k \in DOMAIN datas |->
             LET d == datas[k] IN
             IF d # <<>> /\ d[Len(d)] = LF THEN SubSeq(d, 1, Len(d) - 1) ELSE d]

-----------------------------------------------------------------------------
(* json_writer.cpp: dr_json's direct writer of R values as JSON.  It either *)
(* writes all of a value or says Unsupported, and dr_json then leaves the   *)
(* value to jsonlite.  An R value is [type, class, elems, names]; elements  *)
(* of atomic vectors are symbols, and the text written is a sequence of     *)
(* JSON tokens.                                                             *)

CONSTANTS KMaxDepth,    \* kMaxDepth
          MaxDepth,     \* bound: depth of values (above KMaxDepth)
          MaxWidth      \* bound: elements of a list

VARIABLE rvalue

jwVars == <<rvalue>>

NoNames == <<"no names">>
Atomic == {"lgl", "int", "real", "str"}

Elements(type) ==
    CASE type = "lgl" -> {"NA", "0", "1"}
      [] type = "int" -> {"NA", "7"}
      [] type = "real" -> {"NA", "NaN", "Inf", "-Inf", "1.5"}
      [] OTHER -> {"NA", "NaN", "s"}

Value(t, class, elems, names) == [type |-> t, class |-> class, elems |-> elems, names |-> names]

\* Vectors of length 0, 1 and 2, with and without a class (a factor, a date);
\* NULL; a value of a type the writer does not know (raw, an environment).
Leaves ==
    UNION {{Value(t, c, e, NoNames) :
              e \in {<<>>} \union {<<x>> : x \in Elements(t)} \union {<<"NA", x>> : x \in Elements(t)}} :
              t \in Atomic, c \in {FALSE}}
    \union {Value("int", TRUE, <<"7">>, NoNames), Value("null", FALSE, <<>>, NoNames),
            Value("raw", FALSE, <<>>, NoNames), Value("list", FALSE, <<>>, NoNames)}

JWInit == rvalue \in Leaves

RECURSIVE Depth(_)
Depth(v) == IF v.type # "list" \/ v.elems = <<>> THEN 0 ELSE 1 + Depth(v.elems[1])

\* Larger values: a list around the value, with names or without, and one more
\* element (in front, so that the others come after it).
Wrap ==
    /\ Depth(rvalue) < MaxDepth
    /\ \E names \in {NoNames, <<"a">>, <<"">>, <<"NA">>}, c \in BOOLEAN :
         rvalue' = Value("list", c, <<rvalue>>, names)

Sibling ==
    /\ rvalue.type = "list" /\ Len(rvalue.elems) \in 1..(MaxWidth - 1)
    /\ \E v \in {Value("str", FALSE, <<"s">>, NoNames), Value("real", FALSE, <<>>, NoNames)} :
         rvalue' = [rvalue EXCEPT !.elems = Append(@, v),
                                !.names = IF @ = NoNames THEN @ ELSE Append(@, "b")]

JWNext == Wrap \/ Sibling
JWSpec == JWInit /\ [][JWNext]_jwVars

-----------------------------------------------------------------------------
Ok(jtext) == [ok |-> TRUE, text |-> jtext]
Unsupported == [ok |-> FALSE, text |-> <<>>]

\* appendBool, appendInt, appendDouble and appendCharSEXP: one token each.  In
\* quotes: what is written as a JSON string.
Token(type, x) ==
    CASE type = "lgl" -> (CASE x = "NA" -> "null" [] x = "0" -> "false" [] OTHER -> "true")
      [] type = "int" -> (IF x = "NA" THEN "'NA'" ELSE x)
      [] type = "real" -> (CASE x = "NA" -> "'NA'" [] x = "NaN" -> "'NaN'" [] x = "Inf" -> "'Inf'"
                             [] x = "-Inf" -> "'-Inf'" [] OTHER -> x)
      [] OTHER -> (CASE x = "NA" -> "null" [] x = "NaN" -> "'NaN'" [] OTHER -> "'s'")

\* A plausible bug: a comma before the first element as well.
MutSeparator(i) == <<",">>

\* What is written before element i.
Separator(i) == IF i > 1 THEN <<",">> ELSE <<>>

RECURSIVE Joined(_, _)
Joined(texts, n) == IF n = 0 THEN <<>> ELSE Joined(texts, n - 1) \o Separator(n) \o texts[n]

WriteAtomic(v, autoUnbox) ==
    LET tokens == [i \in DOMAIN v.elems |-> <<Token(v.type, v.elems[i])>>]
    IN  IF v.class THEN Unsupported
        ELSE IF autoUnbox /\ Len(tokens) = 1 THEN Ok(tokens[1])
        ELSE Ok(<<"[">> \o Joined(tokens, Len(tokens)) \o <<"]">>)

\* A plausible bug: an element that cannot be written is left out.
MutAll(parts) == TRUE

\* One element that cannot be written, and the list is not written.
All(parts) == \A i \in DOMAIN parts : parts[i].ok

RECURSIVE WriteValue(_, _, _)
WriteList(v, autoUnbox, depth) ==
    LET parts == [i \in DOMAIN v.elems |-> WriteValue(v.elems[i], autoUnbox, depth + 1)]
        named == v.names # NoNames
        texts == [i \in DOMAIN parts |->
                    IF named THEN <<v.names[i], ":">> \o parts[i].text ELSE parts[i].text]
    IN  IF v.class THEN Unsupported
        ELSE IF named /\ \E i \in DOMAIN v.names : v.names[i] \in {"", "NA"} THEN Unsupported
        ELSE IF ~All(parts) THEN Unsupported
        ELSE IF named THEN Ok(<<"{">> \o Joined(texts, Len(texts)) \o <<"}">>)
        ELSE Ok(<<"[">> \o Joined(texts, Len(texts)) \o <<"]">>)

\* writeValue.  NULL is written at the top only.
WriteValue(v, autoUnbox, depth) ==
    IF depth > KMaxDepth THEN Unsupported
    ELSE IF v.type = "null" THEN IF depth > 0 THEN Unsupported ELSE Ok(<<"{", "}">>)
    ELSE IF v.type \in Atomic THEN WriteAtomic(v, autoUnbox)
    ELSE IF v.type = "list" THEN WriteList(v, autoUnbox, depth)
    ELSE Unsupported

\* drogonR_to_json.
ToJson(v, autoUnbox) == WriteValue(v, autoUnbox, 0)

-----------------------------------------------------------------------------
(* What the text means: a reader of JSON.                                   *)

Scalar(x) == [kind |-> "scalar", scalar |-> x, keys |-> <<>>, items |-> <<>>]
Array(items) == [kind |-> "array", scalar |-> "", keys |-> <<>>, items |-> items]
Object(keys, items) == [kind |-> "object", scalar |-> "", keys |-> keys, items |-> items]
Bad == [kind |-> "bad", scalar |-> "", keys |-> <<>>, items |-> <<>>]

\* The value that starts at i and the position after it.
RECURSIVE ReadAt(_, _), ReadItems(_, _, _, _, _)
ReadAt(t, i) ==
    IF i > Len(t) \/ t[i] \in {"]", "}", ",", ":"} THEN <<Bad, i>>
    ELSE IF t[i] = "[" THEN ReadItems(t, i + 1, "]", <<>>, <<>>)
    ELSE IF t[i] = "{" THEN ReadItems(t, i + 1, "}", <<>>, <<>>)
    ELSE <<Scalar(t[i]), i + 1>>

ReadItems(t, i, close, keys, items) ==
    IF i > Len(t) THEN <<Bad, i>>
    ELSE IF t[i] = close /\ items = <<>>
    THEN <<IF close = "]" THEN Array(items) ELSE Object(keys, items), i + 1>>
    ELSE LET isObject == close = "}"
             r == ReadAt(t, IF isObject THEN i + 2 ELSE i)
             ks == IF isObject THEN Append(keys, t[i]) ELSE keys
             is == Append(items, r[1])
         IN  IF (isObject /\ (i + 1 > Len(t) \/ t[i + 1] # ":")) \/ r[1] = Bad \/ r[2] > Len(t)
             THEN <<Bad, i>>
             ELSE IF t[r[2]] = close THEN <<IF isObject THEN Object(ks, is) ELSE Array(is), r[2] + 1>>
             ELSE IF t[r[2]] = "," THEN ReadItems(t, r[2] + 1, close, ks, is)
             ELSE <<Bad, i>>

\* The JSON value a value stands for: the convention of jsonlite.
RECURSIVE Meaning(_, _)
Meaning(v, autoUnbox) ==
    LET scalars == [i \in DOMAIN v.elems |-> Scalar(Token(v.type, v.elems[i]))]
        items == [i \in DOMAIN v.elems |-> Meaning(v.elems[i], autoUnbox)]
    IN  IF v.type = "null" THEN Object(<<>>, <<>>)
        ELSE IF v.type \in Atomic
        THEN IF autoUnbox /\ Len(scalars) = 1 THEN scalars[1] ELSE Array(scalars)
        ELSE IF v.names = NoNames THEN Array(items) ELSE Object(v.names, items)

\* The values the writer is meant for, d lists deep at most.
RECURSIVE Plain(_, _)
Plain(v, d) ==
    /\ ~v.class /\ v.type \in Atomic \union {"list"} /\ d >= 0
    /\ v.type = "list" =>
         /\ \A i \in DOMAIN v.elems : Plain(v.elems[i], d - 1)
         /\ v.names # NoNames => \A i \in DOMAIN v.names : v.names[i] \notin {"", "NA"}

-----------------------------------------------------------------------------
JWTypeOK == rvalue.type \in Atomic \union {"list", "null", "raw"} /\ Depth(rvalue) <= MaxDepth

\* What the writer writes is one JSON value, and the value R meant: nothing is
\* left out, added or cut short, also when an element deep inside is one the
\* writer cannot write.
WritesWhatIsMeant ==
    \A autoUnbox \in BOOLEAN :
      LET w == ToJson(rvalue, autoUnbox)
      IN  w.ok => ReadAt(w.text, 1) = <<Meaning(rvalue, autoUnbox), Len(w.text) + 1>>

\* The writer says Unsupported exactly for what it leaves to jsonlite: a class, a
\* nested NULL, a missing name, an unknown type or a list too deep, anywhere.
RefusesTheRest ==
    \A autoUnbox \in BOOLEAN :
      ToJson(rvalue, autoUnbox).ok <=> (Plain(rvalue, KMaxDepth) \/ rvalue.type = "null")
=============================================================================
