---------------------------- MODULE HttpResponse ----------------------------
(***************************************************************************)
(* A response of Drogon from its handler to the wire.  A response that may *)
(* be used again is an object shared by the requests it answers, on one or *)
(* on several connections of a loop, and carries two caches: its header,   *)
(* and its whole rendering.  The server adjusts the object, or a copy of   *)
(* it, to every request, and renders it when its turn in the pipeline has  *)
(* come.  A body is its length; a rendering is what its header and the     *)
(* bytes after it say.                                                     *)
(***************************************************************************)
EXTENDS Integers, Sequences, SequencesExt

CONSTANTS Requests,   \* records [ver, keep, head, gzip, session]
          Kinds,      \* of "body", "json", "file", "stream", "async", "redirect", "proxied"
          Recipes,    \* what a handler calls: sequences of <<setter, argument>>
          BigBody,    \* a length that is compressed, and sent as a file
          MaxMade,    \* bound: responses made by handlers
          MaxAsks,    \* bound: requests
          MaxTime     \* bound: seconds

VARIABLES
  conf,      \* [useSession, sendDate]
  objs,      \* HttpResponseImpl objects
  made,      \* ... of these, made by handlers
  cached,    \* responseCache_ or the cache of static files: an object, or 0
  line,      \* responses that are ready: [obj, req]
  sending,   \* "no", "one": sendResponse(), "many": sendResponses()
  open,      \* the connection
  asks, time,
  sent       \* <<the response rendered last>>

hpVars == <<conf, objs, made, cached, line, sending, open, asks, time, sent>>

Compressed(n) == n \div 10

\* The constructors.  gave is what the handler hands over, see Answered.
New(kind) ==
  [kind |-> kind, status |-> IF kind = "redirect" THEN 302 ELSE 200, custom |-> -1,
   ver |-> 11, close |-> FALSE, headers |-> {}, cookies |-> {}, body |-> -1,
   json |-> -1, file |-> -1, expired |-> -1, full |-> <<>>, http |-> <<>>,
   datePos |-> FALSE, date |-> -1, created |-> time, gave |-> <<>>]

\* newFileResponse() reads a file that is not big, newHttpJsonResponse() leaves
\* the text for later, newRedirectionResponse() sets its header without
\* addHeader(); a proxied response comes with the headers of its origin.
Construct(kind) ==
  CASE kind = "body" -> [New(kind) EXCEPT !.body = BigBody]
    [] kind = "json" -> [New(kind) EXCEPT !.json = BigBody]
    [] kind = "file" -> [New(kind) EXCEPT !.file = BigBody]
    [] kind = "redirect" -> [New(kind) EXCEPT !.headers = {"location"}]
    [] kind = "proxied" -> [New(kind) EXCEPT !.body = 7, !.headers = {"content-length"}]
    [] OTHER -> New(kind)

IsStream(o) == o.kind \in {"stream", "async"}
PassThrough(o) == o.kind = "proxied"
Status(o) == IF o.custom >= 0 THEN o.custom ELSE o.status

\* contentLengthIsAllowed(): not for 1xx and 204.
ContentLengthIsAllowed(o) == (Status(o) >= 200 \/ Status(o) < 100) /\ Status(o) # 204

\* A plausible bug: the header that was made before stays.
MutAddHeader(o, h) == [o EXCEPT !.headers = @ \cup {h}]

AddHeader(o, h) == [o EXCEPT !.headers = @ \cup {h}, !.full = <<>>]
RemoveHeader(o, h) == [o EXCEPT !.headers = @ \ {h}, !.full = <<>>]
AddCookie(o, c) == [o EXCEPT !.cookies = @ \cup {c}]
SetBody(o, n) ==
  LET p == [o EXCEPT !.body = n]
  IN IF PassThrough(o) THEN AddHeader(p, "content-length") ELSE p
SetVersion(o, v) == [o EXCEPT !.ver = v, !.close = @ \/ v = 10]

\* A plausible bug: once closing, always closing.
MutSetCloseConnection(o, on) == [o EXCEPT !.close = @ \/ on]

SetCloseConnection(o, on) == [o EXCEPT !.close = on]

\* A plausible bug: a copy for HTTP/1.0 keeps the header of the cached one.
MutSetExpiredTime(o, n) == [o EXCEPT !.expired = n, !.datePos = FALSE]

SetExpiredTime(o, n) ==
  [o EXCEPT !.expired = n, !.datePos = FALSE,
            !.full = IF n < 0 /\ o.ver = 10 THEN <<>> ELSE @]

Apply(o, c) ==
  CASE c[1] = "status" -> [o EXCEPT !.status = c[2]]
    [] c[1] = "customStatus" -> [o EXCEPT !.custom = c[2]]
    [] c[1] = "body" -> SetBody(o, c[2])
    [] c[1] = "addHeader" -> AddHeader(o, c[2])
    [] c[1] = "removeHeader" -> RemoveHeader(o, c[2])
    [] c[1] = "addCookie" -> AddCookie(o, c[2])
    [] c[1] = "expired" -> SetExpiredTime(o, c[2])

\* A body is only given to a response that has none of another sort, and a length
\* only to a stream.
Fits(kind, recipe) ==
  \A k \in DOMAIN recipe :
    /\ recipe[k][1] = "body" => kind \notin {"file", "stream", "async"}
    /\ recipe[k][1] = "addHeader" => recipe[k][2] # "content-length" \/ kind = "stream"
Made(kind, recipe) == FoldLeft(Apply, Construct(kind), recipe)

\* The text of a JSON response is made once, when it is asked for.
GenerateBodyFromJson(o) == IF o.json >= 0 THEN [o EXCEPT !.body = o.json, !.json = -1] ELSE o

\* A plausible bug: chunks are announced for a connection that will be closed.
MutPrepare(o) ==
  LET p == GenerateBodyFromJson(o) IN
  IF IsStream(o) /\ ContentLengthIsAllowed(o) /\ "content-length" \notin o.headers
  THEN [p EXCEPT !.headers = @ \cup {"transfer-encoding"}] ELSE p

\* What makeHeaderString() does to the object while it makes the header.
Prepare(o) ==
  LET p == GenerateBodyFromJson(o) IN
  IF /\ IsStream(o) /\ ~PassThrough(o) /\ ContentLengthIsAllowed(o)
     /\ ~o.close /\ "content-length" \notin o.headers
  THEN [p EXCEPT !.headers = @ \cup {"transfer-encoding"}] ELSE p

\* The header: length is -1 where it has none of its own.
MakeHeaderString(o) ==
  LET p == Prepare(o) IN
  [ver |-> o.ver, status |-> Status(o), headers |-> p.headers,
   length |-> CASE PassThrough(o) \/ ~ContentLengthIsAllowed(o) \/ IsStream(o) -> -1
                [] o.file >= 0 -> o.file
                [] o.file < 0 /\ p.body >= 0 -> p.body
                [] OTHER -> 0,
   connection |-> CASE PassThrough(o) -> ""
                    [] ~PassThrough(o) /\ o.close -> "close"
                    [] OTHER -> IF o.ver = 10 THEN "Keep-Alive" ELSE ""]

WithHeader(o) == IF o.full = <<>> THEN Prepare(o) ELSE o
Header(o) == IF o.full = <<>> THEN MakeHeaderString(o) ELSE o.full[1]
HasDate(o) == conf.sendDate /\ ~PassThrough(o)

Page(o, body) ==
  [header |-> Header(o), cookies |-> o.cookies, date |-> IF HasDate(o) THEN time ELSE -1,
   body |-> body]

Text(o, page) == [obj |-> o, page |-> page]

\* The rendering that is kept is used again; only its date is changed.
UsesKept(o) == o.expired >= 0 /\ IF HasDate(o) THEN o.datePos ELSE o.http # <<>>
Kept(o) ==
  LET page == IF HasDate(o) /\ o.date # time THEN [o.http[1] EXCEPT !.date = time] ELSE o.http[1]
  IN Text([o EXCEPT !.http = <<page>>, !.date = IF HasDate(o) THEN time ELSE @], page)

RenderToBuffer(o) ==
  IF UsesKept(o) THEN Kept(o)
  ELSE LET p == WithHeader(o)
           page == Page(o, p.body)
       IN Text([p EXCEPT !.datePos = @ \/ HasDate(o),
                         !.http = IF o.expired >= 0 THEN <<page>> ELSE @], page)

\* Into a buffer, for several responses at once.
RenderInto(o) ==
  LET p == WithHeader(o) IN
  IF o.expired >= 0 THEN RenderToBuffer(o)
  ELSE Text(p, Page(o, IF ContentLengthIsAllowed(o) THEN p.body ELSE -1))

\* A plausible bug: the body is left in.
MutRenderHeaderForHeadMethod(o) == Text(WithHeader(o), Page(o, WithHeader(o).body))

RenderHeaderForHeadMethod(o) == Text(WithHeader(o), Page(o, -1))

(***************************************************************************)
(* The server.  hr is a heap and an object of it.                          *)
(***************************************************************************)
Ref(heap, i) == [heap |-> heap, i |-> i]
Clone(hr) == Ref(Append(hr.heap, hr.heap[hr.i]), Len(hr.heap) + 1)
Set(hr, o) == Ref([hr.heap EXCEPT ![hr.i] = o], hr.i)
It(hr) == hr.heap[hr.i]

\* handleSessionForResponse(): a new session needs its cookie, and a response of
\* another version a copy.
HandleSessionForResponse(hr, req) ==
  LET o == It(hr)
      private == IF o.expired >= 0 THEN Clone(hr) ELSE hr
      temp == IF o.expired >= 0 THEN SetExpiredTime(o, -1) ELSE o
  IN CASE conf.useSession /\ req.session -> Set(private, AddCookie(temp, "session"))
       [] ~(conf.useSession /\ req.session) /\ o.ver # req.ver /\ (conf.useSession \/ o.expired >= 0)
            -> Set(Clone(hr), SetExpiredTime(SetVersion(o, req.ver), -1))
       [] OTHER -> hr

ShouldBeCompressed(o) ==
  /\ ~IsStream(o) /\ o.file < 0 /\ GenerateBodyFromJson(o).body >= 1024
  /\ "content-encoding" \notin o.headers /\ ContentLengthIsAllowed(o)

GetCompressedResponse(hr, req) ==
  LET o == GenerateBodyFromJson(It(hr))
      private == IF o.expired >= 0 THEN Clone(Set(hr, o)) ELSE hr
      temp == IF o.expired >= 0 THEN SetExpiredTime(o, -1) ELSE o
  IN CASE req.head \/ ~ShouldBeCompressed(It(hr)) -> hr
       [] ~req.head /\ ShouldBeCompressed(It(hr)) /\ req.gzip
            -> Set(private, AddHeader(SetBody(temp, Compressed(o.body)), "content-encoding"))
       [] OTHER -> Set(hr, o)

\* handleResponse(), up to the pipeline.
HandleResponse(hr, req) ==
  LET s == HandleSessionForResponse(hr, req)
  IN GetCompressedResponse(
       Set(s, SetCloseConnection(SetVersion(It(s), req.ver), ~req.keep)), req)

HPInit ==
  /\ conf \in [useSession : BOOLEAN, sendDate : BOOLEAN]
  /\ objs = <<>> /\ made = 0 /\ cached = 0 /\ line = <<>>
  /\ sending = "no" /\ open = TRUE /\ asks = 0 /\ time = 0 /\ sent = <<>>

Ready == open /\ sending = "no" /\ asks < MaxAsks

\* expiredTime() 0 is for ever.
Usable(i) == i # 0 /\ (objs[i].expired = 0 \/ time < objs[i].created + objs[i].expired)

\* A request that finds a cached response.
AskCached(req) ==
  LET hr == HandleResponse(Ref(objs, cached), req) IN
  /\ Ready /\ Usable(cached) /\ asks' = asks + 1
  /\ objs' = hr.heap /\ line' = Append(line, [obj |-> hr.i, req |-> req])
  /\ UNCHANGED <<conf, made, cached, sending, open, time, sent>>

Gave(o) ==
  <<[status |-> Status(o), headers |-> o.headers, cookies |-> o.cookies, expired |-> o.expired,
     body |-> GenerateBodyFromJson(o).body]>>

\* A request whose handler makes a response and calls back.  A response with an
\* expiry is kept: with its header if a controller made it (httpRequestHandling),
\* as it is by the router of static files and by newNotFoundResponse().
Ask(req, kind, recipe, controller) ==
  LET n == Len(objs) + 1
      r == Made(kind, recipe)
      o == [r EXCEPT !.gave = Gave(r)]
      keeps == o.expired >= 0 /\ (controller => o.status # 404)
      new == IF keeps /\ controller
             THEN [Prepare(o) EXCEPT !.full = <<MakeHeaderString(o)>>] ELSE o
      hr == HandleResponse(Ref(Append(objs, new), n), req)
  IN /\ Ready /\ ~Usable(cached) /\ made < MaxMade /\ Fits(kind, recipe)
     /\ made' = made + 1 /\ asks' = asks + 1
     /\ objs' = hr.heap /\ line' = Append(line, [obj |-> hr.i, req |-> req])
     /\ cached' = IF keeps THEN n ELSE 0
     /\ UNCHANGED <<conf, sending, open, time, sent>>

\* The cached response answers a request of another connection.
Elsewhere(req) ==
  LET hr == HandleResponse(Ref(objs, cached), req)
      text == IF req.head THEN RenderHeaderForHeadMethod(It(hr)) ELSE RenderToBuffer(It(hr))
      all == Set(hr, text.obj).heap
  IN /\ Ready /\ Usable(cached) /\ asks' = asks + 1
     /\ objs' = IF hr.i = cached THEN all ELSE SubSeq(all, 1, Len(objs))
     /\ UNCHANGED <<conf, made, cached, line, sending, open, time, sent>>

Tick ==
  /\ sending = "no" /\ time < MaxTime /\ time' = time + 1
  /\ UNCHANGED <<conf, objs, made, cached, line, sending, open, asks, sent>>

\* The response of the first request has come, and those that waited go with it.
Flush ==
  /\ open /\ sending = "no" /\ line # <<>> /\ sending' = IF Len(line) = 1 THEN "one" ELSE "many"
  /\ UNCHANGED <<conf, objs, made, cached, line, open, asks, time, sent>>

\* What is sent after the rendering: a stream, in chunks or as it comes, or the file.
Follows(o, req) ==
  CASE req.head \/ ~ContentLengthIsAllowed(o) -> "nothing"
    [] ~req.head /\ ContentLengthIsAllowed(o) /\ o.kind = "stream"
         -> IF ~o.close /\ "transfer-encoding" \in o.headers THEN "chunks" ELSE "data"
    [] ~req.head /\ ContentLengthIsAllowed(o) /\ o.kind = "async"
         -> IF o.close THEN "nothing" ELSE "chunks"
    [] OTHER -> IF o.file >= 0 THEN "file" ELSE "nothing"

\* One response; where there is no content the check for closing is skipped.
SendResponse ==
  LET r == Head(line)
      o == objs[r.obj]
      text == CASE r.req.head -> RenderHeaderForHeadMethod(o)
                [] ~r.req.head /\ sending = "one" -> RenderToBuffer(o)
                [] OTHER -> RenderInto(o)
      closes == o.close /\ (r.req.head \/ ContentLengthIsAllowed(o))
  IN /\ sending # "no"
     /\ objs' = [objs EXCEPT ![r.obj] = text.obj]
     /\ sent' = <<[req |-> r.req, page |-> text.page, gave |-> o.gave[1], obj |-> text.obj,
                   follows |-> Follows(text.obj, r.req), closes |-> closes, at |-> time]>>
     /\ open' = ~closes
     /\ line' = IF closes THEN <<>> ELSE Tail(line)
     /\ sending' = IF closes \/ Len(line) = 1 THEN "no" ELSE sending
     /\ UNCHANGED <<conf, made, cached, asks, time>>

HPNext ==
  \/ \E req \in Requests : AskCached(req) \/ Elsewhere(req)
  \/ \E req \in Requests, k \in Kinds, r \in Recipes, b \in BOOLEAN : Ask(req, k, r, b)
  \/ Tick \/ Flush \/ SendResponse

HPSpec == HPInit /\ [][HPNext]_hpVars

(***************************************************************************)
(* Properties.                                                             *)
(***************************************************************************)
HPTypeOK ==
  /\ made \in 0 .. MaxMade /\ asks \in 0 .. MaxAsks /\ time \in 0 .. MaxTime
  /\ cached \in 0 .. Len(objs) /\ \A k \in DOMAIN line : line[k].obj \in DOMAIN objs
  /\ sending \in {"no", "one", "many"} /\ (sending # "no" => line # <<>>)
  \* renderToBuffer(): assert(httpString_) where the date is to be changed.
  /\ \A k \in DOMAIN objs : (objs[k].expired >= 0 /\ objs[k].datePos) => objs[k].http # <<>>

Added == {"transfer-encoding", "content-encoding"}

\* Every request is answered with what the handler handed over, however often the
\* object was rendered, copied, compressed or adjusted to other requests before:
\* its status, headers, cookies and body, in the version of the request, with the
\* session's cookie for the request that needs it and the date of the moment; and
\* a body is said to be compressed when it is, and only then.
AnsweredAsMeant ==
  sent # <<>> =>
    LET s == sent[1]
        zipped == "content-encoding" \in s.page.header.headers
    IN /\ s.page.header.ver = s.req.ver /\ s.page.header.status = s.gave.status
       /\ s.page.header.headers \ Added = s.gave.headers \ Added
       /\ s.page.cookies = s.gave.cookies \cup
            (IF conf.useSession /\ s.req.session THEN {"session"} ELSE {})
       /\ s.page.date = IF HasDate(s.obj) THEN s.at ELSE -1
       /\ s.req.head => s.page.body = -1 /\ s.follows = "nothing" /\ ~zipped
       /\ (~s.req.head /\ zipped) => s.req.gzip /\ s.page.body = Compressed(s.gave.body)
       /\ (~s.req.head /\ ~zipped /\ s.page.body # -1) => s.page.body = s.gave.body

\* The client can tell where a response ends: what follows a header is as long as
\* it says, or comes in chunks if it says so, or ends with the connection.  (Not
\* so for two mistakes of a handler: a body for a status that has none, which is
\* logged and, when it is alone, sent all the same, and a stream that is kept for
\* other requests.)
Framed ==
  sent # <<>> =>
    LET s == sent[1]
        h == s.page.header
        length == (IF s.page.body >= 0 THEN s.page.body ELSE 0)
                  + (IF s.follows = "file" THEN s.obj.file ELSE 0)
    IN (~s.req.head /\ (ContentLengthIsAllowed(s.obj) \/ s.gave.body < 0))
         => /\ s.follows \notin {"chunks", "data"} /\ h.length >= 0 => h.length = length
            /\ s.gave.expired < 0 => (s.follows = "chunks" <=> "transfer-encoding" \in h.headers)
            /\ s.follows = "data" => s.closes \/ "content-length" \in h.headers

\* A response that is not kept for other requests says what happens to the
\* connection: in HTTP/1.1 that it is closed, in HTTP/1.0 that it is not.
SaysWhetherItCloses ==
  sent # <<>> =>
    LET s == sent[1] IN
    (s.gave.expired < 0 /\ s.obj.kind # "proxied")
      => /\ s.closes => s.page.header.connection = "close"
         /\ s.page.header.connection = "Keep-Alive" => ~s.closes
         /\ s.obj.close <=> ~s.req.keep
=============================================================================
