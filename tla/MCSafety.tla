------------------------------ MODULE MCSafety -------------------------------
(****************************************************************************)
(* The other components for TLC, each by itself in its own environment: what*)
(* R code registers and how requests reach it, the buffers, timers and      *)
(* connections of trantor, and the parsers, clients and caches of drogon.   *)
(****************************************************************************)
EXTENDS Integers, Sequences, FiniteSets, SequencesExt, TLC

(* Instances: R routes and handlers.                                       *)
Rule(ty, c, w, g, rs) ==
    [type |-> ty, capacity |-> c, window |-> w, global |-> g, routes |-> rs]
MCRoutes == {"/a", "/b"}
MCThreads == {1, 2}
MCRuleSets ==
    {<<Rule(ty, 2, 2, FALSE, {"/a"})>> : ty \in {"fixed", "sliding", "token"}}
    \union {<<Rule("sliding", 1, 2, TRUE, MCRoutes), Rule("token", 2, 3, FALSE, {"/a"})>>,
            <<Rule("token", 2, 2, TRUE, MCRoutes), Rule("fixed", 1, 3, FALSE, {"/a"})>>,
            <<Rule("fixed", 1, 2, TRUE, MCRoutes), Rule("token", 1, 2, FALSE, {"/a"})>>}

Lit(s) == [lit |-> s]
Par(s) == [name |-> s]
MCPatterns == {<<Lit("a"), Par("x")>>, <<Par("y"), Lit("b")>>, <<Lit("a"), Par("w")>>,
               <<Par("x"), Par("x")>>, <<Lit("a")>>}
MCMethods == {"GET", "POST"}
MCPaths == {<<"a">>, <<"a", "b">>, <<"A", "">>, <<"b", "b">>, <<"a", "b", "a">>}
MCLower == [s \in {"a", "A", "b", "", "(.*)"} |-> IF s = "A" THEN "a" ELSE s]

MCSizes == <<3, 1>>
MCHeaders == {[none |-> FALSE, first |-> 1, last |-> 1]}
MCNoRange == [none |-> TRUE]

MCNames == {"x", "y"}
MCVerbs == {"GET", "PATCH"}

(* WebSocket sessions: two of R hooks, two of native code.                 *)
MCRConns == {"a", "b"}
MCCppConns == {"x", "y"}
MCNoConns == {}
MCRooms == {"room"}

(* trantor and the maps of drogon.                                         *)
MCEntries == {"e"}
MCKinds == {"mem", "stream", "async"}
MCFds == {1, 2}
MCKeys == {"k"}

(* Requests: plain, with a body, in chunks, and refused ones.              *)
Get == [ok |-> TRUE, line |-> TRUE, v11 |-> TRUE, colon |-> TRUE, clen |-> -1, num |-> TRUE,
        te |-> "", chunks |-> <<>>, crlf |-> TRUE, trailer |-> FALSE, expect |-> ""]
Post(n) == [Get EXCEPT !.clen = n]
Chunks(cs) == [Get EXCEPT !.te = "chunked", !.chunks = cs]
MCStreams ==
    {<<Post(n), Get, Post(1)>> : n \in 0 .. 4}
    \union {<<Chunks(cs), Get>> : cs \in {<<>>, <<1>>, <<1, 2>>, <<2, 2>>, <<4>>}}
    \union {<<Chunks(<<1, 2>>), Chunks(<<1>>)>>,
            <<Get, [Chunks(<<1>>) EXCEPT !.crlf = FALSE], Get>>,
            <<Post(1), [Get EXCEPT !.ok = FALSE]>>,
            <<Post(1), [Get EXCEPT !.line = FALSE], Get>>,
            <<[Get EXCEPT !.te = "other"], Get>>,
            <<[Get EXCEPT !.expect = "other"], Get>>,
            <<[Get EXCEPT !.expect = "100-continue"], Get>>,
            <<[Post(1) EXCEPT !.expect = "100-continue", !.v11 = FALSE], Get>>,
            <<[Post(1) EXCEPT !.num = FALSE], Get>>,
            <<[Chunks(<<1>>) EXCEPT !.num = FALSE], Get>>,
            <<[Chunks(<<1>>) EXCEPT !.trailer = TRUE], Get>>,
            <<Get, [Get EXCEPT !.colon = FALSE], Get>>}
    \union {<<[Post(n) EXCEPT !.expect = "100-continue"], Get>> : n \in 2 .. 4}

(* WebSocket frames: every length of the length field, fragments, control  *)
(* frames that are too long, not final or between fragments, unknown       *)
(* opcodes, the limit of a client's message.                               *)
Frame(op, fin, masked, len) == [op |-> op, fin |-> fin, masked |-> masked, len |-> len]
MCScripts ==
    {<<Frame(1, TRUE, m, n), Frame(2, TRUE, m, 1)>> :
        n \in {0, 125, 126, 255, 256, 65535, 65536}, m \in BOOLEAN}
    \union {<<Frame(1, FALSE, TRUE, n), Frame(0, FALSE, TRUE, 2), Frame(0, TRUE, TRUE, 0),
              Frame(9, TRUE, TRUE, 3), Frame(1, TRUE, TRUE, 1)>> : n \in {0, 1, 126}}
    \union {<<Frame(2, TRUE, TRUE, 1), Frame(op, TRUE, TRUE, 126), Frame(1, TRUE, TRUE, 1)>> :
              op \in {8, 9}}
    \union {<<Frame(2, TRUE, TRUE, 1), Frame(op, fin, TRUE, 1), Frame(1, TRUE, TRUE, 1)>> :
              op \in {3, 8, 10}, fin \in BOOLEAN}
    \union {<<Frame(2, TRUE, TRUE, 1), Frame(1, fin, m, n)>> :
              fin, m \in BOOLEAN, n \in {131072, 131073}}
    \union {<<Frame(1, FALSE, TRUE, 1), Frame(op, TRUE, TRUE, 2), Frame(0, TRUE, TRUE, 1),
              Frame(2, TRUE, TRUE, 1)>> : op \in {8, 9, 10}}

(* HTTP client and server.                                                 *)
Setting(server, resends, reuses) == [server |-> server, resends |-> resends, reuses |-> reuses]
MCSettings == {Setting("address", TRUE, FALSE), Setting("address", FALSE, TRUE), Setting("none", TRUE, FALSE)}
    \union {Setting("name", resends, FALSE) : resends \in BOOLEAN}
MCBytes == {32, 37, 38, 43, 61, 66, 255}
MCCharacters == {0, 6, 10, 11, 12}
MCNumbers == {0, 1, 6, 15, 16, 60}
MCLengths == {0, 1, 7, 15}
MCPeers == 1 .. 4
MCIpOf == <<"i", "i", "i", "j">>
MCLimits == {<<1, 0>>, <<2, 0>>, <<4, 1>>, <<4, 2>>, <<1, 1>>}
MCExpiries == {-1, 0, 1}
MCChains == {<<"prerouting", "route", "postrouting", "middleware", "middleware", "options",
               "prehandling", "handle">>,
             <<"route", "options", "handle">>}

ByLen(n) == [ok |-> TRUE, head |-> FALSE, empty |-> FALSE, clen |-> n, num |-> TRUE,
             chunked |-> FALSE, chunks |-> <<>>, crlf |-> TRUE, trailer |-> FALSE, rest |-> 0]
InChunks(cs) == [ByLen(-1) EXCEPT !.chunked = TRUE, !.chunks = cs]
NoContent == [ByLen(-1) EXCEPT !.empty = TRUE]
ToClose(n) == [ByLen(-1) EXCEPT !.rest = n]
MCAnswers ==
    {<<ByLen(n), NoContent, ByLen(1)>> : n \in {0, 3}}
    \union {<<InChunks(cs), ByLen(1)>> : cs \in {<<>>, <<1, 2>>}}
    \union {<<[ByLen(3) EXCEPT !.head = TRUE], ToClose(n)>> : n \in {0, 2}}
    \union {<<ByLen(1), [InChunks(<<2>>) EXCEPT !.crlf = FALSE], ByLen(1)>>,
            <<ByLen(1), [ByLen(1) EXCEPT !.ok = FALSE]>>,
            <<ByLen(1), [ByLen(1) EXCEPT !.num = FALSE], ByLen(1)>>,
            <<[InChunks(<<1>>) EXCEPT !.num = FALSE], ByLen(1)>>,
            <<[InChunks(<<1>>) EXCEPT !.trailer = TRUE], ByLen(1)>>,
            <<[ToClose(0) EXCEPT !.head = TRUE], ByLen(1)>>}

(* Multipart bodies: 1 CR, 2 LF, 3 hyphen, 4 boundary, 5 a character, 6 a   *)
(* header, 7 a bad header.                                                 *)
PartOf(c) == [head |-> <<6>>, content |-> c]
MCForms ==
    {[before |-> <<>>, parts |-> <<PartOf(c), PartOf(<<5>>)>>, after |-> <<3, 3>>] :
        c \in {<<>>, <<5>>, <<1>>, <<1, 2>>, <<1, 2, 3>>, <<1, 2, 3, 3, 5>>,
               <<1, 1, 2, 3, 3>>, <<5, 3, 3, 4>>}}
    \union {[before |-> b, parts |-> <<PartOf(<<5>>)>>, after |-> a] :
              b \in {<<3>>, <<5, 3, 3>>}, a \in {<<>>, <<3>>, <<3, 3, 1, 2>>, <<5, 5>>}}
    \union {[before |-> <<>>, parts |-> <<PartOf(<<>>), [head |-> h, content |-> <<>>]>>,
             after |-> <<3, 3>>] : h \in {<<7>>, <<6, 6, 6, 6, 6, 6, 6>>}}

(* Apps, and values of R: headers, parameters, answers of handlers.        *)
MCApps == {"a", "b"}
MCRouteKeys == {"k"}
MCDirs == {"d"}
MCIncoming ==
    {[headers |-> << <<"x-a", "1">>, <<"x-b", "2">> >>, query |-> << <<"q", "3">> >>,
      body |-> <<"b", "NUL", "c">>, captures |-> <<"7", "8">>],
     [headers |-> <<>>, query |-> <<>>, body |-> <<>>, captures |-> <<"9", "">>]}
MCParamNames == <<"id", "q">>
MCLookUps == {"X-A", "x-b", "q", "id"}
MCLowerOf ==
    [n \in {"X-A", "x-a", "x-b", "q", "id", "Content-Type", "content-type", "Location",
            "Cache-Control", "X-Accel-Buffering"} |->
       CASE n = "X-A" -> "x-a" [] n = "Content-Type" -> "content-type"
         [] n = "Location" -> "location" [] n = "Cache-Control" -> "cache-control"
         [] n = "X-Accel-Buffering" -> "x-accel-buffering" [] OTHER -> n]
Made(fn, s, h, b, a) == [fn |-> fn, status |-> s, headers |-> h, body |-> b, arg |-> a]
OwnType == << <<"Content-Type", "own">> >>
MCCalls ==
    {Made("dr_response", 200, <<>>, <<"b">>, ""), Made("dr_json", 201, OwnType, <<"b">>, ""),
     Made("dr_json", 599, <<>>, <<"b">>, ""), Made("dr_html", 404, <<>>, <<"b">>, ""),
     Made("dr_text", 600, << <<"X-A", "1">>, <<"x-a", "2">> >>, <<>>, ""),
     Made("dr_redirect", 302, OwnType, <<>>, "/"), Made("dr_redirect", 302, <<>>, <<>>, ""),
     Made("string", 200, <<>>, <<"b">>, ""), Made("bare list", 204, <<>>, <<>>, ""),
     Made("number", 200, <<>>, <<>>, ""),
     Made("dr_stream_sse", 200, << <<"Cache-Control", "own">> >>, <<>>, "")}
    \union {Made("dr_file", 200, <<>>, <<>>, ext) : ext \in {"csv", "", "bin"}}
    \union {Made("dr_file", 200, OwnType, <<>>, "png")}
MCDatas == {<<>>, <<"a">>, <<"LF">>, <<"a", "LF">>, <<"a", "LF", "b">>, <<"LF", "LF", "a">>}

(* Requests and responses as objects, and sessions.                        *)
MCSendSizes == {1, 3}
Asker(v, k, h, g, s) == [ver |-> v, keep |-> k, head |-> h, gzip |-> g, session |-> s]
MCAskers == {Asker(11, TRUE, FALSE, TRUE, FALSE), Asker(11, FALSE, FALSE, FALSE, TRUE),
             Asker(10, TRUE, FALSE, FALSE, FALSE), Asker(11, TRUE, TRUE, FALSE, FALSE)}
MCBodyKinds == {"body", "json", "file", "async", "proxied"}
MCRecipes ==
    {<<>>, << <<"addHeader", "content-length">> >>, << <<"status", 204>> >>,
     << <<"body", 5>>, <<"addCookie", "c">> >>, << <<"expired", 0>>, <<"addHeader", "x">> >>,
     << <<"customStatus", 599>>, <<"addHeader", "x">>, <<"expired", 1>>,
        <<"removeHeader", "x">>, <<"addCookie", "c">> >>}
Came(ctype, coding, size, plain) ==
    [head |-> FALSE, ver |-> 11, encoded |-> FALSE, query |-> <<>>, connection |-> "",
     ctype |-> ctype, coding |-> coding, size |-> size, plain |-> plain, good |-> TRUE, form |-> <<>>]
MCTaken ==
    {[Came("", "", 0, 0) EXCEPT !.head = TRUE, !.encoded = TRUE, !.query = << <<"a", "q">> >>],
     [Came("form", "", 2, 2) EXCEPT !.query = << <<"a", "q">>, <<"b", "q">> >>,
                                    !.connection = "close", !.form = << <<"a", "f">> >>],
     [Came("json", "identity", 3, 3) EXCEPT !.ver = 10, !.connection = "keep-alive"],
     [Came("json", "", 4, 4) EXCEPT !.ver = 10],
     [Came("form", "gzip", 1, 5) EXCEPT !.form = << <<"b", "f">> >>],
     Came("text", "gzip", 2, 7), [Came("text", "gzip", 4, 3) EXCEPT !.good = FALSE],
     [Came("text", "gzip", 0, 0) EXCEPT !.good = FALSE], Came("text", "zstd", 1, 1)}
MCSessClients == {"a"}
MCSessRequests == [a |-> 3]
MCCached == {"a", "b"}

(* Plugins: redirections, addresses behind proxies, limits, metrics.       *)
MCUrls == {p \in UNION {[1 .. n -> {"/", "a"}] : n \in 1 .. 4} : p[1] = "/"}
MCHosts == {"", "h"}
Conf(m, r, s, h, e, f, g, o) ==
    [mode |-> m, redirect |-> r, ssl |-> s, secureHost |-> h, exempt |-> e, filters |-> f,
     free |-> g, single |-> o]
MCConfigs ==
    {Conf("trailing", TRUE, FALSE, "", {}, 2, {<<"/">>}, FALSE),
     Conf("duplicate", FALSE, TRUE, "", {<<"/", "a">>}, 1, {<<"/", "a">>}, TRUE),
     Conf("both", TRUE, TRUE, "s", {<<"/", "a">>}, 0, {}, FALSE),
     Conf("both", FALSE, TRUE, "", {}, 1, {<<"/", "a">>}, FALSE),
     Conf("off", TRUE, TRUE, "", {}, 0, {}, FALSE)}
MCForwards ==
    {<<>>, <<"c">>, <<"c", ",", " ", "p", "1">>, <<"c", ",", "d", ",", "p", "1", ",">>,
     <<"x", ",", "p", "1">>, <<",", "c">>, <<" ">>, <<"p", "1", " ", "c">>}
MCProxies == {3, 10}
MCAddress == (<<"c">> :> 3) @@ (<<"d">> :> 5) @@ (<<"p", "1">> :> 9)
MCTrusted == {<<8, 2>>}
MCHodThreads == {"p", "q"}
Hits(i, u, l) == [ip |-> i, user |-> u, url |-> l]
MCHodRequests == {Hits("i", "u", "a"), Hits("j", "", "b"), Hits("t", "u", "a")}
Strategy(l, c, i, u) == [urls |-> l, capacity |-> c, ipCapacity |-> i, userCapacity |-> u]
MCPlans == {<<Strategy({"b"}, 2, 0, 0), Strategy({"a"}, 0, 1, 0)>>, <<Strategy({}, 2, 1, 1)>>}
MCTrustedIps == {"t"}
MCTypes == [requests |-> "gauge", times |-> "histogram"]
MCLabels == {"l"}
MCBoundaries == <<1, 3>>
MCObserved == {1, 4}
MCSubThreads == {"a", "b", "c"}
MCTopicNames == {"n"}
MCOps == [a |-> 2, b |-> 2, c |-> 1]

(* Statements of the ORM.                                                  *)
MCDbTypes == {"PostgreSQL", "Mysql"}
MCKey == <<"id", "kind">>
Sets(w, name, n, m) == [what |-> w, name |-> name, n |-> n, m |-> m]
MCMapSettings ==
    {Sets("limit", "", 2, 0), Sets("paginate", "", 2, 3), Sets("orderBy", "b desc", 0, 0),
     Sets("join", "LEFT JOIN t", 0, 0), Sets("forUpdate", "", 0, 0)}
MCColumns == {"a"}
MCColumnNames == {"a", "c"}

-----------------------------------------------------------------------------
VARIABLES part,   \* the component this behaviour runs
          r1, r2, r3, r4, r5, r6, r7, r8, r9, r10, r11, r12,
          r13, r14, r15, r16, r17   \* its variables

\* The registers from the k-th on.
from16 == <<r16, r17>>
from15 == <<r15, from16>>
from14 == <<r14, from15>>
from13 == <<r13, from14>>
from12 == <<r12, from13>>
from11 == <<r11, from12>>
from10 == <<r10, from11>>
from9 == <<r9, from10>>
from8 == <<r8, from9>>
from7 == <<r7, from8>>
from6 == <<r6, from7>>
from5 == <<r5, from6>>
from4 == <<r4, from5>>
from3 == <<r3, from4>>
from2 == <<r2, from3>>
from1 == <<r1, from2>>
vars == <<part, from1>>

\* A component that needs fewer leaves the others at 0.
Free16 == r16 = 0 /\ r17 = 0
Free15 == r15 = 0 /\ Free16
Free14 == r14 = 0 /\ Free15
Free13 == r13 = 0 /\ Free14
Free12 == r12 = 0 /\ Free13
Free11 == r11 = 0 /\ Free12
Free10 == r10 = 0 /\ Free11
Free9 == r9 = 0 /\ Free10
Free8 == r8 = 0 /\ Free9
Free7 == r7 = 0 /\ Free8
Free6 == r6 = 0 /\ Free7
Free5 == r5 = 0 /\ Free6
Free4 == r4 = 0 /\ Free5
Free3 == r3 = 0 /\ Free4
Free2 == r2 = 0 /\ Free3

Limiter == INSTANCE RateLimiter WITH Routes <- MCRoutes, RuleSets <-
    MCRuleSets, Threads <- MCThreads, MaxTime <- 4, rules <- r1, clock <-
    r2, bucket <- r3, asking <- r4, admitted <- r5, lastAsk <- r6, quiet <-
    r7
Chain == INSTANCE Chains WITH MaxLinks <- 3, MaxNext <- 2, Chains <-
    MCChains, MaxRequests <- 2, Expiries <- MCExpiries, MaxClock <- 1, n <-
    r1, onError <- r2, i <- r3, stack <- r4, value <- r5, answer <- r6,
    again <- r7, made <- r8, chain <- r1, clock <- r2, at <- r3, where <-
    r4, posts <- r5, unwound <- r6, reply <- r7, stored <- r8, toStore <-
    r9, birth <- r10
Routing == INSTANCE Router WITH Patterns <- MCPatterns, Methods <-
    MCMethods, Paths <- MCPaths, Lower <- MCLower, MaxRoutes <- 3, app <-
    r1, added <- r2, queue <- r3, installed <- r4, started <- r5
File == INSTANCE StaticFiles WITH CacheTime <- 1, Sizes <- MCSizes, Headers
    <- MCHeaders, NoRange <- MCNoRange, MaxTime <- 4, MaxSize <- 15,
    MaxRanges <- 3, Characters <- MCCharacters, Numbers <- MCNumbers,
    Lengths <- MCLengths, MaxText <- 5, MaxSpecs <- 2, now <- r1, version <-
    r2, written <- r3, modified <- r4, replaced <- r5, cache <- r6, job <-
    r7, copy <- r8, answer <- r9, contentLength <- r1, text <- r2, specs <-
    r3
Val == INSTANCE RValues WITH KMaxDepth <- 1, MaxDepth <- 2, MaxWidth <- 2,
    Incoming <- MCIncoming, ParamNames <- MCParamNames, LookUps <-
    MCLookUps, LowerOf <- MCLowerOf, Calls <- MCCalls, Datas <- MCDatas,
    MaxAsks <- 1, MaxChunks <- 2, MaxSize <- 3, rvalue <- r1, incoming <-
    r1, wrapped <- r2, phase <- r3, req <- r4, asked <- r5, call <- r6, size
    <- r7, file <- r8, value <- r9, resp <- r10, datas <- r11, text <- r12
Apps == INSTANCE AppConfig WITH Names <- MCNames, Verbs <- MCVerbs,
    MaxFormals <- 2, MaxEndpoints <- 2, Apps <- MCApps, Keys <- MCRouteKeys,
    Dirs <- MCDirs, MaxAdded <- 2, MaxServes <- 2, router <- r1, ppc <- r2,
    done <- r3, routes <- r4, served <- r5, formals <- r6, sources <- r7,
    args <- r8, app <- r1, added <- r2, tables <- r3, preserved <- r4,
    binders <- r5, running <- r6, everStarted <- r7, serves <- r8, meant <-
    r9, workers <- r10
Timers == INSTANCE LoopTimers WITH MaxTimers <- 2, MaxTime <- 3, MaxQueued
    <- 2, Entries <- MCEntries, BucketsNum <- 3, WheelsNum <- 2, MaxDelay <-
    7, MaxTicks <- 14, now <- r1, created <- r2, toLoop <- r3, heap <- r4,
    ids <- r5, armed <- r6, expired <- r7, toCall <- r8, readAt <- r9, runs
    <- r10, dead <- r11, ticks <- r1, wheels <- r2, due <- r3, fired <- r4
Tcp == INSTANCE TcpConnection WITH MaxCalls <- 3, MaxRoom <- 2, Kinds <-
    MCKinds, status <- r1, list <- r2, writing <- r3, reading <- r4,
    closeOnEmpty <- r5, out <- r6, room <- r7, wire <- r8, tasks <- r9,
    ncalls <- r10, streams <- r11, taken <- r12, failed <- r13, told <- r14
Util == INSTANCE Utils WITH kBufferOffset <- 2, InitLen <- 2, ExtBuffer <-
    3, MaxLen <- 3, MaxContent <- 5, ByteKinds <- 2, Bytes <- MCBytes,
    MaxBytes <- 3, buffer <- r1, content <- r2, input <- r1
Poll == INSTANCE Poller WITH MaxChannels <- 4, Fds <- MCFds, channels <- r1,
    epoll <- r2, openFds <- r3, phase <- r4, active <- r5, plFuncs <- r6
Sess == INSTANCE HttpSessions WITH Keys <- MCKeys, NoKey <- "none",
    BucketsNum <- 2, WheelsNum <- 2, MaxDelay <- 3, MaxTicks <- 5,
    MaxEntries <- 2, Clients <- MCSessClients,
    Timeout <- 2, Grace <- 1, Cached <- MCCached, MaxRequests <-
    MCSessRequests, MaxChanges <- 1, MaxTime <- 3, cmTicks <- r1, cmWheels
    <- r2, map <- r3, tick <- r4, user <- r5, deadline <- r6, slots <- r1,
    session <- r2, ids <- r3, later <- r4, now <- r5, reqs <- r6, cachedResp
    <- r7, jar <- r8, changes <- r9, given <- r10, used <- r11, raced <-
    r12, leaked <- r13
Parser == INSTANCE HttpParsers WITH Streams <- MCStreams, MaxBody <- 3,
    Answers <- MCAnswers, stream <- r1, came <- r2, used <- r3, inRead <-
    r4, pstatus <- r5, remain <- r6, chunk <- r7, body <- r8, parsed <- r9,
    replies <- r10, pstop <- r11, sending <- r1, arrivedTo <- r2, readTo <-
    r3, receiving <- r4, rstatus <- r5, leftBody <- r6, rchunk <- r7, rbody
    <- r8, delivered <- r9, clientEnd <- r10
Frames == INSTANCE WsFrames WITH Scripts <- MCScripts, MaxMessage <- 131072,
    script <- r1, arrived <- r2, consumed <- r3, parsing <- r4, message <-
    r5, msgType <- r6, got <- r7, pongs <- r8, shut <- r9
Client == INSTANCE HttpClient WITH MaxRequests <- 4, PipeliningDepth <- 1,
    Settings <- MCSettings, setting <- r1, tcp <- r2, dns <- r3, requests <-
    r4, pipe <- r5, wire <- r6, pending <- r7, inCallback <- r8, timed <-
    r9, timeoutFlag <- r10, called <- r11, got <- r12, replaced <- r13,
    object <- r14
Limit == INSTANCE ServerLimits WITH Peers <- MCPeers, IpOf <- MCIpOf, Limits
    <- MCLimits, Threads <- MCHodThreads, Requests <- MCHodRequests, Plans
    <- MCPlans, TrustedIps <- MCTrustedIps, TimeUnit <- 3, ExpireTime <- 1,
    MaxRequests <- 3, MaxTime <- 6, MaxWaiting <- 0, limits <- r1, cpc <-
    r2, connectionNum <- r3, ipConnections <- r4, plan <- r1, now <- r2,
    limiters <- r3, asking <- r4, came <- r5, granted <- r6, verdicts <- r7
Body == INSTANCE RequestBodies WITH MaxPieces <- 3, Forms <- MCForms,
    MaxHeader <- 5, handlerKind <- r1, streamStatus <- r2, pieces <- r3,
    held <- r4, reader <- r5, exception <- r6, finishCb <- r7, handled <-
    r8, theStream <- r9, chosen <- r10, heard <- r11, plainBody <- r12, form
    <- r1, fed <- r2, eaten <- r3, parsing <- r4, mstatus <- r5, isValid <-
    r6, isFinished <- r7, out <- r8, finishes <- r9
Tls == INSTANCE TlsConnection WITH MaxSend <- 2, MaxRoom <- 4, MaxBytes <-
    5, Sizes <- MCSendSizes, Flights <- 2, status <- r1, shake <- r2, list
    <- r3, buf <- r4, writing <- r5, closeOnEmpty <- r6, out <- r7, room <-
    r8, wire <- r9, records <- r10, taken <- r11, failed <- r12, errors <-
    r13, told <- r14
Resp == INSTANCE HttpResponse WITH Requests <- MCAskers, Kinds <-
    MCBodyKinds, Recipes <- MCRecipes, BigBody <- 2000, MaxMade <- 1,
    MaxAsks <- 2, MaxTime <- 1, conf <- r1, objs <- r2, made <- r3, cached
    <- r4, line <- r5, sending <- r6, open <- r7, asks <- r8, time <- r9,
    sent <- r10
Obj == INSTANCE HttpRequest WITH Incoming <- MCTaken, MaxMemory <- 3,
    MaxBody <- 6, MaxTaken <- 2, MaxCalls <- 3, in <- r1, phase <- r2, req
    <- r3, todo <- r4, room <- r5, out <- r6, sets <- r7, wire <- r8, taken
    <- r9, calls <- r10
Plug == INSTANCE Plugins WITH Paths <- MCUrls, Hosts <- MCHosts, Configs <-
    MCConfigs, Forwards <- MCForwards, Peers <- MCProxies, Address <-
    MCAddress, Bits <- 4, Trusted <- MCTrusted, MaxHeader <- 7, MaxHops <-
    3, Types <- MCTypes, Labels <- MCLabels, Boundaries <- MCBoundaries,
    TimeBucketCount <- 2, Values <- MCObserved, MaxChanges <- 2,
    MaxRotations <- 2, MaxScrapes <- 1, conf <- r1, request <- r2, asked <-
    r3, hops <- r4, outcome <- r5, location <- r6, passed <- r7, peer <- r8,
    forward <- r9, realIp <- r10, collectors <- r1, metrics <- r2, made <-
    r3, timers <- r4, refused <- r5, exporter <- r6, todo <- r7, locked <-
    r8, left <- r9, report <- r10, promised <- r11, seen <- r12, turns <-
    r13, changes <- r14, scrapes <- r15
Topics == INSTANCE PubSub WITH Threads <- MCSubThreads, Names <-
    MCTopicNames, MaxOps <- MCOps, MaxTopics <- 3, topicMap <- r1, topics <-
    r2, inTopic <- r3, pc <- r4, name <- r5, topic <- r6, todo <- r7, sub <-
    r8, owed <- r9, told <- r10, stray <- r11, ops <- r12,
    removed <- r13, victims <- r14
Orms == INSTANCE Orm WITH ClientTypes <- MCDbTypes, Key <- MCKey, Settings
    <- MCMapSettings, MaxCalls <- 2, MaxWaiting <- 1, DbTypes <- MCDbTypes,
    Columns <- MCColumns, Names <- MCColumnNames, Wrap <- 8, MaxSteps <- 4,
    client <- r1, limit <- r2, offset <- r3, orders <- r4, joins <- r5,
    forUpdate <- r6, asked <- r7, waiting <- r8, sent <- r9, stage <- r1,
    table <- r2, columns <- r3, filters <- r4, joined <- r5, rows <- r6,
    sorts <- r7, steps <- r8, query <- r9
WsR == INSTANCE WsSession WITH RConns <- MCRConns, CppConns <- MCNoConns,
    MaxConns <- 0, Rooms <- MCRooms, MaxMsgs <- 1, MaxTasks <- 1, server <-
    r1, routes <- r2, net <- r3, sess <- r4, live <- r5, io <- r6, after <-
    r7, tasks <- r8, events <- r9, batch <- r10, main <- r11, rooms <- r12,
    reap <- r13, backend <- r14, heard <- r15, frames <- r16, deadUse <- r17
WsCpp == INSTANCE WsSession WITH RConns <- MCNoConns, CppConns <-
    MCCppConns, MaxConns <- 1, Rooms <- MCRooms, MaxMsgs <- 1, MaxTasks <-
    1, server <- r1, routes <- r2, net <- r3, sess <- r4, live <- r5, io <-
    r6, after <- r7, tasks <- r8, events <- r9, batch <- r10, main <- r11,
    rooms <- r12, reap <- r13, backend <- r14, heard <- r15, frames <- r16,
    deadUse <- r17

Init ==
    \/ part = "limiter" /\ Limiter!RLInit /\ Free8
    \/ part = "chainR" /\ Chain!HCInit /\ Free9
    \/ part = "router" /\ Routing!RTInit /\ Free6
    \/ part = "files" /\ File!SFInit /\ Free10
    \/ part = "json" /\ Val!JWInit /\ Free2
    \/ part = "plumber" /\ Apps!PLInit /\ Free9
    \/ part = "timers" /\ Timers!TQInit /\ Free12
    \/ part = "wheel" /\ Timers!TWInit /\ Free5
    \/ part = "tcp" /\ Tcp!TCInit /\ Free15
    \/ part = "buffer" /\ Util!MBInit /\ Free3
    \/ part = "poller" /\ Poll!POInit /\ Free7
    \/ part = "cache" /\ Sess!CMInit /\ Free7
    \/ part = "parser" /\ Parser!HPInit /\ Free12
    \/ part = "frames" /\ Frames!FRInit /\ Free10
    \/ part = "client" /\ Client!HLInit /\ Free15
    \/ part = "codecs" /\ Util!CDInit /\ Free2
    \/ part = "ranges" /\ File!RGInit /\ Free4
    \/ part = "limits" /\ Limit!CLInit /\ Free5
    \/ part = "requests" /\ Chain!RCInit /\ Free11
    \/ part = "answers" /\ Parser!RPInit /\ Free11
    \/ part = "bodies" /\ Body!RSInit /\ Free13
    \/ part = "forms" /\ Body!MPInit /\ Free10
    \/ part = "apps" /\ Apps!ACInit /\ Free11
    \/ part = "values" /\ Val!RVInit /\ Free13
    \/ part = "tls" /\ Tls!TLInit /\ Free15
    \/ part = "responses" /\ Resp!HPInit /\ Free11
    \/ part = "objects" /\ Obj!RQInit /\ Free11
    \/ part = "httpSessions" /\ Sess!HSInit /\ Free14
    \/ part = "plugins" /\ Plug!PPInit /\ Free11
    \/ part = "hodor" /\ Limit!HDInit /\ Free8
    \/ part = "metrics" /\ Plug!MNInit /\ Free16
    \/ part = "topics" /\ Topics!PSInit /\ Free15
    \/ part = "mapper" /\ Orms!MAInit /\ Free10
    \/ part = "queries" /\ Orms!QBInit /\ Free10
    \/ part = "wsR" /\ WsR!Init
    \/ part = "wsCpp" /\ WsCpp!Init

Next ==
    /\ UNCHANGED part
    /\ \/ part = "limiter" /\ Limiter!RLNext /\ UNCHANGED from8
       \/ part = "chainR" /\ Chain!HCNext /\ UNCHANGED from9
       \/ part = "router" /\ Routing!RTNext /\ UNCHANGED from6
       \/ part = "files" /\ File!SFNext /\ UNCHANGED from10
       \/ part = "json" /\ Val!JWNext /\ UNCHANGED from2
       \/ part = "plumber" /\ Apps!PLNext /\ UNCHANGED from9
       \/ part = "timers" /\ Timers!TQNext /\ UNCHANGED from12
       \/ part = "wheel" /\ Timers!TWNext /\ UNCHANGED from5
       \/ part = "tcp" /\ Tcp!TCNext /\ UNCHANGED from15
       \/ part = "buffer" /\ Util!MBNext /\ UNCHANGED from3
       \/ part = "poller" /\ Poll!PONext /\ UNCHANGED from7
       \/ part = "cache" /\ Sess!CMNext /\ UNCHANGED from7
       \/ part = "parser" /\ Parser!HPNext /\ UNCHANGED from12
       \/ part = "frames" /\ Frames!FRNext /\ UNCHANGED from10
       \/ part = "client" /\ Client!HLNext /\ UNCHANGED from15
       \/ part = "codecs" /\ Util!CDNext /\ UNCHANGED from2
       \/ part = "ranges" /\ File!RGNext /\ UNCHANGED from4
       \/ part = "limits" /\ Limit!CLNext /\ UNCHANGED from5
       \/ part = "requests" /\ Chain!RCNext /\ UNCHANGED from11
       \/ part = "answers" /\ Parser!RPNext /\ UNCHANGED from11
       \/ part = "bodies" /\ Body!RSNext /\ UNCHANGED from13
       \/ part = "forms" /\ Body!MPNext /\ UNCHANGED from10
       \/ part = "apps" /\ Apps!ACNext /\ UNCHANGED from11
       \/ part = "values" /\ Val!RVNext /\ UNCHANGED from13
       \/ part = "tls" /\ Tls!TLNext /\ UNCHANGED from15
       \/ part = "responses" /\ Resp!HPNext /\ UNCHANGED from11
       \/ part = "objects" /\ Obj!RQNext /\ UNCHANGED from11
       \/ part = "httpSessions" /\ Sess!HSNext /\ UNCHANGED from14
       \/ part = "plugins" /\ Plug!PPNext /\ UNCHANGED from11
       \/ part = "hodor" /\ Limit!HDNext /\ UNCHANGED from8
       \/ part = "metrics" /\ Plug!MNNext /\ UNCHANGED from16
       \/ part = "topics" /\ Topics!PSNext /\ UNCHANGED from15
       \/ part = "mapper" /\ Orms!MANext /\ UNCHANGED from10
       \/ part = "queries" /\ Orms!QBNext /\ UNCHANGED from10
       \/ part = "wsR" /\ WsR!Next
       \/ part = "wsCpp" /\ WsCpp!Next

Spec == Init /\ [][Next]_vars
-----------------------------------------------------------------------------
\* Type correctness of the component that runs.
TypeOK ==
    /\ part = "limiter" => Limiter!RLTypeOK
    /\ part = "chainR" => Chain!HCTypeOK
    /\ part = "router" => Routing!RTTypeOK
    /\ part = "files" => File!SFTypeOK
    /\ part = "json" => Val!JWTypeOK
    /\ part = "plumber" => Apps!PLTypeOK
    /\ part = "timers" => Timers!TQTypeOK
    /\ part = "wheel" => Timers!TWTypeOK
    /\ part = "tcp" => Tcp!TCTypeOK
    /\ part = "buffer" => Util!MBTypeOK
    /\ part = "poller" => Poll!POTypeOK
    /\ part = "cache" => Sess!CMTypeOK
    /\ part = "parser" => Parser!HPTypeOK
    /\ part = "frames" => Frames!FRTypeOK
    /\ part = "client" => Client!HLTypeOK
    /\ part = "codecs" => Util!CDTypeOK
    /\ part = "ranges" => File!RGTypeOK
    /\ part = "limits" => Limit!CLTypeOK
    /\ part = "requests" => Chain!RCTypeOK
    /\ part = "answers" => Parser!RPTypeOK
    /\ part = "bodies" => Body!RSTypeOK
    /\ part = "forms" => Body!MPTypeOK
    /\ part = "apps" => Apps!ACTypeOK
    /\ part = "values" => Val!RVTypeOK
    /\ part = "tls" => Tls!TLTypeOK
    /\ part = "responses" => Resp!HPTypeOK
    /\ part = "objects" => Obj!RQTypeOK
    /\ part = "httpSessions" => Sess!HSTypeOK
    /\ part = "plugins" => Plug!PPTypeOK
    /\ part = "hodor" => Limit!HDTypeOK
    /\ part = "metrics" => Plug!MNTypeOK
    /\ part = "topics" => Topics!PSTypeOK
    /\ part = "mapper" => Orms!MATypeOK
    /\ part = "queries" => Orms!QBTypeOK
    /\ part = "wsR" => WsR!TypeOK
    /\ part = "wsCpp" => WsCpp!TypeOK

\* RateLimiter and ServerLimits: in no window more than twice its capacity
\* passes, a refused client that waits as told gets in; connections stay
\* within the limits, and the counters return to zero; the limits per
\* address, user and all hold, and nobody is refused but for them.
LimitsHold ==
    /\ part = "limiter" => Limiter!TwiceCapacity
    /\ part = "limiter" => Limiter!RetryAfterEnough
    /\ part = "limits" => Limit!ConnectionsBounded
    /\ part = "limits" => Limit!CountersReturn
    /\ part = "hodor" => Limit!CapsHold
    /\ part = "hodor" => Limit!HodorForCause

\* Chains: the links of a chain run in order, each at most as often as it is
\* called, and unwind in the opposite order; what next() gives is a response;
\* an error nobody catches is a 500.
ChainsWrap ==
    /\ part = "chainR" => Chain!LinksInOrder
    /\ part = "chainR" => Chain!NxtCanonical
    /\ part = "chainR" => Chain!UncaughtIs500
    /\ part = "requests" => Chain!MiddlewaresWrap

\* Router, AppConfig and Plugins: static mounts come last, a handler gets
\* each path parameter under its own name, a router is mounted whole or not
\* at all, and an endpoint gets its arguments by name; paths are cleaned and
\* redirected in one hop, filters guard what they are to guard, and the
\* address taken from a header is that of the last trusted hop.
RoutesMeant ==
    /\ part = "router" => Routing!StaticLast
    /\ part = "router" => Routing!ParamsBound
    /\ part = "plumber" => Apps!AllOrNothing
    /\ part = "plumber" => Apps!ArgumentsByName
    /\ part = "plugins" => Plug!PathClean
    /\ part = "plugins" => Plug!OneHop
    /\ part = "plugins" => Plug!FiltersGuard
    /\ part = "plugins" => Plug!RealIpMeant

\* Router, LoopTimers, HttpSessions, Chains, Orm and WsSession, over single
\* steps: installing a route changes no other, a dead timer never runs, an
\* entry that was used stays for its time, a cached response is served only
\* while it is fresh, a builder's query is that of the calls made on it, and
\* a room forgets a connection that closed.
NothingStale ==
    [][/\ part = "router" => Routing!InstallKeepsStep
       /\ part = "timers" => Timers!StaysQuiet
       /\ part = "cache" => Sess!KeptStep
       /\ part = "requests" => Chain!FreshStep
       /\ part = "queries" => Orms!MeantStep
       /\ part = "wsR" => WsR!RoomsForgetStep]_vars

\* RValues, HttpResponse and StaticFiles: a handler reads what the client
\* sent, and what the handler meant is what the client gets, with a length or
\* chunks that frame it, and whether the connection closes after it; an
\* answer about a file is no older than the cache allows, and a part of it is
\* a part of one version.
AnswersMeant ==
    /\ part = "files" => File!AnswerFresh
    /\ part = "files" => File!PartOfFile
    /\ part = "values" => Val!RequestSeen
    /\ part = "values" => Val!AnswerMeant
    /\ part = "values" => Val!SseHeard
    /\ part = "responses" => Resp!AnsweredAsMeant
    /\ part = "responses" => Resp!Framed
    /\ part = "responses" => Resp!SaysWhetherItCloses

\* Utils, StaticFiles and RValues: what is encoded can be decoded again,
\* ranges are those the header means and lie within the content, and JSON
\* text is that of the R value, or an error.
CodecsFaithful ==
    /\ part = "json" => Val!WritesWhatIsMeant
    /\ part = "json" => Val!RefusesTheRest
    /\ part = "codecs" => Util!Base64RoundTrip
    /\ part = "codecs" => Util!HexRoundTrip
    /\ part = "codecs" => Util!UrlRoundTrip
    /\ part = "codecs" => Util!ParametersArrive
    /\ part = "ranges" => File!RangesWithin
    /\ part = "ranges" => File!RangesMeant

\* LoopTimers and HttpSessions: the timer descriptor is armed for the
\* earliest timer, a live timer stays queued, entries of a wheel leave
\* neither early nor late, cached entries expire in time, and an access to
\* them blocks itself only if it was held up for the whole timeout.
TimersFire ==
    /\ part = "timers" => Timers!TimerArmed
    /\ part = "timers" => Timers!ValidKept
    /\ part = "wheel" => Timers!NotEarly
    /\ part = "wheel" => Timers!OnTime
    /\ part = "cache" => Sess!ExpiresInTime
    /\ part = "cache" => Sess!StuckOnlyWhenDue

\* TcpConnection, TlsConnection and Utils: no byte is lost, doubled or out of
\* order, no byte that may leave is stuck, the connection is shut only after
\* them, and its end is told once.
TransportKeeps ==
    /\ part = "tcp" => Tcp!NothingLost
    /\ part = "tcp" => Tcp!NoStall
    /\ part = "tcp" => Tcp!ShutAfterFlush
    /\ part = "tcp" => Tcp!ToldOnce
    /\ part = "buffer" => Util!BytesKept
    /\ part = "tls" => Tls!RecordsWhole
    /\ part = "tls" => Tls!TlsNoStall
    /\ part = "tls" => Tls!TlsShutAfterFlush
    /\ part = "tls" => Tls!TlsToldOnce

\* Poller: an event is delivered only to a channel that exists, and epoll
\* watches what the channels are interested in.
PollerSound ==
    /\ part = "poller" => Poll!ActiveExist
    /\ part = "poller" => Poll!InterestRegistered

\* HttpParsers, WsFrames, RequestBodies and HttpRequest: however the network
\* cuts a stream, exactly the requests, responses, messages, parts and bodies
\* that were sent come out, in order and whole.
StreamsIntact ==
    /\ part = "parser" => Parser!RequestsIntact
    /\ part = "frames" => Frames!MessagesIntact
    /\ part = "answers" => Parser!ResponsesIntact
    /\ part = "bodies" => Body!ReaderServed
    /\ part = "bodies" => Body!PlainGetsBody
    /\ part = "forms" => Body!PartsIntact
    /\ part = "objects" => Obj!ReadsItsOwn
    /\ part = "objects" => Obj!BodyWhole
    /\ part = "objects" => Obj!ForwardedAsItCame

\* HttpParsers, WsFrames and RequestBodies: a stream is refused as soon as it
\* breaks the rules, and for nothing else.
RefusedForCause ==
    /\ part = "parser" => Parser!RefusedForCause
    /\ part = "frames" => Frames!ShutForCause
    /\ part = "forms" => Body!FinishedForCause

\* HttpClient: the callback of a request is called once, with the response to
\* that request, and no request is left behind while the connection could
\* carry it.
ClientAnswers ==
    /\ part = "client" => Client!CalledOnce
    /\ part = "client" => Client!OwnResponse
    /\ part = "client" => Client!RequestsMove

\* AppConfig: a server serves exactly what its app held when dr_serve() was
\* given it, whatever failed before or was configured since; the strongest
\* handler of a key answers, through the middlewares, and every R object in a
\* table is protected as often as it is held.
AppsServed ==
    /\ part = "apps" => Apps!ServedAsConfigured
    /\ part = "apps" => Apps!StrongestServes
    /\ part = "apps" => Apps!HandlersHeld
    /\ part = "apps" => Apps!MiddlewaresApply

\* HttpSessions, PubSub and Plugins, which threads share: a client keeps its
\* session and its cookie, subscribers hear what is published while they are
\* subscribed and nothing else, and metrics are exported as they were
\* counted.
SharedSound ==
    /\ part = "httpSessions" => Sess!ClientKeepsSession
    /\ part = "httpSessions" => Sess!ClientToldId
    /\ part = "httpSessions" => Sess!OldIdGoes
    /\ part = "httpSessions" => Sess!CookiePrivate
    /\ part = "metrics" => Plug!SamplesExact
    /\ part = "metrics" => Plug!ScrapeWhole
    /\ part = "topics" => Topics!AllHear
    /\ part = "topics" => Topics!NoneHeardAfter
    /\ part = "topics" => Topics!SubscribersReachable

\* Orm: the arguments of a statement are those its placeholders stand for, in
\* the syntax of the database, and a setting serves exactly the statement it
\* was made for.
StatementsFit ==
    /\ part = "mapper" => Orms!ArgumentsFit
    /\ part = "mapper" => Orms!SettingsServeOnce

\* WsSession, for routes of R hooks and of native code: a route's count of
\* live sessions is what its sessions make it and stays within its limit, and
\* a session hears its connect, its messages and its close in this order, and
\* its close once.
SocketsSound ==
    /\ part = "wsR" => WsR!SocketsSound
    /\ part = "wsCpp" => WsCpp!SocketsSound
=============================================================================
