------------------------------- MODULE Chains -------------------------------
(***************************************************************************)
(* What happens to one request between the dispatcher and the R handler:   *)
(* the middleware chain of dr_use(), normalisation of every value handed   *)
(* back, dr_on_error(), and how the dispatcher turns the result into a     *)
(* response.  R code is free: a link may call nxt() again, catch the error *)
(* of a link below, return any kind of value, or raise.                    *)
(***************************************************************************)
EXTENDS Naturals, Sequences, SequencesExt, Integers, FiniteSets

CONSTANTS MaxLinks,   \* bound: middlewares of an app
          MaxNext     \* bound: calls of nxt() by one link

VARIABLES
    n,         \* length(app$middleware)
    onError,   \* app$on_error is set
    i,         \* the counter the closures of .dr_run_chain() share
    stack,     \* links running, outermost first: [link, calls of nxt()]
    value,     \* what the link that just ended handed back
    answer,    \* what the client gets; "none" while R runs
    again,     \* history: some link called nxt() twice
    made       \* history: the value a link last made itself

hcVars == <<n, onError, i, stack, value, answer, again, made>>

\* Kinds of R values: one string, a list with a body, a canonical response, a
\* drogon_stream, anything else; "error" is a condition being raised.
Raw == {"string", "list", "stream", "other"}

HCInit ==
    /\ n \in 0 .. MaxLinks /\ onError \in BOOLEAN
    /\ i = 0 /\ stack = <<>> /\ value = "start" /\ answer = "none"
    /\ again = FALSE /\ made = "nothing"

\* A plausible bug: a single string is passed on as it is.
MutNormalize(v) ==
    CASE v = "error" -> "error"
      [] v = "string" -> "string"
      [] v \in {"list", "response"} -> "response"
      [] OTHER -> "unsupported"

\* .dr_normalize_response(): a stream has no body.
Normalize(v) ==
    CASE v = "error" -> "error"
      [] v \in {"string", "list", "response"} -> "response"
      [] OTHER -> "unsupported"

\* dr_serve() wraps handlers only when there is something to wrap them in.
Wrapped == n > 0 \/ onError

Handler == n + 1

Running == answer = "none" /\ stack # <<>> /\ value # "error"

\* A plausible bug: the last middleware is taken for the handler.
MutLink(k) == IF k >= n THEN Handler ELSE k

\* step() calls the link the shared counter has reached.
Link(k) == IF k > n THEN Handler ELSE k

Frame(k) == [link |-> Link(k), calls |-> 0]

Enter ==
    /\ value = "start"
    /\ i' = i + 1
    /\ stack' = <<Frame(i + 1)>>
    /\ value' = "nothing"
    /\ UNCHANGED <<n, onError, answer, again, made>>

\* A middleware calls nxt().
CallNext ==
    /\ Running
    /\ LET top == Last(stack) IN
       /\ top.link # Handler /\ top.calls < MaxNext
       /\ stack' = Front(stack) \o <<[top EXCEPT !.calls = @ + 1], Frame(i + 1)>>
       /\ again' = (again \/ top.calls > 0)
    /\ i' = i + 1
    /\ value' = "nothing"
    /\ UNCHANGED <<n, onError, answer, made>>

\* A link returns a value of its own or, a middleware, what nxt() gave it.
Return(v) ==
    /\ Running
    /\ v \in Raw \/ (v = value /\ v \in {"response", "unsupported"})
    /\ stack' = Front(stack)
    /\ value' = IF Wrapped THEN Normalize(v) ELSE v
    /\ made' = IF v \in Raw THEN v ELSE made
    /\ UNCHANGED <<n, onError, i, answer, again>>

Raise ==
    /\ Running
    /\ stack' = Front(stack)
    /\ value' = "error"
    /\ UNCHANGED <<n, onError, i, answer, again, made>>

\* The error reaches the link that had called nxt(): it unwinds that one too,
\* or is caught there.
Unwind ==
    /\ value = "error" /\ stack # <<>>
    /\ stack' = Front(stack)
    /\ UNCHANGED <<n, onError, i, value, answer, again, made>>

Catch ==
    /\ value = "error" /\ stack # <<>>
    /\ value' = "nothing"
    /\ UNCHANGED <<n, onError, i, stack, answer, again, made>>

\* The value leaves R: runDispatcher() sends a response, or starts a stream.
Deliver(v) ==
    /\ answer' = CASE v \in {"string", "list", "response"} -> "response"
                   [] v \in {"stream", "default500"} -> v
                   [] OTHER -> "unsupported"
    /\ UNCHANGED <<n, onError, i, stack, value, again, made>>

Ended == answer = "none" /\ stack = <<>> /\ value # "start"

\* The chain's result, normalised once more by the wrapper.
Result ==
    /\ Ended /\ value # "error"
    /\ Deliver(IF Wrapped THEN Normalize(value) ELSE value)

\* A plausible bug: dr_on_error() is taken to be set, and not to raise.
MutHandleError ==
    /\ Ended /\ value = "error"
    /\ \E v \in Raw : Deliver(Normalize(v))

\* .dr_handle_error() in the wrapper, R_tryEval()'s error flag without it:
\* dr_on_error()'s value, or the default 500 if there is none or it raises too.
HandleError ==
    /\ Ended /\ value = "error"
    /\ \/ onError /\ \E v \in Raw : Deliver(Normalize(v))
       \/ Deliver("default500")

HCNext == Enter \/ CallNext \/ (\E v \in Raw \union {"response", "unsupported"} : Return(v))
          \/ Raise \/ Unwind \/ Catch \/ Result \/ HandleError

HCSpec == HCInit /\ [][HCNext]_hcVars
-----------------------------------------------------------------------------
HCTypeOK ==
    /\ n \in 0 .. MaxLinks /\ onError \in BOOLEAN /\ again \in BOOLEAN
    /\ stack \in Seq([link : 1 .. n + 1, calls : 0 .. MaxNext])
    /\ value \in Raw \union {"start", "nothing", "response", "unsupported", "error"}
    /\ answer \in {"none", "response", "stream", "unsupported", "default500"}
    /\ made \in Raw \union {"nothing"}

\* As long as every link calls nxt() at most once, errors caught on the way
\* included, the links run in registration order and none is skipped.  (A link
\* that calls nxt() again finds the counter moved on and skips links.)
LinksInOrder == ~again => \A k \in DOMAIN stack : stack[k].link = k

\* mode-native.Rmd: nxt()'s return is always normalised, so that a middleware
\* can treat it as a list, whatever a link below made of a caught error.
NxtCanonical == Wrapped => value \notin Raw

\* An error nobody caught is answered by dr_on_error() or the default 500,
\* and only such an error is.
UncaughtIs500 ==
    answer # "none" => /\ value = "error" /\ ~onError => answer = "default500"
                       /\ answer = "default500" => value = "error"

\* streaming.Rmd: middleware runs once, when "the handler returns the
\* `drogon_stream` object. After that, the dispatcher pumps `next_chunk()`".
StreamDelivered ==
    answer # "none" /\ value # "error" /\ made = "stream" => answer = "stream"

-----------------------------------------------------------------------------
(***************************************************************************)
(* What an HTTP request passes before and after its handler: advices       *)
(* before routing, the router, advices after it, the middlewares of the    *)
(* route, the answer to OPTIONS, advices before handling, the cached       *)
(* response, the handler.  Every link answers or passes on, at once or     *)
(* later from another thread.  The requests share one route and one loop;  *)
(* a link uses one of its callbacks, once.                                 *)
(***************************************************************************)

CONSTANTS Chains,       \* sequences of links, see Kinds
          MaxRequests,  \* requests of a behaviour
          Expiries,     \* expiredTime() of the handler's responses (-1: not cached)
          MaxClock      \* bound on time

VARIABLES
  chain,        \* the links of the route
  clock,        \* now
  at,           \* the link a request is at (0: it has not come)
  where,        \* who has it: the loop, its queue, another thread, ...
  posts,        \* middlewares that passed it on, with the callback they gave
  unwound,      \* ... whose callback has been called, in this order
  reply,        \* the response on its way out
  stored,       \* responseCache_ of the loop: None or a response
  toStore,      \* setThreadData() queued to the loop
  birth         \* when the handler answered a request (history)

rcVars == <<chain, clock, at, where, posts, unwound, reply, stored, toStore, birth>>

Rqs == 1 .. MaxRequests
Kinds == {"prerouting", "route", "postrouting", "middleware", "options", "prehandling", "handle"}
Wheres == {"away", "loop", "queue", "other", "handler", "out", "done"}

\* A response: who made it, for which request, when, and for how long it may be
\* cached.
Made == [by : {"link", "router", "cors", "handler"}, for : Rqs, made : 0 .. MaxClock,
         expiry : Expiries \cup {-1}]
None == [by |-> "none", for |-> 0, made |-> 0, expiry |-> -1]

RCTypeOK ==
  /\ chain \in Chains /\ clock \in 0 .. MaxClock
  /\ at \in [Rqs -> 0 .. Len(chain)] /\ where \in [Rqs -> Wheres]
  /\ posts \in [Rqs -> Seq(DOMAIN chain)] /\ unwound \in [Rqs -> Seq(DOMAIN chain)]
  /\ reply \in [Rqs -> Made \cup {None}] /\ stored \in Made \cup {None}
  /\ toStore \in Seq(Made) /\ birth \in [Rqs -> 0 .. MaxClock]

RCInit ==
  /\ chain \in Chains /\ clock = 0
  /\ at = [r \in Rqs |-> 0] /\ where = [r \in Rqs |-> "away"]
  /\ posts = [r \in Rqs |-> <<>>] /\ unwound = [r \in Rqs |-> <<>>]
  /\ reply = [r \in Rqs |-> None] /\ stored = None /\ toStore = <<>>
  /\ birth = [r \in Rqs |-> 0]

Tick ==
  /\ clock < MaxClock
  /\ clock' = clock + 1
  /\ UNCHANGED <<chain, at, where, posts, unwound, reply, stored, toStore, birth>>

\* onHttpRequest(): the first link.
Arrive(r) ==
  /\ where[r] = "away"
  /\ at' = [at EXCEPT ![r] = 1]
  /\ where' = [where EXCEPT ![r] = "loop"]
  /\ UNCHANGED <<chain, clock, posts, unwound, reply, stored, toStore, birth>>

MiddlewareLink(r) == chain[at[r]]

\* A link answers: the callback it has is the one the last middleware that
\* passed the request on gave for its response, or the server's own.
Callback(r, resp) ==
  /\ reply' = [reply EXCEPT ![r] = resp]
  /\ where' = [where EXCEPT ![r] = "out"]
  /\ UNCHANGED posts

Response(r, by) == [by |-> by, for |-> r, made |-> clock, expiry |-> -1]

\* A link passes the request on: in the loop at once, elsewhere by queueInLoop().
\* A middleware gives the callback for its response with it.
Passes(r) ==
  posts' = [posts EXCEPT ![r] = IF MiddlewareLink(r) = "middleware" THEN Append(@, at[r]) ELSE @]

Advice(r) ==
  /\ MiddlewareLink(r) \in {"prerouting", "postrouting", "middleware", "prehandling"}
  /\ where[r] \in {"loop", "other"}
  /\ \/ Callback(r, Response(r, "link")) /\ UNCHANGED at
     \/ /\ where[r] = "loop" /\ where' = where
        /\ Passes(r) /\ at' = [at EXCEPT ![r] = @ + 1] /\ UNCHANGED reply
     \/ /\ where[r] = "loop" /\ where' = [where EXCEPT ![r] = "other"]
        /\ UNCHANGED <<at, posts, reply>>
     \/ /\ where[r] = "other" /\ where' = [where EXCEPT ![r] = "queue"]
        /\ Passes(r) /\ UNCHANGED <<at, reply>>
  /\ UNCHANGED <<chain, clock, unwound, stored, toStore, birth>>

\* A plausible bug: a request that another thread passed on skips a link.
MutRunQueued(r) ==
  /\ where[r] = "queue"
  /\ where' = [where EXCEPT ![r] = "loop"]
  /\ at' = [at EXCEPT ![r] = IF @ + 2 <= Len(chain) THEN @ + 2 ELSE @ + 1]
  /\ UNCHANGED <<chain, clock, posts, unwound, reply, stored, toStore, birth>>

\* The queued functor: doAdviceChain() or passMiddlewareChains() of index + 1.
RunQueued(r) ==
  /\ where[r] = "queue"
  /\ where' = [where EXCEPT ![r] = "loop"]
  /\ at' = [at EXCEPT ![r] = @ + 1]
  /\ UNCHANGED <<chain, clock, posts, unwound, reply, stored, toStore, birth>>

\* httpRequestRouting(): a route; or a method that is not allowed, or none.
Route(r) ==
  /\ MiddlewareLink(r) = "route" /\ where[r] = "loop"
  /\ \/ at' = [at EXCEPT ![r] = @ + 1] /\ UNCHANGED <<where, posts, reply>>
     \/ Callback(r, Response(r, "router")) /\ UNCHANGED at
  /\ UNCHANGED <<chain, clock, unwound, stored, toStore, birth>>

\* requestPreHandling(): OPTIONS is answered here.
Options(r) ==
  /\ MiddlewareLink(r) = "options" /\ where[r] = "loop"
  /\ \/ at' = [at EXCEPT ![r] = @ + 1] /\ UNCHANGED <<where, posts, reply>>
     \/ Callback(r, Response(r, "cors")) /\ UNCHANGED at
  /\ UNCHANGED <<chain, clock, unwound, stored, toStore, birth>>

Valid(resp) == resp # None /\ (resp.expiry = 0 \/ clock < resp.made + resp.expiry)

\* httpRequestHandling(): the cached response while it is valid, or the handler.
Handle(r) ==
  /\ MiddlewareLink(r) = "handle" /\ where[r] = "loop"
  /\ IF Valid(stored)
       THEN Callback(r, stored) /\ UNCHANGED stored
       ELSE /\ stored' = None
            /\ where' = [where EXCEPT ![r] = "handler"]
            /\ UNCHANGED <<posts, reply>>
  /\ UNCHANGED <<chain, clock, at, unwound, toStore, birth>>

\* The handler's callback: the response is cached unless it must not be, on the
\* loop's thread at once.
Answer(r, expiry, inLoop) ==
  LET resp == [by |-> "handler", for |-> r, made |-> clock, expiry |-> expiry] IN
  /\ where[r] = "handler"
  /\ Callback(r, resp)
  /\ stored' = IF expiry >= 0 /\ inLoop THEN resp ELSE stored
  /\ toStore' = IF expiry >= 0 /\ ~inLoop THEN Append(toStore, resp) ELSE toStore
  /\ birth' = [birth EXCEPT ![r] = clock]
  /\ UNCHANGED <<chain, clock, at, unwound>>

\* A plausible bug: a response is as old as the cache's entry.
MutStored(resp) == [resp EXCEPT !.made = clock]

Stored(resp) == resp

Store ==
  /\ toStore # <<>>
  /\ stored' = Stored(Head(toStore)) /\ toStore' = Tail(toStore)
  /\ UNCHANGED <<chain, clock, at, where, posts, unwound, reply, birth>>

\* The response goes out: the callbacks of the middlewares, the last one's
\* first, and the server's.
UnwindTo(r) ==
  LET left == Len(posts[r]) - Len(unwound[r]) IN
  /\ where[r] = "out"
  /\ IF left > 0
       THEN unwound' = [unwound EXCEPT ![r] = Append(@, posts[r][left])] /\ UNCHANGED where
       ELSE where' = [where EXCEPT ![r] = "done"] /\ UNCHANGED unwound
  /\ UNCHANGED <<chain, clock, at, posts, reply, stored, toStore, birth>>

Step(r) == \/ at[r] > 0 /\ (Advice(r) \/ Route(r) \/ Options(r) \/ Handle(r))
           \/ RunQueued(r) \/ UnwindTo(r)
           \/ \E e \in Expiries, l \in BOOLEAN : Answer(r, e, l)

RCNext == Tick \/ Store \/ \E r \in Rqs : Arrive(r) \/ Step(r)

RCSpec == RCInit /\ [][RCNext]_rcVars

(***************************************************************************)
(* Properties.                                                             *)
(***************************************************************************)

\* The middlewares before position n of the chain.
MiddlewaresBefore(num) == SelectSeq([j \in 1 .. (num - 1) |-> j], LAMBDA j : chain[j] = "middleware")

\* The middlewares wrap what is inside them: when the server gets the response,
\* the callbacks of exactly those before the link that answered have been
\* called, from the inside out, whatever threads took part.
MiddlewaresWrap ==
  \A r \in Rqs : where[r] = "done" => unwound[r] = Reverse(MiddlewaresBefore(at[r]))

\* A response from the cache answers a request only while it is younger than
\* its expiry, also when it waited in the loop's queue to be stored there, or
\* when an older one was stored after a younger.
FreshStep ==
  \A r \in Rqs : where[r] = "loop" /\ where'[r] = "out" /\ reply'[r].by = "handler"
    => \/ reply'[r].expiry = 0
       \/ clock < birth[reply'[r].for] + reply'[r].expiry

\* What the cache answers with is fresh: so in every step.
CachedIsFresh == [][FreshStep]_rcVars
=============================================================================
