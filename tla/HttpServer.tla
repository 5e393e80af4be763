----------------------------- MODULE HttpServer -----------------------------
(***************************************************************************)
(* One HTTP connection of Drogon's server: a read delivers several         *)
(* pipelined requests, each is answered at once, later on the loop's       *)
(* thread, or by another thread, and the responses leave in the order of   *)
(* the requests.  The limits on pipelined and kept-alive requests are off  *)
(* (0), as drogonR leaves them, and requests are not streamed.             *)
(***************************************************************************)
EXTENDS Integers, Sequences, FiniteSets, SequencesExt

CONSTANTS MaxReqs,      \* messages the client sends
          MaxBatch      \* messages one read may deliver

VARIABLES
  conn,         \* "open"; "draining": closeOnEmpty_; "closing", "drained": the
                \* socket was shut down at once, when it had drained; "closed"
  parserStop,   \* stop_ of the parser
  kinds,        \* kind of every message the client sent, in their order
  pipelining,   \* requestPipelining_: records [req, ready]
  respBuffer,   \* responseBuffer_
  handling,     \* requests whose handler holds a callback it has not used
  toSend,       \* responses queued to the loop by other threads
  sent          \* what was written: <<"resp", request>>, <<"error", request>>

hsVars == <<conn, parserStop, kinds, pipelining, respBuffer, handling, toSend, sent>>

Reqs == 1 .. MaxReqs
\* A request, one that says "Connection: close", one that does and whose response
\* may have no content (1xx, 204), and one that cannot be parsed.
MsgKinds == {"keep", "close", "closeEmpty", "bad"}
Written == {"resp", "error"} \X Reqs

HSTypeOK ==
  /\ conn \in {"open", "draining", "closing", "drained", "closed"} /\ parserStop \in BOOLEAN
  /\ kinds \in Seq(MsgKinds) /\ Len(kinds) <= MaxReqs
  /\ pipelining \in Seq([req : Reqs, ready : BOOLEAN])
  /\ respBuffer \in Seq(Reqs) /\ toSend \in Seq(Reqs)
  /\ handling \subseteq Reqs /\ sent \in Seq(Written)

HSInit ==
  /\ conn = "open" /\ parserStop = FALSE /\ kinds = <<>> /\ pipelining = <<>>
  /\ respBuffer = <<>> /\ handling = {} /\ toSend = <<>> /\ sent = <<>>

\* connected(): also while a shutdown() waits for the writes before it.
Connected == conn \in {"open", "draining"}

\* TcpConnectionImpl::shutdown(): with writes pending, in the list or in the TLS
\* provider, it only notes that the connection is to be closed after them.
Shutdown ==
  IF conn = "open" THEN conn' \in {"draining", "closing"} ELSE UNCHANGED conn

\* A plausible bug: a batch is sent whole, past a response that closes.
MutUpto(rs, ks) == rs

\* sendResponses(): up to the first response that closes the connection.  One
\* without content is left before its close flag is looked at.
Upto(rs, ks) ==
  LET closing == {k \in DOMAIN rs : ks[rs[k]] = "close"} IN
  IF closing = {} THEN rs
  ELSE SubSeq(rs, 1, CHOOSE k \in closing : \A j \in closing : k <= j)

\* ... and shutdown() after it.
SendResponses(rs, ks) ==
  /\ sent' = sent \o [k \in DOMAIN Upto(rs, ks) |-> <<"resp", Upto(rs, ks)[k]>>]
  /\ IF \E k \in DOMAIN rs : ks[rs[k]] = "close" THEN Shutdown ELSE UNCHANGED conn

\* A plausible bug: one entry leaves for every response that arrives.
MutReady(p) == SubSeq(p, 1, 1)

\* popReadyResponses(): the answered entries at the front.
Ready(p) ==
  SubSeq(p, 1, CHOOSE n \in 0 .. Len(p) :
                 /\ \A k \in 1 .. n : p[k].ready
                 /\ n < Len(p) => ~p[n + 1].ready)

PopReady(p) == SelectSeq(p, LAMBDA e : ~\E k \in DOMAIN Ready(p) : Ready(p)[k] = e)

Answered(p) == [k \in DOMAIN p |-> p[k].req]

\* pushResponseToPipelining(): the entry of r gets its response.
Put(p, r) == [k \in DOMAIN p |-> IF p[k].req = r THEN [p[k] EXCEPT !.ready = TRUE] ELSE p[k]]

\* The loop of onRequests(), for one request: behind others it enters the
\* pipeline first; alone, it enters it when it was not answered at once.
One(s, r, atOnce) ==
  CASE s.pipe # <<>> -> [s EXCEPT !.pipe = Append(@, [req |-> r, ready |-> atOnce])]
    [] s.pipe = <<>> /\ atOnce -> [s EXCEPT !.buf = Append(@, r)]
    [] OTHER -> [s EXCEPT !.pipe = Append(@, [req |-> r, ready |-> FALSE])]

\* onRequests(): `now' are the requests whose handlers answer before they return.
OnRequests(reqs, now, ks) ==
  LET after == FoldLeft(LAMBDA s, r : One(s, r, r \in now),
                        [pipe |-> pipelining, buf |-> respBuffer], reqs)
  IN /\ pipelining' = after.pipe
     /\ handling' = handling \cup (Range(reqs) \ now)
     /\ respBuffer' = <<>>
     /\ IF after.buf = <<>> THEN UNCHANGED <<sent, conn>>
                            ELSE SendResponses(after.buf, ks)

(***************************************************************************)
(* onMessage(): the parser takes the buffer apart.  A message it cannot    *)
(* parse is answered here and now, and ends everything; the requests       *)
(* before it in the same buffer were only collected, not handed on.        *)
(***************************************************************************)
OnMessage(batch, now) ==
  LET first == Len(kinds)
      ks == kinds \o batch
      bad == {k \in DOMAIN batch : batch[k] = "bad"}
  IN /\ conn # "closed"
     /\ now \subseteq {first + k : k \in DOMAIN batch}
     /\ kinds' = ks
     /\ \/ /\ parserStop
           /\ UNCHANGED <<conn, parserStop, pipelining, respBuffer, handling, sent>>
        \/ /\ ~parserStop /\ bad # {}
           /\ parserStop' = TRUE /\ Shutdown
           /\ sent' = IF Connected
                        THEN Append(sent, <<"error", first + (CHOOSE k \in bad : \A j \in bad : k <= j)>>)
                        ELSE sent
           /\ UNCHANGED <<pipelining, respBuffer, handling>>
        \/ /\ ~parserStop /\ bad = {} /\ Connected
           /\ OnRequests([k \in DOMAIN batch |-> first + k], now, ks)
           /\ UNCHANGED parserStop
        \/ /\ ~parserStop /\ bad = {} /\ ~Connected
           /\ UNCHANGED <<conn, parserStop, pipelining, respBuffer, handling, sent>>
     /\ UNCHANGED toSend

Sizes == {n \in 1 .. MaxBatch : Len(kinds) + n <= MaxReqs}   \* bounds

Read == \E n \in Sizes : \E batch \in [1 .. n -> MsgKinds] :
          \E now \in SUBSET {Len(kinds) + k : k \in 1 .. n} : OnMessage(batch, now)

\* The rest of handleResponse() for a response that reaches the pipeline.
Deliver(r) ==
  LET p == Put(pipelining, r) IN
  IF pipelining # <<>> /\ Head(pipelining).req = r
    THEN /\ pipelining' = PopReady(p)
         /\ SendResponses(Answered(Ready(p)), kinds)
    ELSE /\ pipelining' = p
         /\ UNCHANGED <<sent, conn>>

\* handleResponse() on the loop's thread, after the handler returned.  Without
\* a connection it does nothing.
AnswerInLoop(r) ==
  /\ r \in handling
  /\ handling' = handling \ {r}
  /\ IF Connected THEN Deliver(r) ELSE UNCHANGED <<pipelining, sent, conn>>
  /\ UNCHANGED <<parserStop, kinds, respBuffer, toSend>>

\* handleResponse() on another thread.  A second call of the callback changes
\* nothing, whatever the thread: responseSent_ is exchanged atomically.
AnswerElsewhere(r) ==
  /\ r \in handling
  /\ handling' = handling \ {r}
  /\ toSend' = IF Connected THEN Append(toSend, r) ELSE toSend
  /\ UNCHANGED <<conn, parserStop, kinds, pipelining, respBuffer, sent>>

RunQueued ==
  /\ toSend # <<>>
  /\ toSend' = Tail(toSend)
  /\ IF Connected THEN Deliver(Head(toSend)) ELSE UNCHANGED <<pipelining, sent, conn>>
  /\ UNCHANGED <<parserStop, kinds, respBuffer, handling>>

\* handleWrite() has written the last byte, and shuts the connection down.
Drained ==
  /\ conn = "draining"
  /\ conn' = "drained"
  /\ UNCHANGED <<parserStop, kinds, pipelining, respBuffer, handling, toSend, sent>>

\* The client closes, or reads the end of what shutdown() let through.
PeerCloses ==
  /\ conn # "closed"
  /\ conn' = "closed"
  /\ UNCHANGED <<parserStop, kinds, pipelining, respBuffer, handling, toSend, sent>>

HSNext ==
  \/ Read \/ RunQueued \/ Drained \/ PeerCloses
  \/ \E r \in Reqs : AnswerInLoop(r) \/ AnswerElsewhere(r)

\* The loop runs what is queued to it and every handler uses its callback.
HSFairness ==
  /\ WF_hsVars(RunQueued)
  /\ \A r \in Reqs : WF_hsVars(AnswerInLoop(r) \/ AnswerElsewhere(r))

HSSpec == HSInit /\ [][HSNext]_hsVars /\ HSFairness

(***************************************************************************)
(* Properties.                                                             *)
(***************************************************************************)

\* What ends the exchange: an error reply, or a response that closes.
Ends(w) == w[1] = "error" \/ kinds[w[2]] = "close"

\* "A server MUST send its responses to those requests in the same order that
\* the requests were received" (handleResponse()): responses never overtake each
\* other, whichever handlers and threads were faster, and up to the one that
\* ends the exchange the k-th answers the k-th request.  Nothing follows that
\* one, unless it had to wait for writes: until they are done the connection
\* counts as connected, and later requests are still served.
ResponsesInOrder ==
  \A k \in DOMAIN sent :
    /\ sent[k][1] = "resp" =>
         /\ \A j \in 1 .. (k - 1) : sent[j][1] = "resp" => sent[j][2] < sent[k][2]
         /\ (\A j \in 1 .. (k - 1) : ~Ends(sent[j])) => sent[k][2] = k
    /\ conn = "closing" /\ k < Len(sent) => ~Ends(sent[k])

\* The pipeline never stands still: whatever waits in it waits for the answer
\* of its first entry, because handleResponse() pops only when that one arrives.
HeadIsPending == pipelining # <<>> => ~Head(pipelining).ready

\* What the pipeline keeps, taken together.
PipelineSound == ResponsesInOrder /\ HeadIsPending

\* Every request that was handed to a handler is answered, unless the connection
\* is closed, or told to close, first: no response stays in the pipeline or the
\* queue.
RequestAnswered ==
  \A r \in Reqs : r \in handling ~> (conn # "open" \/ <<"resp", r>> \in Range(sent))

\* The same order, for every reply: the k-th thing on the wire answers the k-th
\* message.  An error reply does not keep to it (onMessage() writes it past the
\* pipeline), see the README.
RepliesInOrder == \A k \in DOMAIN sent : sent[k][2] = k
=============================================================================
