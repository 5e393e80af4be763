----------------------------- MODULE HttpClient -----------------------------
(* Drogon's HttpClientImpl: requests wait in requestsBuffer_ for a          *)
(* connection and in pipeliningCallbacks_ for a response; the connection    *)
(* comes, goes and fails, requests time out, and a request's callback may   *)
(* itself send another request while the client is half-way through a loop. *)
(* Everything runs on one event loop.                                       *)
EXTENDS Integers, Sequences, SequencesExt

CONSTANTS MaxRequests,      \* bound: requests sent
          PipeliningDepth,  \* pipeliningDepth_
          Settings          \* [server, resends, reuses]: whether the server is given
                            \* by address, by name or by neither, and whether callbacks
                            \* send requests and the application sends one again

VARIABLES setting,
          tcp,        \* tcpClientPtr_ and its connection: none, connecting, up,
                      \* half (shutdown called) or down (closed, not yet dropped)
          dns,        \* dns_
          requests,   \* requestsBuffer_
          pipe,       \* pipeliningCallbacks_
          wire,       \* requests written to this connection and not answered
          pending,    \* what the loop does when the callback it runs returns
          inCallback, \* whether a callback is running
          timed,      \* for each request sent, whether it has a timeout
          object,     \* ... and its HttpRequestPtr, known by its first use
          timeoutFlag,\* timeoutFlag of those
          called,     \* how often each request's callback was called
          got,        \* the request whose response each one got (0: none)
          replaced    \* a connected TcpClient was overwritten

hlVars == <<setting, tcp, dns, requests, pipe, wire, pending, inCallback, timed,
            object, timeoutFlag, called, got, replaced>>

Ids == 1..MaxRequests
Sent == 1..Len(timed)

HLInit ==
    /\ setting \in Settings
    /\ tcp = "none" /\ dns = FALSE /\ requests = <<>> /\ pipe = <<>> /\ wire = <<>>
    /\ pending = "idle" /\ inCallback = FALSE
    /\ timed = <<>> /\ object = <<>> /\ timeoutFlag = [i \in Ids |-> FALSE]
    /\ called = [i \in Ids |-> 0] /\ got = [i \in Ids |-> 0] /\ replaced = FALSE

\* A plausible bug: the flag is not looked at when a response comes after all.
MutSilenced(i) == FALSE

\* The wrapper of a request with a timeout keeps a second result to itself.
Silenced(i) == timed[i] /\ timeoutFlag[i]

\* The callback of request i is called, with the response to request r (0 for an
\* error); afterwards the loop goes on with next.
Call(i, r, next) ==
    /\ pending' = next
    /\ inCallback' = ~Silenced(i)
    /\ called' = IF Silenced(i) THEN called ELSE [called EXCEPT ![i] = @ + 1]
    /\ got' = IF Silenced(i) THEN got ELSE [got EXCEPT ![i] = r]
    /\ timeoutFlag' = [timeoutFlag EXCEPT ![i] = timed[i]]

\* The server of a new connection.  A lookup that is in progress serves all; the
\* resolver's cache answers on the spot.
Resolve ==
    \/ setting.server = "address" /\ tcp' = "connecting" /\ UNCHANGED dns
    \/ setting.server = "name" /\ dns' = TRUE /\ UNCHANGED tcp
    \/ setting.server = "name" /\ ~dns /\ tcp' = "connecting" /\ UNCHANGED dns

MaySend == pending = "idle" \/ (inCallback /\ setting.resends)
Objects(i) == {i} \cup IF setting.reuses THEN {object[n] : n \in DOMAIN object} ELSE {}

\* sendRequestInLoop, from the application or from a running callback.
SendRequest(timeout) ==
    LET i == Len(timed) + 1
    IN  /\ i \in Ids /\ MaySend /\ ~replaced /\ setting.server # "none"
        /\ timed' = Append(timed, timeout)
        /\ \E o \in Objects(i) : object' = Append(object, o)
        /\ \/ /\ tcp = "none" /\ Resolve
              /\ requests' = Append(requests, i)
              /\ UNCHANGED <<pipe, wire>>
           \/ /\ tcp \in {"connecting", "down"}
              /\ requests' = Append(requests, i)
              /\ UNCHANGED <<tcp, dns, pipe, wire>>
           \/ /\ tcp \in {"up", "half"}
              /\ IF Len(pipe) <= PipeliningDepth /\ requests = <<>>
                 THEN /\ pipe' = Append(pipe, i)
                      /\ wire' = IF tcp = "up" THEN Append(wire, i) ELSE wire
                      /\ UNCHANGED requests
                 ELSE requests' = Append(requests, i) /\ UNCHANGED <<pipe, wire>>
              /\ UNCHANGED <<tcp, dns>>
        /\ UNCHANGED <<setting, pending, inCallback, timeoutFlag, called, got, replaced>>

\* ... and without an address: the request gets BadServerAddress at once.
BadAddress(timeout) ==
    LET i == Len(timed) + 1
    IN  /\ i \in Ids /\ MaySend /\ setting.server = "none"
        /\ timed' = Append(timed, timeout) /\ object' = Append(object, i)
        /\ called' = [called EXCEPT ![i] = @ + 1]
        /\ timeoutFlag' = [timeoutFlag EXCEPT ![i] = timeout]
        /\ pending' = (IF inCallback THEN pending ELSE "return") /\ inCallback' = TRUE
        /\ UNCHANGED <<setting, tcp, dns, requests, pipe, wire, got, replaced>>

\* The resolver's answer.  A client that is connected by now is overwritten: its
\* destructor closes the connection, whose callback resets tcpClientPtr_, which
\* createTcpClient() goes on to use.  Nothing is said of what follows.
DnsAnswer ==
    /\ pending = "idle" /\ dns /\ ~replaced
    /\ dns' = FALSE
    /\ \/ /\ tcp' = "connecting"
          /\ replaced' = (tcp \in {"up", "half"})
          /\ UNCHANGED pending
       \/ pending' = "dnsFailed" /\ UNCHANGED <<tcp, replaced>>
    /\ UNCHANGED <<setting, requests, pipe, wire, inCallback, timed, object, timeoutFlag, called, got>>

\* No address: every waiting request gets BadServerAddress.
DnsFailed ==
    /\ pending = "dnsFailed"
    /\ IF requests # <<>>
       THEN Call(Head(requests), 0, "dnsFailed") /\ requests' = Tail(requests)
       ELSE /\ pending' = "idle" /\ inCallback' = FALSE
            /\ UNCHANGED <<requests, called, got, timeoutFlag>>
    /\ UNCHANGED <<setting, tcp, dns, pipe, wire, timed, object, replaced>>

\* The connection callback of a new connection: requests go out up to the depth.
Connected ==
    LET room == PipeliningDepth + 1 - Len(pipe)
        n    == IF Len(requests) < room THEN Len(requests) ELSE room
    IN  /\ pending = "idle" /\ tcp = "connecting" /\ ~replaced
        /\ tcp' = "up"
        /\ pipe' = pipe \o SubSeq(requests, 1, n)
        /\ wire' = SubSeq(requests, 1, n)
        /\ requests' = SubSeq(requests, n + 1, Len(requests))
        /\ UNCHANGED <<setting, dns, pending, inCallback, timed, object, timeoutFlag, called, got,
                       replaced>>

-----------------------------------------------------------------------------
(* Failures.                                                                *)

\* onError begins: the connection could not be made, went down, or carried
\* something that is not a response (it is still up then).
Fails ==
    /\ pending = "idle" /\ ~replaced
    /\ \/ tcp = "connecting" /\ UNCHANGED <<tcp, wire>>
       \/ tcp \in {"up", "half"} /\ tcp' = "down" /\ wire' = <<>>
       \/ tcp = "up" /\ pipe # <<>> /\ UNCHANGED <<tcp, wire>>
    /\ pending' = "failPipe"
    /\ UNCHANGED <<setting, dns, requests, pipe, inCallback, timed, object, timeoutFlag, called, got,
                   replaced>>

\* onError, first loop.
FailPipe ==
    /\ pending = "failPipe"
    /\ IF pipe # <<>> THEN Call(Head(pipe), 0, "failPipe") /\ pipe' = Tail(pipe)
       ELSE /\ pending' = "failRequests" /\ inCallback' = FALSE
            /\ UNCHANGED <<pipe, called, got, timeoutFlag>>
    /\ UNCHANGED <<setting, tcp, dns, requests, wire, timed, object, replaced>>

\* A plausible bug: dropping the client is not followed by the connection's own
\* report of its end.
MutAfterReset == "idle"

\* tcpClientPtr_.reset() closes a connection that is still open, whose callback
\* calls onError once more before reset() returns.
AfterReset == IF tcp \in {"up", "half"} THEN "failPipe" ELSE "idle"

\* onError, second loop and the reset.
FailRequests ==
    /\ pending = "failRequests"
    /\ IF requests # <<>>
       THEN /\ Call(Head(requests), 0, "failRequests") /\ requests' = Tail(requests)
            /\ UNCHANGED <<tcp, wire>>
       ELSE /\ pending' = AfterReset /\ inCallback' = FALSE
            /\ tcp' = "none" /\ wire' = <<>>
            /\ UNCHANGED <<requests, called, got, timeoutFlag>>
    /\ UNCHANGED <<setting, dns, pipe, timed, object, replaced>>

\* The timer of a request: the first entry with its HttpRequestPtr leaves
\* requestsBuffer_ (but not the pipeline) and its callback gets Timeout.
Timeout(i) ==
    /\ pending = "idle" /\ ~replaced
    /\ i \in Sent /\ timed[i] /\ ~timeoutFlag[i]
    /\ LET n == SelectInSeq(requests, LAMBDA j : object[j] = object[i])
       IN  requests' = IF n = 0 THEN requests ELSE RemoveAt(requests, n)
    /\ Call(i, 0, "return")
    /\ UNCHANGED <<setting, tcp, dns, pipe, wire, timed, object, replaced>>

-----------------------------------------------------------------------------
(* Responses.                                                               *)

\* onRecvMessage and the first half of handleResponse: the response to the
\* oldest request on the wire is given to the front of the pipeline.
Response ==
    /\ pending = "idle" /\ tcp = "up" /\ wire # <<>> /\ pipe # <<>> /\ ~replaced
    /\ \E close \in BOOLEAN :
         Call(Head(pipe), Head(wire), IF close THEN "respondedClose" ELSE "responded")
    /\ pipe' = Tail(pipe) /\ wire' = Tail(wire)
    /\ UNCHANGED <<setting, tcp, dns, requests, timed, object, replaced>>

\* A plausible bug: the next request goes out before the pipeline knows of it.
MutNextUp(w) == IF Len(requests) > 1 THEN requests[2] ELSE requests[1]

\* The request handleResponse writes to the connection.
NextUp(w) == requests[1]

\* The second half of handleResponse on a connection that is up: one waiting
\* request is sent, or a connection the server closes is dropped.
Responded ==
    /\ pending \in {"responded", "respondedClose"}
    /\ IF requests # <<>>
       THEN /\ wire' = Append(wire, NextUp(wire)) /\ pipe' = Append(pipe, Head(requests))
            /\ requests' = Tail(requests) /\ UNCHANGED tcp
       ELSE /\ IF pending = "respondedClose" /\ pipe = <<>>
               THEN tcp' = "none" /\ wire' = <<>> ELSE UNCHANGED <<tcp, wire>>
            /\ UNCHANGED <<pipe, requests>>
    /\ pending' = "idle" /\ inCallback' = FALSE
    /\ UNCHANGED <<setting, dns, timed, object, timeoutFlag, called, got, replaced>>

\* A response without a length ends with the connection: the connection callback
\* drops the client and calls handleResponse.
ResponseAtClose ==
    /\ pending = "idle" /\ tcp = "up" /\ wire # <<>> /\ pipe # <<>> /\ ~replaced
    /\ Call(Head(pipe), Head(wire), "drain")
    /\ pipe' = Tail(pipe) /\ wire' = <<>> /\ tcp' = "none"
    /\ UNCHANGED <<setting, dns, requests, timed, object, replaced>>

\* The other half of handleResponse then fails what is in the pipeline, and a
\* new client is made for the requests that wait.
Drain ==
    /\ pending = "drain"
    /\ IF pipe # <<>>
       THEN Call(Head(pipe), 0, "drain") /\ pipe' = Tail(pipe) /\ UNCHANGED tcp
       ELSE /\ pending' = "idle" /\ inCallback' = FALSE
            /\ tcp' = IF requests # <<>> THEN "connecting" ELSE tcp
            /\ UNCHANGED <<pipe, called, got, timeoutFlag>>
    /\ UNCHANGED <<setting, dns, requests, wire, timed, object, replaced>>

\* More responses than expected: the client shuts the connection down.
Unexpected ==
    /\ pending = "idle" /\ tcp = "up" /\ pipe = <<>> /\ ~replaced
    /\ tcp' = "half"
    /\ UNCHANGED <<setting, dns, requests, pipe, wire, pending, inCallback, timed, object,
                   timeoutFlag, called, got, replaced>>

CallbackReturns ==
    /\ pending = "return"
    /\ pending' = "idle" /\ inCallback' = FALSE
    /\ UNCHANGED <<setting, tcp, dns, requests, pipe, wire, timed, object, timeoutFlag, called, got,
                   replaced>>

Continues == DnsFailed \/ FailPipe \/ FailRequests \/ Responded \/ Drain \/ CallbackReturns

HLNext ==
    \/ \E b \in BOOLEAN : SendRequest(b) \/ BadAddress(b)
    \/ DnsAnswer \/ Connected \/ Fails \/ Response \/ ResponseAtClose \/ Unexpected
    \/ Continues
    \/ \E i \in Ids : Timeout(i)

HLSpec == HLInit /\ [][HLNext]_hlVars

-----------------------------------------------------------------------------
HLTypeOK ==
    /\ tcp \in {"none", "connecting", "up", "half", "down"}
    /\ pending \in {"idle", "return", "dnsFailed", "failPipe", "failRequests", "responded",
                    "respondedClose", "drain"}
    /\ Len(timed) <= MaxRequests /\ called \in [Ids -> 0..MaxRequests]

\* The callback of a request is called exactly once: while the request is in one
\* of the queues it has not been called unless it timed out, and it never leaves
\* both without having been called, whatever callbacks send meanwhile.  The one
\* exception is a request object that was sent twice: the timer of one sending may
\* take the other from the buffer, whose callback is then never called.
Displaced(i) == \E j \in Sent \ {i} : object[j] = object[i] /\ Silenced(j)
CalledOnce ==
    \A i \in Sent :
      LET waits == \E n \in DOMAIN requests : requests[n] = i
          sent  == \E n \in DOMAIN pipe : pipe[n] = i
      IN  /\ called[i] <= 1
          /\ (waits \/ sent) /\ ~Silenced(i) => called[i] = 0
          /\ called[i] = 0 => ((waits \/ sent) /\ ~Silenced(i)) \/ Displaced(i)

\* A request is never given the response to another one, also when requests in
\* front of it timed out (their responses are read and kept back).
OwnResponse == \A i \in Sent : got[i] \in {0, i}

\* No request waits with nothing under way: there is a client, a lookup or a
\* loop that takes it, and one that waits for a response has a connection.  Nor
\* is a connected client overwritten, unless the server is given by name and the
\* callback of a response that ends with the connection sends a request: that
\* begins a lookup, the connection callback connects without waiting for it, and
\* the answer comes too late.
RequestsMove ==
    /\ replaced => setting.server = "name" /\ setting.resends
    /\ pending = "idle" /\ requests # <<>> => tcp # "none" \/ dns
    /\ pending = "idle" /\ pipe # <<>> => tcp \in {"up", "half"} \/ replaced

\* The depth bounds the requests that wait for a response.  A callback that sends
\* two requests at the limit breaks it: the first takes the place that is free,
\* the second waits, and handleResponse then sends it without looking.
DepthKept == Len(pipe) <= PipeliningDepth + 1
=============================================================================
