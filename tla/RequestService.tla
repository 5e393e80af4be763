--------------------------- MODULE RequestService ---------------------------
(***************************************************************************)
(* What the request bridge promises to an HTTP client: accepted requests   *)
(* are answered one at a time, in the order in which they were accepted,   *)
(* each exactly once; a request is shed only under load; and nothing that  *)
(* was accepted is lost while the server runs.  There are no threads, no   *)
(* pipe and no dispatcher here: Dispatcher.tla implements this module.     *)
(***************************************************************************)
EXTENDS Naturals, Sequences

CONSTANTS Requests,  \* the requests that may arrive
          MaxQueue   \* max_queue of dr_serve()

VARIABLES up,        \* the server accepts requests
          pending,   \* accepted and not answered, oldest first
          outcome    \* what became of each request

serviceVars == <<up, pending, outcome>>

Outcomes == {"none", "pending", "limited", "shed", "answered", "dropped"}

Init ==
    /\ up = FALSE
    /\ pending = <<>>
    /\ outcome = [r \in Requests |-> "none"]

\* Drogon cannot be restarted: the service opens when nothing was ever served.
Open ==
    /\ ~up
    /\ \A r \in Requests : outcome[r] = "none"
    /\ up' = TRUE
    /\ UNCHANGED <<pending, outcome>>

Accept(r) ==
    /\ up
    /\ outcome[r] = "none"
    /\ pending' = Append(pending, r)
    /\ outcome' = [outcome EXCEPT ![r] = "pending"]
    /\ UNCHANGED up

Limit(r) ==
    /\ up
    /\ outcome[r] = "none"
    /\ outcome' = [outcome EXCEPT ![r] = "limited"]
    /\ UNCHANGED <<up, pending>>

\* Load is shed only when at least MaxQueue requests wait for R.
Shed(r) ==
    /\ up
    /\ outcome[r] = "none"
    /\ Len(pending) >= MaxQueue
    /\ outcome' = [outcome EXCEPT ![r] = "shed"]
    /\ UNCHANGED <<up, pending>>

Answer ==
    /\ pending # <<>>
    /\ pending' = Tail(pending)
    /\ outcome' = [outcome EXCEPT ![Head(pending)] = "answered"]
    /\ UNCHANGED up

\* Stopping keeps the requests R has already taken (the first k) and drops
\* the ones still queued.
Close ==
    /\ up
    /\ up' = FALSE
    /\ \E k \in 0..Len(pending) :
        /\ pending' = SubSeq(pending, 1, k)
        /\ outcome' = [r \in Requests |->
                        IF \E i \in (k+1)..Len(pending) : pending[i] = r
                        THEN "dropped" ELSE outcome[r]]

Next ==
    \/ Open
    \/ Close
    \/ Answer
    \/ \E r \in Requests : Accept(r) \/ Limit(r) \/ Shed(r)

Spec == Init /\ [][Next]_serviceVars
=============================================================================
