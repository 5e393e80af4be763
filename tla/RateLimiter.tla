----------------------------- MODULE RateLimiter -----------------------------
(***************************************************************************)
(* dr_rate_limit(): the limiters of a route are consulted one after the    *)
(* other on the I/O thread of the request, each behind its own mutex; the  *)
(* first refusal answers 429.  Time is counted in ticks, fractions of a    *)
(* window in ticks of it: x / window < c is written x < c * window.        *)
(***************************************************************************)
EXTENDS Integers, Sequences, FiniteSets, SequencesExt

CONSTANTS Routes,     \* installed routes
          RuleSets,   \* lists of rules an app may register: [type, capacity,
                      \* window, global, routes matched by its prefixes]
          Threads,    \* I/O threads
          MaxTime     \* bound: last tick

VARIABLES
    rules,     \* g_rateLimitRules
    clock,     \* steady_clock
    bucket,    \* state of every limiter
    asking,    \* per thread: the request in checkRateLimits()
    admitted,  \* history: per limiter, the ticks of what it let through
    lastAsk,   \* history: tick of the last step of any request
    quiet      \* history: threads whose request came alone after a full
               \* Retry-After without any other

rlVars == <<rules, clock, bucket, asking, admitted, lastAsk, quiet>>

Idle == [route |-> "none", next |-> 0]

\* buildLimitersForPath(): the limiters of a route in rule order; a global rule
\* has one for all its routes.
Limiters(r) ==
    LET all == [i \in DOMAIN rules |-> <<i, IF rules[i].global THEN "shared" ELSE r>>]
        Applies(k) == r \in rules[k[1]].routes
    IN SelectSeq(all, Applies)

Keys(rs) == (DOMAIN rs) \X (Routes \union {"shared"})

Windows(r) == {rules[k[1]].window : k \in Range(Limiters(r))}

\* A plausible bug: the shortest window is the hint.
MutRetryAfter(r) == Min(Windows(r) \union {rules[1].window})

\* The Retry-After hint: the longest window of the rules that match.
RetryAfter(r) == Max(Windows(r) \union {0})

\* newRateLimiter()
NewLimiter(rule) ==
    CASE rule.type = "fixed"   -> [last |-> 0, cur |-> 0]
      [] rule.type = "sliding" -> [start |-> 0, last |-> 0, prev |-> 0, cur |-> 0]
      [] rule.type = "token"   -> [last |-> 0, tokens |-> rule.capacity * rule.window]

RLInit ==
    /\ rules \in RuleSets
    /\ clock = 0
    /\ bucket = [k \in Keys(rules) |-> NewLimiter(rules[k[1]])]
    /\ asking = [t \in Threads |-> Idle]
    /\ admitted = [k \in Keys(rules) |-> <<>>]
    /\ lastAsk = 0
    /\ quiet = {}
-----------------------------------------------------------------------------
(* The three limiters: the answer and the state after isAllowed().         *)

\* A plausible bug: the capacity is compared with <=.
MutFixedWindow(b, rule) ==
    LET fresh == clock - b.last >= rule.window
        cur == IF fresh THEN 0 ELSE b.cur
    IN [ok |-> cur <= rule.capacity,
        b |-> [last |-> IF fresh THEN clock ELSE b.last,
               cur |-> IF cur <= rule.capacity THEN cur + 1 ELSE cur]]

FixedWindow(b, rule) ==
    LET fresh == clock - b.last >= rule.window
        cur == IF fresh THEN 0 ELSE b.cur
    IN [ok |-> cur < rule.capacity,
        b |-> [last |-> IF fresh THEN clock ELSE b.last,
               cur |-> IF cur < rule.capacity THEN cur + 1 ELSE cur]]

\* A refusal stores the shifted counters but leaves lastTime_, so the next call
\* of the same unit shifts them again.
SlidingWindow(b, rule) ==
    LET start == b.start + ((clock - b.start) \div rule.window) * rule.window
        moved == start > b.last
        prev == IF ~moved THEN b.prev
                ELSE IF start - b.last >= rule.window THEN 0 ELSE b.cur
        cur == IF moved THEN 0 ELSE b.cur
        ok == prev * (rule.window - (clock - start)) + cur * rule.window
                < rule.capacity * rule.window
    IN [ok |-> ok,
        b |-> [start |-> start, last |-> IF ok THEN clock ELSE b.last,
               prev |-> prev, cur |-> IF ok THEN cur + 1 ELSE cur]]

\* A token is worth window ticks; one is taken only when more than one is there.
TokenBucket(b, rule) ==
    LET full == rule.capacity * rule.window
        sum == b.tokens + rule.capacity * (clock - b.last)
        tokens == IF sum > full THEN full ELSE sum
        ok == tokens > rule.window
    IN [ok |-> ok,
        b |-> [last |-> clock, tokens |-> IF ok THEN tokens - rule.window ELSE tokens]]

IsAllowed(k) ==
    LET rule == rules[k[1]] IN
    CASE rule.type = "fixed"   -> FixedWindow(bucket[k], rule)
      [] rule.type = "sliding" -> SlidingWindow(bucket[k], rule)
      [] rule.type = "token"   -> TokenBucket(bucket[k], rule)
-----------------------------------------------------------------------------
Tick ==
    /\ clock < MaxTime
    /\ clock' = clock + 1
    /\ UNCHANGED <<rules, bucket, asking, admitted, lastAsk, quiet>>

\* A request for r reaches the handler.
Ask(t, r) ==
    /\ asking[t] = Idle
    /\ asking' = [asking EXCEPT ![t] = [route |-> r, next |-> 1]]
    /\ quiet' = IF /\ \A u \in Threads : asking[u] = Idle
                   /\ clock - lastAsk >= RetryAfter(r)
                THEN {t} ELSE {}
    /\ lastAsk' = clock
    /\ UNCHANGED <<rules, clock, bucket, admitted>>

\* One turn of the loop in checkRateLimits(): a limiter's isAllowed() under its
\* mutex.
Asked(t) == Limiters(asking[t].route)[asking[t].next]

Recent(k, ticks) ==
    LET InWindow(x) == x > clock - rules[k[1]].window IN SelectSeq(ticks, InWindow)

Consult(t, ok) ==
    /\ asking[t] # Idle
    /\ asking[t].next <= Len(Limiters(asking[t].route))
    /\ LET k == Asked(t) IN
       /\ IsAllowed(k).ok = ok
       /\ bucket' = [bucket EXCEPT ![k] = IsAllowed(k).b]
       /\ admitted' = IF ok THEN [admitted EXCEPT ![k] = Recent(k, Append(@, clock))] ELSE admitted
    /\ asking' = [asking EXCEPT ![t] = IF ok THEN [@ EXCEPT !.next = @ + 1] ELSE Idle]
    /\ lastAsk' = clock
    /\ UNCHANGED <<rules, clock, quiet>>

Pass(t) ==
    /\ asking[t] # Idle
    /\ asking[t].next > Len(Limiters(asking[t].route))
    /\ asking' = [asking EXCEPT ![t] = Idle]
    /\ UNCHANGED <<rules, clock, bucket, admitted, lastAsk, quiet>>

RLNext == Tick \/ \E t \in Threads : \/ \E r \in Routes : Ask(t, r)
                                     \/ Consult(t, TRUE)
                                     \/ Consult(t, FALSE)
                                     \/ Pass(t)

RLSpec == RLInit /\ [][RLNext]_rlVars
-----------------------------------------------------------------------------
RLTypeOK ==
    /\ clock \in 0 .. MaxTime /\ lastAsk \in 0 .. MaxTime
    /\ asking \in [Threads -> [route : Routes, next : 1 .. Len(rules) + 1] \union {Idle}]
    /\ quiet \subseteq Threads
    /\ \A k \in Keys(rules) : \A i \in DOMAIN admitted[k] : admitted[k][i] \in 0 .. clock

\* Whatever the limiter and however threads and rules interleave, a trailing
\* window never sees more than twice the capacity: two adjacent units of a
\* window limiter, or a full bucket and its refill.
TwiceCapacity ==
    \A k \in Keys(rules) : Len(Recent(k, admitted[k])) <= 2 * rules[k[1]].capacity

\* The Retry-After of the 429 is long enough: a client that is alone and waits
\* that long is let through by every rule that matches its route, except by a
\* token bucket of capacity 1.  That one never has more than the one token it
\* wants more than, and refuses everything for ever.
RetryAfterEnough ==
    \A t \in quiet : asking[t] # Idle /\ asking[t].next <= Len(Limiters(asking[t].route))
        => LET rule == rules[Asked(t)[1]]
           IN IsAllowed(Asked(t)).ok = (rule.type # "token" \/ rule.capacity > 1)

\* dr_rate_limit(): "sliding_window" "counts requests in the trailing `window`
\* seconds", with capacity the "Maximum number of requests allowed" in them.
SlidingTrailing ==
    \A k \in Keys(rules) : rules[k[1]].type = "sliding"
        => Len(Recent(k, admitted[k])) <= rules[k[1]].capacity
=============================================================================
