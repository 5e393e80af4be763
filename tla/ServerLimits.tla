---------------------------- MODULE ServerLimits ----------------------------
(***************************************************************************)
(* The Hodor plugin of Drogon: strategies with a limiter for all requests, *)
(* one for each address and one for each user, the latter two kept in      *)
(* CacheMaps that forget the limiters nobody asks.  Requests of several    *)
(* I/O threads go through the strategies at the same time; every limiter   *)
(* is behind its own mutex (multi_threads).  The algorithm is the fixed    *)
(* window; module RateLimiter has all three.  Time is counted in ticks.    *)
(***************************************************************************)
EXTENDS Integers, Sequences, FiniteSets

CONSTANTS Threads,
          Requests,     \* [ip, user, url]; user "": the getter has none
          Plans,        \* limitStrategies_: sequences of [urls, capacity,
                        \* ipCapacity, userCapacity]; 0: no limit
          TrustedIps,   \* the addresses that trustCIDRs_ matches
          TimeUnit,
          ExpireTime,   \* limiter_expire_time
          MaxRequests, MaxTime,
          MaxWaiting    \* bound on requests in the middle of it while time goes on

VARIABLES
  plan,         \* limitStrategies_
  now,
  limiters,     \* key to [last, cur, touched]; a key is <<strategy, what, whose>>
  asking,       \* per thread: the request, the strategy and check it is at
  came,         \* requests so far
  granted,      \* history: <<key, tick>> of what the limiters let through in this time unit
  verdicts      \* history of this tick: [req, ok, why]; why is the key that refused

hdVars == <<plan, now, limiters, asking, came, granted, verdicts>>

Idle == [req |-> "none", strategy |-> 0, check |-> "none"]
Checks == <<"global", "ip", "user">>
NoKey == <<0, "none", "none">>

Capacity(key) ==
  CASE key[2] = "global" -> plan[key[1]].capacity
    [] key[2] = "ip" -> plan[key[1]].ipCapacity
    [] key[2] = "user" -> plan[key[1]].userCapacity

\* A plausible bug: limiters live as long as the option says, however short.
MutLimiterExpireTime == ExpireTime

LimiterExpireTime == IF ExpireTime > TimeUnit * 3 THEN ExpireTime ELSE TimeUnit * 3

\* isAllowed() of a fixed window: <<the answer, the limiter after it>>.
IsAllowed(l, capacity) ==
  LET fresh == now - l.last >= TimeUnit
      cur == IF fresh THEN 0 ELSE l.cur
  IN <<cur < capacity, [last |-> IF fresh THEN now ELSE l.last, touched |-> now,
                        cur |-> IF cur < capacity THEN cur + 1 ELSE cur]>>

NewLimiter == [last |-> now, cur |-> 0, touched |-> now]

HDTypeOK ==
  /\ now \in 0 .. MaxTime /\ came \in 0 .. MaxRequests
  /\ \A k \in DOMAIN limiters : limiters[k].cur \in 0 .. Capacity(k) /\ limiters[k].touched <= now
  /\ \A t \in Threads : asking[t].strategy \in 0 .. Len(plan)

GlobalKeys(p) == {<<s, "global", "all">> : s \in {s \in DOMAIN p : p[s].capacity > 0}}

\* makeLimitStrategy() makes the global limiters at the start.
HDInit ==
  /\ plan \in Plans /\ now = 0 /\ came = 0
  /\ limiters = [k \in GlobalKeys(plan) |-> [last |-> 0, cur |-> 0, touched |-> 0]]
  /\ asking = [t \in Threads |-> Idle] /\ granted = <<>> /\ verdicts = {}

Tick ==
  /\ now < MaxTime /\ now' = now + 1
  /\ Cardinality({t \in Threads : asking[t].strategy > 0}) <= MaxWaiting
  /\ granted' = SelectSeq(granted, LAMBDA g : now' - g[2] < TimeUnit)
  /\ verdicts' = {}
  /\ UNCHANGED <<plan, limiters, asking, came>>

\* The CacheMap forgets a limiter that nobody asked for so long, or later.
Expire(k) ==
  /\ k \in DOMAIN limiters /\ k[2] # "global"
  /\ now - limiters[k].touched >= LimiterExpireTime
  /\ limiters' = [j \in DOMAIN limiters \ {k} |-> limiters[j]]
  /\ UNCHANGED <<plan, now, asking, came, granted, verdicts>>

\* onHttpRequest() begins with the first strategy.
OnHttpRequest(t, r) ==
  /\ asking[t].strategy = 0 /\ came < MaxRequests /\ came' = came + 1
  /\ asking' = [asking EXCEPT ![t] = [req |-> r, strategy |-> 1, check |-> "first"]]
  /\ UNCHANGED <<plan, now, limiters, granted, verdicts>>

Answer(t, ok, why) ==
  /\ asking' = [asking EXCEPT ![t] = Idle]
  /\ verdicts' = verdicts \union {[req |-> asking[t].req, ok |-> ok, why |-> why]}

\* The next strategy, or chainCallback().
Passed(t) ==
  LET a == asking[t] IN
  IF a.strategy < Len(plan)
  THEN /\ asking' = [asking EXCEPT ![t] = [a EXCEPT !.strategy = a.strategy + 1, !.check = "first"]]
       /\ UNCHANGED verdicts
  ELSE Answer(t, TRUE, NoKey)

\* The check that follows in the strategy; "done" after the last one.  A request
\* without a user passes the strategy when it comes to that check.
Following(a) ==
  LET s == plan[a.strategy]
      global == IF s.capacity > 0 THEN {1} ELSE {}
      ip == IF s.ipCapacity > 0 THEN {2} ELSE {}
      user == IF s.userCapacity > 0 /\ a.req.user # "" THEN {3} ELSE {}
      at == CASE a.check = "first" -> 0 [] a.check = "global" -> 1
              [] a.check = "ip" -> 2 [] a.check = "user" -> 3
      rest == {i \in global \union ip \union user : i > at}
  IN IF rest = {} THEN "done" ELSE Checks[CHOOSE i \in rest : \A j \in rest : i <= j]

\* A plausible bug: the addresses share a limiter.
MutKeyOf(a, check) ==
  <<a.strategy, check, CASE check = "global" -> "all" [] check = "ip" -> "all"
                         [] check = "user" -> a.req.user>>

KeyOf(a, check) ==
  <<a.strategy, check, CASE check = "global" -> "all" [] check = "ip" -> a.req.ip
                         [] check = "user" -> a.req.user>>

\* A plausible bug: only the first strategy knows the trusted addresses.
MutSkips(a) ==
  \/ a.req.ip \in TrustedIps /\ a.strategy = 1
  \/ plan[a.strategy].urls # {} /\ a.req.url \notin plan[a.strategy].urls

\* checkLimit() looks no further: a trusted address, or not a URL to be limited.
Skips(a) ==
  \/ a.req.ip \in TrustedIps
  \/ plan[a.strategy].urls # {} /\ a.req.url \notin plan[a.strategy].urls

\* checkLimit() returns true.
PassStrategy(t) ==
  /\ asking[t].strategy > 0
  /\ Skips(asking[t]) \/ Following(asking[t]) = "done"
  /\ Passed(t)
  /\ UNCHANGED <<plan, now, limiters, came, granted>>

\* One limiter of the strategy is found or made, and asked; a refusal is the answer.
CheckLimit(t) ==
  LET a == asking[t]
      check == Following(a)
      key == KeyOf(a, check)
      l == IF key \in DOMAIN limiters THEN limiters[key] ELSE NewLimiter
      ask == IsAllowed(l, Capacity(key))
  IN /\ a.strategy > 0 /\ ~Skips(a) /\ check # "done"
     /\ limiters' = [k \in DOMAIN limiters \union {key} |-> IF k = key THEN ask[2] ELSE limiters[k]]
     /\ \/ /\ ask[1] /\ granted' = Append(granted, <<key, now>>)
           /\ asking' = [asking EXCEPT ![t].check = check] /\ UNCHANGED verdicts
        \/ ~ask[1] /\ Answer(t, FALSE, key) /\ UNCHANGED granted
     /\ UNCHANGED <<plan, now, came>>

HDNext ==
  \/ Tick
  \/ \E k \in DOMAIN limiters : Expire(k)
  \/ \E t \in Threads : PassStrategy(t) \/ CheckLimit(t) \/ \E r \in Requests : OnHttpRequest(t, r)

HDSpec == HDInit /\ [][HDNext]_hdVars

(***************************************************************************)
(* Properties.                                                             *)
(***************************************************************************)

Grants(P(_)) == Len(SelectSeq(granted, LAMBDA g : P(g[1])))

\* In any time unit no address, no user and no strategy as a whole is let through
\* more than twice its capacity, although limiters are forgotten and made anew while
\* requests of other threads are at them: a limiter outlives its window.
CapsHold ==
  \A k \in {granted[i][1] : i \in DOMAIN granted} : Grants(LAMBDA j : j = k) <= 2 * Capacity(k)

\* A request is refused only when its own address or user, or the strategy as a
\* whole, used up the capacity in this time unit; never for what others did, and
\* never when its address is trusted or its URL is not one to be limited.
HodorForCause ==
  \A v \in verdicts : ~v.ok =>
    /\ v.req.ip \notin TrustedIps
    /\ plan[v.why[1]].urls = {} \/ v.req.url \in plan[v.why[1]].urls
    /\ LET Counts(k) == /\ k[1] = v.why[1] /\ k[2] = v.why[2]
                        /\ k[3] = CASE k[2] = "global" -> "all" [] k[2] = "ip" -> v.req.ip [] k[2] = "user" -> v.req.user
       IN Grants(Counts) >= Capacity(v.why)

-----------------------------------------------------------------------------
(***************************************************************************)
(* The limits on connections: an atomic counter of all of them and, under  *)
(* a mutex, one counter for each remote address.  The connections are      *)
(* served by different loops, so the halves of tryAddConnection() and of   *)
(* releaseConnection() of several of them interleave.  A connection that   *)
(* was refused is closed, and released like any other.                     *)
(***************************************************************************)

CONSTANTS Peers,        \* connections that clients may open
          IpOf,         \* the remote address of each
          Limits        \* settings <<maxConnectionNum_, maxConnectionNumPerIP_>>

VARIABLES
  limits,           \* the setting of this server
  cpc,              \* what onConnection() has done for each connection
  connectionNum,    \* connectionNum_
  ipConnections     \* ipConnectionsMap_: 0 stands for an address that is absent

clVars == <<limits, cpc, connectionNum, ipConnections>>

Ips == {IpOf[c] : c \in Peers}
Num == limits[1]
PerIp == limits[2]

CLPcs == {"none", "counted", "open", "refused", "releasing", "gone"}

CLTypeOK ==
  /\ limits \in Limits /\ cpc \in [Peers -> CLPcs]
  /\ connectionNum \in 0 .. Cardinality(Peers)
  /\ ipConnections \in [Ips -> 0 .. Cardinality(Peers)]

CLInit ==
  /\ limits \in Limits /\ cpc = [c \in Peers |-> "none"]
  /\ connectionNum = 0 /\ ipConnections = [i \in Ips |-> 0]

\* A plausible bug: the value after the addition is thrown away for the limit.
MutOverNum(before) == FALSE

\* connectionNum_.fetch_add(1) > maxConnectionNum_: the value before it.
OverNum(before) == before > Num

\* tryAddConnection(), its first half ...
AddToAll(c) ==
  /\ cpc[c] = "none"
  /\ connectionNum' = connectionNum + 1
  /\ cpc' = [cpc EXCEPT ![c] = IF OverNum(connectionNum) THEN "refused"
                               ELSE IF PerIp > 0 THEN "counted" ELSE "open"]
  /\ UNCHANGED <<limits, ipConnections>>

\* ... and its second, with the mutex.
AddToIp(c) ==
  LET n == ipConnections[IpOf[c]] + 1 IN
  /\ cpc[c] = "counted"
  /\ ipConnections' = [ipConnections EXCEPT ![IpOf[c]] = n]
  /\ cpc' = [cpc EXCEPT ![c] = IF n > PerIp THEN "refused" ELSE "open"]
  /\ UNCHANGED <<limits, connectionNum>>

\* onConnection() of a closed connection: the peer's close, an advice that
\* refuses it, or forceClose() after a refusal.  It has a context in all cases.
Releases(c) == cpc[c] \in {"open", "refused"}

\* A plausible bug: a connection that was refused is not released.
MutReleaseFromAll(c) ==
  /\ Releases(c)
  /\ connectionNum' = IF cpc[c] = "open" THEN connectionNum - 1 ELSE connectionNum
  /\ cpc' = [cpc EXCEPT ![c] = IF PerIp > 0 /\ cpc[c] = "open" THEN "releasing" ELSE "gone"]
  /\ UNCHANGED <<limits, ipConnections>>

\* releaseConnection(), its first half ...
ReleaseFromAll(c) ==
  /\ Releases(c)
  /\ connectionNum' = connectionNum - 1
  /\ cpc' = [cpc EXCEPT ![c] = IF PerIp > 0 THEN "releasing" ELSE "gone"]
  /\ UNCHANGED <<limits, ipConnections>>

\* ... and its second: an address that is not in the map is left alone.
ReleaseFromIp(c) ==
  /\ cpc[c] = "releasing"
  /\ ipConnections' = [ipConnections EXCEPT ![IpOf[c]] = IF @ > 0 THEN @ - 1 ELSE 0]
  /\ cpc' = [cpc EXCEPT ![c] = "gone"]
  /\ UNCHANGED <<limits, connectionNum>>

CLNext == \E c \in Peers :
            AddToAll(c) \/ AddToIp(c) \/ ReleaseFromAll(c) \/ ReleaseFromIp(c)

CLSpec == CLInit /\ [][CLNext]_clVars

(***************************************************************************)
(* Properties.                                                             *)
(***************************************************************************)

OpenOn(i) == {c \in Peers : cpc[c] = "open" /\ IpOf[c] = i}
OpenAll == {c \in Peers : cpc[c] = "open"}

\* No order of the halves lets in more connections than the limits say, or
\* rather one more than maxConnectionNum_ (tryAddConnection() compares the value
\* before its addition); for one address, when the other limit refuses nobody:
\* a connection refused by it is released from an address it was not added to.
ConnectionsBounded ==
  /\ Cardinality(OpenAll) <= Num + 1
  /\ PerIp > 0 /\ Num >= Cardinality(Peers) =>
       \A i \in Ips : Cardinality(OpenOn(i)) <= PerIp

\* Refusals do not wear the server out: with all connections gone, however they
\* ended, the counters are back at zero and the next client is let in.
CountersReturn ==
  (\A c \in Peers : cpc[c] \in {"none", "gone"})
    => connectionNum = 0 /\ \A i \in Ips : ipConnections[i] = 0

\* "Set the maximum number of all connections." (HttpAppFramework.h): what
\* tryAddConnection() lets in is at most that number.
MaximumKept == Cardinality(OpenAll) <= Num
=============================================================================
