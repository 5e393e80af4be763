------------------------------ MODULE Plugins -------------------------------
(***************************************************************************)
(* The plugins of Drogon that look at a request before it is routed:       *)
(* Redirector, with the handlers that SlashRemover and SecureSSLRedirector *)
(* register with it, RealIpResolver and GlobalFilters.  A client sends a   *)
(* request, and follows the redirections it gets.  Paths and header values *)
(* are sequences of characters; positions are the code's, from 0.          *)
(***************************************************************************)
EXTENDS Integers, Sequences, FiniteSets, SequencesExt, FiniteSetsExt

CONSTANTS Paths,        \* paths that a client asks for; each begins with "/"
          Hosts,        \* values of the host header; "": none
          Configs,      \* [mode, redirect, ssl, secureHost, exempt, filters,
                        \* free, single]; the exempt and free paths are clean
          Forwards,     \* values of x-forwarded-for, see RealIpMeant
          Peers,        \* addresses of direct peers
          Address,      \* text of an address to its number
          Bits,         \* width of an address
          Trusted,      \* trustCIDRs_: <<address, prefix length>>
          MaxHeader,    \* the length of the longest of Forwards
          MaxHops       \* bound on redirections followed

VARIABLES
  conf,         \* how the plugins are configured
  request,      \* the request now: [path, secure, host]
  asked,        \* the client's first request
  hops,         \* redirections followed
  outcome,      \* "sent", "redirected", "not found", "forwarded", "filtered", "routed"
  location,     \* the redirection: [https, host, path]; a path alone without https
  passed,       \* filters of GlobalFilters that let the request pass
  peer, forward,\* the direct peer and x-forwarded-for
  realIp        \* the attribute that RealIpResolver sets; -1: none

ppVars == <<conf, request, asked, hops, outcome, location, passed, peer, forward, realIp>>

NPos == -1
Ch(s, i) == s[i + 1]
Sub(s, from, n) == SubSeq(s, from + 1, from + n)

\* The last position before the run of "/" that ends url at position from, or 0.
BackOver(url, from) ==
  LET stops == {i \in 1 .. from : Ch(url, i) # "/"}
  IN IF stops = {} THEN 0 ELSE CHOOSE i \in stops : \A j \in stops : j <= i

FindTrailingSlashes(url) ==
  IF Len(url) < 2 \/ Ch(url, Len(url) - 1) # "/" THEN NPos ELSE BackOver(url, Len(url) - 2)

\* Where the loop finds a second "/" in a row, before position end.
SecondOfPair(url, end) ==
  LET hits == {i \in 1 .. end - 1 : Ch(url, i) = "/" /\ Ch(url, i - 1) = "/"}
  IN IF hits = {} THEN NPos ELSE CHOOSE i \in hits : \A j \in hits : i <= j

FindDuplicateSlashes(url) == IF Len(url) < 2 THEN NPos ELSE SecondOfPair(url, Len(url))

RemoveTrailingSlashes(url, start) == Sub(url, 0, start + 1)

\* A plausible bug: the character before is compared in the original text.
MutRemoveDuplicateSlashes(url, start) ==
  LET Step(s, b) == IF Ch(url, b) # "/" \/ Ch(url, b - 1) # "/" THEN Append(s, Ch(url, b)) ELSE s
  IN FoldLeft(Step, Sub(url, 0, start + 1), [k \in 1 .. Len(url) - start - 1 |-> start + k])

\* From the second "/" on, a "/" is kept only after another character.
RemoveDuplicateSlashes(url, start) ==
  LET Step(s, b) == IF Ch(url, b) # "/" \/ s[Len(s)] # "/" THEN Append(s, Ch(url, b)) ELSE s
  IN FoldLeft(Step, Sub(url, 0, start), [k \in 1 .. Len(url) - start - 1 |-> start + k])

\* A plausible bug: the trailing slash goes unseen when there is one only.
MutFindExcessiveSlashes(url) ==
  LET trail == BackOver(url, Len(url) - 1)
      dup == SecondOfPair(url, trail)
  IN IF Len(url) < 2 THEN <<NPos, NPos>>
     ELSE IF trail = 0 THEN <<0, NPos>>
     ELSE <<IF trail < Len(url) - 2 THEN trail ELSE NPos, dup>>

\* <<where the path ends without its trailing slashes, the second of a pair>>.
FindExcessiveSlashes(url) ==
  LET trail == BackOver(url, Len(url) - 1)
      dup == SecondOfPair(url, trail)
  IN IF Len(url) < 2 THEN <<NPos, NPos>>
     ELSE IF trail = 0 THEN <<0, NPos>>
     ELSE <<IF trail # Len(url) - 1 THEN trail ELSE NPos, dup>>

RemoveExcessiveSlashes(url, at) ==
  LET cut == IF at[1] # NPos THEN RemoveTrailingSlashes(url, at[1]) ELSE url
  IN IF at[2] # NPos THEN RemoveDuplicateSlashes(cut, at[2]) ELSE cut

\* handleReq(): the new path; the same one when there is nothing to remove.
HandleReq(path, mode) ==
  CASE mode = "trailing" ->
         LET f == FindTrailingSlashes(path) IN IF f = NPos THEN path ELSE RemoveTrailingSlashes(path, f)
    [] mode = "duplicate" ->
         LET f == FindDuplicateSlashes(path) IN IF f = NPos THEN path ELSE RemoveDuplicateSlashes(path, f)
    [] mode = "both" -> RemoveExcessiveSlashes(path, FindExcessiveSlashes(path))
    [] mode = "off" -> path

\* redirectingAdvice() and redirectToSSL(): <<go on, protocol is "https://", host>>.
RedirectingAdvice(r) ==
  IF ~conf.ssl \/ r.secure \/ r.path \in conf.exempt THEN <<TRUE, FALSE, "">>
  ELSE IF conf.secureHost # "" THEN <<TRUE, TRUE, conf.secureHost>>
  ELSE IF r.host # "" THEN <<TRUE, TRUE, "">> ELSE <<FALSE, FALSE, "">>

\* XForwardedForParser::getNext() on the first len characters: <<address, len>>.
GetNext(v, len) ==
  LET Sep(i) == Ch(v, i) \in {" ", ","}
      last == LET stops == {i \in 1 .. len - 1 : ~Sep(i)} IN
              IF stops = {} THEN 0 ELSE CHOOSE i \in stops : \A j \in stops : j <= i
      seps == {i \in 1 .. last : Sep(i)}
      cur == IF seps = {} THEN 0 ELSE 1 + CHOOSE i \in seps : \A j \in seps : j <= i
  IN <<Sub(v, cur, last + 1 - cur), IF cur = 0 THEN 0 ELSE cur - 1>>

\* matchCidr(): equal above the prefix.
MatchCidr(a) ==
  \E c \in Trusted : a \div 2 ^ (Bits - c[2]) = c[1] \div 2 ^ (Bits - c[2])

\* The addresses of the header as the loop takes them, the last one first.
Taken[v \in Forwards, len \in 0 .. MaxHeader] ==
  IF len = 0 THEN <<>> ELSE LET n == GetNext(v, len) IN <<n[1]>> \o Taken[v, n[2]]

\* A plausible bug: the first address of the header is taken, whoever wrote it.
MutResolve(p, v) ==
  LET ok == SelectSeq(Taken[v, Len(v)], LAMBDA t : t \in DOMAIN Address)
  IN IF v = <<>> \/ ~MatchCidr(p) \/ ok = <<>> THEN p ELSE Address[ok[Len(ok)]]

\* RealIpResolver: without the header, or when the peer is not a proxy, the peer.
\* Otherwise what a header for one address holds, or the last address that is not
\* one of the proxies.
Resolve(p, v) ==
  LET ok == SelectSeq(Taken[v, Len(v)], LAMBDA t : t \in DOMAIN Address /\ ~MatchCidr(Address[t]))
  IN IF v = <<>> \/ ~MatchCidr(p) THEN p
     ELSE IF conf.single THEN IF v \in DOMAIN Address THEN Address[v] ELSE p
     ELSE IF ok = <<>> THEN p ELSE Address[ok[1]]

PPTypeOK ==
  /\ conf \in Configs /\ hops \in 0 .. MaxHops /\ realIp \in -1 .. 2 ^ Bits
  /\ outcome \in {"sent", "redirected", "not found", "forwarded", "filtered", "routed"}
  /\ passed \in 0 .. conf.filters

PPInit ==
  /\ conf \in Configs /\ request \in [path : Paths, secure : BOOLEAN, host : Hosts]
  /\ asked = request /\ hops = 0 /\ outcome = "sent" /\ passed = 0
  /\ location = [https |-> FALSE, host |-> "", path |-> <<>>]
  /\ peer \in Peers /\ forward \in Forwards /\ realIp = -1

\* A plausible bug: the path that was rewritten is forgotten with a new protocol.
MutTarget(r, path, ssl) ==
  [https |-> ssl[2], host |-> IF ssl[2] /\ ssl[3] = "" THEN r.host ELSE ssl[3],
   path |-> IF ssl[2] THEN r.path ELSE path]

\* The URL of the redirection.
Target(r, path, ssl) ==
  [https |-> ssl[2], host |-> IF ssl[2] /\ ssl[3] = "" THEN r.host ELSE ssl[3], path |-> path]

\* The synchronous advice of Redirector: path rewriting, redirect handlers, then
\* either a redirection, or the forward handlers and on.
Advice ==
  /\ outcome = "sent"
  /\ LET path == IF conf.redirect THEN HandleReq(request.path, conf.mode) ELSE request.path
         ssl == RedirectingAdvice([request EXCEPT !.path = path])
     IN \/ ~ssl[1] /\ outcome' = "not found" /\ UNCHANGED <<request, location>>
        \/ /\ ssl[1] /\ (ssl[2] \/ path # request.path)
           /\ outcome' = "redirected" /\ UNCHANGED request
           /\ location' = Target(request, path, ssl)
        \/ /\ ssl[1] /\ ~ssl[2] /\ path = request.path
           /\ outcome' = "forwarded" /\ UNCHANGED location
           /\ request' = [request EXCEPT !.path = IF conf.redirect THEN path ELSE HandleReq(path, conf.mode)]
  /\ UNCHANGED <<conf, asked, hops, passed, peer, forward, realIp>>

\* The client follows.  A location that is a path with two slashes at its start
\* names another host to a client, which does not come back then.
Follow ==
  /\ outcome = "redirected" /\ hops < MaxHops /\ hops' = hops + 1
  /\ location.https \/ ~IsPrefix(<<"/", "/">>, location.path)
  /\ request' = [path |-> location.path, secure |-> request.secure \/ location.https,
                 host |-> IF location.https THEN location.host ELSE request.host]
  /\ outcome' = "sent"
  /\ UNCHANGED <<conf, asked, location, passed, peer, forward, realIp>>

\* The pre-routing observer of RealIpResolver.
ResolveRealIp ==
  /\ outcome = "forwarded" /\ realIp = -1
  /\ realIp' = Resolve(peer, forward)
  /\ UNCHANGED <<conf, request, asked, hops, outcome, location, passed, peer, forward>>

\* A plausible bug: regex_search(), so that an exempt path may go on.
MutFree == \E f \in conf.free : IsPrefix(f, request.path)

Free == request.path \in conf.free

\* The pre-routing advice of GlobalFilters, after the observers: each filter in
\* turn either answers or passes the request on; an exempt path meets none.
GlobalFilters ==
  /\ outcome = "forwarded" /\ realIp # -1
  /\ \/ (Free \/ passed = conf.filters) /\ outcome' = "routed" /\ UNCHANGED passed
     \/ ~Free /\ passed < conf.filters /\ passed' = passed + 1 /\ UNCHANGED outcome
     \/ ~Free /\ passed < conf.filters /\ outcome' = "filtered" /\ UNCHANGED passed
  /\ UNCHANGED <<conf, request, asked, hops, location, peer, forward, realIp>>

PPNext == Advice \/ Follow \/ ResolveRealIp \/ GlobalFilters

PPSpec == PPInit /\ [][PPNext]_ppVars

(***************************************************************************)
(* Properties.                                                             *)
(***************************************************************************)

\* What the options promise: no two slashes in a row, none at the end but the root's.
Squeeze(p) ==
  FoldLeft(LAMBDA s, c : IF c = "/" /\ s # <<>> /\ s[Len(s)] = "/" THEN s ELSE Append(s, c), <<>>, p)
Strip(p) ==
  LET keep == {n \in 1 .. Len(p) : \A k \in n + 1 .. Len(p) : p[k] = "/"}
  IN SubSeq(p, 1, CHOOSE n \in keep : \A m \in keep : n <= m)
Clean(p) == CASE conf.mode = "trailing" -> Strip(p)
              [] conf.mode = "duplicate" -> Squeeze(p)
              [] conf.mode = "both" -> Strip(Squeeze(p))
              [] OTHER -> p

\* A request that gets past Redirector has the path that the client asked for at
\* first without the slashes that are to go, whichever of the three searches and
\* two removals of SlashRemover did it, and over whatever redirections it came.
PathClean == outcome \in {"forwarded", "filtered", "routed"} => request.path = Clean(asked.path)

\* Redirections come to an end at once: one of them cleans the path and changes the
\* protocol, and its target is redirected no further.  A request that has to be on
\* a secure connection gets past Redirector only when it is.
OneHop ==
  /\ hops <= 1 /\ (hops = 1 => outcome \notin {"redirected", "not found"})
  /\ (outcome \in {"forwarded", "filtered", "routed"} /\ conf.ssl =>
        request.secure \/ Clean(request.path) \in conf.exempt)

\* The global filters guard the path that is routed, not the one that was asked for.
FiltersGuard == outcome = "routed" => passed = conf.filters \/ Clean(asked.path) \in conf.free

\* The real address: behind a proxy, the last address in the header that can be read
\* and is not a proxy's; the peer when there is none.  For a header that does not
\* begin with a separator.
RealIpMeant ==
  realIp # -1 /\ ~conf.single /\ (forward = <<>> \/ forward[1] \notin {" ", ","}) =>
    LET Sep(i) == forward[i] \in {" ", ","}
        words == {w \in (DOMAIN forward) \X (DOMAIN forward) :
                    /\ w[1] <= w[2] /\ \A k \in w[1] .. w[2] : ~Sep(k)
                    /\ (w[1] > 1 => Sep(w[1] - 1)) /\ (w[2] < Len(forward) => Sep(w[2] + 1))}
        Word(w) == SubSeq(forward, w[1], w[2])
        clients == {w \in words : Word(w) \in DOMAIN Address /\ ~MatchCidr(Address[Word(w)])}
    IN realIp = IF ~MatchCidr(peer) \/ clients = {} THEN peer
                ELSE Address[Word(CHOOSE w \in clients : \A u \in clients : u[1] <= w[1])]

-----------------------------------------------------------------------------
(***************************************************************************)
(* Drogon's metrics: collectors that hold one metric per combination of    *)
(* label values, counters, gauges and histograms with a sliding window of  *)
(* time buckets, and the exporter that collects them all for a scrape      *)
(* while other threads go on counting.  Every metric, every collector and  *)
(* the exporter has a mutex of its own.                                    *)
(***************************************************************************)

CONSTANTS Types,            \* type of every collector, by name
          Labels,           \* label values
          Boundaries,       \* bucketBoundaries_ of the histograms, sorted
          TimeBucketCount,  \* timeBucketCount_ of the histograms
          Values,           \* values that are observed
          MaxChanges,       \* bound on increments, resets and observations
          MaxRotations,     \* bound on timer runs
          MaxScrapes        \* bound on scrapes

VARIABLES
  collectors,   \* collectors_ of the exporter: names
  metrics,      \* metrics_ of all collectors: <<name, label>> to the metric
  made,         \* metrics that were constructed, by number: their state
  timers,       \* histograms whose timerId_ is set
  refused,      \* a registerCollector() call has thrown
  exporter,     \* a scrape holds the exporter's mutex_
  todo,         \* ... and still has these collectors to collect
  locked,       \* ... and holds the mutex_ of this collector
  left,         \* ... whose metrics it still has to read
  report,       \* metrics whose samples the scrape has written, see Collect
  promised,     \* ghost: metrics that existed when the scrape began
  seen,         \* ghost: by metric, <<value, rotations before it>> since the last reset
  turns,        \* ghost: by metric, its rotations
  changes, scrapes

monVars == <<collectors, metrics, made, timers, refused, exporter, todo, locked, left, report,
             promised, seen, turns, changes, scrapes>>

Names == DOMAIN Types
NoLock == "none"

NewTimeBucket == [buckets |-> [k \in 1 .. Len(Boundaries) + 1 |-> 0], count |-> 0, sum |-> 0]
NewMetric(name) ==
  [type |-> Types[name], value |-> 0, window |-> IF Types[name] = "histogram" THEN <<NewTimeBucket>> ELSE <<>>]

\* A plausible bug: a value on a boundary goes to the next bucket.
MutBucketOf(v) == 1 + Cardinality({k \in DOMAIN Boundaries : Boundaries[k] <= v})

\* observe(): the first bucket whose boundary is not below the value, or the last one.
BucketOf(v) == 1 + Cardinality({k \in DOMAIN Boundaries : Boundaries[k] < v})

Observed(m, v) ==
  LET n == Len(m.window)
  IN [m EXCEPT !.window[n] = [@ EXCEPT !.sum = @ + v, !.count = @ + 1, !.buckets[BucketOf(v)] = @ + 1]]

\* A plausible bug: the window grows by one before it is cut.
MutRotated(m) ==
  LET w == Append(m.window, NewTimeBucket)
  IN [m EXCEPT !.window = IF Len(w) > TimeBucketCount + 1 THEN Tail(w) ELSE w]

\* rotateTimeBuckets().
Rotated(m) ==
  LET w == Append(m.window, NewTimeBucket)
  IN [m EXCEPT !.window = IF Len(w) > TimeBucketCount THEN Tail(w) ELSE w]

Total(w, F(_)) == FoldLeft(LAMBDA n, b : n + F(b), 0, w)

\* A plausible bug: every bucket is reported by itself.
MutCollect(m) ==
  IF m.type # "histogram" THEN <<m.value>>
  ELSE [k \in 1 .. Len(Boundaries) + 1 |-> Total(m.window, LAMBDA b : b.buckets[k])]
       \o <<Total(m.window, LAMBDA b : b.sum), Total(m.window, LAMBDA b : b.count)>>

\* collect(): a histogram's buckets up to every boundary and +Inf, its sum and
\* its count; the value of a counter or a gauge.
Collect(m) ==
  IF m.type # "histogram" THEN <<m.value>>
  ELSE [k \in 1 .. Len(Boundaries) + 1 |->
          Total(m.window, LAMBDA b : FoldLeft(LAMBDA n, j : n + b.buckets[j], 0, [j \in 1 .. k |-> j]))]
       \o <<Total(m.window, LAMBDA b : b.sum), Total(m.window, LAMBDA b : b.count)>>

MNTypeOK ==
  /\ collectors \subseteq Names /\ DOMAIN metrics \subseteq Names \X Labels
  /\ timers \subseteq DOMAIN made /\ refused \in 0 .. 1 /\ exporter \in BOOLEAN
  /\ todo \subseteq Names /\ locked \in Names \cup {NoLock} /\ left \subseteq DOMAIN metrics
  /\ report \subseteq DOMAIN metrics /\ promised \subseteq DOMAIN metrics

MNInit ==
  /\ collectors = {} /\ metrics = <<>> /\ made = <<>> /\ timers = {} /\ refused = 0
  /\ exporter = FALSE /\ todo = {} /\ locked = NoLock /\ left = {} /\ report = {}
  /\ promised = {} /\ seen = <<>> /\ turns = <<>> /\ changes = 0 /\ scrapes = 0

\* registerCollector(); a name that is taken is refused.
RegisterCollector(name) ==
  /\ ~exporter
  /\ \/ name \notin collectors /\ collectors' = collectors \cup {name} /\ UNCHANGED refused
     \/ name \in collectors /\ refused = 0 /\ refused' = 1 /\ UNCHANGED collectors
  /\ UNCHANGED <<metrics, made, timers, exporter, todo, locked, left, report, promised, seen, turns,
                 changes, scrapes>>

\* Collector::metric(): the metric of these label values, made when it is new.
MetricOf(name, label) ==
  /\ name \in collectors /\ locked # name /\ <<name, label>> \notin DOMAIN metrics
  /\ made' = Append(made, NewMetric(name))
  /\ metrics' = [p \in DOMAIN metrics \cup {<<name, label>>} |->
                   IF p \in DOMAIN metrics THEN metrics[p] ELSE Len(made')]
  /\ seen' = Append(seen, <<>>) /\ turns' = Append(turns, 0)
  /\ UNCHANGED <<collectors, timers, refused, exporter, todo, locked, left, report, promised,
                 changes, scrapes>>

\* Counter::increment(value), Gauge::increment(value) and decrement(value).
Increment(k, v) ==
  /\ changes < MaxChanges /\ changes' = changes + 1
  /\ made[k].type # "histogram"
  /\ \E by \in IF made[k].type = "gauge" THEN {v, -v} ELSE {v} :
       /\ made' = [made EXCEPT ![k].value = @ + by]
       /\ seen' = [seen EXCEPT ![k] = Append(@, <<by, 0>>)]
  /\ UNCHANGED <<collectors, metrics, timers, refused, exporter, todo, locked, left, report, promised,
                 turns, scrapes>>

\* reset(), and Gauge::set(value).
Set(k, v) ==
  /\ changes < MaxChanges /\ changes' = changes + 1
  /\ made[k].type # "histogram" /\ (v = 0 \/ made[k].type = "gauge")
  /\ made' = [made EXCEPT ![k].value = v]
  /\ seen' = [seen EXCEPT ![k] = << <<v, 0>> >>]
  /\ UNCHANGED <<collectors, metrics, timers, refused, exporter, todo, locked, left, report, promised,
                 turns, scrapes>>

\* Histogram::observe(); the first one starts the timer.
Observe(k, v) ==
  /\ changes < MaxChanges /\ changes' = changes + 1
  /\ made[k].type = "histogram"
  /\ timers' = timers \cup {k}
  /\ made' = [made EXCEPT ![k] = Observed(@, v)]
  /\ seen' = [seen EXCEPT ![k] = Append(@, <<v, turns[k]>>)]
  /\ UNCHANGED <<collectors, metrics, refused, exporter, todo, locked, left, report, promised, turns,
                 scrapes>>

\* The timer of a histogram, every maxAge_ / timeBucketCount_.
RotateTimeBuckets(k) ==
  /\ k \in timers /\ turns[k] < MaxRotations
  /\ made' = [made EXCEPT ![k] = Rotated(@)]
  /\ turns' = [turns EXCEPT ![k] = @ + 1]
  /\ UNCHANGED <<collectors, metrics, timers, refused, exporter, todo, locked, left, report, promised,
                 seen, changes, scrapes>>

\* exportMetrics(), under the exporter's mutex.
ExportMetrics ==
  /\ ~exporter /\ scrapes < MaxScrapes /\ scrapes' = scrapes + 1
  /\ exporter' = TRUE /\ todo' = collectors /\ report' = {} /\ promised' = DOMAIN metrics
  /\ UNCHANGED <<collectors, metrics, made, timers, refused, locked, left, seen, turns, changes>>

\* A plausible bug: a histogram is skipped once its timer runs.
MutExportCollector(name) ==
  /\ exporter /\ locked = NoLock /\ name \in todo
  /\ todo' = todo \ {name} /\ locked' = name
  /\ left' = {p \in DOMAIN metrics : p[1] = name /\ timers \cap {metrics[p]} = {}}
  /\ UNCHANGED <<collectors, metrics, made, timers, refused, exporter, report, promised, seen, turns,
                 changes, scrapes>>

\* exportCollector(): Collector::collect(), under the collector's mutex ...
ExportCollector(name) ==
  /\ exporter /\ locked = NoLock /\ name \in todo
  /\ todo' = todo \ {name} /\ locked' = name
  /\ left' = {p \in DOMAIN metrics : p[1] = name}
  /\ UNCHANGED <<collectors, metrics, made, timers, refused, exporter, report, promised, seen, turns,
                 changes, scrapes>>

\* ... which collects its metrics one by one, in the order of the map.
CollectMetric(p) ==
  /\ locked # NoLock /\ p \in left /\ left' = left \ {p}
  /\ report' = report \cup {p}
  /\ UNCHANGED <<collectors, metrics, made, timers, refused, exporter, todo, locked, promised, seen,
                 turns, changes, scrapes>>

Collected ==
  /\ locked # NoLock /\ left = {} /\ locked' = NoLock
  /\ UNCHANGED <<collectors, metrics, made, timers, refused, exporter, todo, left, report, promised,
                 seen, turns, changes, scrapes>>

Exported ==
  /\ exporter /\ todo = {} /\ locked = NoLock /\ exporter' = FALSE
  /\ UNCHANGED <<collectors, metrics, made, timers, refused, todo, locked, left, report, promised, seen,
                 turns, changes, scrapes>>

MNNext ==
  \/ ExportMetrics \/ Collected \/ Exported
  \/ \E name \in Names : RegisterCollector(name) \/ ExportCollector(name)
  \/ \E name \in Names, label \in Labels : MetricOf(name, label)
  \/ \E k \in DOMAIN made, v \in Values : Increment(k, v) \/ Set(k, v) \/ Observe(k, v)
  \/ \E k \in DOMAIN made : Set(k, 0) \/ RotateTimeBuckets(k)
  \/ \E p \in left : CollectMetric(p)

MNSpec == MNInit /\ [][MNNext]_monVars

(***************************************************************************)
(* Properties.                                                             *)
(***************************************************************************)

\* What was observed in the last TimeBucketCount periods, the current one included.
Recent(k) == SelectSeq(seen[k], LAMBDA o : o[2] > turns[k] - TimeBucketCount)
Sum(s) == FoldLeft(LAMBDA n, o : n + o[1], 0, s)
UpTo(s, b) == Len(SelectSeq(s, LAMBDA o : o[1] <= b))

\* collect() of a histogram gives, for the observations of the last
\* timeBucketCount_ periods and no others, the number up to every boundary, of all
\* and again of all, and their sum; of a counter or a gauge what was added since it was last set.
SamplesExact ==
  \A k \in DOMAIN made :
    LET r == Recent(k) IN
    Collect(made[k]) =
      IF made[k].type # "histogram" THEN <<Sum(seen[k])>>
      ELSE [j \in DOMAIN Boundaries |-> UpTo(r, Boundaries[j])] \o <<Len(r), Sum(r), Len(r)>>

\* A scrape misses no metric that was there when it began, however other threads
\* register collectors, make metrics and count in the meantime: each one has been
\* read, or is still to be read under a lock that the scrape holds or will take.
ScrapeWhole ==
  /\ ~exporter => promised \subseteq report
  /\ exporter => promised \subseteq report \cup left \cup {p \in promised : p[1] \in todo}
=============================================================================
