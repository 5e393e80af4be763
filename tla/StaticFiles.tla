---------------------------- MODULE StaticFiles -----------------------------
(* One file served two ways while somebody edits it: through a dr_static    *)
(* mount (installStaticMount) and through Drogon's StaticFileRouter, which  *)
(* is the fallback for paths no route matches and keeps responses of one    *)
(* I/O thread for CacheTime seconds.  A handler looks at the disk twice,    *)
(* once for the file's status and once to read it.  Files are small enough  *)
(* to be read into the response (at most 200 KB), and no compressed copy    *)
(* (.br, .gz) lies beside them.                                             *)
EXTENDS Integers, Sequences, FiniteSets

CONSTANTS CacheTime,   \* staticFilesCacheTime_, in seconds
          Sizes,       \* the size of each version of the file, a sequence
          Headers,     \* Range headers: [first, last], or NoRange
          NoRange,
          MaxTime      \* bound: seconds

VARIABLES now,
          version,     \* what the file holds (0: there is no file)
          written,     \* the version written last
          modified,    \* the second in which each version was written
          replaced,    \* the second in which it was replaced (MaxTime + 1: not yet)
          cache,       \* this thread's cached response: [version, mod, until], or None
          job,         \* the handler that runs, or None
          copy,        \* the client's copy: [version, mod], version 0 for none
          answer       \* the last answer, or None

sfVars == <<now, version, written, modified, replaced, cache, job, copy, answer>>

None == [none |-> TRUE]
Versions == DOMAIN Sizes
Min2(a, b) == IF a < b THEN a ELSE b

SFInit ==
    /\ now = 1 /\ version = 1 /\ written = 1
    /\ modified = [v \in Versions |-> IF v = 1 THEN 1 ELSE 0]
    /\ replaced = [v \in Versions |-> MaxTime + 1]
    /\ cache = None /\ job = None /\ copy = [version |-> 0, mod |-> 0] /\ answer = None

Replaced == [v \in Versions |-> IF v = version THEN now ELSE replaced[v]]

\* Somebody writes the file anew, at most once a second: Last-Modified has no
\* finer resolution, and two versions of one second look the same to everybody.
Edit ==
    /\ written + 1 \in Versions /\ modified[written] < now
    /\ written' = written + 1 /\ version' = written'
    /\ modified' = [modified EXCEPT ![written'] = now]
    /\ replaced' = Replaced
    /\ UNCHANGED <<now, cache, job, copy, answer>>

Delete ==
    /\ version # 0
    /\ version' = 0 /\ replaced' = Replaced
    /\ UNCHANGED <<now, written, modified, cache, job, copy, answer>>

\* The cache drops an entry at the tick after its time at the latest.
Tick ==
    /\ now < MaxTime
    /\ cache # None => now <= cache.until
    /\ now' = now + 1
    /\ UNCHANGED <<version, written, modified, replaced, cache, job, copy, answer>>

Expire ==
    /\ cache # None /\ now >= cache.until /\ job = None
    /\ cache' = None
    /\ UNCHANGED <<now, version, written, modified, replaced, job, copy, answer>>

-----------------------------------------------------------------------------
\* The answer to the running request; the client keeps whole files.
Answer(j, status, v, mod, from, length) ==
    /\ answer' = [via |-> j.via, range |-> j.range, status |-> status, begun |-> j.begun,
                  version |-> v, from |-> from, length |-> length]
    /\ copy' = IF status = 200 THEN [version |-> v, mod |-> mod] ELSE copy
    /\ job' = None

NotModified(j) == Answer(j, 304, copy.version, j.since, 0, 0)
NotFound(j) == Answer(j, 404, 0, 0, 0, 0)

\* parseRangeHeader of a header with one range: satisfiable or not.
Satisfiable(r, size) == r.first < size

Request(via) ==
    /\ job = None /\ answer' = None
    /\ \E r \in Headers \union {NoRange}, since, ifRange \in {0, copy.mod} :
         job' = [via |-> via, range |-> r, since |-> since, ifRange |-> ifRange, begun |-> now,
                 mod |-> 0, from |-> 0, length |-> 0, at |-> IF via = "mount" THEN "read" ELSE "stat"]
    /\ UNCHANGED <<now, version, written, modified, replaced, cache, copy>>

\* sendStaticFileResponse up to the call of newFileResponse.  A request for a
\* range looks at the file first; any other, and one whose If-Range names another
\* version, is answered from the cache when it can be.
Stat ==
    LET j == job
        ranged == j.range # NoRange
        cached == cache # None
        looks == ranged \/ ~cached
        mod == IF version = 0 THEN 0 ELSE modified[version]
        found == [j EXCEPT !.mod = mod, !.at = "read"]
    IN  /\ j # None /\ j.at = "stat"
        /\ IF looks /\ version = 0 THEN NotFound(j)
           ELSE IF looks /\ j.since = mod THEN NotModified(j)
           ELSE IF ranged /\ j.ifRange \in {0, mod}
           THEN IF Satisfiable(j.range, Sizes[version])
                THEN /\ job' = [found EXCEPT
                                 !.from = j.range.first,
                                 !.length = Min2(j.range.last + 1, Sizes[version]) - j.range.first]
                     /\ UNCHANGED <<copy, answer>>
                ELSE Answer(j, 416, 0, 0, 0, 0)
           ELSE IF cached
           THEN IF cache.mod = j.since THEN NotModified(j)
                ELSE Answer(j, 200, cache.version, cache.mod, 0, Sizes[cache.version])
           ELSE job' = found /\ UNCHANGED <<copy, answer>>
        /\ UNCHANGED <<now, version, written, modified, replaced, cache>>

\* Plausible bugs: the file is read before its status is taken; the end of a
\* range is not cut; a cached response stays longer.
MutBody(j) ==
    IF j.mod = 0 THEN [version |-> version, mod |-> 0]
    ELSE [version |-> CHOOSE v \in Versions : modified[v] = j.mod, mod |-> modified[version]]
MutFits(j) == j.from <= Sizes[version]

\* The content a response is given and the Last-Modified it is given with.
Body(j) == [version |-> version, mod |-> j.mod]

\* newFileResponse's test of the offset and length against the file it opens.
Fits(j) == j.from + j.length <= Sizes[version]

\* newFileResponse with the offset and length asked for (length 0: the rest),
\* and what the two callers do with the response.
Read ==
    LET j == job
        b == Body(j)
        length == IF j.length = 0 THEN Sizes[version] - j.from ELSE j.length
    IN  /\ j # None /\ j.at = "read"
        /\ IF version = 0 THEN NotFound(j) /\ UNCHANGED cache
           ELSE IF ~Fits(j) THEN Answer(j, 416, 0, 0, 0, 0) /\ UNCHANGED cache
           ELSE /\ Answer(j, IF length < Sizes[version] THEN 206 ELSE 200,
                          b.version, b.mod, j.from, length)
                /\ cache' = IF j.via = "router" /\ j.length = 0
                            THEN [version |-> b.version, mod |-> b.mod, until |-> now + CacheTime]
                            ELSE cache
        /\ UNCHANGED <<now, version, written, modified, replaced>>

SFNext ==
    \/ Edit \/ Delete \/ Tick \/ Expire
    \/ \E via \in {"mount", "router"} : Request(via)
    \/ Stat \/ Read

SFSpec == SFInit /\ [][SFNext]_sfVars

-----------------------------------------------------------------------------
SFTypeOK ==
    /\ now \in 1..MaxTime /\ version \in {0} \union Versions
    /\ copy.version \in {0} \union Versions
    /\ job # None => job.at \in {"stat", "read"}

\* What a client is given, or told to keep (304), is a version the file had no
\* longer ago than the cache keeps responses, whenever the file is edited: a
\* response never carries a newer Last-Modified than its content.
AnswerFresh ==
    answer # None /\ answer.status \in {200, 206, 304} =>
      /\ answer.version # 0
      /\ replaced[answer.version] >= answer.begun - (CacheTime + 1)

\* An answer with content holds bytes the file has, also when the file became
\* shorter after its size was taken for the range: all of them (200), or some of
\* those asked for (206).
PartOfFile ==
    answer # None /\ answer.status \in {200, 206} =>
      /\ answer.from + answer.length <= Sizes[answer.version]
      /\ answer.status = 200 => answer.from = 0 /\ answer.length = Sizes[answer.version]
      /\ answer.status = 206 =>
           /\ answer.from = answer.range.first
           /\ answer.from + answer.length <= answer.range.last + 1

\* A mount serves the range a client asks for.
MountServesRanges ==
    answer # None /\ answer.via = "mount" /\ answer.status \in {200, 206}
        /\ answer.range # NoRange =>
      answer.from = answer.range.first /\ answer.from + answer.length <= answer.range.last + 1

-----------------------------------------------------------------------------
(* drogon::parseRangeHeader: the text of a Range header after "bytes=" and  *)
(* the length of a file give the half-open byte ranges to send.  Numbers    *)
(* are size_t, whose largest value is MaxSize.                              *)

CONSTANTS MaxSize,      \* MAX_SIZE
          MaxRanges,    \* the code's 100
          Characters,   \* the characters texts are made of
          Numbers,      \* the numbers specifiers are made of
          Lengths,      \* lengths of files
          MaxText,      \* bound: length of a text
          MaxSpecs      \* bound: specifiers of a header

VARIABLES contentLength,
          text,         \* an arbitrary header
          specs         \* a well-formed header, as specifiers [kind, a, b]

rgVars == <<contentLength, text, specs>>

\* Characters: digits are their values.
Dash == 10
Comma == 11
Blank == 12
End == 13

RGInit == contentLength \in Lengths /\ text = <<>> /\ specs = <<>>

\* The headers are enumerated by growing them.
Type ==
    /\ specs = <<>> /\ Len(text) < MaxText
    /\ \E c \in Characters : text' = Append(text, c)
    /\ UNCHANGED <<contentLength, specs>>

AddSpec ==
    /\ text = <<>> /\ Len(specs) < MaxSpecs
    /\ \E k \in {"fromTo", "from", "suffix"}, a, b \in Numbers :
         /\ k # "fromTo" => b = a
         /\ specs' = Append(specs, [kind |-> k, a |-> a, b |-> b])
    /\ UNCHANGED <<contentLength, text>>

RGNext == Type \/ AddSpec
RGSpec == RGInit /\ [][RGNext]_rgVars

-----------------------------------------------------------------------------
At(t, i) == IF i <= Len(t) THEN t[i] ELSE End
IsDigit(c) == c \in 0..9

\* The first position from i on that does not hold a character of cs.
RECURSIVE Past(_, _, _)
Past(t, i, cs) == IF At(t, i) \in cs THEN Past(t, i + 1, cs) ELSE i

SkipWhitespace(t, i) == Past(t, i, {Blank})

\* A plausible bug: the last digit is not looked at.
MutWouldOverflow(base, digit) == base > MaxSize \div 10

WouldOverflow(base, digit) ==
    base > MaxSize \div 10 \/ (base >= MaxSize \div 10 /\ digit > MaxSize % 10)

\* The number that starts at i, or -1 when it does not fit.
RECURSIVE Number(_, _, _)
Number(t, i, v) ==
    IF ~IsDigit(At(t, i)) THEN v
    ELSE IF WouldOverflow(v, t[i]) THEN -1
    ELSE Number(t, i + 1, (v * 10 + t[i]) % (MaxSize + 1))

Stop(v) == [verdict |-> v, start |-> 0, end |-> 0, next |-> 0, open |-> FALSE]

Found(start, end, next, open) ==
    [verdict |-> "ok", start |-> start, end |-> end, next |-> next, open |-> open]

SuffixStart(n, length) == IF n < length THEN length - n ELSE 0

\* A plausible bug: a range may end beyond the file.
MutEndOf(last, length) == (last + 1) % (MaxSize + 1)

EndOf(last, length) == IF last >= length THEN length ELSE last + 1

\* The end of a range: the number at i, in [start, end) form.
ParseEnd(t, i, length, start, isSuffix) ==
    LET n    == Number(t, i, 0)
        next == SkipWhitespace(t, Past(t, i, 0..9))
        last == IF isSuffix THEN (length - 1) % (MaxSize + 1) ELSE n
    IN  IF ~IsDigit(At(t, i)) THEN Stop("invalid")
        ELSE IF n = -1 THEN Stop("notSatisfiable")
        ELSE IF At(t, next) \notin {Comma, End} THEN Stop("invalid")
        ELSE Found(IF isSuffix THEN SuffixStart(n, length) ELSE start,
                   EndOf(last, length), next, FALSE)

\* One round of the loop: the specifier that starts at i.
ParseSpec(t, i0, length) ==
    LET i     == SkipWhitespace(t, i0)
        start == Number(t, i, 0)
        dash  == SkipWhitespace(t, Past(t, i, 0..9))
        after == SkipWhitespace(t, dash + 1)
    IN  IF At(t, i) = Dash THEN ParseEnd(t, i + 1, length, 0, TRUE)
        ELSE IF ~IsDigit(At(t, i)) THEN Stop("invalid")
        ELSE IF start = -1 THEN Stop("notSatisfiable")
        ELSE IF At(t, dash) # Dash THEN Stop("invalid")
        ELSE IF At(t, after) \in {Comma, End} THEN Found(start, length, after, TRUE)
        ELSE ParseEnd(t, after, length, start, FALSE)

Outcome(v, ranges) == [result |-> v, ranges |-> ranges]

\* The loop, from position i with what was found so far.
RECURSIVE ParseFrom(_, _, _, _, _)
ParseFrom(t, i, length, ranges, total) ==
    LET s    == ParseSpec(t, i, length)
        size == s.end - s.start
        more == IF size > 0 THEN Append(ranges, <<s.start, s.end>>) ELSE ranges
        sum  == IF size > 0 THEN total + size ELSE total
    IN  IF s.verdict # "ok" THEN Outcome(s.verdict, ranges)
        ELSE IF size > 0 /\ total > MaxSize - size THEN Outcome("notSatisfiable", ranges)
        ELSE IF size > 0 /\ ~s.open /\ Len(more) > MaxRanges THEN Outcome("invalid", more)
        ELSE IF At(t, s.next) = Comma THEN ParseFrom(t, s.next + 1, length, more, sum)
        ELSE IF more = <<>> \/ sum > length THEN Outcome("notSatisfiable", more)
        ELSE Outcome(IF Len(more) = 1 THEN "singlePart" ELSE "multiPart", more)

ParseRangeHeader(t, length) ==
    IF t = <<>> THEN Outcome("invalid", <<>>) ELSE ParseFrom(t, 1, length, <<>>, 0)

-----------------------------------------------------------------------------
(* What a header means.                                                     *)

\* The characters of a number below 100, and of a specifier (with a blank after
\* the comma, as the code's own examples write it).
NumberText(n) == IF n < 10 THEN <<n>> ELSE <<n \div 10, n % 10>>

SpecText(s) ==
    CASE s.kind = "fromTo" -> NumberText(s.a) \o <<Dash>> \o NumberText(s.b)
      [] s.kind = "from"   -> NumberText(s.a) \o <<Dash>>
      [] OTHER             -> <<Dash>> \o NumberText(s.a)

RECURSIVE HeaderText(_)
HeaderText(ss) ==
    IF Len(ss) = 1 THEN SpecText(ss[1])
    ELSE SpecText(ss[1]) \o <<Comma, Blank>> \o HeaderText(Tail(ss))

\* The bytes a specifier asks for.
Meaning(s, length) ==
    {p \in 0..(length - 1) :
        CASE s.kind = "fromTo" -> p >= s.a /\ p <= s.b
          [] s.kind = "from"   -> p >= s.a
          [] OTHER             -> p >= length - s.a}

RangeBytes(r) == r[1]..(r[2] - 1)

-----------------------------------------------------------------------------
RGTypeOK == Len(text) <= MaxText /\ Len(specs) <= MaxSpecs /\ contentLength \in 0..MaxSize

\* Whatever the header says, the ranges parseRangeHeader accepts are not empty
\* and lie within the file.
RangesWithin ==
    LET o == ParseRangeHeader(text, contentLength)
    IN  o.result \in {"singlePart", "multiPart"} =>
          /\ o.ranges # <<>>
          /\ \A i \in DOMAIN o.ranges :
               /\ o.ranges[i][1] < o.ranges[i][2]
               /\ o.ranges[i][2] <= contentLength

\* A well-formed header gives exactly the bytes its specifiers ask for, in their
\* order, the ones that ask for nothing left out; it is refused when a number is
\* no size_t, when nothing is left or when more than the whole file is asked for.
RangesMeant ==
    specs # <<>> =>
      LET o      == ParseRangeHeader(HeaderText(specs), contentLength)
          wanted == SelectSeq([i \in DOMAIN specs |-> Meaning(specs[i], contentLength)],
                              LAMBDA m : m # {})
          sizes[i \in 0..Len(wanted)] ==
              IF i = 0 THEN 0 ELSE sizes[i - 1] + Cardinality(wanted[i])
          fits   == \A i \in DOMAIN specs : specs[i].a <= MaxSize /\ specs[i].b <= MaxSize
          good   == fits /\ wanted # <<>> /\ sizes[Len(wanted)] <= contentLength
      IN  IF good THEN /\ o.result = IF Len(wanted) = 1 THEN "singlePart" ELSE "multiPart"
                       /\ [i \in DOMAIN o.ranges |-> RangeBytes(o.ranges[i])] = wanted
          ELSE o.result = "notSatisfiable"
=============================================================================
