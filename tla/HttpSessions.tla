---------------------------- MODULE HttpSessions ----------------------------
(***************************************************************************)
(* Drogon's HTTP sessions: how a request finds its session, how a response *)
(* tells the client the session's id or a new one, and how an old id is    *)
(* kept for a while, with requests of the same client on several threads.  *)
(* The CacheMap that holds the sessions is specified below; here a slot   *)
(* lives while it is used within the timeout.                              *)
(***************************************************************************)
EXTENDS Integers, Sequences, FiniteSets

CONSTANTS Clients,
          Timeout,      \* timeout_, in ticks; more than Grace
          Grace,        \* how long changeSessionId() keeps the old slot
          Cached,       \* clients whose requests are answered from a response cache
          MaxRequests,  \* bound on the requests of every client
          MaxChanges,   \* bound on changeSessionIdToClient() calls
          MaxTime       \* bound on the clock

VARIABLES
  slots,        \* sessionMapPtr_: id to [session, until]
  session,      \* the sessions made: [sessionId, needToSet, needToChange]
  ids,          \* ids generated so far
  later,        \* runAfter() calls of changeSessionId(): <<time, id>>
  now,
  reqs,         \* the requests: [pc, client, session, cookie]
  cachedResp,   \* session cookies of the response that is served from a cache
  jar,          \* by client, the session id its cookie holds; 0: none
  changes,      \* changeSessionIdToClient() calls so far
  given,        \* ghost: by id, the session it was made for
  used,         \* ghost: by id, when it was last used
  raced,        \* ghost: sessions whose flags two requests touched at once
  leaked        \* ghost: a client got a cookie that is not of its own session

hsVars == <<slots, session, ids, later, now, reqs, cachedResp, jar, changes, given, used, raced, leaked>>

Put(f, k, v) == [x \in DOMAIN f \cup {k} |-> IF x = k THEN v ELSE f[x]]
Answering == {"change", "set", "give"}

HSTypeOK ==
  /\ DOMAIN slots \subseteq 1 .. ids /\ jar \in [Clients -> 0 .. ids]
  /\ \A k \in DOMAIN session : session[k].id \in 1 .. ids
  /\ \A r \in DOMAIN reqs : /\ reqs[r].pc \in Answering \cup {"handling", "done"}
                            /\ reqs[r].session \in DOMAIN session
  /\ now \in 0 .. MaxTime /\ raced \subseteq DOMAIN session /\ leaked \in BOOLEAN

HSInit ==
  /\ slots = <<>> /\ session = <<>> /\ ids = 0 /\ later = {} /\ now = 0 /\ reqs = <<>>
  /\ cachedResp = {} /\ jar = [c \in Clients |-> 0] /\ changes = 0
  /\ given = <<>> /\ used = <<>> /\ raced = {} /\ leaked = FALSE

\* A plausible bug: a new session is not marked for its cookie.
MutNewSession(id, needToSet) == [id |-> id, needToSet |-> FALSE, needToChange |-> FALSE]

NewSession(id, needToSet) == [id |-> id, needToSet |-> needToSet, needToChange |-> FALSE]

\* findSessionForRequest() and getSession(): the slot of the cookie's id, or of a
\* new id, is used again or made.
FindSessionForRequest(c) ==
  /\ Cardinality({r \in DOMAIN reqs : reqs[r].client = c}) < MaxRequests[c]
  /\ LET fresh == jar[c] = 0
         id == IF fresh THEN ids + 1 ELSE jar[c]
         made == id \notin DOMAIN slots
         s == IF made THEN Len(session) + 1 ELSE slots[id].session
     IN /\ ids' = IF fresh THEN ids + 1 ELSE ids
        /\ session' = IF made THEN Append(session, NewSession(id, fresh)) ELSE session
        /\ slots' = Put(slots, id, [session |-> s, until |-> now + Timeout])
        /\ given' = IF made THEN Put(given, id, s) ELSE given
        /\ used' = Put(used, id, now)
        /\ reqs' = Append(reqs, [pc |-> "handling", client |-> c, session |-> s, cookie |-> 0])
  /\ UNCHANGED <<later, now, cachedResp, jar, changes, raced, leaked>>

At(r, pc) == reqs' = [reqs EXCEPT ![r].pc = pc]

\* The flags of a session are plain booleans: requests that touch them while
\* another one is being answered race.
Touch(r) ==
  raced' = IF \E q \in DOMAIN reqs \ {r} : reqs[q].session = reqs[r].session /\ reqs[q].pc \in Answering
           THEN raced \cup {reqs[r].session} ELSE raced

\* A handler calls changeSessionIdToClient().
ChangeSessionIdToClient(r) ==
  /\ reqs[r].pc = "handling" /\ changes < MaxChanges /\ changes' = changes + 1
  /\ session' = [session EXCEPT ![reqs[r].session].needToChange = TRUE,
                                ![reqs[r].session].needToSet = TRUE]
  /\ Touch(r)
  /\ UNCHANGED <<slots, ids, later, now, reqs, cachedResp, jar, given, used, leaked>>

\* handleSessionForResponse(), up to needToChangeSessionId().
HandleSessionForResponse(r) ==
  /\ reqs[r].pc = "handling"
  /\ At(r, IF session[reqs[r].session].needToChange THEN "change" ELSE "set")
  /\ Touch(r)
  /\ UNCHANGED <<slots, session, ids, later, now, cachedResp, jar, changes, given, used, leaked>>

\* A plausible bug: the new slot is not put into the map.
MutNewSlot(id, s) == slots

NewSlot(id, s) == Put(slots, id, [session |-> s, until |-> now + Timeout])

\* A plausible bug: the old slot is never taken away.
MutEraseLater(id) == {}

EraseLater(id) == {<<now + Grace, id>>}

\* changeSessionId(): a new id, a second slot, and the old one gone after a while.
ChangeSessionId(r) ==
  LET s == reqs[r].session old == session[s].id new == ids + 1 IN
  /\ reqs[r].pc = "change" /\ ids' = new
  /\ session' = [session EXCEPT ![s].id = new, ![s].needToChange = FALSE]
  /\ slots' = NewSlot(new, s) /\ later' = later \cup EraseLater(old)
  /\ given' = Put(given, new, s) /\ used' = Put(used, new, now)
  /\ At(r, "set") /\ Touch(r)
  /\ UNCHANGED <<now, cachedResp, jar, changes, leaked>>

\* needSetToClient(): the cookie is added, to a copy when the response may be
\* served again.
SetToClient(r) ==
  LET s == reqs[r].session set == session[s].needToSet IN
  /\ reqs[r].pc = "set"
  /\ reqs' = [reqs EXCEPT ![r].pc = "give", ![r].cookie = IF set THEN session[s].id ELSE 0]
  /\ Touch(r)
  /\ UNCHANGED <<slots, session, ids, later, now, cachedResp, jar, changes, given, used, leaked>>

\* A plausible bug: the cookie goes into the cached response itself.
MutKeptWithCookie(r) == cachedResp \cup (IF reqs[r].client \in Cached /\ reqs[r].cookie # 0 THEN {reqs[r].cookie} ELSE {})

KeptWithCookie(r) == cachedResp

\* hasSet(), and the response goes to the client with its cookies, if any.
Give(r) ==
  LET s == reqs[r].session c == reqs[r].client
      cookies == (IF reqs[r].cookie # 0 THEN {reqs[r].cookie} ELSE {})
                 \cup (IF reqs[r].client \in Cached THEN cachedResp ELSE {})
  IN
  /\ reqs[r].pc = "give" /\ At(r, "done")
  /\ session' = IF reqs[r].cookie # 0 THEN [session EXCEPT ![s].needToSet = FALSE] ELSE session
  /\ cachedResp' = KeptWithCookie(r)
  /\ IF cookies = {} THEN UNCHANGED jar ELSE \E id \in cookies : jar' = [jar EXCEPT ![c] = id]
  /\ leaked' = (leaked \/ \E id \in cookies : given[id] # s)
  /\ Touch(r)
  /\ UNCHANGED <<slots, ids, later, now, changes, given, used>>

\* The clock, the cache's timeouts and its runAfter() callbacks.  A response is
\* put together within a tick.
Tick ==
  /\ now < MaxTime /\ now' = now + 1
  /\ \A r \in DOMAIN reqs : reqs[r].pc \notin Answering
  /\ LET due == {e \in later : e[1] <= now'}
         gone == {id \in DOMAIN slots : slots[id].until < now' \/ \E e \in due : e[2] = id}
     IN /\ later' = later \ due
        /\ slots' = [id \in DOMAIN slots \ gone |-> slots[id]]
  /\ UNCHANGED <<session, ids, reqs, cachedResp, jar, changes, given, used, raced, leaked>>

HSNext ==
  \/ Tick \/ \E c \in Clients : FindSessionForRequest(c)
  \/ \E r \in DOMAIN reqs :
       \/ ChangeSessionIdToClient(r) \/ HandleSessionForResponse(r) \/ ChangeSessionId(r)
       \/ SetToClient(r) \/ Give(r)

HSSpec == HSInit /\ [][HSNext]_hsVars

(***************************************************************************)
(* Properties.                                                             *)
(***************************************************************************)

\* A client that uses its session within the timeout keeps it: the id in its
\* cookie, also one that it got in place of another, leads to the session for
\* which the id was made.  Sessions whose flags were raced for are excepted.
ClientKeepsSession ==
  \A c \in Clients :
    jar[c] # 0 /\ given[jar[c]] \notin raced /\ used[jar[c]] + Timeout >= now =>
      jar[c] \in DOMAIN slots /\ slots[jar[c]].session = given[jar[c]]

\* A client that was answered without a race can be found again: it holds the
\* present id of the session that served it last.
ClientToldId ==
  \A r \in DOMAIN reqs :
    LET c == reqs[r].client s == reqs[r].session IN
    /\ reqs[r].pc = "done" /\ s \notin raced
    /\ \A q \in DOMAIN reqs : reqs[q].client = c /\ q # r => reqs[q].pc = "done" /\ reqs[q].session = s
    => jar[c] = session[s].id \/ (session[s].needToChange /\ session[s].needToSet)

\* An id that was replaced stops working Grace ticks later.
OldIdGoes ==
  \A id \in DOMAIN slots :
    LET s == given[id] IN
    slots[id].session = s /\ session[s].id # id => \E e \in later : e[2] = id /\ e[1] > now

\* The cookie of a session is given to no client but its own, even when the
\* response is kept and served to others.
CookiePrivate == ~leaked

-----------------------------------------------------------------------------
(* Drogon's CacheMap (lib/inc/drogon/CacheMap.h), the expiring map behind   *)
(* sessions and cached static files.  A value with a timeout is kept alive  *)
(* by an entry in timing wheels; every access puts the entry into a later   *)
(* bucket again, and the value is erased when the last bucket that holds    *)
(* its entry is dropped.  The accesses run on any thread under mtx_, the    *)
(* ticks on an event loop under bucketMutex_ only, so they interleave.      *)

CONSTANTS Keys, NoKey,
          BucketsNum, WheelsNum,  \* bucketsNumPerWheel_, wheelsNumber_
          MaxDelay,               \* bound: longest timeout, in ticks
          MaxTicks,               \* bound: ticksCounter_
          MaxEntries              \* bound: entries alive at once

VARIABLES cmTicks,   \* ticksCounter_
          cmWheels,  \* wheels_: sets of items, an entry and the hops it has left
          map,       \* map_: timeout_, and the entry weakEntryPtr_ locks (0: none)
          tick,      \* the tick on its way through the wheels
          user,      \* the thread that holds mtx_
          deadline   \* history: the latest tick an access since it was put there
                     \* keeps the value until

cmVars == <<cmTicks, cmWheels, map, tick, user, deadline>>

Wheels == 0..(WheelsNum - 1)
Slots == 0..(BucketsNum - 1)
Absent == [timeout |-> -1, entry |-> 0]
NoTick == [wheel |-> -1, popped |-> FALSE, tmp |-> {}, call |-> NoKey]
NoUser == [pc |-> "idle", key |-> NoKey, entry |-> 0, delay |-> 0, due |-> 0]

\* The entries some CallbackEntryPtr holds: in a bucket, in the bucket a tick
\* has taken out, and the local one of eraseAfter.
InBuckets(ws) == UNION {{it.entry : it \in ws[i][b]} : i \in Wheels, b \in Slots}
Alive == InBuckets(cmWheels) \cup {it.entry : it \in tick.tmp} \cup ({user.entry} \ {0})

CMInit ==
    /\ cmTicks = 0 /\ tick = NoTick /\ user = NoUser
    /\ cmWheels = [i \in Wheels |-> [b \in Slots |-> {}]]
    /\ map = [k \in Keys |-> Absent]
    /\ deadline = [k \in Keys |-> 0]

\* insertEntry on its way up: the delay left and the counter at wheel i.
BucketAt[i \in Wheels, delay \in 1..(MaxDelay + 2)] ==
    IF i = 0 THEN [delay |-> delay, t |-> cmTicks]
    ELSE LET below == BucketAt[i - 1, delay]
         IN  [delay |-> (below.delay + (below.t % BucketsNum) - 1) \div BucketsNum,
              t |-> below.t \div BucketsNum]

\* Plausible bugs: the tick that may be running is not counted, or counted twice.
MutInTicks(delay) == delay
MutInTicks2(delay) == delay + 2

\* The delay in ticks (tickInterval_ is 1), one more for the tick that is running.
InTicks(delay) == delay + 1

\* A delay of one bucket or less is put into the first wheel that takes it; the
\* wheels passed on the way hand it down again later.
Place(delay) ==
    LET d   == InTicks(delay)
        top == CHOOSE i \in Wheels :
                 /\ BucketAt[i, d].delay <= BucketsNum
                 /\ \A j \in 0..(i - 1) : BucketAt[j, d].delay > BucketsNum
    IN  [wheel |-> top, slot |-> BucketAt[top, d].delay - 1,
         hops |-> [n \in 1..top |->
                     LET a == BucketAt[top - n, d]
                     IN  <<top - n, (a.delay + (a.t % BucketsNum) - 1) % BucketsNum>>]]

-----------------------------------------------------------------------------
(* The accesses.  Each holds mtx_ from its first step to its last.          *)

\* The entry eraseAfter inserts: the one the value has if it is alive, or else
\* a new one, which weakEntryPtr_ then names.
EntryOf(k, m) ==
    IF m[k].entry # 0 THEN m[k].entry
    ELSE CHOOSE e \in 1..MaxEntries : e \notin Alive

EraseAfter(k, delay, m) ==
    /\ m[k].entry # 0 \/ \E e \in 1..MaxEntries : e \notin Alive
    /\ map' = [m EXCEPT ![k].entry = EntryOf(k, m)]
    /\ user' = [pc |-> "insert", key |-> k, entry |-> EntryOf(k, m),
                delay |-> delay, due |-> 0]
    /\ deadline' = [deadline EXCEPT ![k] = IF map[k] = Absent THEN 0 ELSE @]

\* insert: a key that is there keeps its value and timeout, but lives longer.
Insert(k, timeout) ==
    LET m == IF map[k] = Absent THEN [map EXCEPT ![k] = [timeout |-> timeout, entry |-> 0]]
             ELSE map
    IN  /\ user = NoUser
        /\ cmTicks + timeout < MaxTicks
        /\ IF timeout > 0 THEN EraseAfter(k, timeout, m)
           ELSE map' = m /\ UNCHANGED <<user, deadline>>
        /\ UNCHANGED <<cmTicks, cmWheels, tick>>

\* operator[], find, findAndFetch and modify of a value that is there.
Find(k) ==
    /\ user = NoUser
    /\ map[k].timeout > 0
    /\ cmTicks + map[k].timeout < MaxTicks
    /\ EraseAfter(k, map[k].timeout, map)
    /\ UNCHANGED <<cmTicks, cmWheels, tick>>

\* erase leaves the entry in the wheels.
Erase(k) ==
    /\ user = NoUser
    /\ map[k] # Absent
    /\ map' = [map EXCEPT ![k] = Absent]
    /\ UNCHANGED <<cmTicks, cmWheels, tick, user, deadline>>

\* A tick that is counted but has yet to turn wheel i takes a turn from an entry
\* put there now: one tick in the first wheel, BucketsNum^i in wheel i.
Turn(i) ==
    IF /\ tick.wheel \in 0..i /\ ~(tick.wheel = i /\ tick.popped)
       /\ cmTicks % (BucketsNum ^ i) = 0
    THEN BucketsNum ^ i ELSE 0

\* The part of eraseAfter under bucketMutex_.
InsertEntry ==
    LET p   == Place(user.delay)
        due == cmTicks + user.delay + 1 - Turn(p.wheel)
    IN  /\ user.pc = "insert"
        /\ cmWheels' = [cmWheels EXCEPT ![p.wheel][p.slot] =
                            @ \cup {[entry |-> user.entry, hops |-> p.hops]}]
        /\ user' = [user EXCEPT !.pc = "release", !.due = due]
        /\ deadline' = [deadline EXCEPT ![user.key] = IF @ > due THEN @ ELSE due]
        /\ UNCHANGED <<cmTicks, map, tick>>

\* The end of the access drops the local entryPtr and unlocks mtx_.  Were it the
\* last one, the entry's callback would lock mtx_ again in the same thread.
Release ==
    /\ user.pc = "release"
    /\ user' = IF user.entry \in InBuckets(cmWheels) \cup {it.entry : it \in tick.tmp}
               THEN NoUser ELSE [user EXCEPT !.pc = "stuck"]
    /\ UNCHANGED <<cmTicks, cmWheels, map, tick, deadline>>

-----------------------------------------------------------------------------
(* The tick of the constructor's timer.                                     *)

TickBegin ==
    /\ tick.wheel = -1
    /\ cmTicks < MaxTicks
    /\ cmTicks' = cmTicks + 1
    /\ tick' = [tick EXCEPT !.wheel = 0]
    /\ UNCHANGED <<cmWheels, map, user, deadline>>

\* Under bucketMutex_: wheel i turns when the counter is a multiple of
\* BucketsNum^i; its front bucket is swapped out to be destroyed afterwards.
TickPop ==
    LET i == tick.wheel
    IN  /\ i \in Wheels /\ ~tick.popped
        /\ IF cmTicks % (BucketsNum ^ i) = 0
           THEN /\ tick' = [tick EXCEPT !.popped = TRUE, !.tmp = cmWheels[i][0]]
                /\ cmWheels' = [cmWheels EXCEPT ![i] =
                      [b \in Slots |-> IF b = BucketsNum - 1 THEN {} ELSE @[b + 1]]]
           ELSE tick' = [tick EXCEPT !.popped = TRUE] /\ UNCHANGED cmWheels
        /\ UNCHANGED <<cmTicks, map, user, deadline>>

\* One CallbackEntry of the bucket that a higher wheel dropped: it puts what it
\* holds into its bucket of the wheel below.
HandDown(it) ==
    /\ it \in tick.tmp /\ tick.call = NoKey
    /\ it.hops # <<>>
    /\ LET hop == Head(it.hops)
       IN  cmWheels' = [cmWheels EXCEPT ![hop[1]][hop[2]] =
                            @ \cup {[it EXCEPT !.hops = Tail(@)]}]
    /\ tick' = [tick EXCEPT !.tmp = @ \ {it}]
    /\ UNCHANGED <<cmTicks, map, user, deadline>>

\* One entry of the dropped bucket.  When nothing else holds it, the weak
\* pointers to it expire and its callback starts.
DropEntry(it) ==
    LET tmp == tick.tmp \ {it}
        held == InBuckets(cmWheels) \cup {x.entry : x \in tmp} \cup {user.entry}
        of   == {k \in Keys : map[k].entry = it.entry}
    IN  /\ it \in tick.tmp /\ tick.call = NoKey
        /\ it.hops = <<>>
        /\ IF it.entry \in held
           THEN tick' = [tick EXCEPT !.tmp = tmp] /\ UNCHANGED map
           ELSE \E k \in IF of = {} THEN Keys ELSE of :
                  /\ tick' = [tick EXCEPT !.tmp = tmp, !.call = k]
                  /\ map' = IF of = {} THEN map ELSE [map EXCEPT ![k].entry = 0]
        /\ UNCHANGED <<cmTicks, cmWheels, user, deadline>>

\* A plausible bug: any entry of the key erases the value.
MutExpires(v) == v.timeout > 0

\* What the callback asks under mtx_: the value has a timeout, and no access
\* has given it a new entry meanwhile.
Expires(v) == v.timeout > 0 /\ v.entry = 0

Callback ==
    /\ tick.call # NoKey
    /\ user = NoUser
    /\ map' = IF map[tick.call] # Absent /\ Expires(map[tick.call])
              THEN [map EXCEPT ![tick.call] = Absent] ELSE map
    /\ tick' = [tick EXCEPT !.call = NoKey]
    /\ UNCHANGED <<cmTicks, cmWheels, user, deadline>>

TickNext ==
    /\ tick.popped /\ tick.tmp = {} /\ tick.call = NoKey
    /\ tick' = [tick EXCEPT !.wheel = IF @ = WheelsNum - 1 THEN -1 ELSE @ + 1,
                            !.popped = FALSE]
    /\ UNCHANGED <<cmTicks, cmWheels, map, user, deadline>>

CMNext ==
    \/ \E k \in Keys : Find(k) \/ Erase(k) \/ \E d \in 0..MaxDelay : Insert(k, d)
    \/ InsertEntry \/ Release
    \/ TickBegin \/ TickPop \/ Callback \/ TickNext
    \/ \E it \in tick.tmp : HandDown(it) \/ DropEntry(it)

CMSpec == CMInit /\ [][CMNext]_cmVars

-----------------------------------------------------------------------------
CMTypeOK ==
    /\ cmTicks \in 0..MaxTicks
    /\ \A k \in Keys : map[k] \in [timeout : -1..MaxDelay, entry : 0..MaxEntries]
    /\ tick.wheel \in -1..(WheelsNum - 1) /\ tick.call \in Keys \cup {NoKey}
    /\ user.pc \in {"idle", "insert", "release", "stuck"}

\* A tick erases a value only when its timeout has passed since every access that
\* found it or put it there, whatever ticks came between the steps of the access
\* (the check of weakEntryPtr_ in the callback of eraseAfter).  There is one
\* exception, a turn of a higher wheel: ticksCounter_ is incremented outside
\* bucketMutex_, and an entry put into wheel i > 0 between that and the turn of
\* the wheel goes BucketsNum^i ticks early (Turn).
KeptStep ==
  \A k \in Keys : tick.call = k /\ map[k] # Absent /\ map'[k] = Absent /\ user = user'
      /\ tick'.call = NoKey
    => cmTicks >= deadline[k]

\* A value is kept since its last access: so in every step.
KeptSinceAccess == [][KeptStep]_cmVars

\* No value with a timeout outlives it by more than the tick that is counted
\* extra, reckoned from when its last access got into the wheels: handing entries
\* down never loses one.
ExpiresInTime ==
    \A k \in Keys : map[k].timeout > 0 /\ user = NoUser /\ tick = NoTick
                      => cmTicks < deadline[k]

\* An access destroys the last pointer to an entry while it holds mtx_, which the
\* entry's callback would wait for (end of eraseAfter), only if it was held up
\* after insertEntry until the value it had just prolonged was due: nothing in
\* the code keeps it from that.
StuckOnlyWhenDue == user.pc = "stuck" => cmTicks >= user.due
=============================================================================
