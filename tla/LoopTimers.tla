----------------------------- MODULE LoopTimers -----------------------------
(***************************************************************************)
(* Trantor's timers: the heap of timers by expiry, the set of identifiers  *)
(* that are still valid, and the one timerfd that is armed for the         *)
(* earliest.  Timers are added and invalidated by other threads, through   *)
(* the loop's queue, and by the timers' own callbacks.  Time is counted in *)
(* units of the 100 microseconds that resetTimerfd() waits at least.       *)
(***************************************************************************)
EXTENDS Integers, FiniteSets, Sequences, FiniteSetsExt

CONSTANTS MaxTimers,    \* timers ever created
          MaxTime,      \* bound of the clock
          MaxQueued     \* bound of the functions waiting in the loop's queue

VARIABLES
  now,
  created,      \* Timer::timersCreated_
  toLoop,       \* functions queued to the loop: <<"add", timer>>, <<"erase", id>>
  heap,         \* timers_: records [id, when, interval]
  ids,          \* timerIdSet_
  armed,        \* when the timerfd becomes readable; 0: disarmed
  expired,      \* handleRead(): what getExpired() returned
  toCall,       \* ... of it, what the loop over it has not reached
  readAt,       \* ... and the `now' it took; 0: not in handleRead()
  runs,         \* how often each timer's callback has run
  dead          \* ids that invalidateTimer() took out of timerIdSet_

tqVars == <<now, created, toLoop, heap, ids, armed, expired, toCall, readAt,
            runs, dead>>

Ids == 1 .. MaxTimers
Timers == [id : Ids, when : 1 .. 2 * MaxTime, interval : {0, 1}]

TQTypeOK ==
  /\ now \in 1 .. MaxTime /\ created \in 0 .. MaxTimers
  /\ heap \subseteq Timers /\ expired \subseteq Timers /\ toCall \subseteq expired
  /\ ids \subseteq Ids /\ dead \subseteq Ids \ ids
  /\ armed \in 0 .. 2 * MaxTime /\ readAt \in 0 .. MaxTime

TQInit ==
  /\ now = 1 /\ created = 0 /\ toLoop = <<>> /\ heap = {} /\ ids = {}
  /\ armed = 0 /\ expired = {} /\ toCall = {} /\ readAt = 0
  /\ runs = [i \in Ids |-> 0] /\ dead = {}

Earliest(h) == Min({t.when : t \in h})

\* resetTimerfd(): howMuchTimeFromNow() is never less than one unit.
ResetTimerfd(when) == Max({when, now + 1})

\* A plausible bug: the timerfd is armed only for the first timer.
MutInsert(t) == heap = {}

\* insert(): did the earliest expiry change?
Insert(t) == heap = {} \/ t.when < Earliest(heap)

AddTimerInLoop(t) ==
  /\ ids' = ids \cup {t.id}
  /\ heap' = heap \cup {t}
  /\ armed' = IF Insert(t) THEN ResetTimerfd(t.when) ELSE armed

Erase(id) == /\ ids' = ids \ {id}
             /\ dead' = dead \cup ({id} \cap ids)

NewTimer(d, interval) ==
  [id |-> created + 1, when |-> now + d, interval |-> interval]

----------------------------------------------------------------------------
Tick == /\ now < MaxTime
        /\ now' = now + 1
        /\ UNCHANGED <<created, toLoop, heap, ids, armed, expired, toCall,
                       readAt, runs, dead>>

\* addTimer() and invalidateTimer() by another thread: queued to the loop.
AddTimer ==
  /\ created < MaxTimers /\ Len(toLoop) < MaxQueued
  /\ created' = created + 1
  /\ \E d \in 0 .. 2, interval \in {0, 1} :
       toLoop' = Append(toLoop, <<"add", NewTimer(d, interval)>>)
  /\ UNCHANGED <<now, heap, ids, armed, expired, toCall, readAt, runs, dead>>

InvalidateTimer ==
  /\ Len(toLoop) < MaxQueued
  /\ \E i \in 1 .. created : toLoop' = Append(toLoop, <<"erase", i>>)
  /\ UNCHANGED <<now, created, heap, ids, armed, expired, toCall, readAt, runs,
                 dead>>

\* The loop runs the functions queued to it, between two events.
RunQueued ==
  /\ readAt = 0 /\ toLoop # <<>>
  /\ toLoop' = Tail(toLoop)
  /\ LET op == Head(toLoop)
     IN \/ op[1] = "add" /\ AddTimerInLoop(op[2]) /\ UNCHANGED dead
        \/ op[1] = "erase" /\ Erase(op[2]) /\ UNCHANGED <<heap, armed>>
  /\ UNCHANGED <<now, created, expired, toCall, readAt, runs>>

\* handleRead(): the timerfd is read, getExpired() takes what is strictly past.
HandleRead ==
  /\ readAt = 0 /\ armed # 0 /\ armed <= now
  /\ LET past == {t \in heap : t.when < now}
     IN /\ expired' = past /\ toCall' = past
        /\ heap' = heap \ past
  /\ armed' = 0 /\ readAt' = now
  /\ UNCHANGED <<now, created, toLoop, ids, runs, dead>>

\* A plausible bug: what getExpired() returned is run without asking
\* timerIdSet_ again.
MutValid(t) == TRUE

\* The validity is asked right before each call.
Valid(t) == t.id \in ids

\* One turn of the loop over the expired timers, in the order of their expiry.
\* The callback may add a timer or invalidate one, itself included; both take
\* effect at once, for it runs in the loop's thread.
CallTimer ==
  /\ readAt # 0
  /\ \E t \in toCall :
       /\ t.when = Earliest(toCall)
       /\ toCall' = toCall \ {t}
       /\ IF ~Valid(t)
          THEN UNCHANGED <<created, heap, ids, armed, runs, dead>>
          ELSE /\ runs' = [runs EXCEPT ![t.id] = @ + 1]
               /\ \/ UNCHANGED <<created, heap, ids, armed, dead>>
                  \/ /\ created < MaxTimers
                     /\ created' = created + 1
                     /\ \E d \in 0 .. 2 : AddTimerInLoop(NewTimer(d, 0))
                     /\ UNCHANGED dead
                  \/ /\ \E i \in 1 .. created : Erase(i)
                     /\ UNCHANGED <<created, heap, armed>>
  /\ UNCHANGED <<now, toLoop, expired, readAt>>

\* Timer::restart(): the next expiry counts from the `now' of handleRead().
Restart(t) == [t EXCEPT !.when = readAt + t.interval]

\* A plausible bug: the ids of timers that have run are left in timerIdSet_.
MutFinished(valid) == {}

\* The timers that have run their only time.
Finished(valid) == {t.id : t \in {u \in valid : u.interval = 0}}

\* reset(expired, now): repeating timers go back into the heap, the others'
\* ids are erased, and the timerfd is armed for what is left.
Reset ==
  /\ readAt # 0 /\ toCall = {}
  /\ LET valid == {t \in expired : t.id \in ids}
         again == {Restart(t) : t \in {u \in valid : u.interval > 0}}
     IN /\ heap' = heap \cup again
        /\ ids' = ids \ Finished(valid)
        /\ armed' = IF heap \cup again = {} THEN armed
                    ELSE ResetTimerfd(Earliest(heap \cup again))
  /\ expired' = {} /\ readAt' = 0
  /\ UNCHANGED <<now, created, toLoop, toCall, runs, dead>>

TQNext == \/ Tick \/ AddTimer \/ InvalidateTimer \/ RunQueued
          \/ HandleRead \/ CallTimer \/ Reset

TQSpec == TQInit /\ [][TQNext]_tqVars

----------------------------------------------------------------------------
\* No timer sleeps through its time: outside handleRead(), the timerfd is
\* armed for the earliest timer of the heap, or for the next unit when that
\* timer is past, although timers come and go while callbacks run.
TimerArmed ==
  readAt = 0 /\ heap # {} => armed # 0 /\ armed <= Max({Earliest(heap), now + 1})

\* Once invalidateTimer() has taken effect in the loop a timer's callback is
\* never called, even when another callback of the same batch of expired timers
\* invalidates it.
StaysQuiet == \A i \in dead : runs'[i] = runs[i]

\* A dead timer stays quiet: so in every step.
DeadTimersStayQuiet == [][StaysQuiet]_tqVars

\* A timer is in the heap at most once, and a timer that is valid is in the
\* heap or in the batch being called: it cannot be valid and forgotten.
ValidKept ==
  /\ \A t, u \in heap : t.id = u.id => t = u
  /\ ids \subseteq {t.id : t \in heap \cup expired}

-----------------------------------------------------------------------------
(***************************************************************************)
(* Trantor's timing wheels, which close idle connections: an entry that is *)
(* inserted with a delay is held by a bucket and is destroyed, which fires *)
(* it, when no bucket holds it any more.  A long delay waits in a higher   *)
(* wheel and is handed down when its bucket there is dropped.              *)
(***************************************************************************)

CONSTANTS Entries,      \* kick-off entries (one per connection)
          BucketsNum,   \* bucketsNumPerWheel_
          WheelsNum,    \* wheelsNum_
          MaxDelay,     \* longest delay, in ticks
          MaxTicks      \* bound of ticksCounter_

VARIABLES
  ticks,        \* ticksCounter_
  wheels,       \* wheels_[i][b]: sets of held items
  due,          \* for each entry, the latest time its insertions ask for
  fired         \* entries destroyed

twVars == <<ticks, wheels, due, fired>>

Wheels == 0 .. WheelsNum - 1
Slots == 0 .. BucketsNum - 1

\* An item is an entry with the buckets it is still to go through: the
\* CallbackEntry objects nest, each capturing its wheel and slot.
Held(ws) == UNION {{it.entry : it \in ws[i][b]} : i \in Wheels, b \in Slots}

TWTypeOK ==
  /\ ticks \in 0 .. MaxTicks
  /\ \A i \in Wheels, b \in Slots : \A it \in wheels[i][b] : it.entry \in Entries
  /\ fired \subseteq Entries
  /\ due \in [Entries -> 0 .. MaxTicks + MaxDelay]

TWInit ==
  /\ ticks = 0 /\ fired = {} /\ due = [e \in Entries |-> 0]
  /\ wheels = [i \in Wheels |-> [b \in Slots |-> {}]]

\* The state of insertEntryInloop() when it reaches wheel i: the delay left and
\* the counter, both in units of that wheel's buckets.
At[i \in Wheels, delay \in 1 .. MaxDelay + 2] ==
  IF i = 0 THEN [delay |-> delay, t |-> ticks]
  ELSE LET below == At[i - 1, delay]
       IN [delay |-> (below.delay + (below.t % BucketsNum) - 1) \div BucketsNum,
           t |-> below.t \div BucketsNum]

\* A plausible bug: the counter is left out when an entry is handed down.
MutSlotBelow(a) == (a.delay - 1) % BucketsNum

\* Where a CallbackEntry of this wheel puts what it holds.
SlotBelow(a) == (a.delay + (a.t % BucketsNum) - 1) % BucketsNum

\* A plausible bug: the tick that is running is counted twice.
MutInTicks(delay) == delay + 2

\* The delay in ticks, one more for the tick that is running.
InTicks(delay) == delay + 1

\* insertEntryInloop(delay, entry): the wheel and bucket it is put into, with
\* the buckets below for later (one for each wheel passed whose delay is not 0).
Place(delay) ==
  LET d == InTicks(delay)
      top == CHOOSE i \in Wheels :
               /\ At[i, d].delay <= BucketsNum
               /\ \A j \in 0 .. i - 1 : At[j, d].delay > BucketsNum
  IN [wheel |-> top, slot |-> At[top, d].delay - 1,
      hops |-> [k \in 1 .. top |-> <<top - k, SlotBelow(At[top - k, d])>>]]

\* extendLife() and sendAsyncDataInLoop() insert an entry again while it is
\* still held; a new connection inserts a new one.
InsertEntry(e, delay) ==
  /\ ticks + delay < MaxTicks /\ e \notin fired
  /\ LET p == Place(delay)
     IN wheels' = [wheels EXCEPT ![p.wheel][p.slot] =
                     @ \cup {[entry |-> e, hops |-> p.hops]}]
  /\ due' = [due EXCEPT ![e] = IF ticks + delay > @ THEN ticks + delay ELSE @]
  /\ UNCHANGED <<ticks, fired>>

\* Dropping the front bucket of a wheel: pop_front, push_back.
Rotate(w) == [b \in Slots |-> IF b = BucketsNum - 1 THEN {} ELSE w[b + 1]]

\* The destructors of the dropped items hand what they hold to the wheel below.
HandDown(ws, items) ==
  [i \in Wheels |-> [b \in Slots |->
     ws[i][b] \cup {[it EXCEPT !.hops = Tail(@)] :
                      it \in {x \in items : x.hops # <<>>
                                            /\ Head(x.hops) = <<i, b>>}}]]

\* The loop of the tick over the wheels, from the lowest; wheel i turns when
\* the counter is a multiple of BucketsNum^i.
Turned[i \in -1 .. WheelsNum - 1, t \in 0 .. MaxTicks] ==
  IF i = -1 THEN wheels
  ELSE LET ws == Turned[i - 1, t]
       IN IF t % (BucketsNum ^ i) = 0
          THEN HandDown([ws EXCEPT ![i] = Rotate(@)], ws[i][0])
          ELSE ws

\* The timer of the constructor.  An entry fires when no bucket holds it.
WheelTick ==
  /\ ticks < MaxTicks
  /\ ticks' = ticks + 1
  /\ wheels' = Turned[WheelsNum - 1, ticks + 1]
  /\ fired' = fired \cup (Held(wheels) \ Held(wheels'))
  /\ UNCHANGED due

TWNext == WheelTick \/ \E e \in Entries, d \in 1 .. MaxDelay : InsertEntry(e, d)

TWSpec == TWInit /\ [][TWNext]_twVars

----------------------------------------------------------------------------
\* No entry fires before the delays of all its insertions have passed, whatever
\* the phase of the wheels when it was inserted.
NotEarly == \A e \in fired : ticks > due[e]

\* An entry that is not inserted again fires at the tick after its delay (the
\* delay is counted from within a tick): handing it down through the wheels
\* never loses it, and never keeps it for another turn of a wheel.
OnTime ==
  \A e \in Entries : due[e] > 0 /\ ticks > due[e] => e \in fired
=============================================================================
