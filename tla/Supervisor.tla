----------------------------- MODULE Supervisor -----------------------------
(***************************************************************************)
(* dr_serve(workers > 1): the R session writes the app to an rds file,     *)
(* spawns Rscript workers that read it and serve on the same port, and     *)
(* only remembers them; dr_stop() terminates the ones it remembers.        *)
(***************************************************************************)
EXTENDS Naturals, FiniteSets, TLAPS

CONSTANTS Workers,    \* process ids, numbers given out in order
          PerServe,   \* the workers argument
          MaxServes   \* bound: dr_serve() calls

VARIABLES
    worker,    \* none / starting (rds not read yet) / serving / dead
    signal,    \* the strongest signal sent: none / term / kill
    gen,       \* the dr_serve() call that spawned it
    tracked,   \* .drogonR_state$worker_procs
    trackedRds,\* .drogonR_state$worker_rds, 0 for NULL
    files,     \* rds files on disk, named by their dr_serve() call
    serves,    \* number of dr_serve() calls so far
    phase,     \* main: idle / spawn / term / wait / kill / clean
    procs      \* the local list procs of the function running, or {}

svVars == <<worker, signal, gen, tracked, trackedRds, files, serves, phase, procs>>

Alive(p) == worker[p] \in {"starting", "serving"}

SVInit ==
    /\ worker = [p \in Workers |-> "none"]
    /\ signal = [p \in Workers |-> "none"]
    /\ gen = [p \in Workers |-> 0]
    /\ tracked = {} /\ trackedRds = 0 /\ files = {} /\ serves = 0
    /\ phase = "idle" /\ procs = {}
-----------------------------------------------------------------------------
(* The R session.                                                          *)

\* dr_serve() saves the app.  No server runs in this process, so nothing keeps
\* it from being called while workers are tracked.
Serve ==
    /\ phase = "idle"
    /\ Cardinality({p \in Workers : worker[p] = "none"}) >= PerServe   \* bound
    /\ serves < MaxServes
    /\ serves' = serves + 1
    /\ files' = files \union {serves + 1}
    /\ phase' = "spawn" /\ procs' = {}
    /\ UNCHANGED <<worker, signal, gen, tracked, trackedRds>>

Spawn(p) ==
    /\ phase = "spawn" /\ Cardinality(procs) < PerServe
    /\ worker[p] = "none" /\ \A q \in Workers : q < p => worker[q] # "none"
    /\ worker' = [worker EXCEPT ![p] = "starting"]
    /\ gen' = [gen EXCEPT ![p] = serves]
    /\ procs' = procs \union {p}
    /\ UNCHANGED <<signal, tracked, trackedRds, files, serves, phase>>

\* process$new() raises: dr_serve() ends, and what it spawned is forgotten.
SpawnFails ==
    /\ phase = "spawn" /\ Cardinality(procs) < PerServe
    /\ phase' = "idle" /\ procs' = {}
    /\ UNCHANGED <<worker, signal, gen, tracked, trackedRds, files, serves>>

Track ==
    /\ phase = "spawn" /\ Cardinality(procs) = PerServe
    /\ tracked' = procs /\ trackedRds' = serves
    /\ phase' = "idle" /\ procs' = {}
    /\ UNCHANGED <<worker, signal, gen, files, serves>>

\* A plausible bug: the app file is removed before the workers are stopped.
MutStop ==
    /\ phase = "idle"
    /\ procs' = tracked
    /\ files' = files \ {trackedRds}
    /\ phase' = IF tracked = {} THEN "clean" ELSE "term"
    /\ UNCHANGED <<worker, signal, gen, tracked, trackedRds, serves>>

\* dr_stop(); the in-process server and its drain rounds are in Dispatcher.
Stop ==
    /\ phase = "idle"
    /\ procs' = tracked
    /\ phase' = IF tracked = {} THEN "clean" ELSE "term"
    /\ UNCHANGED <<worker, signal, gen, tracked, trackedRds, files, serves>>

Term(p) ==
    /\ phase = "term" /\ p \in procs /\ signal[p] = "none" /\ Alive(p)
    /\ signal' = [signal EXCEPT ![p] = "term"]
    /\ UNCHANGED <<worker, gen, tracked, trackedRds, files, serves, phase, procs>>

Signalled == phase = "term" /\ \A p \in procs : Alive(p) => signal[p] # "none"

Wait ==
    /\ Signalled
    /\ phase' = "wait"
    /\ UNCHANGED <<worker, signal, gen, tracked, trackedRds, files, serves, procs>>

\* A plausible bug: no deadline.
MutWaited ==
    /\ phase = "wait"
    /\ \A p \in procs : ~Alive(p)
    /\ phase' = "kill"
    /\ UNCHANGED <<worker, signal, gen, tracked, trackedRds, files, serves, procs>>

\* All workers have exited, or the 2 s are over: any moment may be the deadline.
Waited ==
    /\ phase = "wait"
    /\ phase' = "kill"
    /\ UNCHANGED <<worker, signal, gen, tracked, trackedRds, files, serves, procs>>

\* A plausible bug: survivors are left alone.
MutKill ==
    /\ phase = "kill"
    /\ phase' = "clean"
    /\ UNCHANGED <<worker, signal, gen, tracked, trackedRds, files, serves, procs>>

Kill ==
    /\ phase = "kill"
    /\ signal' = [p \in Workers |-> IF p \in procs /\ Alive(p) THEN "kill" ELSE signal[p]]
    /\ phase' = "clean"
    /\ UNCHANGED <<worker, gen, tracked, trackedRds, files, serves, procs>>

\* on.exit() of .dr_kill_workers()
Clean ==
    /\ phase = "clean"
    /\ tracked' = {} /\ trackedRds' = 0
    /\ files' = files \ {trackedRds}
    /\ phase' = "idle" /\ procs' = {}
    /\ UNCHANGED <<worker, signal, gen, serves>>

\* A plausible bug: such a process is only asked to terminate.
MutCollect(p) ==
    /\ Alive(p) /\ p \notin tracked \union procs
    /\ signal[p] = "none"
    /\ signal' = [signal EXCEPT ![p] = "term"]
    /\ UNCHANGED <<worker, gen, tracked, trackedRds, files, serves, phase, procs>>

\* processx's finalizer: a process object R can no longer reach is killed when
\* it is garbage-collected.
Collect(p) ==
    /\ Alive(p) /\ p \notin tracked \union procs
    /\ signal[p] # "kill"
    /\ signal' = [signal EXCEPT ![p] = "kill"]
    /\ UNCHANGED <<worker, gen, tracked, trackedRds, files, serves, phase, procs>>
-----------------------------------------------------------------------------
(* worker.R                                                                *)

\* readRDS() fails when the file is gone.
ReadRds(p) ==
    /\ worker[p] = "starting"
    /\ worker' = [worker EXCEPT ![p] = IF gen[p] \in files THEN "serving" ELSE "dead"]
    /\ UNCHANGED <<signal, gen, tracked, trackedRds, files, serves, phase, procs>>

\* on_worker_start raises, server_start raises, the process crashes, or it
\* obeys a SIGTERM, which R code may also hold up for ever.
Die(p) ==
    /\ Alive(p)
    /\ worker' = [worker EXCEPT ![p] = "dead"]
    /\ UNCHANGED <<signal, gen, tracked, trackedRds, files, serves, phase, procs>>

Killed(p) == signal[p] = "kill" /\ Die(p)

MainStep == Track \/ Wait \/ Waited \/ Kill \/ Clean
            \/ \E p \in Workers : Spawn(p) \/ Term(p)

SVNext == MainStep \/ Serve \/ SpawnFails \/ Stop
          \/ \E p \in Workers : Collect(p) \/ ReadRds(p) \/ Die(p)

\* R calls run to their end; SIGKILL is not refused; R collects its garbage.
SVFairness == /\ WF_svVars(MainStep)
              /\ WF_svVars(\E p \in Workers : Killed(p))
              /\ WF_svVars(\E p \in Workers : Collect(p))

SVSpec == SVInit /\ [][SVNext]_svVars /\ SVFairness
-----------------------------------------------------------------------------
SVTypeOK ==
    /\ worker \in [Workers -> {"none", "starting", "serving", "dead"}]
    /\ signal \in [Workers -> {"none", "term", "kill"}]
    /\ tracked \subseteq Workers /\ procs \subseteq Workers
    /\ trackedRds \in 0 .. serves /\ files \subseteq 1 .. serves
    /\ phase \in {"idle", "spawn", "term", "wait", "kill", "clean"}

\* A worker that nobody has told to stop finds the app file when it gets to read
\* it, also when dr_stop() or another dr_serve() comes while it starts.
RdsThere ==
    \A p \in Workers : worker[p] = "starting" /\ signal[p] = "none" => gen[p] \in files

\* dr_stop() returns although a worker may ignore SIGTERM.
StopReturns == (phase = "term") ~> (phase = "idle")

\* Workers that the session has lost track of, because a later one could not be
\* spawned or dr_serve() was called again, do not serve for ever: dr_stop() does
\* not know of them, the finalizer of their process objects ends them all.
OrphansEnd == []<>(\A p \in Workers : Alive(p) => p \in tracked \union procs)

\* When dr_stop() is about to forget its workers, each has exited or is being
\* killed: none goes on serving the port unknown to the session.
StopLeavesNone ==
    phase = "clean" => \A p \in procs : Alive(p) => signal[p] = "kill"
-----------------------------------------------------------------------------
(* Proofs, for any set of workers and any number of dr_serve() calls.      *)

\* Files are named by the call that wrote them; the workers of the call that is
\* remembered are the ones remembered; of the call under way, the local list; and
\* dr_stop() works on the list it took.
SupInv ==
    /\ SVTypeOK /\ serves \in Nat /\ gen \in [Workers -> 0 .. serves]
    /\ RdsThere /\ StopLeavesNone
    /\ \A p \in Workers : worker[p] # "none" /\ gen[p] = trackedRds => p \in tracked \/ trackedRds = 0
    /\ phase = "spawn" => /\ serves \in files /\ trackedRds # serves
                          /\ \A p \in Workers : worker[p] # "none" /\ gen[p] = serves => p \in procs
    /\ phase \in {"term", "wait", "kill", "clean"} => procs = tracked

LEMMA SupInit == SVInit => SupInv
BY DEF SVInit, SupInv, SVTypeOK, RdsThere, StopLeavesNone, Alive

LEMMA ServeStep == ASSUME SupInv, Serve PROVE SupInv'
<1>1. /\ serves' = serves + 1 /\ files' = files \union {serves + 1} /\ phase' = "spawn" /\ procs' = {}
      /\ UNCHANGED <<worker, signal, gen, tracked, trackedRds>>
  BY DEF Serve
<1>2. serves \in Nat /\ gen \in [Workers -> 0 .. serves] /\ trackedRds \in 0 .. serves /\ files \subseteq 1 .. serves
  BY Zenon DEF SupInv, SVTypeOK
<1>3. /\ serves' \in Nat /\ gen' \in [Workers -> 0 .. serves'] /\ trackedRds' \in 0 .. serves'
      /\ files' \subseteq 1 .. serves' /\ trackedRds' # serves' /\ serves' \in files'
      /\ \A p \in Workers : gen'[p] # serves'
  BY <1>1, <1>2
<1>4. SVTypeOK'
  BY <1>1, <1>3 DEF SupInv, SVTypeOK
<1>5. RdsThere' /\ StopLeavesNone'
  BY <1>1 DEF SupInv, RdsThere, StopLeavesNone, Alive
<1>6. phase' \notin {"term", "wait", "kill", "clean"}
  BY <1>1
<1>7. \A p \in Workers : worker'[p] # "none" /\ gen'[p] = trackedRds' => p \in tracked' \/ trackedRds' = 0
  BY Zenon, <1>1 DEF SupInv
<1> QED
  BY Zenon, <1>3, <1>4, <1>5, <1>6, <1>7 DEF SupInv

LEMMA SpawnStep == ASSUME SupInv, NEW p \in Workers, Spawn(p) PROVE SupInv'
<1>1. /\ phase = "spawn" /\ worker' = [worker EXCEPT ![p] = "starting"]
      /\ gen' = [gen EXCEPT ![p] = serves] /\ procs' = procs \union {p}
      /\ UNCHANGED <<signal, tracked, trackedRds, files, serves, phase>>
  BY DEF Spawn
<1>2. /\ serves \in Nat /\ gen \in [Workers -> 0 .. serves] /\ serves \in files /\ trackedRds # serves
      /\ worker \in [Workers -> {"none", "starting", "serving", "dead"}]
  BY Zenon, <1>1 DEF SupInv, SVTypeOK
<1>3. gen' \in [Workers -> 0 .. serves'] /\ worker' \in [Workers -> {"none", "starting", "serving", "dead"}]
      /\ serves' \in Nat /\ gen'[p] = serves /\ serves \in files'
      /\ \A q \in Workers : q # p => worker'[q] = worker[q] /\ gen'[q] = gen[q]
  BY <1>1, <1>2
<1>4. SVTypeOK'
  BY <1>1, <1>3 DEF SupInv, SVTypeOK
<1>5. RdsThere'
  BY Zenon, <1>1, <1>3 DEF SupInv, RdsThere
<1>6. StopLeavesNone' /\ phase' \notin {"term", "wait", "kill", "clean"}
  BY <1>1 DEF StopLeavesNone
<1>7. \A q \in Workers : worker'[q] # "none" /\ gen'[q] = trackedRds' => q \in tracked' \/ trackedRds' = 0
  BY Zenon, <1>1, <1>2, <1>3 DEF SupInv
<1>8. \A q \in Workers : worker'[q] # "none" /\ gen'[q] = serves' => q \in procs'
  BY Zenon, <1>1, <1>3 DEF SupInv
<1>9. serves' \in files' /\ trackedRds' # serves'
  BY Zenon, <1>1, <1>2
<1> QED
  BY Zenon, <1>3, <1>4, <1>5, <1>6, <1>7, <1>8, <1>9 DEF SupInv

\* The phases of dr_serve() and dr_stop(), which leave workers and files alone.
LEMMA PhaseStep ==
  ASSUME SupInv, SpawnFails \/ Track \/ Stop \/ Wait \/ Waited
  PROVE  SupInv'
<1>1. CASE SpawnFails
  BY <1>1 DEF SpawnFails, SupInv, SVTypeOK, RdsThere, StopLeavesNone
<1>2. CASE Track
  <2>1. /\ phase = "spawn" /\ tracked' = procs /\ trackedRds' = serves /\ phase' = "idle" /\ procs' = {}
        /\ UNCHANGED <<worker, signal, gen, files, serves>>
    BY <1>2 DEF Track
  <2> QED
    BY <2>1 DEF SupInv, SVTypeOK, RdsThere, StopLeavesNone
<1>3. CASE Stop
  BY <1>3 DEF Stop, SupInv, SVTypeOK, RdsThere, StopLeavesNone
<1>4. CASE Wait
  BY <1>4 DEF Wait, Signalled, SupInv, SVTypeOK, RdsThere, StopLeavesNone
<1>5. CASE Waited
  BY <1>5 DEF Waited, SupInv, SVTypeOK, RdsThere, StopLeavesNone
<1> QED
  BY <1>1, <1>2, <1>3, <1>4, <1>5

\* Signals only grow, whoever sends them.
LEMMA SignalStep ==
  ASSUME SupInv, signal' \in [Workers -> {"none", "term", "kill"}],
         \A p \in Workers : (signal'[p] = "none" => signal[p] = "none")
                            /\ (signal[p] = "kill" => signal'[p] = "kill"),
         UNCHANGED <<worker, gen, tracked, trackedRds, files, serves, procs>>,
         phase' = phase \/ (phase = "kill" /\ phase' = "clean"
                            /\ \A p \in procs : Alive(p) => signal'[p] = "kill")
  PROVE  SupInv'
<1>1. SVTypeOK' /\ serves' \in Nat /\ gen' \in [Workers -> 0 .. serves']
  BY DEF SupInv, SVTypeOK
<1>2. RdsThere'
  BY Zenon DEF SupInv, RdsThere
<1>3. StopLeavesNone'
  BY DEF SupInv, SVTypeOK, StopLeavesNone, Alive
<1>4. \A p \in Workers : worker'[p] # "none" /\ gen'[p] = trackedRds' => p \in tracked' \/ trackedRds' = 0
  BY Zenon DEF SupInv
<1>5. /\ phase' = "spawn" => phase = "spawn"
      /\ phase' \in {"term", "wait", "kill", "clean"} => phase \in {"term", "wait", "kill", "clean"}
  OBVIOUS
<1> QED
  BY Zenon, <1>1, <1>2, <1>3, <1>4, <1>5 DEF SupInv

LEMMA SignalsStep ==
  ASSUME SupInv, Kill \/ \E p \in Workers : Term(p) \/ Collect(p)
  PROVE  SupInv'
<1>1. signal \in [Workers -> {"none", "term", "kill"}] /\ procs \subseteq Workers
  BY Zenon DEF SupInv, SVTypeOK
<1>2. /\ signal' \in [Workers -> {"none", "term", "kill"}]
      /\ \A q \in Workers : (signal'[q] = "none" => signal[q] = "none")
                            /\ (signal[q] = "kill" => signal'[q] = "kill")
  BY <1>1 DEF Term, Kill, Collect
<1>3. UNCHANGED <<worker, gen, tracked, trackedRds, files, serves, procs>>
  BY DEF Term, Kill, Collect
<1>4. phase' = phase \/ (phase = "kill" /\ phase' = "clean"
                         /\ \A q \in procs : Alive(q) => signal'[q] = "kill")
  BY <1>1 DEF Term, Kill, Collect, Alive
<1> QED
  BY Zenon, <1>2, <1>3, <1>4, SignalStep

\* The file that goes is one no worker waits for: its workers are the remembered
\* ones, and each of these has exited or is being killed.
LEMMA CleanStep == ASSUME SupInv, Clean PROVE SupInv'
<1>1. /\ phase = "clean" /\ tracked' = {} /\ trackedRds' = 0 /\ files' = files \ {trackedRds}
      /\ phase' = "idle" /\ procs' = {} /\ UNCHANGED <<worker, signal, gen, serves>>
  BY DEF Clean
<1>2. SVTypeOK' /\ serves' \in Nat /\ gen' \in [Workers -> 0 .. serves']
  BY <1>1 DEF SupInv, SVTypeOK
<1>3. RdsThere'
  <2> SUFFICES ASSUME NEW p \in Workers, worker[p] = "starting", signal[p] = "none"
               PROVE  gen[p] \in files \ {trackedRds}
    BY Zenon, <1>1 DEF RdsThere
  <2>1. gen[p] \in files /\ gen[p] # 0 /\ worker[p] # "none" /\ signal[p] # "kill" /\ Alive(p)
    BY DEF SupInv, SVTypeOK, RdsThere, Alive
  <2>2. procs = tracked /\ p \notin procs
    BY <1>1, <2>1 DEF SupInv, StopLeavesNone
  <2> QED
    BY Zenon, <2>1, <2>2 DEF SupInv
<1>4. StopLeavesNone' /\ phase' # "spawn" /\ phase' \notin {"term", "wait", "kill", "clean"}
  BY <1>1 DEF StopLeavesNone
<1> QED
  BY Zenon, <1>1, <1>2, <1>3, <1>4 DEF SupInv

\* A worker moves on: to serving, or to its end.
LEMMA WorkerStep ==
  ASSUME SupInv, NEW p \in Workers, ReadRds(p) \/ Die(p)
  PROVE  SupInv'
<1>1. /\ Alive(p) /\ worker' \in [Workers -> {"none", "starting", "serving", "dead"}]
      /\ worker'[p] \in {"serving", "dead"} /\ \A q \in Workers : q # p => worker'[q] = worker[q]
      /\ UNCHANGED <<signal, gen, tracked, trackedRds, files, serves, phase, procs>>
  BY DEF ReadRds, Die, Alive, SupInv, SVTypeOK
<1>2. /\ \A q \in Workers : worker'[q] # "none" => worker[q] # "none"
      /\ \A q \in Workers : worker'[q] = "starting" => worker[q] = "starting"
      /\ \A q \in Workers : worker'[q] \in {"starting", "serving"} => Alive(q)
  BY <1>1 DEF Alive
<1>3. SVTypeOK' /\ serves' \in Nat /\ gen' \in [Workers -> 0 .. serves']
  BY <1>1 DEF SupInv, SVTypeOK
<1>4. RdsThere'
  BY Zenon, <1>1, <1>2 DEF SupInv, RdsThere
<1>5. StopLeavesNone'
  <2>1. procs \subseteq Workers
    BY Zenon DEF SupInv, SVTypeOK
  <2> QED
    BY Zenon, <1>1, <1>2, <2>1 DEF SupInv, StopLeavesNone, Alive
<1>6. \A q \in Workers : worker'[q] # "none" /\ gen'[q] = trackedRds' => q \in tracked' \/ trackedRds' = 0
  BY Zenon, <1>1, <1>2 DEF SupInv
<1>7. phase' = "spawn" => /\ serves' \in files' /\ trackedRds' # serves'
                          /\ \A q \in Workers : worker'[q] # "none" /\ gen'[q] = serves' => q \in procs'
  BY Zenon, <1>1, <1>2 DEF SupInv
<1>8. phase' \in {"term", "wait", "kill", "clean"} => procs' = tracked'
  BY Zenon, <1>1 DEF SupInv
<1> QED
  BY Zenon, <1>3, <1>4, <1>5, <1>6, <1>7, <1>8 DEF SupInv

LEMMA SupStep == ASSUME SupInv, [SVNext]_svVars PROVE SupInv'
<1>1. CASE UNCHANGED svVars
  BY Zenon, <1>1 DEF svVars, SupInv, SVTypeOK, RdsThere, StopLeavesNone, Alive
<1>2. CASE Serve \/ SpawnFails \/ Stop \/ Track \/ Wait \/ Waited \/ Clean
  BY Zenon, <1>2, ServeStep, PhaseStep, CleanStep
<1>3. CASE Kill \/ \E p \in Workers : Term(p) \/ Collect(p)
  BY Zenon, <1>3, SignalsStep
<1>4. ASSUME NEW p \in Workers, Spawn(p) \/ ReadRds(p) \/ Die(p) PROVE SupInv'
  BY Zenon, <1>4, SpawnStep, WorkerStep
<1> QED
  BY Zenon, <1>1, <1>2, <1>3, <1>4 DEF SVNext, MainStep

LEMMA SupInvariant == SVSpec => []SupInv
BY SupInit, SupStep, PTL DEF SVSpec

\* A worker that nobody has told to stop finds the app file dr_serve() wrote for
\* it, however calls of dr_serve() and dr_stop() follow each other while it starts.
THEOREM WorkersFindTheirApp == SVSpec => []RdsThere
<1>1. SupInv => RdsThere
  BY DEF SupInv
<1> QED
  BY <1>1, SupInvariant, PTL

\* .dr_kill_workers() forgets its workers when each has exited or is being killed.
THEOREM NoWorkerSurvives == SVSpec => []StopLeavesNone
<1>1. SupInv => StopLeavesNone
  BY DEF SupInv
<1> QED
  BY <1>1, SupInvariant, PTL
=============================================================================
