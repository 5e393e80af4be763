----------------------------- MODULE AppConfig ------------------------------
(***************************************************************************)
(* What an R session configures and what its server serves: the lists of   *)
(* an app, which dr_get() and its siblings fill; the tables of the C++     *)
(* side, into which dr_serve() copies them call by call; what              *)
(* server_start() hands to Drogon; and the copy of the app that worker     *)
(* processes register from.  Method and path of a route are one key.       *)
(***************************************************************************)
EXTENDS Naturals, Sequences, FiniteSets, SequencesExt, Integers

CONSTANTS Apps,       \* dr_app() objects of the session
          Keys,       \* "METHOD path" of routes, paths of WebSocket routes
          Dirs,       \* directories for static mounts
          MaxAdded,   \* bound: calls that configure an app
          MaxServes   \* bound: calls of dr_serve()

VARIABLES
    app,          \* per app: its lists, middlewares, error handler
    added,        \* calls so far; numbers the handlers
    tables,       \* g_routes, g_cppRoutes, ..., g_wsRoutes
    preserved,    \* per handler: R_PreserveObject() calls not yet released
    binders,      \* what Drogon was given, in order: [kind, key, id]
    running, everStarted,
    serves,       \* calls of dr_serve() so far
    meant,        \* the app as dr_serve() was given it, when the server runs
    workers       \* worker processes: [cfg, state, tables]

acVars == <<app, added, tables, preserved, binders, running, everStarted,
            serves, meant, workers>>

Lists == {"R", "cpp", "stream", "static", "ws", "limit"}

\* dr_app()
DrApp == [lists |-> [k \in Lists |-> <<>>], mw |-> 0, onError |-> FALSE]

NoTables == [k \in Lists |-> <<>>]

ACTypeOK ==
    /\ added \in 0 .. MaxAdded /\ serves \in 0 .. MaxServes
    /\ running \in BOOLEAN /\ everStarted \in BOOLEAN
    /\ DOMAIN tables = Lists /\ preserved \in [1 .. MaxAdded -> Nat]
    /\ \A a \in Apps : app[a].mw \in Nat /\ app[a].onError \in BOOLEAN

ACInit ==
    /\ app = [a \in Apps |-> DrApp] /\ added = 0
    /\ tables = NoTables /\ preserved = [i \in 1 .. MaxAdded |-> 0] /\ binders = <<>>
    /\ running = FALSE /\ everStarted = FALSE /\ serves = 0 /\ meant = DrApp /\ workers = <<>>
-----------------------------------------------------------------------------
(* Configuring an app.                                                     *)

\* app$<list>[[key]] <- list(...): in the place of the entry of that name, or at
\* the end.
Put(list, entry) ==
    LET at == {j \in DOMAIN list : list[j].key = entry.key}
    IN IF at = {} THEN Append(list, entry)
       ELSE [j \in DOMAIN list |-> IF j \in at THEN entry ELSE list[j]]

Configure(a, new) ==
    /\ added < MaxAdded /\ added' = added + 1
    /\ app' = [app EXCEPT ![a] = new]
    /\ UNCHANGED <<tables, preserved, binders, running, everStarted, serves,
                   meant, workers>>

\* dr_get() and the others, while a server runs or not.
AddRoute(a, k) ==
    Configure(a, [app[a] EXCEPT !.lists["R"] = Put(@, [key |-> k, id |-> added + 1])])

\* dr_get_cpp() and dr_get_cpp_stream().  The lists are looked at together for
\* the warning about an existing route, but each kind stays in its own.
AddCppRoute(a, k) ==
    Configure(a, [app[a] EXCEPT !.lists["cpp"] = Put(@, [key |-> k, id |-> added + 1])])

AddCppStreamRoute(a, k) ==
    Configure(a, [app[a] EXCEPT !.lists["stream"] = Put(@, [key |-> k, id |-> added + 1])])

\* dr_ws() or dr_ws_cpp(): one list, a native handler replaces hooks.
AddWs(a, k, native) ==
    Configure(a, [app[a] EXCEPT !.lists["ws"] =
                     Put(@, [key |-> k, id |-> added + 1, native |-> native])])

\* dr_static() and dr_rate_limit() always add.
AddStatic(a, d) ==
    Configure(a, [app[a] EXCEPT !.lists["static"] = Append(@, [dir |-> d, id |-> added + 1])])

AddRateLimit(a) ==
    Configure(a, [app[a] EXCEPT !.lists["limit"] = Append(@, [id |-> added + 1])])

Use(a) == Configure(a, [app[a] EXCEPT !.mw = @ + 1])

OnError(a) == Configure(a, [app[a] EXCEPT !.onError = ~@])
-----------------------------------------------------------------------------
(* The tables of the C++ side.                                             *)

\* A plausible bug: native routes are left over from an earlier attempt.
MutClear(t) == [NoTables EXCEPT !["ws"] = t["ws"], !["cpp"] = t["cpp"]]

\* drogonR_clear_routes(): all but the WebSocket routes, which only
\* clearAllWsSessions() forgets.
Clear(t) == [NoTables EXCEPT !["ws"] = t["ws"]]

\* A plausible bug: handlers are wrapped only when there is an error handler.
MutWrapped(a) == a.onError

\* The handler is called through the middlewares only if there is one, or an
\* error handler, at the time of dr_serve().
Wrapped(a) == a.mw > 0 \/ a.onError

\* The .Call()s of dr_serve() in their order: the rate limits at once, then list
\* by list.
Registrations(a, kinds) ==
    FlattenSeq([n \in DOMAIN kinds |->
       [j \in DOMAIN a.lists[kinds[n]] |-> [to |-> kinds[n], entry |-> a.lists[kinds[n]][j]]]])

\* The calls up to the first that fails: normalizePath(mustWork = TRUE) of a
\* directory that is missing.  Native handlers were found when they were added.
Carried(calls, missing) ==
    LET bad == {j \in DOMAIN calls : calls[j].to = "static" /\ calls[j].entry.dir \in missing}
    IN IF bad = {} THEN calls ELSE SubSeq(calls, 1, (CHOOSE j \in bad : \A i \in bad : j <= i) - 1)

Registered(t, calls) ==
    [k \in Lists |-> t[k] \o LET mine == SelectSeq(calls, LAMBDA c : c.to = k)
                             IN [j \in DOMAIN mine |-> mine[j].entry]]

\* R objects in a table: route handlers, and the hooks of a WebSocket route.
Objects(t) ==
    [j \in DOMAIN t["R"] |-> t["R"][j].id]
      \o LET hooks == SelectSeq(t["ws"], LAMBDA e : ~e.native)
         IN [j \in DOMAIN hooks |-> hooks[j].id]

Times(s, i) == Cardinality({j \in DOMAIN s : s[j] = i})

\* A plausible bug: nothing is released when the routes are cleared.
MutRelease(p, t) == p

\* R_ReleaseObject() for the routes that are cleared, R_PreserveObject() for
\* those that are registered.
Release(p, t) == [i \in DOMAIN p |-> p[i] - Times([j \in DOMAIN t["R"] |-> t["R"][j].id], i)]
Preserve(p, calls) ==
    [i \in DOMAIN p |->
        p[i] + Cardinality({j \in DOMAIN calls : /\ calls[j].to = "R" \/ (calls[j].to = "ws" /\ ~calls[j].entry.native)
                                                 /\ calls[j].entry.id = i})]

\* A plausible bug: native routes are installed before those of R.
MutInstalls(t) ==
    FlattenSeq([n \in 1 .. 3 |-> LET k == <<"cpp", "stream", "R">>[n] IN
       [j \in DOMAIN t[k] |-> [kind |-> k, key |-> t[k][j].key, id |-> t[k][j].id]]])

\* server_start(): the routes in the order of installation.
Installs(t) ==
    FlattenSeq([n \in 1 .. 3 |-> LET k == <<"R", "cpp", "stream">>[n] IN
       [j \in DOMAIN t[k] |-> [kind |-> k, key |-> t[k][j].key, id |-> t[k][j].id]]])

\* addRegexCtrlBinder(): the last one for a method and a path is called.
Bound(bs, k) ==
    LET at == {j \in DOMAIN bs : bs[j].key = k}
    IN bs[CHOOSE j \in at : \A i \in at : i <= j]
-----------------------------------------------------------------------------
\* dr_serve(workers = 1): an error stops it wherever it is, and leaves what was
\* registered before.  `hook` and `pipe` are on_worker_start and the dispatcher's
\* pipe, which may fail too.
Serve(a, hook, missing, pipe) ==
    /\ serves < MaxServes /\ serves' = serves + 1 /\ ~running
    /\ LET all == Registrations(app[a], <<"limit", "R", "static", "cpp", "stream", "ws">>)
           calls == Carried(all, missing)
           t == Registered(Clear(tables), calls)
           starts == calls = all /\ ~everStarted /\ pipe
       IN IF ~hook THEN UNCHANGED <<tables, preserved, binders, running, everStarted, meant>>
          ELSE /\ tables' = [t EXCEPT !["R"] = [j \in DOMAIN @ |->
                              [key |-> @[j].key, id |-> @[j].id, of |-> a, wrapped |-> Wrapped(app[a])]]]
               /\ preserved' = Preserve(Release(preserved, tables), calls)
               /\ IF starts THEN /\ binders' = Installs(t) /\ running' = TRUE
                                 /\ everStarted' = TRUE /\ meant' = app[a]
                  ELSE UNCHANGED <<binders, running, everStarted, meant>>
    /\ UNCHANGED <<app, added, workers>>

\* dr_stop(): the WebSocket routes go with their sessions.
Stop ==
    /\ running /\ running' = FALSE
    /\ tables' = [tables EXCEPT !["ws"] = <<>>]
    /\ preserved' = [i \in DOMAIN preserved |->
          preserved[i] - (Times(Objects(tables), i) - Times([j \in DOMAIN tables["R"] |-> tables["R"][j].id], i))]
    /\ UNCHANGED <<app, added, binders, everStarted, serves, meant, workers>>

\* dr_serve(workers > 1): the app is saved for the worker processes.
ServeWorkers(a) ==
    /\ serves < MaxServes /\ serves' = serves + 1 /\ ~running /\ workers = <<>>
    /\ workers' = <<[cfg |-> app[a], state |-> "begins", tables |-> NoTables, binders |-> <<>>]>>
    /\ UNCHANGED <<app, added, tables, preserved, binders, running, everStarted,
                   meant>>

\* worker.R, in a fresh process: the routes of R, the mounts and the unary native
\* routes, whose pointers it looks up again; the other lists are not read.
WorkerStart(w, missing) ==
    /\ workers[w].state = "begins"
    /\ LET all == Registrations(workers[w].cfg, <<"R", "static", "cpp">>)
           calls == Carried(all, missing)
           t == Registered(NoTables, calls)
       IN workers' = [workers EXCEPT ![w] =
                        IF calls = all THEN [@ EXCEPT !.state = "serves", !.tables = t, !.binders = Installs(t)]
                        ELSE [@ EXCEPT !.state = "exited"]]
    /\ UNCHANGED <<app, added, tables, preserved, binders, running, everStarted,
                   serves, meant>>

ACNext ==
    \/ \E a \in Apps :
          \/ \E k \in Keys : \/ AddRoute(a, k) \/ AddCppRoute(a, k) \/ AddCppStreamRoute(a, k)
                             \/ \E native \in BOOLEAN : AddWs(a, k, native)
          \/ \E d \in Dirs : AddStatic(a, d)
          \/ AddRateLimit(a) \/ Use(a) \/ OnError(a)
          \/ \E hook, pipe \in BOOLEAN, missing \in SUBSET Dirs : Serve(a, hook, missing, pipe)
          \/ ServeWorkers(a)
    \/ Stop
    \/ \E w \in DOMAIN workers, missing \in SUBSET Dirs : WorkerStart(w, missing)

ACSpec == ACInit /\ [][ACNext]_acVars
-----------------------------------------------------------------------------
(* Properties.                                                             *)

\* The C++ entry of a list, as R has it.
Ids(list) == [j \in DOMAIN list |-> list[j].id]

\* Whatever attempts to serve failed before, and whatever was configured since,
\* a running server has exactly the routes, mounts and limits the app had when
\* dr_serve() was given it, and its WebSocket routes after what a failed attempt
\* left in their table.  A worker has the lists that worker.R reads.
ServedAsConfigured ==
    /\ running =>
          /\ \A k \in Lists \ {"ws"} : Ids(tables[k]) = Ids(meant.lists[k])
          /\ IsSuffix(meant.lists["ws"], tables["ws"])
    /\ \A w \in DOMAIN workers : workers[w].state = "serves" =>
          \A k \in Lists : Ids(workers[w].tables[k]) =
             IF k \in {"R", "static", "cpp"} THEN Ids(workers[w].cfg.lists[k]) ELSE <<>>

\* "overwriting existing route": for every key a running server calls the handler
\* that was added last, or one of a kind that is installed later: streaming
\* native routes come before unary ones, and these before routes of R.
StrongestServes ==
    running =>
       \A k \in Keys :
          LET of(kind) == {i \in ToSet(Ids(SelectSeq(meant.lists[kind], LAMBDA e : e.key = k))) : TRUE}
              best == IF of("stream") # {} THEN of("stream")
                      ELSE IF of("cpp") # {} THEN of("cpp") ELSE of("R")
          IN best # {} => Bound(binders, k).id \in best

\* Every R handler or hook that a table holds is protected from the garbage
\* collector as often as it is held, and none that is not held is kept.
HandlersHeld == \A i \in 1 .. MaxAdded : preserved[i] = Times(Objects(tables), i)

\* A request to a running server passes at least the middlewares the app had
\* when dr_serve() was given it, though they are read from the app at each call.
MiddlewaresApply ==
    running => \A j \in DOMAIN tables["R"] :
       LET r == tables["R"][j] IN (IF r.wrapped THEN app[r.of].mw ELSE 0) >= meant.mw

-----------------------------------------------------------------------------
(* R/plumber.R: pr_run checks a plumber router, turns its endpoints into    *)
(* routes, and each request's handler is called with arguments found by     *)
(* name in the path, the query and the JSON body.  R's rule that assigning  *)
(* NULL to a list element removes it is part of the model.                  *)

CONSTANTS Names,       \* parameter names handlers use besides req and res
          Verbs,       \* verbs of endpoints, supported or not
          MaxFormals,  \* bound: parameters of a handler
          MaxEndpoints \* bound: endpoints of a router

VARIABLES router,      \* [filters, mounts, hooks: BOOLEAN, endpoints]: the user's
          ppc,         \* what pr_run does: "check", "translate", "serving", "stopped"
          done,        \* endpoints translated so far
          routes,      \* the routes of the app pr_run builds: <<verb, endpoint>>
          served,      \* the routes the server was started with
          formals,     \* the parameters of the handler called: [name, default]
          sources,     \* where a request has values: name -> set of sources
          args         \* the arguments of the call, as [name, from]

plVars == <<router, ppc, done, routes, served, formals, sources, args>>

AllNames == Names \union {"req", "res"}
Supported == {"GET", "POST", "PUT", "DELETE"}
NoArgs == <<>>

PLInit ==
    /\ router = [filters |-> FALSE, mounts |-> FALSE, hooks |-> FALSE, endpoints |-> <<>>]
    /\ ppc = "idle" /\ done = 0 /\ routes = {} /\ served = {}
    /\ formals = <<>> /\ sources = [n \in AllNames |-> {}] /\ args = NoArgs

\* The user builds a router.
Build ==
    /\ ppc = "idle"
    /\ \/ \E vs \in (SUBSET Verbs) \ {{}} :
            /\ Len(router.endpoints) < MaxEndpoints
            /\ router' = [router EXCEPT !.endpoints = Append(@, vs)]
       \/ \E f \in {"filters", "mounts", "hooks"} : router' = [router EXCEPT ![f] = TRUE]
    /\ UNCHANGED <<ppc, done, routes, served, formals, sources, args>>

\* A plausible bug: hooks are not looked for.
MutRejected(r) == r.filters \/ r.mounts

\* .dr_reject_unsupported_plumber.
Rejected(r) == r.filters \/ r.mounts \/ r.hooks

PrRun ==
    /\ ppc = "idle"
    /\ ppc' = IF Rejected(router) THEN "stopped" ELSE "translate"
    /\ UNCHANGED <<router, done, routes, served, formals, sources, args>>

\* .dr_register_plumber_endpoint for the next endpoint, then dr_serve.  A verb
\* that is not supported is an error: the app is dropped.
Translate ==
    /\ ppc = "translate"
    /\ IF done < Len(router.endpoints)
       THEN LET verbs == router.endpoints[done + 1]
            IN  IF verbs \subseteq Supported
                THEN /\ routes' = routes \union {<<v, done + 1>> : v \in verbs}
                     /\ done' = done + 1 /\ UNCHANGED <<ppc, served>>
                ELSE ppc' = "stopped" /\ routes' = {} /\ UNCHANGED <<done, served>>
       ELSE served' = routes /\ ppc' = "serving" /\ UNCHANGED <<done, routes>>
    /\ UNCHANGED <<router, formals, sources, args>>

-----------------------------------------------------------------------------
\* The list a value is assigned to with out[[i]] <- v: NULL removes the element.
AssignElement(out, i, v) ==
    IF v = "NULL" THEN RemoveAt(out, i) ELSE [out EXCEPT ![i] = [@ EXCEPT !.from = v]]

\* out[i] <- list(NULL): the element is there, and is NULL.
AssignNull(out, i) == [out EXCEPT ![i] = [@ EXCEPT !.from = "NULL"]]

\* A plausible bug: the plain form is used for a parameter without a value.
MutRequired(out, i) == AssignElement(out, i, "NULL")

\* A required parameter without a value is passed NULL.
Required(out, i) == AssignNull(out, i)

\* Where the value of a parameter is taken from: path, then query, then body; a
\* null in the body counts as none.
Lookup(name, src) ==
    CASE "path" \in src[name] -> "path" [] "query" \in src[name] -> "query"
      [] "body" \in src[name] -> "body" [] OTHER -> "NULL"

\* .dr_resolve_plumber_args: out and keep after the first i parameters.
Resolved(fs, src) ==
    LET start == [out |-> [j \in DOMAIN fs |-> [name |-> fs[j].name, from |-> "unset"]],
                  keep |-> [j \in DOMAIN fs |-> FALSE]]
        Kept(a, i, out) == [out |-> out, keep |-> [a.keep EXCEPT ![i] = TRUE]]
        upto[i \in 0..Len(fs)] ==
            IF i = 0 THEN start
            ELSE LET a == upto[i - 1]
                     v == Lookup(fs[i].name, src)
                 IN  CASE fs[i].name = "req" -> Kept(a, i, AssignElement(a.out, i, "req"))
                       [] fs[i].name = "res" -> Kept(a, i, AssignNull(a.out, i))
                       [] OTHER -> IF v # "NULL" THEN Kept(a, i, AssignElement(a.out, i, v))
                                   ELSE IF fs[i].default THEN a
                                   ELSE Kept(a, i, Required(a.out, i))
        end == upto[Len(fs)]
        kept == SelectSeq([i \in DOMAIN fs |-> i], LAMBDA i : end.keep[i])
    IN  [k \in DOMAIN kept |-> IF kept[k] \in DOMAIN end.out THEN end.out[kept[k]]
                               ELSE [name |-> "<NA>", from |-> "NULL"]]

\* A handler with some parameters, a request with some values, and the call; one
\* call stands for all, as they leave nothing behind.
Call ==
    /\ ppc = "serving" /\ served # {} /\ formals = <<>>
    /\ \E n \in 1..MaxFormals :
       \E ns \in [1..n -> AllNames], ds \in [1..n -> BOOLEAN],
          src \in [Names -> SUBSET {"path", "query", "body"}] :
         /\ \A i, j \in 1..n : ns[i] = ns[j] => i = j
         /\ formals' = [i \in 1..n |-> [name |-> ns[i], default |-> ds[i]]]
         /\ sources' = [m \in AllNames |-> IF m \in Names THEN src[m] ELSE {}]
         /\ args' = Resolved(formals', sources')
    /\ UNCHANGED <<router, ppc, done, routes, served>>

PLNext == Build \/ PrRun \/ Translate \/ Call
PLSpec == PLInit /\ [][PLNext]_plVars

-----------------------------------------------------------------------------
PLTypeOK ==
    /\ ppc \in {"idle", "translate", "serving", "stopped"}
    /\ done \in 0..MaxEndpoints /\ served \subseteq Verbs \X (1..MaxEndpoints)

\* The server starts with all the routes of the router or not at all: nothing
\* unsupported is served in part, nothing supported is left out.
AllOrNothing ==
    /\ ppc = "serving" =>
         /\ ~router.filters /\ ~router.mounts /\ ~router.hooks
         /\ served = UNION {{<<v, e>> : v \in router.endpoints[e]} : e \in DOMAIN router.endpoints}
         /\ \A r \in served : r[1] \in Supported
    /\ ppc # "serving" => served = {}

\* Every parameter of a handler is passed by its own name, from the first of path,
\* query and body that has it; without a value it is passed NULL, unless it has a
\* default; and none is passed twice or under another's name.
ArgumentsByName ==
    /\ \A i \in DOMAIN formals :
         LET f == formals[i]
             given == {k \in DOMAIN args : args[k].name = f.name}
             from == IF f.name = "req" THEN "req" ELSE IF f.name = "res" THEN "NULL"
                     ELSE IF "path" \in sources[f.name] THEN "path"
                     ELSE IF "query" \in sources[f.name] THEN "query"
                     ELSE IF "body" \in sources[f.name] THEN "body" ELSE "NULL"
         IN  IF from = "NULL" /\ f.default /\ f.name # "res" THEN given = {}
             ELSE \E k \in given : given = {k} /\ args[k].from = from
    /\ \A k \in DOMAIN args : \E i \in DOMAIN formals : formals[i].name = args[k].name
=============================================================================
