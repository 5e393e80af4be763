------------------------------- MODULE Router -------------------------------
(***************************************************************************)
(* From dr_get("/users/:id", h) to the handler a request reaches: the R    *)
(* app's route lists, their compilation to regexes, their installation in  *)
(* Drogon's regex vector by server_start(), and the vector's lookup.       *)
(* A path is a sequence of segments; a pattern has literals and named      *)
(* placeholders that match one non-empty segment.                          *)
(***************************************************************************)
EXTENDS Naturals, Sequences, FiniteSets, SequencesExt

CONSTANTS Patterns,   \* user paths: sequences of [lit |-> s] or [name |-> s]
          Methods,    \* HTTP methods
          Paths,      \* request paths: sequences of segments
          Lower,      \* tolower() on segments
          MaxRoutes   \* bound: routes of an app

VARIABLES
    app,        \* per kind of route, its list of [method, pattern, id]
    added,      \* routes added so far
    queue,      \* server_start()'s routes still to install
    installed,  \* ctrlVector_: [regex, binders]
    started

rtVars == <<app, added, queue, installed, started>>

\* The order in which server_start() goes through the lists ("cpp" stands for
\* the unary native routes and the streaming ones after them).
Kinds == <<"R", "cpp", "static">>

RTInit ==
    /\ app = [k \in ToSet(Kinds) |-> <<>>]
    /\ added = 0 /\ queue = <<>> /\ installed = <<>> /\ started = FALSE
-----------------------------------------------------------------------------
(* .dr_compile_path()                                                      *)

IsName(t) == "name" \in DOMAIN t

ParamNames(p) == LET ns == SelectSeq(p, IsName) IN [j \in DOMAIN ns |-> ns[j].name]

\* Placeholders lose their names, so "/u/:a" and "/u/<b>" compile to one regex.
Regex(p) == [j \in DOMAIN p |-> IF IsName(p[j]) THEN "([^/]+)" ELSE p[j].lit]

Duplicates(p) == Len(ParamNames(p)) # Cardinality(ToSet(ParamNames(p)))

\* regex_match() with icase; a static mount's (.*) takes the rest of the path.
Matches(regex, path) ==
    \/ /\ Len(regex) = Len(path)
       /\ \A j \in DOMAIN regex :
             IF regex[j] = "([^/]+)" THEN path[j] # "" ELSE Lower[regex[j]] = Lower[path[j]]
    \/ /\ regex # <<>> /\ Last(regex) = "(.*)" /\ Len(path) >= Len(regex)
       /\ \A j \in 1 .. Len(regex) - 1 : Lower[regex[j]] = Lower[path[j]]

\* A plausible bug: the first segments are taken for the captures.
MutCaptures(regex, path) ==
    LET js == SelectSeq([j \in DOMAIN regex |-> j], LAMBDA j : regex[j] = "([^/]+)")
    IN [c \in DOMAIN js |-> path[c]]

\* The captures, in the order of the placeholders.
Captures(regex, path) ==
    LET js == SelectSeq([j \in DOMAIN regex |-> j], LAMBDA j : regex[j] = "([^/]+)")
    IN [c \in DOMAIN js |-> path[js[c]]]
-----------------------------------------------------------------------------
\* .dr_add_route() and its native siblings: a path used again for the method
\* replaces the route in place; two placeholders of one name are an error.
AddRoute(kind, m, p) ==
    /\ ~started /\ added < MaxRoutes
    /\ ~Duplicates(p)
    /\ LET route == [method |-> m, pattern |-> p, regex |-> Regex(p), id |-> added + 1]
           at == {j \in DOMAIN app[kind] : app[kind][j].method = m /\ app[kind][j].pattern = p}
       IN app' = [app EXCEPT ![kind] =
                     IF at = {} THEN Append(@, route)
                     ELSE [j \in DOMAIN @ |-> IF j \in at THEN route ELSE @[j]]]
    /\ added' = added + 1
    /\ UNCHANGED <<queue, installed, started>>

\* dr_static(): the mount's literals followed by (.*), for GET (HEAD requests are
\* routed as GET).
AddStatic(p) ==
    /\ ~started /\ added < MaxRoutes
    /\ p # <<>> /\ ~\E j \in DOMAIN p : IsName(p[j])
    /\ app' = [app EXCEPT !["static"] =
                  Append(@, [method |-> "GET", pattern |-> p,
                             regex |-> Append(Regex(p), "(.*)"), id |-> added + 1])]
    /\ added' = added + 1
    /\ UNCHANGED <<queue, installed, started>>

\* A plausible bug: the static mounts are installed first.
MutStart ==
    /\ ~started
    /\ started' = TRUE
    /\ queue' = FlattenSeq([k \in DOMAIN Kinds |-> app[Reverse(Kinds)[k]]])
    /\ UNCHANGED <<app, added, installed>>

Start ==
    /\ ~started
    /\ started' = TRUE
    /\ queue' = FlattenSeq([k \in DOMAIN Kinds |-> app[Kinds[k]]])
    /\ UNCHANGED <<app, added, installed>>

\* A plausible bug: a new item goes to the front, whatever is there.
MutBind(items, r) ==
    <<[regex |-> r.regex, binders |-> [m \in Methods |-> IF m = r.method THEN r.id ELSE 0]]>>
      \o items

\* addRegexCtrlBinder(): an item with this very regex gets the method's binder,
\* replacing one that was there; otherwise a new item goes to the end.
Bind(items, r) ==
    LET at == {j \in DOMAIN items : items[j].regex = r.regex}
        new == [regex |-> r.regex, binders |-> [m \in Methods |-> 0]]
        bound == [(IF at = {} THEN Append(items, new) ELSE items) EXCEPT
                     ![IF at = {} THEN Len(items) + 1 ELSE CHOOSE j \in at : TRUE]
                        .binders[r.method] = r.id]
    IN bound

Install ==
    /\ queue # <<>>
    /\ installed' = Bind(installed, Head(queue))
    /\ queue' = Tail(queue)
    /\ UNCHANGED <<app, added, started>>

RTNext == \/ \E kind \in {"R", "cpp"}, m \in Methods, p \in Patterns :
                AddRoute(kind, m, p)
          \/ \E p \in Patterns : AddStatic(p)
          \/ Start \/ Install

RTSpec == RTInit /\ [][RTNext]_rtVars
-----------------------------------------------------------------------------
\* route(): the first item that has a binder for the method and whose regex
\* matches; 0 is 404, also when only the method is wrong.
Route(items, m, path) ==
    LET hits == {j \in DOMAIN items : items[j].binders[m] # 0 /\ Matches(items[j].regex, path)}
    IN IF hits = {} THEN 0 ELSE items[CHOOSE j \in hits : \A k \in hits : j <= k].binders[m]

Routes == FlattenSeq([k \in DOMAIN Kinds |-> app[Kinds[k]]])

RouteOf(id) == CHOOSE r \in ToSet(Routes) : r.id = id

RTTypeOK ==
    /\ started \in BOOLEAN /\ added \in 0 .. MaxRoutes
    /\ \A k \in ToSet(Kinds) : \A r \in ToSet(app[k]) : r.id \in 1 .. added
    /\ \A x \in ToSet(installed) : x.binders \in [Methods -> 0 .. added]

\* "static mounts ... would otherwise shadow more-specific dynamic routes": a
\* request some dynamic route matches is never answered by a static mount.
StaticLast ==
    started /\ queue = <<>> =>
       \A m \in Methods, path \in Paths :
          LET hit == Route(installed, m, path) IN
          hit # 0 /\ hit \in {r.id : r \in ToSet(app["static"])} =>
             ~\E k \in {"R", "cpp"} : \E r \in ToSet(app[k]) :
                 r.method = m /\ Matches(r.regex, path)

\* Installing one more route never takes a request away from the route it
\* reaches, unless its regex is already installed: then it takes over that
\* item's earlier place, for its method.
InstallKeepsStep ==
  installed' # installed =>
    \A m \in Methods, path \in Paths :
       LET before == Route(installed, m, path)
           after == Route(installed', m, path)
       IN before # 0 /\ after # before =>
             RouteOf(after).regex \in {installed[j].regex : j \in DOMAIN installed}

\* An installed route keeps its requests: so in every step.
InstallKeeps == [][InstallKeepsStep]_rtVars

\* A route's parameters are what its placeholders stand for: names and captures
\* agree in number, and putting them back into the pattern gives the path.
ParamsBound ==
    \A r \in ToSet(Routes), path \in Paths :
       r \notin ToSet(app["static"]) /\ Matches(r.regex, path) =>
          LET names == ParamNames(r.pattern)
              caps == Captures(r.regex, path)
              Value(s) == caps[CHOOSE c \in DOMAIN names : names[c] = s]
          IN /\ Len(names) = Len(caps)
             /\ \A j \in DOMAIN r.pattern :
                   IsName(r.pattern[j]) => path[j] = Value(r.pattern[j].name)
=============================================================================
