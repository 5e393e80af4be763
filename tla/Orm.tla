-------------------------------- MODULE Orm ---------------------------------
(***************************************************************************)
(* Drogon's object mapper, Mapper and CoroMapper: settings are made on a   *)
(* mapper one call after another, the next operation turns them and its    *)
(* own arguments into one SQL statement, and the database answers.  A      *)
(* statement is a sequence of words and the values bound to it; a value    *)
(* carries the name of what it is for.  Nearly every operation has four    *)
(* variants: blocking, with callbacks, with a future, and as a coroutine,  *)
(* which makes its statement only when it is awaited.                      *)
(***************************************************************************)
EXTENDS Integers, Sequences, SequencesExt, TLC

CONSTANTS ClientTypes,   \* of "PostgreSQL", "Mysql" and "Sqlite3"
          Key,           \* primaryKeyName: a sequence of columns
          Settings,      \* calls that may be made: records [what, name, n, m]
          MaxCalls,      \* bound: settings at a time
          MaxWaiting     \* bound: coroutines that have not been awaited

VARIABLES
  client,       \* client_->type()
  limit, offset, orders, joins, forUpdate,   \* the members of the mapper
  asked,        \* the settings made since the last statement
  waiting,      \* operations of coroutines that are not awaited yet
  sent          \* the statement the database works on, or None

mapperVars == <<client, limit, offset, orders, joins, forUpdate, asked, waiting, sent>>
members == <<limit, offset, orders, joins, forUpdate>>

None == [op |-> "none"]

-----------------------------------------------------------------------------
\* Criteria: a condition and its arguments.
NoCriteria == [text |-> <<>>, args |-> <<>>]
Compare(col, arg) == [text |-> <<col, "=", "$?">>, args |-> <<<<col, arg>>>>]
CompareIn(col, args) ==
  [text |-> <<col, "in">> \o [i \in DOMAIN args |-> "$?"],
   args |-> [i \in DOMAIN args |-> <<col, args[i]>>]]
CompareNull(col) == [text |-> <<col, "is null">>, args |-> <<>>]

\* An operation: its name, its criteria, the columns it sets with their values,
\* and for an insertion whether the database fills in columns.
Op(name, crit, set, select) == [name |-> name, crit |-> crit, set |-> set, needSelection |-> select]

\* The operations of the caller: each kind of criteria, columns to set and to
\* count up or down, an object in which nothing was set.
Two == <<<<"x", 5>>, <<"y", -4>>>>
Operations ==
  {Op("findBy", c, <<>>, FALSE) : c \in {NoCriteria, CompareIn("b", <<1, 2>>), CompareNull("a")}}
  \cup {Op(n, Compare("a", 1), <<>>, FALSE) : n \in {"findOne", "count", "deleteBy"}}
  \cup {Op(n, CompareIn("b", <<1, 2>>), Two, FALSE) : n \in {"updateBy", "increment"}}
  \cup {Op(n, NoCriteria, <<>>, FALSE) :
          n \in {"findByPrimaryKey", "deleteOne", "deleteByPrimaryKey", "update"}}
  \cup {Op("update", NoCriteria, Two, FALSE)}
  \cup {Op("insert", NoCriteria, Two, select) : select \in BOOLEAN}

\* ... and those of them that run as coroutines here.
Coroutines == {o \in Operations : o.name \in {"findOne", "updateBy"} \/ o.needSelection}

\* A parameter of PostgreSQL has a number.
Numbered == <<"$1", "$2", "$3", "$4", "$5", "$6">>

Holes(text) == SelectSeq([i \in DOMAIN text |-> <<i, text[i]>>], LAMBDA w : w[2] = "$?")

\* A plausible bug: a parameter that has been seen is not counted.
MutReplaceSqlPlaceHolder(text) ==
  [i \in DOMAIN text |->
     IF text[i] # "$?" THEN text[i]
     ELSE IF client = "PostgreSQL" THEN Numbered[1] ELSE "?"]

ReplaceSqlPlaceHolder(text) ==
  [i \in DOMAIN text |->
     IF text[i] # "$?" THEN text[i]
     ELSE IF client = "PostgreSQL" THEN Numbered[Len(Holes(SubSeq(text, 1, i)))] ELSE "?"]

When(b, s) == IF b THEN s ELSE <<>>

Where(c) == When(c.text # <<>>, <<"where">> \o c.text)

\* What the settings add to a select, and the values they bind, in this order.
Select(c) ==
  ReplaceSqlPlaceHolder(
    <<"select">> \o joins \o Where(c)
    \o When(orders # <<>>, <<"order by">> \o orders)
    \o When(limit > 0, <<"limit", "$?">>)
    \o When(offset > 0, <<"offset", "$?">>))
  \o When(forUpdate, <<"for update">>)

SelectArgs(c) ==
  c.args \o When(limit > 0, <<<<"limit", limit>>>>) \o When(offset > 0, <<<<"offset", offset>>>>)

KeyWords == FlattenSeq([i \in DOMAIN Key |-> When(i > 1, <<"and">>) \o <<Key[i], "=", "$?">>])
KeyCriteria == <<"where">> \o KeyWords
KeyArgs == [i \in DOMAIN Key |-> <<Key[i], i>>]

\* The statements by primary key and the insertion come from the model class.
ModelSql(verb, words) == ReplaceSqlPlaceHolder(<<verb>> \o words)

SetWords(set) == FlattenSeq([i \in DOMAIN set |-> <<set[i][1], "=", "$?">>])

\* increment(): a negative amount is subtracted.
Abs(n) == IF n < 0 THEN -n ELSE n
AddWords(set) ==
  FlattenSeq([i \in DOMAIN set |-> <<set[i][1], IF set[i][2] < 0 THEN "-" ELSE "+", "$?">>])
AddArgs(set) == [i \in DOMAIN set |-> <<set[i][1], Abs(set[i][2])>>]

\* The operations, their text and their values.  A coroutine binds them in the same
\* order as the variants of Mapper.
CountText(c) == ReplaceSqlPlaceHolder(<<"select count">> \o joins \o Where(c))
FindByPrimaryKeyText == ModelSql("select", KeyCriteria) \o When(forUpdate, <<"for update">>)
InsertText(set) == ModelSql("insert", SetWords(set))
InsertArgs(set) == set
UpdateText(set) == ReplaceSqlPlaceHolder(<<"update">> \o SetWords(set) \o KeyCriteria)
UpdateArgs(set) == set \o KeyArgs
UpdateByText(set, c) == ReplaceSqlPlaceHolder(<<"update">> \o SetWords(set) \o Where(c))

\* A plausible bug: the criteria's values are bound before those of the columns.
MutUpdateByArgs(set, c) == c.args \o set

UpdateByArgs(set, c) == set \o c.args
IncrementText(set, c) == ReplaceSqlPlaceHolder(<<"update">> \o AddWords(set) \o Where(c))
IncrementArgs(set, c) == AddArgs(set) \o c.args
DeleteOneText == ReplaceSqlPlaceHolder(<<"delete">> \o KeyCriteria)
DeleteByText(c) == ReplaceSqlPlaceHolder(<<"delete">> \o Where(c))
DeleteByPrimaryKeyText == ModelSql("delete", KeyCriteria)

Text(o) ==
  CASE o.name \in {"findOne", "findBy"} -> Select(o.crit)
    [] o.name = "count" -> CountText(o.crit)
    [] o.name = "findByPrimaryKey" -> FindByPrimaryKeyText
    [] o.name = "insert" -> InsertText(o.set)
    [] o.name = "update" -> UpdateText(o.set)
    [] o.name = "updateBy" -> UpdateByText(o.set, o.crit)
    [] o.name = "increment" -> IncrementText(o.set, o.crit)
    [] o.name = "deleteOne" -> DeleteOneText
    [] o.name = "deleteBy" -> DeleteByText(o.crit)
    [] o.name = "deleteByPrimaryKey" -> DeleteByPrimaryKeyText

Args(o) ==
  CASE o.name \in {"findOne", "findBy"} -> SelectArgs(o.crit)
    [] o.name \in {"count", "deleteBy"} -> o.crit.args
    [] o.name \in {"findByPrimaryKey", "deleteOne", "deleteByPrimaryKey"} -> KeyArgs
    [] o.name = "insert" -> InsertArgs(o.set)
    [] o.name = "update" -> UpdateArgs(o.set)
    [] o.name = "updateBy" -> UpdateByArgs(o.set, o.crit)
    [] o.name = "increment" -> IncrementArgs(o.set, o.crit)

-----------------------------------------------------------------------------
MATypeOK ==
  /\ client \in ClientTypes /\ limit \in Nat /\ offset \in Nat
  /\ forUpdate \in BOOLEAN /\ Len(asked) <= MaxCalls /\ Len(waiting) <= MaxWaiting
  /\ sent # None => Len(sent.text) >= Len(sent.args)

MAInit ==
  /\ client \in ClientTypes
  /\ limit = 0 /\ offset = 0 /\ orders = <<>> /\ joins = <<>> /\ forUpdate = FALSE
  /\ asked = <<>> /\ waiting = <<>> /\ sent = None

\* The caller is not inside a blocking operation.
Free == sent # None => sent.how = "async"

\* innerJoin(), leftJoin(), ...: joinString_ grows.
Joined(j) == Append(joins, j)

Setting(s) ==
  /\ Free /\ Len(asked) + (IF sent = None THEN 0 ELSE Len(sent.asked)) < MaxCalls
  /\ asked' = Append(asked, s)
  /\ limit' = CASE s.what = "limit" -> s.n [] s.what = "paginate" -> s.m [] OTHER -> limit
  /\ offset' = CASE s.what = "offset" -> s.n
                 [] s.what = "paginate" -> (s.n - 1) * s.m
                 [] OTHER -> offset
  /\ orders' = IF s.what = "orderBy" THEN Append(orders, s.name) ELSE orders
  /\ joins' = IF s.what = "join" THEN Joined(s.name) ELSE joins
  /\ forUpdate' = (forUpdate \/ s.what = "forUpdate")
  /\ UNCHANGED <<client, waiting, sent>>

\* A plausible bug: clear() forgets a member.
MutClear ==
  /\ limit' = 0 /\ orders' = <<>> /\ joins' = <<>> /\ forUpdate' = FALSE
  /\ UNCHANGED offset

Clear ==
  /\ limit' = 0 /\ offset' = 0 /\ orders' = <<>> /\ joins' = <<>> /\ forUpdate' = FALSE

\* update() of an object in which nothing was set has no statement.
Trivial(o) == o.name = "update" /\ o.set = <<>>

\* The operation makes its statement, which spends the settings.
Issue(o, how) ==
  /\ sent' = IF Trivial(o) THEN None
             ELSE [op |-> o, text |-> Text(o), args |-> Args(o), how |-> how, asked |-> asked]
  /\ asked' = <<>> /\ Clear

\* The variant that blocks, and the two that do not.
Call(o, how) ==
  /\ sent = None /\ Issue(o, how) /\ UNCHANGED <<client, waiting>>

\* A coroutine is created; nothing else happens until it is awaited.
Create(o) ==
  /\ Free /\ Len(waiting) < MaxWaiting
  /\ waiting' = Append(waiting, o)
  /\ UNCHANGED <<client, members, asked, sent>>

Await(k) ==
  /\ sent = None /\ Issue(waiting[k], "async")
  /\ waiting' = RemoveAt(waiting, k) /\ UNCHANGED client

\* The object that was inserted is read again.
Reads == sent.op.name = "insert" /\ sent.op.needSelection /\ client # "PostgreSQL"

\* A plausible bug: the callback of an insertion reads with the mapper itself.
MutReadBack ==
  LET o == Op("findByPrimaryKey", NoCriteria, <<>>, FALSE) IN
  /\ sent' = [op |-> o, text |-> Text(o), args |-> KeyArgs, how |-> sent.how, asked |-> asked]
  /\ Clear

\* The blocking variant uses the mapper itself, which it has just cleared; the
\* others, whose callback runs later, a mapper of their own.
ReadBack ==
  LET o == Op("findByPrimaryKey", NoCriteria, <<>>, FALSE) IN
  /\ sent' = [op |-> o, text |-> ModelSql("select", KeyCriteria), args |-> KeyArgs,
              how |-> sent.how, asked |-> <<>>]
  /\ IF sent.how = "sync" THEN Clear ELSE UNCHANGED members

\* The database answers: rows, a count, or an error.  Whatever it is, exactly one
\* value or exception reaches the caller, and the mapper is not involved.
Answer ==
  /\ sent # None
  /\ \/ Reads /\ ReadBack
     \/ sent' = None /\ UNCHANGED members
  /\ UNCHANGED <<client, asked, waiting>>

MANext ==
  \/ \E s \in Settings : Setting(s)
  \/ \E o \in Operations, how \in {"sync", "async"} : Call(o, how)
  \/ \E o \in Coroutines : Create(o)
  \/ \E k \in DOMAIN waiting : Await(k)
  \/ Answer

MASpec == MAInit /\ [][MANext]_mapperVars

(***************************************************************************)
(* Properties.                                                             *)
(***************************************************************************)

Parameters == {"?"} \cup Range(Numbered)
Operators == {"=", "in", "+", "-"}

\* The word a parameter belongs to: the last one before it that is neither an
\* operator nor a parameter.
Owner(i) == LET own == {j \in 1 .. i : sent.text[j] \notin Parameters \cup Operators}
            IN sent.text[CHOOSE j \in own : \A k \in own : k <= j]
Places == SelectSeq([i \in DOMAIN sent.text |-> i], LAMBDA i : sent.text[i] \in Parameters)

\* Every statement has as many parameters as values are bound to it, the k-th of
\* them stands where the k-th value is meant to be, each is written the way this
\* database wants it, and no placeholder of the mapper's own is left: the text
\* and the values are put together apart from each other, by twelve operations in
\* four variants.
ArgumentsFit ==
  sent # None =>
    /\ Len(Places) = Len(sent.args) /\ "$?" \notin Range(sent.text)
    /\ \A k \in DOMAIN Places :
         /\ Owner(Places[k]) = sent.args[k][1]
         /\ sent.text[Places[k]] = IF client = "PostgreSQL" THEN Numbered[k] ELSE "?"

AskedFor(what) == SelectSeq(sent.asked, LAMBDA s : s.what = what)
LimitAsked ==
  FoldLeft(LAMBDA n, s : CASE s.what = "limit" -> s.n [] s.what = "paginate" -> s.m [] OTHER -> n,
           0, sent.asked)
OffsetAsked ==
  FoldLeft(LAMBDA n, s : CASE s.what = "offset" -> s.n [] s.what = "paginate" -> (s.n - 1) * s.m [] OTHER -> n,
           0, sent.asked)
Bound(name) == FoldLeft(LAMBDA n, a : IF a[1] = name THEN a[2] ELSE n, 0, sent.args)
Named(s) == [i \in DOMAIN s |-> s[i].name]
WordsOf(what) ==
  LET names == {s.name : s \in {t \in Settings : t.what = what}}
  IN SelectSeq(sent.text, LAMBDA w : w \in names)

\* A select says exactly what the settings made since the last statement asked
\* for, however many there were and in whatever order, and a setting serves one
\* statement: none is left over for the next one, and none that the caller makes
\* while a statement is under way is lost to the callback that follows it.
SettingsServeOnce ==
  sent # None =>
    LET name == sent.op.name
        finds == name \in {"findOne", "findBy"} IN
    /\ Bound("limit") = IF finds THEN LimitAsked ELSE 0
    /\ Bound("offset") = IF finds THEN OffsetAsked ELSE 0
    /\ WordsOf("orderBy") = IF finds THEN Named(AskedFor("orderBy")) ELSE <<>>
    /\ WordsOf("join") = IF finds \/ name = "count" THEN Named(AskedFor("join")) ELSE <<>>
    /\ "for update" \in Range(sent.text)
         <=> (finds \/ name = "findByPrimaryKey") /\ AskedFor("forUpdate") # <<>>

-----------------------------------------------------------------------------
(***************************************************************************)
(* Drogon's query builders: QueryBuilder, FilterBuilder, TransformBuilder  *)
(* and BaseBuilder are stages of one value to which calls add clauses, and *)
(* which may be executed again and again.  single() makes a copy, in which *)
(* only the calls of TransformBuilder are left.  A statement is a sequence *)
(* of words and of values, which carry the name of their column.           *)
(***************************************************************************)

CONSTANTS DbTypes,     \* of "PostgreSQL", "Mysql" and "Sqlite3"
          Columns,     \* metaData_ of the model: its columns
          Names,       \* names that callers use for columns
          Wrap,        \* the number of values of an unsigned integer
          MaxSteps     \* bound: calls on one builder

VARIABLES
  stage,       \* "query", "filter" or "single"
  table,       \* from_; "" for the table of the model
  columns,     \* columns_
  filters,     \* filters_: <<column, operator, value>>
  joined,      \* joins_
  rows,        \* limit_ and offset_, -1 for neither
  sorts,       \* orders_
  steps,       \* the calls that were made, in order
  query        \* the statement that was executed last, or NoQuery

qbVars == <<stage, table, columns, filters, joined, rows, sorts, steps, query>>

NoQuery == [db |-> "", text |-> <<>>, args |-> <<>>]
BuilderCall(what, name, n, m) == [what |-> what, name |-> name, n |-> n, m |-> m]
Comparisons == {"=", "like"}      \* two of the seven: =, !=, >, >=, <, <= and like
JoinKinds == {"FULL JOIN"}        \* one of the four

QBInit ==
  /\ stage = "query" /\ table = "" /\ columns = "" /\ filters = <<>> /\ joined = <<>>
  /\ rows = [limit |-> -1, offset |-> -1] /\ sorts = <<>> /\ steps = <<>> /\ query = NoQuery

QBTypeOK ==
  /\ stage \in {"query", "filter", "single"}
  /\ rows \in [{"limit", "offset"} -> -1 .. Wrap - 1]
  /\ Len(steps) <= MaxSteps /\ \A k \in DOMAIN filters : filters[k][1] \in Columns

Step(c) == Len(steps) < MaxSteps /\ steps' = Append(steps, c)

From(t) ==
  /\ stage = "query" /\ Step(BuilderCall("from", t, 0, 0)) /\ table' = t
  /\ UNCHANGED <<stage, columns, filters, joined, rows, sorts, query>>

\* select() and selectAll() go on to a new FilterBuilder.
BuildSelect(cols) ==
  /\ stage = "query" /\ Step(BuilderCall("select", cols, 0, 0))
  /\ stage' = "filter" /\ columns' = cols
  /\ table' = IF table = "" THEN "model" ELSE table
  /\ UNCHANGED <<filters, joined, rows, sorts, query>>

\* assert_column() throws for a name that is no column, and nothing changes.
Filter(name, op) ==
  LET value == Len(filters) + 1 IN
  /\ stage = "filter" /\ name \in Columns /\ Step(BuilderCall(op, name, value, 0))
  /\ filters' = Append(filters, <<name, op, value>>)
  /\ UNCHANGED <<stage, table, columns, joined, rows, sorts, query>>

Join(kind) ==
  /\ stage = "filter" /\ Step(BuilderCall("join", kind, 0, 0))
  /\ joined' = Append(joined, kind)
  /\ UNCHANGED <<stage, table, columns, filters, rows, sorts, query>>

\* limit() and offset() set a member each, range() both.
Rows(c) ==
  /\ stage # "query" /\ Step(c)
  /\ rows' = CASE c.what = "limit" -> [rows EXCEPT !.limit = c.n]
               [] c.what = "offset" -> [rows EXCEPT !.offset = c.n]
               [] c.what = "range" -> [limit |-> (c.m - c.n + 1) % Wrap, offset |-> c.n]
  /\ UNCHANGED <<stage, table, columns, filters, joined, sorts, query>>

Order(name, direction) ==
  /\ stage # "query" /\ name \in Columns /\ Step(BuilderCall("order", name, direction, 0))
  /\ sorts' = Append(sorts, <<name, direction>>)
  /\ UNCHANGED <<stage, table, columns, filters, joined, rows, query>>

\* A plausible bug: the orders are not copied.
MutSingle ==
  /\ stage = "filter" /\ Step(BuilderCall("single", "", 0, 0)) /\ stage' = "single"
  /\ joined' = <<>> /\ sorts' = <<>>
  /\ UNCHANGED <<table, columns, filters, rows, query>>

\* The copy has every member but joins_.
Single ==
  /\ stage = "filter" /\ Step(BuilderCall("single", "", 0, 0)) /\ stage' = "single"
  /\ joined' = <<>>
  /\ UNCHANGED <<table, columns, filters, rows, sorts, query>>

Numbers == <<"$1", "$2", "$3", "$4">>
Word(b, s) == IF b THEN s ELSE <<>>
Placeholder(db, k) == IF db = "PostgreSQL" THEN Numbers[k] ELSE "?"

\* A plausible bug: the counter of parameters stands at the first one.
MutGenSql(db) ==
  <<"select", columns, table>> \o joined
  \o FlattenSeq([k \in DOMAIN filters |->
       <<IF k = 1 THEN "where" ELSE "and", filters[k][1], filters[k][2], Placeholder(db, 1)>>])
  \o Word(sorts # <<>>, <<"order by">>)
  \o FlattenSeq([k \in DOMAIN sorts |-> <<sorts[k][1], IF sorts[k][2] = 1 THEN "asc" ELSE "desc">>])
  \o Word(rows.limit >= 0, <<"limit", ToString(rows.limit)>>)
  \o Word(rows.offset >= 0, <<"offset", ToString(rows.offset)>>)

GenSql(db) ==
  <<"select", columns, table>> \o joined
  \o FlattenSeq([k \in DOMAIN filters |->
       <<IF k = 1 THEN "where" ELSE "and", filters[k][1], filters[k][2], Placeholder(db, k)>>])
  \o Word(sorts # <<>>, <<"order by">>)
  \o FlattenSeq([k \in DOMAIN sorts |-> <<sorts[k][1], IF sorts[k][2] = 1 THEN "asc" ELSE "desc">>])
  \o Word(rows.limit >= 0, <<"limit", ToString(rows.limit)>>)
  \o Word(rows.offset >= 0, <<"offset", ToString(rows.offset)>>)

GenArgs == [k \in DOMAIN filters |-> <<filters[k][1], filters[k][3]>>]

\* execSync(), execAsync() and execAsyncFuture(): the same statement.
Exec(db) ==
  /\ stage # "query"
  /\ query' = [db |-> db, text |-> GenSql(db), args |-> GenArgs]
  /\ UNCHANGED <<stage, table, columns, filters, joined, rows, sorts, steps>>

QBNext ==
  \/ From("other") \/ Single
  \/ \E cols \in {"*", "a"} : BuildSelect(cols)
  \/ \E name \in Names : \/ \E op \in Comparisons : Filter(name, op)
                         \/ \E direction \in 0 .. 1 : Order(name, direction)
  \/ \E kind \in JoinKinds : Join(kind)
  \/ \E c \in {BuilderCall("limit", "", 2, 0), BuilderCall("offset", "", 1, 0), BuilderCall("range", "", 2, 0)} : Rows(c)
  \/ \E db \in DbTypes : Exec(db)

QBSpec == QBInit /\ [][QBNext]_qbVars

(***************************************************************************)
(* Properties.                                                             *)
(***************************************************************************)

Made(kinds) == SelectSeq(steps, LAMBDA c : c.what \in kinds)
LastOf(kinds) == LET s == Made(kinds) IN s[Len(s)]
IfMade(kinds, n) == IF Made(kinds) = <<>> THEN <<>> ELSE n

\* The statement that the calls made so far ask for.
Asked(db) ==
  LET compared == Made(Comparisons)
      sorted == Made({"order"})
      bound == LastOf({"limit", "range"}) IN
  <<"select", LastOf({"select"}).name,
    IF Made({"from"}) = <<>> THEN "model" ELSE LastOf({"from"}).name>>
  \o (IF Made({"single"}) # <<>> THEN <<>>
      ELSE LET j == Made({"join"}) IN [k \in DOMAIN j |-> j[k].name])
  \o FlattenSeq([k \in DOMAIN compared |->
       <<IF k = 1 THEN "where" ELSE "and", compared[k].name, compared[k].what,
         IF db = "PostgreSQL" THEN Numbers[k] ELSE "?">>])
  \o IfMade({"order"}, <<"order by">>)
  \o FlattenSeq([k \in DOMAIN sorted |-> <<sorted[k].name, IF sorted[k].n = 1 THEN "asc" ELSE "desc">>])
  \o IfMade({"limit", "range"},
          <<"limit", ToString(IF bound.what = "limit" THEN bound.n ELSE (bound.m - bound.n + 1) % Wrap)>>)
  \o IfMade({"offset", "range"}, <<"offset", ToString(LastOf({"offset", "range"}).n)>>)

\* The statement of a builder says what all the calls made on it asked for,
\* whichever stage they were made in and however often it was executed before:
\* every comparison, in order, with its own value bound to its own parameter; the
\* last limit and the last offset; every column to sort by.  Joins, too, unless
\* single() was called: its copy leaves them out.
MeantStep ==
  query' # query =>
    /\ query'.text = Asked(query'.db)
    /\ query'.args = LET c == Made(Comparisons) IN [k \in DOMAIN c |-> <<c[k].name, c[k].n>>]

\* A statement is what the calls meant: so in every step.
QueryMeant == [][MeantStep]_qbVars
=============================================================================
