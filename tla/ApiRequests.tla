----------------------------- MODULE ApiRequests -----------------------------
(***************************************************************************)
(* The requests of the API: schemas and mappers (QueryParams), routes,     *)
(* query service with its validation caches, repository, response headers  *)
(* and error handler, over the lease queue that the connection manager     *)
(* implements.                                                             *)
(*                                                                         *)
(* A request does its items one after the other, and each item is a list   *)
(* of steps: validations, which need a list of names from a cache or from  *)
(* the database; data, which needs the database; and the freshness headers *)
(* of a GET under /v1.  A step that goes to the database takes a lease,    *)
(* runs its statements one after the other and gives the lease back.  The  *)
(* rows are constant: while the API runs, no other process can open its    *)
(* database.  The manager is not closed here.                              *)
(***************************************************************************)
EXTENDS QueryParams

CONSTANTS Requests,   \* requests that may be under way at once
          PoolSize,   \* connections of the manager
          Rows,       \* the statistics, as <<indicator, area type, category, year>>
          Ask         \* the queries each request may make

ASSUME PoolSizeAssumption == PoolSize \in Nat \ {0}

\* Only a bulk request has several items, or none; every item has a route.
ASSUME AskAssumption ==
  \A r \in Requests : \A q \in Ask[r] :
    /\ q.items \in Seq(ToSet(q.items))
    /\ ~q.bulk => Len(q.items) = 1
    /\ \A item \in ToSet(q.items) : item.route \in DOMAIN RouteSchema

VARIABLES
  holders, queue, closed,  \* the manager, see LeaseQueue
  caching,  \* STATS_VALIDATION_CACHE_ENABLED
  cache,    \* the fresh entries of the validation caches: <<key, names>>
  query,    \* what each request asks for
  pc,       \* where each request stands
  at, step, \* the item it is at, and the step of that item
  left,     \* statements the current step has still to run
  answer    \* its status, and the reason a bad request is given

pool == <<holders, queue, closed>>
place == <<at, step>>
vars == <<pool, caching, cache, query, pc, place, left, answer>>

Pool == INSTANCE LeaseQueue WITH Callers <- Requests

-----------------------------------------------------------------------------
(* The steps of a query *)

Indicators       == {row[1] : row \in Rows}
AreaTypes        == {row[2] : row \in Rows}
Categories(i, a) == {row[3] : row \in {r \in Rows : r[1] = i /\ r[2] = a}}
Years            == {row[4] : row \in Rows}

NoReason == ""

Load(key, names, statements, wanted, reason) ==
  [kind |-> "load", key |-> key, rows |-> names, statements |-> statements, wanted |-> wanted,
   reason |-> reason]

\* A query for one thing is not found unless the thing is there.
Data(statements, rows, wanted) ==
  [kind |-> "data", key |-> <<>>, rows |-> rows, statements |-> statements, wanted |-> wanted,
   reason |-> NoReason]

List(statements) == Data(statements, {}, {})
Freshness == [List(2) EXCEPT !.kind = "freshness"]
BadRange  == [List(0) EXCEPT !.kind = "badRange"]

\* Seeded bug: one entry for all area types.
KeyByIndicator(i, a) == <<"categories", i>>

\* One text of both names
Joined(i, a) == i \o "::" \o a

\* No two pairs of imported names make the same text.  That is so of the shipped
\* datasets: none of their names has a colon in it.
ASSUME SeparatorAssumption ==
  \A i, j \in Indicators, a, b \in AreaTypes : Joined(i, a) = Joined(j, b) => i = j /\ a = b

CacheKey(i, a) == <<"categories", Joined(i, a)>>

KnownAreaType(a) == <<Load(<<"areaTypes">>, AreaTypes, 1, {a}, "UNKNOWN_AREA_TYPE")>>

Known(i, a) == <<Load(<<"indicators">>, Indicators, 2, {i}, "UNKNOWN_INDICATOR")>> \o KnownAreaType(a)

KnownCategories(i, a, cs) ==
  IF cs = {} THEN <<>> ELSE <<Load(CacheKey(i, a), Categories(i, a), 1, cs, "UNKNOWN_CATEGORY")>>

\* Seeded bug: the categories are looked up before their names are checked.
CategoriesFirst(i, a, cs) == KnownCategories(i, a, cs) \o Known(i, a)

Validations(i, a, cs) == Known(i, a) \o KnownCategories(i, a, cs)

\* What the service does for one query, see ToQuery
Steps(asked) ==
  LET i == asked.indicator  a == asked.areaType  cs == asked.categories
  IN CASE asked.route = "timeseries" ->
            (IF asked.fromAfterTo THEN <<BadRange>> ELSE <<>>) \o Validations(i, a, cs) \o <<List(2)>>
       [] asked.route \in {"ranking", "areas"} -> Validations(i, a, cs) \o <<List(1)>>
       [] asked.route = "categories" -> Known(i, a) \o <<List(1)>>
       [] asked.route \in {"indicators", "years"} ->
            (IF a = NoText THEN <<>> ELSE KnownAreaType(a)) \o <<List(2)>>
       [] asked.route = "indicatorMeta" -> <<Data(1, Indicators, {i})>>
       [] asked.route = "yearMeta" -> <<Data(1, Years, {IntOf[asked.year]})>>
       [] asked.route = "capabilities" -> <<List(3)>>
       [] asked.route \in {"areaTypes", "health"} -> <<List(1)>>

\* Freshness headers are sent with what is found by a GET under /v1.
HasHeaders(q) == ~q.bulk /\ q.items[1].route # "health"

\* The steps of one of its items, with those headers
ItemSteps(q, n) == Steps(ToQuery(q.items[n])) \o (IF HasHeaders(q) THEN <<Freshness>> ELSE <<>>)

\* Those of every query that may be asked
Queries == UNION {Ask[r] : r \in Requests}
StepsOf == [q \in Queries |-> [n \in 1..Len(q.items) |-> ItemSteps(q, n)]]

-----------------------------------------------------------------------------
(* Conditional requests *)

\* The ETag is a hash of the body, which is the same for the same items as
\* long as the rows are.  A token of If-None-Match is * or the ETag that some
\* items were answered with; it may have the mark of a weak one.
IfNoneMatchMatches(q) ==
  \E token \in ToSet(q.ifNoneMatch) :
    IF token.star THEN ~token.weak ELSE token.etagOf = q.items

-----------------------------------------------------------------------------
NoQuery  == [items |-> <<>>, bulk |-> FALSE, ifNoneMatch |-> <<>>]
NoAnswer == [status |-> 0, reason |-> NoReason]

Init ==
  /\ Pool!Init
  /\ caching \in BOOLEAN /\ cache = {}
  /\ query = [r \in Requests |-> NoQuery] /\ pc = [r \in Requests |-> "idle"]
  /\ at = [r \in Requests |-> 0] /\ step = [r \in Requests |-> 0] /\ left = [r \in Requests |-> 0]
  /\ answer = [r \in Requests |-> NoAnswer]

Current(r) == StepsOf[query[r]][at[r]][step[r]]
Entries(r) == {e \in cache : caching /\ e[1] = Current(r).key}

Answer(r, status, reason) ==
  /\ pc' = [pc EXCEPT ![r] = "answered"]
  /\ answer' = [answer EXCEPT ![r] = [status |-> status, reason |-> reason]]
  /\ at' = [at EXCEPT ![r] = 0] /\ step' = [step EXCEPT ![r] = 0] /\ left' = [left EXCEPT ![r] = 0]

\* The request goes on with a step of an item.
GoTo(r, n, k) ==
  /\ pc' = [pc EXCEPT ![r] = "run"]
  /\ at' = [at EXCEPT ![r] = n] /\ step' = [step EXCEPT ![r] = k] /\ left' = [left EXCEPT ![r] = 0]
  /\ UNCHANGED answer

\* A request is refused by its schema before anything else happens, or mapped
\* to queries.
Arrive(r) ==
  /\ pc[r] = "idle"
  /\ \E q \in Ask[r] :
       /\ query' = [query EXCEPT ![r] = q]
       /\ IF RequestValid(q.items, q.bulk)
          THEN GoTo(r, 1, 1)
          ELSE Answer(r, 400, "INVALID_QUERY_PARAMS")
  /\ UNCHANGED <<pool, caching, cache>>

\* The rate limit of the plugin, before the schema
TooMany(r) ==
  /\ pc[r] = "idle"
  /\ \E q \in Ask[r] : query' = [query EXCEPT ![r] = q]
  /\ Answer(r, 429, NoReason)
  /\ UNCHANGED <<pool, caching, cache>>

\* Errors that are neither a validation's nor a missing thing's; the health
\* check makes its own answer of them.
Fail(r) == Answer(r, IF query[r].items[1].route = "health" THEN 503 ELSE 500, NoReason)

\* The step has its rows: it is refused, or the next step or item follows, or
\* the answer.
Resolve(r, rows) ==
  LET steps == StepsOf[query[r]]  s == Current(r) IN
  IF ~(s.wanted \subseteq rows) THEN Answer(r, IF s.kind = "load" THEN 400 ELSE 404, s.reason)
  ELSE IF step[r] < Len(steps[at[r]]) THEN GoTo(r, at[r], step[r] + 1)
  ELSE IF at[r] < Len(steps) THEN GoTo(r, at[r] + 1, 1)
  ELSE Answer(r, IF HasHeaders(query[r]) /\ IfNoneMatchMatches(query[r]) THEN 304 ELSE 200, NoReason)

RefuseRange(r) ==
  /\ pc[r] = "run" /\ Current(r).kind = "badRange"
  /\ Answer(r, 400, "INVALID_RANGE")
  /\ UNCHANGED <<pool, caching, cache, query>>

\* A validation from a fresh entry of a cache
Hit(r) ==
  /\ pc[r] = "run" /\ Current(r).kind = "load"
  /\ \E e \in Entries(r) : Resolve(r, e[2])
  /\ UNCHANGED <<pool, caching, cache, query>>

\* Seeded bug: the last statement is counted twice.
LeaseForMore(r) ==
  /\ pc[r] = "run" /\ Current(r).kind # "badRange"
  /\ Current(r).kind = "load" => Entries(r) = {}
  /\ Pool!Acquire(r) \/ Pool!Wait(r)
  /\ pc' = [pc EXCEPT ![r] = "lease"]
  /\ left' = [left EXCEPT ![r] = Current(r).statements + 1]
  /\ UNCHANGED <<caching, cache, query, place, answer>>

\* withConnection: a lease, or a place in the queue
Lease(r) ==
  /\ pc[r] = "run" /\ Current(r).kind # "badRange"
  /\ Current(r).kind = "load" => Entries(r) = {}
  /\ Pool!Acquire(r) \/ Pool!Wait(r)
  /\ pc' = [pc EXCEPT ![r] = "lease"]
  /\ left' = [left EXCEPT ![r] = Current(r).statements]
  /\ UNCHANGED <<caching, cache, query, place, answer>>

Release(r) == Pool!Return(r) \/ Pool!HandOver(r)

AcquireTimeout(r) ==
  /\ Pool!GiveUp(r)
  /\ Fail(r)
  /\ UNCHANGED <<caching, cache, query>>

\* One of several statements has its rows.
Statement(r) ==
  /\ pc[r] = "lease" /\ r \in holders /\ left[r] > 1
  /\ left' = [left EXCEPT ![r] = @ - 1]
  /\ UNCHANGED <<pool, caching, cache, query, pc, place, answer>>

LastStatement(r) ==
  /\ pc[r] = "lease" /\ r \in holders /\ left[r] = 1
  /\ Release(r)
  /\ pc' = [pc EXCEPT ![r] = "loaded"]
  /\ UNCHANGED <<caching, cache, query, place, left, answer>>

\* Seeded bug: a statement that fails keeps the lease.
StatementFailsHolding(r) ==
  /\ pc[r] = "lease" /\ r \in holders
  /\ Fail(r)
  /\ UNCHANGED <<pool, caching, cache, query>>

\* A statement rejects, or its timeout interrupts it, or a row is malformed.
StatementFails(r) ==
  /\ pc[r] = "lease" /\ r \in holders
  /\ Release(r)
  /\ Fail(r)
  /\ UNCHANGED <<caching, cache, query>>

\* The rows are there; those of a validation are cached, over any entry that
\* another request has made meanwhile.
Loaded(r) ==
  /\ pc[r] = "loaded"
  /\ LET s == Current(r) IN
     /\ cache' = IF caching /\ s.kind = "load"
                 THEN {e \in cache : e[1] # s.key} \cup {<<s.key, s.rows>>}
                 ELSE cache
     /\ Resolve(r, s.rows)
  /\ UNCHANGED <<pool, caching, query>>

\* The time to live of an entry is over.
Expire ==
  /\ \E e \in cache : cache' = cache \ {e}
  /\ UNCHANGED <<pool, caching, query, pc, place, left, answer>>

Leave(r) ==
  /\ pc[r] = "answered"
  /\ pc' = [pc EXCEPT ![r] = "idle"]
  /\ query' = [query EXCEPT ![r] = NoQuery] /\ answer' = [answer EXCEPT ![r] = NoAnswer]
  /\ UNCHANGED <<pool, caching, cache, place, left>>

-----------------------------------------------------------------------------
Handle(r) ==
  \/ RefuseRange(r) \/ Hit(r) \/ Lease(r)
  \/ Statement(r) \/ LastStatement(r) \/ StatementFails(r) \/ Loaded(r)

Next ==
  \/ Expire
  \/ \E r \in Requests : Arrive(r) \/ TooMany(r) \/ Handle(r) \/ AcquireTimeout(r) \/ Leave(r)

Spec == Init /\ [][Next]_vars

\* Continuations run, and the query timeout ends a statement that does not end.
FairSpec == Spec /\ \A r \in Requests : WF_vars(Handle(r))

-----------------------------------------------------------------------------
\* A request under way: it stands at a step of its query.
Underway == {"run", "lease", "loaded"}

Statuses == {0, 200, 304, 400, 404, 429, 500, 503}
Reasons  == {NoReason, "INVALID_QUERY_PARAMS", "INVALID_RANGE",
             "UNKNOWN_INDICATOR", "UNKNOWN_AREA_TYPE", "UNKNOWN_CATEGORY"}

\* Every variable stays in its domain.
TypeOK ==
  /\ holders \subseteq Requests /\ queue \in Seq(Requests) /\ closed = FALSE
  /\ caching \in BOOLEAN
  /\ query \in [Requests -> Queries \cup {NoQuery}]
  /\ pc \in [Requests -> {"idle", "answered"} \cup Underway]
  /\ at \in [Requests -> Nat] /\ step \in [Requests -> Nat] /\ left \in [Requests -> 0..3]
  /\ answer \in [Requests -> [status : Statuses, reason : Reasons]]

\* What one query deserves, said without steps and caches: the first name that
\* is not in the rows decides.
Deserves(q) ==
  LET Bad(reason) == [status |-> 400, reason |-> reason]
      namesFirst  == q.route \in {"timeseries", "ranking", "areas", "categories"}
      areaType    == \/ namesFirst
                     \/ q.route \in {"years", "indicators"} /\ q.areaType # NoText
      known       == {row[3] : row \in {w \in Rows : <<w[1], w[2]>> = <<q.indicator, q.areaType>>}}
  IN CASE q.fromAfterTo -> Bad("INVALID_RANGE")
       [] ~q.fromAfterTo /\ namesFirst /\ q.indicator \notin Indicators -> Bad("UNKNOWN_INDICATOR")
       [] q.route = "indicatorMeta" /\ q.indicator \notin Indicators -> [status |-> 404, reason |-> NoReason]
       [] q.route = "yearMeta" /\ IntOf[q.year] \notin Years -> [status |-> 404, reason |-> NoReason]
       [] OTHER -> IF areaType /\ q.areaType \notin AreaTypes THEN Bad("UNKNOWN_AREA_TYPE")
                   ELSE IF namesFirst /\ ~(q.categories \subseteq known) THEN Bad("UNKNOWN_CATEGORY")
                   ELSE [status |-> 200, reason |-> NoReason]

RightAnswer(item) == Deserves(ToQuery(item))

\* What a request deserves: what the first of its items deserves that does not
\* deserve to be found.
RightReply(q) ==
  LET wrong == {n \in 1..Len(q.items) : RightAnswer(q.items[n]).status # 200}
      first == CHOOSE n \in wrong : \A k \in wrong : n <= k
      isCached == /\ ~q.bulk /\ q.items[1].route # "health"
                  /\ \E t \in ToSet(q.ifNoneMatch) : (~t.star /\ t.etagOf = q.items) \/ (t.star /\ ~t.weak)
  IN IF ~RequestValid(q.items, q.bulk) THEN [status |-> 400, reason |-> "INVALID_QUERY_PARAMS"]
     ELSE IF wrong # {} THEN RightAnswer(q.items[first])
     ELSE [status |-> IF isCached THEN 304 ELSE 200, reason |-> NoReason]

\* A request that does not fail is answered as the rows demand, whatever the
\* caches hold, whoever filled them and however the requests interleave: what
\* the schema does not accept is refused, bad names are refused with the reason
\* that comes first, good ones never, and "not modified" is said only of the
\* very body the client has.
AnswersAreRight ==
  \A r \in Requests :
    pc[r] = "answered" /\ answer[r].status \notin {429, 500, 503} => answer[r] = RightReply(query[r])

\* Requests with unknown names cannot make the caches grow.
CacheBounded ==
  \A e \in cache :
    e[1][1] = "categories" => \E i \in Indicators, a \in AreaTypes : e[1] = CacheKey(i, a)

\* Every request is answered although no acquire timer fires: no request waits
\* for a lease while it holds one, so they cannot block one another.
EveryRequestAnswers == \A r \in Requests : pc[r] = "run" ~> pc[r] = "answered"

-----------------------------------------------------------------------------
(* Why the answers are right: the inductive invariant *)

\* An entry is true if it is what the database would say, for names it has.
TrueEntry(e) ==
  \/ e = <<<<"areaTypes">>, AreaTypes>>
  \/ e = <<<<"indicators">>, Indicators>>
  \/ \E i \in Indicators, a \in AreaTypes : e = <<CacheKey(i, a), Categories(i, a)>>

CacheTrue == \A e \in cache : TrueEntry(e)

\* A step goes through if the rows hold what it wants; otherwise it refuses.
Passes(s) == s.kind # "badRange" /\ s.wanted \subseteq s.rows

RefusalOf(s) ==
  IF s.kind = "badRange" THEN [status |-> 400, reason |-> "INVALID_RANGE"]
  ELSE [status |-> IF s.kind = "load" THEN 400 ELSE 404, reason |-> s.reason]

\* A request under way stands at a step of a query that its schema accepts;
\* all items and steps before that one went through.
FollowsItsSteps(r) ==
  pc[r] \in Underway =>
    LET q == query[r] IN
    /\ RequestValid(q.items, q.bulk)
    /\ at[r] \in 1..Len(q.items) /\ step[r] \in 1..Len(ItemSteps(q, at[r]))
    /\ \A n \in 1..at[r]-1 : RightAnswer(q.items[n]).status = 200
    /\ \A k \in 1..step[r]-1 : Passes(ItemSteps(q, at[r])[k])
    /\ pc[r] # "run" => Current(r).kind # "badRange"

\* A request holds a lease, or waits for one, only while a step of it goes to
\* the database, and then it does one of both: nothing is kept from one step
\* to the next, so no request waits for a lease while it holds another.
LeasesMatchSteps ==
  /\ \A r \in Requests : pc[r] = "lease" <=> r \in holders \cup ToSet(queue)
  /\ holders \cap ToSet(queue) = {}
  /\ \A i, j \in 1..Len(queue) : queue[i] = queue[j] => i = j
  /\ \A r \in Requests : pc[r] = "lease" => left[r] > 0
  /\ IsFiniteSet(holders) /\ Cardinality(holders) <= PoolSize
  /\ queue # <<>> => Cardinality(holders) = PoolSize

RequestsInv ==
  /\ TypeOK /\ CacheTrue /\ LeasesMatchSteps /\ AnswersAreRight
  /\ \A r \in Requests : FollowsItsSteps(r) /\ (pc[r] # "idle" => query[r] \in Ask[r])
=============================================================================
