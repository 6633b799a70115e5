----------------------------- MODULE QueryParams -----------------------------
(***************************************************************************)
(* The parameters of the API's requests: what the schemas accept           *)
(* (src/schemas/statistics.ts) and what the mappers make of it             *)
(* (src/app/mappers/statistics.mapper.ts).  Operators only.                *)
(*                                                                         *)
(* The parameters of a request are a record that has those which are       *)
(* given, each as a sequence of texts: one for a single value, the parts   *)
(* between the commas for a list in a query string, the elements for an    *)
(* array in a bulk request.                                                *)
(***************************************************************************)
EXTENDS Integers, SequencesExt

CONSTANTS
  TextLength,  \* the length of a text
  Trimmed,     \* a text without the space around it
  IntOf        \* the integer a text is coerced to, for those that can be

QUERY_TEXT_MAX == 120
QUERY_AREA_MAX == 200
BULK_ITEMS_MAX == 25

PaginationLimits == 1..500
RankingLimits    == 1..100

-----------------------------------------------------------------------------
(* The schemas *)

\* The parameters of a query, with those that must be given
Params(required, optional) == [required |-> required, optional |-> optional]

TimeseriesQuery == Params({"indicator", "areaType", "areas"}, {"categories", "from", "to", "limit", "offset"})
AreasQuery      == Params({"indicator", "areaType"}, {"category", "like"})
CategoriesQuery == Params({"indicator", "areaType"}, {})
RankingQuery    == Params({"indicator", "areaType", "year"}, {"categories", "areas", "limit", "order"})
YearsQuery      == Params({}, {"indicator", "areaType", "category", "area", "limit", "offset"})
IndicatorsQuery == Params({}, {"areaType", "area", "year", "limit", "offset"})

IndicatorPathParams == Params({"indicator"}, {})
YearPathParams      == Params({"year"}, {})

RouteSchema ==
  [timeseries |-> TimeseriesQuery, areas |-> AreasQuery, categories |-> CategoriesQuery,
   ranking |-> RankingQuery, indicators |-> IndicatorsQuery, indicatorMeta |-> IndicatorPathParams,
   years |-> YearsQuery, yearMeta |-> YearPathParams,
   areaTypes |-> Params({}, {}), capabilities |-> Params({}, {}), health |-> Params({}, {})]

Required(item)   == RouteSchema[item.route].required
KnownNames(item) == Required(item) \cup RouteSchema[item.route].optional

IsText(texts, max) == Len(texts) = 1 /\ TextLength[texts[1]] \in 1..max

\* z.coerce.number().int(), with bounds; an array is no number.
IsInt(texts) == Len(texts) = 1 /\ texts[1] \in DOMAIN IntOf
IsIntIn(texts, bounds) == IsInt(texts) /\ IntOf[texts[1]] \in bounds

\* The tokens of a list in a query string are trimmed before they are measured,
\* the elements of an array in a bulk request are not.
IsList(texts, max, bulk) ==
  /\ texts # <<>>
  /\ \A text \in ToSet(texts) :
       TextLength[IF bulk THEN text ELSE Trimmed[text]] \in 1..max

Accepts(route, name, texts, bulk) ==
  CASE name \in {"indicator", "areaType", "category", "like"} -> IsText(texts, QUERY_TEXT_MAX)
    [] name = "area"       -> IsText(texts, QUERY_AREA_MAX)
    [] name = "areas"      -> IsList(texts, QUERY_AREA_MAX, bulk)
    [] name = "categories" -> IsList(texts, QUERY_TEXT_MAX, bulk)
    [] name \in {"year", "from", "to"} -> IsInt(texts)
    [] name = "limit"  -> IsIntIn(texts, IF route = "ranking" THEN RankingLimits ELSE PaginationLimits)
    [] name = "offset" -> IsIntIn(texts, Nat)
    [] name = "order"  -> texts \in {<<"asc">>, <<"desc">>}

\* A parameter the route does not know is dropped.
ItemValid(item, bulk) ==
  /\ Required(item) \subseteq DOMAIN item.params
  /\ \A name \in DOMAIN item.params \cap KnownNames(item) :
       Accepts(item.route, name, item.params[name], bulk)

BulkRoutes == {"timeseries", "ranking", "capabilities"}

RequestValid(items, bulk) ==
  /\ bulk => Len(items) \in 1..BULK_ITEMS_MAX /\ \A item \in ToSet(items) : item.route \in BulkRoutes
  /\ \A item \in ToSet(items) : ItemValid(item, bulk)

-----------------------------------------------------------------------------
(* The mappers *)

Given(item, name) == name \in KnownNames(item) \cap DOMAIN item.params

\* What a query has instead of a text that is not given
NoText == ""

Text(item, name) == IF Given(item, name) THEN item.params[name][1] ELSE NoText

\* parseCsvParam and its like for arrays: trimmed, without duplicates
Names(item, name) == IF Given(item, name) THEN {Trimmed[t] : t \in ToSet(item.params[name])} ELSE {}

\* The query that the service gets, as far as it validates it
ToQuery(item) ==
  [route |-> item.route, indicator |-> Text(item, "indicator"), areaType |-> Text(item, "areaType"),
   categories |-> Names(item, "categories") \cup ({Text(item, "category")} \ {NoText}),
   year |-> Text(item, "year"),
   fromAfterTo |-> /\ Given(item, "from") /\ Given(item, "to")
                   /\ IntOf[Text(item, "from")] > IntOf[Text(item, "to")]]
=============================================================================
