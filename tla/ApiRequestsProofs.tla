-------------------------- MODULE ApiRequestsProofs --------------------------
(***************************************************************************)
(* The answers of the API, for every set of requests, pool size, rows and  *)
(* queries.  First the steps of one item: whoever does them one after the  *)
(* other, and stops at the first that does not go through, gives the right *)
(* answer.  Then RequestsInv, which says that this is what every request   *)
(* does, whatever the caches hold and however the requests interleave.     *)
(***************************************************************************)
EXTENDS ApiRequests, QueueLemmas, FiniteSetTheorems, TLAPS

-----------------------------------------------------------------------------
(* Steps that lead to an answer *)

OK == [status |-> 200, reason |-> NoReason]
Bad(reason) == [status |-> 400, reason |-> reason]
Missing == [status |-> 404, reason |-> NoReason]

\* A step that is reached leads to the answer v: it is well formed, puts what
\* is true into the cache, and if it does not go through then v is its refusal.
StepLeadsTo(s, v) ==
  /\ s.kind \in {"badRange", "load", "data", "freshness"} /\ s.reason \in Reasons
  /\ s.kind # "badRange" => s.statements \in 1..3
  /\ s.kind = "load" => TrueEntry(<<s.key, s.rows>>)
  /\ ~Passes(s) => v = RefusalOf(s)

AllPass(steps) == \A k \in 1..Len(steps) : Passes(steps[k])

\* Every step of a sequence does so when it is reached.
LeadTo(steps, v) ==
  \A k \in 1..Len(steps) : (\A j \in 1..k-1 : Passes(steps[j])) => StepLeadsTo(steps[k], v)

\* One sequence of steps after another: the second matters if the first passes.
LEMMA StepsInTurn ==
  ASSUME NEW S, NEW s \in Seq(S), NEW t \in Seq(S), NEW v,
         LeadTo(s, v), AllPass(s) => LeadTo(t, v)
  PROVE  /\ s \o t \in Seq(S) /\ Len(s \o t) = Len(s) + Len(t)
         /\ LeadTo(s \o t, v)
         /\ AllPass(s \o t) <=> AllPass(s) /\ AllPass(t)
<1> DEFINE u == s \o t
<1>1. /\ u \in Seq(S) /\ Len(u) = Len(s) + Len(t)
      /\ \A i \in 1..Len(s) + Len(t) : u[i] = IF i <= Len(s) THEN s[i] ELSE t[i - Len(s)]
  BY ConcatProperties
<1>2. Len(s) \in Nat /\ Len(t) \in Nat
  OBVIOUS
<1> HIDE DEF u
<1>3. \A i \in 1..Len(s) : u[i] = s[i]
  BY <1>1, <1>2
<1>4. \A i \in 1..Len(t) : u[Len(s) + i] = t[i] /\ Len(s) + i \in 1..Len(u)
  BY <1>1, <1>2
<1>5. AllPass(u) <=> AllPass(s) /\ AllPass(t)
  <2>1. ASSUME AllPass(u) PROVE AllPass(s) /\ AllPass(t)
    BY <1>1, <1>2, <1>3, <1>4, <2>1 DEF AllPass
  <2>2. ASSUME AllPass(s), AllPass(t) PROVE AllPass(u)
    BY <1>1, <1>2, <2>2 DEF AllPass
  <2> QED BY <2>1, <2>2
<1>6. ASSUME NEW k \in 1..Len(u), \A j \in 1..k-1 : Passes(u[j])
      PROVE  StepLeadsTo(u[k], v)
  <2>1. CASE k \in 1..Len(s)
    <3>1. \A j \in 1..k-1 : Passes(s[j])
      BY <1>2, <1>3, <1>6, <2>1
    <3> QED BY <1>3, <2>1, <3>1 DEF LeadTo
  <2>2. CASE k \notin 1..Len(s)
    <3>1. PICK i \in 1..Len(t) : k = Len(s) + i
      <4>1. k - Len(s) \in 1..Len(t)
        BY <1>1, <1>2, <2>2
      <4>2. k \in Int /\ k = Len(s) + (k - Len(s))
        BY <1>1, <1>2
      <4> QED BY <4>1, <4>2
    <3>2. AllPass(s)
      BY <1>2, <1>3, <1>6, <3>1 DEF AllPass
    <3>3. ASSUME NEW j \in 1..i-1 PROVE Passes(t[j])
      <4>1. j \in 1..Len(t) /\ Len(s) + j \in 1..k-1
        BY <1>2, <3>1
      <4> QED BY <4>1, <1>4, <1>6
    <3> QED BY <1>4, <3>1, <3>2, <3>3 DEF LeadTo
  <2> QED BY <2>1, <2>2
<1> QED BY <1>1, <1>5, <1>6 DEF u, LeadTo

\* No step, and a single one.
LEMMA NoStep ==
  ASSUME NEW S, NEW v
  PROVE  <<>> \in Seq(S) /\ Len(<<>>) = 0 /\ LeadTo(<<>>, v) /\ AllPass(<<>>)
BY DEF LeadTo, AllPass

LEMMA OneStep ==
  ASSUME NEW S, NEW s \in S, NEW v, StepLeadsTo(s, v)
  PROVE  <<s>> \in Seq(S) /\ Len(<<s>>) = 1 /\ LeadTo(<<s>>, v) /\ (AllPass(<<s>>) <=> Passes(s))
<1>1. <<s>> \in Seq(S) /\ Len(<<s>>) = 1 /\ <<s>>[1] = s
  OBVIOUS
<1> QED BY <1>1 DEF LeadTo, AllPass

-----------------------------------------------------------------------------
(* The steps of an item *)

IndicatorLoad(i) == Load(<<"indicators">>, Indicators, 2, {i}, "UNKNOWN_INDICATOR")
AreaTypeLoad(a)  == Load(<<"areaTypes">>, AreaTypes, 1, {a}, "UNKNOWN_AREA_TYPE")
CategoryLoad(i, a, cs) == Load(CacheKey(i, a), Categories(i, a), 1, cs, "UNKNOWN_CATEGORY")

\* The steps a query can have
StepSet(asked) ==
  {IndicatorLoad(asked.indicator), AreaTypeLoad(asked.areaType),
   CategoryLoad(asked.indicator, asked.areaType, asked.categories),
   Data(1, Indicators, {asked.indicator}), Data(1, Years, {IntOf[asked.year]}),
   List(1), List(2), List(3), Freshness, BadRange}

\* What is asked of the database without a name goes through.
LEMMA ListsPass ==
  ASSUME NEW v
  PROVE  /\ \A n \in 1..3 : StepLeadsTo(List(n), v) /\ Passes(List(n))
         /\ StepLeadsTo(Freshness, v) /\ Passes(Freshness)
BY DEF StepLeadsTo, Passes, List, Freshness, Data, Reasons

\* The name of an area type is checked.
LEMMA AreaTypeIsChecked ==
  ASSUME NEW asked, NEW v, LET a == asked.areaType IN
         a \notin AreaTypes => v = Bad("UNKNOWN_AREA_TYPE")
  PROVE  LET steps == KnownAreaType(asked.areaType) IN
         /\ steps \in Seq(StepSet(asked)) /\ Len(steps) = 1 /\ LeadTo(steps, v)
         /\ AllPass(steps) <=> asked.areaType \in AreaTypes
<1> DEFINE s == AreaTypeLoad(asked.areaType)
<1>1. StepLeadsTo(s, v) /\ (Passes(s) <=> asked.areaType \in AreaTypes)
  BY DEF AreaTypeLoad, Load, StepLeadsTo, Passes, RefusalOf, TrueEntry, Reasons, Bad
<1>2. s \in StepSet(asked) /\ KnownAreaType(asked.areaType) = <<s>>
  BY DEF StepSet, KnownAreaType, AreaTypeLoad
<1> HIDE DEF s
<1> QED BY <1>1, <1>2, OneStep

\* The names of an indicator and an area type are checked in this order.
LEMMA NamesAreChecked ==
  ASSUME NEW asked, NEW v, LET i == asked.indicator  a == asked.areaType IN
         /\ i \notin Indicators => v = Bad("UNKNOWN_INDICATOR")
         /\ i \in Indicators /\ a \notin AreaTypes =>
              v = Bad("UNKNOWN_AREA_TYPE")
  PROVE  LET steps == Known(asked.indicator, asked.areaType) IN
         /\ steps \in Seq(StepSet(asked)) /\ Len(steps) = 2 /\ LeadTo(steps, v)
         /\ AllPass(steps) <=> asked.indicator \in Indicators /\ asked.areaType \in AreaTypes
<1> DEFINE s == IndicatorLoad(asked.indicator)
           t == KnownAreaType(asked.areaType)
<1>1. StepLeadsTo(s, v) /\ (Passes(s) <=> asked.indicator \in Indicators)
  BY DEF IndicatorLoad, Load, StepLeadsTo, Passes, RefusalOf, TrueEntry, Reasons, Bad
<1>2. s \in StepSet(asked) /\ Known(asked.indicator, asked.areaType) = <<s>> \o t
  BY DEF StepSet, Known, IndicatorLoad
<1>3. /\ t \in Seq(StepSet(asked)) /\ Len(t) = 1
      /\ AllPass(t) <=> asked.areaType \in AreaTypes
      /\ asked.indicator \in Indicators => LeadTo(t, v)
  <2>1. CASE asked.indicator \in Indicators
    BY <2>1, AreaTypeIsChecked
  <2>2. CASE asked.indicator \notin Indicators
    BY <2>2, AreaTypeIsChecked
  <2> QED BY <2>1, <2>2
<1> HIDE DEF s, t
<1>4. /\ <<s>> \in Seq(StepSet(asked)) /\ Len(<<s>>) = 1 /\ LeadTo(<<s>>, v)
      /\ AllPass(<<s>>) <=> asked.indicator \in Indicators
  BY <1>1, <1>2, OneStep
<1>5. /\ <<s>> \o t \in Seq(StepSet(asked)) /\ Len(<<s>> \o t) = Len(<<s>>) + Len(t)
      /\ LeadTo(<<s>> \o t, v)
      /\ AllPass(<<s>> \o t) <=> AllPass(<<s>>) /\ AllPass(t)
  <2>1. AllPass(<<s>>) => LeadTo(t, v)
    BY <1>3, <1>4
  <2> QED BY <1>3, <1>4, <2>1, StepsInTurn
<1> QED BY <1>2, <1>3, <1>4, <1>5
\* Names and then categories: what a time series, a ranking or areas need.
LEMMA CategoriesAreChecked ==
  ASSUME NEW asked, NEW v,
         LET i == asked.indicator  a == asked.areaType  cs == asked.categories IN
         /\ i \notin Indicators => v = Bad("UNKNOWN_INDICATOR")
         /\ i \in Indicators /\ a \notin AreaTypes =>
              v = Bad("UNKNOWN_AREA_TYPE")
         /\ i \in Indicators /\ a \in AreaTypes /\ ~(cs \subseteq Categories(i, a)) =>
              v = Bad("UNKNOWN_CATEGORY")
  PROVE  LET i == asked.indicator  a == asked.areaType  cs == asked.categories
             steps == Validations(i, a, cs) IN
         /\ steps \in Seq(StepSet(asked)) /\ Len(steps) \in 2..3 /\ LeadTo(steps, v)
         /\ AllPass(steps) <=>
              i \in Indicators /\ a \in AreaTypes /\ cs \subseteq Categories(i, a)
<1> DEFINE i == asked.indicator
           a == asked.areaType
           cs == asked.categories
           s == CategoryLoad(i, a, cs)
           k == Known(i, a)
           t == KnownCategories(i, a, cs)
<1>1. /\ k \in Seq(StepSet(asked)) /\ Len(k) = 2 /\ LeadTo(k, v)
      /\ AllPass(k) <=> i \in Indicators /\ a \in AreaTypes
  BY NamesAreChecked
<1>2. /\ t \in Seq(StepSet(asked)) /\ Len(t) \in 0..1
      /\ AllPass(t) <=> cs \subseteq Categories(i, a)
      /\ AllPass(k) => LeadTo(t, v)
  <2>1. CASE cs = {}
    <3>1. t = <<>>
      BY <2>1 DEF KnownCategories
    <3> HIDE DEF t, k
    <3> QED BY <2>1, <3>1, NoStep
  <2>2. CASE cs # {}
    <3>1. s \in StepSet(asked) /\ t = <<s>>
      BY <2>2 DEF StepSet, KnownCategories, CategoryLoad
    <3>2. Passes(s) <=> cs \subseteq Categories(i, a)
      BY DEF CategoryLoad, Load, Passes
    <3>3. ASSUME i \in Indicators, a \in AreaTypes PROVE StepLeadsTo(s, v)
      <4>1. TrueEntry(<<s.key, s.rows>>)
        BY <3>3 DEF CategoryLoad, Load, TrueEntry
      <4> QED BY <3>3, <4>1 DEF CategoryLoad, Load, StepLeadsTo, Passes, RefusalOf, Reasons, Bad
    <3>4. AllPass(<<s>>) <=> Passes(s)
      <4> HIDE DEF s
      <4> QED BY DEF AllPass
    <3> HIDE DEF s, t, k
    <3>5. <<s>> \in Seq(StepSet(asked)) /\ Len(<<s>>) = 1
      BY <3>1
    <3>6. AllPass(k) => LeadTo(t, v)
      BY <1>1, <3>1, <3>3, OneStep
    <3> QED BY <3>1, <3>2, <3>4, <3>5, <3>6
  <2> QED BY <2>1, <2>2
<1>3. Validations(i, a, cs) = k \o t
  BY DEF Validations
<1> HIDE DEF k, t
<1>4. /\ k \o t \in Seq(StepSet(asked)) /\ Len(k \o t) = Len(k) + Len(t)
      /\ LeadTo(k \o t, v)
      /\ AllPass(k \o t) <=> AllPass(k) /\ AllPass(t)
  BY <1>1, <1>2, StepsInTurn
<1>5. Len(k \o t) \in 2..3
  <2> DEFINE n == Len(t)
  <2>1. n \in 0..1 /\ Len(k \o t) = 2 + n
    BY <1>1, <1>2, <1>4
  <2> HIDE DEF n
  <2> QED BY <2>1
<1> QED BY <1>1, <1>2, <1>3, <1>4, <1>5

\* What a query is, as far as its steps depend on it
IsQuery(q) ==
  /\ q.route \in DOMAIN RouteSchema /\ q.fromAfterTo \in BOOLEAN
  /\ q.route # "timeseries" => ~q.fromAfterTo
  /\ q.route \notin {"timeseries", "ranking", "areas", "years"} => q.categories = {}

\* Only a time series has a range, and only the routes that check categories
\* know of any.
LEMMA WhatIsAsked ==
  ASSUME NEW item, item.route \in DOMAIN RouteSchema
  PROVE  IsQuery(ToQuery(item))
<1> USE DEF ToQuery, Given, KnownNames, Required, RouteSchema, Params, TimeseriesQuery, AreasQuery,
            CategoriesQuery, RankingQuery, YearsQuery, IndicatorsQuery, IndicatorPathParams, YearPathParams
<1>1. ToQuery(item).route = item.route /\ ToQuery(item).fromAfterTo \in BOOLEAN
  OBVIOUS
<1>2. ASSUME item.route # "timeseries" PROVE ~Given(item, "from")
  BY <1>2
<1>3. ASSUME item.route \notin {"timeseries", "ranking", "areas", "years"}
      PROVE  ~Given(item, "categories") /\ ~Given(item, "category")
  BY <1>3
<1> QED BY <1>1, <1>2, <1>3 DEF IsQuery, Names, Text
\* Good steps, in front of a list that is always there.
LEMMA ThenAList ==
  ASSUME NEW S, NEW s \in Seq(S), NEW l \in S, NEW v, LeadTo(s, v), StepLeadsTo(l, v), Passes(l)
  PROVE  LET steps == s \o <<l>> IN
         /\ steps \in Seq(S) /\ Len(steps) = Len(s) + 1 /\ Len(s) \in Nat
         /\ LeadTo(steps, v) /\ (AllPass(steps) <=> AllPass(s))
<1>1. <<l>> \in Seq(S) /\ Len(<<l>>) = 1 /\ LeadTo(<<l>>, v) /\ AllPass(<<l>>)
  BY OneStep
<1>2. /\ s \o <<l>> \in Seq(S) /\ Len(s \o <<l>>) = Len(s) + Len(<<l>>)
      /\ LeadTo(s \o <<l>>, v)
      /\ AllPass(s \o <<l>>) <=> AllPass(s) /\ AllPass(<<l>>)
  BY <1>1, StepsInTurn
<1> QED BY <1>1, <1>2


\* The categories of an indicator and an area type, as Deserves has them
Named(i, a) == {row[3] : row \in {w \in Rows : <<w[1], w[2]>> = <<i, a>>}}

LEMMA CategoriesAreNamed ==
  ASSUME NEW i, NEW a
  PROVE  Named(i, a) = Categories(i, a)
BY DEF Named, Categories

\* What a query deserves, route by route.
LEMMA Deserved ==
  ASSUME NEW q, IsQuery(q)
  PROVE  /\ q.route = "timeseries" /\ q.fromAfterTo => Deserves(q) = Bad("INVALID_RANGE")
         /\ q.route \in {"timeseries", "ranking", "areas"} /\ ~q.fromAfterTo =>
              Deserves(q) = IF q.indicator \notin Indicators THEN Bad("UNKNOWN_INDICATOR")
                  ELSE IF q.areaType \notin AreaTypes THEN Bad("UNKNOWN_AREA_TYPE")
                  ELSE IF q.categories \subseteq Categories(q.indicator, q.areaType) THEN OK
                  ELSE Bad("UNKNOWN_CATEGORY")
         /\ q.route = "categories" =>
              Deserves(q) = IF q.indicator \notin Indicators THEN Bad("UNKNOWN_INDICATOR")
                  ELSE IF q.areaType \notin AreaTypes THEN Bad("UNKNOWN_AREA_TYPE") ELSE OK
         /\ q.route \in {"indicators", "years"} =>
              Deserves(q) = IF q.areaType # NoText /\ q.areaType \notin AreaTypes
                            THEN Bad("UNKNOWN_AREA_TYPE") ELSE OK
         /\ q.route = "indicatorMeta" => Deserves(q) = IF q.indicator \in Indicators THEN OK ELSE Missing
         /\ q.route = "yearMeta" => Deserves(q) = IF IntOf[q.year] \in Years THEN OK ELSE Missing
         /\ q.route \in {"capabilities", "areaTypes", "health"} => Deserves(q) = OK
<1> USE DEF Deserves, IsQuery, OK, Bad, Missing
<1>1. ASSUME q.route = "timeseries", q.fromAfterTo PROVE Deserves(q) = Bad("INVALID_RANGE")
  BY <1>1
<1>2. ASSUME q.route \in {"timeseries", "ranking", "areas"}, ~q.fromAfterTo
      PROVE  Deserves(q) = IF q.indicator \notin Indicators THEN Bad("UNKNOWN_INDICATOR")
                           ELSE IF q.areaType \notin AreaTypes THEN Bad("UNKNOWN_AREA_TYPE")
                           ELSE IF q.categories \subseteq Named(q.indicator, q.areaType) THEN OK
                           ELSE Bad("UNKNOWN_CATEGORY")
  <2>1. CASE q.route = "timeseries"
    BY <1>2, <2>1 DEF Named
  <2>2. CASE q.route = "ranking"
    BY <1>2, <2>2 DEF Named
  <2>3. CASE q.route = "areas"
    BY <1>2, <2>3 DEF Named
  <2> QED BY <1>2, <2>1, <2>2, <2>3
<1>3. ASSUME q.route = "categories"
      PROVE  Deserves(q) = IF q.indicator \notin Indicators THEN Bad("UNKNOWN_INDICATOR")
                           ELSE IF q.areaType \notin AreaTypes THEN Bad("UNKNOWN_AREA_TYPE") ELSE OK
  BY <1>3
<1>4. ASSUME q.route \in {"indicators", "years"}
      PROVE  Deserves(q) = IF q.areaType # NoText /\ q.areaType \notin AreaTypes
                           THEN Bad("UNKNOWN_AREA_TYPE") ELSE OK
  BY <1>4
<1>5. ASSUME q.route = "indicatorMeta"
      PROVE  Deserves(q) = IF q.indicator \in Indicators THEN OK ELSE Missing
  BY <1>5
<1>6. ASSUME q.route = "yearMeta"
      PROVE  Deserves(q) = IF IntOf[q.year] \in Years THEN OK ELSE Missing
  BY <1>6
<1>7. ASSUME q.route \in {"capabilities", "areaTypes", "health"} PROVE Deserves(q) = OK
  BY <1>7
<1>8. Named(q.indicator, q.areaType) = Categories(q.indicator, q.areaType)
  BY CategoriesAreNamed
<1> HIDE DEF Deserves, OK, Bad, Missing, IsQuery
<1> QED BY <1>1, <1>2, <1>3, <1>4, <1>5, <1>6, <1>7, <1>8

\* The steps of a query, done in order until one does not go through, give the
\* answer that the query deserves.
LEMMA StepsDecide ==
  ASSUME NEW q, IsQuery(q)
  PROVE  LET steps == Steps(q)  v == Deserves(q) IN
         /\ steps \in Seq(StepSet(q)) /\ Len(steps) > 0
         /\ LeadTo(steps, v)
         /\ AllPass(steps) => v = OK
<1> DEFINE v == Deserves(q)
           i == q.indicator
           a == q.areaType
           cs == q.categories
           Good(s) == /\ s \in Seq(StepSet(q)) /\ Len(s) > 0 /\ LeadTo(s, v)
                      /\ AllPass(s) => v = OK
<1> SUFFICES Good(Steps(q))
  OBVIOUS
<1>1. q.route \in DOMAIN RouteSchema /\ q.fromAfterTo \in BOOLEAN
      /\ (q.route # "timeseries" => ~q.fromAfterTo)
  BY DEF IsQuery
<1>2. /\ \A n \in 1..3 : List(n) \in StepSet(q)
      /\ BadRange \in StepSet(q)
  BY DEF StepSet
<1>3. \A n \in 1..3 : StepLeadsTo(List(n), v) /\ Passes(List(n))
  BY ListsPass
<1>4. CASE q.route \in {"timeseries", "ranking", "areas"}
  <2> DEFINE w == Validations(i, a, cs)
             n == IF q.route = "timeseries" THEN 2 ELSE 1
             l == w \o <<List(n)>>
  <2>1. CASE ~q.fromAfterTo
    <3>1. v = IF i \notin Indicators THEN Bad("UNKNOWN_INDICATOR")
              ELSE IF a \notin AreaTypes THEN Bad("UNKNOWN_AREA_TYPE")
              ELSE IF cs \subseteq Categories(i, a) THEN OK
              ELSE Bad("UNKNOWN_CATEGORY")
      BY <1>4, <2>1, Deserved
    <3> HIDE DEF v
    <3>2. w \in Seq(StepSet(q)) /\ Len(w) > 0 /\ LeadTo(w, v) /\ (AllPass(w) => v = OK)
      <4>1. /\ i \notin Indicators => v = Bad("UNKNOWN_INDICATOR")
            /\ i \in Indicators /\ a \notin AreaTypes => v = Bad("UNKNOWN_AREA_TYPE")
            /\ i \in Indicators /\ a \in AreaTypes /\ ~(cs \subseteq Categories(i, a)) =>
                 v = Bad("UNKNOWN_CATEGORY")
            /\ i \in Indicators /\ a \in AreaTypes /\ cs \subseteq Categories(i, a) => v = OK
        BY <3>1
      <4>2. /\ w \in Seq(StepSet(q)) /\ Len(w) \in 2..3 /\ LeadTo(w, v)
            /\ AllPass(w) <=> i \in Indicators /\ a \in AreaTypes /\ cs \subseteq Categories(i, a)
        BY <4>1, CategoriesAreChecked
      <4> HIDE DEF w
      <4>3. Len(w) > 0
        <5> DEFINE len == Len(w)
        <5>1. len \in 2..3
          BY <4>2
        <5> HIDE DEF len
        <5>2. len > 0
          BY <5>1
        <5> QED BY <5>2 DEF len
      <4>4. AllPass(w) => v = OK
        BY <4>1, <4>2, Zenon
      <4> QED BY <4>2, <4>3, <4>4, Zenon
    <3>3. Steps(q) = l
      <4>1. CASE q.route = "timeseries"
        <5>1. Steps(q) = <<>> \o w \o <<List(2)>>
          BY <2>1, <4>1 DEF Steps
        <5>2. <<>> \o w = w
          BY <3>2, ConcatEmptySeq
        <5> QED BY <4>1, <5>1, <5>2
      <4>2. CASE q.route \in {"ranking", "areas"}
        BY <4>2 DEF Steps
      <4> QED BY <1>4, <4>1, <4>2
    <3> HIDE DEF w
    <3> QED BY <1>2, <1>3, <3>2, <3>3, ThenAList
  <2>2. CASE q.fromAfterTo
    <3>1. v = Bad("INVALID_RANGE") /\ q.route = "timeseries"
      BY <1>1, <2>2, Deserved
    <3>2. Steps(q) = <<BadRange>> \o w \o <<List(2)>>
      BY <2>2, <3>1 DEF Steps
    <3>3. w \in Seq(StepSet(q))
      BY CategoriesAreChecked
    <3> HIDE DEF v, w
    <3>4. StepLeadsTo(BadRange, v) /\ ~Passes(BadRange)
      BY <3>1 DEF StepLeadsTo, BadRange, List, Data, Passes, RefusalOf, Reasons, Bad
    <3>5. /\ <<BadRange>> \in Seq(StepSet(q)) /\ Len(<<BadRange>>) = 1
          /\ LeadTo(<<BadRange>>, v) /\ ~AllPass(<<BadRange>>)
      BY <1>2, <3>4, OneStep
    <3>6. /\ <<BadRange>> \o w \in Seq(StepSet(q))
          /\ LeadTo(<<BadRange>> \o w, v) /\ ~AllPass(<<BadRange>> \o w)
      BY <3>3, <3>5, StepsInTurn
    <3> DEFINE u == <<BadRange>> \o w
    <3> HIDE DEF u
    <3>7. u \in Seq(StepSet(q)) /\ LeadTo(u, v) /\ ~AllPass(u) /\ Steps(q) = u \o <<List(2)>>
      BY <3>2, <3>6 DEF u
    <3>8. List(2) \in StepSet(q) /\ StepLeadsTo(List(2), v) /\ Passes(List(2))
      BY <1>2, <1>3
    <3> QED BY <3>7, <3>8, ThenAList
  <2> QED BY <1>1, <2>1, <2>2
<1>5. CASE q.route = "categories"
  <2> DEFINE w == Known(i, a)
  <2>1. v = IF i \notin Indicators THEN Bad("UNKNOWN_INDICATOR")
            ELSE IF a \notin AreaTypes THEN Bad("UNKNOWN_AREA_TYPE") ELSE OK
    BY <1>5, Deserved
  <2>2. Steps(q) = w \o <<List(1)>>
    BY <1>5 DEF Steps
  <2> HIDE DEF v
  <2>3. w \in Seq(StepSet(q)) /\ LeadTo(w, v) /\ (AllPass(w) => v = OK)
    BY <2>1, NamesAreChecked
  <2> HIDE DEF w
  <2> QED BY <1>2, <1>3, <2>2, <2>3, ThenAList
<1>6. CASE q.route \in {"indicators", "years"}
  <2> DEFINE w == IF a = NoText THEN <<>> ELSE KnownAreaType(a)
  <2>1. v = IF a # NoText /\ a \notin AreaTypes THEN Bad("UNKNOWN_AREA_TYPE") ELSE OK
    BY <1>6, Deserved
  <2>2. Steps(q) = w \o <<List(2)>>
    BY <1>6 DEF Steps
  <2> HIDE DEF v
  <2>3. w \in Seq(StepSet(q)) /\ LeadTo(w, v) /\ (AllPass(w) => v = OK)
    <3>1. CASE a = NoText
      BY <2>1, <3>1, NoStep
    <3>2. CASE a # NoText
      BY <2>1, <3>2, AreaTypeIsChecked
    <3> QED BY <3>1, <3>2
  <2> HIDE DEF w
  <2> QED BY <1>2, <1>3, <2>2, <2>3, ThenAList
<1>7. CASE q.route \in {"indicatorMeta", "yearMeta"}
  <2> DEFINE s == IF q.route = "indicatorMeta" THEN Data(1, Indicators, {i})
                  ELSE Data(1, Years, {IntOf[q.year]})
  <2>1. s \in StepSet(q) /\ Steps(q) = <<s>>
    BY <1>7 DEF StepSet, Steps
  <2>2. v = IF Passes(s) THEN OK ELSE Missing
    <3>1. CASE q.route = "indicatorMeta"
      <4>1. v = IF i \in Indicators THEN OK ELSE Missing
        BY <3>1, Deserved
      <4> QED BY <3>1, <4>1 DEF Passes, Data
    <3>2. CASE q.route = "yearMeta"
      <4>1. v = IF IntOf[q.year] \in Years THEN OK ELSE Missing
        BY <3>2, Deserved
      <4> QED BY <3>2, <4>1 DEF Passes, Data
    <3> QED BY <1>7, <3>1, <3>2
  <2> HIDE DEF v
  <2>3. StepLeadsTo(s, v)
    <3>1. s.kind = "data" /\ s.reason = NoReason /\ s.statements = 1
      BY DEF Data
    <3> HIDE DEF s
    <3>2. ~Passes(s) => v = RefusalOf(s)
      BY <2>2, <3>1 DEF Passes, RefusalOf, Missing
    <3>3. s.kind \in {"badRange", "load", "data", "freshness"} /\ s.reason \in Reasons /\ s.kind # "load"
      BY <3>1 DEF Reasons
    <3>4. s.statements \in 1..3
      <4>1. 1 \in 1..3
        OBVIOUS
      <4> QED BY <3>1, <4>1, Zenon
    <3> QED BY <3>2, <3>3, <3>4 DEF StepLeadsTo
  <2> HIDE DEF s
  <2> QED BY <2>1, <2>2, <2>3, OneStep
<1>8. CASE q.route \in {"capabilities", "areaTypes", "health"}
  <2>1. v = OK
    BY <1>8, Deserved
  <2>2. PICK n \in 1..3 : Steps(q) = <<List(n)>>
    <3>1. Steps(q) = <<List(3)>> \/ Steps(q) = <<List(1)>>
      BY <1>8 DEF Steps
    <3> QED BY <3>1
  <2> HIDE DEF v
  <2> QED BY <1>2, <1>3, <2>1, <2>2, OneStep
<1>9. DOMAIN RouteSchema = {"timeseries", "ranking", "areas", "categories", "indicators", "years",
          "indicatorMeta", "yearMeta", "capabilities", "areaTypes", "health"}
  BY DEF RouteSchema
<1> QED BY <1>1, <1>4, <1>5, <1>6, <1>7, <1>8, <1>9
\* The same for an item of a request, with the freshness headers.
LEMMA ItemIsDecided ==
  ASSUME NEW q, NEW n, q.items[n].route \in DOMAIN RouteSchema
  PROVE  /\ Len(ItemSteps(q, n)) \in Nat \ {0}
         /\ LeadTo(ItemSteps(q, n), RightAnswer(q.items[n]))
         /\ AllPass(ItemSteps(q, n)) => RightAnswer(q.items[n]) = OK
<1> DEFINE asked == ToQuery(q.items[n])
           v == RightAnswer(q.items[n])
           s == Steps(asked)
           S == StepSet(asked)
<1>1. s \in Seq(S) /\ Len(s) > 0 /\ LeadTo(s, v) /\ (AllPass(s) => v = OK)
  <2>1. IsQuery(asked)
    BY WhatIsAsked
  <2> HIDE DEF asked
  <2>2. Len(s) > 0 /\ s \in Seq(S)
    BY <2>1, StepsDecide
  <2> QED BY <2>1, <2>2, StepsDecide DEF RightAnswer, asked
<1>2. Freshness \in S /\ StepLeadsTo(Freshness, v) /\ Passes(Freshness)
  <2>1. Freshness \in S
    BY DEF StepSet
  <2> HIDE DEF v
  <2> QED BY <2>1, ListsPass
<1>3. ItemSteps(q, n) = s \o (IF HasHeaders(q) THEN <<Freshness>> ELSE <<>>)
  BY DEF ItemSteps
<1> HIDE DEF s, S, v, asked
<1>4. CASE HasHeaders(q)
  <2>1. ItemSteps(q, n) = s \o <<Freshness>>
    BY <1>3, <1>4
  <2>2. /\ Len(s \o <<Freshness>>) = Len(s) + 1 /\ Len(s) \in Nat
        /\ LeadTo(s \o <<Freshness>>, v) /\ (AllPass(s \o <<Freshness>>) <=> AllPass(s))
    BY <1>1, <1>2, ThenAList
  <2> QED BY <1>1, <2>1, <2>2 DEF v
<1>5. CASE ~HasHeaders(q)
  <2>1. ItemSteps(q, n) = s
    <3>1. ItemSteps(q, n) = s \o <<>>
      BY <1>3, <1>5
    <3> QED BY <1>1, <3>1, ConcatEmptySeq
  <2> QED BY <1>1, <2>1 DEF v
<1> QED BY <1>4, <1>5

\* What a request asks for, and the steps of its items.
LEMMA WhatRequestsAsk ==
  ASSUME NEW r \in Requests, NEW q \in Ask[r]
  PROVE  /\ q \in Queries /\ q.items \in Seq(ToSet(q.items)) /\ Len(q.items) \in Nat
         /\ ~q.bulk => Len(q.items) = 1
         /\ RequestValid(q.items, q.bulk) => Len(q.items) > 0
         /\ \A n \in 1..Len(q.items) : q.items[n].route \in DOMAIN RouteSchema
         /\ Len(StepsOf[q]) = Len(q.items)
         /\ \A n \in 1..Len(q.items) : StepsOf[q][n] = ItemSteps(q, n)
<1>1. q \in Queries
  BY DEF Queries
<1>2. /\ q.items \in Seq(ToSet(q.items)) /\ (~q.bulk => Len(q.items) = 1)
      /\ \A item \in ToSet(q.items) : item.route \in DOMAIN RouteSchema
  BY AskAssumption
<1>3. Len(q.items) \in Nat
  BY <1>2, LenProperties
<1>4. \A n \in 1..Len(q.items) : q.items[n] \in ToSet(q.items)
  BY <1>2, ElementOfSeq
<1>5. RequestValid(q.items, q.bulk) => Len(q.items) > 0
  <2> DEFINE m == Len(q.items)
  <2>1. q.bulk /\ RequestValid(q.items, q.bulk) => m \in 1..25
    BY DEF RequestValid, BULK_ITEMS_MAX
  <2>2. ~q.bulk => m = 1
    BY <1>2
  <2> HIDE DEF m
  <2>3. RequestValid(q.items, q.bulk) => m > 0
    BY <2>1, <2>2
  <2> QED BY <2>3 DEF m
<1>6. StepsOf[q] = [n \in 1..Len(q.items) |-> ItemSteps(q, n)]
  BY <1>1 DEF StepsOf
<1>7. Len(StepsOf[q]) = Len(q.items)
  <2> DEFINE m == Len(q.items)
             f == [n \in 1..m |-> ItemSteps(q, n)]
  <2>1. m \in Nat
    BY <1>3
  <2> HIDE DEF m
  <2>2. DOMAIN f = 1..m /\ f \in Seq({f[n] : n \in 1..m})
    BY <2>1, IsASeq
  <2>3. Len(f) = m
    BY <2>1, <2>2, LenProperties
  <2> QED BY <1>6, <2>3 DEF m
<1> QED BY <1>1, <1>2, <1>3, <1>4, <1>5, <1>6, <1>7
-----------------------------------------------------------------------------
(* One request at a time *)

\* The step a request under way is at
LEMMA CurrentStep ==
  ASSUME NEW r \in Requests, query[r] \in Ask[r], pc[r] \in Underway, FollowsItsSteps(r)
  PROVE  LET q == query[r]  n == at[r]  k == step[r] IN
         /\ n \in 1..Len(q.items) /\ k \in 1..Len(ItemSteps(q, n))
         /\ Current(r) = ItemSteps(q, n)[k]
         /\ StepLeadsTo(Current(r), RightAnswer(q.items[n]))
<1> DEFINE q == query[r]
           n == at[r]
           k == step[r]
<1>1. /\ n \in 1..Len(q.items) /\ k \in 1..Len(ItemSteps(q, n))
      /\ \A j \in 1..k-1 : Passes(ItemSteps(q, n)[j])
  BY DEF FollowsItsSteps
<1>2. StepsOf[q][n] = ItemSteps(q, n) /\ q.items[n].route \in DOMAIN RouteSchema
  BY <1>1, WhatRequestsAsk
<1>3. Current(r) = ItemSteps(q, n)[k]
  BY <1>2 DEF Current
<1>4. LeadTo(ItemSteps(q, n), RightAnswer(q.items[n]))
  BY <1>2, ItemIsDecided
<1>5. StepLeadsTo(ItemSteps(q, n)[k], RightAnswer(q.items[n]))
  <2> HIDE DEF q, n, k
  <2> QED BY <1>1, <1>4 DEF LeadTo
<1> QED BY <1>1, <1>3, <1>5

\* A step changes what is known of one request only, and nothing out of bounds.
Moves(r) ==
  /\ pc' \in [Requests -> {"idle", "answered"} \cup Underway]
  /\ at' \in [Requests -> Nat] /\ step' \in [Requests -> Nat] /\ left' \in [Requests -> 0..3]
  /\ answer' \in [Requests -> [status : Statuses, reason : Reasons]]
  /\ \A s \in Requests \ {r} :
       /\ pc'[s] = pc[s] /\ answer'[s] = answer[s]
       /\ at'[s] = at[s] /\ step'[s] = step[s] /\ left'[s] = left[s]

LEMMA AnswerMoves ==
  ASSUME TypeOK, NEW r \in Requests, NEW status \in Statuses, NEW reason \in Reasons,
         Answer(r, status, reason)
  PROVE  /\ Moves(r) /\ pc'[r] = "answered"
         /\ answer'[r] = [status |-> status, reason |-> reason]
BY DEF TypeOK, Answer, Moves, Underway

LEMMA GoToMoves ==
  ASSUME TypeOK, NEW r \in Requests, NEW n \in Nat, NEW k \in Nat, GoTo(r, n, k)
  PROVE  Moves(r) /\ pc'[r] = "run" /\ at'[r] = n /\ step'[r] = k
BY DEF TypeOK, GoTo, Moves, Underway

\* Where a request stands after a step of its own, or of another
Stands(r) ==
  /\ FollowsItsSteps(r)
  /\ pc[r] # "idle" => query[r] \in Ask[r]
  /\ pc[r] = "answered" /\ answer[r].status \notin {429, 500, 503} => answer[r] = RightReply(query[r])

LEMMA AllStand == RequestsInv => \A r \in Requests : Stands(r)
BY DEF RequestsInv, AnswersAreRight, Stands

LEMMA OthersStand ==
  ASSUME RequestsInv, NEW r \in Requests, Moves(r),
         \A s \in Requests \ {r} : query'[s] = query[s]
  PROVE  \A s \in Requests \ {r} : Stands(s)'
<1>1. SUFFICES ASSUME NEW s \in Requests \ {r} PROVE Stands(s)'
  OBVIOUS
<1>2. /\ pc'[s] = pc[s] /\ answer'[s] = answer[s] /\ query'[s] = query[s]
      /\ at'[s] = at[s] /\ step'[s] = step[s]
  BY DEF Moves
<1>3. Stands(s)
  BY AllStand
<1>4. FollowsItsSteps(s)'
  BY <1>2, <1>3 DEF Stands, FollowsItsSteps, Current
<1> QED BY <1>2, <1>3, <1>4 DEF Stands

\* The first item that is not to be found is the least.
LEMMA TheFirst ==
  ASSUME NEW W \in SUBSET Nat, NEW n \in W, \A k \in W : n <= k
  PROVE  (CHOOSE m \in W : \A k \in W : m <= k) = n
<1>1. \A m \in W : (\A k \in W : m <= k) => m = n
  OBVIOUS
<1> DEFINE m == CHOOSE m \in W : \A k \in W : m <= k
<1>2. m \in W /\ \A k \in W : m <= k
  OBVIOUS
<1> HIDE DEF m
<1>3. m = n
  BY <1>1, <1>2
<1> QED BY <1>3 DEF m

\* If the items before one are found and that one is not, its answer counts.
LEMMA ReplyOfFirst ==
  ASSUME NEW q, Len(q.items) \in Nat, RequestValid(q.items, q.bulk), NEW n \in 1..Len(q.items),
         RightAnswer(q.items[n]).status # 200,
         \A k \in 1..n-1 : RightAnswer(q.items[k]).status = 200
  PROVE  RightReply(q) = RightAnswer(q.items[n])
<1> DEFINE W == {k \in 1..Len(q.items) : RightAnswer(q.items[k]).status # 200}
           first == CHOOSE m \in W : \A k \in W : m <= k
<1>1. W \in SUBSET Nat /\ n \in W /\ \A k \in W : n <= k
  OBVIOUS
<1>2. first = n
  <2> HIDE DEF W
  <2> QED BY <1>1, TheFirst
<1>3. RightReply(q) = RightAnswer(q.items[first])
  <2>1. W # {}
    BY <1>1
  <2> QED BY <2>1, Zenon DEF RightReply
<1> QED BY <1>2, <1>3

\* If all items are found, the request is, or the client has the body.
LEMMA ReplyOfAll ==
  ASSUME NEW q, RequestValid(q.items, q.bulk),
         \A k \in 1..Len(q.items) : RightAnswer(q.items[k]).status = 200
  PROVE  RightReply(q) =
           [status |-> IF HasHeaders(q) /\ IfNoneMatchMatches(q) THEN 304 ELSE 200, reason |-> NoReason]
<1> DEFINE W == {k \in 1..Len(q.items) : RightAnswer(q.items[k]).status # 200}
           cached == /\ ~q.bulk /\ q.items[1].route # "health"
                     /\ \E t \in ToSet(q.ifNoneMatch) :
                          (~t.star /\ t.etagOf = q.items) \/ (t.star /\ ~t.weak)
<1>1. W = {}
  OBVIOUS
<1>2. cached <=> HasHeaders(q) /\ IfNoneMatchMatches(q)
  BY DEF HasHeaders, IfNoneMatchMatches
<1>3. RightReply(q) = [status |-> IF cached THEN 304 ELSE 200, reason |-> NoReason]
  BY <1>1, Zenon DEF RightReply
<1> QED BY <1>2, <1>3
\* A refusal is the right answer.
LEMMA RefusalIsRight ==
  ASSUME RequestsInv, NEW r \in Requests, pc[r] \in Underway, ~Passes(Current(r))
  PROVE  RefusalOf(Current(r)) = RightReply(query[r])
<1> DEFINE q == query[r]
           n == at[r]
<1>1. /\ FollowsItsSteps(r) /\ q \in Ask[r]
  BY AllStand DEF Stands, Underway
<1>2. /\ n \in 1..Len(q.items) /\ RequestValid(q.items, q.bulk)
      /\ \A k \in 1..n-1 : RightAnswer(q.items[k]).status = 200
  BY <1>1 DEF FollowsItsSteps
<1>3. Len(q.items) \in Nat
  BY <1>1, WhatRequestsAsk
<1>4. RightAnswer(q.items[n]) = RefusalOf(Current(r))
  BY <1>1, CurrentStep DEF StepLeadsTo
<1>5. RefusalOf(Current(r)).status # 200
  BY DEF RefusalOf
<1> HIDE DEF q, n
<1>6. RightReply(q) = RightAnswer(q.items[n])
  BY <1>2, <1>3, <1>4, <1>5, ReplyOfFirst
<1> QED BY <1>4, <1>6 DEF q

\* A range that ends before it begins is refused.
LEMMA RefuseRangeStands ==
  ASSUME RequestsInv, NEW r \in Requests, RefuseRange(r)
  PROVE  Moves(r) /\ Stands(r)' /\ pc'[r] = "answered"
<1>1. /\ pc[r] = "run" /\ Current(r).kind = "badRange" /\ query' = query
      /\ Answer(r, 400, "INVALID_RANGE")
  BY DEF RefuseRange
<1>2. Moves(r) /\ pc'[r] = "answered" /\ answer'[r] = [status |-> 400, reason |-> "INVALID_RANGE"]
  <2>1. TypeOK /\ 400 \in Statuses /\ "INVALID_RANGE" \in Reasons
    BY DEF RequestsInv, Statuses, Reasons
  <2> QED BY <1>1, <2>1, AnswerMoves
<1>3. answer'[r] = RightReply(query[r])
  <2>1. ~Passes(Current(r)) /\ RefusalOf(Current(r)) = [status |-> 400, reason |-> "INVALID_RANGE"]
    BY <1>1 DEF Passes, RefusalOf
  <2> QED BY <1>1, <1>2, <2>1, RefusalIsRight DEF Underway
<1>4. query[r] \in Ask[r]
  BY <1>1, AllStand DEF Stands
<1> QED BY <1>1, <1>2, <1>3, <1>4 DEF Stands, FollowsItsSteps, Underway

\* A step with its rows: the request is refused, goes on or is answered, each
\* as it deserves.
LEMMA ResolveStands ==
  ASSUME RequestsInv, NEW r \in Requests, pc[r] \in {"run", "loaded"},
         Current(r).kind # "badRange", Resolve(r, Current(r).rows), query' = query
  PROVE  Moves(r) /\ Stands(r)' /\ pc'[r] \in {"run", "answered"}
<1> DEFINE q == query[r]
           n == at[r]
           k == step[r]
           s == Current(r)
           last == Len(ItemSteps(q, n))
           items == Len(q.items)
<1>1. FollowsItsSteps(r) /\ q \in Ask[r] /\ pc[r] \in Underway
  BY AllStand DEF Stands, Underway
<1>2. /\ RequestValid(q.items, q.bulk)
      /\ \A j \in 1..n-1 : RightAnswer(q.items[j]).status = 200
      /\ \A j \in 1..k-1 : Passes(ItemSteps(q, n)[j])
  BY <1>1 DEF FollowsItsSteps
<1>3. /\ n \in 1..items /\ k \in 1..last /\ s = ItemSteps(q, n)[k]
      /\ StepLeadsTo(s, RightAnswer(q.items[n]))
  BY <1>1, CurrentStep
<1>4. /\ items \in Nat /\ Len(StepsOf[q]) = items
      /\ \A m \in 1..items : StepsOf[q][m] = ItemSteps(q, m) /\ q.items[m].route \in DOMAIN RouteSchema
  BY <1>1, WhatRequestsAsk
<1>5. /\ last \in Nat /\ Len(StepsOf[q][n]) = last
      /\ \A m \in 1..items : Len(ItemSteps(q, m)) \in Nat \ {0}
  BY <1>3, <1>4, ItemIsDecided
<1>6. TypeOK
  BY DEF RequestsInv
<1>7. CASE ~(s.wanted \subseteq s.rows)
  <2>1. Answer(r, IF s.kind = "load" THEN 400 ELSE 404, s.reason)
    BY <1>7 DEF Resolve
  <2>2. s.reason \in Reasons /\ (IF s.kind = "load" THEN 400 ELSE 404) \in Statuses
    BY <1>3 DEF StepLeadsTo, Statuses
  <2>3. /\ Moves(r) /\ pc'[r] = "answered"
        /\ answer'[r] = [status |-> IF s.kind = "load" THEN 400 ELSE 404, reason |-> s.reason]
    BY <1>6, <2>1, <2>2, AnswerMoves
  <2>4. ~Passes(s) /\ RefusalOf(s) = answer'[r]
    BY <1>7, <2>3 DEF Passes, RefusalOf
  <2>5. answer'[r] = RightReply(q)
    BY <1>1, <2>4, RefusalIsRight
  <2> QED BY <1>1, <2>3, <2>5 DEF Stands, FollowsItsSteps, Underway
<1>8. CASE s.wanted \subseteq s.rows /\ k < last
  <2>1. GoTo(r, n, k + 1)
    BY <1>5, <1>8 DEF Resolve
  <2>2. n \in Nat /\ k + 1 \in Nat /\ k + 1 \in 1..last /\ k \in Nat
    <3> HIDE DEF last, items, n, k
    <3> QED BY <1>3, <1>4, <1>5, <1>8
  <2>3. Moves(r) /\ pc'[r] = "run" /\ at'[r] = n /\ step'[r] = k + 1
    BY <1>6, <2>1, <2>2, GoToMoves
  <2>4. \A j \in 1..(k+1)-1 : Passes(ItemSteps(q, n)[j])
    <3>1. Passes(ItemSteps(q, n)[k])
      BY <1>3, <1>8 DEF Passes
    <3>2. \A j \in 1..(k+1)-1 : j \in 1..k-1 \/ j = k
      <4> HIDE DEF k
      <4> QED BY <2>2
    <3> QED BY <1>2, <3>1, <3>2
  <2>5. FollowsItsSteps(r)'
    <3> HIDE DEF n, k, q, last, items
    <3>1. /\ RequestValid(q.items, q.bulk) /\ n \in 1..Len(q.items)
          /\ k + 1 \in 1..Len(ItemSteps(q, n)) /\ query'[r] = q
      BY <1>2, <1>3, <2>2 DEF q, last, items
    <3> QED BY <1>2, <2>3, <2>4, <3>1 DEF FollowsItsSteps
  <2> QED BY <1>1, <2>3, <2>5 DEF Stands
<1>9. CASE s.wanted \subseteq s.rows /\ ~(k < last)
  <2>1. RightAnswer(q.items[n]).status = 200
    <3>1. \A j \in 1..last : j \in 1..k-1 \/ j = k
      <4> HIDE DEF k, last
      <4> QED BY <1>3, <1>5, <1>9
    <3>2. Passes(ItemSteps(q, n)[k])
      BY <1>3, <1>9 DEF Passes
    <3>3. AllPass(ItemSteps(q, n))
      BY <1>2, <3>1, <3>2 DEF AllPass
    <3>4. RightAnswer(q.items[n]) = OK
      BY <1>3, <1>4, <3>3, ItemIsDecided
    <3>5. OK.status = 200
      BY DEF OK
    <3> QED BY <3>4, <3>5
  <2>2. n \in Nat /\ \A j \in 1..n : RightAnswer(q.items[j]).status = 200
    <3>1. n \in Nat /\ \A j \in 1..n : j \in 1..n-1 \/ j = n
      <4> HIDE DEF n, items
      <4> QED BY <1>3, <1>4
    <3> QED BY <1>2, <2>1, <3>1
  <2>3. CASE n < items
    <3>1. GoTo(r, n + 1, 1)
      BY <1>4, <1>5, <1>9, <2>3 DEF Resolve
    <3>2. n + 1 \in Nat /\ n + 1 \in 1..items /\ (n + 1) - 1 = n
      <4> HIDE DEF n, items
      <4> QED BY <1>4, <2>2, <2>3
    <3>3. Moves(r) /\ pc'[r] = "run" /\ at'[r] = n + 1 /\ step'[r] = 1
      BY <1>6, <3>1, <3>2, GoToMoves
    <3>4. 1 \in 1..Len(ItemSteps(q, n + 1))
      <4> DEFINE m == Len(ItemSteps(q, n + 1))
      <4>1. m \in Nat \ {0}
        BY <1>5, <3>2
      <4> HIDE DEF m
      <4>2. 1 \in 1..m
        BY <4>1
      <4> QED BY <4>2 DEF m
    <3>5. FollowsItsSteps(r)'
      <4> HIDE DEF n, k, q, last, items
      <4>1. /\ RequestValid(q.items, q.bulk) /\ n + 1 \in 1..Len(q.items) /\ query'[r] = q
            /\ \A j \in 1..(n+1)-1 : RightAnswer(q.items[j]).status = 200
        BY <1>2, <2>2, <3>2 DEF q, items
      <4> QED BY <3>3, <3>4, <4>1 DEF FollowsItsSteps
    <3> QED BY <1>1, <3>3, <3>5 DEF Stands
  <2>4. CASE ~(n < items)
    <3> DEFINE status == IF HasHeaders(q) /\ IfNoneMatchMatches(q) THEN 304 ELSE 200
    <3>1. Answer(r, status, NoReason)
      BY <1>4, <1>5, <1>9, <2>4 DEF Resolve
    <3>2. status \in Statuses /\ NoReason \in Reasons
      BY DEF Statuses, Reasons
    <3> HIDE DEF status
    <3>3. Moves(r) /\ pc'[r] = "answered" /\ answer'[r] = [status |-> status, reason |-> NoReason]
      BY <1>6, <3>1, <3>2, AnswerMoves
    <3>4. \A j \in 1..items : RightAnswer(q.items[j]).status = 200
      <4>1. items = n
        <5> HIDE DEF n, items
        <5> QED BY <1>3, <1>4, <2>4
      <4> QED BY <2>2, <4>1
    <3>5. answer'[r] = RightReply(q)
      BY <1>2, <3>3, <3>4, ReplyOfAll DEF status
    <3> QED BY <1>1, <3>3, <3>5 DEF Stands, FollowsItsSteps, Underway
  <2> QED BY <2>3, <2>4
<1> QED BY <1>7, <1>8, <1>9
\* A failure says nothing about what was asked.
LEMMA FailStands ==
  ASSUME RequestsInv, NEW r \in Requests, pc[r] # "idle", Fail(r), query' = query
  PROVE  Moves(r) /\ Stands(r)' /\ pc'[r] = "answered"
<1> DEFINE status == IF query[r].items[1].route = "health" THEN 503 ELSE 500
<1>1. Answer(r, status, NoReason)
  BY DEF Fail
<1>2. TypeOK /\ status \in Statuses /\ NoReason \in Reasons /\ status \in {500, 503}
  BY DEF RequestsInv, Statuses, Reasons
<1> HIDE DEF status
<1>3. Moves(r) /\ pc'[r] = "answered" /\ answer'[r] = [status |-> status, reason |-> NoReason]
  BY <1>1, <1>2, AnswerMoves
<1>4. query[r] \in Ask[r]
  BY AllStand DEF Stands
<1>5. answer'[r].status \in {500, 503}
  BY <1>2, <1>3
<1> QED BY <1>3, <1>4, <1>5 DEF Stands, FollowsItsSteps, Underway

\* A request arrives: its schema refuses it rightly, or it is at its first step.
LEMMA ArriveStands ==
  ASSUME RequestsInv, NEW r \in Requests, Arrive(r) \/ TooMany(r)
  PROVE  /\ Moves(r) /\ Stands(r)' /\ pc'[r] \in {"run", "answered"}
         /\ query' \in [Requests -> Queries \cup {NoQuery}]
         /\ \A s \in Requests \ {r} : query'[s] = query[s]
<1>1. PICK q \in Ask[r] :
        /\ query' = [query EXCEPT ![r] = q]
        /\ \/ Answer(r, 429, NoReason)
           \/ RequestValid(q.items, q.bulk) /\ GoTo(r, 1, 1)
           \/ ~RequestValid(q.items, q.bulk) /\ Answer(r, 400, "INVALID_QUERY_PARAMS")
  BY DEF Arrive, TooMany
<1>2. TypeOK
  BY DEF RequestsInv
<1>3. /\ query' \in [Requests -> Queries \cup {NoQuery}] /\ query'[r] = q
      /\ \A s \in Requests \ {r} : query'[s] = query[s]
  BY <1>1, <1>2 DEF TypeOK, Queries
<1>4. CASE Answer(r, 429, NoReason)
  <2>1. 429 \in Statuses /\ NoReason \in Reasons
    BY DEF Statuses, Reasons
  <2>2. Moves(r) /\ pc'[r] = "answered" /\ answer'[r] = [status |-> 429, reason |-> NoReason]
    BY <1>2, <1>4, <2>1, AnswerMoves
  <2>3. answer'[r].status = 429
    BY <2>2
  <2> QED BY <1>3, <2>2, <2>3 DEF Stands, FollowsItsSteps, Underway
<1>5. CASE ~RequestValid(q.items, q.bulk) /\ Answer(r, 400, "INVALID_QUERY_PARAMS")
  <2>1. 400 \in Statuses /\ "INVALID_QUERY_PARAMS" \in Reasons
    BY DEF Statuses, Reasons
  <2>2. /\ Moves(r) /\ pc'[r] = "answered"
        /\ answer'[r] = [status |-> 400, reason |-> "INVALID_QUERY_PARAMS"]
    BY <1>2, <1>5, <2>1, AnswerMoves
  <2>3. RightReply(q) = [status |-> 400, reason |-> "INVALID_QUERY_PARAMS"]
    BY <1>5, Zenon DEF RightReply
  <2> QED BY <1>3, <2>2, <2>3 DEF Stands, FollowsItsSteps, Underway
<1>6. CASE RequestValid(q.items, q.bulk) /\ GoTo(r, 1, 1)
  <2>1. Moves(r) /\ pc'[r] = "run" /\ at'[r] = 1 /\ step'[r] = 1
    BY <1>2, <1>6, GoToMoves
  <2> DEFINE items == Len(q.items)
             m == Len(ItemSteps(q, 1))
  <2>2. items \in Nat /\ items > 0 /\ \A n \in 1..items : q.items[n].route \in DOMAIN RouteSchema
    BY <1>6, WhatRequestsAsk
  <2>3. 1 \in 1..items
    <3> HIDE DEF items
    <3> QED BY <2>2
  <2>4. m \in Nat \ {0}
    BY <2>2, <2>3, ItemIsDecided
  <2>5. 1 \in 1..m
    <3> HIDE DEF m
    <3> QED BY <2>4
  <2>6. FollowsItsSteps(r)'
    BY <1>3, <1>6, <2>1, <2>3, <2>5 DEF FollowsItsSteps
  <2> QED BY <1>3, <2>1, <2>6 DEF Stands
<1> QED BY <1>1, <1>3, <1>4, <1>5, <1>6

\* A request that goes on with the statements of its step
LEMMA StatementsStand ==
  ASSUME RequestsInv, NEW r \in Requests, Lease(r) \/ Statement(r) \/ LastStatement(r)
  PROVE  Moves(r) /\ Stands(r)' /\ query' = query
<1>1. /\ query' = query /\ at' = at /\ step' = step /\ answer' = answer
      /\ pc[r] \in Underway /\ pc'[r] \in {"lease", "loaded"} /\ Current(r).kind # "badRange"
  BY AllStand DEF RequestsInv, TypeOK, Lease, Statement, LastStatement, place, Underway,
                  Stands, FollowsItsSteps
<1>2. FollowsItsSteps(r) /\ query[r] \in Ask[r]
  BY <1>1, AllStand DEF Stands, Underway
<1>3. Current(r).statements \in 1..3
  BY <1>1, <1>2, CurrentStep DEF StepLeadsTo
<1>4. Moves(r)
  <2>1. left' \in [Requests -> 0..3] /\ \A s \in Requests \ {r} : left'[s] = left[s]
    BY <1>3 DEF RequestsInv, TypeOK, Lease, Statement, LastStatement
  <2>2. /\ pc' \in [Requests -> {"idle", "answered"} \cup Underway]
        /\ \A s \in Requests \ {r} : pc'[s] = pc[s]
    BY DEF RequestsInv, TypeOK, Lease, Statement, LastStatement, Underway
  <2> QED BY <1>1, <2>1, <2>2 DEF Moves, RequestsInv, TypeOK
<1>5. Stands(r)'
  BY <1>1, <1>2 DEF Stands, FollowsItsSteps, Current, Underway
<1> QED BY <1>1, <1>4, <1>5

\* A request that is answered leaves.
LEMMA LeaveStands ==
  ASSUME RequestsInv, NEW r \in Requests, Leave(r)
  PROVE  /\ Moves(r) /\ Stands(r)' /\ pc[r] = "answered" /\ pc'[r] = "idle"
         /\ query' \in [Requests -> Queries \cup {NoQuery}]
         /\ \A s \in Requests \ {r} : query'[s] = query[s]
<1>1. NoAnswer \in [status : Statuses, reason : Reasons]
  BY DEF NoAnswer, Statuses, Reasons
<1>2. /\ query' \in [Requests -> Queries \cup {NoQuery}]
      /\ \A s \in Requests \ {r} : query'[s] = query[s]
  BY DEF RequestsInv, TypeOK, Leave
<1>3. Moves(r) /\ pc[r] = "answered" /\ pc'[r] = "idle"
  BY <1>1 DEF RequestsInv, TypeOK, Leave, Moves, place
<1> QED BY <1>2, <1>3 DEF Stands, FollowsItsSteps, Underway
-----------------------------------------------------------------------------
(* The leases *)

\* The lease queue counts and searches as this module does.
LEMMA PoolOperators ==
  /\ \A S : Pool!Cardinality(S) = Cardinality(S)
  /\ \A s : Pool!ToSet(s) = ToSet(s)
  /\ \A s, e : Pool!RemoveFirst(s, e) = RemoveFirst(s, e)
<1>1. \A S : Pool!Cardinality(S) = Cardinality(S)
  BY Zenon DEF Pool!Cardinality, Cardinality
<1>2. \A s : Pool!ToSet(s) = ToSet(s)
  BY Zenon DEF Pool!ToSet, ToSet
<1>3. \A s, e : Pool!RemoveFirst(s, e) = RemoveFirst(s, e)
  BY Zenon DEF Pool!RemoveFirst, RemoveFirst, Pool!RemoveAt, RemoveAt,
               Pool!SelectInSeq, SelectInSeq, Pool!Min, Min
<1> QED BY <1>1, <1>2, <1>3

PoolTyped == holders \subseteq Requests /\ queue \in Seq(Requests) /\ closed = FALSE

\* Nothing happens to the leases, and the request has none before or after.
LEMMA LeasesAlone ==
  ASSUME RequestsInv, NEW r \in Requests, Moves(r), pc[r] # "lease", pc'[r] # "lease",
         UNCHANGED pool
  PROVE  PoolTyped' /\ LeasesMatchSteps'
BY DEF RequestsInv, TypeOK, Moves, pool, PoolTyped, LeasesMatchSteps

\* A request runs the first of several statements of its step.
LEMMA StatementKeepsLeases ==
  ASSUME RequestsInv, NEW r \in Requests, Statement(r)
  PROVE  PoolTyped' /\ LeasesMatchSteps'
<1>1. /\ pc[r] = "lease" /\ left[r] > 1 /\ left' = [left EXCEPT ![r] = @ - 1] /\ pc' = pc
      /\ holders' = holders /\ queue' = queue /\ closed' = closed
  BY DEF Statement, pool
<1>2. \A s \in Requests : pc'[s] = "lease" => left'[s] > 0
  <2>1. left \in [Requests -> 0..3] /\ \A s \in Requests : pc[s] = "lease" => left[s] > 0
    BY DEF RequestsInv, TypeOK, LeasesMatchSteps
  <2>2. left'[r] = left[r] - 1 /\ left[r] \in 0..3
    BY <1>1, <2>1
  <2>3. left'[r] > 0
    BY <1>1, <2>2
  <2>4. \A s \in Requests \ {r} : left'[s] = left[s]
    BY <1>1, <2>1
  <2> QED BY <1>1, <2>1, <2>3, <2>4
<1> QED BY <1>1, <1>2 DEF RequestsInv, TypeOK, PoolTyped, LeasesMatchSteps

\* A request gets a lease, or joins the queue.
LEMMA LeaseKeepsLeases ==
  ASSUME RequestsInv, NEW r \in Requests, Moves(r), pc[r] # "lease", pc'[r] = "lease",
         left'[r] > 0, Pool!Acquire(r) \/ Pool!Wait(r)
  PROVE  PoolTyped' /\ LeasesMatchSteps'
<1>1. /\ holders \subseteq Requests /\ queue \in Seq(Requests) /\ closed = FALSE
      /\ LeasesMatchSteps
  BY DEF RequestsInv, TypeOK
<1>2. r \notin holders \cup ToSet(queue)
  BY <1>1 DEF LeasesMatchSteps
<1>3. \A s \in Requests \ {r} : pc'[s] = pc[s] /\ left'[s] = left[s]
  BY DEF Moves
<1>4. CASE Pool!Acquire(r)
  <2>1. /\ queue = <<>> /\ queue' = queue /\ closed' = closed
        /\ holders' = holders \cup {r} /\ Cardinality(holders) < PoolSize
    BY <1>4, PoolOperators DEF Pool!Acquire
  <2>2. /\ IsFiniteSet(holders') /\ Cardinality(holders') = Cardinality(holders) + 1
        /\ Cardinality(holders) \in Nat
    BY <1>1, <1>2, <2>1, FS_AddElement, FS_CardinalityType DEF LeasesMatchSteps
  <2>3. Cardinality(holders') <= PoolSize
    BY <2>1, <2>2, PoolSizeAssumption
  <2>4. \A s \in Requests : pc'[s] = "lease" <=> s \in holders' \cup ToSet(queue')
    BY <1>1, <1>3, <2>1 DEF LeasesMatchSteps
  <2>5. holders' \cap ToSet(queue') = {}
    BY <1>1, <1>2, <2>1 DEF LeasesMatchSteps
  <2> QED BY <1>1, <1>3, <2>1, <2>2, <2>3, <2>4, <2>5 DEF PoolTyped, LeasesMatchSteps
<1>5. CASE Pool!Wait(r)
  <2>1. /\ queue' = Append(queue, r) /\ holders' = holders /\ closed' = closed
        /\ Cardinality(holders) = PoolSize
    BY <1>1, <1>5, PoolOperators DEF Pool!Wait
  <2>2. /\ queue' \in Seq(Requests) /\ ToSet(queue') = ToSet(queue) \cup {r}
        /\ \A i, j \in 1..Len(queue') : queue'[i] = queue'[j] => i = j
    BY <1>1, <1>2, <2>1, AppendDistinct DEF LeasesMatchSteps
  <2>3. \A s \in Requests : pc'[s] = "lease" <=> s \in holders' \cup ToSet(queue')
    BY <1>1, <1>3, <2>1, <2>2 DEF LeasesMatchSteps
  <2>4. holders' \cap ToSet(queue') = {}
    BY <1>1, <1>2, <2>1, <2>2 DEF LeasesMatchSteps
  <2> QED BY <1>1, <1>3, <2>1, <2>2, <2>3, <2>4 DEF PoolTyped, LeasesMatchSteps
<1> QED BY <1>4, <1>5

\* A request gives its lease back, to the pool or to the first in the queue.
LEMMA ReleaseKeepsLeases ==
  ASSUME RequestsInv, NEW r \in Requests, Moves(r), pc'[r] # "lease", Release(r)
  PROVE  PoolTyped' /\ LeasesMatchSteps'
<1>1. /\ holders \subseteq Requests /\ queue \in Seq(Requests) /\ closed = FALSE
      /\ LeasesMatchSteps /\ r \in holders
  BY DEF RequestsInv, TypeOK, Release, Pool!Return, Pool!HandOver
<1>2. r \notin ToSet(queue)
  BY <1>1 DEF LeasesMatchSteps
<1>3. \A s \in Requests \ {r} : pc'[s] = pc[s] /\ left'[s] = left[s]
  BY DEF Moves
<1>4. /\ IsFiniteSet(holders \ {r}) /\ Cardinality(holders \ {r}) = Cardinality(holders) - 1
      /\ Cardinality(holders) \in Nat
  BY <1>1, FS_RemoveElement, FS_CardinalityType DEF LeasesMatchSteps
<1>5. CASE Pool!Return(r)
  <2>1. /\ queue = <<>> /\ queue' = queue /\ closed' = closed /\ holders' = holders \ {r}
    BY <1>1, <1>5 DEF Pool!Return
  <2>2. Cardinality(holders') <= PoolSize
    BY <1>1, <1>4, <2>1, PoolSizeAssumption DEF LeasesMatchSteps
  <2>3. \A s \in Requests : pc'[s] = "lease" <=> s \in holders' \cup ToSet(queue')
    BY <1>1, <1>2, <1>3, <2>1 DEF LeasesMatchSteps
  <2> QED BY <1>1, <1>3, <1>4, <2>1, <2>2, <2>3 DEF PoolTyped, LeasesMatchSteps
<1>6. CASE Pool!HandOver(r)
  <2> DEFINE w == queue[1]
             rest == SubSeq(queue, 2, Len(queue))
  <2>1. /\ queue # <<>> /\ queue' = rest /\ closed' = closed
        /\ holders' = (holders \ {r}) \cup {w}
    <3>1. queue # <<>> /\ queue' = Tail(queue) /\ holders' = (holders \ {r}) \cup {Head(queue)}
          /\ closed' = closed
      BY <1>6 DEF Pool!HandOver
    <3>2. Tail(queue) = rest
      BY <1>1, <3>1, TailIsSubSeq
    <3>3. Head(queue) = w
      BY <1>1, <3>1
    <3> QED BY <3>1, <3>2, <3>3
  <2>2. /\ w \in Requests /\ w \in ToSet(queue) /\ rest \in Seq(Requests)
        /\ ToSet(rest) = ToSet(queue) \ {w}
        /\ \A i, j \in 1..Len(rest) : rest[i] = rest[j] => i = j
    BY <1>1, <2>1, DropHeadDistinct DEF LeasesMatchSteps
  <2> HIDE DEF w, rest
  <2>3. w \notin holders /\ w # r
    BY <1>1, <1>2, <2>2 DEF LeasesMatchSteps
  <2>4. IsFiniteSet(holders') /\ Cardinality(holders') = Cardinality(holders)
    <3>1. /\ IsFiniteSet(holders')
          /\ Cardinality(holders') = Cardinality(holders \ {r}) + 1
      BY <1>4, <2>1, <2>3, FS_AddElement
    <3> QED BY <1>4, <3>1
  <2>5. Cardinality(holders') = PoolSize
    BY <1>1, <2>1, <2>4 DEF LeasesMatchSteps
  <2>6. \A s \in Requests : pc'[s] = "lease" <=> s \in holders' \cup ToSet(queue')
    BY <1>1, <1>2, <1>3, <2>1, <2>2, <2>3 DEF LeasesMatchSteps
  <2>7. holders' \cap ToSet(queue') = {}
    BY <1>1, <2>1, <2>2 DEF LeasesMatchSteps
  <2> QED BY <1>1, <1>3, <2>1, <2>2, <2>4, <2>5, <2>6, <2>7, PoolSizeAssumption DEF PoolTyped, LeasesMatchSteps
<1> QED BY <1>5, <1>6 DEF Release

\* A request gives up its place in the queue.
LEMMA GiveUpKeepsLeases ==
  ASSUME RequestsInv, NEW r \in Requests, Moves(r), pc'[r] # "lease", Pool!GiveUp(r)
  PROVE  PoolTyped' /\ LeasesMatchSteps' /\ pc[r] = "lease"
<1>1. /\ holders \subseteq Requests /\ queue \in Seq(Requests) /\ closed = FALSE
      /\ LeasesMatchSteps
  BY DEF RequestsInv, TypeOK
<1>2. /\ r \in ToSet(queue) /\ holders' = holders /\ closed' = closed
      /\ queue' = RemoveFirst(queue, r)
  BY PoolOperators DEF Pool!GiveUp
<1>3. /\ queue' \in Seq(Requests) /\ ToSet(queue') = ToSet(queue) \ {r}
      /\ \A i, j \in 1..Len(queue') : queue'[i] = queue'[j] => i = j
  BY <1>1, <1>2, RemoveFirstDistinct DEF LeasesMatchSteps
<1>4. \A s \in Requests \ {r} : pc'[s] = pc[s] /\ left'[s] = left[s]
  BY DEF Moves
<1>5. r \notin holders /\ pc[r] = "lease"
  BY <1>1, <1>2 DEF LeasesMatchSteps
<1>6. Cardinality(holders') = PoolSize
  <2>1. queue # <<>>
    BY <1>2, EmptyQueue
  <2> QED BY <1>1, <1>2, <2>1 DEF LeasesMatchSteps
<1>7. \A s \in Requests : pc'[s] = "lease" <=> s \in holders' \cup ToSet(queue')
  BY <1>1, <1>2, <1>3, <1>4, <1>5 DEF LeasesMatchSteps
<1>8. holders' \cap ToSet(queue') = {} /\ IsFiniteSet(holders')
  BY <1>1, <1>2, <1>3 DEF LeasesMatchSteps
<1>9. \A s \in Requests : pc'[s] = "lease" => left'[s] > 0
  BY <1>1, <1>4 DEF LeasesMatchSteps
<1> QED BY <1>1, <1>2, <1>3, <1>5, <1>6, <1>7, <1>8, <1>9, PoolSizeAssumption DEF PoolTyped, LeasesMatchSteps
-----------------------------------------------------------------------------
(* The caches *)

\* Two true entries for one key have the same names.
LEMMA TrueEntriesAgree ==
  ASSUME NEW e, NEW f, TrueEntry(e), TrueEntry(f), e[1] = f[1]
  PROVE  e[2] = f[2]
<1>1. ASSUME NEW g, TrueEntry(g)
      PROVE  \/ g[1][1] = "areaTypes" /\ g[2] = AreaTypes
             \/ g[1][1] = "indicators" /\ g[2] = Indicators
             \/ /\ g[1][1] = "categories"
                /\ \E i \in Indicators, a \in AreaTypes :
                     g[1][2] = Joined(i, a) /\ g[2] = Categories(i, a)
  <2>1. CASE g = <<<<"areaTypes">>, AreaTypes>>
    BY <2>1
  <2>2. CASE g = <<<<"indicators">>, Indicators>>
    BY <2>2
  <2>3. CASE \E i \in Indicators, a \in AreaTypes : g = <<CacheKey(i, a), Categories(i, a)>>
    <3>1. PICK i \in Indicators, a \in AreaTypes : g = <<CacheKey(i, a), Categories(i, a)>>
      BY <2>3
    <3>2. g[1] = <<"categories", Joined(i, a)>> /\ g[2] = Categories(i, a)
      BY <3>1 DEF CacheKey
    <3>3. g[1][1] = "categories" /\ g[1][2] = Joined(i, a)
      BY <3>2
    <3> QED BY <3>2, <3>3
  <2> QED BY <1>1, <2>1, <2>2, <2>3 DEF TrueEntry
<1>2. CASE e[1][1] = "categories"
  <2>1. PICK i \in Indicators, a \in AreaTypes : e[1][2] = Joined(i, a) /\ e[2] = Categories(i, a)
    BY <1>1, <1>2
  <2>2. PICK j \in Indicators, b \in AreaTypes : f[1][2] = Joined(j, b) /\ f[2] = Categories(j, b)
    BY <1>1, <1>2
  <2>3. i = j /\ a = b
    BY <2>1, <2>2, SeparatorAssumption
  <2> QED BY <2>1, <2>2, <2>3
<1>3. CASE e[1][1] # "categories"
  <2>1. \/ e[1][1] = "areaTypes" /\ e[2] = AreaTypes
        \/ e[1][1] = "indicators" /\ e[2] = Indicators
    BY <1>1, <1>3
  <2>2. \/ f[1][1] = "areaTypes" /\ f[2] = AreaTypes
        \/ f[1][1] = "indicators" /\ f[2] = Indicators
    BY <1>1, <1>3
  <2> QED BY <2>1, <2>2
<1> QED BY <1>2, <1>3

\* What a load puts into a cache, or would, is true; so a hit has its rows.
LEMMA LoadsAreTrue ==
  ASSUME RequestsInv, NEW r \in Requests, pc[r] \in Underway, Current(r).kind = "load"
  PROVE  /\ TrueEntry(<<Current(r).key, Current(r).rows>>)
         /\ \A e \in Entries(r) : e[2] = Current(r).rows
<1>1. TrueEntry(<<Current(r).key, Current(r).rows>>)
  <2>1. FollowsItsSteps(r) /\ query[r] \in Ask[r]
    BY AllStand DEF Stands, Underway
  <2> QED BY <2>1, CurrentStep DEF StepLeadsTo
<1>2. ASSUME NEW e \in Entries(r) PROVE e[2] = Current(r).rows
  <2>1. TrueEntry(e) /\ e[1] = Current(r).key
    BY <1>2 DEF Entries, RequestsInv, CacheTrue
  <2> DEFINE f == <<Current(r).key, Current(r).rows>>
  <2>2. f[1] = Current(r).key /\ f[2] = Current(r).rows
    OBVIOUS
  <2> HIDE DEF f
  <2>3. e[2] = f[2]
    BY <1>1, <2>1, <2>2, TrueEntriesAgree DEF f
  <2> QED BY <2>2, <2>3
<1> QED BY <1>1, <1>2

-----------------------------------------------------------------------------
(* All together *)

LEMMA InitHasInv == Init => RequestsInv
<1> SUFFICES ASSUME Init PROVE RequestsInv
  OBVIOUS
<1>1. holders = {} /\ queue = <<>> /\ closed = FALSE
  BY DEF Init, Pool!Init
<1>2. NoAnswer \in [status : Statuses, reason : Reasons]
  BY DEF NoAnswer, Statuses, Reasons
<1>3. TypeOK
  BY <1>1, <1>2 DEF Init, TypeOK
<1>4. LeasesMatchSteps
  <2>1. ToSet(queue) = {} /\ Len(queue) = 0 /\ IsFiniteSet(holders) /\ Cardinality(holders) = 0
    BY <1>1, EmptyQueue, FS_EmptySet
  <2> QED BY <1>1, <2>1, PoolSizeAssumption DEF Init, LeasesMatchSteps
<1> QED BY <1>3, <1>4 DEF Init, RequestsInv, CacheTrue, AnswersAreRight, FollowsItsSteps, Underway

\* The parts of the invariant, put together after a step of a request
LEMMA StepKeepsInv ==
  ASSUME RequestsInv, NEW r \in Requests, Moves(r), Stands(r)',
         query' \in [Requests -> Queries \cup {NoQuery}],
         \A s \in Requests \ {r} : query'[s] = query[s],
         caching' = caching, CacheTrue', PoolTyped', LeasesMatchSteps'
  PROVE  RequestsInv'
<1>1. \A s \in Requests : Stands(s)'
  BY OthersStand
<1>2. TypeOK'
  BY DEF RequestsInv, TypeOK, PoolTyped, Moves
<1> QED BY <1>1, <1>2 DEF Stands, RequestsInv, AnswersAreRight

LEMMA NextKeepsInv == RequestsInv /\ [Next]_vars => RequestsInv'
<1> SUFFICES ASSUME RequestsInv, [Next]_vars PROVE RequestsInv'
  OBVIOUS
<1>1. /\ query \in [Requests -> Queries \cup {NoQuery}] /\ CacheTrue
      /\ PoolTyped /\ LeasesMatchSteps
  BY DEF RequestsInv, TypeOK, PoolTyped
<1>2. ASSUME Expire PROVE RequestsInv'
  BY <1>2 DEF Expire, RequestsInv, TypeOK, CacheTrue, LeasesMatchSteps, AnswersAreRight,
              FollowsItsSteps, Current, pool, place
<1>3. ASSUME NEW r \in Requests, Arrive(r) \/ TooMany(r) PROVE RequestsInv'
  <2>1. /\ cache' = cache /\ caching' = caching /\ UNCHANGED pool /\ pc[r] = "idle"
    BY <1>3 DEF Arrive, TooMany
  <2>2. /\ Moves(r) /\ Stands(r)' /\ pc'[r] \in {"run", "answered"}
        /\ query' \in [Requests -> Queries \cup {NoQuery}]
        /\ \A s \in Requests \ {r} : query'[s] = query[s]
    BY <1>3, ArriveStands
  <2>3. PoolTyped' /\ LeasesMatchSteps'
    BY <2>1, <2>2, LeasesAlone
  <2> QED BY <1>1, <2>1, <2>2, <2>3, StepKeepsInv DEF CacheTrue
<1>4. ASSUME NEW r \in Requests, RefuseRange(r) PROVE RequestsInv'
  <2>1. /\ cache' = cache /\ caching' = caching /\ query' = query /\ UNCHANGED pool /\ pc[r] = "run"
    BY <1>4 DEF RefuseRange
  <2>2. Moves(r) /\ Stands(r)' /\ pc'[r] = "answered"
    BY <1>4, RefuseRangeStands
  <2>3. PoolTyped' /\ LeasesMatchSteps'
    BY <2>1, <2>2, LeasesAlone
  <2> QED BY <1>1, <2>1, <2>2, <2>3, StepKeepsInv DEF CacheTrue
<1>5. ASSUME NEW r \in Requests, Hit(r) PROVE RequestsInv'
  <2>1. /\ cache' = cache /\ caching' = caching /\ query' = query /\ UNCHANGED pool
        /\ pc[r] = "run" /\ Current(r).kind = "load"
    BY <1>5 DEF Hit
  <2>2. Resolve(r, Current(r).rows)
    <3>1. PICK e \in Entries(r) : Resolve(r, e[2])
      BY <1>5 DEF Hit
    <3>2. e[2] = Current(r).rows
      BY <2>1, LoadsAreTrue DEF Underway
    <3> QED BY <3>1, <3>2
  <2>3. Moves(r) /\ Stands(r)' /\ pc'[r] \in {"run", "answered"}
    BY <2>1, <2>2, ResolveStands
  <2>4. PoolTyped' /\ LeasesMatchSteps'
    BY <2>1, <2>3, LeasesAlone
  <2> QED BY <1>1, <2>1, <2>3, <2>4, StepKeepsInv DEF CacheTrue
<1>6. ASSUME NEW r \in Requests, Loaded(r) PROVE RequestsInv'
  <2>1. /\ caching' = caching /\ query' = query /\ UNCHANGED pool
        /\ pc[r] = "loaded" /\ Resolve(r, Current(r).rows)
    BY <1>6 DEF Loaded
  <2>2. Current(r).kind # "badRange"
    BY <2>1, AllStand DEF Stands, FollowsItsSteps, Underway
  <2>3. Moves(r) /\ Stands(r)' /\ pc'[r] \in {"run", "answered"}
    BY <2>1, <2>2, ResolveStands
  <2>4. PoolTyped' /\ LeasesMatchSteps'
    BY <2>1, <2>3, LeasesAlone
  <2>5. CacheTrue'
    <3>1. CASE Current(r).kind = "load"
      <4>1. TrueEntry(<<Current(r).key, Current(r).rows>>)
        BY <2>1, <3>1, LoadsAreTrue DEF Underway
      <4>2. \A e \in cache' : e \in cache \/ e = <<Current(r).key, Current(r).rows>>
        BY <1>6 DEF Loaded
      <4> QED BY <1>1, <4>1, <4>2 DEF CacheTrue
    <3>2. CASE Current(r).kind # "load"
      <4>1. cache' = cache
        BY <1>6, <3>2 DEF Loaded
      <4> QED BY <1>1, <4>1 DEF CacheTrue
    <3> QED BY <3>1, <3>2
  <2> QED BY <1>1, <2>1, <2>3, <2>4, <2>5, StepKeepsInv
<1>7. ASSUME NEW r \in Requests, Lease(r) \/ Statement(r) \/ LastStatement(r) PROVE RequestsInv'
  <2>1. Moves(r) /\ Stands(r)' /\ query' = query
    BY <1>7, StatementsStand
  <2>2. cache' = cache /\ caching' = caching
    BY <1>7 DEF Lease, Statement, LastStatement
  <2>3. PoolTyped' /\ LeasesMatchSteps'
    <3>1. CASE Lease(r)
      <4>1. /\ pc[r] = "run" /\ Current(r).kind # "badRange" /\ pc'[r] = "lease"
            /\ left'[r] = Current(r).statements /\ (Pool!Acquire(r) \/ Pool!Wait(r))
        BY <3>1 DEF Lease, RequestsInv, TypeOK
      <4>2. Current(r).statements \in 1..3
        <5>1. FollowsItsSteps(r) /\ query[r] \in Ask[r] /\ pc[r] \in Underway
          BY <4>1, AllStand DEF Stands, Underway
        <5> QED BY <4>1, <5>1, CurrentStep DEF StepLeadsTo
      <4>3. left'[r] > 0
        BY <4>1, <4>2
      <4> QED BY <2>1, <4>1, <4>3, LeaseKeepsLeases
    <3>2. CASE Statement(r)
      BY <3>2, StatementKeepsLeases
    <3>3. CASE LastStatement(r)
      <4>1. Release(r) /\ pc'[r] # "lease"
        BY <3>3 DEF LastStatement, RequestsInv, TypeOK
      <4> QED BY <2>1, <4>1, ReleaseKeepsLeases
    <3> QED BY <1>7, <3>1, <3>2, <3>3
  <2> QED BY <1>1, <2>1, <2>2, <2>3, StepKeepsInv DEF CacheTrue
<1>8. ASSUME NEW r \in Requests, StatementFails(r) \/ AcquireTimeout(r) PROVE RequestsInv'
  <2>1. /\ cache' = cache /\ caching' = caching /\ query' = query /\ Fail(r)
        /\ pc[r] = "lease"
        /\ Release(r) \/ Pool!GiveUp(r)
    <3>1. CASE StatementFails(r)
      BY <3>1 DEF StatementFails
    <3>2. CASE AcquireTimeout(r)
      <4>1. r \in ToSet(queue)
        BY <3>2, PoolOperators DEF AcquireTimeout, Pool!GiveUp
      <4> QED BY <1>1, <3>2, <4>1 DEF AcquireTimeout, LeasesMatchSteps
    <3> QED BY <1>8, <3>1, <3>2
  <2>2. Moves(r) /\ Stands(r)' /\ pc'[r] = "answered"
    BY <2>1, FailStands
  <2>3. PoolTyped' /\ LeasesMatchSteps'
    BY <2>1, <2>2, ReleaseKeepsLeases, GiveUpKeepsLeases
  <2> QED BY <1>1, <2>1, <2>2, <2>3, StepKeepsInv DEF CacheTrue
<1>9. ASSUME NEW r \in Requests, Leave(r) PROVE RequestsInv'
  <2>1. /\ cache' = cache /\ caching' = caching /\ UNCHANGED pool
    BY <1>9 DEF Leave
  <2>2. /\ Moves(r) /\ Stands(r)' /\ pc[r] = "answered" /\ pc'[r] = "idle"
        /\ query' \in [Requests -> Queries \cup {NoQuery}]
        /\ \A s \in Requests \ {r} : query'[s] = query[s]
    BY <1>9, LeaveStands
  <2>3. PoolTyped' /\ LeasesMatchSteps'
    BY <2>1, <2>2, LeasesAlone
  <2> QED BY <1>1, <2>1, <2>2, <2>3, StepKeepsInv DEF CacheTrue
<1>10. CASE UNCHANGED vars
  <2>1. /\ UNCHANGED <<holders, queue, closed, caching, cache>>
        /\ UNCHANGED <<query, pc, at, step, left, answer>>
    BY <1>10 DEF vars, pool, place
  <2>2. TypeOK' /\ CacheTrue' /\ LeasesMatchSteps' /\ AnswersAreRight'
    BY <2>1 DEF RequestsInv, TypeOK, CacheTrue, LeasesMatchSteps, AnswersAreRight
  <2>3. \A r \in Requests : FollowsItsSteps(r)' /\ (pc'[r] # "idle" => query'[r] \in Ask[r])
    BY <2>1 DEF RequestsInv, FollowsItsSteps, Current
  <2> QED BY <2>2, <2>3 DEF RequestsInv
<1> QED BY <1>2, <1>3, <1>4, <1>5, <1>6, <1>7, <1>8, <1>9, <1>10 DEF Next, Handle
\* The invariant holds throughout.
THEOREM RequestsInvariant == Spec => []RequestsInv
BY InitHasInv, NextKeepsInv, PTL DEF Spec

\* The state stays in its domain (ApiRequests!TypeOK), whatever is asked.
THEOREM RequestTypes == Spec => []TypeOK
<1>1. RequestsInv => TypeOK
  BY DEF RequestsInv
<1> QED BY <1>1, RequestsInvariant, PTL

\* Whatever the caches hold, whoever filled them and however the requests
\* interleave, every answer that is not a failure is the one the rows demand:
\* for any rows, any queries, any number of requests and connections
\* (executeBulk, assertKnownIndicator and its like, the onSend hook of httpCache).
THEOREM AnswersFollowTheRows == Spec => []AnswersAreRight
<1>1. RequestsInv => AnswersAreRight
  BY DEF RequestsInv
<1> QED BY <1>1, RequestsInvariant, PTL

\* The keys of the caches are made of names in the rows only, so the caches do
\* not grow with what clients make up (loadCategories, after assertKnownIndicator
\* and assertKnownAreaType).
THEOREM CachesStayBounded == Spec => []CacheBounded
<1>1. CacheTrue => CacheBounded
  <2> SUFFICES ASSUME CacheTrue, NEW e \in cache, e[1][1] = "categories"
               PROVE  \E i \in Indicators, a \in AreaTypes : e[1] = CacheKey(i, a)
    BY DEF CacheBounded
  <2>1. TrueEntry(e)
    BY DEF CacheTrue
  <2>2. e # <<<<"areaTypes">>, AreaTypes>> /\ e # <<<<"indicators">>, Indicators>>
    OBVIOUS
  <2>3. PICK i \in Indicators, a \in AreaTypes : e = <<CacheKey(i, a), Categories(i, a)>>
    BY <2>1, <2>2 DEF TrueEntry
  <2> QED BY <2>3
<1>2. RequestsInv => CacheBounded
  BY <1>1 DEF RequestsInv
<1> QED BY <1>2, RequestsInvariant, PTL

\* No request keeps a lease from one step to the next, or waits for a second
\* one, and there are never more leases out than connections: requests cannot
\* block one another for good (withConnection around each repository call).
THEOREM LeasesAreNotKept == Spec => []LeasesMatchSteps
<1>1. RequestsInv => LeasesMatchSteps
  BY DEF RequestsInv
<1> QED BY <1>1, RequestsInvariant, PTL

\* Requests cannot block one another for good: while some wait for a lease,
\* another has one and a statement to run with it.
THEOREM SomeoneGoesOn == Spec => [](queue # <<>> => \E r \in holders : pc[r] = "lease" /\ left[r] > 0)
<1>1. ASSUME RequestsInv, queue # <<>>
      PROVE  \E r \in holders : pc[r] = "lease" /\ left[r] > 0
  <2>1. holders # {}
    BY <1>1, FS_EmptySet, PoolSizeAssumption DEF RequestsInv, LeasesMatchSteps
  <2> QED BY <1>1, <2>1 DEF RequestsInv, TypeOK, LeasesMatchSteps
<1>2. RequestsInv => (queue # <<>> => \E r \in holders : pc[r] = "lease" /\ left[r] > 0)
  BY <1>1
<1> QED BY <1>2, RequestsInvariant, PTL
=============================================================================
