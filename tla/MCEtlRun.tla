------------------------------ MODULE MCEtlRun ------------------------------
(* Two of the shipped datasets for TLC, one with year columns and one with *)
(* category columns, each with a little of what others have.               *)
EXTENDS EtlRun, DatasetManifest

MCTexts == {"Stadtteil", " Stadtteil", "Bezirk", "Merkmal", "Art", "Datum", "31.03.2020", "31.12.2020",
            "31.12.0020", "weiblich", "m(lost)nnlich", "maennlich", "A", "A ", "B", ""}
MCTrim == [t \in MCTexts |-> CASE t = " Stadtteil" -> "Stadtteil" [] t = "A " -> "A" [] OTHER -> t]

MCCells  == {"7", "8", "9", "-", "", "A", "A ", "B", "Betroffenheitsquote", "Zahl", "M", "31.12.2020",
             "Einwohner mit Migrationshintergrund"}
MCNumber == [t \in MCCells |-> CASE t = "7" -> 7 [] t = "8" -> 8 [] t = "9" -> 9 [] OTHER -> -1]
MCYearOf == [t \in {"31.03.2020", "31.12.2020", "31.12.0020", ""} |->
               CASE t = "" -> 0 [] t = "31.12.0020" -> 20 [] OTHER -> 2020]

\* With names for its columns that the file may use instead
Rate == [DISTRICTS_UNEMPLOYED_RATE EXCEPT
           !.aliases = <<[target |-> "Stadtteil", names |-> {"Bezirk"}],
                         [target |-> "Merkmal", names |-> {"Art"}]>>]

\* With a computed total
Gender == LET SpecOf(category) == CHOOSE s \in DISTRICTS_MIGRANT_GENDER.specs : s.category = category
          IN [DISTRICTS_MIGRANT_GENDER EXCEPT
                !.specs = {SpecOf("male"),
                           [SpecOf("total") EXCEPT !.columns = <<>>, !.added = {"weiblich", "maennlich"}]}]

MCManifest == <<"rate", "gender">>
MCConfig == [rate |-> Rate, gender |-> Gender]

Utf8(header, rows)  == [headers |-> ("utf-8" :> header) @@ ("latin-1" :> header), rows |-> rows]
Latin(header, rows) == [headers |-> ("utf-8" :> <<>>) @@ ("latin-1" :> header), rows |-> rows]

\* Two columns of one year, the later one not always usable; an alias and a
\* smaller file; two columns for one name; a year that does not parse.
RateFiles ==
  LET quote == "Betroffenheitsquote" IN
  {Utf8(<<"Merkmal", " Stadtteil", "31.03.2020", "31.12.2020">>,
        <<<<quote, "A", "7", "8">>, <<quote, "B", "7", "-">>, <<"Zahl", "A", "9", "9">>>>),
   Utf8(<<"Art", "Bezirk", "31.12.2020">>, <<<<quote, "A", "9">>, <<quote, "B", "">>>>),
   Utf8(<<"Merkmal", "Stadtteil", " Stadtteil", "31.12.2020">>, <<<<quote, "A", "B", "9">>>>),
   Utf8(<<"Merkmal", "Stadtteil", "31.12.2020", "31.12.0020">>, <<<<quote, "A", "7", "7">>>>)}

\* A correction of a row below it, for one column; the same area twice, once
\* with a space, in another encoding, and a row without an area; a text where
\* numbers are added; no row that is asked for.
GenderFiles ==
  LET men == "Einwohner mit Migrationshintergrund"
      header == <<"Stadtteil", "Datum", "Merkmal", "weiblich", "maennlich">> IN
  {Utf8(header, <<<<"A", "31.12.2020", men, "7", "9">>, <<"A", "31.12.2020", men, "8", "">>,
                  <<"B", "31.12.2020", men, "", "7">>, <<"B", "31.12.2020", "M", "9", "9">>>>),
   Latin(<<"Stadtteil", "Datum", "Merkmal", "m(lost)nnlich", "weiblich", "maennlich">>,
         <<<<"A", "31.12.2020", men, "7", "7", "">>, <<"A ", "31.12.2020", men, "8", "8", "">>,
           <<"", "31.12.2020", men, "9", "9", "9">>>>),
   Utf8(header, <<<<"A", "31.12.2020", men, "-", "8">>>>),
   Utf8(header, <<<<"A", "31.12.2020", "M", "7", "8">>>>)}

MCFiles == [rate |-> RateFiles, gender |-> GenderFiles]

Word(text)         == [flag |-> "", text |-> text, inline |-> FALSE]
Flag(name)         == [flag |-> name, text |-> "--" \o name, inline |-> FALSE]
FlagIs(name, text) == [flag |-> name, text |-> text, inline |-> TRUE]

\* The two forms of a flag, then the ways to get it wrong.
MCArgvs == {<<Word("--all")>>, <<Flag("retries"), Word("1"), Word("gender"), Word("")>>,
            <<Word("rate"), FlagIs("retries", "0")>>, <<Word("rate"), FlagIs("wait", "1")>>,
            <<Word("rate"), Word("--all")>>, <<Word("rate"), Flag("retries")>>, <<Word("x")>>}

MCPositiveInt == [t \in {"0", "1"} |-> IF t = "1" THEN 1 ELSE 0]
=============================================================================
