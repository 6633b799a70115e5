--------------------------- MODULE MCApiRequests ---------------------------
(* Two requests on one connection, for the model checker. *)
EXTENDS ApiRequests

MCRows == {<<"people", "district", "total", 2022>>, <<"people", "district", "female", 2023>>,
           <<"rent", "suburb", "total", 2023>>}

\* Texts that are special to the schemas: nothing, a space, space around a
\* name, too long for a name but not for an area, too long for both, numbers.
MCTexts == {"", " ", " female", "long", "longer", "0", "2022", "2023", "501", "n",
            "people", "rent", "x", "district", "suburb", "total", "female", "asc"}

MCTrimmed    == [t \in MCTexts |-> CASE t = " " -> "" [] t = " female" -> "female" [] OTHER -> t]
MCTextLength == [t \in MCTexts |-> CASE t = "" -> 0 [] t = "long" -> 121 [] t = "longer" -> 201 [] OTHER -> 1]
MCIntOf      == ("" :> 0) @@ (" " :> 0) @@ ("0" :> 0) @@ ("2022" :> 2022) @@ ("2023" :> 2023)
                  @@ ("501" :> 501)

Get(route, params, tokens) ==
  [items |-> <<[route |-> route, params |-> params]>>, bulk |-> FALSE, ifNoneMatch |-> tokens]

Bulk(items) == [items |-> items, bulk |-> TRUE, ifNoneMatch |-> <<>>]

Series(a, categories) ==
  [indicator |-> <<"people">>, areaType |-> <<a>>, areas |-> <<"n">>, categories |-> categories]

Rank(i, a, y) == [indicator |-> <<i>>, areaType |-> <<a>>, year |-> <<y>>]

Token(star, weak, get) == [star |-> star, weak |-> weak, etagOf |-> get.items]

\* The client sends the ETag it got, marked weak by a proxy, after another one.
Again(get) ==
  [get EXCEPT !.ifNoneMatch = <<Token(FALSE, FALSE, Get("health", <<>>, <<>>)), Token(FALSE, TRUE, get)>>]

MCSeries(a) == Get("timeseries", Series(a, <<" female", "female">>), <<>>)

\* Names of every kind, categories of another area type, names unknown at each
\* place, parameters out of bounds, and the other routes.
MCAsk ==
  [a |-> {Again(MCSeries("district")),
          Get("ranking", Rank("people", "x", "2023"), <<>>),
          Get("indicatorMeta", [indicator |-> <<"x">>], <<>>),
          Get("yearMeta", [year |-> <<"2022">>], <<>>),
          Get("areaTypes", <<>>, <<Token(TRUE, FALSE, Get("health", <<>>, <<>>))>>),
          Get("timeseries", Series("district", <<"female", " ">>), <<>>),
          Get("years", [limit |-> <<"501">>], <<>>),
          Bulk(<<[route |-> "capabilities", params |-> <<>>],
                 [route |-> "ranking", params |-> Rank("rent", "suburb", "0") @@ [categories |-> <<"female">>]]>>)},
   b |-> {Again(MCSeries("suburb")),
          Get("areas", [indicator |-> <<"x">>, areaType |-> <<"district">>, category |-> <<"total">>], <<>>),
          Get("timeseries", Series("district", <<"x">>) @@ [from |-> <<"2023">>, to |-> <<"2022">>], <<>>),
          Get("categories", [indicator |-> <<"rent">>, areaType |-> <<"suburb">>],
              <<Token(TRUE, TRUE, Get("health", <<>>, <<>>))>>),
          Get("years", [areaType |-> <<"suburb">>], <<>>),
          Get("indicators", [areaType |-> <<"x">>, area |-> <<"long">>], <<>>),
          Get("yearMeta", [year |-> <<"501">>], <<>>),
          Get("ranking", [indicator |-> <<"people">>, areaType |-> <<"district">>], <<>>),
          Get("health", <<>>, <<Token(TRUE, FALSE, Get("health", <<>>, <<>>))>>),
          Bulk(<<[route |-> "timeseries", params |-> Series("district", <<" ">>)]>>)}]
=============================================================================
