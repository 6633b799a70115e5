----------------------------- MODULE CsvImport -----------------------------
(***************************************************************************)
(* What the import makes of a CSV file (src/etl/import): which of its      *)
(* columns is which, which of its cells are read, which of several cells   *)
(* for one key wins, and what makes a whole file unusable.  Operators      *)
(* only; EtlRun says when they are applied.                                *)
(*                                                                         *)
(* A file has a header for each encoding it is read in, <<>> where it is   *)
(* not decodable, and rows of cells; "" is an empty cell, which is NULL.   *)
(* What the code does to single texts are constant functions.              *)
(*                                                                         *)
(* A dataset's configuration is a record of                                *)
(*   encodings, aliases (target and names, in the order they are written), *)
(*   areaType, areaColumn or defaultArea, areaTrimmed (areaExpression),    *)
(*   format, filterColumn, parsed (there is a yearParser), yearNames (what *)
(*   matches yearPattern) or yearColumn and keepLast, and its specs: the   *)
(*   rows or columns of the format, with the filter they select, and the   *)
(*   columns that may hold their values or that an expression adds up,     *)
(*   with (cast) or without a TRY_CAST of each.                            *)
(* What is missing is "", <<>> or {}.                                      *)
(***************************************************************************)
EXTENDS Integers, SequencesExt

CONSTANTS
  Trim,    \* a header or an area cell without the space around it
  Number,  \* the value of a cell, NoNumber where TRY_CAST gives NULL
  YearOf   \* the year in a column name or a cell, NoYear where there is none

NoNumber == -1
NoYear   == 0
ValidYears == 1900..2100

-----------------------------------------------------------------------------
(* The header *)

\* The encodings of the configuration are tried until one decodes the file.
DecodedHeader(c, f) ==
  LET decodable == SelectSeq(c.encodings, LAMBDA e : f.headers[e] # <<>>)
  IN IF decodable = <<>> THEN <<>> ELSE f.headers[Head(decodable)]

\* A column under one of a target's other names gets the target's name, unless
\* a column has it; two such columns are an error, after which no header is left.
Renamed(header, alias) ==
  LET target  == Trim[alias.target]
      matches == {j \in DOMAIN header : header[j] \in {Trim[name] : name \in alias.names}}
  IN CASE target \in ToSet(header) \/ matches = {} -> header
       [] \E j \in matches : matches = {j} -> [j \in DOMAIN header |->
                                                 IF j \in matches THEN target ELSE header[j]]
       [] OTHER -> <<>>

\* normalizeRawHeaders: <<>> if it throws, above or at two columns of one name
Normalized(c, header) ==
  LET named == FoldLeft(Renamed, [j \in DOMAIN header |-> Trim[header[j]]], c.aliases)
  IN IF DOMAIN named = DOMAIN header /\ (named = header \/ IsInjective(named)) THEN named ELSE <<>>

Has(header, name) == name \in ToSet(header)

Cell(header, row, name) == row[CHOOSE j \in DOMAIN header : header[j] = name]

-----------------------------------------------------------------------------
(* What makes the whole file unusable *)

YearColumns(c, header) == {j \in DOMAIN header : header[j] \in c.yearNames}

\* resolveValueColumn: the first of the columns that is there, "" for none
ValueColumn(header, spec) ==
  LET there == SelectSeq(spec.columns, LAMBDA name : Has(header, name))
  IN IF there = <<>> THEN "" ELSE Head(there)

\* The texts a year is read from, those of rows that will be left out included
YearTexts(c, header, f) ==
  IF c.format = "unpivot_years"
  THEN {header[j] : j \in YearColumns(c, header)}
  ELSE {Cell(header, f.rows[n], c.yearColumn) : n \in DOMAIN f.rows} \ {""}

\* buildParsedYearCaseExpr throws for a text without a valid year, if there is
\* a parser.
YearsParse(c, texts) == c.parsed => \A text \in texts : YearOf[text] \in ValidYears

Required(c) == ({c.areaColumn, c.filterColumn} \cup
                (IF c.format = "unpivot_years" THEN {} ELSE {c.yearColumn})) \ {""}

Readable(c, header, f) ==
  /\ header # <<>>
  /\ c.areaColumn # "" \/ c.defaultArea # ""
  /\ \A name \in Required(c) : Has(header, name)
  /\ c.format = "unpivot_categories" =>
       \A spec \in c.specs : IF spec.added = {} THEN ValueColumn(header, spec) # ""
                             ELSE spec.added \subseteq ToSet(header)
  /\ YearTexts(c, header, f) # {}
  /\ YearsParse(c, YearTexts(c, header, f))

-----------------------------------------------------------------------------
(* The cells that are read *)

RawArea(c, header, row) == IF c.areaColumn = "" THEN c.defaultArea ELSE Cell(header, row, c.areaColumn)
Area(c, header, row) == IF c.areaTrimmed THEN Trim[RawArea(c, header, row)] ELSE RawArea(c, header, row)

Key(c, spec, area, year) ==
  [indicator |-> spec.indicator, areaType |-> c.areaType, area |-> area, year |-> year,
   category |-> spec.category]

Selected(c, header, row, spec) ==
  c.filterColumn # "" => Cell(header, row, c.filterColumn) = spec.filter

\* A reading is a cell with a usable value, of one spec: the key it is for, the
\* group of which one reading is kept, and its rank in that group.
\* unpivot_years: the rightmost column wins among those of one area and year.
YearReading(c, header, f, n, j, spec) ==
  LET row == f.rows[n]
      key == Key(c, spec, Area(c, header, row), YearOf[header[j]])
  IN IF Selected(c, header, row, spec) /\ Number[row[j]] # NoNumber
     THEN {[key |-> key, value |-> Number[row[j]], group |-> <<key>>, rank |-> j]}
     ELSE {}

YearReadings(c, header, f) ==
  UNION {YearReading(c, header, f, n, j, spec)
         : n \in DOMAIN f.rows, j \in YearColumns(c, header), spec \in c.specs}

\* The cell of the value column, or the sum of several: COALESCE makes 0 of what
\* is no number.
SpecValue(header, row, spec) ==
  LET AsNumber(name) == Number[Cell(header, row, name)]
  IN IF spec.added = {} THEN AsNumber(ValueColumn(header, spec))
     ELSE MapThenSumSet(LAMBDA name : IF AsNumber(name) = NoNumber THEN 0 ELSE AsNumber(name), spec.added)

\* unpivot_categories: with keepLast the last row wins among those of one raw
\* area and raw year; without, each row is kept.
CategoryReading(c, header, f, n, spec) ==
  LET row   == f.rows[n]
      value == SpecValue(header, row, spec)
      year  == Cell(header, row, c.yearColumn)
      key   == Key(c, spec, Area(c, header, row), YearOf[year])
  IN IF /\ Selected(c, header, row, spec)
        /\ value # NoNumber
        /\ RawArea(c, header, row) # ""
     THEN {[key |-> key, value |-> value, rank |-> n,
            group |-> IF c.keepLast THEN <<key, RawArea(c, header, row), year>> ELSE <<n>>]}
     ELSE {}

CategoryReadings(c, header, f) ==
  UNION {CategoryReading(c, header, f, n, spec) : n \in DOMAIN f.rows, spec \in c.specs}

Readings(c, header, f) ==
  IF c.format = "unpivot_years" THEN YearReadings(c, header, f) ELSE CategoryReadings(c, header, f)

\* Seeded bug: the sort order of the row numbers is turned round.
KeptFirst(readings) ==
  {r \in readings : \A q \in readings : q.group = r.group => r.rank <= q.rank}

\* The readings with row number 1
Kept(readings) ==
  {r \in readings : \A q \in readings : q.group = r.group => q.rank <= r.rank}

-----------------------------------------------------------------------------
(* The staging table *)

\* INSERT OR REPLACE INTO the staging table: one of the kept readings for each
\* key.  Rank decides; between equals, and between rows that only the trimming
\* makes one, the database does.
Stagings(kept) ==
  LET keys == {r.key : r \in kept}
      choices == {t \in [keys -> {r.value : r \in kept}] :
                    \A k \in keys : \E r \in kept : r.key = k /\ r.value = t[k]}
  IN {{[key |-> k, value |-> t[k]] : k \in keys} : t \in choices}

\* A row without an area or a year cannot be inserted into statistics.
Insertable(rows) == \A r \in rows : r.key.area # "" /\ r.key.year # NoYear

HeaderOf(c, f) == Normalized(c, DecodedHeader(c, f))

\* What the database may refuse: two rows of one INSERT OR REPLACE for the same
\* key, and a text where an expression adds up columns without casting them.
Refusable(c, header, f, kept) ==
  /\ c.format = "unpivot_categories"
  /\ \/ \E r, q \in kept : r # q /\ r.key = q.key
     \/ ~c.cast /\ \E spec \in c.specs, n \in DOMAIN f.rows : \E name \in spec.added :
          LET cell == Cell(header, f.rows[n], name) IN cell # "" /\ Number[cell] = NoNumber

\* The sets of rows that an import of the file may publish, {} for one that
\* throws instead: because the file is not readable, a row is not insertable,
\* the database refuses an INSERT or there are no rows.
Outcomes(c, f) ==
  LET header == HeaderOf(c, f)
      kept   == Kept(Readings(c, header, f))
  IN IF Readable(c, header, f)
     THEN {IF Insertable(rows) THEN rows ELSE {} : rows \in Stagings(kept)}
            \cup (IF Refusable(c, header, f, kept) THEN {{}} ELSE {})
     ELSE {{}}

-----------------------------------------------------------------------------
(* Publication, in one transaction *)

Upsert(statistics, rows) ==
  {s \in statistics : \A r \in rows : r.key # s.key} \cup rows

\* getDatasetScopeKeys, with the dataset's area type
InScope(c, key) ==
  /\ key.areaType = c.areaType
  /\ \E spec \in c.specs : key.indicator = spec.indicator /\ key.category = spec.category

\* deleteStaleRowsForDataset
WithoutStale(c, statistics, rows) ==
  {s \in statistics : InScope(c, s.key) => \E r \in rows : r.key = s.key}

Published(c, statistics, rows) == WithoutStale(c, Upsert(statistics, rows), rows)
=============================================================================
