-------------------------- MODULE DatasetManifest --------------------------
(***************************************************************************)
(* The datasets of src/etl/datasets, as the configurations of CsvImport    *)
(* and in the order of the manifest, and what the import takes for granted *)
(* of them.  Labels and units are left out.  Letters that are no ASCII,    *)
(* and their garbled forms, are written differently from one another.      *)
(***************************************************************************)
EXTENDS Naturals, SequencesExt

CONSTANTS
  YearNames,      \* the column names that match ^\d{4}$, which is the default,
  DateNames,      \* ^\d{2}\.\d{2}\.\d{4}$
  SuffixedNames   \* and ^\d{4}(?:_\d+)?$

-----------------------------------------------------------------------------
(* The forms of a configuration *)

DatasetConfig ==
  [csvFilename |-> "", encodings |-> <<"utf-8">>, aliases |-> <<>>, areaType |-> "district",
   areaColumn |-> "Stadtteil", defaultArea |-> "", areaTrimmed |-> FALSE, format |-> "",
   filterColumn |-> "", parsed |-> FALSE, yearNames |-> {}, yearColumn |-> "", keepLast |-> FALSE,
   cast |-> FALSE, specs |-> {}]

ValueSpec(indicator, category, filter, columns, added) ==
  [indicator |-> indicator, category |-> category, filter |-> filter, columns |-> columns,
   added |-> added]

\* The format unpivot_years has one row in all of them.
UnpivotYears(csvFilename, indicator, filter) ==
  [DatasetConfig EXCEPT !.csvFilename = csvFilename, !.format = "unpivot_years",
                        !.filterColumn = "Merkmal", !.yearNames = YearNames,
                        !.specs = {ValueSpec(indicator, "total", filter, <<>>, {})}]

\* The format unpivot_categories: a column for each category, perhaps with a
\* column that adds up some of them.  Without a filter, all rows are read.
UnpivotCategories(csvFilename, indicator, yearColumn, filter, columnOf, added) ==
  [DatasetConfig EXCEPT
     !.csvFilename = csvFilename, !.format = "unpivot_categories", !.yearColumn = yearColumn,
     !.filterColumn = IF filter = "" THEN "" ELSE "Merkmal",
     !.specs = {ValueSpec(indicator, category, filter, <<columnOf[category]>>, {})
                  : category \in DOMAIN columnOf}
                 \cup (IF added = {} THEN {} ELSE {ValueSpec(indicator, "total", filter, <<>>, added)})]

ColumnNames(columnOf) == {columnOf[category] : category \in DOMAIN columnOf}

\* Each of the columns is an expression that makes 0 of what is no number.
Coalesced(config) ==
  [config EXCEPT !.cast  = TRUE,
                 !.specs = {IF s.added # {} THEN s
                            ELSE [s EXCEPT !.columns = <<>>, !.added = ToSet(s.columns)] : s \in @}]

Trimmed(config)  == [config EXCEPT !.areaTrimmed = TRUE]
Parsed(config)   == [config EXCEPT !.parsed = TRUE]
KeepLast(config) == [config EXCEPT !.parsed = TRUE, !.keepLast = TRUE]

OfSubdistricts(config) ==
  [config EXCEPT !.areaType = "subdistrict", !.areaColumn = "Ortsteil", !.areaTrimmed = TRUE]

Genders == [total |-> "insgesamt", male |-> "maennlich", female |-> "weiblich"]

\* Exports in two encodings, the column of men in four spellings: with its
\* umlaut, with that in the wrong encoding or lost, and without one
Migrants(config) ==
  [config EXCEPT !.encodings = <<"utf-8", "latin-1">>, !.areaTrimmed = TRUE,
                 !.specs = {IF s.category = "male"
                            THEN [s EXCEPT !.columns = <<"m(ae)nnlich", "m(garbled)nnlich",
                                                         "m(lost)nnlich", "maennlich">>]
                            ELSE s : s \in @}]

AgeGroups ==
  [age_0_2 |-> "0 bis unter 3", age_3_5 |-> "3 bis unter 6", age_6_9 |-> "6 bis unter 10",
   age_10_11 |-> "10 bis unter 12", age_12_14 |-> "12 bis unter 15", age_15_17 |-> "15 bis unter 18",
   age_18_20 |-> "18 bis unter 21", age_21_24 |-> "21 bis unter 25", age_25_29 |-> "25 bis unter 30",
   age_30_34 |-> "30 bis unter 35", age_35_39 |-> "35 bis unter 40", age_40_44 |-> "40 bis unter 45",
   age_45_49 |-> "45 bis unter 50", age_50_54 |-> "50 bis unter 55", age_55_59 |-> "55 bis unter 60",
   age_60_64 |-> "60 bis unter 65", age_65_69 |-> "65 bis unter 70", age_70_74 |-> "70 bis unter 75",
   age_75_79 |-> "75 bis unter 80", age_80_plus |-> "80 und aelter"]

-----------------------------------------------------------------------------
(* The datasets *)

DISTRICTS_POPULATION ==
  UnpivotYears("kiel_bevoelkerung_stadtteile.csv", "population", "Einwohner insgesamt")

DISTRICTS_HOUSEHOLDS_TYPE_SIZE ==
  LET households == [single_person |-> "Einpersonen", couple_no_children |-> "Paar ohne Kind",
                     couple_with_children |-> "Paar mit Kindern",
                     couple_with_descendants |-> "Paar mit Nachkommen",
                     single_parent |-> "Alleinerziehende",
                     other_multi_person |-> "Sonst. Mehrpersonenhaushalte"]
  IN [Parsed(UnpivotCategories(
        "kiel_bevoelkerung_haushalte_nach_haushaltstypen_und_personenanzahl_in_den_stadtteilen.csv",
        "households", "Jahr", "Haushalte", households, ColumnNames(households)))
      EXCEPT !.areaColumn = "Stadtteile"]

DISTRICTS_MARITAL_STATUS ==
  LET statuses == [single |-> "ledig", married |-> "verheiratet", widowed |-> "verwitwet",
                  divorced |-> "geschieden"]
  IN Parsed(UnpivotCategories(
      "kiel_bevoelkerung_einwohner_nach_familienstand_in_den_stadtteilen.csv",
      "marital_status", "Jahr", "", statuses, ColumnNames(statuses)))

DISTRICTS_GENDER ==
  KeepLast(UnpivotCategories(
      "kiel_bevoelkerung_stadtteile_einwohner_geschlecht.csv",
      "gender", "Datum", "Einwohner insgesamt", Genders, {}))

DISTRICTS_FOREIGN_AGE_GROUPS ==
  Trimmed(Parsed(Coalesced(UnpivotCategories(
      "kiel_bevoelkerung_auslaendisch_altersgruppen_stadtteile.csv",
      "foreign_age_groups", "Datum", "Einwohner nach Altersgruppen", AgeGroups, ColumnNames(AgeGroups)))))

DISTRICTS_FOREIGN_COUNT ==
  Trimmed(UnpivotYears("kiel_bevoelkerung_stadtteile_auslaender.csv", "foreign_count", "Auslaender"))

DISTRICTS_FOREIGN_GENDER ==
  Trimmed(KeepLast(UnpivotCategories(
      "kiel_bevoelkerung_stadtteile_auslaendisch_geschlecht.csv",
      "foreign_gender", "Datum", "Auslaender", Genders, {})))

DISTRICTS_FOREIGN_NATIONALITIES_SELECTED ==
  LET nationalities == [turkey |-> "Tuerkei", poland |-> "Polen", iraq |-> "Irak", russia |-> "Russland",
                        ukraine |-> "Ukraine", syria |-> "Syrien", bulgaria |-> "Bulgarien"]
  IN Trimmed(Coalesced(UnpivotCategories(
      "kiel_bevoelkerung_auslaender_nach_ausgesuchten_nationalitaeten_in_den_stadtteilen.csv",
      "foreign_nationalities_selected", "Jahr", "", nationalities, ColumnNames(nationalities))))

DISTRICTS_AGE_GROUPS ==
  Parsed(UnpivotCategories(
      "kiel_bevoelkerung_altersgruppen_stadtteile.csv",
      "age_groups", "Datum", "Einwohner nach Altersgruppen", AgeGroups, ColumnNames(AgeGroups)))

DISTRICTS_AREA_HECTARES ==
  UnpivotCategories(
      "kiel_geo_flaechen_stadtteile_in_hektar.csv",
      "area_hectares", "Jahr", "Flaechen in Hektar", [total |-> "Hektar"], {})

DISTRICTS_MIGRANT_GENDER ==
  KeepLast(Migrants(UnpivotCategories(
      "kiel_bevoelkerung_stadtteile_einwohner_mit_migrationshintergrund_geschlecht.csv",
      "migrant_gender", "Datum", "Einwohner mit Migrationshintergrund", Genders, {})))

DISTRICTS_UNEMPLOYED_COUNT ==
  [Parsed(UnpivotYears("kiel_wirtschaft_arbeit_arbeitslose_stadtteile.csv",
                       "unemployed_count", "Arbeitslose"))
   EXCEPT !.yearNames = DateNames]

DISTRICTS_UNEMPLOYED_RATE ==
  [Parsed(UnpivotYears("kiel_wirtschaft_arbeit_arbeitslose_betroffenheitsquote_stadtteile.csv",
                       "unemployed_rate", "Betroffenheitsquote"))
   EXCEPT !.yearNames = DateNames]

DISTRICTS_RELIGION ==
  LET religions == [evangelical |-> "evangelisch", catholic |-> "katholisch",
                   other_or_none |-> "sonstige/ohne"]
  IN UnpivotCategories(
      "kiel_bevoelkerung_einwohner_nach_religionszugehoerigkeit_in_den_stadtteilen.csv",
      "religion", "Jahr", "", religions, ColumnNames(religions))

POSTAL_CODES_POPULATION ==
  [Trimmed(UnpivotYears("kiel_bevoelkerung_in_den_kieler_plz_bezirken.csv", "population", "Jahr"))
   EXCEPT !.areaType = "postal_code", !.areaColumn = "PLZ-Bereich",
          !.aliases = <<[target |-> "PLZ-Bereich",
                         names |-> {"PLZ-\nBereich", "PLZ- Bereich", "PLZ Bereich"}]>>]

SUBDISTRICTS_POPULATION ==
  [OfSubdistricts(Parsed(UnpivotYears("kiel_bevoelkerung_ortsteile.csv", "population", "Einwohner insgesamt")))
   EXCEPT !.yearNames = SuffixedNames]

SUBDISTRICTS_AGE_GROUPS ==
  LET ages == [age_0_4 |-> "0-<5", age_5_9 |-> "5-<10", age_10_14 |-> "10-<15", age_15_19 |-> "15-<20",
               age_20_24 |-> "20-<25", age_25_29 |-> "25-<30", age_30_34 |-> "30-<35",
               age_35_39 |-> "35-<40", age_40_44 |-> "40-<45", age_45_49 |-> "45-<50",
               age_50_54 |-> "50-<55", age_55_59 |-> "55-<60", age_60_64 |-> "60-<65",
               age_65_69 |-> "65-<70", age_70_74 |-> "70-<75", age_75_79 |-> "75-<80",
               age_80_84 |-> "80-<85", age_85_plus |-> "85 und Aelter"]
  IN OfSubdistricts(KeepLast(
       UnpivotCategories("kiel_bevoelkerung_altersgruppen_ortsteile.csv", "age_groups", "Datum",
                         "Einwohner nach Altersgruppen", ages, ColumnNames(ages))))

SUBDISTRICTS_GENDER ==
  OfSubdistricts(KeepLast(
    UnpivotCategories(
        "kiel_bevoelkerung_geschlecht_ortsteile.csv",
        "gender", "Datum", "Einwohner insgesamt", Genders, {})))

SUBDISTRICTS_FOREIGN_GENDER ==
  OfSubdistricts(KeepLast(
    UnpivotCategories(
        "kiel_bevoelkerung_auslaendisch_ortsteile.csv",
        "foreign_gender", "Datum", "Auslaender", Genders, {})))

SUBDISTRICTS_MIGRANT_GENDER ==
  OfSubdistricts(KeepLast(Migrants(
    UnpivotCategories(
        "kiel_bevoelkerung_ortsteile_einwohner_mit_migrationshintergrund.csv",
        "migrant_gender", "Datum", "Einwohner mit Migrationshintergrund", Genders, {}))))

\* The manifest, in its order
DATASET_MANIFEST ==
  <<DISTRICTS_POPULATION, DISTRICTS_HOUSEHOLDS_TYPE_SIZE, DISTRICTS_MARITAL_STATUS, DISTRICTS_GENDER,
    DISTRICTS_FOREIGN_AGE_GROUPS, DISTRICTS_FOREIGN_COUNT, DISTRICTS_FOREIGN_GENDER,
    DISTRICTS_FOREIGN_NATIONALITIES_SELECTED, DISTRICTS_AGE_GROUPS, DISTRICTS_AREA_HECTARES,
    DISTRICTS_MIGRANT_GENDER, DISTRICTS_UNEMPLOYED_COUNT, DISTRICTS_UNEMPLOYED_RATE, DISTRICTS_RELIGION,
    POSTAL_CODES_POPULATION, SUBDISTRICTS_POPULATION, SUBDISTRICTS_AGE_GROUPS, SUBDISTRICTS_GENDER,
    SUBDISTRICTS_FOREIGN_GENDER, SUBDISTRICTS_MIGRANT_GENDER>>

-----------------------------------------------------------------------------
(* What the import takes for granted of them.  validateDatasetManifest     *)
(* compares nothing but their ids.                                         *)

\* No two datasets share a file of the cache.
ASSUME ShippedFilesDistinct ==
  \A m, n \in DOMAIN DATASET_MANIFEST :
    DATASET_MANIFEST[m].csvFilename = DATASET_MANIFEST[n].csvFilename => m = n

\* No two datasets, and no two specs of one, write rows of one scope: the import
\* of one would delete the other's rows as stale.
ASSUME ShippedScopesDisjoint ==
  LET Scope(config, spec) == <<config.areaType, spec.indicator, spec.category>>
  IN \A m, n \in DOMAIN DATASET_MANIFEST :
       \A s \in DATASET_MANIFEST[m].specs, t \in DATASET_MANIFEST[n].specs :
         Scope(DATASET_MANIFEST[m], s) = Scope(DATASET_MANIFEST[n], t) => m = n /\ s = t
=============================================================================
