-------------------------- MODULE MCImportDataset --------------------------
(* Two datasets, one with two keys and one with one, for TLC. *)
EXTENDS ImportDataset

MCKeys      == {"a1", "a2", "b1"}
MCDatasetOf == [k \in MCKeys |-> IF k = "b1" THEN "b" ELSE "a"]
=============================================================================
