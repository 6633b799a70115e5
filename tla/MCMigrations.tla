--------------------------- MODULE MCMigrations ---------------------------
(* Three versions over releases that append, and two that do not, for TLC. *)
EXTENDS Migrations

\* 1..3 append one migration each; 4 has edited the second one; 5 lacks it.
MCManifest == << <<1, 0, 0>>, <<1, 2, 0>>, <<1, 2, 3>>, <<1, 4, 3>>, <<1, 0, 3>> >>

\* Only releases that append.
MCAppending == << <<1, 0, 0>>, <<1, 2, 0>>, <<1, 2, 3>> >>
=============================================================================
