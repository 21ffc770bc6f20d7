------------------------------- MODULE Schema -------------------------------
(***************************************************************************)
(* initSchema of src/pkgs/database/duckdb/rw_db.ts: the statements an engine *)
(* runs, one by one, on the database it has opened, and what each leaves     *)
(* behind when the process dies before the next.                            *)
(*                                                                         *)
(* A database is the set of its tables and the highest version recorded in   *)
(* cosmad_version, 0 for none.                                              *)
(***************************************************************************)
EXTENDS Naturals, Sequences

CONSTANT latestMigrationVersion   \* of migrations.ts

ASSUME SchemaAssumption == latestMigrationVersion \in Nat \ {0}

\* What this code reads and writes, apart from the version table.
DataTables == {"blocks", "alerts", "validator_inactivity"}
Tables == DataTables \cup {"cosmad_version"}

Database == [tables : SUBSET Tables, version : 0..latestMigrationVersion]

EmptyDatabase == [tables |-> {}, version |-> 0]

\* Mutant: the tables come with a fresh database only.
TablesIfFresh(fresh) == IF fresh THEN DataTables ELSE {}

\* The tables that initSchema asks for: all, whatever the database.
CreatedTables(fresh) == DataTables

\* The version: a fresh database is stamped, another one migrated if it is
\* behind.  A migration and its record are one transaction; the list has one
\* migration at this commit, a longer one would be a transaction each.
BringUpToDate(db, fresh) ==
  IF fresh THEN <<"stamp">>
  ELSE IF db.version < latestMigrationVersion THEN <<"migrate">> ELSE <<>>

\* CREATE TABLE IF NOT EXISTS: a statement that changes nothing is left out, and
\* so are the ADD COLUMN and CREATE INDEX statements, which leave the set of the
\* tables alone and may be run again.
CreateTable(db, table) == IF table \in db.tables THEN <<>> ELSE <<table>>

\* initSchema.  No other process has the database open.
initSchema(db) ==
  LET fresh == db.tables = {}
      Asked(table) == IF table \in CreatedTables(fresh) THEN CreateTable(db, table) ELSE <<>>
  IN CreateTable(db, "cosmad_version")
     \o BringUpToDate(db, fresh)
     \o Asked("blocks") \o Asked("alerts") \o Asked("validator_inactivity")

\* One statement.
Run(db, statement) ==
  IF statement \in Tables
  THEN [db EXCEPT !.tables = @ \cup {statement}]
  ELSE [db EXCEPT !.version = latestMigrationVersion]
=============================================================================
