----------------------------- MODULE MigrationPlan -----------------------------
(***************************************************************************)
(* NewPlan (spice/migration/migration.go): the ordered plan a process makes*)
(* of the migrations its modules register, in whatever order they do.      *)
(*                                                                         *)
(* Metadata is "proper", or else empty, padded or too long.  An SQL text is*)
(* a sequence of words and of line ends "crlf", "lf" and "cr"; its checksum*)
(* is taken for the text.                                                  *)
(***************************************************************************)
EXTENDS Integers, Sequences, TLC

Registered(version, module, name, sql) ==
  [version |-> version, module |-> module, name |-> name, sql |-> sql]

Refused == <<"refused">>

-------------------------------------------------------------------------------

\* Mutant: the text is taken as it was checked out.
NormalizedNot(sql) == sql

\* Line ends of Windows become those of Unix.
Normalized(sql) == [i \in DOMAIN sql |-> IF sql[i] = "crlf" THEN "lf" ELSE sql[i]]

validateMetadata(value) == value \notin {"", "padded", "too long"}

validSpec(spec) ==
  /\ spec.version # 0
  /\ validateMetadata(spec.module) /\ validateMetadata(spec.name)
  /\ \A i \in DOMAIN spec.sql : spec.sql[i] # "cr"
  /\ \E i \in DOMAIN spec.sql : spec.sql[i] \notin {"crlf", "lf"}

newMigration(spec) == [version |-> spec.version, module |-> spec.module, name |-> spec.name,
                       checksum |-> Normalized(spec.sql)]

Earlier(m, n) == m.version < n.version

\* Every entry is valid, no two have one version, and they are sorted.
NewPlan(specs) ==
  IF /\ \A i \in DOMAIN specs : validSpec(specs[i])
     /\ \A i, j \in DOMAIN specs : specs[i].version = specs[j].version => i = j
  THEN SortSeq([i \in DOMAIN specs |-> newMigration(specs[i])], Earlier)
  ELSE Refused
================================================================================
