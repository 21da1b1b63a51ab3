-------------------------- MODULE MCRepositoryTools --------------------------
(***************************************************************************)
(* Small instances of RepositoryTools for TLC.                             *)
(***************************************************************************)
EXTENDS ToolInvariant

CONSTANTS j1, j2

Clean ==
  [gomod |-> [deps |-> 1, core |-> 1, indirect |-> FALSE, module |-> "starter-postgres",
              replaced |-> FALSE, declares |-> [tool \in ReleaseTools |-> 1],
              selects |-> [tool \in ReleaseTools |-> "pinned"]],
   contract |-> [schema |-> 1, minimum |-> 1, current |-> 2],
   vendored |-> 1, listed |-> 1, forced |-> 1, compatible |-> {1, 2}, coverage |-> 85,
   ok |-> {"workflow", "tidy", "toolgraph", "vet", "test", "gatetest", "offlinetest",
           "offlinebuild"} \cup Formatters \cup Analyzers]

\* Sources in no format; a raised minimum whose contract and vendored files were
\* forgotten; sources that are tested too little, need a newer core than the
\* current line, with other release tools, and were not vendored anew.
Unformatted == [Clean EXCEPT !.ok = @ \ Formatters]
Raised == [Clean EXCEPT !.gomod.deps = 2, !.gomod.core = 2, !.listed = 2, !.forced = 2]
Ahead == [Clean EXCEPT !.gomod.selects = [tool \in ReleaseTools |-> "newer"],
                       !.gomod.deps = 3, !.coverage = 84, !.forced = 3, !.compatible = {3}]

FourTrees == {Clean, Unformatted, Raised, Ahead}

\* Jobs side by side; release-rehearsal and verify-release are one program.
OneMode == [j \in Jobs |->
  IF j = j1 THEN {"minimum", "check", "verify", "verify-release"}
  ELSE {"current", "fmt", "verify"}]
================================================================================
