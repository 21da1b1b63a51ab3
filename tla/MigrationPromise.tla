---------------------------- MODULE MigrationPromise ----------------------------
(***************************************************************************)
(* What migrations promise to the application's schema, without locks,     *)
(* transactions or connections: the registry is at all times the beginning *)
(* of a deployed plan, it grows by the next migration of such a plan, and  *)
(* the schema has exactly the migrations the registry names, each once.    *)
(***************************************************************************)
EXTENDS Naturals, Sequences

CONSTANTS
  Migrations,
  Plans          \* the plans some process deploys

VARIABLES
  recorded,      \* migrations in the registry
  effects        \* effects[m]: how often the SQL of m took effect

Entries(plan, n) == {plan[i] : i \in 1..n}

Init == recorded = {} /\ effects = [m \in Migrations |-> 0]

Migrate(plan, n) ==
  /\ recorded = Entries(plan, n - 1)
  /\ plan[n] \notin recorded
  /\ recorded' = recorded \cup {plan[n]}
  /\ effects' = [effects EXCEPT ![plan[n]] = @ + 1]

Next == \E plan \in Plans : \E n \in 1..Len(plan) : Migrate(plan, n)

Spec == Init /\ [][Next]_<<recorded, effects>>
================================================================================
