---------------------------- MODULE MCMigrationRun ----------------------------
(***************************************************************************)
(* Small instances of MigrationRun for TLC.                                *)
(***************************************************************************)
EXTENDS MigrationInvariant, MigrationPlan

CONSTANTS r1, r2, r3

\* Modules register their migrations in no order, checked out on Windows or not;
\* "altered" is "alter" with other SQL: the same version, another checksum.
create(v, end) == Registered(v, "orders", "create", <<"create", end>>)
alter(v, end) == Registered(v, "orders", "alter", <<"alter", end>>)
altered(v) == Registered(v, "orders", "alter", <<"alter", "lf", "index">>)
index(v) == Registered(v, "stock", "index", <<"index">>)

\* Consecutive releases, and a third one that has changed a migration.  Their
\* versions have one and two digits, and texts that are ordered like the versions.
First == NewPlan(<<create(1, "lf"), alter(10, "lf")>>)
Second == NewPlan(<<index(11), create(1, "lf"), alter(10, "lf")>>)
OnWindows == NewPlan(<<alter(10, "crlf"), index(11), create(1, "crlf")>>)
Changed == NewPlan(<<index(11), altered(10), create(1, "lf")>>)

Rolling == [r \in Runners |->
  IF r = r1 THEN First ELSE IF r = r2 THEN Second ELSE OnWindows]
Releases == [r \in Runners |-> IF r = r1 THEN First ELSE IF r = r2 THEN Second ELSE Changed]

\* Versions of one and of two digits, whose texts are not.
Growing == [r \in Runners |->
  NewPlan(IF r = r1 THEN <<alter(10, "lf"), create(9, "lf")>>
          ELSE <<index(11), alter(10, "lf"), create(9, "lf")>>)]

\* A plan that modules could not agree on, or wrote with a carriage return, is none.
ASSUME Disagreed ==
  Refused \notin {First, Second, OnWindows, Changed}
    /\ Refused = NewPlan(<<create(1, "lf"), altered(1)>>)
    /\ Refused = NewPlan(<<create(1, "cr")>>)

\* The texts of versions are ordered, whichever migrations have them: of two, exactly
\* one is before the other.
ASSUME TextOrder == \A v, w \in 1..(10^MaxDigits - 1) :
  ~TextBefore(v, v) /\ (v # w => (TextBefore(v, w) <=> ~TextBefore(w, v)))

Planned == UNION {{Plan[r][i] : i \in DOMAIN Plan[r]} : r \in Runners}
Versions == [m \in Migrations |-> m.version]

SharedLock == [r \in Runners |-> 1]

\* One process is configured with another lock.
MixedLock == [r \in Runners |-> IF r = r3 THEN 2 ELSE 1]
================================================================================
