--------------------------- MODULE OutboxStatements ---------------------------
(***************************************************************************)
(* The four statements of the PostgreSQL outbox store (outbox.go) on the   *)
(* table of messages.  A row has the columns the statements test or set;   *)
(* the payload columns are left out.  A receipt is a fresh UUID: it is     *)
(* written <<message, n>>, n being the claim that drew it, and so never    *)
(* repeats.                                                                *)
(***************************************************************************)
EXTENDS Integers, FiniteSets

CONSTANTS
  Messages,     \* message IDs
  OccurredAt,   \* OccurredAt[m]: occurrence time of m
  Collation,    \* Collation[m]: rank of m under ORDER BY occurred_at, id
  MaxAttempt,   \* 9223372036854775807, the largest bigint
  Null          \* SQL NULL

ASSUME OccurredAtAssumption == OccurredAt \in [Messages -> Int]
ASSUME CollationAssumption ==
  /\ Collation \in [Messages -> Nat]
  /\ \A m, n \in Messages :
       /\ Collation[m] = Collation[n] => m = n
       /\ OccurredAt[m] < OccurredAt[n] => Collation[m] < Collation[n]
ASSUME MaxAttemptAssumption == MaxAttempt \in Nat
\* A time or a receipt is never NULL.
ASSUME NullAssumption == Null \notin Int /\ Null \notin Messages \X Nat

\* No row yet: the message was never inserted, or its transaction rolled back.
Absent == [state |-> "absent", availableAt |-> 0, owner |-> Null, receipt |-> Null,
           lease |-> Null, attempt |-> 0]

\* The row an INSERT adds, seen by its own transaction only.
\* Mutant: the insert runs outside the application's transaction.
InsertedAtOnce(m) == [Absent EXCEPT !.state = "stored", !.availableAt = OccurredAt[m]]
Inserted(m) == [Absent EXCEPT !.state = "open", !.availableAt = OccurredAt[m]]

-------------------------------------------------------------------------------
(* Claim *)

ClaimRequest(owner, at, lease) ==
  [op |-> "claim", owner |-> owner, at |-> at, lease |-> lease]

\* Mutants: a delay, a live lease or the bigint bound is not tested; a lease that
\* has expired still counts.
ClaimableAtOnce(row, at) ==
  /\ row.state = "stored"
  /\ row.lease = Null \/ row.lease <= at
  /\ row.attempt < MaxAttempt
ClaimableLeased(row, at) ==
  row.state = "stored" /\ row.availableAt <= at /\ row.attempt < MaxAttempt
ClaimableUnbounded(row, at) ==
  /\ row.state = "stored" /\ row.availableAt <= at
  /\ row.lease = Null \/ row.lease <= at
ClaimableOnce(row, at) ==
  /\ row.state = "stored" /\ row.availableAt <= at
  /\ row.lease = Null
  /\ row.attempt < MaxAttempt

\* That the row is "stored" is no condition of the statement: PostgreSQL shows it
\* committed rows only.
Claimable(row, at) ==
  /\ row.state = "stored"
  /\ row.availableAt <= at
  /\ row.lease = Null \/ row.lease <= at
  /\ row.attempt < MaxAttempt

\* ORDER BY ... FOR UPDATE SKIP LOCKED LIMIT: the first rows nobody has locked.
Candidates(table, locked, at, limit) ==
  LET free == {m \in Messages \ locked : Claimable(table[m], at)}
  IN  {m \in free : Cardinality({n \in free : Collation[n] < Collation[m]}) < limit}

\* Mutant: a receipt left by an expired lease is kept.
KeptReceipt(m, row) == IF row.receipt = Null THEN <<m, row.attempt + 1>> ELSE row.receipt
NewReceipt(m, row) == <<m, row.attempt + 1>>

Claimed(table, chosen, q) ==
  [m \in Messages |->
    IF m \in chosen
    THEN [table[m] EXCEPT !.owner = q.owner, !.receipt = NewReceipt(m, table[m]),
                          !.lease = q.lease, !.attempt = @ + 1]
    ELSE table[m]]

-------------------------------------------------------------------------------
(* Complete and Release, on the row with the owner and the receipt *)

CompleteRequest(owner, receipt) ==
  [op |-> "complete", owner |-> owner, receipt |-> receipt]
ReleaseRequest(owner, receipt, availableAt) ==
  [op |-> "release", owner |-> owner, receipt |-> receipt,
   availableAt |-> availableAt]

\* Mutant: any message leased to the owner matches.
MatchingOwner(table, q) ==
  {m \in Messages : table[m].state = "stored" /\ table[m].owner = q.owner}

Matching(table, q) ==
  {m \in Messages : /\ table[m].state = "stored"
                    /\ table[m].owner = q.owner
                    /\ table[m].receipt = q.receipt}

Deleted(row) == [row EXCEPT !.state = "deleted", !.owner = Null, !.receipt = Null,
                            !.lease = Null]
\* Mutant: a release leaves the lease time behind.
ReleasedLeased(row, q) ==
  [row EXCEPT !.owner = Null, !.receipt = Null, !.availableAt = q.availableAt]
Released(row, q) == [row EXCEPT !.owner = Null, !.receipt = Null, !.lease = Null,
                                !.availableAt = q.availableAt]

Executed(table, q) ==
  [m \in Messages |->
    IF m \notin Matching(table, q) THEN table[m]
    ELSE IF q.op = "complete" THEN Deleted(table[m])
    ELSE Released(table[m], q)]

-------------------------------------------------------------------------------
(* The CHECK constraints of the table (OutboxSchemaSQL) on a row *)

SchemaChecks(row) ==
  /\ row.attempt >= 0
  /\ (row.owner = Null) <=> (row.receipt = Null)
  /\ (row.owner = Null) <=> (row.lease = Null)
================================================================================
