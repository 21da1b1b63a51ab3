---------------------------- MODULE BatchStatements ----------------------------
(***************************************************************************)
(* The four statements of the PostgreSQL batch store (batch.go) on the one *)
(* row that holds a job instance.  A statement is a request captured by a  *)
(* client (its arguments) and, when the server executes it, the row it     *)
(* leaves behind.  PostgreSQL runs each of them atomically on the row.     *)
(*                                                                         *)
(* begin_outcome and updated_at are columns no statement ever reads back   *)
(* from the row, and failure_kind goes with failure_step; they are left    *)
(* out.                                                                    *)
(***************************************************************************)
EXTENDS Integers, Sequences

CONSTANTS
  MaxAttempt,   \* 9223372036854775807, the largest bigint
  Null          \* SQL NULL

ASSUME MaxAttemptAssumption == MaxAttempt \in Nat \ {0}
ASSUME NullAssumption == Null \notin Int

-------------------------------------------------------------------------------
(* The row and the requests *)

Absent == [state |-> "absent", steps |-> <<>>, attempt |-> 0, done |-> <<>>,
           lease |-> Null, failure |-> Null]

BeginRequest(steps, now, lease) ==
  [op |-> "begin", steps |-> steps, now |-> now, lease |-> lease]
CheckpointRequest(attempt, step, lease) ==
  [op |-> "checkpoint", attempt |-> attempt, step |-> step, lease |-> lease]
CompleteRequest(attempt) == [op |-> "complete", attempt |-> attempt]
FailRequest(attempt, step) == [op |-> "fail", attempt |-> attempt, step |-> step]

-------------------------------------------------------------------------------
(* Begin: INSERT ... ON CONFLICT DO UPDATE ... RETURNING begin_outcome *)

\* Mutants: a lease that ends early, and one that never ends.
LeaseEndsEarly(row, at) == row.state = "running" /\ row.lease > at + 1
LeaseNeverEnds(row, at) == row.state = "running"

LeaseLive(row, at) == row.state = "running" /\ row.lease > at

\* Mutant: the bigint bound is not tested.
ResumableUnbounded(row, q) ==
  row.steps = q.steps /\ row.state # "complete" /\ ~LeaseLive(row, q.now)

Resumable(row, q) ==
  /\ row.steps = q.steps
  /\ row.state # "complete"
  /\ ~LeaseLive(row, q.now)
  /\ row.attempt < MaxAttempt

\* Mutant: the definition is not compared.
OutcomeAnyDefinition(row, q) ==
  IF row.state = "absent" THEN "started"
  ELSE IF row.state = "complete" THEN "complete"
  ELSE IF LeaseLive(row, q.now) THEN "running"
  ELSE IF row.attempt = MaxAttempt THEN "overflow"
  ELSE "resumed"

BeginOutcome(row, q) ==
  IF row.state = "absent" THEN "started"
  ELSE IF row.steps # q.steps THEN "changed"
  ELSE IF row.state = "complete" THEN "complete"
  ELSE IF LeaseLive(row, q.now) THEN "running"
  ELSE IF row.attempt = MaxAttempt THEN "overflow"
  ELSE "resumed"

\* The row of an instance that begins for the first time.
FirstRow(q) ==
  [state |-> "running", steps |-> q.steps, attempt |-> 1, done |-> <<>>,
   lease |-> q.lease, failure |-> Null]

\* Mutants: resuming keeps the old failure, or the old attempt number; a changed
\* definition overwrites the stored one.
BeginKeepsFailure(row, q) ==
  IF row.state = "absent" THEN FirstRow(q)
  ELSE IF ~Resumable(row, q) THEN row
  ELSE [row EXCEPT !.attempt = @ + 1, !.state = "running", !.lease = q.lease]
BeginKeepsAttempt(row, q) ==
  IF row.state = "absent" THEN FirstRow(q)
  ELSE IF ~Resumable(row, q) THEN row
  ELSE [row EXCEPT !.state = "running", !.lease = q.lease, !.failure = Null]

BeginRedefines(row, q) ==
  IF row.state = "absent" THEN FirstRow(q)
  ELSE IF ~Resumable(row, q) THEN [row EXCEPT !.steps = q.steps]
  ELSE [row EXCEPT !.attempt = @ + 1, !.state = "running",
                   !.lease = q.lease, !.failure = Null]

AfterBegin(row, q) ==
  IF row.state = "absent"
  THEN FirstRow(q)
  ELSE IF Resumable(row, q)
       THEN [row EXCEPT !.attempt = @ + 1, !.state = "running",
                        !.lease = q.lease, !.failure = Null]
       ELSE row

-------------------------------------------------------------------------------
(* Checkpoint, Complete and Fail: UPDATE ... WHERE on the exact attempt *)

\* Mutant: a transition of an attempt that is no longer running is accepted.
ActiveInAnyState(row, q) == row.attempt = q.attempt

Active(row, q) == row.attempt = q.attempt /\ row.state = "running"

\* The WHERE clause: whether the UPDATE affects the row.
Matches(row, q) ==
  /\ Active(row, q)
  /\ CASE q.op = "checkpoint" ->
            /\ Len(row.done) < Len(row.steps)
            /\ row.steps[Len(row.done) + 1] = q.step
       [] q.op = "complete" -> Len(row.done) = Len(row.steps)
       [] q.op = "fail" ->
            \/ /\ Len(row.done) < Len(row.steps)
               /\ row.steps[Len(row.done) + 1] = q.step
            \/ /\ Len(row.done) = Len(row.steps)
               /\ row.steps[Len(row.steps)] = q.step

\* Mutant: a checkpoint does not extend the stored lease.
UpdateKeepsLease(row, q) ==
  CASE q.op = "checkpoint" -> [row EXCEPT !.done = Append(@, q.step)]
    [] q.op = "complete" ->
         [row EXCEPT !.state = "complete", !.lease = Null, !.failure = Null]
    [] q.op = "fail" ->
         [row EXCEPT !.state = "failed", !.lease = Null, !.failure = q.step]

\* The SET clause.
Update(row, q) ==
  CASE q.op = "checkpoint" ->
         [row EXCEPT !.done = Append(@, q.step), !.lease = q.lease]
    [] q.op = "complete" ->
         [row EXCEPT !.state = "complete", !.lease = Null, !.failure = Null]
    [] q.op = "fail" ->
         [row EXCEPT !.state = "failed", !.lease = Null, !.failure = q.step]

\* What executing the request leaves in the table, whoever waits for it.
Execute(row, q) ==
  IF q.op = "begin" THEN AfterBegin(row, q)
  ELSE IF Matches(row, q) THEN Update(row, q) ELSE row

-------------------------------------------------------------------------------
(* The CHECK constraints of the table (BatchSchemaSQL) on a stored row *)

SchemaChecks(row) ==
  /\ Len(row.steps) >= 1
  /\ row.attempt >= 1
  /\ Len(row.done) <= Len(row.steps)
  /\ row.state \in {"running", "failed", "complete"}
  /\ (row.state = "running") <=> (row.lease # Null)
  /\ (row.state = "failed") <=> (row.failure # Null)
  /\ row.state = "complete" => Len(row.done) = Len(row.steps)
================================================================================
