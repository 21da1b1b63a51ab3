# A verification project for starter-postgres

`starter-postgres` is a PostgreSQL starter for Spice applications: connection
pools, schema migrations, a durable outbox for events and restartable batch
jobs. This directory holds TLA+ modules of its parts that keep state in the
database and are used by several processes at once, of the transaction manager
over the connection pool, and of the repository's own release and compatibility
tools; the TLC runs that check them on small instances; and proofs (TLAPS) that
their safety properties hold for every instance. Paths below are relative to the
repository; `spice/` is `vendor/github.com/spice-framework/spice/`.

## 1. Inventory

| part | code | state | operations | what makes it correct |
|---|---|---|---|---|
| batch store | `batch.go`, `spice/batch/sqlstore.go` | one row per job instance: definition, attempt, completed steps, state, lease, failure | Begin (insert or resume), Checkpoint, Complete, Fail | rows satisfy the CHECKs; one active attempt; progress only by the active attempt |
| batch runner | `spice/batch/batch.go` | local: attempt, step counters | `Run`, `fail` | steps in order, each durable before the next; success means complete; a dead run does not block the instance for good |
| outbox store | `outbox.go`, `spice/event/outbox/sqlstore.go` | one row per message: availability, owner, receipt, lease, attempt | Enqueue, Claim, Complete, Release | rows satisfy the CHECKs; one lease at a time; only the lease's receipt removes or releases |
| outbox dispatcher | `spice/event/outbox/outbox.go` | local: the batch it claimed | `RunOnce`, `deliver` | committed messages are published at least once, uncommitted ones never |
| transaction manager | `spice/data/transaction.go` | the open transaction | `Within` | commits exactly when the callback succeeded |
| migration backend | `migration.go` | registry table, advisory lock, one pinned session | `RunLocked`, `Applied`, `Apply`, `releaseLock` | SQL and registry row are atomic; the lock never returns to the pool |
| migration runner | `spice/migration/migration.go` | plan, position in it | `NewPlan`, `Run`, `reconcile` | the registry is a beginning of the plan; refused otherwise |
| connection options | `postgres.go` | none | `Open`, `normalizeOptions`, `Ping` | complete URL, TLS, consistent pool limits |
| compatibility tool | `internal/corecompat` | a temporary modfile in the checkout | `-line=minimum`, `-line=current` | passes only if that core version was vetted and tested; leaves nothing behind |
| quality gate | `internal/qualitygate` | temporary files, the module cache | `check`, `fmt`, `verify`, `release-rehearsal`, `verify-release` | passes exactly on what the mode stands for; changes no dependency; two renders of one commit agree |
| manifest, test harness | `manifest.go`, `spice/spicetest/sql.go` | none that lives | | not modelled |

How they interact. The runner calls the batch store, the dispatcher calls the
outbox store, the migration runner hands a callback to the backend, which calls
it back with a session. All three reach the database through `database/sql`;
processes share nothing but the tables and the advisory lock. Enqueue runs on
the transaction the application got from the transaction manager, the other
store calls are one statement each, and a migration is one transaction.
Boundaries of the transaction manager compete for the connections of the pool
`Open` made. The tools share the checkout, its commits and the module cache with
each other and with whoever edits; they call `go`, the formatters, analyzers and
the framework's `spice-dev` as processes.

What is hard. Processes stop, pause and lose connections at any point; a
statement whose caller got an error may have been executed, may never be, or
may be executed later. Leases are computed from clocks of different processes.
Work goes on after a lease has run out. Rows are locked while a claim runs.
A database session outlives its client. A context ends under a transaction, which
`database/sql` then rolls back behind its owner. A checkout changes under the
tool that judges it. `PROJECT.json` lists these hazards at
their lines, with the properties aimed at each.

## 2. Modules

| module | models |
|---|---|
| `BatchStatements` | the four batch statements on a row: WHERE and SET clauses, `begin_outcome`, CHECKs |
| `BatchRun` | `Runner.Run` in several processes over that row; safety, liveness |
| `BatchPromise` | abstract: what an instance promises, without runners, leases or statements |
| `BatchInvariant` | the inductive invariant of `BatchRun` |
| `BatchRunProofs` | proofs about `BatchRun` |
| `OutboxStatements` | insert, claim, complete, release on the table of messages |
| `OutboxDispatch` | application transactions and `RunOnce` in several processes |
| `OutboxPromise` | abstract: stored when committed, delivered before removed |
| `OutboxInvariant` | the inductive invariant of `OutboxDispatch` |
| `OutboxProofs` | proofs about `OutboxDispatch` |
| `MigrationRun` | migration runs over advisory lock, sessions and registry |
| `MigrationPromise` | abstract: the registry grows along deployed plans, each migration once |
| `MigrationInvariant` | the inductive invariants of `MigrationRun` |
| `MigrationProofs` | proofs about `MigrationRun` |
| `MigrationPlan` | `NewPlan` and `newMigration` as functions: the plans of the migration runs |
| `Transactions` | `Manager.Within` in several goroutines over the pool of `PoolOptions` |
| `TransactionInvariant` | the inductive invariant of `Transactions` |
| `TransactionProofs` | proofs about `Transactions` |
| `ToolJobs` | runs of the tools as programs of phases, with their temporary files, on a checkout |
| `CoreCompat` | the phases of `internal/corecompat` |
| `QualityGate` | the phases of `internal/qualitygate` |
| `RepositoryTools` | both tools in one checkout, and the properties |
| `ToolInvariant` | the inductive invariant of `RepositoryTools` |
| `ToolProofs` | proofs about `RepositoryTools` |
| `PoolOptions` | what `Open` makes of its options, as operators, with theorems |
| `MC...` | constants of the small instances |

Operators marked "Mutant" are not part of a model: each is a definition
as a plausible bug would have it, and a run with the mutant in the definition's
place violates the property it is listed for in `PROJECT.json`.

### Batch

`row` is the stored instance; `req[r]` the statement process `r` waits for;
`late` holds statements whose caller got an error and that may still be
executed, each once. `pc[r]` follows `Run`: `begin`, `loop`, `step`
(the callback runs), `checkpoint`, `complete`, `failing` (in `Runner.fail`) and
`fail`. Arguments are captured when the statement is sent (its lease from the
sender's clock, `Clock(r) = now + Offset[r]`), and judged against the row when
it is executed. PostgreSQL executes each of the four statements atomically on
its one row. `begun` and `ran` are history: callbacks called, and callbacks
that returned nil, per attempt. Two processes may deploy different definitions
(`Job[r]`). `failure_kind`, `updated_at` and `begin_outcome` are left out,
since no statement reads them back (`failure_kind` is set and cleared together
with `failure_step`, whose CHECK is modelled).

### Outbox

`table[m]` is the row of message `m`, with the state of its transaction:
`absent`, `open`, `rolledback`, `stored`, `deleted`. A claim is two steps: it
locks its candidates (`chosen`), skipping what others have locked, and its
commit writes them; that it sees committed rows only is PostgreSQL's doing, and no
condition of the statement. Complete and Release are atomic and wait for a locked row.
A receipt, a random UUID in the code, is the pair of message and claim number.
`Collation` ranks messages as `ORDER BY occurred_at, id` does, `ByteOrder` as
`compareDeliveries` does; a claim whose rows the two rank differently is refused
by the dispatcher after it has committed. A publisher that returns an error or
panics may have delivered.

### Migrations

`registry` is the set of its rows. `Applied` reads them in the order of the
*texts* of their versions (section 4), and `reconcile` compares them with the
plan position by position: `Reconciled` holds when the rows are a beginning of
the plan and the texts of that beginning are in order, which is the same
(`ReconcilesByPosition`). `holder`
tells who has an advisory lock. When a connection breaks, the server session
stays as a ghost: it keeps the lock and the open transaction, may finish the
COMMIT it was sent or be granted the lock it waited for, and then ends; the
process notices at its next statement (`lost`). pgx closes the connection when
a context is cancelled during a statement and when ROLLBACK fails, which is
the same `Break`. BEGIN is one step with the script.

Plans are what `NewPlan` (`MigrationPlan`) makes of what the modules register: it
refuses invalid entries and shared versions, makes line ends of Windows those of
Unix, and sorts. A checksum is taken for the text it is of. `MigrationRun`
assumes of a plan only that its versions increase (`PlanAssumption`); TLC evaluates
the assumption on the plans `NewPlan` returns.

### Transactions

A boundary `t` is a pair of a goroutine and a depth: a goroutine in `Nested` calls
`Within` once more inside its work, which takes a second connection. `pc[t]`
follows `Within`: `begin` (waiting for a connection), `work`, `commit`, `rollback`
(the work returned an error), `unwind` (it panicked, the deferred function is
running), `returned`. `status[t]` is the transaction at the server, `held` the
connections in use. `runtime.Goexit` runs the deferred function with nothing to
recover, so the transaction stays open until its context ends; the model lets any
work do that (`Exit`). Of `database/sql` and PostgreSQL, external here: a context
that ends rolls its transactions back, COMMIT then reports that, and a connection
that breaks under COMMIT leaves a session that may still commit. Observers must
not panic (`spice/data/transaction.go:49`) and are left out.

Nothing in the code keeps goroutines that nest from holding all connections and
waiting for one another. The model lets them: `Stalled` says that somebody waits
and no connection can come back, and `StallNeedsNesting` that this takes as many
callers that nest as the pool has connections, less those that exited goroutines
keep. A connection that some other way out of `Within` forgot would make it happen
with fewer. So a pool with more connections than callers that nest does not stall as
long as goroutines do not exit, which `Open` cannot check and an application can.

### Tools

The working tree is a record of what the phases judge: parts of `go.mod`, the
compatibility contract, the vendor tree and its `modules.txt`, coverage, and the
set of the other checks it passes. `head` is the committed one. A job is at a
phase of its program (`CompatProgram`, `GateProgram`); a phase that fails sends it
to its end, where the deferred removals are. The end of a step with a temporary
directory is a phase of its own, `leave`. `go mod tidy` and commands with
`-mod=mod` select at least what sources and dependencies force (`Selected`).
`cache` has the groups of modules the network phase fetched; a later command
needs them (`Needs`). The release plan pins `HEAD`; the renders archive it.
Versions of core are numbers in order. `seen`, `disturbed` and `hit` are history:
the tree a job returned over, and whether others changed it or a fault met it.

What the module shows of the tools depends on what is assumed of the commands:
they judge the tree they run in at one moment, a phase is one step, and an edit
replaces the tree at once. The gate checks the identity of the working tree, and
the plan compares only `go.mod` and `spice-compatibility.json` with the commit: the
workflow file of the commit is not checked, and `RehearsesOneCommit` does not claim it.

## 3. Runs

| run | question | bounds |
|---|---|---|
| `batch_safety` | all safety properties, the inductive invariant and the refinement of `BatchPromise`: two processes, one clock ahead by 1, one job | 2 steps, lease 2, time 0..3, attempts up to 3, 2 faults anywhere |
| `batch_live` | the instance is completed while a release that reorders the steps is rolled out over three processes; nothing of one order is taken for the other | lease 2, time 0..3, attempts up to 7, 1 fault up to time 1 |
| `batch_stale` | (violation) `ErrStaleAttempt` for an active attempt | as `batch_safety`, clocks in step |
| `outbox_safety` | tables of two messages, skewed clocks, same owner name; the inductive invariant; refinement of `OutboxPromise` | batches of 2, lease 2, time 0..3, attempts up to 2, 2 faults |
| `outbox_live` | every committed message is removed | batches of 1, time 0..4, attempts up to 9, 1 fault up to time 1 |
| `outbox_order` | (violation) claims come in byte order | as `outbox_safety`, clocks in step, 1 fault |
| `migration_releases` | three releases under one lock, the second extends the first, the third changes a migration of both; refinement of `MigrationPromise` | plans of 2 and 3 migrations, versions 1, 10, 11; 3 faults |
| `migration_live` | releases that extend one another, though one process has another lock ID and one was built from a checkout with Windows line ends: the registry is always a beginning of the newest plan, and all plans are applied; refinement of `MigrationPromise`, the inductive invariant | plans of 2 and 3 migrations, versions 1, 10, 11; 1 fault |
| `migration_versions` | (violation) a run refuses only a registry that is no beginning of its plan | versions 9, 10, 11; 1 fault |
| `transactions` | what is stored, whose connection it is, what it takes to stall, and that everybody is served; the inductive invariant | two goroutines, both nesting; 3 connections; 1 fault |
| `tools` | passes and failures are deserved, nothing is left or rewritten, one commit is rehearsed; the inductive invariant | two jobs in 12 pairs of modes; trees of four contents; 1 edit or commit, 1 fault |
| `tools_release` | (violation) `verify-release` implies a verified tree | one job, no fault |

Why the bounds suffice. Two processes are enough for one to hold what the
other takes over; the models have no step that three processes must take
together. Three processes run where a third party comes between two: another
release, another lock, a process between a ghost and a release. A lease of 2 in a time of 3 (or 4) lets a lease be live, end,
be taken over and end again. The second step of a job makes prefixes, the
second message makes batches and locks. Two faults make the pairs that are
hard: a lost reply and a late statement, a takeover and a crash. Attempt
limits 2 and 3 are reached, 7 and 9 are not (the liveness runs must not end at
the limit, which in the code is 2^63 - 1). Three connections for four
boundaries make one wait, are the fewest with which two goroutines that nest are always
served, and stall when a goroutine that has exited keeps two of them until its context ends.
The four contents of the tree differ in one check of each kind; two renders with
one fault can differ, and two that are wrong alike are beyond a comparison.
`MaxTime`, `MaxFaults`, `MaxEdits` and `FaultHorizon` are bounds of the models and not
of the code.

Deadlock is checked in the runs of batches, outbox and migrations: a process can
always call again. It is not in `transactions` and the runs of the tools, which
end when every call has returned; that nobody waits for ever, in a pool with more
connections than callers that nest, is `EventuallyServed`.

### Fairness

Liveness assumes that a call that was started goes on (callbacks and
publishers return, the server answers or the client gives up), that the
application calls `Run` or `RunOnce` again (`src` has no scheduler: whoever
uses these has one), and that time passes. `FaultHorizon` or `MaxFaults`
ends the faults: with faults for ever nothing completes. Migrations assume in
addition that PostgreSQL does not pass over a waiting session for ever (it queues
them) and that it ends sessions whose client is gone. Nothing is assumed of
late statements: they may never be executed. `transactions` assumes that work ends,
that the pool serves those who wait in their order (strong fairness of `Begin`:
`database/sql` queues them), that `database/sql` rolls back what a context leaves, and
that the context of a goroutine that has exited ends, as that of a request or test
does. Nobody else's context has to end.

## 4. Findings

* `batch_stale`. A checkpoint was stored and its reply lost. `Run` then records
  the failure for the step it thinks it is at; the row is one step further, the
  WHERE clause of Fail (`batch.go:217`) matches nothing, and the result is
  `ErrStaleAttempt`, documented as "a transition for an inactive or old
  attempt" (`spice/batch/batch.go:25`), for the attempt that is active. Nothing
  is lost, but the instance stays running until its lease ends.
* `outbox_order`. The claim orders by the database's collation
  (`outbox.go:101`, `outbox.go:133`), the dispatcher checks the order of bytes and
  calls another order an error of the store
  (`spice/event/outbox/outbox.go:423`). With a linguistic collation two
  messages of one time can be claimed together, refused, left leased, and
  refused again when their leases have ended. They are
  not lost (nothing is removed that was not published), and not delivered
  while they are claimed together.

* `migration_versions`. `Applied` selects `version::text` and orders by `version`
  (`migration.go:195`, `migration.go:197`). PostgreSQL names that output column
  `version`, and a bare name in ORDER BY is the output column: the rows are
  sorted by text. With versions 9 and 10 applied, the registry reads 10, 9;
  `reconcile` refuses it on this and every later run, against "Run validates
  the durable registry as an exact plan prefix"
  (`spice/migration/migration.go:164`). Versions of equal length, such as the dates
  the integration tests use, are not affected.
* `tools_release`. `docs/releasing.md:75` says "`make verify-release` executes this
  deterministic rehearsal after the complete repository verification contract";
  the mode (`internal/qualitygate/main.go:89`) runs the identity checks and the
  rehearsal, as `release-rehearsal` does, and the Makefile starts nothing else. A
  release can be verified in a tree that `make verify` refuses.

## 5. Proofs

Every safety property of a passing run is a theorem, and so are the three
refinements, that of migrations under each of two hypotheses. The five components
with steps are proved alike: a module `...Invariant` states an inductive invariant as a conjunction of named parts, which a run checks on
a small instance; a module `...Proofs` shows with one lemma per action, or per
part with one step per action, that every step keeps it, and takes each
property from it. The bounds of the models (`MaxTime`, `MaxFaults`, `MaxEdits`, ...)
are arbitrary in the proofs, with the one exception named below.

### Batch

`BatchRunProofs` proves, for every set of processes, every jobs, clocks,
lease, attempt limit and every value of the bounds:

| theorem | property |
|---|---|
| `TypeCorrect` | `TypeOK` |
| `Invariance` | `IInv`, the inductive invariant |
| `SchemaHoldsAlways` | `SchemaHolds` |
| `RecordedStepsRanAlways` | `RecordedStepsRan` |
| `NoStepSkippedEver` | `NoStepSkipped` |
| `LeaseExcludes` | `LeaseExclusion` |
| `SuccessIsTrue` | `SuccessIsDurable` |
| `OncePerAttemptAlways` | `OncePerAttempt` |
| `Implementation` | `KeepsPromise`: `BatchRun` implements `BatchPromise` |

Assumptions: those named `...Assumption` in `BatchStatements` and `BatchRun`
(a job has at least one step and no step twice, as `NewJob` requires; the lease
is positive; NULL is no integer and no step), which TLC evaluates in every run.

The argument. None of the properties is inductive: that a run's lease excludes
others depends on what late statements may still do. `IInv` says: a run
that is at work under the row's attempt knows the row exactly (`CurrentInv`);
no two runs have one attempt (`UniqueInv`); nobody works under the attempt
of a late Checkpoint, Complete or Fail, because its caller has left the loop
(`LateInv`); and a Begin, late or not, carries a time some clock has reached
(`BeginSent`), so it cannot take over before a clock has passed the lease
(`LeaseInv`). The module first proves what executing a request does to a row
(it is unchanged, started, resumed, checkpointed, completed or failed), then
one lemma per conjunct of `IInv` with one step per action, then the theorems.
The refinement maps a granted first Begin to Start, a callback's success to
Succeed, a matching Checkpoint to Record, a matching Complete to Finish, and
everything else to stuttering.

### Outbox

`OutboxProofs` proves, for every set of messages and dispatchers, every
collation, clocks, options and bounds:

| theorem | property |
|---|---|
| `Invariance` | `IInv`, the inductive invariant |
| `TypeCorrect` | `TypeOK`: no attempt passes the largest bigint, no row is locked by two claims |
| `SchemaHoldsAlways` | `SchemaHolds` |
| `LeaseExcludes` | `LeaseExclusion` |
| `RemovalIsDeserved` | `RemovedWhenPublished` |
| `ClaimsAreDueAlways` | `ClaimsAreDue` |
| `OncePerReceiptAlways` | `OncePerReceipt` |
| `Implementation` | `KeepsPromise`: `OutboxDispatch` implements `OutboxPromise` |

Assumptions: those in `OutboxStatements` and `OutboxDispatch`. Batch size and
lease are positive and an owner is not NULL, as `NewDispatcher` requires; both
orders of messages agree with `occurred_at`, and the collation has no ties (it
ranks by `id`, the primary key, in the end); NULL is no time and no receipt.

The argument. A receipt is a message and the number of its claim, so it says
which claim it is of. `RowInv` and `CountedInv` say that the row carries none but that of
its latest claim, and that every receipt in a batch or used by a publisher is of
a claim the row has counted. No receipt is in two batches (`UniqueInv`). A
statement that arrives late has a receipt that its dispatcher has dropped
(`LateInv`): a late Release or Complete never acts on what somebody is publishing,
and a late Complete follows a publisher that succeeded, which gives
`RemovedWhenPublished`. A receipt that is still to be taken from a batch was never
used (`FreshInv`); with `UniqueInv` that is `OncePerReceipt`. A claim, late or not, carries a
time that some clock has reached (`ReachedInv`), and rows stay claimable while it
holds their locks (`ChosenInv`), so before a clock passes the lease of a batch no
claim takes its rows (`LeaseInv`). Its head exists because the ranks of messages
are well ordered (`FirstExists`). The refinement maps a commit of an insert to Store,
a publisher that delivers to Deliver and a matching Complete to Remove.

### Migrations

`MigrationProofs` proves, for every set of processes, every plans, versions and
number of faults:

| theorem | property | lock IDs |
|---|---|---|
| `TypeCorrect` | `TypeOK` | any |
| `Invariance` | `IInv`, the inductive invariant | any |
| `AppliedOnceAlways` | `AppliedOnce` | any |
| `SuccessIsTrue` | `SuccessMeansApplied` | any |
| `PoolCleanAlways` | `PoolClean` | any |
| `RunsExclude` | `NoInterference` | one |
| `Implementation` | `KeepsPromise`: `MigrationRun` implements `MigrationPromise` | one |
| `NewestTakesOverAlways` | `NewestTakesOver` | any |
| `ExtendingImplementation` | `KeepsPromise`, when some deployed plan extends all others | any |
| `ReconcilesByPosition` | the loop of `reconcile` over the rows as they are read is `Reconciled` | any |

"One" is the hypothesis `OneLock` of the theorem: all processes are configured
with one `LockID`, as the default makes them. `NewestTakesOver` speaks of the runners
whose plan extends all others: the registry is a beginning of that plan at every
moment, and they are refused only if the texts of their versions are out of order,
which finding `migration_versions` shows to happen.

The argument. `AppliedOnce` is not inductive: a commit adds one to the effect of
a migration, so its row must not be in the registry already. `InsertedInv` says
so of every row that is inserted and not committed, in a run or in a session
left behind, and that no two of them have one version, which the INSERT
establishes by waiting on the primary key. `ProgressInv` says that
what a run counts as applied is in the registry. With one lock, `PoolClean` and
`GhostInv` make whoever holds the lock the only one with a transaction; from that
follows `NoInterference`, together with `GhostNext`: what a session left
behind may still commit is the next migration of a plan, which is also what
the refinement needs. That a run is where it believes to be after reading
rests on the cardinality of a beginning of a plan (`EntriesCardinality`).

Under different locks a run may be anywhere behind the registry. `Lineage` is what
still holds when releases extend one another. What is about to be committed, in a run
(`ProgressInv`) or in a session left behind (`GhostAhead`), is a migration of some plan
all of whose earlier ones are in the registry, and by `InsertedInv` it is not there
itself; in a beginning of the newest plan that leaves only the next one
(`NextOfNewest`). So each commit makes the next beginning, and is a step of
`MigrationPromise`.

`ReconcilesByPosition` is about the loop and the set, not about steps: there is one way
to sort the rows (`SortedOnce`, at the first place where two ways differ), so
the rows as they are read are the beginning of the plan that they are as a set.
Its hypothesis `TextsAreOrdered` says that of two texts at most one comes first.
That is true of every number, but follows from laws of powers of ten that the
provers do not have; TLC evaluates it for the versions of the runs (`TextOrder`).

### Transactions

`TransactionProofs` proves, for every set of callers, nested or not, and every
pool that `Open` accepts:

| theorem | property |
|---|---|
| `Invariance` | `IInv`, the inductive invariant |
| `TypeCorrect` | `TypeOK`: at most `MaxOpenConnections` connections in use, each by one open transaction |
| `StoresSuccess` | `StoredOnlyBySuccess` |
| `ReturnsConnections` | `ConnectionsReturned` |
| `OnlyNestingStalls` | `StallNeedsNesting`, if `Nested` is finite |

The argument. Two parties act on a transaction: `Within`, and `database/sql` when
its context ends. `PhaseInv` says how far they can be apart: at work, and in every
step after it, the transaction is open or its context has ended and rolled it
back. `OutcomeInv` is about what remains when `Within` has returned: a session
left at the server belongs to a COMMIT without an answer, of work that succeeded;
a transaction still open has a context that has ended or a goroutine that has
exited, and is taken back. The set of connections in use is finite and `Begin`
adds one only below the limit, which is a number because `normalizePool` refuses
"unlimited" (`LimitIsPositive`). In a stalled pool these two parts leave each
connection only two kinds of owner, a goroutine that has exited or the outer boundary
of a caller that nests; counting the callers gives `StallNeedsNesting`.

### Tools

`ToolProofs` proves, for every set of jobs and modes, every content of the working
tree, and every number of edits and faults:

| theorem | property |
|---|---|
| `Invariance` | `IInv`, the inductive invariant |
| `TypeCorrect` | `TypeOK` |
| `PassedVerified` | `PassedMeansVerified` |
| `FailureDeserved` | `FailureIsDeserved` |
| `NothingLeftUnreported` | `LeftoversReported` |
| `OnlyFormattingRewritten` | `GraphUntouched` |
| `RehearsalOfOneCommit` | `RehearsesOneCommit`, if `MaxFaults` is at most 1 |

Assumptions: `ModesAssumption`, `TreesAssumption` and `NullAssumption` of `ToolJobs`,
which give the constants their types. The hypothesis of the last theorem is needed:
two renders that go wrong in the same way are equal, and comparing is all the
rehearsal does with them. `IInv` itself is proved for any number of faults:
`RehearsalInv` counts one for each output that is wrong.

The argument. `Done(j)` is the set of phases that job `j` has passed. For a job of the
gate whose tree nobody else has changed (`Sound`), every phase in it tells
something of the tree (`Told`): that a check holds, that a group of modules is in the
cache, that the exported graph or the measured coverage is that of the tree. When
the program is at its end, `Done` is all of it, and what its phases tell together is what the
mode stands for: `PassedMeansVerified`. That a failure is deserved
(`DeservedInv`) needs the converse, and that a phase which uses the work of another
comes after it: an offline command after the network phase that fetches its
modules, the comparison of vendor after the export, the threshold after
the measurement. Programs are concatenations of sequences, some with variants, so
this is proved by lemmas about `Before` on concatenations, once per program. The
compatibility tool has one short program, and `LineInv` says what is known at each place.
Jobs share the tree, the cache and the disk. `IInv` is split into a part of the
checkout and one part per job (`Parts`); a step of one job leaves the parts of
the others alone (`Kept`, `JobMoves`), as its temporary files are its own, the cache
only grows, and whoever changes the tree marks the other jobs as disturbed.

### Pool options

`PoolOptions` proves of every options: an accepted pool is bounded
(`PoolIsBounded`) and stays as it is when normalized again (`PoolIsStable`), and
a URL that is accepted without AllowInsecure has one sslmode, with TLS
(`ConnectsWithTLS`). They are about functions, not steps; `Transactions` runs over a
pool that `normalizePool` returns.

### Only model-checked

* Liveness (`EventuallyComplete`, `EventuallyDelivered`, `EventuallyMigrated`,
  `EventuallyServed`), and with it that the fairness is not vacuous: the prover
  has no rules for fairness and ENABLED.
* The four violations of section 4: a counterexample is what shows them.
* That the texts of versions are ordered (`TextOrder`), as said above, and that `NewPlan`
  returns increasing versions: TLC evaluates both on what the runs use. The
  sorting operator is defined by a choice of permutation, whose existence for every
  list would need induction.

## 6. Not modelled

* The in-memory batch store and the SQL test harness: test doubles.
* The manifest: a constant.
* Observers, logging, error texts, payloads; the text of migrations; validation of
  names and sizes (schema, table, application name) and the syntax of URLs, which
  are decisions on strings before anything has a state.
* What the commands do that the tools start: `go`, the formatters and analyzers,
  `spice-dev`; finding the repository's root; the encodings of SBOM and checksums
  beyond whether they are canonical.
* Other packages vendored with the framework; pgx, `database/sql` and PostgreSQL
  themselves, whose behaviour is assumed as section 2 says.

## 7. Plan

Done: batch, outbox, migrations with their plans, transactions and tools (models,
runs, proofs of every safety property a run checks), pool options (operators,
proofs). Left:

1. `MigrationPlan`: what can be said of `NewPlan` for every list of entries without
   induction (that a refusal is for a reason, that a plan has the registered entries).
2. Of the statements of `BatchStatements` and `OutboxStatements`, theorems of their own where
   proofs now use lemmas: that a statement repeated after a lost reply changes nothing.
3. The proof of the tools is the longest; lemmas that `WorkPasses` and `WorkErrs` could
   take over from the steps of single phases would shorten it.
