----------------------------- MODULE MigrationRun -----------------------------
(***************************************************************************)
(* Runner.Run (spice/migration/migration.go) over the PostgreSQL migration *)
(* backend (migration.go): processes that apply their plans under a        *)
(* session-level advisory lock, one transaction per migration.             *)
(*                                                                         *)
(* A process talks to its server session through one pinned connection.    *)
(* When the connection breaks or the process dies the session stays behind *)
(* as a ghost: it keeps the lock and its open transaction, it may still    *)
(* execute the statement it was sent, and only then does the server end it.*)
(***************************************************************************)
EXTENDS Integers, Sequences, FiniteSets

CONSTANTS
  Migrations,   \* migrations: version, identity and checksum of each
  Version,      \* Version[m]: application-global version of m
  Runners,      \* processes that run migrations
  Plan,         \* Plan[r]: the ordered plan r deploys (NewPlan)
  LockID,       \* LockID[r]: MigrationOptions.LockID of r
  MaxDigits,    \* digits of the largest version (20 for a uint64)
  MaxFaults,    \* bound: number of faults
  Null

ASSUME VersionAssumption == Version \in [Migrations -> Nat \ {0}]
ASSUME DigitsAssumption == MaxDigits \in Nat /\ \A m \in Migrations : Version[m] < 10^MaxDigits
ASSUME PlanAssumption ==
  \A r \in Runners :
    /\ Plan[r] \in Seq(Migrations)
    /\ \A i, j \in 1..Len(Plan[r]) : i < j => Version[Plan[r][i]] < Version[Plan[r][j]]
ASSUME NullAssumption == Null \notin Migrations /\ Null \notin Runners
ASSUME GhostAssumption == "ghost" \notin Runners /\ Null # "ghost"

VARIABLES
  registry,     \* the rows of spice_schema_history
  effects,      \* effects[m]: how often the SQL of m was committed
  holder,       \* holder[k]: who holds advisory lock k: a runner, "ghost", Null
  ghosts,       \* sessions whose client is gone
  pc,           \* pc[r]: where Run is
  done,         \* done[r]: Current + Applied of r's run
  outcome,      \* outcome[r]: the result r's run will return once unlocked
  result,       \* result[r]: how r's last run returned
  lost,         \* runners in a run whose connection is gone
  faults        \* faults so far

server == <<registry, effects, holder, ghosts>>
client == <<pc, done, outcome, result, lost>>
vars == <<registry, effects, holder, ghosts, pc, done, outcome, result, lost, faults>>

-------------------------------------------------------------------------------

Locks == {LockID[r] : r \in Runners}
Fault == faults < MaxFaults /\ faults' = faults + 1

Entries(plan, n) == {plan[i] : i \in 1..n}

\* The decimal texts of versions, in the order of texts: 10 comes before 9.
Beginnings(v) == {v \div 10^i : i \in 0..MaxDigits - 1} \ {0}

TextBefore(v, w) ==
  \/ v # w /\ v \in Beginnings(w)
  \/ \E b \in Beginnings(v) : \E c \in Beginnings(w) : b < c /\ b \div 10 = c \div 10

\* Applied reads the rows ORDER BY version, which names the output column
\* version::text: the first n entries of the plan come in the order of the plan
\* when their texts are ordered like their versions.
ReadInOrder(plan, n) ==
  \A i, j \in 1..n : i < j => TextBefore(Version[plan[i]], Version[plan[j]])

\* Mutants: checksums and names are not compared; a registry as long as the plan is
\* refused.
ReconciledByVersion(plan, applied) == \E n \in 0..Len(plan) :
  {Version[m] : m \in applied} = {Version[m] : m \in Entries(plan, n)}

ReconciledShorter(plan, applied) == \E n \in 0..Len(plan) - 1 :
  applied = Entries(plan, n) /\ ReadInOrder(plan, n)

\* reconcile: the rows that were read are exactly a beginning of the plan.
Reconciled(plan, applied) == \E n \in 0..Len(plan) :
  applied = Entries(plan, n) /\ ReadInOrder(plan, n)

\* The migration r is at, once it is in the loop.
Pending(r) == Plan[r][done[r] + 1]

\* Rows of the registry some session has inserted and not committed.
Uncommitted == {Pending(r) : r \in {s \in Runners \ lost : pc[s] = "commit"}}
                 \cup ({g.inserted : g \in ghosts} \ {Null})

SameVersion(m, S) == \E n \in S : Version[n] = Version[m]

Goto(r, state) == pc' = [pc EXCEPT ![r] = state]

\* Leave the work function with an outcome; releaseLock comes next.
Unlock(r, how) == /\ Goto(r, "unlock")
                  /\ outcome' = [outcome EXCEPT ![r] = how]

\* RunLocked returns and gives its connection back.
Return(r, how) == /\ Goto(r, "idle")
                  /\ result' = [result EXCEPT ![r] = how]

Init ==
  /\ registry = {} /\ ghosts = {} /\ faults = 0
  /\ effects = [m \in Migrations |-> 0]
  /\ holder = [k \in Locks |-> Null]
  /\ pc = [r \in Runners |-> "idle"]
  /\ done = [r \in Runners |-> 0]
  /\ outcome = [r \in Runners |-> "none"]
  /\ result = [r \in Runners |-> "none"]
  /\ lost = {}

-------------------------------------------------------------------------------
(* RunLocked: lock, registry table, Applied and reconcile *)

Run(r) ==
  /\ pc[r] = "idle"
  /\ Goto(r, "lock")
  /\ result' = [result EXCEPT ![r] = "none"]
  /\ UNCHANGED <<server, done, outcome, lost, faults>>

Locked(r) ==
  /\ pc[r] = "lock" /\ holder[LockID[r]] = Null
  /\ holder' = [holder EXCEPT ![LockID[r]] = r]
  /\ Goto(r, "create")
  /\ UNCHANGED <<registry, effects, ghosts, done, outcome, result, lost, faults>>

\* pg_advisory_lock ends with an error of the server: nothing to release.
LockRefused(r) ==
  /\ pc[r] = "lock"
  /\ Fault
  /\ Return(r, "error")
  /\ UNCHANGED <<server, done, outcome, lost>>

RegistryCreated(r) ==
  /\ pc[r] = "create"
  /\ Goto(r, "read")
  /\ UNCHANGED <<server, done, outcome, result, lost, faults>>

Read(r) ==
  /\ pc[r] = "read"
  /\ IF Reconciled(Plan[r], registry)
     THEN /\ done' = [done EXCEPT ![r] = Cardinality(registry)]
          /\ Goto(r, "loop")
          /\ UNCHANGED outcome
     ELSE Unlock(r, "refused") /\ UNCHANGED done
  /\ UNCHANGED <<server, result, lost, faults>>

\* The server refuses a statement before the loop, or a Begin; or the loop sees
\* a cancelled context, or an observer panics: the work ends without a change.
WorkRefused(r) ==
  /\ pc[r] \in {"create", "read", "loop"}
  /\ Fault
  /\ Unlock(r, "error")
  /\ UNCHANGED <<server, done, result, lost>>

-------------------------------------------------------------------------------
(* Apply: one transaction per migration *)

\* Mutant: one entry too many.
ApplyBeginsAtEnd(r) ==
  /\ pc[r] = "loop" /\ done[r] <= Len(Plan[r])
  /\ Goto(r, "script")
  /\ UNCHANGED <<server, done, outcome, result, lost, faults>>

ApplyBegins(r) ==
  /\ pc[r] = "loop" /\ done[r] < Len(Plan[r])
  /\ Goto(r, "script")
  /\ UNCHANGED <<server, done, outcome, result, lost, faults>>

AllApplied(r) ==
  /\ pc[r] = "loop" /\ done[r] = Len(Plan[r])
  /\ Unlock(r, "success")
  /\ UNCHANGED <<server, done, result, lost, faults>>

\* Mutant: the script is executed on the connection, outside the transaction.
ScriptAutocommitted(r) ==
  /\ pc[r] = "script"
  /\ Goto(r, "record")
  /\ effects' = [effects EXCEPT ![Pending(r)] = @ + 1]
  /\ UNCHANGED <<registry, holder, ghosts, done, outcome, result, lost, faults>>

ScriptExecuted(r) ==
  /\ pc[r] = "script"
  /\ Goto(r, "record")
  /\ UNCHANGED <<server, done, outcome, result, lost, faults>>

\* The migration's SQL, or its INSERT, is refused by the server.
StatementRefused(r) ==
  /\ pc[r] \in {"script", "record"}
  /\ Fault
  /\ Goto(r, "rollback")
  /\ UNCHANGED <<server, done, outcome, result, lost>>

\* Mutant: INSERT ... ON CONFLICT DO NOTHING.
RecordedOrNot(r) ==
  /\ pc[r] = "record"
  /\ ~SameVersion(Pending(r), Uncommitted)
  /\ Goto(r, "commit")
  /\ UNCHANGED <<server, done, outcome, result, lost, faults>>

\* The primary key: the INSERT waits while another transaction has inserted the
\* version, and fails once the registry has it.
Recorded(r) ==
  /\ pc[r] = "record"
  /\ ~SameVersion(Pending(r), Uncommitted)
  /\ Goto(r, IF SameVersion(Pending(r), registry) THEN "rollback" ELSE "commit")
  /\ UNCHANGED <<server, done, outcome, result, lost, faults>>

\* The script and the registry row take effect together.
TakeEffect(m) == /\ registry' = registry \cup {m}
                 /\ effects' = [effects EXCEPT ![m] = @ + 1]

Committed(r) ==
  /\ pc[r] = "commit"
  /\ TakeEffect(Pending(r))
  /\ done' = [done EXCEPT ![r] = @ + 1]
  /\ Goto(r, "loop")
  /\ UNCHANGED <<holder, ghosts, outcome, result, lost, faults>>

\* Mutant: the error of COMMIT is not returned.
CommitUnchecked(r) ==
  /\ pc[r] = "commit"
  /\ Fault
  /\ done' = [done EXCEPT ![r] = @ + 1]
  /\ Goto(r, "loop")
  /\ UNCHANGED <<server, outcome, result, lost>>

\* COMMIT fails on the server, which has rolled back.
CommitRefused(r) ==
  /\ pc[r] = "commit"
  /\ Fault
  /\ Unlock(r, "error")
  /\ UNCHANGED <<server, done, result, lost>>

RolledBack(r) ==
  /\ pc[r] = "rollback"
  /\ Unlock(r, "error")
  /\ UNCHANGED <<server, done, result, lost, faults>>

-------------------------------------------------------------------------------
(* releaseLock *)

Unlocked(r) ==
  /\ pc[r] = "unlock"
  /\ holder' = [holder EXCEPT ![LockID[r]] = Null]
  /\ Return(r, outcome[r])
  /\ UNCHANGED <<registry, effects, ghosts, done, outcome, lost, faults>>

Ghost(r) == [lock |-> LockID[r],
             waits |-> pc[r] = "lock",
             inserted |-> IF pc[r] = "commit" THEN Pending(r) ELSE Null]

\* Mutant: the lock does not belong to the session that runs the transactions.
LeaveUnlocked(r) ==
  /\ ghosts' = ghosts \cup {Ghost(r)}
  /\ holder' = IF pc[r] = "lock" THEN holder ELSE [holder EXCEPT ![LockID[r]] = Null]

\* The session of r is left to itself, with the lock if it had it.  (Sessions
\* that wait for one lock with nothing open are alike, and counted once.)
Leave(r) ==
  /\ ghosts' = ghosts \cup {Ghost(r)}
  /\ holder' = IF pc[r] = "lock" THEN holder
               ELSE [holder EXCEPT ![LockID[r]] = "ghost"]

\* Mutant: the connection goes back to the pool all the same.
UnlockUnchecked(r) ==
  /\ pc[r] = "unlock"
  /\ Fault
  /\ Return(r, "error")
  /\ UNCHANGED <<server, done, outcome, lost>>

\* The unlock fails or reports that the lock was not owned: releaseLock closes
\* the physical connection.
UnlockRefused(r) ==
  /\ pc[r] = "unlock"
  /\ Fault
  /\ Leave(r)
  /\ Return(r, "error")
  /\ UNCHANGED <<registry, effects, done, outcome, lost>>

-------------------------------------------------------------------------------
(* Lost connections, crashes, cancelled statements; sessions left behind *)

Break(r) ==
  /\ pc[r] # "idle"
  /\ Fault
  /\ Leave(r)
  /\ lost' = lost \cup {r}
  /\ UNCHANGED <<registry, effects, pc, done, outcome, result>>

\* The run learns of it at its next statement; rollback and unlock fail as well.
Notice(r) ==
  /\ Return(r, "error")
  /\ lost' = lost \ {r}
  /\ UNCHANGED <<server, done, outcome, faults>>

GhostLocks(g) ==
  /\ g.waits /\ holder[g.lock] = Null
  /\ holder' = [holder EXCEPT ![g.lock] = "ghost"]
  /\ ghosts' = (ghosts \ {g}) \cup {[g EXCEPT !.waits = FALSE]}
  /\ UNCHANGED <<registry, effects, client, faults>>

GhostCommits(g) ==
  /\ g.inserted # Null
  /\ TakeEffect(g.inserted)
  /\ ghosts' = (ghosts \ {g}) \cup {[g EXCEPT !.inserted = Null]}
  /\ UNCHANGED <<holder, client, faults>>

\* The server ends the session: its transaction is rolled back, its lock free.
GhostEnds(g) ==
  /\ ghosts' = ghosts \ {g}
  /\ holder' = IF g.waits THEN holder ELSE [holder EXCEPT ![g.lock] = Null]
  /\ UNCHANGED <<registry, effects, client, faults>>

-------------------------------------------------------------------------------

Step(r) ==
  \/ Locked(r) \/ RegistryCreated(r) \/ Read(r)
  \/ ApplyBegins(r) \/ ScriptExecuted(r) \/ Recorded(r) \/ Committed(r)
  \/ RolledBack(r) \/ AllApplied(r) \/ Unlocked(r)

Disturb(r) ==
  \/ LockRefused(r) \/ WorkRefused(r) \/ StatementRefused(r) \/ CommitRefused(r)
  \/ UnlockRefused(r) \/ Break(r)

GhostStep(g) == GhostLocks(g) \/ GhostCommits(g) \/ GhostEnds(g)

Next ==
  \/ \E r \in Runners \ lost : Run(r) \/ Step(r) \/ Disturb(r)
  \/ \E r \in lost : Notice(r)
  \/ \E g \in ghosts : GhostStep(g)

Spec == Init /\ [][Next]_vars

\* A run goes on as far as the server lets it (PostgreSQL queues those who wait
\* for an advisory lock), whoever deploys a plan runs it, and the server ends a
\* session whose client is gone.
Fairness ==
  /\ \A r \in Runners :
       /\ WF_vars(r \notin lost /\ (Run(r) \/ Step(r)))
       /\ SF_vars(r \notin lost /\ Locked(r))
       /\ WF_vars(r \in lost /\ Notice(r))
  /\ WF_vars(\E g \in ghosts : GhostEnds(g))

FairSpec == Spec /\ Fairness

-------------------------------------------------------------------------------
(* Types *)

Critical == {"create", "read", "loop", "script", "record", "commit", "rollback",
             "unlock"}
Outcomes == {"none", "success", "refused", "error"}
GhostType == [lock : Locks, waits : BOOLEAN, inserted : Migrations \cup {Null}]

\* Every variable stays within its type, and a run that applies a migration is
\* at one of its plan.
TypeOK ==
  /\ registry \subseteq Migrations
  /\ effects \in [Migrations -> Nat]
  /\ holder \in [Locks -> Runners \cup {"ghost", Null}]
  /\ ghosts \subseteq GhostType
  /\ pc \in [Runners -> Critical \cup {"idle", "lock"}]
  /\ done \in [Runners -> Nat]
  /\ \A r \in Runners :
       /\ pc[r] = "loop" => done[r] <= Len(Plan[r])
       /\ pc[r] \in {"script", "record", "commit"} => done[r] < Len(Plan[r])
  /\ outcome \in [Runners -> Outcomes]
  /\ result \in [Runners -> Outcomes]
  /\ lost \subseteq {r \in Runners : pc[r] # "idle"}
  /\ faults \in Nat

-------------------------------------------------------------------------------
(* Safety *)

\* The schema has exactly the migrations the registry names, each applied once,
\* even when processes use different locks or lose their commit's reply (one
\* transaction per migration, the registry's primary key).
AppliedOnce == \A m \in Migrations : effects[m] = IF m \in registry THEN 1 ELSE 0

\* "Concurrent migration runners are excluded": while a run applies its plan and
\* its session lives, the registry is what the run believes it is, though the
\* session of a run that broke off may be committing at its end.
NoInterference ==
  \A r \in Runners \ lost : pc[r] \in {"loop", "script", "record", "commit"} =>
    registry = Entries(Plan[r], done[r])

\* Run returns without an error only when every migration of its plan is in the
\* registry, for good.
SuccessMeansApplied ==
  \A r \in Runners : result[r] = "success" => Entries(Plan[r], Len(Plan[r])) \subseteq registry

\* "Run validates the durable registry as an exact plan prefix": it refuses a
\* registry only when it is no beginning of its plan.
RefusedMeansDiverged ==
  \A r \in Runners \ lost : pc[r] = "unlock" /\ outcome[r] = "refused" =>
    ~\E n \in 0..Len(Plan[r]) : registry = Entries(Plan[r], n)

\* r deploys the newest release: every plan is a beginning of its own.
IsBeginning(p, q) == Len(p) <= Len(q) /\ \A i \in 1..Len(p) : p[i] = q[i]
Newest(r) == \A s \in Runners : IsBeginning(Plan[s], Plan[r])

\* "Run validates the durable registry as an exact plan prefix": when the deployed
\* releases extend one another, the registry is a beginning of the newest plan at
\* every moment, whichever locks the processes take and whichever of them broke off
\* or commit at their end; so a run of the newest release is never refused, but for
\* versions whose texts are not ordered like the versions.
NewestTakesOver ==
  \A r \in Runners : Newest(r) =>
    /\ \E n \in 0..Len(Plan[r]) : registry = Entries(Plan[r], n)
    /\ outcome[r] = "refused" => ~ReadInOrder(Plan[r], Len(Plan[r]))

\* "A leaked session lock can never return to the pool": once RunLocked returned,
\* no live session of the process still holds the lock, not even by a statement
\* it had stopped waiting for.
PoolClean ==
  \A r \in Runners : holder[LockID[r]] = r <=> r \notin lost /\ pc[r] \in Critical

\* What migrations promise to the application: see MigrationPromise.
Promise == INSTANCE MigrationPromise
  WITH Plans <- {Plan[r] : r \in Runners}, recorded <- registry

KeepsPromise == Promise!Spec

-------------------------------------------------------------------------------
(* Liveness *)

\* Once faults stop, plans that extend one another are all applied: no lock left
\* behind by a broken run keeps the others out for good.
EventuallyMigrated ==
  <>[](\A r \in Runners : Entries(Plan[r], Len(Plan[r])) \subseteq registry)
================================================================================
