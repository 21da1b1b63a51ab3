--------------------------- MODULE MigrationInvariant ---------------------------
(***************************************************************************)
(* The inductive invariants of MigrationRun: IInv for any lock IDs, and    *)
(* what holds in addition when all processes use one lock.                 *)
(* MigrationProofs proves them; the runs check them on small instances.    *)
(***************************************************************************)
EXTENDS MigrationRun

Applying == {"loop", "script", "record", "commit"}
Committing == {r \in Runners \ lost : pc[r] = "commit"}

\* A session left behind that does not wait for a lock has it, alone.
GhostInv ==
  /\ \A g \in ghosts : IF g.waits THEN g.inserted = Null ELSE holder[g.lock] = "ghost"
  /\ \A g, h \in ghosts : ~g.waits /\ ~h.waits /\ g.lock = h.lock => g = h

\* What a run counts as applied is in the registry.
ProgressInv ==
  \A r \in Runners :
    /\ pc[r] \in Applying => Entries(Plan[r], done[r]) \subseteq registry
    /\ pc[r] = "unlock" /\ outcome[r] = "success" =>
         Entries(Plan[r], Len(Plan[r])) \subseteq registry

\* A row that is inserted and not committed is of a version nobody else has.
InsertedInv ==
  /\ \A r \in Committing : ~SameVersion(Pending(r), registry)
  /\ \A g \in ghosts : g.inserted # Null => ~SameVersion(g.inserted, registry)
  /\ \A r, s \in Committing : r # s => Version[Pending(r)] # Version[Pending(s)]
  /\ \A r \in Committing : \A g \in ghosts :
       g.inserted # Null => Version[Pending(r)] # Version[g.inserted]
  /\ \A g, h \in ghosts : g.inserted # Null /\ h.inserted # Null /\ g # h =>
       Version[g.inserted] # Version[h.inserted]

IInv ==
  /\ TypeOK /\ GhostInv /\ PoolClean /\ ProgressInv /\ InsertedInv
  /\ AppliedOnce /\ SuccessMeansApplied

-------------------------------------------------------------------------------

OneLock == \A r, s \in Runners : LockID[r] = LockID[s]

\* What a session left behind may still commit is the next migration of the
\* plan it was working on.
GhostNext ==
  \A g \in ghosts : g.inserted # Null =>
    \E r \in Runners : \E n \in 1..Len(Plan[r]) :
      g.inserted = Plan[r][n] /\ registry = Entries(Plan[r], n - 1)

OneLockInv == NoInterference /\ GhostNext

-------------------------------------------------------------------------------

\* For any locks: what a session left behind may still commit is a migration of a
\* plan all of whose earlier ones are in the registry.
GhostAhead ==
  \A g \in ghosts : g.inserted # Null =>
    \E s \in Runners : \E n \in 1..Len(Plan[s]) :
      g.inserted = Plan[s][n] /\ Entries(Plan[s], n - 1) \subseteq registry

Lineage == GhostAhead /\ NewestTakesOver

-------------------------------------------------------------------------------

\* The rows of the registry as Applied returns them: each once, in the order of the
\* texts of their versions, of which the primary key allows no two alike.
ReadAs(rows, applied) ==
  /\ rows \in Seq(Migrations) /\ applied = Entries(rows, Len(rows))
  /\ \A i, j \in 1..Len(rows) : i < j => TextBefore(Version[rows[i]], Version[rows[j]])

\* reconcile as it is written, position by position; MigrationRun has Reconciled.
reconcile(plan, rows) ==
  Len(rows) <= Len(plan) /\ \A i \in 1..Len(rows) : rows[i] = plan[i]

\* Of two texts at most one is before the other.
TextsAreOrdered ==
  \A m, n \in Migrations :
    ~(TextBefore(Version[m], Version[n]) /\ TextBefore(Version[n], Version[m]))
================================================================================
