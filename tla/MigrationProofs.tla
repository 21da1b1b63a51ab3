---------------------------- MODULE MigrationProofs ----------------------------
(***************************************************************************)
(* Proofs about MigrationRun, for every set of processes, plans, lock IDs  *)
(* and faults; and what holds in addition when all processes use one lock. *)
(***************************************************************************)
EXTENDS MigrationInvariant, FiniteSetTheorems, WellFoundedInduction, TLAPS

-------------------------------------------------------------------------------
(* Plans *)

\* A plan is typed, and its entries have different versions.
LEMMA PlanFacts ==
  ASSUME NEW r \in Runners
  PROVE  /\ Len(Plan[r]) \in Nat
         /\ \A i \in 1..Len(Plan[r]) : Plan[r][i] \in Migrations
         /\ \A i, j \in 1..Len(Plan[r]) : Version[Plan[r][i]] = Version[Plan[r][j]] => i = j
<1>1. Plan[r] \in Seq(Migrations)
  BY PlanAssumption
<1>2. \A i \in 1..Len(Plan[r]) : Version[Plan[r][i]] \in Nat
  BY <1>1, VersionAssumption
<1>3. \A i, j \in 1..Len(Plan[r]) : i < j => Version[Plan[r][i]] < Version[Plan[r][j]]
  BY PlanAssumption
<1>4. \A i, j \in 1..Len(Plan[r]) : Version[Plan[r][i]] = Version[Plan[r][j]] => i = j
  BY <1>1, <1>2, <1>3
<1> QED
  BY <1>1, <1>4

\* One more entry of the plan.
LEMMA EntriesNext ==
  ASSUME NEW plan, NEW n \in Nat
  PROVE  Entries(plan, n + 1) = Entries(plan, n) \cup {plan[n + 1]}
<1>1. 1..n + 1 = (1..n) \cup {n + 1}
  OBVIOUS
<1> QED
  BY <1>1 DEF Entries

\* The registry a run has read has as many rows as the plan has entries there.
LEMMA EntriesCardinality ==
  ASSUME NEW r \in Runners, NEW n \in 0..Len(Plan[r])
  PROVE  Cardinality(Entries(Plan[r], n)) = n
<1> DEFINE f == [i \in 1..n |-> Plan[r][i]]
<1>1. n \in Nat /\ \A i \in 1..n : i \in 1..Len(Plan[r])
  BY PlanFacts
<1>2. f \in [1..n -> Entries(Plan[r], n)]
  BY DEF Entries
<1>3. \A i, j \in 1..n : f[i] = f[j] => i = j
  BY <1>1, PlanFacts
<1>4. \A m \in Entries(Plan[r], n) : \E i \in 1..n : f[i] = m
  BY DEF Entries
<1>5. f \in Bijection(1..n, Entries(Plan[r], n))
  BY <1>2, <1>3, <1>4 DEF Bijection, Injection, Surjection, IsInjective
<1> HIDE DEF f
<1> QED
  BY <1>1, <1>5, FS_CountingElements DEF ExistsBijection

\* A run that reads a reconciled registry is at its end.
LEMMA ReadFacts ==
  ASSUME NEW r \in Runners, Reconciled(Plan[r], registry)
  PROVE  /\ Cardinality(registry) \in 0..Len(Plan[r])
         /\ registry = Entries(Plan[r], Cardinality(registry))
<1>1. PICK n \in 0..Len(Plan[r]) : registry = Entries(Plan[r], n)
  BY DEF Reconciled
<1>2. Cardinality(registry) = n
  BY <1>1, EntriesCardinality
<1> QED
  BY <1>1, <1>2

\* A run that applies a migration is at one of its plan.
LEMMA PendingFacts ==
  ASSUME TypeOK, NEW r \in Runners, pc[r] \in {"script", "record", "commit"}
  PROVE  /\ done[r] \in Nat /\ done[r] + 1 \in 1..Len(Plan[r])
         /\ Pending(r) \in Migrations /\ Pending(r) # Null
<1>1. done[r] \in Nat /\ done[r] + 1 \in 1..Len(Plan[r])
  BY PlanFacts DEF TypeOK
<1> QED
  BY <1>1, PlanFacts, NullAssumption DEF Pending

-------------------------------------------------------------------------------
(* Steps *)

\* Every step but these leaves the server as it is.
LEMMA ServerSteps ==
  ASSUME [Next]_vars
  PROVE  \/ \E r \in Runners \ lost :
              Locked(r) \/ Committed(r) \/ Unlocked(r) \/ UnlockRefused(r) \/ Break(r)
         \/ \E g \in ghosts : GhostStep(g)
         \/ UNCHANGED server
BY DEF Next, Step, Disturb, Run, LockRefused, RegistryCreated, Read, WorkRefused, ApplyBegins,
       AllApplied, ScriptExecuted, StatementRefused, Recorded, CommitRefused, RolledBack,
       Notice, vars, server

\* The session of r keeps its type when it is left to itself.
LEMMA LeaveType ==
  ASSUME TypeOK, NEW r \in Runners, pc[r] # "idle", Leave(r)
  PROVE  ghosts' \subseteq GhostType /\ holder' \in [Locks -> Runners \cup {"ghost", Null}]
<1>1. Ghost(r) \in GhostType
  BY PendingFacts DEF Ghost, GhostType, Locks
<1> QED
  BY <1>1 DEF Leave, TypeOK, Locks

-------------------------------------------------------------------------------
(* Types *)

LEMMA TypeStep ==
  ASSUME TypeOK, [Next]_vars
  PROVE  TypeOK'
<1>1. ASSUME NEW r \in Runners \ lost, Run(r) PROVE TypeOK'
  BY <1>1 DEF TypeOK, Run, Goto, server, Critical, Outcomes
<1>2. ASSUME NEW r \in Runners \ lost, Locked(r) PROVE TypeOK'
  BY <1>2 DEF TypeOK, Locked, Goto, Locks, Critical
<1>3. ASSUME NEW r \in Runners \ lost, RegistryCreated(r) PROVE TypeOK'
  BY <1>3 DEF TypeOK, RegistryCreated, Goto, server, Critical
<1>4. ASSUME NEW r \in Runners \ lost, Read(r) PROVE TypeOK'
  <2>1. CASE Reconciled(Plan[r], registry)
    <3>1. Cardinality(registry) \in 0..Len(Plan[r]) /\ Len(Plan[r]) \in Nat
      BY <2>1, ReadFacts, PlanFacts
    <3>2. /\ pc' = [pc EXCEPT ![r] = "loop"]
          /\ done' = [done EXCEPT ![r] = Cardinality(registry)]
          /\ UNCHANGED <<registry, effects, holder, ghosts, outcome, result, lost, faults>>
      BY <1>4, <2>1 DEF Read, Goto, server
    <3>3. done' \in [Runners -> Nat]
      BY <3>1, <3>2 DEF TypeOK
    <3>4. pc' \in [Runners -> Critical \cup {"idle", "lock"}] /\ pc[r] # "idle"
      BY <1>4, <3>2 DEF TypeOK, Critical, Read
    <3>5. \A s \in Runners : pc'[s] = (IF s = r THEN "loop" ELSE pc[s])
                           /\ done'[s] = (IF s = r THEN Cardinality(registry) ELSE done[s])
      BY <3>2 DEF TypeOK
    <3> QED
      BY <3>1, <3>2, <3>3, <3>4, <3>5 DEF TypeOK
  <2>2. CASE ~Reconciled(Plan[r], registry)
    BY <1>4, <2>2 DEF TypeOK, Read, Unlock, Goto, server, Critical, Outcomes
  <2> QED
    BY <2>1, <2>2
<1>5. ASSUME NEW r \in Runners \ lost, ApplyBegins(r) PROVE TypeOK'
  BY <1>5 DEF TypeOK, ApplyBegins, Goto, server, Critical
<1>6. ASSUME NEW r \in Runners \ lost, ScriptExecuted(r) PROVE TypeOK'
  BY <1>6 DEF TypeOK, ScriptExecuted, Goto, server, Critical
<1>7. ASSUME NEW r \in Runners \ lost, Recorded(r) PROVE TypeOK'
  BY <1>7 DEF TypeOK, Recorded, Goto, server, Critical
<1>8. ASSUME NEW r \in Runners \ lost, Committed(r) PROVE TypeOK'
  <2>1. Pending(r) \in Migrations /\ done[r] \in Nat /\ done[r] + 1 <= Len(Plan[r])
    BY <1>8, PendingFacts, PlanFacts DEF Committed
  <2> QED
    BY <1>8, <2>1 DEF TypeOK, Committed, TakeEffect, Goto, Critical
<1>9. ASSUME NEW r \in Runners \ lost, RolledBack(r) \/ AllApplied(r) \/ CommitRefused(r)
      PROVE  TypeOK'
  <2>1. CASE RolledBack(r)
    BY <2>1 DEF TypeOK, RolledBack, Unlock, Goto, server, Critical, Outcomes
  <2>2. CASE AllApplied(r)
    BY <2>2 DEF TypeOK, AllApplied, Unlock, Goto, server, Critical, Outcomes
  <2>3. CASE CommitRefused(r)
    BY <2>3 DEF TypeOK, CommitRefused, Fault, Unlock, Goto, server, Critical, Outcomes
  <2> QED
    BY <1>9, <2>1, <2>2, <2>3
<1>10. ASSUME NEW r \in Runners \ lost, Unlocked(r) PROVE TypeOK'
  BY <1>10 DEF TypeOK, Unlocked, Return, Goto, Locks, Critical
<1>11. ASSUME NEW r \in Runners \ lost, LockRefused(r) PROVE TypeOK'
  BY <1>11 DEF TypeOK, LockRefused, Fault, Return, Goto, server, Outcomes
<1>12. ASSUME NEW r \in Runners \ lost, WorkRefused(r) PROVE TypeOK'
  BY <1>12 DEF TypeOK, WorkRefused, Fault, Unlock, Goto, server, Critical, Outcomes
<1>13. ASSUME NEW r \in Runners \ lost, StatementRefused(r) PROVE TypeOK'
  BY <1>13 DEF TypeOK, StatementRefused, Fault, Goto, server, Critical
<1>14. ASSUME NEW r \in Runners \ lost, UnlockRefused(r) PROVE TypeOK'
  <2>1. ghosts' \subseteq GhostType /\ holder' \in [Locks -> Runners \cup {"ghost", Null}]
    BY <1>14, LeaveType DEF UnlockRefused
  <2> QED
    BY <1>14, <2>1 DEF TypeOK, UnlockRefused, Fault, Return, Goto, Outcomes
<1>15. ASSUME NEW r \in Runners \ lost, Break(r) PROVE TypeOK'
  <2>1. ghosts' \subseteq GhostType /\ holder' \in [Locks -> Runners \cup {"ghost", Null}]
    BY <1>15, LeaveType DEF Break
  <2> QED
    BY <1>15, <2>1 DEF TypeOK, Break, Fault
<1>16. ASSUME NEW r \in lost, Notice(r) PROVE TypeOK'
  BY <1>16 DEF TypeOK, Notice, Return, Goto, server, Outcomes
<1>17. ASSUME NEW g \in ghosts, GhostStep(g) PROVE TypeOK'
  <2>1. g \in GhostType /\ GhostType' = GhostType
    BY DEF TypeOK, GhostType, Locks
  <2>2. CASE GhostLocks(g)
    <3>1. [g EXCEPT !.waits = FALSE] \in GhostType
      BY <2>1 DEF GhostType
    <3>2. ghosts' \subseteq GhostType
      BY <2>2, <3>1 DEF TypeOK, GhostLocks
    <3>3. holder' \in [Locks -> Runners \cup {"ghost", Null}]
      BY <2>2 DEF TypeOK, GhostLocks
    <3> QED
      BY <2>1, <2>2, <3>2, <3>3 DEF TypeOK, GhostLocks, client
  <2>3. CASE GhostCommits(g)
    <3>1. [g EXCEPT !.inserted = Null] \in GhostType /\ g.inserted \in Migrations
      BY <2>1, <2>3 DEF GhostType, GhostCommits
    <3>2. ghosts' \subseteq GhostType
      BY <2>3, <3>1 DEF TypeOK, GhostCommits
    <3>3. registry' \subseteq Migrations /\ effects' \in [Migrations -> Nat]
      BY <2>3, <3>1 DEF TypeOK, GhostCommits, TakeEffect
    <3> QED
      BY <2>1, <2>3, <3>2, <3>3 DEF TypeOK, GhostCommits, client
  <2>4. CASE GhostEnds(g)
    BY <2>1, <2>4 DEF TypeOK, GhostEnds, GhostType, client
  <2> QED
    BY <1>17, <2>2, <2>3, <2>4 DEF GhostStep
<1>18. UNCHANGED vars => TypeOK'
  BY DEF TypeOK, vars
<1> QED
  BY <1>1, <1>2, <1>3, <1>4, <1>5, <1>6, <1>7, <1>8, <1>9, <1>10, <1>11, <1>12, <1>13,
     <1>14, <1>15, <1>16, <1>17, <1>18 DEF Next, Step, Disturb

-------------------------------------------------------------------------------
(* Locks and sessions left behind *)

\* A run that has its session holds its lock, so no session left behind does.
LEMMA HolderAlone ==
  ASSUME TypeOK, GhostInv, PoolClean, NEW r \in Runners \ lost, pc[r] \in Critical
  PROVE  /\ holder[LockID[r]] = r /\ r # "ghost" /\ r # Null
         /\ \A g \in ghosts : ~g.waits => g.lock # LockID[r]
BY GhostAssumption, NullAssumption DEF GhostInv, PoolClean

LEMMA LeaveGhostInv ==
  ASSUME TypeOK, GhostInv, PoolClean, NEW r \in Runners \ lost, pc[r] # "idle", Leave(r)
  PROVE  GhostInv'
<1>1. CASE pc[r] = "lock"
  <2>1. /\ ghosts' = ghosts \cup {Ghost(r)} /\ holder' = holder
        /\ Ghost(r).waits /\ Ghost(r).inserted = Null
    BY <1>1 DEF Leave, Ghost
  <2> QED
    BY <2>1 DEF GhostInv
<1>2. CASE pc[r] # "lock"
  <2>1. pc[r] \in Critical /\ LockID[r] \in Locks
    BY <1>2 DEF TypeOK, Critical, Locks
  <2>2. /\ ghosts' = ghosts \cup {Ghost(r)}
        /\ holder' = [holder EXCEPT ![LockID[r]] = "ghost"]
        /\ Ghost(r).lock = LockID[r] /\ ~Ghost(r).waits
    BY <1>2 DEF Leave, Ghost
  <2>3. \A g \in ghosts : ~g.waits => g.lock # LockID[r] /\ holder'[g.lock] = "ghost"
    BY <2>1, <2>2, HolderAlone DEF GhostInv, TypeOK, GhostType
  <2>4. holder'[LockID[r]] = "ghost"
    BY <2>1, <2>2 DEF TypeOK
  <2> QED
    BY <2>2, <2>3, <2>4 DEF GhostInv
<1> QED
  BY <1>1, <1>2

LEMMA GhostInvStep ==
  ASSUME TypeOK, GhostInv, PoolClean, [Next]_vars
  PROVE  GhostInv'
<1>1. ASSUME NEW r \in Runners \ lost, Locked(r) PROVE GhostInv'
  <2>1. \A g \in ghosts : ~g.waits => g.lock # LockID[r]
    BY <1>1, GhostAssumption DEF Locked, GhostInv
  <2> QED
    BY <1>1, <2>1 DEF Locked, GhostInv, TypeOK, GhostType
<1>2. ASSUME NEW r \in Runners \ lost, Committed(r) PROVE GhostInv'
  BY <1>2 DEF Committed, GhostInv
<1>3. ASSUME NEW r \in Runners \ lost, Unlocked(r) PROVE GhostInv'
  <2>1. \A g \in ghosts : ~g.waits => g.lock # LockID[r]
    BY <1>3, HolderAlone DEF Unlocked, Critical
  <2> QED
    BY <1>3, <2>1 DEF Unlocked, GhostInv, TypeOK, GhostType
<1>4. ASSUME NEW r \in Runners \ lost, UnlockRefused(r) \/ Break(r) PROVE GhostInv'
  BY <1>4, LeaveGhostInv DEF UnlockRefused, Break
<1>5. ASSUME NEW g \in ghosts, GhostLocks(g) PROVE GhostInv'
  <2> DEFINE h == [g EXCEPT !.waits = FALSE]
  <2>1. g \in GhostType /\ g.lock \in Locks /\ g.inserted = Null
    BY <1>5 DEF TypeOK, GhostType, GhostLocks, GhostInv
  <2>2. h.lock = g.lock /\ ~h.waits
    BY <2>1 DEF GhostType
  <2>3. ghosts' = (ghosts \ {g}) \cup {h} /\ holder' = [holder EXCEPT ![g.lock] = "ghost"]
    BY <1>5 DEF GhostLocks
  <2>4. \A k \in ghosts : ~k.waits => k.lock # g.lock
    BY <1>5, GhostAssumption DEF GhostLocks, GhostInv
  <2>5. \A k \in ghosts : ~k.waits => holder'[k.lock] = "ghost"
    BY <2>3, <2>4 DEF GhostInv, TypeOK, GhostType
  <2>6. holder'[h.lock] = "ghost"
    BY <2>1, <2>2, <2>3 DEF TypeOK
  <2> HIDE DEF h
  <2> QED
    BY <2>2, <2>3, <2>4, <2>5, <2>6 DEF GhostInv
<1>6. ASSUME NEW g \in ghosts, GhostCommits(g) PROVE GhostInv'
  <2> DEFINE h == [g EXCEPT !.inserted = Null]
  <2>1. ~g.waits
    BY <1>6 DEF GhostCommits, GhostInv
  <2>2. h.lock = g.lock /\ ~h.waits
    BY <2>1 DEF TypeOK, GhostType
  <2>3. ghosts' = (ghosts \ {g}) \cup {h} /\ holder' = holder
    BY <1>6 DEF GhostCommits
  <2> HIDE DEF h
  <2> QED
    BY <2>1, <2>2, <2>3 DEF GhostInv
<1>7. ASSUME NEW g \in ghosts, GhostEnds(g) PROVE GhostInv'
  <2>1. CASE g.waits
    BY <1>7, <2>1 DEF GhostEnds, GhostInv
  <2>2. CASE ~g.waits
    <3>1. \A k \in ghosts' : k \in ghosts /\ (~k.waits => k.lock # g.lock)
      BY <1>7, <2>2 DEF GhostEnds, GhostInv
    <3> QED
      BY <1>7, <2>2, <3>1 DEF GhostEnds, GhostInv, TypeOK, GhostType
  <2> QED
    BY <2>1, <2>2
<1>8. UNCHANGED server => GhostInv'
  BY DEF GhostInv, server
<1> QED
  BY <1>1, <1>2, <1>3, <1>4, <1>5, <1>6, <1>7, <1>8, ServerSteps DEF GhostStep

\* Every lock that a run left behind takes is taken by nobody else.
LEMMA LeavePoolClean ==
  ASSUME TypeOK, PoolClean, NEW r \in Runners \ lost, pc[r] # "idle", Leave(r),
         r \in lost' \/ pc'[r] = "idle",
         \A s \in Runners \ {r} : pc'[s] = pc[s] /\ (s \in lost' <=> s \in lost)
  PROVE  PoolClean'
<1>1. ASSUME NEW s \in Runners \ {r}
      PROVE  holder'[LockID[s]] = s <=> holder[LockID[s]] = s
  <2>1. CASE pc[r] = "lock" \/ LockID[s] # LockID[r]
    BY <2>1 DEF Leave, TypeOK, Locks
  <2>2. CASE pc[r] # "lock" /\ LockID[s] = LockID[r]
    <3>1. holder[LockID[s]] = r
      BY <2>2 DEF PoolClean, TypeOK, Critical
    <3>2. holder'[LockID[s]] = "ghost"
      BY <2>2 DEF Leave, TypeOK, Locks
    <3> QED
      BY <3>1, <3>2, GhostAssumption
  <2> QED
    BY <2>1, <2>2
<1>2. holder'[LockID[r]] # r
  <2>1. CASE pc[r] = "lock"
    BY <2>1 DEF Leave, PoolClean, Critical
  <2>2. CASE pc[r] # "lock"
    BY <2>2, GhostAssumption DEF Leave, TypeOK, Locks
  <2> QED
    BY <2>1, <2>2
<1>3. ~(r \notin lost' /\ pc'[r] \in Critical)
  BY DEF Critical
<1> QED
  BY <1>1, <1>2, <1>3 DEF PoolClean

LEMMA PoolCleanStep ==
  ASSUME TypeOK, GhostInv, PoolClean, [Next]_vars
  PROVE  PoolClean'
<1> USE DEF Critical
<1>1. ASSUME NEW r \in Runners \ lost, Run(r) \/ LockRefused(r) PROVE PoolClean'
  BY <1>1 DEF PoolClean, Run, LockRefused, Return, Goto, server, TypeOK
<1>2. ASSUME NEW r \in Runners \ lost, Locked(r) PROVE PoolClean'
  <2>1. /\ \A s \in Runners : LockID[s] = LockID[r] => holder[LockID[s]] # s
        /\ LockID[r] \in Locks
    BY <1>2, NullAssumption DEF Locked, Locks
  <2>2. /\ holder'[LockID[r]] = r
        /\ \A s \in Runners : LockID[s] # LockID[r] => holder'[LockID[s]] = holder[LockID[s]]
    BY <1>2, <2>1 DEF Locked, TypeOK, Locks
  <2>3. /\ pc'[r] = "create" /\ lost' = lost
        /\ \A s \in Runners \ {r} : pc'[s] = pc[s]
    BY <1>2 DEF Locked, Goto, TypeOK
  <2>4. \A s \in Runners \ {r} : holder'[LockID[s]] = s <=> holder[LockID[s]] = s
    BY <2>1, <2>2
  <2> QED
    BY <2>2, <2>3, <2>4 DEF PoolClean
<1>3. ASSUME NEW r \in Runners \ lost,
             RegistryCreated(r) \/ Read(r) \/ WorkRefused(r) \/ ApplyBegins(r) \/ AllApplied(r)
      PROVE  PoolClean'
  BY <1>3 DEF PoolClean, RegistryCreated, Read, WorkRefused, ApplyBegins, AllApplied, Unlock,
       Goto, server, TypeOK
<1>4. ASSUME NEW r \in Runners \ lost,
             ScriptExecuted(r) \/ StatementRefused(r) \/ Recorded(r) \/ Committed(r)
      PROVE  PoolClean'
  BY <1>4 DEF PoolClean, ScriptExecuted, StatementRefused, Recorded, Committed, Goto, server,
       TypeOK
<1>5. ASSUME NEW r \in Runners \ lost, CommitRefused(r) \/ RolledBack(r) PROVE PoolClean'
  BY <1>5 DEF PoolClean, CommitRefused, RolledBack, Unlock, Goto, server, TypeOK
<1>6. ASSUME NEW r \in Runners \ lost, Unlocked(r) PROVE PoolClean'
  <2>1. holder[LockID[r]] = r /\ LockID[r] \in Locks
    BY <1>6 DEF Unlocked, PoolClean, Locks
  <2>2. /\ holder'[LockID[r]] = Null
        /\ \A s \in Runners : LockID[s] # LockID[r] => holder'[LockID[s]] = holder[LockID[s]]
    BY <1>6, <2>1 DEF Unlocked, TypeOK, Locks
  <2>3. /\ pc'[r] = "idle" /\ lost' = lost
        /\ \A s \in Runners \ {r} : pc'[s] = pc[s]
    BY <1>6 DEF Unlocked, Return, Goto, TypeOK
  <2>4. \A s \in Runners \ {r} : holder'[LockID[s]] = s <=> holder[LockID[s]] = s
    BY <2>1, <2>2, NullAssumption
  <2> QED
    BY <2>2, <2>3, <2>4, NullAssumption DEF PoolClean
<1>7. ASSUME NEW r \in Runners \ lost, UnlockRefused(r) PROVE PoolClean'
  BY <1>7, LeavePoolClean DEF UnlockRefused, Return, Goto, TypeOK
<1>8. ASSUME NEW r \in Runners \ lost, Break(r) PROVE PoolClean'
  BY <1>8, LeavePoolClean DEF Break
<1>9. ASSUME NEW r \in lost, Notice(r) PROVE PoolClean'
  BY <1>9 DEF PoolClean, Notice, Return, Goto, server, TypeOK
<1>10. ASSUME NEW g \in ghosts, GhostStep(g) PROVE PoolClean'
  <2>1. g.lock \in Locks /\ pc' = pc /\ lost' = lost
    BY <1>10 DEF TypeOK, GhostType, GhostStep, GhostLocks, GhostCommits, GhostEnds, client
  <2>2. holder' = holder \/ /\ holder[g.lock] \in {Null, "ghost"}
                            /\ \/ holder' = [holder EXCEPT ![g.lock] = "ghost"]
                               \/ holder' = [holder EXCEPT ![g.lock] = Null]
    BY <1>10 DEF GhostStep, GhostLocks, GhostCommits, GhostEnds, GhostInv
  <2>3. \A s \in Runners : s # Null /\ s # "ghost" /\ LockID[s] \in Locks
    BY NullAssumption, GhostAssumption DEF Locks
  <2>4. \A s \in Runners : holder'[LockID[s]] = s <=> holder[LockID[s]] = s
    BY <2>1, <2>2, <2>3 DEF TypeOK
  <2> QED
    BY <2>1, <2>4 DEF PoolClean
<1>11. UNCHANGED vars => PoolClean'
  BY DEF PoolClean, vars
<1> QED
  BY <1>1, <1>2, <1>3, <1>4, <1>5, <1>6, <1>7, <1>8, <1>9, <1>10, <1>11
     DEF Next, Step, Disturb

-------------------------------------------------------------------------------
(* What runs know of the registry *)

\* The registry only grows.
LEMMA RegistryGrows ==
  ASSUME [Next]_vars
  PROVE  registry \subseteq registry'
BY ServerSteps DEF Locked, Committed, Unlocked, UnlockRefused, Break, GhostStep, GhostLocks,
   GhostCommits, GhostEnds, TakeEffect, server

LEMMA ProgressStep ==
  ASSUME TypeOK, ProgressInv, [Next]_vars
  PROVE  ProgressInv'
<1>1. registry \subseteq registry'
  BY RegistryGrows
<1>2. ASSUME NEW s \in Runners, pc'[s] = pc[s], done'[s] = done[s], outcome'[s] = outcome[s]
      PROVE  /\ pc'[s] \in Applying => Entries(Plan[s], done'[s]) \subseteq registry'
             /\ pc'[s] = "unlock" /\ outcome'[s] = "success" =>
                  Entries(Plan[s], Len(Plan[s])) \subseteq registry'
  BY <1>1, <1>2 DEF ProgressInv
<1>3. ASSUME NEW r \in Runners, \A s \in Runners \ {r} :
                pc'[s] = pc[s] /\ done'[s] = done[s] /\ outcome'[s] = outcome[s],
             pc'[r] \in Applying => Entries(Plan[r], done'[r]) \subseteq registry',
             pc'[r] = "unlock" /\ outcome'[r] = "success" =>
               Entries(Plan[r], Len(Plan[r])) \subseteq registry'
      PROVE  ProgressInv'
  <2>1. ASSUME NEW s \in Runners \ {r}
        PROVE  /\ pc'[s] \in Applying => Entries(Plan[s], done'[s]) \subseteq registry'
               /\ pc'[s] = "unlock" /\ outcome'[s] = "success" =>
                    Entries(Plan[s], Len(Plan[s])) \subseteq registry'
    BY <1>2, <1>3
  <2> QED
    BY <1>3, <2>1 DEF ProgressInv
<1>4. ASSUME NEW r \in Runners \ lost,
             Run(r) \/ Locked(r) \/ RegistryCreated(r) \/ Unlocked(r) \/ LockRefused(r)
      PROVE  ProgressInv'
  BY <1>3, <1>4 DEF TypeOK, Run, Locked, RegistryCreated, Unlocked, LockRefused, Return, Goto,
       Applying
<1>5. ASSUME NEW r \in Runners \ lost, Read(r) PROVE ProgressInv'
  <2>1. CASE Reconciled(Plan[r], registry)
    BY <1>1, <1>3, <1>5, <2>1, ReadFacts DEF TypeOK, Read, Goto, Applying
  <2>2. CASE ~Reconciled(Plan[r], registry)
    BY <1>3, <1>5, <2>2 DEF TypeOK, Read, Unlock, Goto, Applying
  <2> QED
    BY <2>1, <2>2
<1>6. ASSUME NEW r \in Runners \ lost, ApplyBegins(r) \/ ScriptExecuted(r) \/ Recorded(r)
      PROVE  ProgressInv'
  <2>1. pc[r] \in Applying /\ done' = done /\ outcome' = outcome /\ pc'[r] # "unlock"
    BY <1>6 DEF ApplyBegins, ScriptExecuted, Recorded, Goto, Applying, TypeOK
  <2>2. \A s \in Runners \ {r} : pc'[s] = pc[s]
    BY <1>6 DEF ApplyBegins, ScriptExecuted, Recorded, Goto, TypeOK
  <2> QED
    BY <1>1, <1>3, <2>1, <2>2 DEF ProgressInv
<1>7. ASSUME NEW r \in Runners \ lost, Committed(r) PROVE ProgressInv'
  <2>1. /\ registry' = registry \cup {Pending(r)} /\ done' = [done EXCEPT ![r] = @ + 1]
        /\ outcome' = outcome /\ pc' = [pc EXCEPT ![r] = "loop"] /\ pc[r] = "commit"
    BY <1>7 DEF Committed, TakeEffect, Goto
  <2>2. done[r] \in Nat /\ Entries(Plan[r], done[r]) \subseteq registry
    BY <2>1 DEF TypeOK, ProgressInv, Applying
  <2>3. Entries(Plan[r], done[r] + 1) \subseteq registry'
    BY <2>1, <2>2, EntriesNext DEF Pending
  <2> QED
    BY <1>3, <2>1, <2>3 DEF TypeOK
<1>8. ASSUME NEW r \in Runners \ lost, AllApplied(r) PROVE ProgressInv'
  <2>1. /\ Entries(Plan[r], Len(Plan[r])) \subseteq registry'
        /\ pc'[r] = "unlock"
    BY <1>1, <1>8 DEF AllApplied, Unlock, Goto, ProgressInv, Applying, TypeOK
  <2> QED
    BY <1>3, <1>8, <2>1 DEF AllApplied, Unlock, Goto, Applying, TypeOK
<1>9. ASSUME NEW r \in Runners \ lost,
             WorkRefused(r) \/ StatementRefused(r) \/ CommitRefused(r) \/ RolledBack(r)
      PROVE  ProgressInv'
  BY <1>3, <1>9 DEF WorkRefused, StatementRefused, CommitRefused, RolledBack, Unlock, Goto,
       Applying, TypeOK
<1>10. ASSUME NEW r \in Runners, UnlockRefused(r) \/ Notice(r) PROVE ProgressInv'
  BY <1>3, <1>10 DEF UnlockRefused, Notice, Return, Goto, Applying, TypeOK
<1>11. (\E r \in Runners : Break(r)) \/ (\E g \in ghosts : GhostStep(g)) \/ UNCHANGED vars
         => ProgressInv'
  <2> SUFFICES ASSUME pc' = pc /\ done' = done /\ outcome' = outcome PROVE ProgressInv'
    BY DEF Break, GhostStep, GhostLocks, GhostCommits, GhostEnds, client, vars
  <2> QED
    BY <1>2 DEF ProgressInv
<1> QED
  BY <1>4, <1>5, <1>6, <1>7, <1>8, <1>9, <1>10, <1>11 DEF Next, Step, Disturb, TypeOK

\* A run that returns success has seen the end of its plan.
LEMMA SuccessStep ==
  ASSUME TypeOK, ProgressInv, SuccessMeansApplied, [Next]_vars
  PROVE  SuccessMeansApplied'
<1>1. registry \subseteq registry'
  BY RegistryGrows
<1>2. ASSUME NEW r \in Runners \ lost, Unlocked(r) PROVE SuccessMeansApplied'
  BY <1>1, <1>2 DEF Unlocked, Return, Goto, ProgressInv, SuccessMeansApplied, TypeOK
<1>3. ASSUME NEW r \in Runners, Run(r) \/ LockRefused(r) \/ UnlockRefused(r) \/ Notice(r)
      PROVE  SuccessMeansApplied'
  BY <1>1, <1>3 DEF Run, LockRefused, UnlockRefused, Notice, Return, Goto,
       SuccessMeansApplied, TypeOK
<1>4. CASE result' = result
  BY <1>1, <1>4 DEF SuccessMeansApplied
<1>5. \/ \E r \in Runners \ lost :
           Unlocked(r) \/ Run(r) \/ LockRefused(r) \/ UnlockRefused(r)
      \/ \E r \in lost : Notice(r)
      \/ result' = result
  BY DEF Next, Step, Disturb, Locked, RegistryCreated, Read, WorkRefused, ApplyBegins,
       AllApplied, ScriptExecuted, StatementRefused, Recorded, Committed, CommitRefused,
       RolledBack, Break, GhostStep, GhostLocks, GhostCommits, GhostEnds, client, vars
<1> QED
  BY <1>2, <1>3, <1>4, <1>5 DEF TypeOK

-------------------------------------------------------------------------------
(* Rows that are inserted and not committed *)

\* Nothing is inserted, nothing committed: the rows stay apart.
LEMMA InsertedKept ==
  ASSUME InsertedInv, registry' = registry, Committing' \subseteq Committing,
         \A r \in Committing' : Pending(r)' = Pending(r),
         \A g \in ghosts' : g.inserted # Null => g \in ghosts
  PROVE  InsertedInv'
BY DEF InsertedInv, SameVersion

LEMMA RecordedStep ==
  ASSUME TypeOK, InsertedInv, NEW r \in Runners \ lost, Recorded(r)
  PROVE  InsertedInv'
<1>1. /\ registry' = registry /\ ghosts' = ghosts /\ done' = done /\ lost' = lost
      /\ ~SameVersion(Pending(r), Uncommitted)
      /\ pc' = [pc EXCEPT ![r] = IF SameVersion(Pending(r), registry) THEN "rollback" ELSE "commit"]
  BY DEF Recorded, Goto, server
<1>2. \A s \in Runners : Pending(s)' = Pending(s)
  BY <1>1 DEF Pending
<1>3. CASE SameVersion(Pending(r), registry)
  <2>1. Committing' \subseteq Committing
    BY <1>1, <1>3 DEF Committing, TypeOK
  <2> QED
    BY <1>1, <1>2, <2>1, InsertedKept DEF Committing
<1>4. CASE ~SameVersion(Pending(r), registry)
  <2>1. Committing' \subseteq Committing \cup {r}
    BY <1>1, <1>4 DEF Committing, TypeOK
  <2>2. \A s \in Committing : Version[Pending(s)] # Version[Pending(r)]
    BY <1>1 DEF SameVersion, Uncommitted, Committing
  <2>3. \A g \in ghosts : g.inserted # Null => Version[g.inserted] # Version[Pending(r)]
    BY <1>1 DEF SameVersion, Uncommitted
  <2>4. \A s \in Committing' : s \in Runners /\ Pending(s)' = Pending(s)
    BY <1>2 DEF Committing
  <2> QED
    BY <1>1, <1>4, <2>1, <2>2, <2>3, <2>4 DEF InsertedInv, SameVersion
<1> QED
  BY <1>3, <1>4

LEMMA CommittedStep ==
  ASSUME TypeOK, InsertedInv, NEW r \in Runners \ lost, Committed(r)
  PROVE  InsertedInv'
<1>1. /\ registry' = registry \cup {Pending(r)} /\ ghosts' = ghosts /\ lost' = lost
      /\ done' = [done EXCEPT ![r] = @ + 1] /\ pc' = [pc EXCEPT ![r] = "loop"]
      /\ r \in Committing
  BY DEF Committed, TakeEffect, Goto, Committing
<1>2. Committing' \subseteq Committing \ {r}
  BY <1>1 DEF Committing, TypeOK
<1>3. \A s \in Committing' : Pending(s)' = Pending(s)
  BY <1>1, <1>2 DEF Committing, Pending, TypeOK
<1> QED
  BY <1>1, <1>2, <1>3 DEF InsertedInv, SameVersion

LEMMA LeaveStep ==
  ASSUME TypeOK, InsertedInv, NEW r \in Runners \ lost, UnlockRefused(r) \/ Break(r)
  PROVE  InsertedInv'
<1>1. /\ registry' = registry /\ done' = done /\ ghosts' = ghosts \cup {Ghost(r)}
      /\ Committing' \subseteq Committing \ {r}
  BY DEF UnlockRefused, Break, Leave, Return, Goto, Committing, TypeOK
<1>2. \A s \in Committing' : Pending(s)' = Pending(s)
  BY <1>1 DEF Pending
<1>3. CASE pc[r] = "commit"
  <2>1. Ghost(r).inserted = Pending(r) /\ r \in Committing
    BY <1>3 DEF Ghost, Committing
  <2> QED
    BY <1>1, <1>2, <2>1 DEF InsertedInv, SameVersion
<1>4. CASE pc[r] # "commit"
  <2>1. Ghost(r).inserted = Null
    BY <1>4 DEF Ghost
  <2> QED
    BY <1>1, <1>2, <2>1, InsertedKept
<1> QED
  BY <1>3, <1>4

LEMMA GhostCommitsStep ==
  ASSUME TypeOK, InsertedInv, NEW g \in ghosts, GhostCommits(g)
  PROVE  InsertedInv'
<1> DEFINE h == [g EXCEPT !.inserted = Null]
<1>1. /\ registry' = registry \cup {g.inserted} /\ g.inserted # Null
      /\ ghosts' = (ghosts \ {g}) \cup {h}
      /\ pc' = pc /\ lost' = lost /\ done' = done
  BY DEF GhostCommits, TakeEffect, client
<1>2. h.inserted = Null
  BY DEF TypeOK, GhostType
<1>3. Committing' = Committing /\ \A s \in Committing : Pending(s)' = Pending(s)
  BY <1>1 DEF Committing, Pending
<1> HIDE DEF h
<1> QED
  BY <1>1, <1>2, <1>3 DEF InsertedInv, SameVersion

LEMMA InsertedStep ==
  ASSUME TypeOK, InsertedInv, GhostInv, [Next]_vars
  PROVE  InsertedInv'
<1>1. ASSUME NEW r \in Runners \ lost,
             Recorded(r) \/ Committed(r) \/ UnlockRefused(r) \/ Break(r)
      PROVE  InsertedInv'
  BY <1>1, RecordedStep, CommittedStep, LeaveStep
<1>2. ASSUME NEW r \in Runners,
             \/ Run(r) \/ Locked(r) \/ RegistryCreated(r) \/ ApplyBegins(r) \/ ScriptExecuted(r)
             \/ StatementRefused(r)
      PROVE  InsertedInv'
  <2>1. registry' = registry /\ ghosts' = ghosts /\ done' = done /\ Committing' \subseteq Committing
    BY <1>2 DEF Run, Locked, RegistryCreated, ApplyBegins, ScriptExecuted, StatementRefused,
         Goto, server, Committing, TypeOK
  <2> QED
    BY <2>1, InsertedKept DEF Pending
<1>3. ASSUME NEW r \in Runners,
             \/ RolledBack(r) \/ AllApplied(r) \/ Unlocked(r) \/ LockRefused(r)
             \/ WorkRefused(r) \/ CommitRefused(r)
      PROVE  InsertedInv'
  <2>1. registry' = registry /\ ghosts' = ghosts /\ done' = done /\ Committing' \subseteq Committing
    BY <1>3 DEF RolledBack, AllApplied, Unlocked, LockRefused, WorkRefused, CommitRefused,
         Unlock, Return, Goto, server, Committing, TypeOK
  <2> QED
    BY <2>1, InsertedKept DEF Pending
<1>4. ASSUME NEW r \in Runners, Read(r) \/ Notice(r) PROVE InsertedInv'
  <2>1. /\ registry' = registry /\ ghosts' = ghosts /\ pc'[r] # "commit"
        /\ \A s \in Runners \ {r} : pc'[s] = pc[s] /\ done'[s] = done[s] /\ (s \in lost' <=> s \in lost)
    BY <1>4 DEF Read, Notice, Unlock, Return, Goto, server, TypeOK
  <2>2. Committing' \subseteq Committing /\ r \notin Committing'
    BY <2>1 DEF Committing
  <2>3. \A s \in Committing' : Pending(s)' = Pending(s)
    BY <2>1, <2>2 DEF Committing, Pending
  <2> QED
    BY <2>1, <2>2, <2>3, InsertedKept
<1>5. ASSUME NEW g \in ghosts, GhostCommits(g) PROVE InsertedInv'
  BY <1>5, GhostCommitsStep
<1>6. ASSUME NEW g \in ghosts, GhostLocks(g) PROVE InsertedInv'
  <2>1. [g EXCEPT !.waits = FALSE].inserted = Null
    BY <1>6 DEF GhostLocks, GhostInv, TypeOK, GhostType
  <2>2. Committing' = Committing /\ registry' = registry /\ done' = done
    BY <1>6 DEF GhostLocks, client, Committing
  <2> QED
    BY <1>6, <2>1, <2>2, InsertedKept DEF GhostLocks, Pending
<1>7. (\E g \in ghosts : GhostEnds(g)) \/ UNCHANGED vars => InsertedInv'
  BY InsertedKept DEF GhostEnds, client, vars, Committing, Pending
<1> QED
  BY <1>1, <1>2, <1>3, <1>4, <1>5, <1>6, <1>7 DEF Next, Step, Disturb, GhostStep, TypeOK

-------------------------------------------------------------------------------
(* Invariance, for any lock IDs *)

\* A migration takes effect when its row enters the registry.
LEMMA AppliedOnceStep ==
  ASSUME TypeOK, InsertedInv, AppliedOnce, [Next]_vars
  PROVE  AppliedOnce'
<1>1. ASSUME NEW m \in Migrations, ~SameVersion(m, registry), TakeEffect(m)
      PROVE  AppliedOnce'
  <2>1. m \notin registry
    BY <1>1 DEF SameVersion
  <2> QED
    BY <1>1, <2>1 DEF AppliedOnce, TakeEffect, TypeOK
<1>2. ASSUME NEW r \in Runners \ lost, Committed(r) PROVE AppliedOnce'
  BY <1>1, <1>2, PendingFacts DEF Committed, InsertedInv, Committing
<1>3. ASSUME NEW g \in ghosts, GhostCommits(g) PROVE AppliedOnce'
  BY <1>1, <1>3 DEF GhostCommits, InsertedInv, TypeOK, GhostType
<1>4. CASE registry' = registry /\ effects' = effects
  BY <1>4 DEF AppliedOnce
<1> QED
  BY <1>2, <1>3, <1>4, ServerSteps DEF Locked, Unlocked, UnlockRefused, Break, GhostStep,
     GhostLocks, GhostEnds, server

LEMMA InitInv == Init => IInv
<1> SUFFICES ASSUME Init PROVE IInv
  OBVIOUS
<1> USE DEF Init
<1>1. TypeOK
  BY DEF TypeOK, Critical, Outcomes
<1>2. GhostInv /\ AppliedOnce /\ SuccessMeansApplied
  BY DEF GhostInv, AppliedOnce, SuccessMeansApplied
<1>3. PoolClean
  BY NullAssumption DEF PoolClean, Critical, Locks
<1>4. ProgressInv /\ InsertedInv
  BY DEF ProgressInv, Applying, InsertedInv, Committing
<1> QED
  BY <1>1, <1>2, <1>3, <1>4 DEF IInv

\* IInv holds always: of locks, sessions left behind and what they inserted, of
\* what runs know of the registry, and of what was applied.
THEOREM Invariance == Spec => []IInv
<1>1. IInv /\ [Next]_vars => IInv'
  BY TypeStep, GhostInvStep, PoolCleanStep, ProgressStep, InsertedStep, AppliedOnceStep,
     SuccessStep DEF IInv
<1> QED
  BY <1>1, InitInv, PTL DEF Spec

\* Every variable stays within its type (the registry, the locks, the sessions
\* and the position of every run).
THEOREM TypeCorrect == Spec => []TypeOK
<1>1. IInv => TypeOK
  BY DEF IInv
<1> QED
  BY <1>1, Invariance, PTL

\* Each migration the registry names is applied once and no other, whatever
\* locks the processes use (one transaction per migration, the primary key).
THEOREM AppliedOnceAlways == Spec => []AppliedOnce
<1>1. IInv => AppliedOnce
  BY DEF IInv
<1> QED
  BY <1>1, Invariance, PTL

\* A run that returned success has all of its plan in the registry for good,
\* whatever locks the processes use.
THEOREM SuccessIsTrue == Spec => []SuccessMeansApplied
<1>1. IInv => SuccessMeansApplied
  BY DEF IInv
<1> QED
  BY <1>1, Invariance, PTL

\* A connection that goes back to the pool never holds the lock (releaseLock
\* closes the one it could not unlock).
THEOREM PoolCleanAlways == Spec => []PoolClean
<1>1. IInv => PoolClean
  BY DEF IInv
<1> QED
  BY <1>1, Invariance, PTL

-------------------------------------------------------------------------------
(* One lock for all *)

\* Whoever holds the lock is alone: no other run, and no session left behind
\* with a transaction of its own.
LEMMA Excluded ==
  ASSUME OneLock, IInv, NEW r \in Runners \ lost, pc[r] \in Critical
  PROVE  /\ \A s \in Runners \ lost : pc[s] \in Critical => s = r
         /\ \A g \in ghosts : g.inserted = Null
<1>1. holder[LockID[r]] = r /\ \A g \in ghosts : ~g.waits => g.lock # LockID[r]
  BY HolderAlone DEF IInv
<1>2. ASSUME NEW s \in Runners \ lost, pc[s] \in Critical PROVE s = r
  BY <1>1, <1>2 DEF OneLock, IInv, PoolClean
<1>3. ASSUME NEW g \in ghosts PROVE g.inserted = Null
  <2>1. g.lock = LockID[r]
    BY DEF OneLock, IInv, TypeOK, GhostType, Locks
  <2> QED
    BY <1>1, <2>1 DEF IInv, GhostInv
<1> QED
  BY <1>2, <1>3

\* While a session left behind can commit, no run is at work.
LEMMA GhostAlone ==
  ASSUME OneLock, IInv, NEW g \in ghosts, g.inserted # Null
  PROVE  /\ \A s \in Runners \ lost : pc[s] \notin Critical
         /\ \A k \in ghosts : k.inserted # Null => k = g
<1>1. \A s \in Runners \ lost : pc[s] \notin Critical
  BY Excluded
<1>2. ASSUME NEW k \in ghosts, k.inserted # Null PROVE ~k.waits /\ k.lock = g.lock
  <2>1. k.lock \in Locks /\ g.lock \in Locks /\ k.waits \in BOOLEAN
    BY DEF IInv, TypeOK, GhostType
  <2>2. k.lock = g.lock
    BY <2>1 DEF OneLock, Locks
  <2>3. ~k.waits
    BY <1>2, <2>1 DEF IInv, GhostInv
  <2> QED
    BY <2>2, <2>3
<1> QED
  BY <1>1, <1>2 DEF IInv, GhostInv

LEMMA NoInterferenceStep ==
  ASSUME OneLock, IInv, NoInterference, [Next]_vars
  PROVE  NoInterference'
<1> USE DEF Critical
<1>1. ASSUME registry' = registry, NEW r \in Runners,
             pc'[r] \in Applying => r \notin lost /\ registry = Entries(Plan[r], done'[r]),
             \A s \in Runners \ {r} : pc'[s] = pc[s] /\ done'[s] = done[s] /\ (s \in lost' <=> s \in lost)
      PROVE  NoInterference'
  BY <1>1 DEF NoInterference, Applying
<1>2. ASSUME NEW r \in Runners \ lost, Read(r) PROVE NoInterference'
  <2>1. registry' = registry /\ lost' = lost
    BY <1>2 DEF Read, server
  <2>2. CASE Reconciled(Plan[r], registry)
    <3>1. done' = [done EXCEPT ![r] = Cardinality(registry)] /\ pc' = [pc EXCEPT ![r] = "loop"]
      BY <1>2, <2>2 DEF Read, Goto
    <3>2. registry = Entries(Plan[r], done'[r])
      BY <2>2, <3>1, ReadFacts DEF IInv, TypeOK
    <3> QED
      BY <1>1, <2>1, <3>1, <3>2 DEF IInv, TypeOK
  <2>3. CASE ~Reconciled(Plan[r], registry)
    BY <1>1, <1>2, <2>1, <2>3 DEF Read, Unlock, Goto, IInv, TypeOK, Applying
  <2> QED
    BY <2>2, <2>3
<1>3. ASSUME NEW r \in Runners \ lost, Committed(r) PROVE NoInterference'
  <2>1. /\ registry' = registry \cup {Pending(r)} /\ done' = [done EXCEPT ![r] = @ + 1]
        /\ pc' = [pc EXCEPT ![r] = "loop"] /\ pc[r] = "commit" /\ lost' = lost
    BY <1>3 DEF Committed, TakeEffect, Goto
  <2>2. \A s \in Runners \ lost : pc[s] \in Critical => s = r
    BY <2>1, Excluded
  <2>3. registry = Entries(Plan[r], done[r]) /\ done[r] \in Nat
    BY <2>1 DEF NoInterference, IInv, TypeOK
  <2>4. registry' = Entries(Plan[r], done[r] + 1)
    BY <2>1, <2>3, EntriesNext DEF Pending
  <2> QED
    BY <2>1, <2>2, <2>4 DEF NoInterference, IInv, TypeOK
<1>4. ASSUME NEW g \in ghosts, GhostCommits(g) PROVE NoInterference'
  <2>1. pc' = pc /\ lost' = lost /\ g.inserted # Null
    BY <1>4 DEF GhostCommits, client
  <2> QED
    BY <2>1, GhostAlone DEF NoInterference
<1>5. ASSUME NEW r \in Runners \ lost,
             \/ Run(r) \/ Locked(r) \/ RegistryCreated(r) \/ Unlocked(r) \/ LockRefused(r)
             \/ UnlockRefused(r)
      PROVE  NoInterference'
  BY <1>1, <1>5 DEF Run, Locked, RegistryCreated, Unlocked, LockRefused, UnlockRefused, Return,
       Goto, server, IInv, TypeOK, Applying
<1>6. ASSUME NEW r \in Runners \ lost, ApplyBegins(r) \/ ScriptExecuted(r) \/ Recorded(r)
      PROVE  NoInterference'
  <2>1. /\ pc[r] \in Applying /\ registry' = registry /\ done' = done /\ lost' = lost
        /\ \A s \in Runners \ {r} : pc'[s] = pc[s]
    BY <1>6 DEF ApplyBegins, ScriptExecuted, Recorded, Goto, server, Applying, IInv, TypeOK
  <2> QED
    BY <1>1, <2>1 DEF NoInterference, Applying
<1>7. ASSUME NEW r \in Runners \ lost,
             \/ WorkRefused(r) \/ StatementRefused(r) \/ CommitRefused(r) \/ RolledBack(r)
             \/ AllApplied(r)
      PROVE  NoInterference'
  BY <1>1, <1>7 DEF WorkRefused, StatementRefused, CommitRefused, RolledBack, AllApplied,
       Unlock, Goto, server, IInv, TypeOK, Applying
<1>8. ASSUME NEW r \in Runners \ lost, Break(r) PROVE NoInterference'
  BY <1>8 DEF Break, NoInterference
<1>9. ASSUME NEW r \in lost, Notice(r) PROVE NoInterference'
  BY <1>1, <1>9 DEF Notice, Return, Goto, server, IInv, TypeOK, Applying
<1>10. (\E g \in ghosts : GhostLocks(g) \/ GhostEnds(g)) \/ UNCHANGED vars => NoInterference'
  BY DEF GhostLocks, GhostEnds, client, vars, NoInterference
<1> QED
  BY <1>2, <1>3, <1>4, <1>5, <1>6, <1>7, <1>8, <1>9, <1>10 DEF Next, Step, Disturb, GhostStep

LEMMA GhostNextStep ==
  ASSUME OneLock, IInv, NoInterference, GhostNext, [Next]_vars
  PROVE  GhostNext'
<1>1. ASSUME NEW r \in Runners \ lost, UnlockRefused(r) \/ Break(r) PROVE GhostNext'
  <2>1. registry' = registry /\ ghosts' = ghosts \cup {Ghost(r)}
    BY <1>1 DEF UnlockRefused, Break, Leave
  <2>2. CASE pc[r] = "commit"
    <3>1. Ghost(r).inserted = Plan[r][done[r] + 1]
      BY <2>2 DEF Ghost, Pending
    <3>2. done[r] \in Nat /\ done[r] + 1 \in 1..Len(Plan[r])
      BY <2>2, PendingFacts DEF IInv
    <3>3. registry = Entries(Plan[r], (done[r] + 1) - 1)
      BY <2>2, <3>2 DEF NoInterference
    <3> QED
      BY <2>1, <3>1, <3>2, <3>3 DEF GhostNext
  <2>3. CASE pc[r] # "commit"
    <3>1. Ghost(r).inserted = Null
      BY <2>3 DEF Ghost
    <3> QED
      BY <2>1, <3>1 DEF GhostNext
  <2> QED
    BY <2>2, <2>3
<1>2. ASSUME NEW r \in Runners \ lost, Committed(r) PROVE GhostNext'
  <2>1. \A g \in ghosts : g.inserted = Null
    BY <1>2, Excluded DEF Committed, Critical
  <2> QED
    BY <1>2, <2>1 DEF Committed, GhostNext
<1>3. ASSUME NEW g \in ghosts, GhostCommits(g) PROVE GhostNext'
  <2> DEFINE h == [g EXCEPT !.inserted = Null]
  <2>1. h.inserted = Null
    BY DEF IInv, TypeOK, GhostType
  <2>2. ghosts' = (ghosts \ {g}) \cup {h}
    BY <1>3 DEF GhostCommits
  <2>3. \A k \in ghosts : k.inserted # Null => k = g
    BY <1>3, GhostAlone DEF GhostCommits
  <2> HIDE DEF h
  <2> QED
    BY <2>1, <2>2, <2>3 DEF GhostNext
<1>4. ASSUME NEW g \in ghosts, GhostLocks(g) PROVE GhostNext'
  <2>1. [g EXCEPT !.waits = FALSE].inserted = Null
    BY <1>4 DEF GhostLocks, IInv, GhostInv, TypeOK, GhostType
  <2> QED
    BY <1>4, <2>1 DEF GhostLocks, GhostNext
<1>5. CASE ghosts' \subseteq ghosts /\ registry' = registry
  BY <1>5 DEF GhostNext
<1> QED
  BY <1>1, <1>2, <1>3, <1>4, <1>5, ServerSteps DEF Locked, Unlocked, GhostStep, GhostEnds, server

\* With one lock, nobody changes the registry under a run that applies its plan, and
\* what a session left behind may still commit is the next migration of its plan.
LEMMA OneLockInvariance ==
  ASSUME OneLock
  PROVE  Spec => []OneLockInv
<1>1. Init => OneLockInv
  BY DEF Init, OneLockInv, NoInterference, GhostNext
<1>2. IInv /\ OneLockInv /\ [Next]_vars => OneLockInv'
  BY NoInterferenceStep, GhostNextStep DEF OneLockInv
<1> QED
  BY <1>1, <1>2, Invariance, PTL DEF Spec

\* With one lock, a run that applies its plan finds the registry as it believes it
\* to be, though sessions of broken runs may still commit (the session lock is
\* kept by the session that runs the transactions).
THEOREM RunsExclude ==
  ASSUME OneLock
  PROVE  Spec => []NoInterference
<1>1. OneLockInv => NoInterference
  BY DEF OneLockInv
<1> QED
  BY <1>1, OneLockInvariance, PTL

-------------------------------------------------------------------------------
(* MigrationRun implements MigrationPromise *)

\* A commit, in a run or in a session left behind, applies the next migration of
\* a deployed plan.
LEMMA CommitKeepsPromise ==
  ASSUME NEW r \in Runners, NEW n \in 1..Len(Plan[r]), registry = Entries(Plan[r], n - 1),
         ~SameVersion(Plan[r][n], registry), TakeEffect(Plan[r][n])
  PROVE  Promise!Next
<1>1. Plan[r][n] \notin registry
  BY DEF SameVersion
<1>2. Promise!Migrate(Plan[r], n)
  BY <1>1 DEF Promise!Migrate, Promise!Entries, Entries, TakeEffect
<1> QED
  BY <1>2 DEF Promise!Next

LEMMA NextKeepsPromise ==
  ASSUME IInv, OneLockInv, [Next]_vars
  PROVE  [Promise!Next]_<<registry, effects>>
<1>1. ASSUME NEW r \in Runners \ lost, Committed(r) PROVE Promise!Next
  <2>1. done[r] \in Nat /\ done[r] + 1 \in 1..Len(Plan[r])
    BY <1>1, PendingFacts DEF Committed, IInv
  <2>2. registry = Entries(Plan[r], (done[r] + 1) - 1)
    BY <1>1, <2>1 DEF OneLockInv, NoInterference, Committed
  <2>3. ~SameVersion(Pending(r), registry) /\ TakeEffect(Pending(r))
    BY <1>1 DEF Committed, IInv, InsertedInv, Committing
  <2> QED
    BY <2>1, <2>2, <2>3, CommitKeepsPromise DEF Pending
<1>2. ASSUME NEW g \in ghosts, GhostCommits(g) PROVE Promise!Next
  <2>1. g.inserted # Null /\ TakeEffect(g.inserted) /\ ~SameVersion(g.inserted, registry)
    BY <1>2 DEF GhostCommits, IInv, InsertedInv
  <2>2. PICK r \in Runners : \E n \in 1..Len(Plan[r]) :
          g.inserted = Plan[r][n] /\ registry = Entries(Plan[r], n - 1)
    BY <2>1 DEF OneLockInv, GhostNext
  <2>3. PICK n \in 1..Len(Plan[r]) :
          g.inserted = Plan[r][n] /\ registry = Entries(Plan[r], n - 1)
    BY <2>2
  <2> QED
    BY <2>1, <2>3, CommitKeepsPromise
<1>3. CASE registry' = registry /\ effects' = effects
  BY <1>3
<1> QED
  BY <1>1, <1>2, <1>3, ServerSteps DEF Locked, Unlocked, UnlockRefused, Break, GhostStep,
     GhostLocks, GhostEnds, server

\* With one lock the schema behaves like MigrationPromise: the registry is the
\* beginning of a deployed plan, and grows by the next migration of one.
THEOREM Implementation ==
  ASSUME OneLock
  PROVE  Spec => KeepsPromise
<1>1. Init => Promise!Init
  BY DEF Init, Promise!Init
<1>2. IInv /\ OneLockInv /\ [Next]_vars => [Promise!Next]_<<registry, effects>>
  BY NextKeepsPromise
<1> QED
  BY <1>1, <1>2, Invariance, OneLockInvariance, PTL DEF Spec, KeepsPromise, Promise!Spec

-------------------------------------------------------------------------------
(* Releases that extend one another, under any locks *)

\* A migration that is not in the registry, of a plan all of whose earlier ones are,
\* is the next of the newest plan.
LEMMA NextOfNewest ==
  ASSUME NEW r \in Runners, Newest(r), NEW k \in 0..Len(Plan[r]),
         registry = Entries(Plan[r], k),
         NEW s \in Runners, NEW n \in 1..Len(Plan[s]),
         Entries(Plan[s], n - 1) \subseteq registry, Plan[s][n] \notin registry
  PROVE  /\ n = k + 1 /\ n \in 1..Len(Plan[r]) /\ Plan[r][n] = Plan[s][n]
         /\ registry = Entries(Plan[s], n - 1)
<1>1. /\ Len(Plan[r]) \in Nat /\ Len(Plan[s]) \in Nat /\ n \in Nat /\ k \in Nat
      /\ \A i, j \in 1..Len(Plan[r]) : Plan[r][i] = Plan[r][j] => i = j
  BY PlanFacts
<1>2. /\ Len(Plan[s]) <= Len(Plan[r])
      /\ \A i \in 1..Len(Plan[s]) : Plan[s][i] = Plan[r][i]
  BY DEF Newest, IsBeginning
<1>3. /\ n \in 1..Len(Plan[r])
      /\ \A i \in 1..n : i \in 1..Len(Plan[s]) /\ Plan[s][i] = Plan[r][i]
  BY <1>1, <1>2
<1>4. ~(n <= k)
  BY <1>1, <1>3 DEF Entries
<1>5. ~(k + 1 < n)
  <2> SUFFICES ASSUME k + 1 < n PROVE FALSE
    OBVIOUS
  <2>1. k + 1 \in 1..(n - 1) /\ k + 1 \in 1..n /\ k + 1 \in 1..Len(Plan[r])
    BY <1>1, <1>3
  <2>2. Plan[s][k + 1] \in Entries(Plan[r], k)
    BY <2>1 DEF Entries
  <2>3. PICK i \in 1..k : Plan[r][i] = Plan[r][k + 1]
    BY <1>3, <2>1, <2>2 DEF Entries
  <2> QED
    BY <1>1, <2>1, <2>3
<1>6. n = k + 1 /\ n - 1 = k
  BY <1>1, <1>4, <1>5
<1>7. Entries(Plan[s], n - 1) = Entries(Plan[r], k)
  BY <1>1, <1>3, <1>6 DEF Entries
<1> QED
  BY <1>3, <1>6, <1>7

\* Whoever commits it, the registry is a beginning of the newest plan again.
LEMMA CommitExtends ==
  ASSUME NEW r \in Runners, Newest(r), NEW k \in 0..Len(Plan[r]),
         registry = Entries(Plan[r], k),
         NEW s \in Runners, NEW n \in 1..Len(Plan[s]), TakeEffect(Plan[s][n]),
         Entries(Plan[s], n - 1) \subseteq registry, ~SameVersion(Plan[s][n], registry)
  PROVE  \E i \in 0..Len(Plan[r]) : registry' = Entries(Plan[r], i)
<1>1. Plan[s][n] \notin registry
  BY DEF SameVersion
<1>2. k + 1 = n /\ n \in 1..Len(Plan[r]) /\ Plan[r][n] = Plan[s][n]
  BY <1>1, NextOfNewest
<1>3. k \in Nat /\ k + 1 \in 0..Len(Plan[r])
  BY <1>2, PlanFacts
<1>4. registry' = Entries(Plan[r], k + 1)
  BY <1>2, <1>3, EntriesNext DEF TakeEffect
<1> QED
  BY <1>3, <1>4

\* A run that commits is where its plan and the registry say.
LEMMA CommittedAhead ==
  ASSUME IInv, NEW s \in Runners \ lost, pc[s] = "commit"
  PROVE  /\ done[s] + 1 \in 1..Len(Plan[s]) /\ (done[s] + 1) - 1 = done[s]
         /\ Entries(Plan[s], done[s]) \subseteq registry
         /\ ~SameVersion(Pending(s), registry)
<1>1. done[s] \in Nat /\ done[s] + 1 \in 1..Len(Plan[s])
  BY PendingFacts DEF IInv
<1> QED
  BY <1>1 DEF IInv, ProgressInv, Applying, InsertedInv, Committing

LEMMA GhostAheadStep ==
  ASSUME IInv, GhostAhead, [Next]_vars
  PROVE  GhostAhead'
<1> DEFINE Ahead(m) == \E s \in Runners : \E n \in 1..Len(Plan[s]) :
                         m = Plan[s][n] /\ Entries(Plan[s], n - 1) \subseteq registry
<1>1. ASSUME registry \subseteq registry',
             \A g \in ghosts' : g.inserted # Null => Ahead(g.inserted)
      PROVE  GhostAhead'
  BY <1>1 DEF GhostAhead, Entries
<1>2. \A g \in ghosts : g.inserted # Null => Ahead(g.inserted)
  BY DEF GhostAhead
<1>3. ASSUME NEW r \in Runners \ lost, UnlockRefused(r) \/ Break(r) PROVE GhostAhead'
  <2>1. ghosts' = ghosts \cup {Ghost(r)} /\ registry' = registry
    BY <1>3 DEF UnlockRefused, Break, Leave
  <2>2. Ghost(r).inserted # Null => pc[r] = "commit" /\ Ghost(r).inserted = Plan[r][done[r] + 1]
    BY DEF Ghost, Pending
  <2>3. Ghost(r).inserted # Null => Ahead(Ghost(r).inserted)
    BY <2>2, CommittedAhead
  <2> HIDE DEF Ahead
  <2> QED
    BY <1>1, <1>2, <2>1, <2>3
<1>4. ASSUME NEW g \in ghosts, GhostStep(g) PROVE GhostAhead'
  <2>1. g \in GhostType
    BY DEF IInv, TypeOK
  <2>2. /\ [g EXCEPT !.waits = FALSE].inserted = g.inserted
        /\ [g EXCEPT !.inserted = Null].inserted = Null
    BY <2>1 DEF GhostType
  <2>3. registry \subseteq registry'
    BY <1>4 DEF GhostStep, GhostLocks, GhostCommits, GhostEnds, TakeEffect
  <2>4. \A h \in ghosts' : h \in ghosts \/ h.inserted = g.inserted \/ h.inserted = Null
    BY <1>4, <2>2 DEF GhostStep, GhostLocks, GhostCommits, GhostEnds
  <2> HIDE DEF Ahead
  <2> QED
    BY <1>1, <1>2, <2>3, <2>4
<1>5. ASSUME ghosts' = ghosts, registry \subseteq registry' PROVE GhostAhead'
  BY <1>1, <1>2, <1>5
<1>6. \A r \in Runners : Locked(r) \/ Committed(r) \/ Unlocked(r) =>
        ghosts' = ghosts /\ registry \subseteq registry'
  BY DEF Locked, Committed, Unlocked, TakeEffect
<1> QED
  BY <1>3, <1>4, <1>5, <1>6, ServerSteps DEF server

\* Only a run that reads a registry it does not reconcile is refused.
LEMMA RefusedHere ==
  ASSUME TypeOK, [Next]_vars, NEW r \in Runners
  PROVE  \/ outcome'[r] = outcome[r] \/ outcome'[r] # "refused"
         \/ ~Reconciled(Plan[r], registry)
<1>1. ASSUME NEW s \in Runners \ lost, Read(s)
      PROVE  outcome'[r] = outcome[r] \/ ~Reconciled(Plan[r], registry)
  BY <1>1 DEF Read, Unlock, TypeOK
<1>2. ASSUME NEW s \in Runners \ lost,
             WorkRefused(s) \/ CommitRefused(s) \/ RolledBack(s) \/ AllApplied(s)
      PROVE  outcome'[r] = outcome[r] \/ outcome'[r] # "refused"
  BY <1>2 DEF WorkRefused, CommitRefused, RolledBack, AllApplied, Unlock, TypeOK
<1>3. ASSUME NEW s \in Runners \ lost,
             \/ Run(s) \/ Locked(s) \/ RegistryCreated(s) \/ ApplyBegins(s)
             \/ ScriptExecuted(s) \/ Recorded(s) \/ Committed(s) \/ Unlocked(s)
             \/ LockRefused(s) \/ StatementRefused(s) \/ UnlockRefused(s) \/ Break(s)
      PROVE  outcome' = outcome
  BY <1>3 DEF Run, Locked, RegistryCreated, ApplyBegins, ScriptExecuted, Recorded, Committed,
       Unlocked, LockRefused, StatementRefused, UnlockRefused, Break
<1>4. (\E s \in lost : Notice(s)) \/ (\E g \in ghosts : GhostStep(g)) \/ UNCHANGED vars
        => outcome' = outcome
  BY DEF Notice, GhostStep, GhostLocks, GhostCommits, GhostEnds, client, vars
<1> QED
  BY <1>1, <1>2, <1>3, <1>4 DEF Next, Step, Disturb

LEMMA NewestStep ==
  ASSUME IInv, GhostAhead, NewestTakesOver, [Next]_vars
  PROVE  NewestTakesOver'
<1> SUFFICES ASSUME NEW r \in Runners, Newest(r)
             PROVE  /\ \E n \in 0..Len(Plan[r]) : registry' = Entries(Plan[r], n)
                    /\ outcome'[r] = "refused" => ~ReadInOrder(Plan[r], Len(Plan[r]))
  BY DEF NewestTakesOver, Newest
<1>1. PICK k \in 0..Len(Plan[r]) : registry = Entries(Plan[r], k)
  BY DEF NewestTakesOver
<1>2. \E n \in 0..Len(Plan[r]) : registry' = Entries(Plan[r], n)
  <2>1. CASE registry' = registry
    BY <1>1, <2>1
  <2>2. ASSUME NEW s \in Runners \ lost, Committed(s)
        PROVE  \E n \in 0..Len(Plan[r]) : registry' = Entries(Plan[r], n)
    <3>1. /\ done[s] + 1 \in 1..Len(Plan[s]) /\ (done[s] + 1) - 1 = done[s]
          /\ Entries(Plan[s], done[s]) \subseteq registry
          /\ ~SameVersion(Plan[s][done[s] + 1], registry)
          /\ TakeEffect(Plan[s][done[s] + 1])
      BY <2>2, CommittedAhead DEF Committed, Pending
    <3> QED
      BY <1>1, <3>1, CommitExtends
  <2>3. ASSUME NEW g \in ghosts, GhostCommits(g)
        PROVE  \E n \in 0..Len(Plan[r]) : registry' = Entries(Plan[r], n)
    <3>1. g.inserted # Null /\ TakeEffect(g.inserted) /\ ~SameVersion(g.inserted, registry)
      BY <2>3 DEF GhostCommits, IInv, InsertedInv
    <3>2. PICK s \in Runners : \E n \in 1..Len(Plan[s]) :
            g.inserted = Plan[s][n] /\ Entries(Plan[s], n - 1) \subseteq registry
      BY <3>1 DEF GhostAhead
    <3>3. PICK n \in 1..Len(Plan[s]) :
            g.inserted = Plan[s][n] /\ Entries(Plan[s], n - 1) \subseteq registry
      BY <3>2
    <3> QED
      BY <1>1, <3>1, <3>3, CommitExtends
  <2> QED
    BY <2>1, <2>2, <2>3, ServerSteps DEF Locked, Unlocked, UnlockRefused, Break, GhostStep,
       GhostLocks, GhostEnds, server
<1>3. outcome'[r] = "refused" => ~ReadInOrder(Plan[r], Len(Plan[r]))
  <2>1. CASE Reconciled(Plan[r], registry)
    BY <2>1, RefusedHere DEF NewestTakesOver, IInv
  <2>2. CASE ~Reconciled(Plan[r], registry)
    <3>1. ~ReadInOrder(Plan[r], k)
      BY <1>1, <2>2 DEF Reconciled
    <3>2. \A i \in 1..k : i \in 1..Len(Plan[r])
      BY PlanFacts
    <3> QED
      BY <3>1, <3>2 DEF ReadInOrder
  <2> QED
    BY <2>1, <2>2
<1> QED
  BY <1>2, <1>3

LEMMA LineageAlways == Spec => []Lineage
<1>1. Init => Lineage
  <2> SUFFICES ASSUME Init PROVE Lineage
    OBVIOUS
  <2>1. GhostAhead
    BY DEF Init, GhostAhead
  <2>2. ASSUME NEW r \in Runners
        PROVE  /\ 0 \in 0..Len(Plan[r]) /\ registry = Entries(Plan[r], 0)
               /\ outcome[r] # "refused"
    BY PlanFacts DEF Init, Entries
  <2> QED
    BY <2>1, <2>2 DEF Lineage, NewestTakesOver
<1>2. IInv /\ Lineage /\ [Next]_vars => Lineage'
  BY GhostAheadStep, NewestStep DEF Lineage
<1> QED
  BY <1>1, <1>2, Invariance, PTL DEF Spec

\* Whatever locks the processes take, and whatever breaks: when the releases extend
\* one another the registry is always a beginning of the newest plan, and only the
\* order of the versions' texts can make a run of that release refuse it.
THEOREM NewestTakesOverAlways == Spec => []NewestTakesOver
<1>1. Lineage => NewestTakesOver
  BY DEF Lineage
<1> QED
  BY <1>1, LineageAlways, PTL

LEMMA ExtendingKeepsPromise ==
  ASSUME NEW r \in Runners, Newest(r), IInv, Lineage, [Next]_vars
  PROVE  [Promise!Next]_<<registry, effects>>
<1>1. PICK k \in 0..Len(Plan[r]) : registry = Entries(Plan[r], k)
  BY DEF Lineage, NewestTakesOver
<1>2. ASSUME NEW s \in Runners, NEW n \in 1..Len(Plan[s]), TakeEffect(Plan[s][n]),
             Entries(Plan[s], n - 1) \subseteq registry, ~SameVersion(Plan[s][n], registry)
      PROVE  Promise!Next
  <2>1. Plan[s][n] \notin registry
    BY <1>2 DEF SameVersion
  <2>2. registry = Entries(Plan[s], n - 1)
    BY <1>1, <1>2, <2>1, NextOfNewest
  <2> QED
    BY <1>2, <2>2, CommitKeepsPromise
<1>3. ASSUME NEW s \in Runners \ lost, Committed(s) PROVE Promise!Next
  <2>1. /\ done[s] + 1 \in 1..Len(Plan[s]) /\ (done[s] + 1) - 1 = done[s]
        /\ Entries(Plan[s], done[s]) \subseteq registry
        /\ ~SameVersion(Plan[s][done[s] + 1], registry)
        /\ TakeEffect(Plan[s][done[s] + 1])
    BY <1>3, CommittedAhead DEF Committed, Pending
  <2> QED
    BY <1>2, <2>1
<1>4. ASSUME NEW g \in ghosts, GhostCommits(g) PROVE Promise!Next
  <2>1. g.inserted # Null /\ TakeEffect(g.inserted) /\ ~SameVersion(g.inserted, registry)
    BY <1>4 DEF GhostCommits, IInv, InsertedInv
  <2>2. PICK s \in Runners : \E n \in 1..Len(Plan[s]) :
          g.inserted = Plan[s][n] /\ Entries(Plan[s], n - 1) \subseteq registry
    BY <2>1 DEF Lineage, GhostAhead
  <2> QED
    BY <1>2, <2>1, <2>2
<1>5. CASE registry' = registry /\ effects' = effects
  BY <1>5
<1> QED
  BY <1>3, <1>4, <1>5, ServerSteps DEF Locked, Unlocked, UnlockRefused, Break, GhostStep,
     GhostLocks, GhostEnds, server

\* Releases that extend one another keep the promise even when their processes take
\* different locks, and nothing but the primary key and the transaction excludes them.
THEOREM ExtendingImplementation ==
  ASSUME NEW r \in Runners, Newest(r)
  PROVE  Spec => KeepsPromise
<1>1. Init => Promise!Init
  BY DEF Init, Promise!Init
<1>2. IInv /\ Lineage /\ [Next]_vars => [Promise!Next]_<<registry, effects>>
  BY ExtendingKeepsPromise
<1> QED
  BY <1>1, <1>2, Invariance, LineageAlways, PTL DEF Spec, KeepsPromise, Promise!Spec

-------------------------------------------------------------------------------
(* reconcile *)

Sorted(s, n) ==
  /\ \A i \in 1..n : s[i] \in Migrations
  /\ \A i, j \in 1..n : i < j => TextBefore(Version[s[i]], Version[s[j]])

\* Of two sorted lists of the same rows that agree before k, neither ends at k, and
\* the row the other has there is the same or comes before.
LEMMA NoLaterRow ==
  ASSUME TextsAreOrdered, NEW s, NEW a \in Nat, NEW t, NEW b \in Nat,
         Sorted(s, a), Sorted(t, b), Entries(s, a) \subseteq Entries(t, b),
         NEW k \in 1..a, \A i \in 1..(k - 1) : i \in 1..b /\ s[i] = t[i]
  PROVE  k \in 1..b /\ (s[k] = t[k] \/ TextBefore(Version[t[k]], Version[s[k]]))
<1>1. PICK j \in 1..b : s[k] = t[j]
  BY DEF Entries
<1>2. s[k] \in Migrations /\ ~TextBefore(Version[s[k]], Version[s[k]])
  BY DEF Sorted, TextsAreOrdered
<1>3. ~(j < k)
  <2> SUFFICES ASSUME j < k PROVE FALSE
    OBVIOUS
  <2>1. j \in 1..(k - 1) /\ j \in 1..a
    OBVIOUS
  <2>2. s[j] = s[k]
    BY <1>1, <2>1
  <2> QED
    BY <1>2, <2>1, <2>2 DEF Sorted
<1>4. k \in 1..b
  BY <1>3
<1>5. CASE j = k
  BY <1>1, <1>4, <1>5
<1>6. CASE k < j
  BY <1>1, <1>4, <1>6 DEF Sorted
<1> QED
  BY <1>3, <1>5, <1>6

LessThan == {p \in Nat \X Nat : p[1] < p[2]}

\* There is one way to sort rows: the first place at which two differ cannot be.
LEMMA SortedOnce ==
  ASSUME TextsAreOrdered, NEW s, NEW a \in Nat, NEW t, NEW b \in Nat,
         Sorted(s, a), Sorted(t, b), Entries(s, a) = Entries(t, b)
  PROVE  a = b /\ \A i \in 1..a : s[i] = t[i]
<1> DEFINE Agree(i) == i \in 1..a /\ i \in 1..b /\ s[i] = t[i]
           Differ == {i \in (1..a) \cup (1..b) : ~Agree(i)}
<1>1. Differ = {}
  <2> SUFFICES ASSUME Differ # {} PROVE FALSE
    OBVIOUS
  <2>1. IsWellFoundedOn(LessThan, Nat)
    BY NatLessThanWellFounded DEF OpToRel, LessThan
  <2>2. Differ \subseteq Nat
    OBVIOUS
  <2>3. PICK k \in Differ : \A i \in Differ : ~(<<i, k>> \in LessThan)
    <3> HIDE DEF Differ
    <3> QED
      BY <2>1, <2>2, WFMin
  <2>4. k \in Nat /\ 1 <= k
    OBVIOUS
  <2>5. ASSUME NEW i \in 1..(k - 1) PROVE Agree(i)
    <3>1. <<i, k>> \in LessThan
      BY <2>4 DEF LessThan
    <3>2. i \notin Differ
      BY <2>3, <3>1
    <3>3. i \in (1..a) \cup (1..b)
      BY <2>4
    <3> QED
      BY <3>2, <3>3
  <2>6. k \in 1..a => k \in 1..b /\ (s[k] = t[k] \/ TextBefore(Version[t[k]], Version[s[k]]))
    BY <2>5, NoLaterRow
  <2>7. k \in 1..b => k \in 1..a /\ (t[k] = s[k] \/ TextBefore(Version[s[k]], Version[t[k]]))
    BY <2>5, NoLaterRow
  <2>8. k \in 1..a /\ k \in 1..b /\ s[k] \in Migrations /\ t[k] \in Migrations
    BY <2>6, <2>7 DEF Sorted
  <2>9. ~Agree(k)
    OBVIOUS
  <2> QED
    BY <2>6, <2>7, <2>8, <2>9 DEF TextsAreOrdered
<1>2. \A i \in (1..a) \cup (1..b) : Agree(i)
  BY <1>1
<1>3. a = b
  <2>1. ~(a < b)
    <3> SUFFICES ASSUME a < b PROVE FALSE
      OBVIOUS
    <3>1. b \in 1..b /\ b \notin 1..a
      OBVIOUS
    <3> QED
      BY <1>2, <3>1
  <2>2. ~(b < a)
    <3> SUFFICES ASSUME b < a PROVE FALSE
      OBVIOUS
    <3>1. a \in 1..a /\ a \notin 1..b
      OBVIOUS
    <3> QED
      BY <1>2, <3>1
  <2> QED
    BY <2>1, <2>2
<1> QED
  BY <1>2, <1>3

\* What reconcile finds position by position in the rows as Applied has read them
\* is what Reconciled says of the registry and the plan as sets.
THEOREM ReconcilesByPosition ==
  ASSUME TextsAreOrdered, NEW r \in Runners, NEW rows, NEW applied, ReadAs(rows, applied)
  PROVE  reconcile(Plan[r], rows) <=> Reconciled(Plan[r], applied)
<1> DEFINE plan == Plan[r]
<1>1. /\ Len(rows) \in Nat /\ Sorted(rows, Len(rows))
      /\ applied = Entries(rows, Len(rows))
  BY DEF ReadAs, Sorted
<1>2. Len(plan) \in Nat /\ \A i \in 1..Len(plan) : plan[i] \in Migrations
  BY PlanFacts
<1> HIDE DEF plan
<1>3. ASSUME reconcile(plan, rows) PROVE Reconciled(plan, applied)
  <2>1. /\ Len(rows) \in 0..Len(plan)
        /\ \A i \in 1..Len(rows) : rows[i] = plan[i]
    BY <1>1, <1>2, <1>3 DEF reconcile
  <2>2. applied = Entries(plan, Len(rows))
    BY <1>1, <2>1 DEF Entries
  <2>3. ReadInOrder(plan, Len(rows))
    BY <1>1, <2>1 DEF Sorted, ReadInOrder
  <2> QED
    BY <2>1, <2>2, <2>3 DEF Reconciled
<1>4. ASSUME Reconciled(plan, applied) PROVE reconcile(plan, rows)
  <2>1. PICK n \in 0..Len(plan) : applied = Entries(plan, n) /\ ReadInOrder(plan, n)
    BY <1>4 DEF Reconciled
  <2>2. n \in Nat /\ n <= Len(plan) /\ \A i \in 1..n : i \in 1..Len(plan)
    BY <1>2
  <2>3. Sorted(plan, n)
    BY <1>2, <2>1, <2>2 DEF Sorted, ReadInOrder
  <2>4. Entries(rows, Len(rows)) = Entries(plan, n)
    BY <1>1, <2>1
  <2>5. Len(rows) = n /\ \A i \in 1..Len(rows) : rows[i] = plan[i]
    BY <1>1, <2>2, <2>3, <2>4, SortedOnce
  <2> QED
    BY <2>2, <2>5 DEF reconcile
<1> QED
  BY <1>3, <1>4 DEF plan
================================================================================
