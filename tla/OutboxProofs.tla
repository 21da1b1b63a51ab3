----------------------------- MODULE OutboxProofs -----------------------------
(***************************************************************************)
(* Proofs about OutboxDispatch, for every set of messages and dispatchers, *)
(* every option, clock offset and bound.                                   *)
(***************************************************************************)
EXTENDS OutboxInvariant, WellFoundedInduction, TLAPS

-------------------------------------------------------------------------------
(* The head of a batch *)

LessThan == {p \in Nat \X Nat : p[1] < p[2]}

LEMMA LessThanWellFounded == IsWellFoundedOn(LessThan, Nat)
BY NatLessThanWellFounded DEF OpToRel, LessThan

\* A batch that is not empty has a first delivery.
LEMMA FirstExists ==
  ASSUME NEW B, B \subseteq Receipts, B # {}
  PROVE  \E x \in B : \A y \in B : Collation[x[1]] <= Collation[y[1]]
<1> DEFINE T == {Collation[x[1]] : x \in B}
<1>1. \A x \in B : Collation[x[1]] \in Nat
  BY CollationAssumption DEF Receipts
<1>2. T \subseteq Nat /\ T # {}
  BY <1>1
<1>3. PICK n \in T : \A k \in T : ~ (<<k, n>> \in LessThan)
  BY <1>2, LessThanWellFounded, WFMin
<1>4. \A k \in T : ~ (k < n)
  BY <1>2, <1>3 DEF LessThan
<1>5. PICK x \in B : n = Collation[x[1]]
  BY <1>3
<1>6. ASSUME NEW y \in B PROVE Collation[x[1]] <= Collation[y[1]]
  <2>1. Collation[y[1]] \in T
    OBVIOUS
  <2>2. ~ (Collation[y[1]] < n)
    BY <1>4, <2>1
  <2> QED
    BY <1>1, <1>5, <2>2
<1> QED
  BY <1>6

LEMMA HeadInBatch ==
  ASSUME NEW d \in Dispatchers, batch[d] \subseteq Receipts, batch[d] # {}
  PROVE  Head(d) \in batch[d]
BY FirstExists DEF Head

-------------------------------------------------------------------------------
(* What a step does to one row *)

RowWritten(m) ==
  \/ table[m].state = "absent" /\ table'[m] = Inserted(m)
  \/ table[m].state = "open" /\ table'[m] = [table[m] EXCEPT !.state = "stored"]
  \/ table[m].state = "open" /\ table'[m] = [Absent EXCEPT !.state = "rolledback"]

RowClaimed(m, q) ==
  /\ Claimable(table[m], q.at)
  /\ table'[m] = [table[m] EXCEPT !.owner = q.owner, !.receipt = <<m, table[m].attempt + 1>>,
                                  !.lease = q.lease, !.attempt = @ + 1]

RowCompleted(m, q) ==
  /\ table[m].state = "stored" /\ table[m].receipt = q.receipt
  /\ table'[m] = Deleted(table[m])

RowReleased(m, q) ==
  /\ table[m].state = "stored" /\ table[m].receipt = q.receipt
  /\ table'[m] = Released(table[m], q)

\* A step leaves a row alone, writes it in its transaction, claims it at a time
\* some clock has reached, or settles it under a receipt no process keeps.
Settles(q) == \A d \in Dispatchers : q.receipt \notin batch'[d]
RowStep(m) ==
  \/ table'[m] = table[m]
  \/ RowWritten(m)
  \/ \E q \in ClaimRequests : Reached(q.at) /\ RowClaimed(m, q)
  \/ \E q \in CompleteRequests :
       q.receipt \in published /\ Settles(q) /\ RowCompleted(m, q)
  \/ \E q \in ReleaseRequests : Settles(q) /\ RowReleased(m, q)

TableStep == /\ table' = [m \in Messages |-> table'[m]]
             /\ \A m \in Messages : RowStep(m)

LEMMA ClaimedRows ==
  ASSUME NEW S, NEW q \in ClaimRequests, Reached(q.at),
         \A m \in S : Claimable(table[m], q.at),
         table' = Claimed(table, S, q)
  PROVE  /\ TableStep
         /\ \A m \in Messages \ S : table'[m] = table[m]
         /\ \A m \in Messages \cap S : RowClaimed(m, q)
<1>1. table' = [m \in Messages |-> table'[m]]
  BY DEF Claimed
<1>2. \A m \in Messages \ S : table'[m] = table[m]
  BY DEF Claimed
<1>3. \A m \in Messages \cap S : RowClaimed(m, q)
  BY DEF Claimed, RowClaimed, NewReceipt
<1> QED
  BY <1>1, <1>2, <1>3 DEF TableStep, RowStep

LEMMA ExecutedRows ==
  ASSUME NEW q \in CompleteRequests \cup ReleaseRequests, Settles(q),
         q.op = "complete" => q.receipt \in published,
         table' = Executed(table, q)
  PROVE  /\ TableStep
         /\ \A m \in Messages \ Matching(table, q) : table'[m] = table[m]
<1>1. table' = [m \in Messages |-> table'[m]]
  BY DEF Executed
<1>2. \A m \in Messages \ Matching(table, q) : table'[m] = table[m]
  BY DEF Executed
<1>3. ASSUME NEW m \in Matching(table, q)
      PROVE  RowStep(m)
  <2>1. m \in Messages /\ table[m].state = "stored" /\ table[m].receipt = q.receipt
    BY <1>3 DEF Matching
  <2>2. CASE q \in CompleteRequests
    BY <1>3, <2>1, <2>2 DEF Executed, CompleteRequests, RowCompleted, RowStep
  <2>3. CASE q \in ReleaseRequests
    BY <1>3, <2>1, <2>3 DEF Executed, ReleaseRequests, RowReleased, RowStep
  <2> QED
    BY <2>2, <2>3
<1> QED
  BY <1>1, <1>2, <1>3 DEF TableStep, RowStep

LEMMA WrittenRows ==
  ASSUME TypeOK, NEW n \in Messages, Transaction(n)
  PROVE  TableStep
<1>1. table = [m \in Messages |-> table[m]]
  BY DEF TypeOK
<1>2. PICK row : table' = [table EXCEPT ![n] = row]
  BY DEF Transaction, Enqueue, Commit, Rollback, Row
<1>3. table' = [m \in Messages |-> table'[m]]
  BY <1>1, <1>2
<1>4. \A m \in Messages \ {n} : table'[m] = table[m]
  BY <1>1, <1>2
<1>5. RowWritten(n)
  BY <1>1 DEF Transaction, Enqueue, Commit, Rollback, Row, RowWritten
<1> QED
  BY <1>3, <1>4, <1>5 DEF TableStep, RowStep

LEMMA SameRows ==
  ASSUME TypeOK, UNCHANGED table
  PROVE  TableStep
BY DEF TypeOK, TableStep, RowStep

-------------------------------------------------------------------------------
(* Every step is such a step *)

LEMMA HeadHeld ==
  ASSUME IInv, NEW d \in Dispatchers, pc[d] \in {"publish"} \cup Waiting
  PROVE  Head(d) \in batch[d] /\ Head(d) \in Receipts
BY HeadInBatch DEF IInv, TypeOK, BatchInv

\* The statement of a delivery that is over is about a receipt nobody keeps.
LEMMA DropsHead ==
  ASSUME IInv, NEW d \in Dispatchers, pc[d] \in Waiting,
         batch' = [batch EXCEPT ![d] = {}] \/ batch' = [batch EXCEPT ![d] = @ \ {Head(d)}]
  PROVE  Settles(req[d]) /\ req[d].receipt \in begun
<1>1. req[d].receipt = Head(d) /\ Head(d) \in begun
  BY DEF IInv, BatchInv
<1>2. Head(d) \in batch[d]
  BY HeadHeld
<1>3. \A e \in Dispatchers : e # d => Head(d) \notin batch[e]
  BY <1>2 DEF IInv, UniqueInv
<1>4. Head(d) \notin batch'[d]
  BY DEF IInv, TypeOK
<1>5. \A e \in Dispatchers : e # d => batch'[e] = batch[e]
  BY DEF IInv, TypeOK
<1> QED
  BY <1>1, <1>3, <1>4, <1>5 DEF Settles

LEMMA CommitsRows ==
  ASSUME IInv, NEW d \in Dispatchers, pc[d] = "claiming", Commits(d)
  PROVE  /\ TableStep
         /\ \A m \in Messages \ chosen[d] : table'[m] = table[m]
         /\ \A m \in chosen[d] : RowClaimed(m, req[d])
<1>1. req[d] \in ClaimRequests /\ chosen[d] \subseteq Messages
  BY DEF IInv, TypeOK
<1>2. Reached(req[d].at)
  BY DEF IInv, ReachedInv
<1>3. \A m \in chosen[d] : Claimable(table[m], req[d].at)
  BY DEF IInv, ChosenInv
<1> QED
  BY <1>1, <1>2, <1>3, ClaimedRows DEF Commits

LEMMA AnsweredRows ==
  ASSUME IInv, NEW d \in Dispatchers, Answered(d)
  PROVE  /\ TableStep
         /\ \A m \in Locked : table'[m] = table[m]
<1>1. pc[d] \in Waiting /\ req[d] \in Requests /\ req[d].op = pc[d]
  BY DEF IInv, TypeOK, Answered, Waiting
<1>2. req[d] \in CompleteRequests \cup ReleaseRequests
  BY <1>1 DEF Requests, ClaimRequests, Waiting
<1>3. Settles(req[d])
  BY <1>1, DropsHead DEF Answered, NextDelivery
<1>4. req[d].op = "complete" => req[d].receipt \in published
  BY <1>1 DEF IInv, BatchInv, Waiting
<1>5. table' = Executed(table, req[d])
  BY DEF Answered
<1>6. \A m \in Locked : m \in Messages \ Matching(table, req[d])
  BY DEF Answered, Locked, IInv, TypeOK
<1> QED
  BY <1>2, <1>3, <1>4, <1>5, <1>6, ExecutedRows

LEMMA LateRows ==
  ASSUME IInv, NEW q \in late, ExecuteLate(q)
  PROVE  /\ TableStep
         /\ \A m \in Locked : table'[m] = table[m]
<1>1. q \in Requests
  BY DEF IInv, TypeOK
<1>2. Locked \subseteq Messages
  BY DEF IInv, TypeOK, Locked
<1>3. CASE q.op = "claim"
  <2> DEFINE S == Candidates(table, Locked, q.at, BatchSize)
  <2>1. q \in ClaimRequests
    BY <1>1, <1>3 DEF Requests, CompleteRequests, ReleaseRequests
  <2>2. Reached(q.at)
    BY <1>3 DEF IInv, ReachedInv
  <2>3. \A m \in S : Claimable(table[m], q.at) /\ m \notin Locked
    BY DEF Candidates
  <2>4. table' = Claimed(table, S, q)
    BY <1>3 DEF ExecuteLate
  <2> QED
    BY <1>2, <2>1, <2>2, <2>3, <2>4, ClaimedRows
<1>4. CASE q.op # "claim"
  <2>1. q \in CompleteRequests \cup ReleaseRequests
    BY <1>1, <1>4 DEF Requests, ClaimRequests
  <2>2. Settles(q)
    BY <1>4 DEF IInv, LateInv, Settles, ExecuteLate, local
  <2>3. q.op = "complete" => q.receipt \in published
    BY <1>4 DEF IInv, LateInv
  <2>4. table' = Executed(table, q) /\ Matching(table, q) \cap Locked = {}
    BY <1>4 DEF ExecuteLate
  <2> QED
    BY <1>2, <2>1, <2>2, <2>3, <2>4, ExecutedRows
<1> QED
  BY <1>3, <1>4

LEMMA StepRows ==
  ASSUME IInv, Next
  PROVE  TableStep
<1> USE DEF IInv
<1>1. ASSUME NEW m \in Messages, Transaction(m) PROVE TableStep
  BY <1>1, WrittenRows
<1>2. ASSUME NEW d \in Dispatchers, ClaimReturns(d) \/ LoseClaim(d) PROVE TableStep
  BY <1>2, CommitsRows, SameRows DEF ClaimReturns, LoseClaim
<1>3. ASSUME NEW d \in Dispatchers, Answered(d) PROVE TableStep
  BY <1>3, AnsweredRows
<1>4. ASSUME NEW q \in late, ExecuteLate(q) PROVE TableStep
  BY <1>4, LateRows
<1>5. ASSUME NEW d \in Dispatchers,
             RunOnce(d) \/ ClaimLocks(d) \/ Publish(d) \/ BatchDone(d) \/ PublishSucceeds(d)
               \/ PublishFails(d) \/ NotReleased(d) \/ Abandon(d) \/ Lose(d) \/ Crash(d)
      PROVE  TableStep
  BY <1>5, SameRows DEF RunOnce, ClaimLocks, Publish, BatchDone, PublishSucceeds,
     PublishFails, NotReleased, Abandon, Lose, Crash
<1>6. CASE Tick
  BY <1>6, SameRows DEF Tick
<1> QED
  BY <1>1, <1>2, <1>3, <1>4, <1>5, <1>6 DEF Next, Step, Disturb

-------------------------------------------------------------------------------
(* What follows for the table *)

LEMMA RowTypes ==
  ASSUME IInv, TableStep
  PROVE  table' \in [Messages -> Rows]
<1> SUFFICES ASSUME NEW m \in Messages
             PROVE  table'[m] \in Rows
  BY DEF TableStep
<1>1. table[m] \in Rows /\ RowStep(m) /\ Null \notin Int
  BY NullAssumption DEF IInv, TypeOK, TableStep
<1>2. CASE RowWritten(m)
  <2>1. OccurredAt[m] \in Int /\ 0 \in 0..MaxAttempt
    BY OccurredAtAssumption, MaxAttemptAssumption
  <2>2. CASE table'[m] = Inserted(m)
    BY <2>1, <2>2 DEF Inserted, Absent, Rows, Times
  <2>3. CASE table'[m] = [table[m] EXCEPT !.state = "stored"]
    BY <1>1, <2>3 DEF Rows
  <2>4. CASE table'[m] = [Absent EXCEPT !.state = "rolledback"]
    BY <2>1, <2>4 DEF Absent, Rows, Times
  <2> QED
    BY <1>2, <2>2, <2>3, <2>4 DEF RowWritten
<1>3. ASSUME NEW q \in ClaimRequests, RowClaimed(m, q)
      PROVE  table'[m] \in Rows
  <2>1. /\ table[m].attempt \in 0..MaxAttempt /\ table[m].attempt < MaxAttempt
        /\ table[m].attempt + 1 \in 0..MaxAttempt
    BY <1>1, <1>3, MaxAttemptAssumption DEF RowClaimed, Claimable, Rows
  <2>2. <<m, table[m].attempt + 1>> \in Receipts
    BY <2>1 DEF Receipts
  <2>3. q.owner \in Owners /\ q.lease \in Int
    BY DEF ClaimRequests
  <2> QED
    BY <1>1, <1>3, <2>1, <2>2, <2>3 DEF RowClaimed, Rows, Times
<1>4. ASSUME NEW q \in CompleteRequests, RowCompleted(m, q)
      PROVE  table'[m] \in Rows
  BY <1>1, <1>4 DEF RowCompleted, Deleted, Rows, Times
<1>5. ASSUME NEW q \in ReleaseRequests, RowReleased(m, q)
      PROVE  table'[m] \in Rows
  BY <1>1, <1>5 DEF RowReleased, Released, ReleaseRequests, Rows, Times
<1> QED
  BY <1>1, <1>2, <1>3, <1>4, <1>5 DEF RowStep

LEMMA RowInvHolds ==
  ASSUME IInv, TableStep
  PROVE  RowInv'
<1> SUFFICES ASSUME NEW m \in Messages
             PROVE  /\ table'[m].state \notin {"stored", "deleted"} =>
                         table'[m].attempt = 0 /\ table'[m].receipt = Null
                    /\ table'[m].receipt # Null =>
                         /\ table'[m].state = "stored" /\ 1 <= table'[m].attempt
                         /\ table'[m].receipt = <<m, table'[m].attempt>>
  BY DEF RowInv
<1>1. table[m] \in Rows /\ RowStep(m)
  BY DEF IInv, TypeOK, TableStep
<1>2. /\ table[m].state \notin {"stored", "deleted"} =>
           table[m].attempt = 0 /\ table[m].receipt = Null
      /\ table[m].receipt # Null =>
           /\ table[m].state = "stored" /\ 1 <= table[m].attempt
           /\ table[m].receipt = <<m, table[m].attempt>>
  BY DEF IInv, RowInv
<1>3. CASE RowWritten(m)
  BY <1>1, <1>2, <1>3 DEF RowWritten, Inserted, Absent, Rows
<1>4. ASSUME NEW q \in ClaimRequests, RowClaimed(m, q)
      PROVE  /\ table'[m].state = "stored" /\ 1 <= table'[m].attempt
             /\ table'[m].receipt = <<m, table'[m].attempt>>
  BY <1>1, <1>4 DEF RowClaimed, Claimable, Rows
<1>5. ASSUME NEW q \in CompleteRequests, RowCompleted(m, q)
      PROVE  table'[m].state = "deleted" /\ table'[m].receipt = Null
  BY <1>1, <1>5 DEF RowCompleted, Deleted, Rows
<1>6. ASSUME NEW q \in ReleaseRequests, RowReleased(m, q)
      PROVE  table'[m].state = "stored" /\ table'[m].receipt = Null
  BY <1>1, <1>6 DEF RowReleased, Released, Rows
<1> QED
  BY <1>1, <1>2, <1>3, <1>4, <1>5, <1>6 DEF RowStep

LEMMA SchemaKept ==
  ASSUME IInv, TableStep
  PROVE  SchemaHolds'
<1> SUFFICES ASSUME NEW m \in Messages
             PROVE  SchemaChecks(table'[m])
  BY DEF SchemaHolds
<1>1. table[m] \in Rows /\ RowStep(m) /\ SchemaChecks(table[m])
  BY DEF IInv, TypeOK, TableStep, SchemaHolds
<1>2. CASE RowWritten(m)
  <2>1. CASE table'[m] = Inserted(m) \/ table'[m] = [Absent EXCEPT !.state = "rolledback"]
    <3>1. /\ table'[m].attempt = 0 /\ table'[m].owner = Null
          /\ table'[m].receipt = Null /\ table'[m].lease = Null
      BY <2>1 DEF Inserted, Absent
    <3> QED
      BY <3>1 DEF SchemaChecks
  <2>2. CASE table'[m] = [table[m] EXCEPT !.state = "stored"]
    BY <1>1, <2>2 DEF Rows, SchemaChecks
  <2> QED
    BY <1>2, <2>1, <2>2 DEF RowWritten
<1>3. ASSUME NEW q \in ClaimRequests, RowClaimed(m, q)
      PROVE  SchemaChecks(table'[m])
  <2>1. q.owner # Null
    BY OwnerAssumption DEF ClaimRequests, Owners
  <2>2. q.lease # Null
    BY NullAssumption DEF ClaimRequests
  <2>3. table[m].attempt \in Nat /\ table[m].attempt + 1 \in Nat
    BY <1>1, MaxAttemptAssumption DEF Rows
  <2>4. <<m, table[m].attempt + 1>> # Null
    BY <2>3, NullAssumption
  <2> QED
    BY <1>1, <1>3, <2>1, <2>2, <2>3, <2>4 DEF RowClaimed, Rows, SchemaChecks
<1>4. ASSUME NEW q \in CompleteRequests, RowCompleted(m, q)
      PROVE  SchemaChecks(table'[m])
  BY <1>1, <1>4 DEF RowCompleted, Deleted, Rows, SchemaChecks
<1>5. ASSUME NEW q \in ReleaseRequests, RowReleased(m, q)
      PROVE  SchemaChecks(table'[m])
  BY <1>1, <1>5 DEF RowReleased, Released, Rows, SchemaChecks
<1> QED
  BY <1>1, <1>2, <1>3, <1>4, <1>5 DEF RowStep

\* A claim once counted stays counted.
LEMMA CountedKept ==
  ASSUME IInv, TableStep, NEW x \in Receipts, Counted(x)
  PROVE  Counted(x)'
<1> DEFINE m == x[1]
<1>1. m \in Messages /\ x[2] \in Nat
  BY DEF Receipts
<1>2. table[m] \in Rows /\ RowStep(m) /\ table[m].state \in {"stored", "deleted"}
  BY <1>1 DEF IInv, TypeOK, TableStep, Counted
<1>3. table[m].attempt \in Nat
  BY <1>2, MaxAttemptAssumption DEF Rows
<1>4. table'[m].state \in {"stored", "deleted"}
      /\ table'[m].attempt \in {table[m].attempt, table[m].attempt + 1}
  <2>1. ~RowWritten(m)
    BY <1>2 DEF RowWritten
  <2>2. ASSUME NEW q \in ClaimRequests, RowClaimed(m, q) PROVE <1>4!:
    BY <1>2, <2>2 DEF RowClaimed, Claimable, Rows
  <2>3. ASSUME NEW q \in CompleteRequests, RowCompleted(m, q) PROVE <1>4!:
    BY <1>2, <2>3 DEF RowCompleted, Deleted, Rows
  <2>4. ASSUME NEW q \in ReleaseRequests, RowReleased(m, q) PROVE <1>4!:
    BY <1>2, <2>4 DEF RowReleased, Released, Rows
  <2> QED
    BY <1>2, <2>1, <2>2, <2>3, <2>4 DEF RowStep
<1> QED
  BY <1>1, <1>3, <1>4 DEF Counted

-------------------------------------------------------------------------------
(* Frame conditions *)

\* A process moves only its own part of the state.
SameLocal(e) == /\ pc'[e] = pc[e] /\ req'[e] = req[e] /\ chosen'[e] = chosen[e]
                /\ batch'[e] = batch[e] /\ until'[e] = until[e]

OnlyMoves(d) == now' = now /\ \A e \in Dispatchers \ {d} : SameLocal(e)

LEMMA Frame ==
  ASSUME TypeOK, NEW d \in Dispatchers, RunOnce(d) \/ Step(d) \/ Disturb(d)
  PROVE  OnlyMoves(d)
<1> USE DEF TypeOK, SameLocal, OnlyMoves, Goto, Return, NextDelivery
<1>1. CASE RunOnce(d)
  BY <1>1 DEF RunOnce
<1>2. CASE ClaimLocks(d)
  BY <1>2 DEF ClaimLocks
<1>3. CASE ClaimReturns(d) \/ LoseClaim(d)
  BY <1>3 DEF ClaimReturns, LoseClaim, Commits
<1>4. CASE Publish(d) \/ BatchDone(d) \/ PublishSucceeds(d) \/ Answered(d)
  BY <1>4 DEF Publish, BatchDone, PublishSucceeds, Answered
<1>5. CASE PublishFails(d) \/ NotReleased(d) \/ Abandon(d)
  BY <1>5 DEF PublishFails, NotReleased, Abandon
<1>6. CASE Lose(d) \/ Crash(d)
  BY <1>6 DEF Lose, Crash
<1> QED
  BY <1>1, <1>2, <1>3, <1>4, <1>5, <1>6 DEF Step, Disturb

LEMMA OthersStill ==
  ASSUME TypeOK, Next, ~ \E d \in Dispatchers : RunOnce(d) \/ Step(d) \/ Disturb(d)
  PROVE  UNCHANGED <<local, history>>
BY DEF Next, Transaction, Enqueue, Commit, Rollback, Row, ExecuteLate, Tick, local, history

-------------------------------------------------------------------------------
(* Types *)

States == {"idle", "claim", "claiming", "deliver", "publish", "complete", "release"}

LocalTypes ==
  /\ pc \in [Dispatchers -> States]
  /\ req \in [Dispatchers -> Requests \cup {Null}]
  /\ chosen \in [Dispatchers -> SUBSET Messages]
  /\ batch \in [Dispatchers -> SUBSET Receipts]
  /\ until \in [Dispatchers -> Int]
  /\ late \subseteq Requests
  /\ begun \subseteq Receipts /\ published \subseteq begun

Asks(d) ==
  /\ pc[d] \in {"claim", "complete", "release"} => req[d] \in Requests /\ req[d].op = pc[d]
  /\ pc[d] = "claiming" => req[d] \in ClaimRequests
  /\ pc[d] # "claiming" => chosen[d] = {}

LEMMA ClockTypes == \A d \in Dispatchers : now \in Nat => Clock(d) \in Int
BY OffsetAssumption DEF Clock

LEMMA TypesOfCalls ==
  ASSUME IInv, NEW d \in Dispatchers,
         RunOnce(d) \/ ClaimLocks(d) \/ Publish(d) \/ BatchDone(d) \/ PublishSucceeds(d)
  PROVE  LocalTypes' /\ Asks(d)'
<1> USE DEF IInv, TypeOK, LocalTypes, Asks, States, Goto, Return, history
<1>1. CASE RunOnce(d)
  <2>1. Clock(d) \in Int /\ Clock(d) + Lease \in Int
    BY ClockTypes, OptionsAssumption
  <2>2. ClaimRequest(Owner[d], Clock(d), Clock(d) + Lease) \in ClaimRequests
    BY <2>1 DEF ClaimRequest, ClaimRequests, Owners
  <2> QED
    BY <1>1, <2>2 DEF RunOnce, Requests, ClaimRequests
<1>2. CASE ClaimLocks(d)
  <2> DEFINE S == Candidates(table, Locked, req[d].at, BatchSize)
  <2>1. S \subseteq Messages
    BY DEF Candidates
  <2>2. req[d] \in ClaimRequests
    BY <1>2 DEF ClaimLocks, Requests, CompleteRequests, ReleaseRequests
  <2>3. chosen' = [chosen EXCEPT ![d] = S]
    BY <1>2 DEF ClaimLocks
  <2> HIDE DEF S
  <2>4. IF S = {} THEN Goto(d, "idle", Null) ELSE Goto(d, "claiming", req[d])
    BY <1>2 DEF ClaimLocks, S
  <2> QED
    BY <1>2, <2>1, <2>2, <2>3, <2>4 DEF ClaimLocks, Requests
<1>3. CASE Publish(d)
  <2>1. Head(d) \in Receipts
    BY <1>3, HeadInBatch DEF Publish
  <2> QED
    BY <1>3, <2>1 DEF Publish
<1>4. CASE BatchDone(d)
  BY <1>4 DEF BatchDone
<1>5. CASE PublishSucceeds(d)
  <2>1. Head(d) \in Receipts /\ Head(d) \in begun
    BY <1>5, HeadHeld DEF PublishSucceeds, BatchInv
  <2>2. CompleteRequest(Owner[d], Head(d)) \in CompleteRequests
    BY <2>1 DEF CompleteRequest, CompleteRequests, Owners
  <2> QED
    BY <1>5, <2>1, <2>2 DEF PublishSucceeds, Requests, CompleteRequests
<1> QED
  BY <1>1, <1>2, <1>3, <1>4, <1>5

LEMMA TypesOfAnswers ==
  ASSUME IInv, NEW d \in Dispatchers, ClaimReturns(d) \/ LoseClaim(d) \/ Answered(d)
  PROVE  LocalTypes' /\ Asks(d)'
<1> USE DEF IInv, TypeOK, LocalTypes, Asks, States, Goto, Return, history, NextDelivery
<1>1. CASE ClaimReturns(d)
  <2>1. chosen[d] \subseteq Messages /\ req[d].lease \in Int
    BY <1>1 DEF ClaimReturns, ClaimRequests
  <2>2. {NewReceipt(m, table[m]) : m \in chosen[d]} \subseteq Receipts
    BY <2>1, MaxAttemptAssumption DEF NewReceipt, Receipts, Rows
  <2>3. CASE InOrder(chosen[d])
    BY <1>1, <2>1, <2>2, <2>3 DEF ClaimReturns, Commits
  <2>4. CASE ~InOrder(chosen[d])
    BY <1>1, <2>1, <2>4 DEF ClaimReturns, Commits
  <2> QED
    BY <2>3, <2>4
<1>2. CASE LoseClaim(d)
  BY <1>2 DEF LoseClaim, Commits
<1>3. CASE Answered(d)
  BY <1>3 DEF Answered
<1> QED
  BY <1>1, <1>2, <1>3

LEMMA TypesOfFaults ==
  ASSUME IInv, NEW d \in Dispatchers,
         PublishFails(d) \/ NotReleased(d) \/ Abandon(d) \/ Lose(d) \/ Crash(d)
  PROVE  LocalTypes' /\ Asks(d)'
<1> USE DEF IInv, TypeOK, LocalTypes, Asks, States, Goto, Return, history, NextDelivery
<1>1. pc[d] = "publish" => Head(d) \in Receipts /\ Head(d) \in begun
  BY HeadHeld DEF BatchInv
<1>2. CASE PublishFails(d)
  <2>1. Clock(d) + FailureDelay \in Int
    BY ClockTypes, OptionsAssumption
  <2>2. ReleaseRequest(Owner[d], Head(d), Clock(d) + FailureDelay) \in ReleaseRequests
    BY <1>1, <1>2, <2>1 DEF ReleaseRequest, ReleaseRequests, Owners, PublishFails
  <2> QED
    BY <1>1, <1>2, <2>2 DEF PublishFails, MayHavePublished, Requests, ReleaseRequests
<1>3. CASE NotReleased(d)
  BY <1>1, <1>3 DEF NotReleased, MayHavePublished
<1>4. CASE Abandon(d)
  BY <1>1, <1>4 DEF Abandon, MayHavePublished
<1>5. CASE Lose(d)
  BY <1>5 DEF Lose, Detach
<1>6. CASE Crash(d)
  BY <1>6 DEF Crash, Detach
<1> QED
  BY <1>2, <1>3, <1>4, <1>5, <1>6

LEMMA TypesOfStep ==
  ASSUME IInv, NEW d \in Dispatchers, RunOnce(d) \/ Step(d) \/ Disturb(d)
  PROVE  LocalTypes' /\ Asks(d)'
BY TypesOfCalls, TypesOfAnswers, TypesOfFaults DEF Step, Disturb

\* FOR UPDATE SKIP LOCKED: a claim locks only rows that nobody has locked.
NewLocks(d) == \A m \in chosen'[d] : m \in chosen[d] \/ m \notin Locked

LEMMA LocksAreNew ==
  ASSUME IInv, NEW d \in Dispatchers, RunOnce(d) \/ Step(d) \/ Disturb(d)
  PROVE  NewLocks(d)
<1> USE DEF IInv, TypeOK, NewLocks
<1>1. CASE ClaimLocks(d)
  BY <1>1 DEF ClaimLocks, Candidates
<1>2. CASE ClaimReturns(d) \/ LoseClaim(d)
  BY <1>2 DEF ClaimReturns, LoseClaim, Commits
<1>3. CASE RunOnce(d) \/ Publish(d) \/ BatchDone(d) \/ PublishSucceeds(d) \/ Answered(d)
             \/ PublishFails(d) \/ NotReleased(d) \/ Abandon(d) \/ Lose(d) \/ Crash(d)
  BY <1>3 DEF RunOnce, Publish, BatchDone, PublishSucceeds, Answered, PublishFails,
     NotReleased, Abandon, Lose, Crash
<1> QED
  BY <1>1, <1>2, <1>3 DEF Step, Disturb

LEMMA TypesPreserved ==
  ASSUME IInv, Next
  PROVE  TypeOK'
<1> USE DEF IInv
<1>1. table' \in [Messages -> Rows]
  BY StepRows, RowTypes
<1>2. now' \in Nat /\ faults' \in Nat
  BY DEF TypeOK, Next, Transaction, Enqueue, Commit, Rollback, Row, RunOnce, Step, ClaimLocks,
     ClaimReturns, Publish, BatchDone, PublishSucceeds, Answered, Disturb, PublishFails,
     NotReleased, Abandon, Lose, LoseClaim, Crash, ExecuteLate, Tick, Fault
<1>3. CASE \E d \in Dispatchers : RunOnce(d) \/ Step(d) \/ Disturb(d)
  <2>1. PICK d \in Dispatchers : RunOnce(d) \/ Step(d) \/ Disturb(d)
    BY <1>3
  <2>2. LocalTypes' /\ Asks(d)' /\ OnlyMoves(d) /\ NewLocks(d)
    BY <2>1, TypesOfStep, Frame, LocksAreNew
  <2>3. \A e \in Dispatchers : Asks(e)'
    <3>1. ASSUME NEW e \in Dispatchers \ {d} PROVE Asks(e)'
      <4>1. Asks(e)
        BY DEF TypeOK, Asks
      <4> QED
        BY <2>2, <4>1 DEF OnlyMoves, SameLocal, Asks
    <3> QED
      BY <2>2, <3>1
  <2>4. \A e, f \in Dispatchers : e # f => chosen'[e] \cap chosen'[f] = {}
    <3>1. \A e \in Dispatchers \ {d} : chosen'[d] \cap chosen[e] = {}
      BY <2>2 DEF NewLocks, Locked, TypeOK
    <3>2. \A e \in Dispatchers \ {d} : chosen'[e] = chosen[e]
      BY <2>2 DEF OnlyMoves, SameLocal
    <3> QED
      BY <3>1, <3>2 DEF TypeOK
  <2> QED
    BY <1>1, <1>2, <2>2, <2>3, <2>4 DEF TypeOK, LocalTypes, Asks, States
<1>4. CASE ~ \E d \in Dispatchers : RunOnce(d) \/ Step(d) \/ Disturb(d)
  <2>1. UNCHANGED <<local, history>>
    BY <1>4, OthersStill
  <2>2. late' \subseteq late
    BY <1>4 DEF Next, Transaction, Enqueue, Commit, Rollback, Row, ExecuteLate, Tick
  <2> QED
    BY <1>1, <1>2, <2>1, <2>2 DEF TypeOK, local, history
<1> QED
  BY <1>3, <1>4

-------------------------------------------------------------------------------
(* Claims *)

LEMMA LocksKept ==
  ASSUME IInv, Next, NEW d \in Dispatchers, NEW m \in chosen'[d]
  PROVE  table'[m] = table[m] \/ table[m].state \in {"absent", "open"}
<1> USE DEF IInv
<1>1. CASE \E n \in Messages : Transaction(n)
  BY <1>1 DEF TypeOK, Transaction, Enqueue, Commit, Rollback, Row, local
<1>2. ASSUME NEW e \in Dispatchers, ClaimReturns(e) \/ LoseClaim(e)
      PROVE  table'[m] = table[m]
  <2>1. pc[e] = "claiming" /\ chosen' = [chosen EXCEPT ![e] = {}]
    BY <1>2 DEF ClaimReturns, LoseClaim, Commits
  <2>2. d # e /\ m \in chosen[d] /\ m \in Messages \ chosen[e]
    BY <2>1 DEF TypeOK
  <2> QED
    BY <1>2, <2>1, <2>2, CommitsRows DEF ClaimReturns, LoseClaim
<1>3. ASSUME NEW e \in Dispatchers, Answered(e)
      PROVE  table'[m] = table[m]
  BY <1>3, AnsweredRows DEF Answered, Locked
<1>4. ASSUME NEW q \in late, ExecuteLate(q)
      PROVE  table'[m] = table[m]
  BY <1>4, LateRows DEF ExecuteLate, local, Locked
<1>5. ASSUME NEW e \in Dispatchers,
             RunOnce(e) \/ ClaimLocks(e) \/ Publish(e) \/ BatchDone(e) \/ PublishSucceeds(e)
               \/ PublishFails(e) \/ NotReleased(e) \/ Abandon(e) \/ Lose(e) \/ Crash(e)
      PROVE  table'[m] = table[m]
  BY <1>5 DEF RunOnce, ClaimLocks, Publish, BatchDone, PublishSucceeds,
     PublishFails, NotReleased, Abandon, Lose, Crash
<1>6. CASE Tick
  BY <1>6 DEF Tick
<1> QED
  BY <1>1, <1>2, <1>3, <1>4, <1>5, <1>6 DEF Next, Step, Disturb

LEMMA ChosenPreserved ==
  ASSUME IInv, Next
  PROVE  ChosenInv'
<1> SUFFICES ASSUME NEW d \in Dispatchers, NEW m \in chosen'[d]
             PROVE  Claimable(table'[m], req'[d].at)
  BY DEF ChosenInv
<1>1. Claimable(table[m], req'[d].at)
  <2>1. CASE m \in chosen[d] /\ req'[d] = req[d]
    BY <2>1 DEF IInv, ChosenInv
  <2>2. CASE ClaimLocks(d)
    BY <2>2 DEF ClaimLocks, Candidates, Goto, IInv, TypeOK
  <2>3. ~ClaimLocks(d) => m \in chosen[d] /\ req'[d] = req[d]
    <3>1. CASE \E e \in Dispatchers \ {d} : RunOnce(e) \/ Step(e) \/ Disturb(e)
      BY <3>1, Frame DEF IInv, OnlyMoves, SameLocal
    <3>2. CASE ClaimReturns(d) \/ LoseClaim(d)
      BY <3>2 DEF ClaimReturns, LoseClaim, Commits, IInv, TypeOK
    <3>3. CASE RunOnce(d) \/ Publish(d) \/ BatchDone(d) \/ PublishSucceeds(d) \/ Answered(d)
             \/ PublishFails(d) \/ NotReleased(d) \/ Abandon(d) \/ Lose(d) \/ Crash(d)
      BY <3>3 DEF RunOnce, Publish, BatchDone, PublishSucceeds, Answered, PublishFails,
         NotReleased, Abandon, Lose, Crash, IInv, TypeOK
    <3>4. CASE ~ \E e \in Dispatchers : RunOnce(e) \/ Step(e) \/ Disturb(e)
      BY <3>4, OthersStill DEF IInv, local
    <3> QED
      BY <3>1, <3>2, <3>3, <3>4 DEF Step, Disturb
  <2> QED
    BY <2>1, <2>2, <2>3
<1>2. table'[m] = table[m]
  BY <1>1, LocksKept DEF Claimable
<1> QED
  BY <1>1, <1>2

StillReached(at) == \E d \in Dispatchers : at <= now' + Offset[d]

LEMMA ReachedKept ==
  ASSUME TypeOK, Next, NEW at \in Int, Reached(at)
  PROVE  StillReached(at)
<1>1. now \in Nat /\ now' \in {now, now + 1}
  BY DEF TypeOK, Next, Transaction, Enqueue, Commit, Rollback, Row, RunOnce, Step, ClaimLocks,
     ClaimReturns, Publish, BatchDone, PublishSucceeds, Answered, Disturb, PublishFails,
     NotReleased, Abandon, Lose, LoseClaim, Crash, ExecuteLate, Tick
<1> QED
  BY <1>1, OffsetAssumption DEF Reached, StillReached, Clock

\* A statement that nobody waits for any more was one a process waited for.
LEMMA LateGrows ==
  ASSUME IInv, Next, NEW q \in late', q \notin late
  PROVE  \E d \in Dispatchers : /\ pc[d] \in {"claim", "complete", "release"} /\ q = req[d]
                                /\ Lose(d) \/ Crash(d)
BY DEF Next, Transaction, Enqueue, Commit, Rollback, Row, RunOnce, Step, ClaimLocks,
   ClaimReturns, Publish, BatchDone, PublishSucceeds, Answered, Disturb, PublishFails,
   NotReleased, Abandon, Lose, LoseClaim, Crash, ExecuteLate, Tick, Detach

LEMMA ReachedPreserved ==
  ASSUME IInv, Next
  PROVE  ReachedInv'
<1>1. ASSUME NEW d \in Dispatchers, pc'[d] \in {"claim", "claiming"}
      PROVE  StillReached(req'[d].at)
  <2>1. CASE RunOnce(d)
    <3>1. req'[d].at = Clock(d) /\ now' = now
      BY <2>1 DEF RunOnce, Goto, ClaimRequest, IInv, TypeOK
    <3>2. now + Offset[d] <= now + Offset[d]
      BY ClockTypes DEF IInv, TypeOK, Clock
    <3> QED
      BY <3>1, <3>2 DEF StillReached, Clock
  <2>2. CASE pc[d] \in {"claim", "claiming"} /\ req'[d] = req[d]
    <3>1. req[d] \in ClaimRequests
      BY <2>2 DEF IInv, TypeOK, Requests, CompleteRequests, ReleaseRequests
    <3> QED
      BY <2>2, <3>1, ReachedKept DEF IInv, ReachedInv, ClaimRequests
  <2>3. ~RunOnce(d) => pc[d] \in {"claim", "claiming"} /\ req'[d] = req[d]
    <3>1. CASE \E e \in Dispatchers \ {d} : RunOnce(e) \/ Step(e) \/ Disturb(e)
      BY <1>1, <3>1, Frame DEF IInv, OnlyMoves, SameLocal
    <3>2. CASE ClaimLocks(d)
      BY <1>1, <3>2 DEF ClaimLocks, Goto, IInv, TypeOK
    <3>3. CASE ClaimReturns(d) \/ LoseClaim(d)
      BY <1>1, <3>3 DEF ClaimReturns, LoseClaim, Return, Goto, IInv, TypeOK
    <3>4. CASE Publish(d) \/ BatchDone(d) \/ PublishSucceeds(d) \/ Answered(d)
             \/ PublishFails(d) \/ NotReleased(d) \/ Abandon(d) \/ Lose(d) \/ Crash(d)
      BY <1>1, <3>4 DEF Publish, BatchDone, PublishSucceeds, Answered, PublishFails,
         NotReleased, Abandon, Lose, Crash, Return, NextDelivery, Goto, IInv, TypeOK
    <3>5. CASE ~ \E e \in Dispatchers : RunOnce(e) \/ Step(e) \/ Disturb(e)
      BY <1>1, <3>5, OthersStill DEF IInv, local
    <3> QED
      BY <3>1, <3>2, <3>3, <3>4, <3>5 DEF Step, Disturb
  <2> QED
    BY <2>1, <2>2, <2>3
<1>2. ASSUME NEW q \in late', q.op = "claim"
      PROVE  StillReached(q.at)
  <2>1. Reached(q.at) /\ q \in Requests
    <3>1. CASE q \in late
      BY <1>2, <3>1 DEF IInv, ReachedInv, TypeOK
    <3>2. CASE q \notin late
      BY <1>2, <3>2, LateGrows DEF IInv, ReachedInv, TypeOK
    <3> QED
      BY <3>1, <3>2
  <2>2. q.at \in Int
    BY <1>2, <2>1 DEF Requests, ClaimRequests, CompleteRequests, ReleaseRequests
  <2> QED
    BY <2>1, <2>2, ReachedKept DEF IInv
<1> QED
  BY <1>1, <1>2 DEF ReachedInv, Reached, StillReached, Clock

-------------------------------------------------------------------------------
(* Batches *)

LEMMA NewBatch ==
  ASSUME IInv, NEW d \in Dispatchers, ClaimReturns(d), NEW x \in batch'[d]
  PROVE  /\ x \in Receipts /\ x[1] \in chosen[d] /\ x[2] = table[x[1]].attempt + 1
         /\ RowClaimed(x[1], req[d]) /\ x = <<x[1], x[2]>>
         /\ until'[d] = req[d].lease /\ req[d] \in ClaimRequests
<1>1. /\ pc[d] = "claiming" /\ Commits(d)
      /\ batch' = [batch EXCEPT ![d] = {NewReceipt(m, table[m]) : m \in chosen[d]}]
           \/ batch' = [batch EXCEPT ![d] = {}]
      /\ until'[d] = req[d].lease
  BY DEF ClaimReturns, Return, IInv, TypeOK
<1>2. req[d] \in ClaimRequests /\ chosen[d] \subseteq Messages
  BY <1>1 DEF IInv, TypeOK
<1>3. PICK m \in chosen[d] : x = <<m, table[m].attempt + 1>>
  BY <1>1 DEF NewReceipt, IInv, TypeOK
<1>4. table[m].attempt \in Nat /\ m \in Messages
  BY <1>2, MaxAttemptAssumption DEF IInv, TypeOK, Rows
<1>5. RowClaimed(m, req[d])
  BY <1>1, CommitsRows
<1> QED
  BY <1>1, <1>2, <1>3, <1>4, <1>5 DEF Receipts

\* The receipts of a new batch are of claims no row had counted before.
LEMMA NewIsUncounted ==
  ASSUME IInv, NEW d \in Dispatchers, ClaimReturns(d), NEW x \in batch'[d]
  PROVE  ~Counted(x) /\ Counted(x)'
<1>1. /\ x[1] \in Messages /\ x[2] = table[x[1]].attempt + 1 /\ RowClaimed(x[1], req[d])
  BY NewBatch DEF Receipts
<1>2. table[x[1]] \in Rows /\ table[x[1]].attempt \in Nat
  BY <1>1, MaxAttemptAssumption DEF IInv, TypeOK, Rows
<1>3. ~Counted(x)
  BY <1>1, <1>2 DEF Counted
<1>4. table'[x[1]].state = "stored" /\ table'[x[1]].attempt = table[x[1]].attempt + 1
  BY <1>1, <1>2 DEF RowClaimed, Claimable, Rows
<1> QED
  BY <1>1, <1>2, <1>3, <1>4 DEF Counted

LEMMA OldBatch ==
  ASSUME IInv, Next, NEW d \in Dispatchers, ~ClaimReturns(d)
  PROVE  batch'[d] \subseteq batch[d] /\ until'[d] = until[d]
<1> USE DEF IInv, TypeOK, Return, NextDelivery
<1>1. CASE \E e \in Dispatchers \ {d} : RunOnce(e) \/ Step(e) \/ Disturb(e)
  BY <1>1, Frame DEF OnlyMoves, SameLocal
<1>2. CASE RunOnce(d) \/ ClaimLocks(d) \/ Publish(d) \/ BatchDone(d) \/ PublishSucceeds(d)
             \/ Answered(d) \/ PublishFails(d) \/ NotReleased(d)
  BY <1>2 DEF RunOnce, ClaimLocks, Publish, BatchDone, PublishSucceeds, Answered,
     PublishFails, NotReleased
<1>3. CASE Abandon(d) \/ Lose(d) \/ LoseClaim(d) \/ Crash(d)
  BY <1>3 DEF Abandon, Lose, LoseClaim, Crash
<1>4. CASE ~ \E e \in Dispatchers : RunOnce(e) \/ Step(e) \/ Disturb(e)
  BY <1>4, OthersStill DEF local
<1> QED
  BY <1>1, <1>2, <1>3, <1>4 DEF Step, Disturb

\* The publisher is called under the head of a batch only.
LEMMA BegunGrows ==
  ASSUME IInv, Next
  PROVE  /\ begun \subseteq begun' /\ published \subseteq published'
         /\ \A x \in begun' : x \in begun \/ \E d \in Dispatchers : Publish(d) /\ x = Head(d)
BY DEF Next, Transaction, Enqueue, Commit, Rollback, Row, RunOnce, Step, ClaimLocks,
   ClaimReturns, Publish, BatchDone, PublishSucceeds, Answered, Disturb, PublishFails,
   NotReleased, Abandon, Lose, LoseClaim, Crash, ExecuteLate, Tick, MayHavePublished, history

LEMMA CountedPreserved ==
  ASSUME IInv, Next
  PROVE  CountedInv'
<1>1. TableStep
  BY StepRows
<1>2. \A d \in Dispatchers : batch[d] \subseteq Receipts /\ \A x \in batch[d] : Counted(x)'
  BY <1>1, CountedKept DEF IInv, TypeOK, CountedInv
<1>3. ASSUME NEW d \in Dispatchers, NEW x \in batch'[d]
      PROVE  Counted(x)'
  <2>1. CASE ClaimReturns(d)
    BY <1>3, <2>1, NewIsUncounted
  <2>2. CASE ~ClaimReturns(d)
    BY <1>2, <1>3, <2>2, OldBatch
  <2> QED
    BY <2>1, <2>2
<1>4. ASSUME NEW x \in begun'
      PROVE  Counted(x)'
  <2>1. CASE x \in begun
    BY <1>1, <2>1, CountedKept DEF IInv, TypeOK, CountedInv
  <2>2. ASSUME NEW d \in Dispatchers, Publish(d), x = Head(d)
        PROVE  Counted(x)'
    <3>1. Head(d) \in batch[d]
      BY <2>2, HeadInBatch DEF Publish, IInv, TypeOK
    <3> QED
      BY <1>2, <2>2, <3>1
  <2> QED
    BY <1>4, <2>1, <2>2, BegunGrows
<1> QED
  BY <1>3, <1>4 DEF CountedInv, Counted

LEMMA UniquePreserved ==
  ASSUME IInv, Next
  PROVE  UniqueInv'
<1>1. ASSUME NEW d \in Dispatchers, NEW e \in Dispatchers \ {d}, ClaimReturns(d),
             NEW x \in batch'[d]
      PROVE  x \notin batch'[e]
  <2>1. batch'[e] = batch[e]
    BY <1>1, Frame DEF IInv, Step, OnlyMoves, SameLocal
  <2>2. ~Counted(x)
    BY <1>1, NewIsUncounted
  <2> QED
    BY <2>1, <2>2 DEF IInv, CountedInv
<1>2. ASSUME NEW d \in Dispatchers, NEW e \in Dispatchers \ {d},
             ~ClaimReturns(d), ~ClaimReturns(e)
      PROVE  batch'[d] \cap batch'[e] = {}
  <2>1. batch'[d] \subseteq batch[d] /\ batch'[e] \subseteq batch[e]
    BY <1>2, OldBatch
  <2> QED
    BY <2>1 DEF IInv, UniqueInv
<1> QED
  BY <1>1, <1>2 DEF UniqueInv

LEMMA LatePreserved ==
  ASSUME IInv, Next
  PROVE  LateInv'
<1> SUFFICES ASSUME NEW q \in late', q.op # "claim"
             PROVE  /\ q.receipt \in begun'
                    /\ \A d \in Dispatchers : q.receipt \notin batch'[d]
                    /\ q.op = "complete" => q.receipt \in published'
  BY DEF LateInv
<1>1. begun \subseteq begun' /\ published \subseteq published'
  BY BegunGrows
<1>2. CASE q \in late
  <2>1. /\ q.receipt \in begun
        /\ \A d \in Dispatchers : q.receipt \notin batch[d]
        /\ q.op = "complete" => q.receipt \in published
    BY <1>2 DEF IInv, LateInv
  <2>2. Counted(q.receipt)
    BY <2>1 DEF IInv, CountedInv
  <2>3. ASSUME NEW d \in Dispatchers PROVE q.receipt \notin batch'[d]
    <3>1. CASE ClaimReturns(d)
      BY <2>2, <3>1, NewIsUncounted
    <3>2. CASE ~ClaimReturns(d)
      BY <2>1, <3>2, OldBatch
    <3> QED
      BY <3>1, <3>2
  <2> QED
    BY <1>1, <2>1, <2>3
<1>3. CASE q \notin late
  <2>1. PICK d \in Dispatchers :
          /\ pc[d] \in {"claim", "complete", "release"} /\ q = req[d]
          /\ Lose(d) \/ Crash(d)
    BY <1>3, LateGrows
  <2>2. pc[d] \in Waiting /\ q.op = pc[d]
    BY <2>1 DEF IInv, TypeOK, Waiting
  <2>3. Settles(q) /\ q.receipt \in begun
    BY <2>1, <2>2, DropsHead DEF Lose, Crash, Return, NextDelivery, Waiting
  <2>4. q.op = "complete" => q.receipt \in published
    BY <2>1, <2>2 DEF IInv, BatchInv, Waiting
  <2> QED
    BY <1>1, <2>3, <2>4 DEF Settles
<1> QED
  BY <1>2, <1>3

BatchPart(d) ==
  /\ pc[d] \in {"idle", "claim", "claiming"} => batch[d] = {}
  /\ pc[d] \in {"publish"} \cup Waiting => batch[d] # {} /\ Head(d) \in begun
  /\ pc[d] \in Waiting => req[d].receipt = Head(d)
  /\ pc[d] = "complete" => Head(d) \in published

LEMMA BatchPreserved ==
  ASSUME IInv, Next
  PROVE  BatchInv'
<1> SUFFICES ASSUME NEW d \in Dispatchers
             PROVE  BatchPart(d)'
  BY DEF BatchInv, BatchPart
<1>1. BatchPart(d)
  BY DEF IInv, BatchInv, BatchPart
<1>2. begun \subseteq begun' /\ published \subseteq published'
  BY BegunGrows
<1>3. batch'[d] = batch[d] => Head(d)' = Head(d)
  BY DEF Head
<1>4. CASE SameLocal(d)
  BY <1>1, <1>2, <1>3, <1>4 DEF SameLocal, BatchPart
<1> USE DEF IInv, TypeOK, Goto, Return, NextDelivery, Waiting
<1>5. CASE RunOnce(d) \/ ClaimLocks(d)
  BY <1>1, <1>5 DEF BatchPart, RunOnce, ClaimLocks
<1>6. CASE ClaimReturns(d) \/ LoseClaim(d)
  <2>1. pc'[d] \in {"deliver", "idle"} /\ (pc'[d] = "idle" => batch'[d] = {})
    BY <1>6 DEF ClaimReturns, LoseClaim
  <2> QED
    BY <2>1 DEF BatchPart
<1>7. CASE Publish(d)
  BY <1>3, <1>7 DEF BatchPart, Publish
<1>8. CASE BatchDone(d) \/ Answered(d) \/ NotReleased(d) \/ Lose(d) \/ Abandon(d) \/ Crash(d)
  <2>1. pc'[d] \in {"deliver", "idle"} /\ (pc'[d] = "idle" => batch'[d] = {})
    BY <1>8 DEF BatchDone, Answered, NotReleased, Lose, Abandon, Crash
  <2> QED
    BY <2>1 DEF BatchPart
<1>9. CASE PublishSucceeds(d)
  BY <1>1, <1>3, <1>9 DEF BatchPart, PublishSucceeds, CompleteRequest
<1>10. CASE PublishFails(d)
  BY <1>1, <1>3, <1>10 DEF BatchPart, PublishFails, ReleaseRequest
<1>11. CASE \E e \in Dispatchers \ {d} : RunOnce(e) \/ Step(e) \/ Disturb(e)
  BY <1>4, <1>11, Frame DEF OnlyMoves
<1>12. CASE ~ \E e \in Dispatchers : RunOnce(e) \/ Step(e) \/ Disturb(e)
  BY <1>4, <1>12, OthersStill DEF local, SameLocal
<1> QED
  BY <1>5, <1>6, <1>7, <1>8, <1>9, <1>10, <1>11, <1>12 DEF Step, Disturb

LEMMA FreshPreserved ==
  ASSUME IInv, Next
  PROVE  FreshInv'
<1> SUFFICES ASSUME NEW d \in Dispatchers, NEW x \in batch'[d],
                    pc'[d] = "deliver" \/ x # Head(d)'
             PROVE  x \notin begun'
  BY DEF FreshInv
<1>1. CASE ClaimReturns(d)
  <2>1. x \notin begun
    BY <1>1, NewIsUncounted DEF IInv, CountedInv
  <2> QED
    BY <1>1, <2>1 DEF ClaimReturns, history
<1>2. CASE ~ClaimReturns(d)
  <2>1. x \in batch[d]
    BY <1>2, OldBatch
  <2>2. ASSUME NEW e \in Dispatchers \ {d}, Publish(e) PROVE x # Head(e)
    <3>1. Head(e) \in batch[e]
      BY <2>2, HeadInBatch DEF Publish, IInv, TypeOK
    <3> QED
      BY <2>1, <3>1 DEF IInv, UniqueInv
  <2>3. Publish(d) => x # Head(d)
    BY DEF Publish, Goto, Head, IInv, TypeOK
  <2>4. x \notin begun
    <3>1. batch'[d] = batch[d] => Head(d)' = Head(d)
      BY DEF Head
    <3>2. pc[d] = "deliver" \/ x # Head(d) => x \notin begun
      BY <2>1 DEF IInv, FreshInv
    <3> USE DEF IInv, TypeOK, Goto, Return, NextDelivery
    <3>3. CASE SameLocal(d)
      BY <3>1, <3>2, <3>3 DEF SameLocal
    <3>4. CASE RunOnce(d) \/ ClaimLocks(d)
      BY <2>1, <3>4 DEF RunOnce, ClaimLocks, BatchInv
    <3>5. CASE Publish(d)
      BY <3>2, <3>5 DEF Publish
    <3>6. CASE Answered(d) \/ NotReleased(d) \/ Lose(d)
      BY <3>2, <3>6 DEF Answered, NotReleased, Lose
    <3>7. CASE BatchDone(d) \/ Abandon(d) \/ LoseClaim(d) \/ Crash(d)
      BY <3>7 DEF BatchDone, Abandon, LoseClaim, Crash
    <3>8. CASE PublishSucceeds(d) \/ PublishFails(d)
      BY <3>1, <3>2, <3>8 DEF PublishSucceeds, PublishFails
    <3>9. CASE \E e \in Dispatchers \ {d} : RunOnce(e) \/ Step(e) \/ Disturb(e)
      BY <3>3, <3>9, Frame DEF OnlyMoves
    <3>10. CASE ~ \E e \in Dispatchers : RunOnce(e) \/ Step(e) \/ Disturb(e)
      BY <3>3, <3>10, OthersStill DEF local, SameLocal
    <3> QED
      BY <1>2, <3>4, <3>5, <3>6, <3>7, <3>8, <3>9, <3>10 DEF Step, Disturb
  <2> QED
    BY <2>2, <2>3, <2>4, BegunGrows
<1> QED
  BY <1>1, <1>2

LEMMA LeasePreserved ==
  ASSUME IInv, Next
  PROVE  LeaseInv'
<1> SUFFICES ASSUME NEW d \in Dispatchers, \A e \in Dispatchers : Clock(e)' < until'[d],
                    NEW x \in batch'[d]
             PROVE  /\ table'[x[1]].state = "stored"
                    /\ table'[x[1]].receipt = x
                    /\ table'[x[1]].lease = until'[d]
  BY DEF LeaseInv
<1>1. CASE ClaimReturns(d)
  <2>1. /\ x[1] \in Messages /\ RowClaimed(x[1], req[d]) /\ x = <<x[1], table[x[1]].attempt + 1>>
        /\ until'[d] = req[d].lease /\ table[x[1]] \in Rows
    BY <1>1, NewBatch DEF Receipts, IInv, TypeOK
  <2> QED
    BY <2>1 DEF RowClaimed, Claimable, Rows
<1>2. CASE ~ClaimReturns(d)
  <2> DEFINE m == x[1]
  <2>1. x \in batch[d] /\ until'[d] = until[d] /\ until[d] \in Int /\ m \in Messages
    BY <1>2, OldBatch DEF IInv, TypeOK, Receipts
  <2>2. \A e \in Dispatchers : Clock(e) < until[d]
    <3>1. now \in Nat /\ now' \in {now, now + 1}
      BY DEF IInv, TypeOK, Next, Transaction, Enqueue, Commit, Rollback, Row, RunOnce, Step,
         ClaimLocks, ClaimReturns, Publish, BatchDone, PublishSucceeds, Answered, Disturb,
         PublishFails, NotReleased, Abandon, Lose, LoseClaim, Crash, ExecuteLate, Tick
    <3> QED
      BY <2>1, <3>1, OffsetAssumption DEF Clock
  <2>3. table[m].state = "stored" /\ table[m].receipt = x /\ table[m].lease = until[d]
    BY <2>1, <2>2 DEF IInv, LeaseInv
  <2>4. table[m] \in Rows /\ RowStep(m)
    BY <2>1, StepRows DEF IInv, TypeOK, TableStep
  <2>5. ~RowWritten(m)
    BY <2>3 DEF RowWritten
  <2>6. ASSUME NEW q \in ClaimRequests, Reached(q.at) PROVE ~RowClaimed(m, q)
    <3>1. PICK e \in Dispatchers : q.at <= Clock(e)
      BY <2>6 DEF Reached
    <3>2. q.at \in Int /\ Clock(e) \in Int /\ until[d] # Null
      BY <2>1, ClockTypes, NullAssumption DEF ClaimRequests, IInv, TypeOK
    <3>3. ~ (until[d] <= q.at)
      BY <2>1, <2>2, <3>1, <3>2
    <3> QED
      BY <2>3, <3>2, <3>3 DEF RowClaimed, Claimable
  <2>7. \A q : Settles(q) => q.receipt # x
    BY DEF Settles
  <2>8. table'[m] = table[m]
    BY <2>3, <2>4, <2>5, <2>6, <2>7 DEF RowStep, RowCompleted, RowReleased
  <2> QED
    BY <2>1, <2>3, <2>8
<1> QED
  BY <1>1, <1>2

-------------------------------------------------------------------------------
(* The invariant *)

LEMMA InitIInv == Init => IInv
<1> SUFFICES ASSUME Init PROVE IInv
  OBVIOUS
<1>1. TypeOK
  BY OccurredAtAssumption, MaxAttemptAssumption DEF Init, TypeOK, Absent, Rows, Times
<1>2. RowInv
  BY DEF Init, Absent, RowInv
<1>3. SchemaHolds
  <2>1. SchemaChecks(Absent)
    BY DEF SchemaChecks, Absent
  <2> QED
    BY <2>1 DEF Init, SchemaHolds
<1>4. ChosenInv /\ ReachedInv /\ CountedInv /\ BatchInv /\ UniqueInv /\ LateInv
        /\ FreshInv /\ LeaseInv
  BY DEF Init, ChosenInv, ReachedInv, CountedInv, BatchInv, Waiting, UniqueInv, LateInv,
     FreshInv, LeaseInv
<1> QED
  BY <1>1, <1>2, <1>3, <1>4 DEF IInv

LEMMA NextIInv == IInv /\ [Next]_vars => IInv'
<1>1. ASSUME IInv, Next PROVE IInv'
  <2>1. TableStep
    BY <1>1, StepRows
  <2>2. RowInv' /\ SchemaHolds'
    BY <1>1, <2>1, RowInvHolds, SchemaKept
  <2> QED
    BY <1>1, <2>2, TypesPreserved, ChosenPreserved, ReachedPreserved, CountedPreserved,
       BatchPreserved, UniquePreserved, LatePreserved, FreshPreserved, LeasePreserved
       DEF IInv
<1>2. ASSUME IInv, UNCHANGED vars PROVE IInv'
  <2> USE <1>2 DEF IInv, vars, local
  <2>1. TypeOK'
    BY DEF TypeOK
  <2>2. RowInv' /\ SchemaHolds'
    BY DEF RowInv, SchemaHolds
  <2>3. ChosenInv' /\ ReachedInv'
    BY DEF ChosenInv, ReachedInv, Reached, Clock
  <2>4. CountedInv' /\ UniqueInv' /\ LateInv'
    BY DEF CountedInv, Counted, UniqueInv, LateInv
  <2>5. \A d \in Dispatchers : Head(d)' = Head(d)
    BY DEF Head
  <2>6. BatchInv' /\ FreshInv'
    BY <2>5 DEF BatchInv, FreshInv
  <2>7. LeaseInv'
    BY DEF LeaseInv, Clock
  <2> QED
    BY <2>1, <2>2, <2>3, <2>4, <2>6, <2>7
<1> QED
  BY <1>1, <1>2

\* The outbox keeps the invariant, in whatever order statements reach its table.
THEOREM Invariance == Spec => []IInv
<1> QED
  BY InitIInv, NextIInv, PTL DEF Spec

\* The variables keep their types: a dispatcher waits for the statement of its
\* call, and no row is locked by two claims.
THEOREM TypeCorrect == Spec => []TypeOK
<1>1. IInv => TypeOK
  BY DEF IInv
<1> QED
  BY <1>1, Invariance, PTL

\* No statement leaves a row that a CHECK constraint of the table rejects.
THEOREM SchemaHoldsAlways == Spec => []SchemaHolds
<1>1. IInv => SchemaHolds
  BY DEF IInv
<1> QED
  BY <1>1, Invariance, PTL

\* Until some clock passes its lease a batch has its rows, under the receipts it
\* was claimed with, however far the clocks are apart.
THEOREM LeaseExcludes == Spec => []LeaseExclusion
<1>1. IInv => LeaseExclusion
  BY DEF IInv, LeaseInv, LeaseExclusion
<1> QED
  BY <1>1, Invariance, PTL

-------------------------------------------------------------------------------
(* What no step does *)

LEMMA StepOrSame ==
  ASSUME IInv, [Next]_vars
  PROVE  TableStep \/ UNCHANGED table
BY StepRows DEF vars

\* Only a completion under the receipt of the row, whose publisher succeeded,
\* removes a message.
THEOREM RemovalIsDeserved == Spec => RemovedWhenPublished
<1>1. ASSUME IInv, [Next]_vars, NEW m \in Messages,
             table[m].state = "stored", table'[m].state # "stored"
      PROVE  table'[m].state = "deleted" /\ table[m].receipt \in published
  <2>1. RowStep(m) /\ table'[m] # table[m] /\ table[m] \in Rows
    BY <1>1, StepOrSame DEF TableStep, IInv, TypeOK
  <2>2. ~RowWritten(m)
    BY <1>1 DEF RowWritten
  <2>3. \A q \in ClaimRequests : ~RowClaimed(m, q)
    BY <1>1, <2>1 DEF RowClaimed, Rows
  <2>4. \A q \in ReleaseRequests : ~RowReleased(m, q)
    BY <1>1, <2>1 DEF RowReleased, Released, Rows
  <2>5. \A q \in CompleteRequests : RowCompleted(m, q) =>
          table[m].receipt = q.receipt /\ table'[m].state = "deleted"
    BY <2>1 DEF RowCompleted, Deleted, Rows
  <2> QED
    BY <2>1, <2>2, <2>3, <2>4, <2>5 DEF RowStep
<1>2. IInv /\ [Next]_vars =>
        [\A m \in Messages : table[m].state = "stored" /\ table'[m].state # "stored" =>
           table'[m].state = "deleted" /\ table[m].receipt \in published]_vars
  BY <1>1
<1> QED
  BY <1>2, Invariance, PTL DEF Spec, RemovedWhenPublished

\* A claim finds a message whose availability and last lease some clock has passed.
THEOREM ClaimsAreDueAlways == Spec => ClaimsAreDue
<1>1. ASSUME IInv, [Next]_vars, NEW m \in Messages, table'[m].attempt # table[m].attempt
      PROVE  \E d \in Dispatchers : /\ table[m].availableAt <= Clock(d)
                                    /\ table[m].lease # Null => table[m].lease <= Clock(d)
  <2>1. RowStep(m) /\ table'[m] # table[m] /\ table[m] \in Rows
    BY <1>1, StepOrSame DEF TableStep, IInv, TypeOK
  <2>2. ~RowWritten(m)
    <3>1. table[m].state \in {"absent", "open"} => table[m].attempt = 0
      BY <1>1 DEF IInv, RowInv
    <3> QED
      BY <1>1, <2>1, <3>1 DEF RowWritten, Inserted, Absent, Rows
  <2>3. \A q \in ReleaseRequests : ~RowReleased(m, q)
    BY <1>1, <2>1 DEF RowReleased, Released, Rows
  <2>4. \A q \in CompleteRequests : ~RowCompleted(m, q)
    BY <1>1, <2>1 DEF RowCompleted, Deleted, Rows
  <2>5. PICK q \in ClaimRequests : Reached(q.at) /\ RowClaimed(m, q)
    BY <2>1, <2>2, <2>3, <2>4 DEF RowStep
  <2>6. PICK d \in Dispatchers : q.at <= Clock(d)
    BY <2>5 DEF Reached
  <2>7. table[m].availableAt <= q.at /\ (table[m].lease = Null \/ table[m].lease <= q.at)
    BY <2>5 DEF RowClaimed, Claimable
  <2>8. /\ q.at \in Int /\ Clock(d) \in Int /\ table[m].availableAt \in Int
        /\ table[m].lease # Null => table[m].lease \in Int
    BY <1>1, <2>1, ClockTypes DEF ClaimRequests, Rows, Times, IInv, TypeOK
  <2>9. table[m].availableAt <= Clock(d)
    BY <2>6, <2>7, <2>8
  <2>10. table[m].lease # Null => table[m].lease <= Clock(d)
    BY <2>6, <2>7, <2>8
  <2> QED
    BY <2>9, <2>10
<1>2. IInv /\ [Next]_vars =>
        [\A m \in Messages : table'[m].attempt # table[m].attempt =>
           \E d \in Dispatchers : /\ table[m].availableAt <= Clock(d)
                                  /\ table[m].lease # Null => table[m].lease <= Clock(d)]_vars
  BY <1>1
<1> QED
  BY <1>2, Invariance, PTL DEF Spec, ClaimsAreDue

\* The publisher is called at most once under one receipt.
THEOREM OncePerReceiptAlways == Spec => OncePerReceipt
<1>1. ASSUME IInv, [Next]_vars, NEW d \in Dispatchers, pc[d] # "publish", pc'[d] = "publish"
      PROVE  Head(d) \notin begun
  <2>1. Publish(d)
    <3>1. Next /\ pc'[d] # pc[d]
      BY <1>1 DEF vars
    <3>2. RunOnce(d) \/ Step(d) \/ Disturb(d)
      <4>1. CASE \E e \in Dispatchers \ {d} : RunOnce(e) \/ Step(e) \/ Disturb(e)
        BY <1>1, <3>1, <4>1, Frame DEF IInv, OnlyMoves, SameLocal
      <4>2. CASE ~ \E e \in Dispatchers : RunOnce(e) \/ Step(e) \/ Disturb(e)
        BY <1>1, <3>1, <4>2, OthersStill DEF IInv, local
      <4> QED
        BY <4>1, <4>2
    <3> USE <1>1 DEF IInv, TypeOK, Goto, Return, NextDelivery
    <3>3. ~RunOnce(d) /\ ~ClaimLocks(d) /\ ~ClaimReturns(d) /\ ~BatchDone(d)
      BY DEF RunOnce, ClaimLocks, ClaimReturns, BatchDone
    <3>4. ~PublishSucceeds(d) /\ ~Answered(d)
      BY DEF PublishSucceeds, Answered
    <3>5. ~Disturb(d)
      BY DEF Disturb, PublishFails, NotReleased, Abandon, Lose, LoseClaim, Crash
    <3> QED
      BY <3>2, <3>3, <3>4, <3>5 DEF Step
  <2>2. Head(d) \in batch[d]
    BY <1>1, <2>1, HeadInBatch DEF Publish, IInv, TypeOK
  <2> QED
    BY <1>1, <2>1, <2>2 DEF Publish, IInv, FreshInv
<1>2. IInv /\ [Next]_vars =>
        [\A d \in Dispatchers : pc[d] # "publish" /\ pc'[d] = "publish" =>
           Head(d) \notin begun]_vars
  BY <1>1
<1> QED
  BY <1>2, Invariance, PTL DEF Spec, OncePerReceipt

-------------------------------------------------------------------------------
(* OutboxDispatch implements OutboxPromise *)

Status == [m \in Messages |-> table[m].state]
Delivered == {x[1] : x \in published}
PromiseStep == Promise!Next \/ UNCHANGED <<Status, Delivered>>

LEMMA SameStatus ==
  ASSUME \A m \in Messages : table'[m].state = table[m].state, published' = published
  PROVE  PromiseStep
BY DEF PromiseStep, Status, Delivered

LEMMA WriteKeepsPromise ==
  ASSUME IInv, NEW n \in Messages, Transaction(n)
  PROVE  PromiseStep
<1> USE DEF IInv, TypeOK, Row, history
<1>1. table[n] \in Rows
  OBVIOUS
<1>2. CASE Enqueue(n)
  <2>1. table[n].state = "absent" /\ table' = [table EXCEPT ![n] = Inserted(n)]
    BY <1>2 DEF Enqueue
  <2>2. Inserted(n).state = "open"
    BY DEF Inserted, Absent
  <2>3. Promise!Enqueue(n)
    BY <1>2, <2>1, <2>2 DEF Enqueue, Promise!Enqueue, Promise!Becomes
  <2> QED
    BY <2>3 DEF PromiseStep, Promise!Next
<1>3. CASE Commit(n)
  <2>1. table[n].state = "open" /\ table' = [table EXCEPT ![n] = [table[n] EXCEPT !.state = "stored"]]
    BY <1>3 DEF Commit
  <2>2. [table[n] EXCEPT !.state = "stored"].state = "stored"
    BY <1>1 DEF Rows
  <2>3. Promise!Commit(n)
    BY <1>3, <2>1, <2>2 DEF Commit, Promise!Commit, Promise!Becomes
  <2> QED
    BY <2>3 DEF PromiseStep, Promise!Next
<1>4. CASE Rollback(n)
  <2>1. table[n].state = "open" /\ table' = [table EXCEPT ![n] = [Absent EXCEPT !.state = "rolledback"]]
    BY <1>4 DEF Rollback
  <2>2. [Absent EXCEPT !.state = "rolledback"].state = "rolledback"
    BY DEF Absent
  <2>3. Promise!Rollback(n)
    BY <1>4, <2>1, <2>2 DEF Rollback, Promise!Rollback, Promise!Becomes
  <2> QED
    BY <2>3 DEF PromiseStep, Promise!Next
<1> QED
  BY <1>2, <1>3, <1>4 DEF Transaction

\* A claim, however it commits, is no step of the promise.
LEMMA ClaimKeepsPromise ==
  ASSUME IInv, NEW S, NEW q, \A m \in S : Claimable(table[m], q.at),
         table' = Claimed(table, S, q), published' = published
  PROVE  PromiseStep
<1>1. ASSUME NEW m \in Messages PROVE table'[m].state = table[m].state
  <2>1. table[m] \in Rows
    BY DEF IInv, TypeOK
  <2> QED
    BY <2>1 DEF Claimed, Rows
<1> QED
  BY <1>1, SameStatus

\* What a statement settles is one message at most: the one its receipt names.
LEMMA SettleKeepsPromise ==
  ASSUME IInv, NEW q \in CompleteRequests \cup ReleaseRequests,
         q.op = "complete" => q.receipt \in published,
         table' = Executed(table, q), published' = published
  PROVE  PromiseStep
<1>1. ASSUME NEW m \in Messages PROVE table[m] \in Rows
  BY DEF IInv, TypeOK
<1>2. CASE q.op = "complete" /\ Matching(table, q) # {}
  <2> DEFINE n == q.receipt[1]
  <2>1. q.receipt \in Receipts /\ q.receipt # Null
    BY NullAssumption DEF CompleteRequests, ReleaseRequests, Receipts
  <2>2. \A m \in Matching(table, q) : m = n
    BY <2>1 DEF Matching, IInv, RowInv
  <2>3. n \in Messages /\ Matching(table, q) = {n} /\ table[n].state = "stored"
    BY <1>2, <2>2 DEF Matching
  <2>4. table'[n] = Deleted(table[n]) /\ \A m \in Messages \ {n} : table'[m] = table[m]
    BY <1>2, <2>3 DEF Executed
  <2>5. table'[n].state = "deleted"
    BY <1>1, <2>3, <2>4 DEF Deleted, Rows
  <2>6. n \in Delivered /\ Delivered' = Delivered
    BY <1>2 DEF Delivered
  <2>7. Status[n] = "stored" /\ Status' = [Status EXCEPT ![n] = "deleted"]
    BY <2>3, <2>4, <2>5 DEF Status
  <2>8. Promise!Remove(n)
    BY <2>6, <2>7 DEF Promise!Remove, Promise!Becomes, Status, Delivered
  <2> QED
    BY <2>3, <2>8 DEF PromiseStep, Promise!Next
<1>3. CASE ~(q.op = "complete" /\ Matching(table, q) # {})
  <2>1. ASSUME NEW m \in Messages PROVE table'[m].state = table[m].state
    <3>1. CASE m \notin Matching(table, q)
      BY <3>1 DEF Executed
    <3>2. CASE m \in Matching(table, q)
      <4>1. table'[m] = Released(table[m], q)
        BY <1>3, <3>2 DEF Executed
      <4> QED
        BY <1>1, <4>1 DEF Released, Rows
    <3> QED
      BY <3>1, <3>2
  <2> QED
    BY <2>1, SameStatus
<1> QED
  BY <1>2, <1>3

\* A publisher that succeeded, or failed but may have reached its target.
LEMMA PublishKeepsPromise ==
  ASSUME IInv, NEW d \in Dispatchers, pc[d] = "publish", UNCHANGED table,
         published' = published \/ published' = published \cup {Head(d)}
  PROVE  PromiseStep
<1>1. CASE published' = published
  BY <1>1, SameStatus
<1>2. CASE published' = published \cup {Head(d)}
  <2>1. PICK n \in Messages : n = Head(d)[1] /\ table[n].state \in {"stored", "deleted"}
    BY HeadHeld DEF Receipts, IInv, CountedInv, Counted
  <2>2. Delivered' = Delivered \cup {n} /\ Status' = Status
    BY <1>2, <2>1 DEF Delivered, Status
  <2>3. Promise!Deliver(n)
    BY <2>1, <2>2 DEF Promise!Deliver, Status, Delivered
  <2> QED
    BY <2>1, <2>3 DEF PromiseStep, Promise!Next
<1> QED
  BY <1>1, <1>2

LEMMA NextKeepsPromise ==
  ASSUME IInv, [Next]_vars
  PROVE  PromiseStep
<1>1. ASSUME NEW m \in Messages, Transaction(m) PROVE PromiseStep
  BY <1>1, WriteKeepsPromise
<1>2. ASSUME NEW d \in Dispatchers, ClaimReturns(d) \/ LoseClaim(d) PROVE PromiseStep
  <2>1. published' = published /\ pc[d] = "claiming"
    BY <1>2 DEF ClaimReturns, LoseClaim, history
  <2>2. \A m \in chosen[d] : Claimable(table[m], req[d].at)
    BY DEF IInv, ChosenInv
  <2>3. Commits(d) \/ UNCHANGED table
    BY <1>2 DEF ClaimReturns, LoseClaim
  <2> QED
    BY <2>1, <2>2, <2>3, ClaimKeepsPromise, SameStatus DEF Commits
<1>3. ASSUME NEW d \in Dispatchers, Answered(d) PROVE PromiseStep
  <2>1. /\ pc[d] \in Waiting /\ req[d].op = pc[d] /\ req[d] \in Requests
        /\ published' = published /\ table' = Executed(table, req[d])
    BY <1>3 DEF Answered, history, Waiting, IInv, TypeOK
  <2>2. req[d] \in CompleteRequests \cup ReleaseRequests
    BY <2>1 DEF Requests, ClaimRequests, Waiting
  <2>3. req[d].op = "complete" => req[d].receipt \in published
    BY <2>1 DEF IInv, BatchInv, Waiting
  <2> QED
    BY <2>1, <2>2, <2>3, SettleKeepsPromise
<1>4. ASSUME NEW q \in late, ExecuteLate(q) PROVE PromiseStep
  <2>1. published' = published /\ q \in Requests
    BY <1>4 DEF ExecuteLate, history, IInv, TypeOK
  <2>2. CASE q.op = "claim"
    <3> DEFINE S == Candidates(table, Locked, q.at, BatchSize)
    <3>1. \A m \in S : Claimable(table[m], q.at)
      BY DEF Candidates
    <3>2. table' = Claimed(table, S, q)
      BY <1>4, <2>2 DEF ExecuteLate
    <3> HIDE DEF S
    <3> QED
      BY <2>1, <3>1, <3>2, ClaimKeepsPromise
  <2>3. CASE q.op # "claim"
    <3>1. q \in CompleteRequests \cup ReleaseRequests
      BY <2>1, <2>3 DEF Requests, ClaimRequests
    <3>2. q.op = "complete" => q.receipt \in published
      BY <2>3 DEF IInv, LateInv
    <3>3. table' = Executed(table, q)
      BY <1>4, <2>3 DEF ExecuteLate
    <3> QED
      BY <2>1, <3>1, <3>2, <3>3, SettleKeepsPromise
  <2> QED
    BY <2>2, <2>3
<1>5. ASSUME NEW d \in Dispatchers, PublishSucceeds(d) \/ PublishFails(d) \/ NotReleased(d)
                                      \/ (Abandon(d) /\ pc[d] = "publish")
      PROVE  PromiseStep
  BY <1>5, PublishKeepsPromise DEF PublishSucceeds, PublishFails, NotReleased, Abandon,
     MayHavePublished
<1>6. ASSUME NEW d \in Dispatchers,
             RunOnce(d) \/ ClaimLocks(d) \/ Publish(d) \/ BatchDone(d) \/ Lose(d) \/ Crash(d)
               \/ (Abandon(d) /\ pc[d] # "publish")
      PROVE  PromiseStep
  BY <1>6, SameStatus DEF RunOnce, ClaimLocks, Publish, BatchDone, Lose, Crash, Abandon, history
<1>7. CASE Tick \/ UNCHANGED vars
  BY <1>7, SameStatus DEF Tick, vars, history
<1> QED
  BY <1>1, <1>2, <1>3, <1>4, <1>5, <1>6, <1>7 DEF Next, Step, Disturb

\* Dispatchers, clocks, leases, receipts and statements that arrive late give the
\* application the outbox it was promised.
THEOREM Implementation == Spec => KeepsPromise
<1>1. Init => Promise!Init
  BY DEF Init, Absent, Promise!Init
<1>2. IInv /\ [Next]_vars => [Promise!Next]_<<Status, Delivered>>
  BY NextKeepsPromise DEF PromiseStep
<1> QED
  BY <1>1, <1>2, Invariance, PTL DEF Spec, KeepsPromise, Promise!Spec, Status, Delivered
================================================================================
