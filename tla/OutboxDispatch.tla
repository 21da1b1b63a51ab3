---------------------------- MODULE OutboxDispatch ----------------------------
(***************************************************************************)
(* The transactional outbox: application transactions that enqueue         *)
(* messages, and Dispatcher.RunOnce (spice/event/outbox) in several        *)
(* processes over the PostgreSQL outbox store.                             *)
(*                                                                         *)
(* A claim is one statement, but not one step: it locks its candidates,    *)
(* skipping rows another statement has locked, and what it writes is seen  *)
(* when it commits.  An UPDATE or DELETE of a locked row waits.  A         *)
(* statement whose client gets an error may still be executed later, once. *)
(***************************************************************************)
EXTENDS OutboxStatements

CONSTANTS
  Dispatchers,  \* processes that dispatch
  Owner,        \* Owner[d]: Options.Owner of d
  ByteOrder,    \* ByteOrder[m]: rank of m under compareDeliveries
  BatchSize, Lease, FailureDelay,   \* Options
  Offset,       \* Offset[d]: how far d's clock is ahead of real time
  MaxTime,      \* bound: real time stops here
  FaultHorizon, \* bound: faults happen up to this time
  MaxFaults     \* bound: number of faults

ASSUME OptionsAssumption ==
  BatchSize \in Nat \ {0} /\ Lease \in Nat \ {0} /\ FailureDelay \in Nat
\* NewDispatcher requires an owner.
ASSUME OwnerAssumption == \A d \in Dispatchers : Owner[d] # Null
ASSUME OffsetAssumption == Offset \in [Dispatchers -> Int]
ASSUME ByteOrderAssumption ==
  /\ ByteOrder \in [Messages -> Nat]
  /\ \A m, n \in Messages :
       OccurredAt[m] < OccurredAt[n] => ByteOrder[m] < ByteOrder[n]

VARIABLES
  now,        \* real time
  table,      \* table[m]: the row of m
  late,       \* statements nobody waits for that may still be executed
  pc,         \* pc[d]: where RunOnce is
  req,        \* req[d]: the statement d waits for
  chosen,     \* chosen[d]: rows locked by d's claim
  batch,      \* batch[d]: receipts of the deliveries d has left
  until,      \* until[d]: lease expiry of d's batch
  begun,      \* history: receipts under which the publisher was called
  published,  \* history: receipts under which the publisher succeeded
  faults      \* faults so far

local == <<pc, req, chosen, batch, until>>
history == <<begun, published>>
vars == <<now, table, late, pc, req, chosen, batch, until, begun, published, faults>>

-------------------------------------------------------------------------------

Clock(d) == now + Offset[d]
Locked == UNION {chosen[d] : d \in Dispatchers}
Fault == now <= FaultHorizon /\ faults < MaxFaults /\ faults' = faults + 1

\* Deliveries are taken in the order of the claim's rows.
Head(d) == CHOOSE x \in batch[d] : \A y \in batch[d] : Collation[x[1]] <= Collation[y[1]]

\* A publisher that fails may have reached its target all the same.
MayHavePublished(d) == published' \in {published, published \cup {Head(d)}}

\* validateDeliveries: the rows must be in compareDeliveries order.
InOrder(S) == \A m, n \in S : Collation[m] < Collation[n] => ByteOrder[m] < ByteOrder[n]

Goto(d, state, q) == /\ pc' = [pc EXCEPT ![d] = state]
                     /\ req' = [req EXCEPT ![d] = q]

Return(d) == /\ Goto(d, "idle", Null)
             /\ batch' = [batch EXCEPT ![d] = {}]

\* The delivery is over, published or not; RunOnce takes the next one.
NextDelivery(d) == /\ Goto(d, "deliver", Null)
                   /\ batch' = [batch EXCEPT ![d] = @ \ {Head(d)}]

Init ==
  /\ now = 0 /\ late = {} /\ faults = 0
  /\ table = [m \in Messages |-> Absent]
  /\ pc = [d \in Dispatchers |-> "idle"]
  /\ req = [d \in Dispatchers |-> Null]
  /\ chosen = [d \in Dispatchers |-> {}]
  /\ batch = [d \in Dispatchers |-> {}]
  /\ until = [d \in Dispatchers |-> 0]
  /\ begun = {} /\ published = {}

-------------------------------------------------------------------------------
(* Application transactions *)

Row(m, row) == /\ table' = [table EXCEPT ![m] = row]
               /\ UNCHANGED <<now, late, local, history, faults>>

Enqueue(m) == table[m].state = "absent" /\ Row(m, Inserted(m))
Commit(m) == table[m].state = "open" /\ Row(m, [table[m] EXCEPT !.state = "stored"])
Rollback(m) == table[m].state = "open" /\ Row(m, [Absent EXCEPT !.state = "rolledback"])

-------------------------------------------------------------------------------
(* Claim *)

RunOnce(d) ==
  /\ pc[d] = "idle"
  /\ Goto(d, "claim", ClaimRequest(Owner[d], Clock(d), Clock(d) + Lease))
  /\ UNCHANGED <<now, table, late, chosen, batch, until, history, faults>>

\* Claim locks its candidates; when there are none RunOnce returns.
ClaimLocks(d) ==
  /\ pc[d] = "claim"
  /\ LET S == Candidates(table, Locked, req[d].at, BatchSize) IN
       /\ chosen' = [chosen EXCEPT ![d] = S]
       /\ IF S = {} THEN Goto(d, "idle", Null) ELSE Goto(d, "claiming", req[d])
  /\ UNCHANGED <<now, table, late, batch, until, history, faults>>

Commits(d) ==
  /\ table' = Claimed(table, chosen[d], req[d])
  /\ chosen' = [chosen EXCEPT ![d] = {}]

\* The claim commits and its rows reach RunOnce, which refuses the batch when
\* it is not in the order it expects.
ClaimReturns(d) ==
  /\ pc[d] = "claiming"
  /\ Commits(d)
  /\ until' = [until EXCEPT ![d] = req[d].lease]
  /\ IF InOrder(chosen[d])
     THEN /\ Goto(d, "deliver", Null)
          /\ batch' = [batch EXCEPT ![d] = {NewReceipt(m, table[m]) : m \in chosen[d]}]
     ELSE Return(d)
  /\ UNCHANGED <<now, late, history, faults>>

-------------------------------------------------------------------------------
(* Delivery *)

Publish(d) ==
  /\ pc[d] = "deliver" /\ batch[d] # {}
  /\ begun' = begun \cup {Head(d)}
  /\ Goto(d, "publish", Null)
  /\ UNCHANGED <<now, table, late, chosen, batch, until, published, faults>>

BatchDone(d) ==
  /\ pc[d] = "deliver" /\ batch[d] = {}
  /\ Return(d)
  /\ UNCHANGED <<now, table, late, chosen, until, history, faults>>

PublishSucceeds(d) ==
  /\ pc[d] = "publish"
  /\ published' = published \cup {Head(d)}
  /\ Goto(d, "complete", CompleteRequest(Owner[d], Head(d)))
  /\ UNCHANGED <<now, table, late, chosen, batch, until, begun, faults>>

\* A publish error releases the message after the failure delay.
PublishFails(d) ==
  /\ pc[d] = "publish"
  /\ Fault
  /\ MayHavePublished(d)
  /\ Goto(d, "release", ReleaseRequest(Owner[d], Head(d), Clock(d) + FailureDelay))
  /\ UNCHANGED <<now, table, late, chosen, batch, until, begun>>

\* An invalid failure delay: the message keeps its lease.
NotReleased(d) ==
  /\ pc[d] = "publish"
  /\ Fault
  /\ MayHavePublished(d)
  /\ NextDelivery(d)
  /\ UNCHANGED <<now, table, late, chosen, until, begun>>

\* Whether or not the statement found its row, RunOnce goes on.
Answered(d) ==
  /\ pc[d] \in {"complete", "release"}
  /\ Matching(table, req[d]) \cap Locked = {}
  /\ table' = Executed(table, req[d])
  /\ NextDelivery(d)
  /\ UNCHANGED <<now, late, chosen, until, history, faults>>

-------------------------------------------------------------------------------
(* Faults and time *)

Detach(d) == late' \in {late, late \cup {req[d]}}

\* RunOnce sees a cancelled context between two deliveries, or the publisher
\* panics through it: the deliveries left keep their leases.
Abandon(d) ==
  /\ pc[d] \in {"deliver", "publish"}
  /\ Fault
  /\ IF pc[d] = "publish" THEN MayHavePublished(d) ELSE UNCHANGED published
  /\ Return(d)
  /\ UNCHANGED <<now, table, late, chosen, until, begun>>

\* A store call returns an error that says nothing of its effect.
Lose(d) ==
  /\ pc[d] \in {"claim", "complete", "release"}
  /\ Fault
  /\ Detach(d)
  /\ IF pc[d] = "claim" THEN Return(d) ELSE NextDelivery(d)
  /\ UNCHANGED <<now, table, chosen, until, history>>

\* The connection of a claim that holds its locks breaks: it is rolled back, or
\* commits unheard.
LoseClaim(d) ==
  /\ pc[d] = "claiming"
  /\ Fault
  /\ Commits(d) \/ (chosen' = [chosen EXCEPT ![d] = {}] /\ UNCHANGED table)
  /\ Return(d)
  /\ UNCHANGED <<now, late, until, history>>

\* The process dies between two statements of a batch, or waiting for one.
Crash(d) ==
  /\ pc[d] \in {"complete", "release"}
  /\ Fault
  /\ Detach(d)
  /\ Return(d)
  /\ UNCHANGED <<now, table, chosen, until, history>>

ExecuteLate(q) ==
  /\ IF q.op = "claim"
     THEN table' = Claimed(table, Candidates(table, Locked, q.at, BatchSize), q)
     ELSE /\ Matching(table, q) \cap Locked = {}
          /\ table' = Executed(table, q)
  /\ late' = late \ {q}
  /\ UNCHANGED <<now, local, history, faults>>

Tick ==
  /\ now < MaxTime
  /\ now' = now + 1
  /\ UNCHANGED <<table, late, local, history, faults>>

-------------------------------------------------------------------------------

Transaction(m) == Enqueue(m) \/ Commit(m) \/ Rollback(m)

Step(d) == \/ ClaimLocks(d) \/ ClaimReturns(d) \/ Publish(d) \/ BatchDone(d)
           \/ PublishSucceeds(d) \/ Answered(d)

Disturb(d) == PublishFails(d) \/ NotReleased(d) \/ Abandon(d) \/ Lose(d)
                \/ LoseClaim(d) \/ Crash(d)

Next ==
  \/ \E m \in Messages : Transaction(m)
  \/ \E d \in Dispatchers : RunOnce(d) \/ Step(d) \/ Disturb(d)
  \/ \E q \in late : ExecuteLate(q)
  \/ Tick

Spec == Init /\ [][Next]_vars

\* A pass that was started goes on (the publisher returns), the application keeps
\* calling RunOnce, and time passes.
Fairness ==
  /\ \A d \in Dispatchers : WF_vars(Step(d)) /\ WF_vars(RunOnce(d))
  /\ WF_vars(Tick)

FairSpec == Spec /\ Fairness

-------------------------------------------------------------------------------
(* Types *)

Times == Int \cup {Null}
Receipts == Messages \X Nat
Owners == {Owner[d] : d \in Dispatchers}

Rows == [state : {"absent", "open", "rolledback", "stored", "deleted"},
         availableAt : Int, owner : Owners \cup {Null},
         receipt : Receipts \cup {Null}, lease : Times, attempt : 0..MaxAttempt]

ClaimRequests == [op : {"claim"}, owner : Owners, at : Int, lease : Int]
CompleteRequests == [op : {"complete"}, owner : Owners, receipt : Receipts]
ReleaseRequests ==
  [op : {"release"}, owner : Owners, receipt : Receipts, availableAt : Int]
Requests == ClaimRequests \cup CompleteRequests \cup ReleaseRequests

\* Every variable stays within its type; a dispatcher waits for the statement of
\* the call it is in; only a claim in progress holds row locks, and no two hold
\* the same one (FOR UPDATE SKIP LOCKED).
TypeOK ==
  /\ now \in Nat /\ faults \in Nat
  /\ table \in [Messages -> Rows]
  /\ late \subseteq Requests
  /\ pc \in [Dispatchers -> {"idle", "claim", "claiming", "deliver", "publish",
                             "complete", "release"}]
  /\ req \in [Dispatchers -> Requests \cup {Null}]
  /\ chosen \in [Dispatchers -> SUBSET Messages]
  /\ \A d \in Dispatchers :
       /\ pc[d] \in {"claim", "complete", "release"} =>
            req[d] \in Requests /\ req[d].op = pc[d]
       /\ pc[d] = "claiming" => req[d] \in ClaimRequests
       /\ pc[d] # "claiming" => chosen[d] = {}
  /\ \A d, e \in Dispatchers : d # e => chosen[d] \cap chosen[e] = {}
  /\ batch \in [Dispatchers -> SUBSET Receipts]
  /\ until \in [Dispatchers -> Int]
  /\ begun \subseteq Receipts /\ published \subseteq begun

-------------------------------------------------------------------------------
(* Safety *)

\* No statement, in whatever order statements reach the table, leaves a row that
\* a CHECK constraint of the table would reject (OutboxSchemaSQL).
SchemaHolds == \A m \in Messages : SchemaChecks(table[m])

\* A message leaves the table only when its publisher succeeded under the very
\* lease the row carries: a completion that comes after the message was claimed
\* again removes nothing (DELETE ... WHERE owner AND receipt).
RemovedWhenPublished ==
  [][\A m \in Messages : table[m].state = "stored" /\ table'[m].state # "stored" =>
       table'[m].state = "deleted" /\ table[m].receipt \in published]_vars

\* Until some process's clock passes the lease of a batch, each delivery left in
\* it still has its row, under the receipt it was claimed with.
LeaseExclusion ==
  \A d \in Dispatchers :
    pc[d] \in {"deliver", "publish"} /\ (\A e \in Dispatchers : Clock(e) < until[d]) =>
      \A x \in batch[d] :
        table[x[1]].state = "stored" /\ table[x[1]].receipt = x

\* A message is claimed only when some clock has passed its availability (the
\* failure delay of its last release) and its last lease.
ClaimsAreDue ==
  [][\A m \in Messages : table'[m].attempt # table[m].attempt =>
       \E d \in Dispatchers : /\ table[m].availableAt <= Clock(d)
                              /\ table[m].lease # Null => table[m].lease <= Clock(d)]_vars

\* The publisher is called at most once under one receipt: every further call for
\* the message has another attempt counted in its row.
OncePerReceipt ==
  [][\A d \in Dispatchers : pc[d] # "publish" /\ pc'[d] = "publish" =>
       Head(d) \notin begun]_vars

\* What the outbox promises to the application: see OutboxPromise.
Promise == INSTANCE OutboxPromise
  WITH status <- [m \in Messages |-> table[m].state],
       delivered <- {x[1] : x \in published}

KeepsPromise == Promise!Spec

-------------------------------------------------------------------------------
(* Liveness *)

\* Once faults stop, every committed message is published and removed: no lost
\* reply, abandoned batch or stale lease keeps it back for good.
EventuallyDelivered ==
  \A m \in Messages : table[m].state = "stored" ~> table[m].state = "deleted"

-------------------------------------------------------------------------------
(* What the code asserts and the system does not do *)

\* validateDeliveries (spice/event/outbox/outbox.go:422) takes a claim whose rows
\* are not in the byte order of their IDs for an error of the store: the rows of
\* a claim are in that order.
ClaimsInOrder ==
  \A d \in Dispatchers : pc[d] = "claiming" => InOrder(chosen[d])
================================================================================
