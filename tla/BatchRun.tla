------------------------------- MODULE BatchRun -------------------------------
(***************************************************************************)
(* Runner.Run (spice/batch/batch.go) over the PostgreSQL batch store: the  *)
(* processes that run one job instance, the row that records its progress, *)
(* and the statements between them.                                        *)
(*                                                                         *)
(* A store call reads the process's clock, captures the arguments of its   *)
(* statement and sends it; the server executes it later, in one step.  The *)
(* client may get an error instead (connection lost, context cancelled);   *)
(* the statement it sent may then still be executed, once, at any later    *)
(* time, or never.                                                         *)
(*                                                                         *)
(* A cancelled context has an effect only where the code looks at it, and  *)
(* every place that sees it leaves the run; the choice is made there.      *)
(***************************************************************************)
EXTENDS BatchStatements

CONSTANTS
  Steps,        \* step IDs
  Runners,      \* processes that run the instance
  Job,          \* Job[r]: the ordered step IDs of the job version r deploys
  Lease,        \* SQLStoreOptions.AttemptLease
  Offset,       \* Offset[r]: how far r's clock is ahead of real time
  MaxTime,      \* bound: real time stops here
  FaultHorizon, \* bound: faults happen up to this time
  MaxFaults     \* bound: number of faults (crash, lost call, failed step)

ASSUME NullStepAssumption == Null \notin Steps
ASSUME LeaseAssumption == Lease \in Nat \ {0}
ASSUME OffsetAssumption == Offset \in [Runners -> Int]
ASSUME JobAssumption ==
  \A r \in Runners :
    /\ Job[r] \in Seq(Steps) \ {<<>>}
    /\ \A i, j \in 1..Len(Job[r]) : Job[r][i] = Job[r][j] => i = j

VARIABLES
  now,          \* real time
  row,          \* the stored instance
  late,         \* statements nobody waits for that may still be executed
  pc,           \* pc[r]: where Run is
  req,          \* req[r]: the statement r waits for
  attempt,      \* attempt[r]: number of the attempt r holds
  count,        \* count[r]: StepsSkipped + StepsCompleted of r's run
  held,         \* held[r]: lease expiry r was last granted
  result,       \* result[r]: how r's last run returned
  begun,        \* history: <<attempt, step>> whose callback was called
  ran,          \* history: <<attempt, step>> whose callback succeeded
  faults        \* faults so far

durable == <<row, late>>
local == <<pc, req, attempt, count, held, result>>
history == <<begun, ran>>
vars == <<now, row, late, pc, req, attempt, count, held, result, begun, ran, faults>>

-------------------------------------------------------------------------------

Clock(r) == now + Offset[r]

\* The run's next step, and the step a failure is recorded for: the next one,
\* or the last when only Complete was left.
NextStep(r) == Job[r][count[r] + 1]
FailureStep(r) == IF count[r] < Len(Job[r]) THEN NextStep(r) ELSE Job[r][Len(Job[r])]

Fault == now <= FaultHorizon /\ faults < MaxFaults /\ faults' = faults + 1

IsPrefix(s, t) == Len(s) <= Len(t) /\ \A i \in 1..Len(s) : s[i] = t[i]

Return(r, how) == /\ pc' = [pc EXCEPT ![r] = "idle"]
                  /\ req' = [req EXCEPT ![r] = Null]
                  /\ result' = [result EXCEPT ![r] = how]

Send(r, state, q) == /\ pc' = [pc EXCEPT ![r] = state]
                     /\ req' = [req EXCEPT ![r] = q]

Goto(r, state) == Send(r, state, Null)

Init ==
  /\ now = 0 /\ row = Absent /\ late = {} /\ faults = 0
  /\ pc = [r \in Runners |-> "idle"]
  /\ req = [r \in Runners |-> Null]
  /\ attempt = [r \in Runners |-> 0]
  /\ count = [r \in Runners |-> 0]
  /\ held = [r \in Runners |-> 0]
  /\ result = [r \in Runners |-> "none"]
  /\ begun = {} /\ ran = {}

-------------------------------------------------------------------------------
(* Begin *)

Begin(r) ==
  /\ pc[r] = "idle"
  /\ Send(r, "begin", BeginRequest(Job[r], Clock(r), Clock(r) + Lease))
  /\ result' = [result EXCEPT ![r] = "none"]
  /\ UNCHANGED <<now, row, late, attempt, count, held, begun, ran, faults>>

\* sqlAttempt and validateAttempt accept a started or resumed attempt.
BeginGranted(r) ==
  /\ pc[r] = "begin"
  /\ BeginOutcome(row, req[r]) \in {"started", "resumed"}
  /\ row' = AfterBegin(row, req[r])
  /\ attempt' = [attempt EXCEPT ![r] = row'.attempt]
  /\ count' = [count EXCEPT ![r] = Len(row'.done)]
  /\ held' = [held EXCEPT ![r] = req[r].lease]
  /\ IF IsPrefix(row'.done, Job[r]) THEN Goto(r, "loop") /\ UNCHANGED result
                                    ELSE Return(r, "refused")
  /\ UNCHANGED <<now, late, begun, ran, faults>>

\* An instance already complete is a successful run without steps.
BeginComplete(r) ==
  /\ pc[r] = "begin"
  /\ BeginOutcome(row, req[r]) = "complete"
  /\ row' = AfterBegin(row, req[r])
  /\ Return(r, IF row.done = Job[r] THEN "success" ELSE "refused")
  /\ UNCHANGED <<now, late, attempt, count, held, begun, ran, faults>>

\* ErrAlreadyRunning, ErrDefinitionChanged or attempt overflow.
BeginRefused(r) ==
  /\ pc[r] = "begin"
  /\ BeginOutcome(row, req[r]) \in {"running", "changed", "overflow"}
  /\ row' = AfterBegin(row, req[r])
  /\ Return(r, "refused")
  /\ UNCHANGED <<now, late, attempt, count, held, begun, ran, faults>>

-------------------------------------------------------------------------------
(* The step loop *)

StepStart(r) ==
  /\ pc[r] = "loop" /\ count[r] < Len(Job[r])
  /\ begun' = begun \cup {<<attempt[r], NextStep(r)>>}
  /\ Goto(r, "step")
  /\ UNCHANGED <<now, durable, attempt, count, held, result, ran, faults>>

\* A callback that returns nil; Checkpoint is called with the run's context.
StepSucceeds(r) ==
  /\ pc[r] = "step"
  /\ ran' = ran \cup {<<attempt[r], NextStep(r)>>}
  /\ Send(r, "checkpoint",
          CheckpointRequest(attempt[r], NextStep(r), Clock(r) + Lease))
  /\ UNCHANGED <<now, durable, attempt, count, held, result, begun, faults>>

\* Mutant: a failed callback is checkpointed like one that succeeded.
StepFailsUnnoticed(r) ==
  /\ pc[r] = "step"
  /\ Fault
  /\ Send(r, "checkpoint",
          CheckpointRequest(attempt[r], NextStep(r), Clock(r) + Lease))
  /\ UNCHANGED <<now, durable, attempt, count, held, result, history>>

\* A callback that returns an error or panics.
StepFails(r) ==
  /\ pc[r] = "step"
  /\ Fault
  /\ Goto(r, "failing")
  /\ UNCHANGED <<now, durable, attempt, count, held, result, history>>

\* The loop, or the context check of Checkpoint or Complete, sees a cancelled
\* context.  Checkpoint is checked after its callback succeeded.
Cancelled(r) ==
  /\ pc[r] \in {"loop", "step"}
  /\ Fault
  /\ ran' = IF pc[r] = "step" THEN ran \cup {<<attempt[r], NextStep(r)>>} ELSE ran
  /\ Goto(r, "failing")
  /\ UNCHANGED <<now, durable, attempt, count, held, result, begun>>

\* Mutant: the run goes on whether or not the checkpoint was stored.
CheckpointUnchecked(r) ==
  /\ pc[r] = "checkpoint"
  /\ row' = Execute(row, req[r])
  /\ count' = [count EXCEPT ![r] = @ + 1]
  /\ held' = [held EXCEPT ![r] = req[r].lease]
  /\ Goto(r, "loop")
  /\ UNCHANGED <<now, late, attempt, result, history, faults>>

Checkpointed(r) ==
  /\ pc[r] = "checkpoint"
  /\ row' = Execute(row, req[r])
  /\ IF Matches(row, req[r])
     THEN /\ count' = [count EXCEPT ![r] = @ + 1]
          /\ held' = [held EXCEPT ![r] = req[r].lease]
          /\ Goto(r, "loop")
     ELSE /\ Goto(r, "failing")
          /\ UNCHANGED <<count, held>>
  /\ UNCHANGED <<now, late, attempt, result, history, faults>>

Complete(r) ==
  /\ pc[r] = "loop" /\ count[r] = Len(Job[r])
  /\ Send(r, "complete", CompleteRequest(attempt[r]))
  /\ UNCHANGED <<now, durable, attempt, count, held, result, history, faults>>

\* Mutant: the run succeeds whether or not the completion was stored.
CompletionUnchecked(r) ==
  /\ pc[r] = "complete"
  /\ row' = Execute(row, req[r])
  /\ Return(r, "success")
  /\ UNCHANGED <<now, late, attempt, count, held, history, faults>>

Completed(r) ==
  /\ pc[r] = "complete"
  /\ row' = Execute(row, req[r])
  /\ IF Matches(row, req[r])
     THEN Return(r, "success")
     ELSE Goto(r, "failing") /\ UNCHANGED result
  /\ UNCHANGED <<now, late, attempt, count, held, history, faults>>

-------------------------------------------------------------------------------
(* Runner.fail: the failure is recorded under a context of its own *)

Fail(r) ==
  /\ pc[r] = "failing"
  /\ Send(r, "fail", FailRequest(attempt[r], FailureStep(r)))
  /\ UNCHANGED <<now, durable, attempt, count, held, result, history, faults>>

\* failureContext returned nothing usable: no statement is sent.
FailUnrecorded(r) ==
  /\ pc[r] = "failing"
  /\ Fault
  /\ Return(r, "unrecorded")
  /\ UNCHANGED <<now, durable, attempt, count, held, history>>

Failed(r) ==
  /\ pc[r] = "fail"
  /\ row' = Execute(row, req[r])
  /\ Return(r, IF Matches(row, req[r]) THEN "failed" ELSE "stale")
  /\ UNCHANGED <<now, late, attempt, count, held, history, faults>>

-------------------------------------------------------------------------------
(* Faults and time *)

\* The statement a caller stops waiting for: dropped, or executed later.
Detach(r) == late' \in {late, late \cup ({req[r]} \ {Null})}

\* A store call returns an error that says nothing of its effect.
Lose(r) ==
  /\ req[r] # Null
  /\ Fault
  /\ Detach(r)
  /\ IF pc[r] \in {"checkpoint", "complete"}
     THEN Goto(r, "failing") /\ UNCHANGED result
     ELSE Return(r, "unrecorded")
  /\ UNCHANGED <<now, row, attempt, count, held, history>>

\* The process dies; whoever restarts it calls Run again.
Crash(r) ==
  /\ pc[r] # "idle"
  /\ Fault
  /\ Detach(r)
  /\ Return(r, "none")
  /\ UNCHANGED <<now, row, attempt, count, held, history>>

ExecuteLate(q) ==
  /\ row' = Execute(row, q)
  /\ late' = late \ {q}
  /\ UNCHANGED <<now, local, history, faults>>

Tick ==
  /\ now < MaxTime
  /\ now' = now + 1
  /\ UNCHANGED <<durable, local, history, faults>>

-------------------------------------------------------------------------------

Step(r) ==
  \/ BeginGranted(r) \/ BeginComplete(r) \/ BeginRefused(r)
  \/ StepStart(r) \/ StepSucceeds(r) \/ Checkpointed(r)
  \/ Complete(r) \/ Completed(r)
  \/ Fail(r) \/ Failed(r)

Disturb(r) ==
  StepFails(r) \/ Cancelled(r) \/ FailUnrecorded(r) \/ Lose(r) \/ Crash(r)

Next ==
  \/ \E r \in Runners : Begin(r) \/ Step(r) \/ Disturb(r)
  \/ \E q \in late : ExecuteLate(q)
  \/ Tick

Spec == Init /\ [][Next]_vars

\* A process that has called Run goes on with it, time passes, and the
\* application calls Run again on an instance that is not complete.
Fairness ==
  /\ \A r \in Runners : WF_vars(Step(r)) /\ WF_vars(Begin(r))
  /\ WF_vars(Tick)

FairSpec == Spec /\ Fairness

-------------------------------------------------------------------------------
(* Types *)

Rows == [state : {"absent", "running", "failed", "complete"},
         steps : Seq(Steps), attempt : 0..MaxAttempt, done : Seq(Steps),
         lease : Int \cup {Null}, failure : Steps \cup {Null}]

BeginRequests == [op : {"begin"}, steps : Seq(Steps), now : Int, lease : Int]
CheckpointRequests ==
  [op : {"checkpoint"}, attempt : 0..MaxAttempt, step : Steps, lease : Int]
CompleteRequests == [op : {"complete"}, attempt : 0..MaxAttempt]
FailRequests == [op : {"fail"}, attempt : 0..MaxAttempt, step : Steps]
Requests == BeginRequests \cup CheckpointRequests \cup CompleteRequests
              \cup FailRequests

\* Every variable stays within its type; a statement is in flight exactly while
\* its caller waits for it, and it is the statement of that call; a run that is
\* in a step is in one of its job.
TypeOK ==
  /\ now \in Nat /\ faults \in Nat
  /\ row \in Rows
  /\ late \subseteq Requests
  /\ pc \in [Runners -> {"idle", "begin", "loop", "step", "checkpoint",
                         "complete", "failing", "fail"}]
  /\ req \in [Runners -> Requests \cup {Null}]
  /\ \A r \in Runners :
       IF pc[r] \in {"begin", "checkpoint", "complete", "fail"}
       THEN req[r] \in Requests /\ req[r].op = pc[r]
       ELSE req[r] = Null
  /\ attempt \in [Runners -> 0..MaxAttempt]
  /\ count \in [Runners -> Nat]
  /\ \A r \in Runners : pc[r] \in {"step", "checkpoint"} => count[r] < Len(Job[r])
  /\ held \in [Runners -> Int]
  /\ result \in [Runners -> {"none", "success", "refused", "failed", "stale",
                             "unrecorded"}]
  /\ begun \subseteq (0..MaxAttempt) \X Steps
  /\ ran \subseteq (0..MaxAttempt) \X Steps

-------------------------------------------------------------------------------
(* Safety *)

\* No statement, in whatever order statements reach the row, leaves a row that
\* a CHECK constraint of the table would reject (BatchSchemaSQL): the store is
\* never refused an update it counts on.
SchemaHolds == row.state # "absent" => SchemaChecks(row)

\* completed_steps is a prefix of the definition and names no step that did not
\* succeed: every recorded step's callback returned nil under some attempt the
\* row has known (the Checkpoint guard on steps ->> length, Run's order).
RecordedStepsRan ==
  /\ IsPrefix(row.done, row.steps)
  /\ \A i \in 1..Len(row.done) :
       \E a \in 1..row.attempt : <<a, row.done[i]>> \in ran

\* A callback is only called when every earlier step of the definition is
\* durable, even by a run that has lost its lease (Run resumes after the prefix
\* Begin returned and checkpoints each step before the next).
NoStepSkipped ==
  \A r \in Runners : pc[r] = "step" =>
    /\ row.steps = Job[r]
    /\ count[r] <= Len(row.done)

\* "AttemptLease is the maximum time an attempt remains exclusively active
\* without a checkpoint": until some process's clock passes the lease a run was
\* last granted, the row is that run's, with exactly its progress.
LeaseExclusion ==
  \A r \in Runners :
    pc[r] \in {"loop", "step", "checkpoint", "complete"}
    /\ (\A s \in Runners : Clock(s) < held[r])
    => /\ row.state = "running" /\ row.attempt = attempt[r]
       /\ Len(row.done) = count[r]

\* Run returns without an error only when the instance is durably complete,
\* under the caller's own definition, and it stays so.
SuccessIsDurable ==
  \A r \in Runners : result[r] = "success" =>
    row.state = "complete" /\ row.steps = Job[r] /\ row.done = Job[r]

\* A callback is called at most once under one attempt number: a step runs again
\* only after Begin has counted a new attempt, whatever the lost replies,
\* takeovers and late statements in between.
OncePerAttempt ==
  [][\A r \in Runners : pc[r] # "step" /\ pc'[r] = "step" =>
       <<attempt[r], NextStep(r)>> \notin begun]_vars

\* What the instance promises to the application: see BatchPromise.
Promise == INSTANCE BatchPromise
  WITH Definitions <- {Job[r] : r \in Runners},
       definition <- row.steps,
       recorded <- row.done,
       finished <- (row.state = "complete"),
       succeeded <- {p[2] : p \in ran}

KeepsPromise == Promise!Spec

-------------------------------------------------------------------------------
(* Liveness *)

\* Once faults stop and every lease left behind can expire, the instance is
\* completed: no lost reply, orphaned attempt or late statement blocks it for
\* good.
EventuallyComplete == <>[](row.state = "complete")

-------------------------------------------------------------------------------
(* What the documentation says and the code does not do *)

\* "ErrStaleAttempt identifies a transition for an inactive or old attempt"
\* (spice/batch/batch.go:25): a Fail is refused as stale only when the attempt
\* is not the row's or the row is not running.
StaleMeansInactive ==
  [][\A r \in Runners : pc[r] = "fail" /\ result'[r] = "stale" =>
       ~Active(row, req[r])]_vars
================================================================================
