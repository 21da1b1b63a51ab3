---------------------------- MODULE BatchRunProofs ----------------------------
(***************************************************************************)
(* Proofs about BatchRun, for every set of processes, every definition,    *)
(* lease, clock offset and bound.                                          *)
(***************************************************************************)
EXTENDS BatchInvariant, SequenceTheorems, TLAPS

-------------------------------------------------------------------------------
(* What executing one statement can do to the row *)

Unchanged(old, new) == new = old

Started(old, q, new) ==
  /\ old.state = "absent" /\ q.op = "begin"
  /\ new = [state |-> "running", steps |-> q.steps, attempt |-> 1,
            done |-> <<>>, lease |-> q.lease, failure |-> Null]

Resumed(old, q, new) ==
  /\ old.state \in {"running", "failed"} /\ q.op = "begin"
  /\ old.steps = q.steps
  /\ old.state = "running" => ~(old.lease > q.now)
  /\ old.attempt < MaxAttempt
  /\ new = [state |-> "running", steps |-> old.steps, attempt |-> old.attempt + 1,
            done |-> old.done, lease |-> q.lease, failure |-> Null]

Recorded(old, q, new) ==
  /\ old.state = "running" /\ q.op = "checkpoint" /\ old.attempt = q.attempt
  /\ Len(old.done) < Len(old.steps) /\ old.steps[Len(old.done) + 1] = q.step
  /\ new = [state |-> "running", steps |-> old.steps, attempt |-> old.attempt,
            done |-> Append(old.done, q.step), lease |-> q.lease,
            failure |-> old.failure]

Finished(old, q, new) ==
  /\ old.state = "running" /\ q.op = "complete" /\ old.attempt = q.attempt
  /\ Len(old.done) = Len(old.steps)
  /\ new = [state |-> "complete", steps |-> old.steps, attempt |-> old.attempt,
            done |-> old.done, lease |-> Null, failure |-> Null]

GaveUp(old, q, new) ==
  /\ old.state = "running" /\ q.op = "fail" /\ old.attempt = q.attempt
  /\ new = [state |-> "failed", steps |-> old.steps, attempt |-> old.attempt,
            done |-> old.done, lease |-> Null, failure |-> q.step]

\* Executing a statement leaves the row alone or does one of five things.
LEMMA ExecuteCases ==
  ASSUME NEW old \in Rows, NEW q \in Requests
  PROVE  LET new == Execute(old, q) IN
           \/ Unchanged(old, new) \/ Started(old, q, new) \/ Resumed(old, q, new)
           \/ Recorded(old, q, new) \/ Finished(old, q, new) \/ GaveUp(old, q, new)
<1> USE DEF Rows
<1>1. CASE q \in BeginRequests
  <2>1. q.op = "begin"
    BY <1>1 DEF BeginRequests
  <2>2. Execute(old, q) = AfterBegin(old, q)
    BY <2>1 DEF Execute
  <2>3. CASE old.state = "absent"
    BY <2>1, <2>2, <2>3 DEF AfterBegin, FirstRow, Started
  <2>4. CASE old.state # "absent" /\ Resumable(old, q)
    <3>1. AfterBegin(old, q) =
            [state |-> "running", steps |-> old.steps, attempt |-> old.attempt + 1,
             done |-> old.done, lease |-> q.lease, failure |-> Null]
      BY <2>4 DEF AfterBegin, FirstRow
    <3>2. old.state \in {"running", "failed"}
      BY <2>4 DEF Resumable
    <3> QED
      BY <2>1, <2>2, <2>4, <3>1, <3>2 DEF Resumable, LeaseLive, Resumed
  <2>5. CASE old.state # "absent" /\ ~Resumable(old, q)
    BY <2>2, <2>5 DEF AfterBegin, FirstRow, Unchanged
  <2> QED
    BY <2>3, <2>4, <2>5
<1>2. CASE q \in CheckpointRequests
  BY <1>2 DEF CheckpointRequests, Execute, Matches, Active, Update, Recorded, Unchanged
<1>3. CASE q \in CompleteRequests
  BY <1>3 DEF CompleteRequests, Execute, Matches, Active, Update, Finished, Unchanged
<1>4. CASE q \in FailRequests
  BY <1>4 DEF FailRequests, Execute, Matches, Active, Update, GaveUp, Unchanged
<1> QED
  BY <1>1, <1>2, <1>3, <1>4 DEF Requests

\* The row keeps its type, whatever is executed.
LEMMA ExecuteType ==
  ASSUME NEW old \in Rows, NEW q \in Requests
  PROVE  Execute(old, q) \in Rows
<1> DEFINE new == Execute(old, q)
<1>1. 1 \in 0..MaxAttempt
  BY MaxAttemptAssumption
<1>2. CASE Unchanged(old, new)
  BY <1>2 DEF Unchanged
<1>3. CASE Started(old, q, new)
  <2>1. q \in BeginRequests
    BY <1>3 DEF Started, Requests, CheckpointRequests, CompleteRequests, FailRequests
  <2> QED
    BY <1>1, <1>3, <2>1 DEF Started, Rows, BeginRequests
<1>4. CASE Resumed(old, q, new)
  <2>1. q \in BeginRequests
    BY <1>4 DEF Resumed, Requests, CheckpointRequests, CompleteRequests, FailRequests
  <2> QED
    BY <1>4, <2>1, MaxAttemptAssumption DEF Resumed, Rows, BeginRequests
<1>5. CASE Recorded(old, q, new)
  <2>1. q \in CheckpointRequests
    BY <1>5 DEF Recorded, Requests, BeginRequests, CompleteRequests, FailRequests
  <2> QED
    BY <1>5, <2>1 DEF Recorded, Rows, CheckpointRequests
<1>6. CASE Finished(old, q, new)
  BY <1>6 DEF Finished, Rows
<1>7. CASE GaveUp(old, q, new)
  <2>1. q \in FailRequests
    BY <1>7 DEF GaveUp, Requests, BeginRequests, CheckpointRequests, CompleteRequests
  <2> QED
    BY <1>7, <2>1 DEF GaveUp, Rows, FailRequests
<1> QED
  BY <1>2, <1>3, <1>4, <1>5, <1>6, <1>7, ExecuteCases

\* A Begin is executed by AfterBegin, whatever the caller makes of its outcome.
LEMMA BeginExecutes ==
  ASSUME NEW old, NEW q, q.op = "begin"
  PROVE  AfterBegin(old, q) = Execute(old, q)
BY DEF Execute

-------------------------------------------------------------------------------
(* Type correctness *)

LEMMA InitType == Init => TypeOK
<1> SUFFICES ASSUME Init PROVE TypeOK
  OBVIOUS
<1>1. row \in Rows
  BY MaxAttemptAssumption DEF Init, Absent, Rows
<1> QED
  BY <1>1, MaxAttemptAssumption DEF Init, TypeOK

LEMMA NextType == TypeOK /\ [Next]_vars => TypeOK'
<1> SUFFICES ASSUME TypeOK, [Next]_vars PROVE TypeOK'
  OBVIOUS
<1> USE DEF TypeOK
<1>j. \A r \in Runners : /\ Job[r] \in Seq(Steps)
                         /\ Len(Job[r]) \in Nat \ {0}
                         /\ \A i \in 1..Len(Job[r]) : Job[r][i] \in Steps
  BY JobAssumption
<1>c. \A r \in Runners : Clock(r) \in Int /\ Clock(r) + Lease \in Int
  BY OffsetAssumption, LeaseAssumption DEF Clock
<1>d. ASSUME NEW r \in Runners, Detach(r) PROVE late' \subseteq Requests
  BY <1>d DEF Detach
<1>b. ASSUME NEW r \in Runners, pc[r] = "begin"
      PROVE  req[r] \in BeginRequests /\ AfterBegin(row, req[r]) \in Rows
  <2>1. req[r] \in Requests /\ req[r].op = "begin"
    BY <1>b
  <2>2. AfterBegin(row, req[r]) = Execute(row, req[r])
    BY <2>1, BeginExecutes
  <2>3. Execute(row, req[r]) \in Rows
    BY <2>1, ExecuteType
  <2>4. req[r] \in BeginRequests
    BY <2>1 DEF Requests, CheckpointRequests, CompleteRequests, FailRequests
  <2> QED
    BY <2>2, <2>3, <2>4
<1>1. ASSUME NEW r \in Runners, Begin(r) PROVE TypeOK'
  <2>1. BeginRequest(Job[r], Clock(r), Clock(r) + Lease) \in BeginRequests
    BY <1>j, <1>c DEF BeginRequest, BeginRequests
  <2>2. req'[r] \in Requests /\ req'[r].op = "begin"
    BY <1>1, <2>1 DEF Begin, Send, Requests, BeginRequests
  <2> QED
    BY <1>1, <2>2 DEF Begin, Send
<1>2. ASSUME NEW r \in Runners, BeginGranted(r) PROVE TypeOK'
  <2>1. row' \in Rows
    BY <1>2, <1>b DEF BeginGranted
  <2>2. row'.attempt \in 0..MaxAttempt /\ Len(row'.done) \in Nat
    BY <2>1 DEF Rows
  <2>3. req[r] \in BeginRequests
    BY <1>2, <1>b DEF BeginGranted
  <2>4. req[r].lease \in Int
    BY <2>3 DEF BeginRequests
  <2> QED
    BY <1>2, <2>1, <2>2, <2>4 DEF BeginGranted, Goto, Send, Return
<1>3. ASSUME NEW r \in Runners, BeginComplete(r) PROVE TypeOK'
  <2>1. row' \in Rows
    BY <1>3, <1>b DEF BeginComplete
  <2> QED
    BY <1>3, <2>1 DEF BeginComplete, Return
<1>4. ASSUME NEW r \in Runners, BeginRefused(r) PROVE TypeOK'
  <2>1. row' \in Rows
    BY <1>4, <1>b DEF BeginRefused
  <2> QED
    BY <1>4, <2>1 DEF BeginRefused, Return
<1>5. ASSUME NEW r \in Runners, StepStart(r) PROVE TypeOK'
  <2>1. NextStep(r) \in Steps
    BY <1>5, <1>j DEF StepStart, NextStep
  <2>2. begun' \subseteq (0..MaxAttempt) \X Steps
    BY <1>5, <2>1 DEF StepStart
  <2> QED
    BY <1>5, <2>2 DEF StepStart, Goto, Send, durable
<1>n. ASSUME NEW r \in Runners, pc[r] = "step" PROVE NextStep(r) \in Steps
  BY <1>n, <1>j DEF NextStep
<1>6. ASSUME NEW r \in Runners, StepSucceeds(r) PROVE TypeOK'
  <2>1. NextStep(r) \in Steps
    BY <1>6, <1>n DEF StepSucceeds
  <2>2. ran' \subseteq (0..MaxAttempt) \X Steps
    BY <1>6, <2>1 DEF StepSucceeds
  <2>3. CheckpointRequest(attempt[r], NextStep(r), Clock(r) + Lease)
          \in CheckpointRequests
    BY <1>c, <2>1 DEF CheckpointRequest, CheckpointRequests
  <2>4. req'[r] \in Requests /\ req'[r].op = "checkpoint"
    BY <1>6, <2>3 DEF StepSucceeds, Send, Requests, CheckpointRequests
  <2> QED
    BY <1>6, <2>2, <2>4 DEF StepSucceeds, Send, durable
<1>7. ASSUME NEW r \in Runners, StepFails(r) PROVE TypeOK'
  BY <1>7 DEF StepFails, Fault, Goto, Send, durable, history
<1>8. ASSUME NEW r \in Runners, Cancelled(r) PROVE TypeOK'
  <2>1. ran' \subseteq (0..MaxAttempt) \X Steps
    BY <1>8, <1>n DEF Cancelled
  <2> QED
    BY <1>8, <2>1 DEF Cancelled, Fault, Goto, Send, durable
<1>9. ASSUME NEW r \in Runners, Checkpointed(r) PROVE TypeOK'
  <2>1. row' \in Rows
    BY <1>9, ExecuteType DEF Checkpointed
  <2>2. req[r] \in CheckpointRequests
    BY <1>9 DEF Checkpointed, Requests, BeginRequests, CompleteRequests, FailRequests
  <2>3. req[r].lease \in Int
    BY <2>2 DEF CheckpointRequests
  <2>4. CASE Matches(row, req[r])
    <3>1. /\ count' = [count EXCEPT ![r] = @ + 1]
          /\ held' = [held EXCEPT ![r] = req[r].lease]
          /\ pc' = [pc EXCEPT ![r] = "loop"] /\ req' = [req EXCEPT ![r] = Null]
          /\ UNCHANGED <<now, late, attempt, result, begun, ran, faults>>
      BY <1>9, <2>4 DEF Checkpointed, Goto, Send, history
    <3>2. count[r] + 1 \in Nat
      OBVIOUS
    <3> QED
      BY <2>1, <2>3, <3>1, <3>2
  <2>5. CASE ~Matches(row, req[r])
    BY <1>9, <2>1, <2>5 DEF Checkpointed, Goto, Send, history
  <2> QED
    BY <2>4, <2>5
<1>10. ASSUME NEW r \in Runners, Complete(r) PROVE TypeOK'
  <2>1. CompleteRequest(attempt[r]) \in CompleteRequests
    BY DEF CompleteRequest, CompleteRequests
  <2>2. req'[r] \in Requests /\ req'[r].op = "complete"
    BY <1>10, <2>1 DEF Complete, Send, Requests, CompleteRequests
  <2> QED
    BY <1>10, <2>2 DEF Complete, Send, durable, history
<1>11. ASSUME NEW r \in Runners, Completed(r) PROVE TypeOK'
  <2>1. row' \in Rows
    BY <1>11, ExecuteType DEF Completed
  <2> QED
    BY <1>11, <2>1 DEF Completed, Goto, Send, Return, history
<1>12. ASSUME NEW r \in Runners, Fail(r) PROVE TypeOK'
  <2>1. FailureStep(r) \in Steps
    BY <1>j DEF FailureStep, NextStep
  <2>2. FailRequest(attempt[r], FailureStep(r)) \in FailRequests
    BY <2>1 DEF FailRequest, FailRequests
  <2>3. req'[r] \in Requests /\ req'[r].op = "fail"
    BY <1>12, <2>2 DEF Fail, Send, Requests, FailRequests
  <2> QED
    BY <1>12, <2>3 DEF Fail, Send, durable, history
<1>13. ASSUME NEW r \in Runners, FailUnrecorded(r) PROVE TypeOK'
  BY <1>13 DEF FailUnrecorded, Fault, Return, durable, history
<1>14. ASSUME NEW r \in Runners, Failed(r) PROVE TypeOK'
  <2>1. row' \in Rows
    BY <1>14, ExecuteType DEF Failed
  <2> QED
    BY <1>14, <2>1 DEF Failed, Return, history
<1>15. ASSUME NEW r \in Runners, Lose(r) PROVE TypeOK'
  <2>0. late' \subseteq Requests
    BY <1>15, <1>d DEF Lose
  <2>1. CASE pc[r] \in {"checkpoint", "complete"}
    <3>1. /\ pc' = [pc EXCEPT ![r] = "failing"] /\ req' = [req EXCEPT ![r] = Null]
          /\ UNCHANGED <<now, row, attempt, count, held, result, begun, ran>>
          /\ faults' = faults + 1
      BY <1>15, <2>1 DEF Lose, Fault, Goto, Send, history
    <3> QED
      BY <2>0, <3>1
  <2>2. CASE pc[r] \notin {"checkpoint", "complete"}
    <3>1. /\ pc' = [pc EXCEPT ![r] = "idle"] /\ req' = [req EXCEPT ![r] = Null]
          /\ result' = [result EXCEPT ![r] = "unrecorded"]
          /\ UNCHANGED <<now, row, attempt, count, held, begun, ran>>
          /\ faults' = faults + 1
      BY <1>15, <2>2 DEF Lose, Fault, Return, history
    <3> QED
      BY <2>0, <3>1
  <2> QED
    BY <2>1, <2>2
<1>16. ASSUME NEW r \in Runners, Crash(r) PROVE TypeOK'
  BY <1>16, <1>d DEF Crash, Fault, Return, history
<1>17. ASSUME NEW q \in late, ExecuteLate(q) PROVE TypeOK'
  <2>1. row' \in Rows
    BY <1>17, ExecuteType DEF ExecuteLate
  <2> QED
    BY <1>17, <2>1 DEF ExecuteLate, local, history
<1>18. CASE Tick
  BY <1>18 DEF Tick, durable, local, history
<1>19. CASE UNCHANGED vars
  BY <1>19 DEF vars
<1> QED
  BY <1>1, <1>2, <1>3, <1>4, <1>5, <1>6, <1>7, <1>8, <1>9, <1>10, <1>11, <1>12,
     <1>13, <1>14, <1>15, <1>16, <1>17, <1>18, <1>19 DEF Next, Step, Disturb

\* Every variable of the runs, the row and the late statements stays within its
\* type, and each call waits for its own statement.
THEOREM TypeCorrect == Spec => []TypeOK
<1> QED
  BY InitType, NextType, PTL DEF Spec

-------------------------------------------------------------------------------
(* What the row, the history and the clocks do in any step *)

\* A Begin whose outcome refuses or reports completion leaves the row alone; one
\* that is granted starts or resumes the instance.
LEMMA BeginOutcomes ==
  ASSUME NEW old \in Rows, NEW q \in Requests, q.op = "begin",
         old.state # "absent" => Len(old.done) <= Len(old.steps)
  PROVE  /\ BeginOutcome(old, q) \in {"complete", "running", "changed", "overflow"}
              => AfterBegin(old, q) = old
         /\ BeginOutcome(old, q) \in {"started", "resumed"}
              => \/ Started(old, q, AfterBegin(old, q))
                 \/ Resumed(old, q, AfterBegin(old, q))
<1>1. ASSUME BeginOutcome(old, q) \in {"complete", "running", "changed", "overflow"}
      PROVE  AfterBegin(old, q) = old
  <2>1. old.state # "absent"
    BY <1>1 DEF BeginOutcome
  <2>2. ~Resumable(old, q)
    <3>1. CASE BeginOutcome(old, q) = "changed"
      BY <2>1, <3>1 DEF BeginOutcome, Resumable
    <3>2. CASE BeginOutcome(old, q) = "complete"
      BY <2>1, <3>2 DEF BeginOutcome, Resumable
    <3>3. CASE BeginOutcome(old, q) = "running"
      BY <2>1, <3>3 DEF BeginOutcome, Resumable
    <3>4. CASE BeginOutcome(old, q) = "overflow"
      BY <2>1, <3>4, MaxAttemptAssumption DEF BeginOutcome, Resumable
    <3> QED
      BY <1>1, <3>1, <3>2, <3>3, <3>4
  <2> QED
    BY <2>1, <2>2 DEF AfterBegin, FirstRow
<1>2. ASSUME BeginOutcome(old, q) = "started"
      PROVE  Started(old, q, AfterBegin(old, q))
  BY <1>2 DEF BeginOutcome, AfterBegin, FirstRow, Started
<1>3. ASSUME BeginOutcome(old, q) = "resumed"
      PROVE  Resumed(old, q, AfterBegin(old, q))
  <2>1. /\ old.state # "absent" /\ old.state # "complete"
        /\ old.steps = q.steps /\ ~LeaseLive(old, q.now) /\ old.attempt # MaxAttempt
    BY <1>3 DEF BeginOutcome
  <2>2. old.attempt < MaxAttempt
    BY <2>1, MaxAttemptAssumption DEF Rows
  <2>3. Resumable(old, q)
    BY <2>1, <2>2 DEF Resumable
  <2>4. AfterBegin(old, q) =
          [state |-> "running", steps |-> old.steps, attempt |-> old.attempt + 1,
           done |-> old.done, lease |-> q.lease, failure |-> Null]
    BY <2>1, <2>3 DEF AfterBegin, FirstRow, Rows
  <2> QED
    BY <2>1, <2>2, <2>4 DEF Resumed, LeaseLive, Rows
<1> QED
  BY <1>1, <1>2, <1>3

\* An UPDATE does what its statement says when its WHERE clause matches, and
\* nothing otherwise.
LEMMA UpdateOutcomes ==
  ASSUME NEW old \in Rows, NEW q \in Requests, q.op # "begin"
  PROVE  /\ ~Matches(old, q) => Execute(old, q) = old
         /\ Matches(old, q) =>
              \/ Recorded(old, q, Execute(old, q))
              \/ Finished(old, q, Execute(old, q))
              \/ GaveUp(old, q, Execute(old, q))
<1>1. ~Matches(old, q) => Execute(old, q) = old
  BY DEF Execute
<1>2. ASSUME Matches(old, q)
      PROVE  \/ Recorded(old, q, Execute(old, q))
             \/ Finished(old, q, Execute(old, q))
             \/ GaveUp(old, q, Execute(old, q))
  <2> USE <1>2 DEF Rows
  <2>1. CASE q \in CheckpointRequests
    BY <2>1 DEF CheckpointRequests, Execute, Matches, Active, Update, Recorded
  <2>2. CASE q \in CompleteRequests
    BY <2>2 DEF CompleteRequests, Execute, Matches, Active, Update, Finished
  <2>3. CASE q \in FailRequests
    BY <2>3 DEF FailRequests, Execute, Matches, Active, Update, GaveUp
  <2> QED
    BY <2>1, <2>2, <2>3 DEF Requests, BeginRequests
<1> QED
  BY <1>1, <1>2

\* The statement a step executes, if any, is one somebody sent.
Sent(q) == q \in late \/ \E r \in Runners : pc[r] = q.op /\ q = req[r]

LEMMA RowSteps ==
  ASSUME TypeOK, [Next]_vars
  PROVE  \/ row' = row
         \/ \E q \in Requests : Sent(q) /\ row' = Execute(row, q)
<1>w. ASSUME NEW r \in Runners, pc[r] \in {"begin", "checkpoint", "complete", "fail"}
      PROVE  req[r] \in Requests /\ Sent(req[r]) /\ req[r].op = pc[r]
  BY <1>w DEF TypeOK, Sent
<1>1. ASSUME NEW r \in Runners, Begin(r) PROVE row' = row
  BY <1>1 DEF Begin
<1>2. ASSUME NEW r \in Runners, BeginGranted(r) \/ BeginComplete(r) \/ BeginRefused(r)
      PROVE  \E q \in Requests : Sent(q) /\ row' = Execute(row, q)
  <2>1. pc[r] = "begin" /\ row' = AfterBegin(row, req[r])
    BY <1>2 DEF BeginGranted, BeginComplete, BeginRefused
  <2>2. AfterBegin(row, req[r]) = Execute(row, req[r])
    BY <1>w, <2>1, BeginExecutes
  <2> QED
    BY <1>w, <2>1, <2>2
<1>3. ASSUME NEW r \in Runners, Checkpointed(r) \/ Completed(r) \/ Failed(r)
      PROVE  \E q \in Requests : Sent(q) /\ row' = Execute(row, q)
  <2>1. /\ pc[r] \in {"checkpoint", "complete", "fail"}
        /\ row' = Execute(row, req[r])
    BY <1>3 DEF Checkpointed, Completed, Failed
  <2> QED
    BY <1>w, <2>1
<1>4. ASSUME NEW r \in Runners,
             StepStart(r) \/ StepSucceeds(r) \/ Complete(r) \/ Fail(r) \/ Disturb(r)
      PROVE  row' = row
  BY <1>4 DEF StepStart, StepSucceeds, Complete, Fail, Disturb, StepFails, Cancelled,
              FailUnrecorded, Lose, Crash, durable
<1>5. ASSUME NEW q \in late, ExecuteLate(q)
      PROVE  \E p \in Requests : Sent(p) /\ row' = Execute(row, p)
  BY <1>5 DEF ExecuteLate, Sent, TypeOK
<1>6. Tick \/ UNCHANGED vars => row' = row
  BY DEF Tick, durable, vars
<1> QED
  BY <1>1, <1>2, <1>3, <1>4, <1>5, <1>6 DEF Next, Step

\* A statement that was sent is one of this instance's: a Begin for a deployed
\* definition, a checkpoint of a step that ran.
LEMMA SentFacts ==
  ASSUME TypeOK, RequestInv, LateInv, NEW q \in Requests, Sent(q)
  PROVE  /\ q.op = "begin" => BeginSent(q)
         /\ q.op = "checkpoint" => <<q.attempt, q.step>> \in ran
<1>1. CASE q \in late
  BY <1>1 DEF LateInv
<1>2. ASSUME NEW r \in Runners, pc[r] = q.op, q = req[r]
      PROVE  /\ q.op = "begin" => BeginSent(q)
             /\ q.op = "checkpoint" => <<q.attempt, q.step>> \in ran
  BY <1>2 DEF RequestInv
<1> QED
  BY <1>1, <1>2 DEF Sent

\* The row only ever goes forward: its attempt and completed steps grow, its
\* definition is fixed once it exists, completion is final.
Forward(old, new) ==
  /\ old.attempt <= new.attempt
  /\ Len(old.done) <= Len(new.done)
  /\ \A i \in 1..Len(old.done) : new.done[i] = old.done[i]
  /\ old.state # "absent" => new.state # "absent" /\ new.steps = old.steps
  /\ old.state = "complete" => new = old

LEMMA ExecuteForward ==
  ASSUME NEW old \in Rows, NEW q \in Requests,
         old.state = "absent" => old.attempt = 0 /\ old.done = <<>>
  PROVE  Forward(old, Execute(old, q))
<1> DEFINE new == Execute(old, q)
<1> USE DEF Rows, Forward
<1>1. CASE Unchanged(old, new)
  BY <1>1 DEF Unchanged
<1>2. CASE Started(old, q, new)
  BY <1>2 DEF Started
<1>3. CASE Resumed(old, q, new)
  BY <1>3 DEF Resumed
<1>4. CASE Recorded(old, q, new)
  <2>1. q \in CheckpointRequests
    BY <1>4 DEF Recorded, Requests, BeginRequests, CompleteRequests, FailRequests
  <2>2. q.step \in Steps
    BY <2>1 DEF CheckpointRequests
  <2> QED
    BY <1>4, <2>2 DEF Recorded
<1>5. CASE Finished(old, q, new)
  BY <1>5 DEF Finished
<1>6. CASE GaveUp(old, q, new)
  BY <1>6 DEF GaveUp
<1> QED
  BY <1>1, <1>2, <1>3, <1>4, <1>5, <1>6, ExecuteCases

LEMMA RowForward ==
  ASSUME TypeOK, RowInv, [Next]_vars
  PROVE  Forward(row, row')
<1>1. row \in Rows /\ (row.state = "absent" => row.attempt = 0 /\ row.done = <<>>)
  BY DEF TypeOK, RowInv
<1>2. CASE row' = row
  BY <1>1, <1>2 DEF Forward, Rows
<1>3. CASE \E q \in Requests : Sent(q) /\ row' = Execute(row, q)
  BY <1>1, <1>3, ExecuteForward
<1> QED
  BY <1>2, <1>3, RowSteps

-------------------------------------------------------------------------------
(* The steps that matter to the row and to one run *)

\* A run's UPDATE that found its row.
Matched(r) == /\ Checkpointed(r) \/ Completed(r) \/ Failed(r)
              /\ Matches(row, req[r])

LEMMA RowActions ==
  ASSUME TypeOK, RowInv, [Next]_vars
  PROVE  \/ row' = row
         \/ \E q \in late : ExecuteLate(q)
         \/ \E r \in Runners : BeginGranted(r) \/ Matched(r)
<1>1. ASSUME NEW r \in Runners, Begin(r) \/ StepStart(r) \/ StepSucceeds(r)
                               \/ Complete(r) \/ Fail(r) \/ Disturb(r)
      PROVE  row' = row
  BY <1>1 DEF Begin, StepStart, StepSucceeds, Complete, Fail, Disturb, StepFails,
              Cancelled, FailUnrecorded, Lose, Crash, durable
<1>2. ASSUME NEW r \in Runners, BeginComplete(r) \/ BeginRefused(r)
      PROVE  row' = row
  <2>1. req[r] \in Requests /\ req[r].op = "begin" /\ row \in Rows
    BY <1>2 DEF TypeOK, BeginComplete, BeginRefused
  <2>2. row.state # "absent" => Len(row.done) <= Len(row.steps)
    BY DEF RowInv, IsPrefix
  <2>3. /\ BeginOutcome(row, req[r]) \in {"complete", "running", "changed", "overflow"}
        /\ row' = AfterBegin(row, req[r])
    BY <1>2 DEF BeginComplete, BeginRefused
  <2> QED
    BY <2>1, <2>2, <2>3, BeginOutcomes
<1>3. ASSUME NEW r \in Runners, Checkpointed(r) \/ Completed(r) \/ Failed(r)
      PROVE  row' = row \/ Matched(r)
  <2>1. req[r] \in Requests /\ req[r].op # "begin" /\ row \in Rows
    BY <1>3 DEF TypeOK, Checkpointed, Completed, Failed
  <2>2. row' = Execute(row, req[r])
    BY <1>3 DEF Checkpointed, Completed, Failed
  <2> QED
    BY <1>3, <2>1, <2>2, UpdateOutcomes DEF Matched
<1>4. Tick \/ UNCHANGED vars => row' = row
  BY DEF Tick, durable, vars
<1> QED
  BY <1>1, <1>2, <1>3, <1>4 DEF Next, Step

\* What a granted Begin and a matched UPDATE do to the row.
LEMMA GrantedRow ==
  ASSUME TypeOK, RowInv, NEW r \in Runners, BeginGranted(r)
  PROVE  /\ req[r] \in BeginRequests
         /\ \/ Started(row, req[r], row')
            \/ Resumed(row, req[r], row')
<1>1. req[r] \in Requests /\ req[r].op = "begin" /\ row \in Rows
  BY DEF TypeOK, BeginGranted
<1>2. row.state # "absent" => Len(row.done) <= Len(row.steps)
  BY DEF RowInv, IsPrefix
<1>3. /\ BeginOutcome(row, req[r]) \in {"started", "resumed"}
      /\ row' = AfterBegin(row, req[r])
  BY DEF BeginGranted
<1>4. req[r] \in BeginRequests
  BY <1>1 DEF Requests, CheckpointRequests, CompleteRequests, FailRequests
<1> QED
  BY <1>1, <1>2, <1>3, <1>4, BeginOutcomes

LEMMA MatchedRow ==
  ASSUME TypeOK, RequestInv, NEW r \in Runners, Matched(r)
  PROVE  /\ req[r] \in Requests /\ req[r].op = pc[r]
         /\ req[r].attempt = attempt[r] /\ row.attempt = attempt[r]
         /\ row'.attempt = row.attempt
         /\ \/ pc[r] = "checkpoint" /\ Recorded(row, req[r], row')
            \/ pc[r] = "complete" /\ Finished(row, req[r], row')
            \/ pc[r] = "fail" /\ GaveUp(row, req[r], row')
<1>1. /\ pc[r] \in {"checkpoint", "complete", "fail"}
      /\ row' = Execute(row, req[r])
  BY DEF Matched, Checkpointed, Completed, Failed
<1>2. req[r] \in Requests /\ req[r].op = pc[r] /\ row \in Rows
  BY <1>1 DEF TypeOK
<1>3. req[r].attempt = attempt[r]
  BY <1>1 DEF RequestInv
<1>4. \/ Recorded(row, req[r], row')
      \/ Finished(row, req[r], row')
      \/ GaveUp(row, req[r], row')
  BY <1>1, <1>2, UpdateOutcomes DEF Matched
<1> QED
  BY <1>1, <1>2, <1>3, <1>4 DEF Recorded, Finished, GaveUp

\* In any step a run is granted an attempt, advances by its own checkpoint, or
\* keeps what it knows and does not take up work it had left.
LEMMA LocalSteps ==
  ASSUME TypeOK, [Next]_vars, NEW s \in Runners
  PROVE  \/ BeginGranted(s)
         \/ Checkpointed(s) /\ Matches(row, req[s])
         \/ /\ attempt'[s] = attempt[s] /\ count'[s] = count[s] /\ held'[s] = held[s]
            /\ pc'[s] \in Holding => pc[s] \in Holding
            /\ pc'[s] \in Working => pc[s] \in Working
            /\ pc'[s] = "complete" => pc[s] = "complete" \/ count[s] = Len(Job[s])
<1> USE DEF TypeOK, Holding, Working
<1> DEFINE Keeps == /\ attempt'[s] = attempt[s] /\ count'[s] = count[s] /\ held'[s] = held[s]
                    /\ pc'[s] \in Holding => pc[s] \in Holding
                    /\ pc'[s] \in Working => pc[s] \in Working
                    /\ pc'[s] = "complete" => pc[s] = "complete" \/ count[s] = Len(Job[s])
<1>1. ASSUME NEW r \in Runners, Begin(r) PROVE Keeps
  BY <1>1 DEF Begin, Send
<1>2. ASSUME NEW r \in Runners, BeginGranted(r) PROVE BeginGranted(s) \/ Keeps
  <2>1. CASE r # s
    <3>1. /\ attempt'[s] = attempt[s] /\ count'[s] = count[s] /\ held'[s] = held[s]
          /\ pc'[s] = pc[s]
      BY <1>2, <2>1 DEF BeginGranted, Goto, Send, Return
    <3> QED
      BY <3>1
  <2> QED
    BY <1>2, <2>1
<1>3. ASSUME NEW r \in Runners, BeginComplete(r) \/ BeginRefused(r) PROVE Keeps
  BY <1>3 DEF BeginComplete, BeginRefused, Return
<1>4. ASSUME NEW r \in Runners, StepStart(r) PROVE Keeps
  BY <1>4 DEF StepStart, Goto, Send
<1>5. ASSUME NEW r \in Runners, StepSucceeds(r) PROVE Keeps
  BY <1>5 DEF StepSucceeds, Send
<1>6. ASSUME NEW r \in Runners, StepFails(r) \/ Cancelled(r) PROVE Keeps
  BY <1>6 DEF StepFails, Cancelled, Goto, Send
<1>7. ASSUME NEW r \in Runners, Checkpointed(r)
      PROVE  (Checkpointed(s) /\ Matches(row, req[s])) \/ Keeps
  <2>1. CASE r # s
    <3>1. /\ attempt'[s] = attempt[s] /\ count'[s] = count[s] /\ held'[s] = held[s]
          /\ pc'[s] = pc[s]
      BY <1>7, <2>1 DEF Checkpointed, Goto, Send
    <3> QED
      BY <3>1
  <2>2. CASE r = s /\ ~Matches(row, req[r])
    BY <1>7, <2>2 DEF Checkpointed, Goto, Send
  <2> QED
    BY <1>7, <2>1, <2>2
<1>8. ASSUME NEW r \in Runners, Complete(r) PROVE Keeps
  BY <1>8 DEF Complete, Send
<1>9. ASSUME NEW r \in Runners, Completed(r) PROVE Keeps
  BY <1>9 DEF Completed, Goto, Send, Return
<1>10. ASSUME NEW r \in Runners, Fail(r) PROVE Keeps
  BY <1>10 DEF Fail, Send
<1>11. ASSUME NEW r \in Runners, FailUnrecorded(r) \/ Failed(r) \/ Crash(r) PROVE Keeps
  BY <1>11 DEF FailUnrecorded, Failed, Crash, Return
<1>12. ASSUME NEW r \in Runners, Lose(r) PROVE Keeps
  BY <1>12 DEF Lose, Goto, Send, Return
<1>13. ASSUME NEW q \in late, ExecuteLate(q) PROVE Keeps
  BY <1>13 DEF ExecuteLate, local
<1>14. Tick \/ UNCHANGED vars => Keeps
  BY DEF Tick, local, vars
<1> QED
  BY <1>1, <1>2, <1>3, <1>4, <1>5, <1>6, <1>7, <1>8, <1>9, <1>10, <1>11, <1>12, <1>13,
     <1>14 DEF Next, Step, Disturb

-------------------------------------------------------------------------------
(* The inductive invariant, part by part *)

LEMMA InitIInv == Init => IInv
<1> SUFFICES ASSUME Init PROVE IInv
  OBVIOUS
<1> USE DEF Init
<1>1. TypeOK
  BY InitType
<1>2. RowInv /\ RanInv
  BY DEF Absent, RowInv, IsPrefix, RanInv
<1>3. HolderInv /\ UniqueInv /\ CurrentInv /\ LeaseInv
  BY DEF HolderInv, UniqueInv, CurrentInv, LeaseInv, Holding, Working
<1>4. RequestInv /\ LateInv /\ BegunInv /\ SuccessIsDurable
  BY DEF RequestInv, LateInv, BegunInv, SuccessIsDurable
<1> QED
  BY <1>1, <1>2, <1>3, <1>4 DEF IInv

LEMMA NextRowInv == IInv /\ [Next]_vars => RowInv'
<1> SUFFICES ASSUME IInv, [Next]_vars PROVE RowInv'
  OBVIOUS
<1> USE DEF IInv
<1>1. CASE row' = row
  BY <1>1 DEF RowInv, SchemaChecks, IsPrefix
<1>2. ASSUME NEW q \in Requests, Sent(q), row' = Execute(row, q)
      PROVE  RowInv'
  <2> USE DEF RowInv, SchemaChecks, IsPrefix
  <2>0. row \in Rows /\ row' \in Rows
    BY <1>2, ExecuteType DEF TypeOK
  <2>1. CASE Unchanged(row, row')
    BY <2>1 DEF Unchanged
  <2>2. CASE Started(row, q, row')
    <3>1. q \in BeginRequests
      BY <2>2 DEF Started, Requests, CheckpointRequests, CompleteRequests, FailRequests
    <3>2. PICK s \in Runners : q.steps = Job[s]
      BY <1>2, <2>2, SentFacts DEF Started, BeginSent
    <3>3. Len(q.steps) >= 1 /\ q.lease # Null
      BY <3>1, <3>2, JobAssumption, NullAssumption DEF BeginRequests
    <3> QED
      BY <2>2, <3>3 DEF Started
  <2>3. CASE Resumed(row, q, row')
    <3>1. q \in BeginRequests
      BY <2>3 DEF Resumed, Requests, CheckpointRequests, CompleteRequests, FailRequests
    <3>2. q.lease # Null
      BY <3>1, NullAssumption DEF BeginRequests
    <3> QED
      BY <2>0, <2>3, <3>2 DEF Resumed, Rows
  <2>4. CASE Recorded(row, q, row')
    <3>1. q \in CheckpointRequests
      BY <2>4 DEF Recorded, Requests, BeginRequests, CompleteRequests, FailRequests
    <3>2. q.lease # Null /\ q.step \in Steps
      BY <3>1, NullAssumption DEF CheckpointRequests
    <3> QED
      BY <2>0, <2>4, <3>2 DEF Recorded, Rows
  <2>5. CASE Finished(row, q, row')
    BY <2>0, <2>5 DEF Finished, Rows
  <2>6. CASE GaveUp(row, q, row')
    <3>1. q \in FailRequests
      BY <2>6 DEF GaveUp, Requests, BeginRequests, CheckpointRequests, CompleteRequests
    <3>2. q.step # Null
      BY <3>1, NullStepAssumption DEF FailRequests
    <3> QED
      BY <2>0, <2>6, <3>2 DEF GaveUp, Rows
  <2> QED
    BY <1>2, <2>0, <2>1, <2>2, <2>3, <2>4, <2>5, <2>6, ExecuteCases
<1> QED
  BY <1>1, <1>2, RowSteps

\* The history only grows.
LEMMA RanGrows == [Next]_vars => ran \subseteq ran'
<1> SUFFICES ASSUME [Next]_vars PROVE ran \subseteq ran'
  OBVIOUS
<1>1. ASSUME NEW r \in Runners, Begin(r) \/ Step(r) \/ Disturb(r)
      PROVE  ran \subseteq ran'
  BY <1>1 DEF Begin, Step, Disturb, BeginGranted, BeginComplete, BeginRefused,
       StepStart, StepSucceeds, StepFails, Cancelled, Checkpointed, Complete, Completed,
       Fail, FailUnrecorded, Failed, Lose, Crash, history
<1>2. ASSUME NEW q \in late, ExecuteLate(q) PROVE ran' = ran
  BY <1>2 DEF ExecuteLate, history
<1>3. Tick \/ UNCHANGED vars => ran' = ran
  BY DEF Tick, history, vars
<1> QED
  BY <1>1, <1>2, <1>3 DEF Next

LEMMA NextRanInv == IInv /\ [Next]_vars => RanInv'
<1> SUFFICES ASSUME IInv, [Next]_vars PROVE RanInv'
  OBVIOUS
<1> USE DEF IInv
<1>1. ran \subseteq ran' /\ row \in Rows
  BY RanGrows DEF TypeOK
<1>2. CASE row' = row
  BY <1>1, <1>2 DEF RanInv
<1>3. ASSUME NEW q \in Requests, Sent(q), row' = Execute(row, q)
      PROVE  RanInv'
  <2>1. CASE Unchanged(row, row')
    BY <1>1, <2>1 DEF RanInv, Unchanged
  <2>2. CASE Started(row, q, row')
    BY <2>2 DEF RanInv, Started
  <2>3. CASE Resumed(row, q, row')
    BY <1>1, <2>3 DEF RanInv, Resumed, Rows
  <2>4. CASE Recorded(row, q, row')
    <3>1. q \in CheckpointRequests
      BY <2>4 DEF Recorded, Requests, BeginRequests, CompleteRequests, FailRequests
    <3>2. q.step \in Steps
      BY <3>1 DEF CheckpointRequests
    <3>3. <<row.attempt, q.step>> \in ran'
      BY <1>1, <1>3, <2>4, SentFacts DEF Recorded
    <3>4. row.attempt \in 1..row.attempt
      BY <1>1, <2>4 DEF Recorded, RowInv, SchemaChecks, Rows
    <3>5. SUFFICES ASSUME NEW i \in 1..Len(row'.done)
                   PROVE  \E k \in 1..row'.attempt : <<k, row'.done[i]>> \in ran'
      BY DEF RanInv
    <3>6. /\ row'.attempt = row.attempt /\ row'.done = Append(row.done, q.step)
          /\ row.done \in Seq(Steps)
      BY <1>1, <2>4 DEF Recorded, Rows
    <3>7. CASE i \in 1..Len(row.done)
      <4>1. row'.done[i] = row.done[i]
        BY <3>2, <3>6, <3>7
      <4> QED
        BY <1>1, <3>6, <3>7, <4>1 DEF RanInv
    <3>8. CASE i = Len(row.done) + 1
      <4>1. row'.done[i] = q.step
        BY <3>2, <3>6, <3>8
      <4> QED
        BY <3>3, <3>4, <3>6, <4>1
    <3>9. i \in 1..Len(row.done) \/ i = Len(row.done) + 1
      BY <3>2, <3>6
    <3> QED
      BY <3>7, <3>8, <3>9
  <2>5. CASE Finished(row, q, row')
    BY <1>1, <2>5 DEF RanInv, Finished
  <2>6. CASE GaveUp(row, q, row')
    BY <1>1, <2>6 DEF RanInv, GaveUp
  <2> QED
    BY <1>1, <1>3, <2>1, <2>2, <2>3, <2>4, <2>5, <2>6, ExecuteCases
<1> QED
  BY <1>2, <1>3, RowSteps

LEMMA NextHolderInv == IInv /\ [Next]_vars => HolderInv'
<1> SUFFICES ASSUME IInv, [Next]_vars, NEW s \in Runners
             PROVE  /\ pc'[s] \in Holding =>
                         /\ 1 <= attempt'[s] /\ attempt'[s] <= row'.attempt
                         /\ row'.steps = Job[s]
                         /\ count'[s] <= Len(row'.done)
                    /\ pc'[s] = "complete" => count'[s] = Len(Job[s])
  BY DEF HolderInv
<1> USE DEF IInv
<1>1. row \in Rows /\ row' \in Rows /\ TypeOK'
  BY NextType DEF TypeOK
<1>2. CASE BeginGranted(s)
  <2>1. /\ attempt'[s] = row'.attempt /\ count'[s] = Len(row'.done)
        /\ pc'[s] # "complete" /\ req[s].steps = Job[s]
    BY <1>2 DEF BeginGranted, TypeOK, RequestInv, Goto, Send, Return
  <2>2. row'.attempt >= 1 /\ row'.steps = req[s].steps
    BY <1>1, <1>2, GrantedRow DEF Started, Resumed, Rows
  <2> QED
    BY <1>1, <2>1, <2>2 DEF Rows
<1>3. CASE Checkpointed(s) /\ Matches(row, req[s])
  <2>1. /\ attempt'[s] = attempt[s] /\ count'[s] = count[s] + 1
        /\ pc'[s] = "loop" /\ pc[s] = "checkpoint"
    BY <1>3 DEF Checkpointed, TypeOK, Goto, Send
  <2>2. Recorded(row, req[s], row') /\ req[s] \in CheckpointRequests
    BY <1>3, MatchedRow DEF Matched, Checkpointed, Requests, BeginRequests,
         CompleteRequests, FailRequests
  <2>3. req[s].step \in Steps
    BY <2>2 DEF CheckpointRequests
  <2>4. /\ row'.attempt = row.attempt /\ row'.steps = row.steps
        /\ Len(row'.done) = Len(row.done) + 1
    BY <1>1, <2>2, <2>3 DEF Recorded, Rows
  <2>5. /\ 1 <= attempt[s] /\ attempt[s] <= row.attempt /\ row.steps = Job[s]
        /\ count[s] <= Len(row.done)
    BY <2>1 DEF HolderInv, Holding, Working
  <2> QED
    BY <1>1, <2>1, <2>4, <2>5 DEF Rows, TypeOK
<1>4. CASE /\ attempt'[s] = attempt[s] /\ count'[s] = count[s] /\ held'[s] = held[s]
           /\ pc'[s] \in Holding => pc[s] \in Holding
           /\ pc'[s] \in Working => pc[s] \in Working
           /\ pc'[s] = "complete" => pc[s] = "complete" \/ count[s] = Len(Job[s])
  <2>1. Forward(row, row')
    BY RowForward
  <2>2. pc[s] \in Holding => row.state # "absent"
    BY <1>1 DEF HolderInv, RowInv, TypeOK, Rows
  <2> QED
    BY <1>1, <1>4, <2>1, <2>2 DEF HolderInv, Forward, TypeOK, Rows
<1> QED
  BY <1>2, <1>3, <1>4, LocalSteps

\* Two runs are never granted an attempt in the same step.
LEMMA OneGranted ==
  ASSUME TypeOK, NEW s \in Runners, NEW t \in Runners, s # t, BeginGranted(s)
  PROVE  ~BeginGranted(t) /\ ~Checkpointed(t)
<1>1. pc'[s] # "begin" /\ pc[s] = "begin"
  BY DEF TypeOK, BeginGranted, Goto, Send, Return
<1>2. BeginGranted(t) \/ Checkpointed(t) => pc'[s] = pc[s]
  BY DEF TypeOK, BeginGranted, Checkpointed, Goto, Send, Return
<1> QED
  BY <1>1, <1>2

LEMMA NextUniqueInv == IInv /\ [Next]_vars => UniqueInv'
<1> SUFFICES ASSUME IInv, [Next]_vars, NEW s \in Runners, NEW t \in Runners, s # t,
                    pc'[s] \in Holding, pc'[t] \in Holding
             PROVE  attempt'[s] # attempt'[t]
  BY DEF UniqueInv
<1> USE DEF IInv
<1>1. row \in Rows /\ row' \in Rows
  BY NextType DEF TypeOK
<1>2. ASSUME NEW u \in Runners, ~BeginGranted(u), pc'[u] \in Holding
      PROVE  attempt'[u] = attempt[u] /\ pc[u] \in Holding
  <2>1. ASSUME Checkpointed(u)
        PROVE  attempt'[u] = attempt[u] /\ pc[u] \in Holding
    BY <2>1 DEF Checkpointed, Holding, Working
  <2> QED
    BY <1>2, <2>1, LocalSteps
<1>3. ASSUME NEW u \in Runners, NEW v \in Runners, u # v, BeginGranted(u),
             pc'[v] \in Holding
      PROVE  attempt'[u] # attempt'[v]
  <2>1. attempt'[v] = attempt[v] /\ pc[v] \in Holding
    BY <1>2, <1>3, OneGranted
  <2>2. attempt[v] <= row.attempt /\ attempt[v] >= 1 /\ row.state # "absent"
    BY <2>1 DEF HolderInv, RowInv, TypeOK
  <2>3. row'.attempt = row.attempt + 1
    BY <1>3, <2>2, GrantedRow DEF Started, Resumed
  <2>4. attempt'[u] = row'.attempt
    BY <1>3 DEF BeginGranted, TypeOK
  <2> QED
    BY <1>1, <2>1, <2>2, <2>3, <2>4 DEF TypeOK, Rows
<1>4. CASE BeginGranted(s)
  BY <1>3, <1>4
<1>5. CASE BeginGranted(t)
  BY <1>3, <1>5
<1>6. CASE ~BeginGranted(s) /\ ~BeginGranted(t)
  BY <1>2, <1>6 DEF UniqueInv
<1> QED
  BY <1>4, <1>5, <1>6

\* A row that a working run still owns is changed by nobody else.
LEMMA OwnRow ==
  ASSUME IInv, [Next]_vars, NEW s \in Runners, pc[s] \in Working,
         row'.attempt = attempt[s]
  PROVE  row' = row \/ Matched(s)
<1> USE DEF IInv
<1>1. row \in Rows /\ row' \in Rows
  BY NextType DEF TypeOK
<1>2. /\ 1 <= attempt[s] /\ attempt[s] <= row.attempt /\ row.attempt <= row'.attempt
      /\ row.state # "absent"
  BY RowForward DEF HolderInv, RowInv, Holding, Forward, TypeOK
<1>3. row.attempt = attempt[s] /\ row'.attempt = row.attempt
  BY <1>1, <1>2 DEF Rows, TypeOK
<1>4. ASSUME NEW q \in late, ExecuteLate(q) PROVE row' = row
  <2>1. q \in Requests /\ row' = Execute(row, q)
    BY <1>4 DEF ExecuteLate, TypeOK
  <2>2. q.op # "begin" => q.attempt # attempt[s]
    BY <1>4 DEF LateInv
  <2>3. ~Started(row, q, row') /\ ~Resumed(row, q, row')
    BY <1>1, <1>2, <1>3 DEF Started, Resumed, Rows
  <2>4. ~Recorded(row, q, row') /\ ~Finished(row, q, row') /\ ~GaveUp(row, q, row')
    BY <1>3, <2>2 DEF Recorded, Finished, GaveUp
  <2> QED
    BY <1>1, <2>1, <2>3, <2>4, ExecuteCases DEF Unchanged
<1>5. ASSUME NEW r \in Runners, BeginGranted(r) PROVE FALSE
  BY <1>1, <1>2, <1>3, <1>5, GrantedRow DEF Started, Resumed, Rows
<1>6. ASSUME NEW r \in Runners, Matched(r) PROVE r = s
  <2>1. attempt[r] = attempt[s] /\ pc[r] \in {"checkpoint", "complete", "fail"}
    BY <1>3, <1>6, MatchedRow
  <2> QED
    BY <2>1 DEF UniqueInv, Holding, Working
<1> QED
  BY <1>4, <1>5, <1>6, RowActions

LEMMA NextCurrentInv == IInv /\ [Next]_vars => CurrentInv'
<1> SUFFICES ASSUME IInv, [Next]_vars, NEW s \in Runners,
                    pc'[s] \in Working, attempt'[s] = row'.attempt
             PROVE  row'.state = "running" /\ Len(row'.done) = count'[s]
                    /\ row'.lease = held'[s]
  BY DEF CurrentInv
<1> USE DEF IInv
<1>1. row \in Rows /\ row' \in Rows
  BY NextType DEF TypeOK
<1>2. CASE BeginGranted(s)
  <2>1. count'[s] = Len(row'.done) /\ held'[s] = req[s].lease
    BY <1>2 DEF BeginGranted, TypeOK
  <2> QED
    BY <1>2, <2>1, GrantedRow DEF Started, Resumed
<1>3. CASE Checkpointed(s) /\ Matches(row, req[s])
  <2>1. /\ attempt'[s] = attempt[s] /\ count'[s] = count[s] + 1
        /\ held'[s] = req[s].lease /\ pc[s] = "checkpoint"
    BY <1>3 DEF Checkpointed, TypeOK
  <2>2. Recorded(row, req[s], row') /\ req[s] \in CheckpointRequests
    BY <1>3, <2>1, MatchedRow DEF Matched, Requests, BeginRequests,
         CompleteRequests, FailRequests
  <2>3. req[s].step \in Steps
    BY <2>2 DEF CheckpointRequests
  <2>4. Len(row'.done) = Len(row.done) + 1 /\ row'.attempt = row.attempt
    BY <1>1, <2>2, <2>3 DEF Recorded, Rows
  <2>5. Len(row.done) = count[s]
    BY <2>1, <2>4 DEF CurrentInv, Working
  <2> QED
    BY <2>1, <2>2, <2>4, <2>5 DEF Recorded
<1>4. CASE /\ ~(Checkpointed(s) /\ Matches(row, req[s]))
           /\ attempt'[s] = attempt[s] /\ count'[s] = count[s] /\ held'[s] = held[s]
           /\ pc'[s] \in Working => pc[s] \in Working
  <2>1. row' = row \/ Matched(s)
    BY <1>4, OwnRow
  <2>2. ASSUME Matched(s) PROVE FALSE
    <3>1. Completed(s) \/ Failed(s)
      BY <1>4, <2>2 DEF Matched
    <3>2. pc'[s] = "idle"
      BY <2>2, <3>1 DEF Matched, Completed, Failed, Return, TypeOK
    <3> QED
      BY <3>2 DEF Working
  <2> QED
    BY <1>4, <2>1, <2>2 DEF CurrentInv
<1> QED
  BY <1>2, <1>3, <1>4, LocalSteps

\* Clocks never go back.
LEMMA ClocksAdvance ==
  ASSUME TypeOK, [Next]_vars, NEW s \in Runners
  PROVE  Clock(s) \in Int /\ Clock(s)' \in Int /\ Clock(s) <= Clock(s)'
<1>1. now' = now \/ now' = now + 1
  <2>1. ASSUME NEW r \in Runners, Begin(r) \/ Step(r) \/ Disturb(r) PROVE now' = now
    BY <2>1 DEF Begin, Step, Disturb, BeginGranted, BeginComplete, BeginRefused,
         StepStart, StepSucceeds, StepFails, Cancelled, Checkpointed, Complete, Completed,
         Fail, FailUnrecorded, Failed, Lose, Crash
  <2>2. ASSUME NEW q \in late, ExecuteLate(q) PROVE now' = now
    BY <2>2 DEF ExecuteLate
  <2>3. Tick => now' = now + 1
    BY DEF Tick
  <2>4. UNCHANGED vars => now' = now
    BY DEF vars
  <2> QED
    BY <2>1, <2>2, <2>3, <2>4 DEF Next
<1> QED
  BY <1>1, OffsetAssumption DEF Clock, TypeOK

LEMMA NextLeaseInv == IInv /\ [Next]_vars => LeaseInv'
<1> SUFFICES ASSUME IInv, [Next]_vars, NEW s \in Runners, pc'[s] \in Working,
                    \A t \in Runners : Clock(t)' < held'[s]
             PROVE  row'.attempt = attempt'[s]
  BY DEF LeaseInv
<1> USE DEF IInv
<1>1. row \in Rows /\ row' \in Rows
  BY NextType DEF TypeOK
<1>2. CASE BeginGranted(s)
  BY <1>2 DEF BeginGranted, TypeOK
<1>3. CASE Checkpointed(s) /\ Matches(row, req[s])
  <2>1. attempt'[s] = attempt[s]
    BY <1>3 DEF Checkpointed
  <2> QED
    BY <1>3, <2>1, MatchedRow DEF Matched
<1>4. CASE /\ attempt'[s] = attempt[s] /\ held'[s] = held[s]
           /\ pc'[s] \in Working => pc[s] \in Working
  <2>1. \A t \in Runners : Clock(t) < held[s]
    BY <1>4, ClocksAdvance DEF TypeOK
  <2>2. pc[s] \in Working /\ row.attempt = attempt[s]
    BY <1>4, <2>1 DEF LeaseInv
  <2>3. row.state = "running" /\ row.lease = held[s]
    BY <2>2 DEF CurrentInv
  <2>4. ASSUME NEW q \in Requests, Sent(q), row' = Execute(row, q)
        PROVE  row'.attempt = row.attempt
    <3>1. ~Started(row, q, row')
      BY <2>3 DEF Started
    <3>2. ASSUME Resumed(row, q, row') PROVE FALSE
      <4>1. PICK t \in Runners : q.now <= Clock(t)
        BY <2>4, <3>2, SentFacts DEF Resumed, BeginSent
      <4>2. ~(held[s] > q.now) /\ q \in BeginRequests
        BY <2>3, <3>2 DEF Resumed, Requests, CheckpointRequests, CompleteRequests,
             FailRequests
      <4> QED
        BY <2>1, <4>1, <4>2, ClocksAdvance DEF TypeOK, BeginRequests
    <3> QED
      BY <1>1, <2>4, <3>1, <3>2, ExecuteCases
         DEF Unchanged, Recorded, Finished, GaveUp
  <2> QED
    BY <1>4, <2>2, <2>4, RowSteps
<1> QED
  BY <1>2, <1>3, <1>4, LocalSteps

\* What a run waits for changes only by its own actions.
LEMMA OthersKeep ==
  ASSUME TypeOK, [Next]_vars, NEW s \in Runners, ~Begin(s), ~Step(s), ~Disturb(s)
  PROVE  /\ pc'[s] = pc[s] /\ req'[s] = req[s] /\ attempt'[s] = attempt[s]
         /\ count'[s] = count[s] /\ held'[s] = held[s] /\ result'[s] = result[s]
<1> USE DEF TypeOK
<1> DEFINE Keeps(r) == /\ pc'[s] = pc[s] /\ req'[s] = req[s] /\ attempt'[s] = attempt[s]
                       /\ count'[s] = count[s] /\ held'[s] = held[s]
                       /\ result'[s] = result[s]
<1>1. ASSUME NEW r \in Runners, r # s, Begin(r) PROVE Keeps(r)
  BY <1>1 DEF Begin, Send
<1>2. ASSUME NEW r \in Runners, r # s, Step(r) PROVE Keeps(r)
  <2>1. CASE BeginGranted(r)
    BY <1>2, <2>1 DEF BeginGranted, Goto, Send, Return
  <2>2. CASE BeginComplete(r) \/ BeginRefused(r) \/ Failed(r)
    BY <1>2, <2>2 DEF BeginComplete, BeginRefused, Failed, Return
  <2>3. CASE StepStart(r) \/ StepSucceeds(r) \/ Complete(r) \/ Fail(r)
    BY <1>2, <2>3 DEF StepStart, StepSucceeds, Complete, Fail, Goto, Send
  <2>4. CASE Checkpointed(r)
    BY <1>2, <2>4 DEF Checkpointed, Goto, Send
  <2>5. CASE Completed(r)
    BY <1>2, <2>5 DEF Completed, Goto, Send, Return
  <2> QED
    BY <1>2, <2>1, <2>2, <2>3, <2>4, <2>5 DEF Step
<1>3. ASSUME NEW r \in Runners, r # s, Disturb(r) PROVE Keeps(r)
  <2>1. CASE StepFails(r) \/ Cancelled(r)
    BY <1>3, <2>1 DEF StepFails, Cancelled, Goto, Send
  <2>2. CASE FailUnrecorded(r) \/ Crash(r)
    BY <1>3, <2>2 DEF FailUnrecorded, Crash, Return
  <2>3. CASE Lose(r)
    BY <1>3, <2>3 DEF Lose, Goto, Send, Return
  <2> QED
    BY <1>3, <2>1, <2>2, <2>3 DEF Disturb
<1>4. ASSUME NEW q \in late, ExecuteLate(q) PROVE Keeps(s)
  BY <1>4 DEF ExecuteLate, local
<1>5. Tick \/ UNCHANGED vars => Keeps(s)
  BY DEF Tick, local, vars
<1> QED
  BY <1>1, <1>2, <1>3, <1>4, <1>5 DEF Next

LEMMA NextRequestInv == IInv /\ [Next]_vars => RequestInv'
<1> SUFFICES ASSUME IInv, [Next]_vars, NEW s \in Runners
    PROVE  /\ pc'[s] = "begin" => req'[s].steps = Job[s] /\ BeginSent(req[s])'
           /\ pc'[s] \in {"checkpoint", "complete", "fail"} => req'[s].attempt = attempt'[s]
           /\ pc'[s] = "checkpoint" =>
                req'[s].step = NextStep(s)' /\ <<attempt'[s], req'[s].step>> \in ran'
  BY DEF RequestInv
<1> USE DEF IInv
<1>1. CASE ~Begin(s) /\ ~Step(s) /\ ~Disturb(s)
  <2>1. /\ pc'[s] = pc[s] /\ req'[s] = req[s] /\ attempt'[s] = attempt[s]
        /\ count'[s] = count[s]
    BY <1>1, OthersKeep
  <2>2. ASSUME pc[s] = "begin" PROVE BeginSent(req[s])'
    <3>1. PICK t \in Runners : req[s].steps = Job[t] /\ req[s].now <= Clock(t)
      BY <2>2 DEF RequestInv, BeginSent
    <3>2. req[s] \in BeginRequests
      BY <2>2 DEF TypeOK, Requests, CheckpointRequests, CompleteRequests, FailRequests
    <3>3. req[s].now <= Clock(t)'
      BY <3>1, <3>2, ClocksAdvance DEF BeginRequests
    <3> QED
      BY <2>1, <3>1, <3>3 DEF BeginSent
  <2>3. ran \subseteq ran'
    BY RanGrows
  <2> QED
    BY <2>1, <2>2, <2>3 DEF RequestInv, NextStep
<1>2. CASE Begin(s)
  <2>1. /\ pc'[s] = "begin" /\ now' = now
        /\ req'[s] = BeginRequest(Job[s], Clock(s), Clock(s) + Lease)
    BY <1>2 DEF Begin, Send, TypeOK
  <2>2. req'[s].steps = Job[s] /\ req'[s].now = Clock(s) /\ Clock(s)' = Clock(s)
    BY <2>1 DEF BeginRequest, Clock
  <2>3. Clock(s) <= Clock(s)
    BY ClocksAdvance
  <2> QED
    BY <2>1, <2>2, <2>3 DEF BeginSent
<1>3. CASE StepSucceeds(s)
  <2>1. /\ pc'[s] = "checkpoint" /\ UNCHANGED <<attempt, count>>
        /\ req'[s] = CheckpointRequest(attempt[s], NextStep(s), Clock(s) + Lease)
        /\ <<attempt[s], NextStep(s)>> \in ran'
    BY <1>3 DEF StepSucceeds, Send, TypeOK
  <2> QED
    BY <2>1 DEF CheckpointRequest, NextStep
<1>4. CASE Complete(s) \/ Fail(s)
  <2>1. /\ pc'[s] \in {"complete", "fail"} /\ UNCHANGED attempt
        /\ req'[s].attempt = attempt[s]
    BY <1>4 DEF Complete, Fail, Send, CompleteRequest, FailRequest, TypeOK
  <2> QED
    BY <2>1
<1>5. ASSUME \/ BeginGranted(s) \/ BeginComplete(s) \/ BeginRefused(s) \/ StepStart(s)
             \/ Checkpointed(s) \/ Completed(s) \/ Failed(s) \/ Disturb(s)
      PROVE  pc'[s] \notin {"begin", "checkpoint", "complete", "fail"}
  <2> USE DEF TypeOK
  <2>1. CASE BeginGranted(s)
    BY <2>1 DEF BeginGranted, Goto, Send, Return
  <2>2. CASE BeginComplete(s) \/ BeginRefused(s) \/ Failed(s) \/ StepStart(s)
    BY <2>2 DEF BeginComplete, BeginRefused, Failed, StepStart, Goto, Send, Return
  <2>3. CASE Checkpointed(s) \/ Completed(s)
    BY <2>3 DEF Checkpointed, Completed, Goto, Send, Return
  <2>4. CASE Disturb(s)
    BY <2>4 DEF Disturb, StepFails, Cancelled, FailUnrecorded, Lose, Crash, Goto, Send,
         Return
  <2> QED
    BY <1>5, <2>1, <2>2, <2>3, <2>4
<1> QED
  BY <1>1, <1>2, <1>3, <1>4, <1>5 DEF Step

\* A statement becomes late only when the run that waits for it leaves its work.
LEMMA LateGrows ==
  ASSUME TypeOK, [Next]_vars, NEW q \in late', q \notin late
  PROVE  \E r \in Runners : /\ q = req[r] /\ q \in Requests /\ pc[r] = q.op
                            /\ pc'[r] \notin Working /\ attempt' = attempt
<1>1. ASSUME NEW r \in Runners, Begin(r) \/ Step(r) PROVE late' = late
  BY <1>1 DEF Begin, Step, BeginGranted, BeginComplete, BeginRefused, StepStart,
       StepSucceeds, Checkpointed, Complete, Completed, Fail, Failed, durable
<1>2. ASSUME NEW r \in Runners, StepFails(r) \/ Cancelled(r) \/ FailUnrecorded(r)
      PROVE  late' = late
  BY <1>2 DEF StepFails, Cancelled, FailUnrecorded, durable
<1>3. ASSUME NEW r \in Runners, Lose(r) \/ Crash(r)
      PROVE  /\ late' \subseteq late \cup ({req[r]} \ {Null})
             /\ pc'[r] \notin Working /\ attempt' = attempt
  <2>1. late' \subseteq late \cup ({req[r]} \ {Null}) /\ attempt' = attempt
    BY <1>3 DEF Lose, Crash, Detach
  <2>2. pc'[r] \in {"failing", "idle"}
    BY <1>3 DEF Lose, Crash, Goto, Send, Return, TypeOK
  <2> QED
    BY <2>1, <2>2 DEF Working
<1>4. ASSUME NEW r \in Runners, q = req[r], q # Null
      PROVE  q \in Requests /\ pc[r] = q.op
  BY <1>4 DEF TypeOK
<1>5. ASSUME NEW p \in late, ExecuteLate(p) PROVE late' \subseteq late
  BY <1>5 DEF ExecuteLate
<1>6. Tick \/ UNCHANGED vars => late' = late
  BY DEF Tick, durable, vars
<1> QED
  BY <1>1, <1>2, <1>3, <1>4, <1>5, <1>6 DEF Next, Disturb

LEMMA NextLateInv == IInv /\ [Next]_vars => LateInv'
<1> SUFFICES ASSUME IInv, [Next]_vars, NEW q \in late'
    PROVE  IF q.op = "begin" THEN BeginSent(q)'
           ELSE /\ q.attempt <= row'.attempt
                /\ \A r \in Runners : pc'[r] \in Working => attempt'[r] # q.attempt
                /\ q.op = "checkpoint" => <<q.attempt, q.step>> \in ran'
  BY DEF LateInv
<1> USE DEF IInv
<1>1. /\ row \in Rows /\ row' \in Rows /\ row.attempt <= row'.attempt
      /\ ran \subseteq ran' /\ q \in Requests
  BY NextType, RowForward, RanGrows DEF TypeOK, Forward
<1>2. ASSUME q.op = "begin", BeginSent(q) PROVE BeginSent(q)'
  <2>1. PICK t \in Runners : q.steps = Job[t] /\ q.now <= Clock(t)
    BY <1>2 DEF BeginSent
  <2>2. q \in BeginRequests
    BY <1>1, <1>2 DEF Requests, CheckpointRequests, CompleteRequests, FailRequests
  <2>3. q.now <= Clock(t)'
    BY <2>1, <2>2, ClocksAdvance DEF BeginRequests
  <2> QED
    BY <2>1, <2>3 DEF BeginSent
<1>3. q.op # "begin" => q.attempt \in Nat
  BY <1>1 DEF Requests, BeginRequests, CheckpointRequests, CompleteRequests, FailRequests
<1>4. CASE q \in late
  <2>1. ASSUME q.op # "begin", NEW s \in Runners, pc'[s] \in Working
        PROVE  attempt'[s] # q.attempt
    <3>1. q.attempt <= row.attempt
      BY <1>4, <2>1 DEF LateInv
    <3>2. CASE BeginGranted(s)
      <4>1. attempt'[s] = row'.attempt
        BY <3>2 DEF BeginGranted, TypeOK
      <4>2. row'.attempt = row.attempt + 1
        BY <1>1, <3>2, GrantedRow DEF Started, Resumed, RowInv
      <4> QED
        BY <1>1, <1>3, <2>1, <3>1, <4>1, <4>2 DEF Rows
    <3>3. CASE Checkpointed(s)
      BY <1>4, <2>1, <3>3 DEF Checkpointed, LateInv, Working
    <3>4. CASE attempt'[s] = attempt[s] /\ (pc'[s] \in Working => pc[s] \in Working)
      BY <1>4, <2>1, <3>4 DEF LateInv
    <3> QED
      BY <3>2, <3>3, <3>4, LocalSteps
  <2> QED
    BY <1>1, <1>2, <1>3, <1>4, <2>1 DEF LateInv, Rows
<1>5. CASE q \notin late
  <2>1. PICK r \in Runners : /\ q = req[r] /\ pc[r] = q.op /\ pc'[r] \notin Working
                            /\ attempt' = attempt
    BY <1>5, LateGrows
  <2>2. CASE q.op = "begin"
    BY <1>2, <2>1, <2>2 DEF RequestInv
  <2>3. CASE q.op # "begin"
    <3>1. pc[r] \in {"checkpoint", "complete", "fail"}
      BY <1>1, <2>1, <2>3 DEF Requests, BeginRequests, CheckpointRequests,
           CompleteRequests, FailRequests
    <3>2. q.attempt = attempt[r] /\ pc[r] \in Holding
      BY <2>1, <3>1 DEF RequestInv, Holding, Working
    <3>3. q.attempt <= row'.attempt
      BY <1>1, <1>3, <2>3, <3>2 DEF HolderInv, Rows
    <3>4. q.op = "checkpoint" => <<q.attempt, q.step>> \in ran'
      BY <1>1, <2>1, <3>2 DEF RequestInv
    <3>5. ASSUME NEW s \in Runners, pc'[s] \in Working PROVE attempt'[s] # q.attempt
      <4>1. s # r
        BY <2>1, <3>5
      <4>2. pc[s] \in Holding \/ BeginGranted(s)
        BY <3>5, LocalSteps DEF Checkpointed, Holding, Working
      <4>3. CASE pc[s] \in Holding
        BY <2>1, <3>2, <4>1, <4>3 DEF UniqueInv
      <4>4. CASE BeginGranted(s)
        <5>1. attempt'[s] = row'.attempt
          BY <4>4 DEF BeginGranted, TypeOK
        <5>2. row'.attempt = row.attempt + 1
          BY <1>1, <4>4, GrantedRow DEF Started, Resumed, RowInv
        <5> QED
          BY <1>1, <1>3, <2>3, <3>2, <5>1, <5>2 DEF HolderInv, Rows
      <4> QED
        BY <4>2, <4>3, <4>4
    <3> QED
      BY <2>3, <3>3, <3>4, <3>5
  <2> QED
    BY <2>2, <2>3
<1> QED
  BY <1>4, <1>5

\* The only calls the history gains are those of the run whose step starts.
LEMMA BegunGrows ==
  ASSUME [Next]_vars, begun' # begun
  PROVE  \E r \in Runners : StepStart(r)
<1>1. ASSUME NEW r \in Runners, Begin(r) \/ Step(r) \/ Disturb(r), ~StepStart(r)
      PROVE  begun' = begun
  BY <1>1 DEF Begin, Step, Disturb, BeginGranted, BeginComplete, BeginRefused,
       StepSucceeds, StepFails, Cancelled, Checkpointed, Complete, Completed,
       Fail, FailUnrecorded, Failed, Lose, Crash, history
<1>2. ASSUME NEW q \in late, ExecuteLate(q) PROVE begun' = begun
  BY <1>2 DEF ExecuteLate, history
<1>3. Tick \/ UNCHANGED vars => begun' = begun
  BY DEF Tick, history, vars
<1> QED
  BY <1>1, <1>2, <1>3 DEF Next

LEMMA NextBegunInv == IInv /\ [Next]_vars => BegunInv'
<1> SUFFICES ASSUME IInv, [Next]_vars PROVE BegunInv'
  OBVIOUS
<1> USE DEF IInv
<1>1. row \in Rows /\ row' \in Rows /\ row.attempt <= row'.attempt
  BY NextType, RowForward DEF TypeOK, Forward
<1>2. \A p \in begun : p[1] \in Nat /\ p[1] <= row.attempt
  BY DEF BegunInv, TypeOK
<1>3. \A p \in begun' : p[1] <= row'.attempt
  <2>1. CASE begun' = begun
    BY <1>1, <1>2, <2>1 DEF Rows
  <2>2. ASSUME NEW r \in Runners, StepStart(r)
        PROVE  \A p \in begun' : p[1] <= row'.attempt
    <3>1. begun' = begun \cup {<<attempt[r], NextStep(r)>>} /\ pc[r] = "loop"
      BY <2>2 DEF StepStart
    <3>2. attempt[r] <= row.attempt
      BY <3>1 DEF HolderInv, Holding, Working
    <3> QED
      BY <1>1, <1>2, <3>1, <3>2 DEF Rows, TypeOK
  <2> QED
    BY <2>1, <2>2, BegunGrows
<1>4. ASSUME NEW s \in Runners, NEW i \in 1..Len(Job[s])
      PROVE  /\ pc'[s] = "loop" /\ i > count'[s] => <<attempt'[s], Job[s][i]>> \notin begun'
             /\ pc'[s] \in {"step", "checkpoint"} /\ i > count'[s] + 1 =>
                  <<attempt'[s], Job[s][i]>> \notin begun'
  <2> DEFINE Goal ==
       /\ pc'[s] = "loop" /\ i > count'[s] => <<attempt'[s], Job[s][i]>> \notin begun'
       /\ pc'[s] \in {"step", "checkpoint"} /\ i > count'[s] + 1 =>
            <<attempt'[s], Job[s][i]>> \notin begun'
  <2>1. CASE BeginGranted(s)
    <3>1. begun' = begun /\ attempt'[s] = row'.attempt
      BY <2>1 DEF BeginGranted, TypeOK
    <3>2. row'.attempt = row.attempt + 1
      BY <1>1, <2>1, GrantedRow DEF Started, Resumed, RowInv
    <3>3. \A p \in begun : p[1] # attempt'[s]
      BY <1>1, <1>2, <3>1, <3>2 DEF Rows
    <3> QED
      BY <3>1, <3>3
  <2>2. CASE Checkpointed(s)
    <3>1. begun' = begun /\ attempt'[s] = attempt[s] /\ pc[s] = "checkpoint"
      BY <2>2 DEF Checkpointed, history
    <3>2. \/ pc'[s] = "loop" /\ count'[s] = count[s] + 1
          \/ pc'[s] = "failing"
      BY <2>2 DEF Checkpointed, Goto, Send, TypeOK
    <3> QED
      BY <3>1, <3>2 DEF BegunInv
  <2>3. CASE StepStart(s)
    <3>1. /\ begun' = begun \cup {<<attempt[s], Job[s][count[s] + 1]>>}
          /\ attempt' = attempt /\ count' = count /\ pc[s] = "loop" /\ pc'[s] = "step"
          /\ count[s] < Len(Job[s]) /\ count[s] \in Nat
      BY <2>3 DEF StepStart, Goto, Send, TypeOK, NextStep
    <3>2. i > count[s] + 1 => Job[s][i] # Job[s][count[s] + 1]
      BY <3>1, JobAssumption
    <3> QED
      BY <3>1, <3>2 DEF BegunInv
  <2>4. CASE StepSucceeds(s)
    <3>1. /\ begun' = begun /\ attempt' = attempt /\ count' = count
          /\ pc[s] = "step" /\ pc'[s] = "checkpoint"
      BY <2>4 DEF StepSucceeds, Send, TypeOK
    <3> QED
      BY <3>1 DEF BegunInv
  <2>5. CASE \/ Begin(s) \/ BeginComplete(s) \/ BeginRefused(s) \/ Complete(s)
             \/ Completed(s) \/ Fail(s) \/ Failed(s) \/ Disturb(s)
    <3> USE DEF TypeOK
    <3>1. CASE Begin(s) \/ Complete(s) \/ Fail(s)
      BY <3>1 DEF Begin, Complete, Fail, Send
    <3>2. CASE BeginComplete(s) \/ BeginRefused(s) \/ Completed(s) \/ Failed(s)
      BY <3>2 DEF BeginComplete, BeginRefused, Completed, Failed, Goto, Send, Return
    <3>3. CASE Disturb(s)
      BY <3>3 DEF Disturb, StepFails, Cancelled, FailUnrecorded, Lose, Crash, Goto, Send,
           Return
    <3> QED
      BY <2>5, <3>1, <3>2, <3>3
  <2>6. CASE ~Begin(s) /\ ~Step(s) /\ ~Disturb(s)
    <3>1. /\ pc'[s] = pc[s] /\ attempt'[s] = attempt[s] /\ count'[s] = count[s]
      BY <2>6, OthersKeep
    <3>2. CASE begun' = begun
      BY <3>1, <3>2 DEF BegunInv
    <3>3. ASSUME NEW r \in Runners, StepStart(r), pc[s] \in Working
          PROVE  <<attempt[s], Job[s][i]>> \in begun' => <<attempt[s], Job[s][i]>> \in begun
      <4>1. r # s /\ pc[r] = "loop" /\ begun' = begun \cup {<<attempt[r], NextStep(r)>>}
        BY <2>6, <3>3 DEF StepStart, Step
      <4>2. attempt[r] # attempt[s]
        BY <3>3, <4>1 DEF UniqueInv, Holding, Working
      <4> QED
        BY <4>1, <4>2
    <3> QED
      BY <3>1, <3>2, <3>3, BegunGrows DEF BegunInv, Working
  <2> QED
    BY <2>1, <2>2, <2>3, <2>4, <2>5, <2>6 DEF Step
<1> QED
  BY <1>3, <1>4 DEF BegunInv

LEMMA NextSuccess == IInv /\ [Next]_vars => SuccessIsDurable'
<1> SUFFICES ASSUME IInv, [Next]_vars, NEW s \in Runners, result'[s] = "success"
             PROVE  row'.state = "complete" /\ row'.steps = Job[s] /\ row'.done = Job[s]
  BY DEF SuccessIsDurable
<1> USE DEF IInv
<1>1. row \in Rows /\ row' \in Rows
  BY NextType DEF TypeOK
<1>2. CASE result[s] = "success"
  <2>1. row.state = "complete"
    BY <1>2 DEF SuccessIsDurable
  <2>2. row' = row
    BY <2>1, RowForward DEF Forward
  <2> QED
    BY <1>2, <2>2 DEF SuccessIsDurable
<1>3. CASE BeginComplete(s)
  <2>1. req[s] \in Requests /\ req[s].op = "begin" /\ req[s].steps = Job[s]
    BY <1>3 DEF BeginComplete, TypeOK, RequestInv
  <2>2. BeginOutcome(row, req[s]) = "complete" /\ row' = AfterBegin(row, req[s])
    BY <1>3 DEF BeginComplete
  <2>3. row' = row
    BY <1>1, <2>1, <2>2, BeginOutcomes DEF RowInv, IsPrefix
  <2>4. row.state = "complete" /\ row.steps = Job[s]
    BY <2>1, <2>2 DEF BeginOutcome
  <2>5. row.done = Job[s]
    BY <1>3 DEF BeginComplete, Return, TypeOK
  <2> QED
    BY <2>3, <2>4, <2>5
<1>4. CASE Completed(s)
  <2>1. Matches(row, req[s]) \/ result'[s] = result[s]
    BY <1>4 DEF Completed, Return
  <2>2. ASSUME Matches(row, req[s])
        PROVE  row'.state = "complete" /\ row'.steps = Job[s] /\ row'.done = Job[s]
    <3>1. pc[s] = "complete" /\ Finished(row, req[s], row')
      BY <1>4, <2>2, MatchedRow DEF Matched, Completed
    <3>2. row.steps = Job[s]
      BY <3>1 DEF HolderInv, Holding, Working
    <3>3. Len(row.done) = Len(row.steps) /\ \A i \in 1..Len(row.done) : row.done[i] = row.steps[i]
      BY <3>1 DEF Finished, RowInv, IsPrefix
    <3>4. row.done \in Seq(Steps) /\ row.steps \in Seq(Steps)
      BY <1>1 DEF Rows
    <3>5. row.done = row.steps
      BY <3>3, <3>4, SeqEqual
    <3> QED
      BY <3>1, <3>2, <3>5 DEF Finished
  <2> QED
    BY <1>2, <2>1, <2>2
<1>5. CASE ~Begin(s) /\ ~Step(s) /\ ~Disturb(s)
  BY <1>2, <1>5, OthersKeep
<1>6. CASE \/ Begin(s) \/ BeginGranted(s) \/ BeginRefused(s) \/ StepStart(s)
           \/ StepSucceeds(s) \/ Checkpointed(s) \/ Complete(s) \/ Fail(s) \/ Failed(s)
           \/ Disturb(s)
  <2>1. result'[s] = result[s] \/ result'[s] # "success"
    BY <1>6 DEF Begin, BeginGranted, BeginRefused, StepStart, StepSucceeds, Checkpointed,
         Complete, Fail, Failed, Disturb, StepFails, Cancelled, FailUnrecorded, Lose,
         Crash, Return, TypeOK
  <2> QED
    BY <1>2, <2>1
<1> QED
  BY <1>2, <1>3, <1>4, <1>5, <1>6 DEF Step

LEMMA NextIInv == IInv /\ [Next]_vars => IInv'
BY NextType, NextRowInv, NextHolderInv, NextUniqueInv, NextCurrentInv, NextRequestInv,
   NextLateInv, NextRanInv, NextBegunInv, NextLeaseInv, NextSuccess DEF IInv

-------------------------------------------------------------------------------
(* Safety *)

\* The inductive invariant holds in every reachable state.
THEOREM Invariance == Spec => []IInv
<1> QED
  BY InitIInv, NextIInv, PTL DEF Spec

\* No order of statements makes the table reject an update.
THEOREM SchemaHoldsAlways == Spec => []SchemaHolds
<1>1. IInv => SchemaHolds
  BY DEF IInv, RowInv, SchemaHolds
<1> QED
  BY <1>1, Invariance, PTL

\* completed_steps is at every moment a prefix of the definition whose steps all
\* ran successfully.
THEOREM RecordedStepsRanAlways == Spec => []RecordedStepsRan
<1>1. IInv => RecordedStepsRan
  BY DEF IInv, RowInv, RanInv, RecordedStepsRan
<1> QED
  BY <1>1, Invariance, PTL

\* No callback is called before every earlier step is durable.
THEOREM NoStepSkippedEver == Spec => []NoStepSkipped
<1>1. IInv => NoStepSkipped
  BY DEF IInv, HolderInv, NoStepSkipped, Holding, Working
<1> QED
  BY <1>1, Invariance, PTL

\* Until some clock passes the lease a run was last granted the row is that run's,
\* however far the clocks are apart.
THEOREM LeaseExcludes == Spec => []LeaseExclusion
<1>1. IInv => LeaseExclusion
  BY DEF IInv, LeaseInv, CurrentInv, LeaseExclusion, Working
<1> QED
  BY <1>1, Invariance, PTL

\* A run reports success only of an instance that is durably complete.
THEOREM SuccessIsTrue == Spec => []SuccessIsDurable
<1>1. IInv => SuccessIsDurable
  BY DEF IInv
<1> QED
  BY <1>1, Invariance, PTL

\* A callback is called at most once under one attempt.
THEOREM OncePerAttemptAlways == Spec => OncePerAttempt
<1>1. ASSUME IInv, [Next]_vars, NEW r \in Runners, pc[r] # "step", pc'[r] = "step"
      PROVE  <<attempt[r], NextStep(r)>> \notin begun
  <2> USE <1>1 DEF IInv, TypeOK
  <2>1. StepStart(r)
    <3>1. Begin(r) \/ Step(r) \/ Disturb(r)
      BY OthersKeep
    <3>2. ~Begin(r) /\ ~StepSucceeds(r) /\ ~Complete(r) /\ ~Fail(r)
      BY DEF Begin, StepSucceeds, Complete, Fail, Send
    <3>3. ~BeginGranted(r) /\ ~BeginComplete(r) /\ ~BeginRefused(r) /\ ~Failed(r)
      BY DEF BeginGranted, BeginComplete, BeginRefused, Failed, Goto, Send, Return
    <3>4. ~Checkpointed(r) /\ ~Completed(r)
      BY DEF Checkpointed, Completed, Goto, Send, Return
    <3>5. ~Disturb(r)
      BY DEF Disturb, StepFails, Cancelled, FailUnrecorded, Lose, Crash, Goto, Send, Return
    <3> QED
      BY <3>1, <3>2, <3>3, <3>4, <3>5 DEF Step
  <2>2. pc[r] = "loop" /\ count[r] < Len(Job[r]) /\ count[r] \in Nat
    BY <2>1 DEF StepStart
  <2>3. count[r] + 1 \in 1..Len(Job[r]) /\ count[r] + 1 > count[r]
    BY <2>2, JobAssumption
  <2> QED
    BY <2>2, <2>3 DEF BegunInv, NextStep
<1>2. IInv /\ [Next]_vars =>
        [\A r \in Runners : pc[r] # "step" /\ pc'[r] = "step" =>
           <<attempt[r], NextStep(r)>> \notin begun]_vars
  BY <1>1
<1> QED
  BY <1>2, Invariance, PTL DEF Spec, OncePerAttempt

-------------------------------------------------------------------------------
(* BatchRun implements BatchPromise *)

\* Executing a statement records a step, finishes, starts the instance, or does
\* nothing the promise speaks of.
LEMMA ExecuteKeepsPromise ==
  ASSUME IInv, IInv', NEW q \in Requests, Sent(q), row' = Execute(row, q), ran' = ran
  PROVE  [Promise!Next]_(Promise!promised)
<1> USE DEF IInv, Promise!promised
<1>0. row \in Rows /\ row' \in Rows
  BY DEF TypeOK
<1>1. CASE Unchanged(row, row')
  BY <1>1 DEF Unchanged
<1>2. CASE Started(row, q, row')
  <2>1. PICK s \in Runners : q.steps = Job[s]
    BY <1>2, SentFacts DEF Started, BeginSent
  <2>2. row.steps = <<>> /\ row.done = <<>>
    BY <1>2 DEF RowInv, Started
  <2>3. Promise!Start
    BY <1>2, <2>1, <2>2 DEF Started, Promise!Start
  <2> QED
    BY <2>3 DEF Promise!Next
<1>3. CASE Resumed(row, q, row')
  BY <1>3 DEF Resumed
<1>4. CASE Recorded(row, q, row')
  <2>1. <<q.attempt, q.step>> \in ran
    BY <1>4, SentFacts DEF Recorded
  <2>2. q.step \in {p[2] : p \in ran}
    BY <2>1
  <2>3. Promise!Record
    BY <1>4, <2>2 DEF Recorded, Promise!Record
  <2> QED
    BY <2>3 DEF Promise!Next
<1>5. CASE Finished(row, q, row')
  <2>1. Len(row.done) = Len(row.steps) /\ \A i \in 1..Len(row.done) : row.done[i] = row.steps[i]
    BY <1>5 DEF Finished, RowInv, IsPrefix
  <2>2. row.done \in Seq(Steps) /\ row.steps \in Seq(Steps)
    BY <1>0 DEF Rows
  <2>3. row.done = row.steps
    BY <2>1, <2>2, SeqEqual
  <2>4. row.steps # <<>>
    BY <1>0, <1>5 DEF Finished, RowInv, SchemaChecks, Rows
  <2>5. Promise!Finish
    BY <1>5, <2>3, <2>4 DEF Finished, Promise!Finish
  <2> QED
    BY <2>5 DEF Promise!Next
<1>6. CASE GaveUp(row, q, row')
  BY <1>6 DEF GaveUp
<1> QED
  BY <1>0, <1>1, <1>2, <1>3, <1>4, <1>5, <1>6, ExecuteCases

LEMMA SecondOfUnion ==
  ASSUME NEW S, NEW x, NEW y
  PROVE  {p[2] : p \in S \cup {<<x, y>>}} = {p[2] : p \in S} \cup {y}
<1>1. ASSUME NEW e \in {p[2] : p \in S \cup {<<x, y>>}}
      PROVE  e \in {p[2] : p \in S} \cup {y}
  BY <1>1
<1>2. ASSUME NEW e \in {p[2] : p \in S} \cup {y}
      PROVE  e \in {p[2] : p \in S \cup {<<x, y>>}}
  <2>1. <<x, y>>[2] = y
    OBVIOUS
  <2> QED
    BY <1>2, <2>1
<1> QED
  BY <1>1, <1>2

\* A callback that succeeds is one the promise allows: a step already recorded or
\* the next one.
LEMMA SuccessKeepsPromise ==
  ASSUME IInv, NEW r \in Runners, pc[r] = "step", row' = row,
         ran' = ran \cup {<<attempt[r], NextStep(r)>>}
  PROVE  Promise!Succeed
<1>1. /\ row.steps = Job[r] /\ count[r] <= Len(row.done) /\ count[r] < Len(Job[r])
      /\ count[r] \in Nat /\ row \in Rows
  BY DEF IInv, TypeOK, HolderInv, Holding, Working
<1>2. count[r] + 1 \in 1..Len(row.steps) /\ count[r] + 1 <= Len(row.done) + 1
  BY <1>1, JobAssumption DEF Rows
<1>3. {p[2] : p \in ran'} = {p[2] : p \in ran} \cup {row.steps[count[r] + 1]}
  <2>1. NextStep(r) = row.steps[count[r] + 1]
    BY <1>1 DEF NextStep
  <2> QED
    BY <2>1, SecondOfUnion
<1> QED
  BY <1>2, <1>3 DEF Promise!Succeed

LEMMA NextKeepsPromise ==
  ASSUME IInv, IInv', [Next]_vars
  PROVE  [Promise!Next]_(Promise!promised)
<1> USE DEF IInv
<1>1. ASSUME NEW r \in Runners, StepSucceeds(r) PROVE Promise!Next
  BY <1>1, SuccessKeepsPromise DEF StepSucceeds, durable, Promise!Next
<1>2. ASSUME NEW r \in Runners, Cancelled(r), pc[r] = "step" PROVE Promise!Next
  BY <1>2, SuccessKeepsPromise DEF Cancelled, durable, Promise!Next
<1>3. CASE row' = row /\ ran' = ran
  BY <1>3 DEF Promise!promised
<1>4. ASSUME NEW q \in Requests, Sent(q), row' = Execute(row, q), ran' = ran
      PROVE  [Promise!Next]_(Promise!promised)
  BY <1>4, ExecuteKeepsPromise
<1>5. CASE ran' = ran
  BY <1>3, <1>4, <1>5, RowSteps
<1>6. ASSUME NEW r \in Runners, Begin(r) \/ Step(r) \/ Disturb(r), ~StepSucceeds(r),
             ~(Cancelled(r) /\ pc[r] = "step")
      PROVE  ran' = ran
  BY <1>6 DEF Begin, Step, Disturb, BeginGranted, BeginComplete, BeginRefused, StepStart,
       StepFails, Cancelled, Checkpointed, Complete, Completed, Fail, FailUnrecorded,
       Failed, Lose, Crash, history
<1>7. ASSUME NEW q \in late, ExecuteLate(q) PROVE ran' = ran
  BY <1>7 DEF ExecuteLate, history
<1>8. Tick \/ UNCHANGED vars => ran' = ran
  BY DEF Tick, history, vars
<1> QED
  BY <1>1, <1>2, <1>5, <1>6, <1>7, <1>8 DEF Next

\* Seen from the application, runs over the store behave like BatchPromise: steps
\* succeed at least once and never ahead of the record, the record grows by one
\* succeeded step at a time, and completion is final.
THEOREM Implementation == Spec => KeepsPromise
<1>1. Init => Promise!Init
  BY DEF Init, Absent, Promise!Init
<1>2. IInv /\ IInv' /\ [Next]_vars => [Promise!Next]_(Promise!promised)
  BY NextKeepsPromise
<1> QED
  BY <1>1, <1>2, Invariance, PTL DEF Spec, KeepsPromise, Promise!Spec
================================================================================
