---------------------------- MODULE BatchInvariant ----------------------------
(***************************************************************************)
(* The inductive invariant of BatchRun, part by part.  BatchRunProofs      *)
(* proves that it holds; the runs check it on small instances.             *)
(***************************************************************************)
EXTENDS BatchRun

\* A run that may still advance its attempt, and one that still knows it.
Working == {"loop", "step", "checkpoint", "complete"}
Holding == Working \cup {"failing", "fail"}

RowInv ==
  /\ IF row.state = "absent"
     THEN row.attempt = 0 /\ row.done = <<>> /\ row.steps = <<>>
     ELSE SchemaChecks(row)
  /\ IsPrefix(row.done, row.steps)

\* A holder's attempt is one the row has counted, over the holder's own
\* definition, and the row has at least the steps the holder knows of.
HolderInv ==
  \A r \in Runners :
    /\ pc[r] \in Holding =>
         /\ 1 <= attempt[r] /\ attempt[r] <= row.attempt
         /\ row.steps = Job[r]
         /\ count[r] <= Len(row.done)
    /\ pc[r] = "complete" => count[r] = Len(Job[r])

\* No two runs hold the same attempt.
UniqueInv ==
  \A r, s \in Runners :
    pc[r] \in Holding /\ pc[s] \in Holding /\ r # s => attempt[r] # attempt[s]

\* While the row is still at a working run's attempt, it is exactly as that run
\* left it.
CurrentInv ==
  \A r \in Runners : pc[r] \in Working /\ attempt[r] = row.attempt =>
    row.state = "running" /\ Len(row.done) = count[r] /\ row.lease = held[r]

\* A Begin was sent for a deployed definition at a time some clock has reached.
BeginSent(q) == \E s \in Runners : q.steps = Job[s] /\ q.now <= Clock(s)

RequestInv ==
  \A r \in Runners :
    /\ pc[r] = "begin" => req[r].steps = Job[r] /\ BeginSent(req[r])
    /\ pc[r] \in {"checkpoint", "complete", "fail"} => req[r].attempt = attempt[r]
    /\ pc[r] = "checkpoint" =>
         req[r].step = NextStep(r) /\ <<attempt[r], req[r].step>> \in ran

\* Nobody works under the attempt of a late statement any more.
LateInv ==
  \A q \in late :
    IF q.op = "begin" THEN BeginSent(q)
    ELSE /\ q.attempt <= row.attempt
         /\ \A r \in Runners : pc[r] \in Working => attempt[r] # q.attempt
         /\ q.op = "checkpoint" => <<q.attempt, q.step>> \in ran

RanInv ==
  \A i \in 1..Len(row.done) : \E k \in 1..row.attempt : <<k, row.done[i]>> \in ran

\* A working run has called no callback beyond the one it is at.
BegunInv ==
  /\ \A p \in begun : p[1] <= row.attempt
  /\ \A r \in Runners : \A i \in 1..Len(Job[r]) :
       /\ pc[r] = "loop" /\ i > count[r] => <<attempt[r], Job[r][i]>> \notin begun
       /\ pc[r] \in {"step", "checkpoint"} /\ i > count[r] + 1 =>
            <<attempt[r], Job[r][i]>> \notin begun

LeaseInv ==
  \A r \in Runners :
    pc[r] \in Working /\ (\A s \in Runners : Clock(s) < held[r]) =>
      row.attempt = attempt[r]

IInv ==
  /\ TypeOK /\ RowInv /\ HolderInv /\ UniqueInv /\ CurrentInv
  /\ RequestInv /\ LateInv /\ RanInv /\ BegunInv /\ LeaseInv /\ SuccessIsDurable
================================================================================
