----------------------------- MODULE BatchPromise -----------------------------
(***************************************************************************)
(* What a durable batch instance promises to the application (the doc      *)
(* comments of Runner.Run and SQLStoreOptions), without runners, leases or *)
(* statements: the first Begin fixes the definition, steps succeed at      *)
(* least once and never ahead of the record, the record grows by one       *)
(* succeeded step at a time, and completion is final.                      *)
(***************************************************************************)
EXTENDS Naturals, Sequences

CONSTANT Definitions  \* the step sequences some process deploys

VARIABLES
  definition,  \* the instance's ordered steps, <<>> before it exists
  recorded,    \* steps durably completed, in order
  finished,    \* the instance is complete
  succeeded    \* steps whose callback has succeeded at least once

promised == <<definition, recorded, finished, succeeded>>

Init == definition = <<>> /\ recorded = <<>> /\ ~finished /\ succeeded = {}

Start ==
  /\ definition = <<>>
  /\ definition' \in Definitions
  /\ UNCHANGED <<recorded, finished, succeeded>>

\* At least once: a step already recorded may succeed again (a run that has
\* lost its lease), one beyond the next never does.
Succeed ==
  /\ \E i \in 1..Len(definition) :
       i <= Len(recorded) + 1 /\ succeeded' = succeeded \cup {definition[i]}
  /\ UNCHANGED <<definition, recorded, finished>>

Record ==
  /\ ~finished
  /\ Len(recorded) < Len(definition)
  /\ definition[Len(recorded) + 1] \in succeeded
  /\ recorded' = Append(recorded, definition[Len(recorded) + 1])
  /\ UNCHANGED <<definition, finished, succeeded>>

Finish ==
  /\ definition # <<>> /\ recorded = definition
  /\ finished' = TRUE
  /\ UNCHANGED <<definition, recorded, succeeded>>

Next == Start \/ Succeed \/ Record \/ Finish

Spec == Init /\ [][Next]_promised
================================================================================
