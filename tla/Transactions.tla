------------------------------ MODULE Transactions ------------------------------
(***************************************************************************)
(* Manager.Within (spice/data/transaction.go) over the pool that Open made *)
(* (postgres.go): goroutines run boundaries side by side, some of them one *)
(* inside the other, and share MaxOpenConnections connections.             *)
(*                                                                         *)
(* Of database/sql: a begin waits for a connection or for its context; a   *)
(* context that ends rolls its open transactions back behind their owner,  *)
(* and COMMIT then reports that the transaction is done; a connection that *)
(* breaks during COMMIT leaves a session that may still commit.            *)
(***************************************************************************)
EXTENDS PoolOptions, FiniteSets

CONSTANTS
  Callers,      \* goroutines, each with a context and one boundary
  Nested,       \* callers whose work calls Within once more
  Pool,         \* options of the pool
  MaxFaults     \* bound: errors of connections and of the server

Boundaries == (Callers \X {1}) \cup (Nested \X {2})

\* Mutant: the pool has no limit.
UnlimitedOpen == Cardinality(Boundaries)

MaxOpen == normalizePool(Pool).open

ASSUME NestedAssumption == Nested \subseteq Callers
ASSUME PoolAssumption == Pool \in Pools /\ validPool(Defaulted(Pool))

VARIABLES
  pc,           \* pc[t]: where boundary t is
  status,       \* status[t]: its transaction at the server
  held,         \* boundaries whose transaction has a connection
  result,       \* result[t]: "none", "ok", "error", "panic", "exit"
  abandoned,    \* boundaries whose work did not succeed (history)
  unheard,      \* boundaries whose COMMIT was not answered (history)
  cancelled,    \* callers whose context has ended
  faults

vars == <<pc, status, held, result, abandoned, unheard, cancelled, faults>>

-------------------------------------------------------------------------------

Fault == faults < MaxFaults /\ faults' = faults + 1

Inside(t) == IF t[2] = 1 /\ t[1] \in Nested THEN {<<t[1], 2>>} ELSE {}
InCall(t) == pc[t] \notin {"idle", "returned"}
Exited(t) == result[t] = "exit"

\* t runs its own code, and not a boundary inside it.
Works(t) == pc[t] = "work" /\ \A u \in Inside(t) : ~InCall(u) /\ ~Exited(u)

Goto(t, state) == pc' = [pc EXCEPT ![t] = state]

Return(t, how) == /\ Goto(t, "returned")
                  /\ result' = [result EXCEPT ![t] = how]

\* The transaction ends at the server and its connection is free.
Ends(t, state) == /\ status' = [status EXCEPT ![t] = state]
                  /\ held' = held \ {t}

Init ==
  /\ pc = [t \in Boundaries |-> "idle"]
  /\ status = [t \in Boundaries |-> "absent"]
  /\ result = [t \in Boundaries |-> "none"]
  /\ held = {} /\ abandoned = {} /\ unheard = {} /\ cancelled = {} /\ faults = 0

-------------------------------------------------------------------------------
(* Begin *)

Call(t) ==
  /\ pc[t] = "idle"
  /\ t[2] = 2 => Works(<<t[1], 1>>)
  /\ Goto(t, "begin")
  /\ UNCHANGED <<status, held, result, abandoned, unheard, cancelled, faults>>

Begin(t) ==
  /\ pc[t] = "begin" /\ t[1] \notin cancelled
  /\ Cardinality(held) < MaxOpen
  /\ Goto(t, "work")
  /\ status' = [status EXCEPT ![t] = "open"]
  /\ held' = held \cup {t}
  /\ UNCHANGED <<result, abandoned, unheard, cancelled, faults>>

\* The context ends while it waits, or no connection can be made.
BeginRefused(t) ==
  /\ pc[t] = "begin"
  /\ \/ t[1] \in cancelled /\ UNCHANGED faults
     \/ Fault
  /\ Return(t, "error")
  /\ UNCHANGED <<status, held, abandoned, unheard, cancelled>>

-------------------------------------------------------------------------------
(* The work, and the ways out of it *)

WorkSucceeds(t) ==
  /\ Works(t)
  /\ Goto(t, "commit")
  /\ UNCHANGED <<status, held, result, abandoned, unheard, cancelled, faults>>

\* Mutant: a failure is logged and the transaction committed.
WorkFailureIgnored(t) ==
  /\ Works(t)
  /\ abandoned' = abandoned \cup {t}
  /\ \/ Goto(t, "commit")
     \/ Goto(t, "unwind")
  /\ UNCHANGED <<status, held, result, unheard, cancelled, faults>>

\* Mutant: an error of the work is returned without a rollback.
WorkFailsOpen(t) ==
  /\ Works(t)
  /\ abandoned' = abandoned \cup {t}
  /\ \/ Return(t, "error")
     \/ Goto(t, "unwind") /\ UNCHANGED result
  /\ UNCHANGED <<status, held, unheard, cancelled, faults>>

\* The work returns an error, or panics and is unwound.
WorkFails(t) ==
  /\ Works(t)
  /\ abandoned' = abandoned \cup {t}
  /\ \/ Goto(t, "rollback")
     \/ Goto(t, "unwind")
  /\ UNCHANGED <<status, held, result, unheard, cancelled, faults>>

\* runtime.Goexit: recover finds nothing, and the transaction is left open.
Exit(t) ==
  /\ pc[t] = "work" /\ \A u \in Inside(t) : ~InCall(u)
  /\ Return(t, "exit")
  /\ abandoned' = abandoned \cup {t}
  /\ UNCHANGED <<status, held, unheard, cancelled, faults>>

\* Mutant: a panic leaves through Within without a rollback.
RolledBackUnlessPanic(t) ==
  /\ pc[t] \in {"rollback", "unwind"}
  /\ Return(t, IF pc[t] = "unwind" THEN "panic" ELSE "error")
  /\ IF pc[t] = "unwind" THEN UNCHANGED <<status, held>> ELSE Ends(t, "rolledback")
  /\ UNCHANGED <<abandoned, unheard, cancelled, faults>>

\* ROLLBACK, whether or not it is answered (a broken connection rolls back too),
\* or already done by the end of the context.
RolledBack(t) ==
  /\ pc[t] \in {"rollback", "unwind"}
  /\ Return(t, IF pc[t] = "unwind" THEN "panic" ELSE "error")
  /\ Ends(t, "rolledback")
  /\ UNCHANGED <<abandoned, unheard, cancelled, faults>>

-------------------------------------------------------------------------------
(* COMMIT *)

Committed(t) ==
  /\ pc[t] = "commit" /\ status[t] = "open"
  /\ Return(t, "ok")
  /\ Ends(t, "stored")
  /\ UNCHANGED <<abandoned, unheard, cancelled, faults>>

CommitRefused(t) ==
  /\ pc[t] = "commit" /\ status[t] = "open"
  /\ Fault
  /\ Return(t, "error")
  /\ Ends(t, "rolledback")
  /\ UNCHANGED <<abandoned, unheard, cancelled>>

\* The connection breaks under COMMIT; its session is still there.
CommitUnheard(t) ==
  /\ pc[t] = "commit" /\ status[t] = "open"
  /\ Fault
  /\ Return(t, "error")
  /\ Ends(t, "left")
  /\ unheard' = unheard \cup {t}
  /\ UNCHANGED <<abandoned, cancelled>>

\* Mutant: a transaction that is done counts as committed.
CommitDoneIsFine(t) ==
  /\ pc[t] = "commit" /\ t[1] \in cancelled
  /\ Return(t, "ok")
  /\ UNCHANGED <<status, held, abandoned, unheard, cancelled, faults>>

\* sql.ErrTxDone or the context's error: its transaction is rolled back behind
\* it, if that has not happened yet.
CommitTooLate(t) ==
  /\ pc[t] = "commit" /\ t[1] \in cancelled
  /\ Return(t, "error")
  /\ UNCHANGED <<status, held, abandoned, unheard, cancelled, faults>>

-------------------------------------------------------------------------------
(* Contexts, and sessions left behind *)

Cancel(c) ==
  /\ c \notin cancelled
  /\ cancelled' = cancelled \cup {c}
  /\ UNCHANGED <<pc, status, held, result, abandoned, unheard, faults>>

\* database/sql rolls back the transactions of a context that has ended.
RolledBackBehind(t) ==
  /\ t[1] \in cancelled /\ status[t] = "open"
  /\ Ends(t, "rolledback")
  /\ UNCHANGED <<pc, result, abandoned, unheard, cancelled, faults>>

SessionEnds(t) ==
  /\ status[t] = "left"
  /\ \E state \in {"stored", "rolledback"} : status' = [status EXCEPT ![t] = state]
  /\ UNCHANGED <<pc, held, result, abandoned, unheard, cancelled, faults>>

-------------------------------------------------------------------------------

\* Steps that need no fault.
Step(t) ==
  \/ WorkSucceeds(t) \/ WorkFails(t) \/ RolledBack(t) \/ Committed(t) \/ CommitTooLate(t)

Disturb(t) == Exit(t) \/ CommitRefused(t) \/ CommitUnheard(t)

Next ==
  \/ \E t \in Boundaries : Call(t) \/ Begin(t) \/ BeginRefused(t) \/ Step(t) \/ Disturb(t)
  \/ \E t \in Boundaries : RolledBackBehind(t) \/ SessionEnds(t)
  \/ \E c \in Callers : Cancel(c)

Spec == Init /\ [][Next]_vars

\* The work ends, the server answers or the connection breaks, the pool serves
\* those who wait in their order, and the context of a goroutine that is gone
\* ends (as that of a request or a test does).
Fairness ==
  /\ \A t \in Boundaries : /\ WF_vars(Step(t))
                           /\ WF_vars(t[1] \in cancelled /\ BeginRefused(t))
                           /\ SF_vars(Begin(t))
                           /\ WF_vars(RolledBackBehind(t))
  /\ \A c \in Callers :
       WF_vars((\E t \in Boundaries : t[1] = c /\ Exited(t)) /\ Cancel(c))

FairSpec == Spec /\ Fairness

-------------------------------------------------------------------------------

\* Every variable has its type, and at most MaxOpenConnections are in use, each by
\* an open transaction.
TypeOK ==
  /\ pc \in [Boundaries -> {"idle", "begin", "work", "commit", "rollback", "unwind",
                            "returned"}]
  /\ status \in [Boundaries -> {"absent", "open", "left", "stored", "rolledback"}]
  /\ result \in [Boundaries -> {"none", "ok", "error", "panic", "exit"}]
  /\ abandoned \subseteq Boundaries /\ unheard \subseteq Boundaries /\ cancelled \subseteq Callers
  /\ held = {t \in Boundaries : status[t] = "open"}
  /\ Cardinality(held) <= normalizePool(Pool).open

\* "commits only when work succeeds" (transaction.go:79): what is stored is the
\* work of a boundary that succeeded, and one that returned an error is stored
\* only when nobody can tell; one that returned none is stored for good.
StoredOnlyBySuccess ==
  \A t \in Boundaries :
    /\ status[t] = "stored" =>
         /\ t \notin abandoned
         /\ result[t] = "ok" \/ t \in unheard
    /\ result[t] = "ok" => status[t] = "stored"

\* No way out of Within keeps a connection, except that a context's end takes it
\* back a moment later, and that a goroutine that exits leaves it to its context.
ConnectionsReturned ==
  \A t \in held : pc[t] = "returned" => t[1] \in cancelled \/ Exited(t)

\* Boundary t waits for a connection, and its context has not ended.
Waits(t) == pc[t] = "begin" /\ t[1] \notin cancelled

\* The connection of h can come back without another one being given out first: by
\* the end of its context, or because its goroutine still runs or is on its way out.
GivesBack(h) ==
  \/ h[1] \in cancelled
  \/ pc[h] \in {"commit", "rollback", "unwind"}
  \/ pc[h] = "work" /\ \A u \in Inside(h) : ~Waits(u) /\ ~Exited(u)

\* Somebody waits for connections none of which will come back as things are.
Stalled ==
  /\ \E t \in Boundaries : Waits(t)
  /\ Cardinality(held) = MaxOpen
  /\ \A h \in held : ~GivesBack(h)

\* A boundary inside another needs a second connection while it holds the first, and
\* Within has no protection against everyone waiting for everyone; but nothing else
\* makes it: the pool stalls only when as many callers nest as it has connections
\* (not counting those that goroutines took with them by runtime.Goexit).
StallNeedsNesting ==
  Stalled => Cardinality(Nested) + Cardinality({h \in held : Exited(h)}) >= MaxOpen

\* In a pool with more connections than callers that nest, everybody who waits for
\* a connection is served or refused, and every connection comes back, though
\* boundaries nest, fail, panic, exit and break.
EventuallyServed ==
  \A t \in Boundaries :
    (pc[t] = "begin" \/ t \in held) ~> (pc[t] # "begin" /\ t \notin held)
================================================================================
