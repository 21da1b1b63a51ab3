-------------------------- MODULE TransactionProofs --------------------------
(***************************************************************************)
(* Proofs about Transactions, for every set of callers, nested or not, and *)
(* every pool that Open accepts.                                           *)
(***************************************************************************)
EXTENDS TransactionInvariant, FiniteSetTheorems, TLAPS

-------------------------------------------------------------------------------
(* The pool *)

\* The limit of a pool is a number (and not zero, which would mean none).
LEMMA LimitIsPositive == MaxOpen \in Nat \ {0} /\ MaxOpen = normalizePool(Pool).open
<1>1. normalizePool(Pool) = Defaulted(Pool) /\ validPool(Defaulted(Pool))
  BY PoolAssumption DEF normalizePool
<1>2. Defaulted(Pool).open \in 1..maxConfiguredConnectionCount
  BY <1>1 DEF validPool
<1>3. MaxOpen = Defaulted(Pool).open
  BY <1>1 DEF MaxOpen
<1>4. maxConfiguredConnectionCount \in Int
  BY DEF maxConfiguredConnectionCount
<1>5. MaxOpen \in 1..maxConfiguredConnectionCount
  BY <1>2, <1>3
<1>6. MaxOpen \in Nat \ {0}
  BY <1>4, <1>5
<1> QED
  BY <1>6 DEF MaxOpen

\* The connections in use are those of the open transactions, and no more than the
\* pool allows.
PoolInv == /\ held = {t \in Boundaries : status[t] = "open"}
           /\ IsFiniteSet(held) /\ Cardinality(held) <= MaxOpen

LEMMA BeginTakesOne ==
  ASSUME IInv, NEW t \in Boundaries, Begin(t)
  PROVE  PoolInv'
<1>1. t \notin held
  BY DEF IInv, TypeOK, PhaseInv, Begin
<1>2. IsFiniteSet(held') /\ Cardinality(held') = Cardinality(held) + 1
  BY <1>1, FS_AddElement DEF Begin, IInv
<1>3. Cardinality(held) \in Nat /\ Cardinality(held) < MaxOpen /\ MaxOpen \in Nat
  BY FS_CardinalityType, LimitIsPositive DEF IInv, Begin
<1>4. held' = {u \in Boundaries : status'[u] = "open"}
  BY DEF IInv, TypeOK, Begin
<1> QED
  BY <1>2, <1>3, <1>4 DEF PoolInv, MaxOpen

LEMMA EndFreesOne ==
  ASSUME IInv, NEW t \in Boundaries, NEW state, state # "open", Ends(t, state)
  PROVE  PoolInv'
<1>1. held' = held \ {t} /\ status' = [status EXCEPT ![t] = state]
  BY DEF Ends
<1>2. IsFiniteSet(held') /\ Cardinality(held') <= Cardinality(held)
  <2>1. IsFiniteSet(held) /\ Cardinality(held) \in Nat
    BY FS_CardinalityType DEF IInv
  <2>2. IsFiniteSet(held \ {t})
    BY <2>1, FS_RemoveElement
  <2>3. Cardinality(held \ {t}) \in {Cardinality(held), Cardinality(held) - 1}
    BY <2>1, FS_RemoveElement
  <2>4. Cardinality(held \ {t}) <= Cardinality(held)
    BY <2>1, <2>3
  <2> QED
    BY <1>1, <2>2, <2>4
<1>3. Cardinality(held) \in Nat /\ Cardinality(held) <= MaxOpen /\ MaxOpen \in Nat
      /\ Cardinality(held') \in Nat
  BY <1>2, FS_CardinalityType, LimitIsPositive DEF IInv, TypeOK
<1>4. held' = {u \in Boundaries : status'[u] = "open"}
  BY <1>1 DEF IInv, TypeOK
<1> QED
  BY <1>2, <1>3, <1>4 DEF PoolInv, MaxOpen

LEMMA PoolKept ==
  ASSUME IInv, UNCHANGED <<status, held>>
  PROVE  PoolInv'
BY DEF IInv, TypeOK, PoolInv, MaxOpen

LEMMA PoolPreserved ==
  ASSUME IInv, [Next]_vars
  PROVE  PoolInv'
<1>1. ASSUME NEW t \in Boundaries, Begin(t) PROVE PoolInv'
  BY <1>1, BeginTakesOne
<1>2. ASSUME NEW t \in Boundaries,
             RolledBack(t) \/ Committed(t) \/ CommitRefused(t) \/ CommitUnheard(t)
               \/ RolledBackBehind(t)
      PROVE  PoolInv'
  BY <1>2, EndFreesOne DEF RolledBack, Committed, CommitRefused, CommitUnheard,
     RolledBackBehind
<1>3. ASSUME NEW t \in Boundaries, SessionEnds(t) PROVE PoolInv'
  <2>1. PICK state \in {"stored", "rolledback"} : status' = [status EXCEPT ![t] = state]
    BY <1>3 DEF SessionEnds
  <2>2. {u \in Boundaries : status'[u] = "open"} = {u \in Boundaries : status[u] = "open"}
    BY <1>3, <2>1 DEF SessionEnds, IInv, TypeOK
  <2> QED
    BY <1>3, <2>2 DEF SessionEnds, IInv, TypeOK, PoolInv, MaxOpen
<1>4. ASSUME NEW t \in Boundaries,
             Call(t) \/ BeginRefused(t) \/ WorkSucceeds(t) \/ WorkFails(t)
               \/ CommitTooLate(t) \/ Exit(t)
      PROVE  PoolInv'
  BY <1>4, PoolKept DEF Call, BeginRefused, WorkSucceeds, WorkFails, CommitTooLate, Exit
<1>5. CASE (\E c \in Callers : Cancel(c)) \/ UNCHANGED vars
  BY <1>5, PoolKept DEF Cancel, vars
<1> QED
  BY <1>1, <1>2, <1>3, <1>4, <1>5 DEF Next, Step, Disturb

-------------------------------------------------------------------------------
(* The boundaries *)

Types ==
  /\ pc \in [Boundaries -> {"idle", "begin", "work", "commit", "rollback", "unwind",
                            "returned"}]
  /\ status \in [Boundaries -> {"absent", "open", "left", "stored", "rolledback"}]
  /\ result \in [Boundaries -> {"none", "ok", "error", "panic", "exit"}]
  /\ abandoned \subseteq Boundaries /\ unheard \subseteq Boundaries /\ cancelled \subseteq Callers

LEMMA TypesPreserved ==
  ASSUME IInv, [Next]_vars
  PROVE  Types'
<1> USE DEF IInv, TypeOK, Types, Goto, Return, Ends
<1>1. ASSUME NEW t \in Boundaries, Call(t) \/ Begin(t) \/ BeginRefused(t) PROVE Types'
  BY <1>1 DEF Call, Begin, BeginRefused
<1>2. ASSUME NEW t \in Boundaries, WorkSucceeds(t) \/ WorkFails(t) \/ Exit(t) PROVE Types'
  BY <1>2 DEF WorkSucceeds, WorkFails, Exit
<1>3. ASSUME NEW t \in Boundaries, RolledBack(t) \/ CommitTooLate(t) PROVE Types'
  BY <1>3 DEF RolledBack, CommitTooLate
<1>4. ASSUME NEW t \in Boundaries, Committed(t) \/ CommitRefused(t) \/ CommitUnheard(t)
      PROVE  Types'
  BY <1>4 DEF Committed, CommitRefused, CommitUnheard
<1>5. ASSUME NEW t \in Boundaries, RolledBackBehind(t) \/ SessionEnds(t) PROVE Types'
  BY <1>5 DEF RolledBackBehind, SessionEnds
<1>6. CASE (\E c \in Callers : Cancel(c)) \/ UNCHANGED vars
  BY <1>6 DEF Cancel, vars
<1> QED
  BY <1>1, <1>2, <1>3, <1>4, <1>5, <1>6 DEF Next, Step, Disturb

\* What the invariant says of one boundary.
Sound(t) ==
  /\ pc[t] # "returned" => result[t] = "none"
  /\ pc[t] \in {"idle", "begin"} => status[t] = "absent" /\ t \notin abandoned
  /\ pc[t] \in {"work", "commit"} => OpenOrCut(t) /\ t \notin abandoned
  /\ pc[t] \in {"rollback", "unwind"} => OpenOrCut(t) /\ t \in abandoned
  /\ status[t] = "left" => t \in unheard /\ t \notin abandoned
  /\ t \in unheard => pc[t] = "returned" /\ result[t] = "error"
  /\ pc[t] = "returned" /\ status[t] = "open" => t[1] \in cancelled \/ Exited(t)
  /\ status[t] = "stored" => t \notin abandoned /\ (result[t] = "ok" \/ t \in unheard)
  /\ result[t] = "ok" => status[t] = "stored"

\* A step of one boundary says nothing of the others.
Apart(t) ==
  \A u \in Boundaries \ {t} :
    /\ pc'[u] = pc[u] /\ status'[u] = status[u] /\ result'[u] = result[u]
    /\ u \in abandoned' <=> u \in abandoned
    /\ u \in unheard' <=> u \in unheard

LEMMA SoundApart ==
  ASSUME NEW t, NEW u \in Boundaries \ {t}, Apart(t), Sound(u), cancelled \subseteq cancelled'
  PROVE  Sound(u)'
BY DEF Apart, Sound, OpenOrCut, Exited

LEMMA SoundWithin ==
  ASSUME IInv, NEW t \in Boundaries, Sound(t),
         Call(t) \/ Begin(t) \/ BeginRefused(t) \/ Step(t) \/ Disturb(t)
  PROVE  Sound(t)' /\ Apart(t) /\ cancelled' = cancelled
<1> USE DEF IInv, TypeOK, Sound, Apart, OpenOrCut, Exited, Goto, Return, Ends
<1>1. CASE Call(t) \/ Begin(t)
  BY <1>1 DEF Call, Begin
<1>2. CASE BeginRefused(t)
  BY <1>2 DEF BeginRefused
<1>3. CASE WorkSucceeds(t)
  BY <1>3 DEF WorkSucceeds, Works
<1>4. CASE WorkFails(t)
  BY <1>4 DEF WorkFails, Works
<1>5. CASE Exit(t)
  BY <1>5 DEF Exit
<1>6. CASE RolledBack(t)
  BY <1>6 DEF RolledBack
<1>7. CASE Committed(t)
  BY <1>7 DEF Committed
<1>8. CASE CommitRefused(t)
  BY <1>8 DEF CommitRefused
<1>9. CASE CommitUnheard(t)
  BY <1>9 DEF CommitUnheard
<1>10. CASE CommitTooLate(t)
  BY <1>10 DEF CommitTooLate
<1> QED
  BY <1>1, <1>2, <1>3, <1>4, <1>5, <1>6, <1>7, <1>8, <1>9, <1>10 DEF Step, Disturb

\* What the server and database/sql do behind a boundary.
LEMMA SoundBehind ==
  ASSUME IInv, NEW t \in Boundaries, Sound(t), RolledBackBehind(t) \/ SessionEnds(t)
  PROVE  Sound(t)' /\ Apart(t) /\ cancelled' = cancelled
<1> USE DEF IInv, TypeOK, Sound, Apart, OpenOrCut, Exited, Ends
<1>1. CASE RolledBackBehind(t)
  BY <1>1 DEF RolledBackBehind
<1>2. CASE SessionEnds(t)
  BY <1>2 DEF SessionEnds
<1> QED
  BY <1>1, <1>2

LEMMA SoundPreserved ==
  ASSUME IInv, [Next]_vars
  PROVE  \A t \in Boundaries : Sound(t)'
<1>1. \A t \in Boundaries : Sound(t)
  BY DEF IInv, PhaseInv, OutcomeInv, StoredOnlyBySuccess, Sound
<1>2. ASSUME NEW t \in Boundaries,
             \/ Call(t) \/ Begin(t) \/ BeginRefused(t) \/ Step(t) \/ Disturb(t)
             \/ RolledBackBehind(t) \/ SessionEnds(t)
      PROVE  \A u \in Boundaries : Sound(u)'
  <2>1. Sound(t)' /\ Apart(t) /\ cancelled' = cancelled
    BY <1>1, <1>2, SoundWithin, SoundBehind
  <2>2. ASSUME NEW u \in Boundaries \ {t} PROVE Sound(u)'
    BY <1>1, <2>1, SoundApart
  <2>3. ASSUME NEW u \in Boundaries, u = t PROVE Sound(u)'
    BY <2>1, <2>3
  <2> QED
    BY <2>2, <2>3
<1>3. CASE \E c \in Callers : Cancel(c)
  BY <1>1, <1>3 DEF Cancel, Sound, OpenOrCut, Exited
<1>4. CASE UNCHANGED vars
  BY <1>1, <1>4 DEF vars, Sound, OpenOrCut, Exited
<1> QED
  BY <1>2, <1>3, <1>4 DEF Next

-------------------------------------------------------------------------------
(* The theorems *)

LEMMA InitIInv == Init => IInv
<1> SUFFICES ASSUME Init PROVE IInv
  OBVIOUS
<1>1. IsFiniteSet({}) /\ Cardinality({}) = 0
  BY FS_EmptySet
<1>2. held = {} /\ held = {t \in Boundaries : status[t] = "open"}
  BY DEF Init
<1>3. Cardinality(held) <= normalizePool(Pool).open
  BY <1>1, <1>2, LimitIsPositive
<1>4. TypeOK
  BY <1>2, <1>3 DEF Init, TypeOK
<1>5. PhaseInv /\ OutcomeInv /\ StoredOnlyBySuccess
  BY DEF Init, PhaseInv, OutcomeInv, StoredOnlyBySuccess
<1> QED
  BY <1>1, <1>2, <1>4, <1>5 DEF IInv

LEMMA NextIInv == IInv /\ [Next]_vars => IInv'
<1> SUFFICES ASSUME IInv, [Next]_vars PROVE IInv'
  OBVIOUS
<1>1. TypeOK' /\ IsFiniteSet(held')
  BY TypesPreserved, PoolPreserved DEF Types, PoolInv, TypeOK, MaxOpen
<1>2. \A t \in Boundaries : Sound(t)'
  BY SoundPreserved
<1>3. PhaseInv' /\ OutcomeInv' /\ StoredOnlyBySuccess'
  BY <1>2 DEF PhaseInv, OutcomeInv, StoredOnlyBySuccess, Sound
<1> QED
  BY <1>1, <1>3 DEF IInv

\* Whatever the boundaries, their contexts and connections do, the invariant holds.
THEOREM Invariance == Spec => []IInv
<1> QED
  BY InitIInv, NextIInv, PTL DEF Spec

\* At most MaxOpenConnections connections are in use, each by one open transaction.
THEOREM TypeCorrect == Spec => []TypeOK
<1>1. IInv => TypeOK
  BY DEF IInv
<1> QED
  BY <1>1, Invariance, PTL

\* A transaction is stored only when the work succeeded, and when Within returned
\* no error it is stored for good.
THEOREM StoresSuccess == Spec => []StoredOnlyBySuccess
<1>1. IInv => StoredOnlyBySuccess
  BY DEF IInv
<1> QED
  BY <1>1, Invariance, PTL

\* No way out of Within keeps a connection, but for a goroutine that exits and a
\* context whose end is about to take it back.
THEOREM ReturnsConnections == Spec => []ConnectionsReturned
<1>1. IInv => ConnectionsReturned
  BY DEF IInv, TypeOK, OutcomeInv, ConnectionsReturned
<1> QED
  BY <1>1, Invariance, PTL

\* Of the connections of a stalled pool, those no goroutine took with it belong to
\* callers that nest, one to each.
LEMMA StalledByNesting ==
  ASSUME IInv, Stalled, IsFiniteSet(Nested)
  PROVE  StallNeedsNesting
<1> DEFINE gone == {h \in held : Exited(h)}
           outer == held \ gone
           caller == [h \in outer |-> h[1]]
<1>1. IsFiniteSet(held) /\ IsFiniteSet(gone) /\ IsFiniteSet(outer)
  BY FS_Subset, FS_Difference DEF IInv
<1>2. ASSUME NEW h \in outer PROVE h[1] \in Nested /\ h = <<h[1], 1>>
  <2>1. h \in Boundaries /\ status[h] = "open" /\ ~Exited(h) /\ ~GivesBack(h)
    BY DEF IInv, TypeOK, Stalled
  <2>2. pc[h] = "work"
    BY <2>1 DEF IInv, TypeOK, PhaseInv, OutcomeInv, GivesBack
  <2>3. PICK u : u \in Inside(h)
    BY <2>1, <2>2 DEF GivesBack
  <2>4. h[2] = 1 /\ h[1] \in Nested
    BY <2>3 DEF Inside
  <2> QED
    BY <2>1, <2>4 DEF Boundaries
<1>3. caller \in Injection(outer, Nested)
  <2>1. caller \in [outer -> Nested]
    BY <1>2
  <2>2. \A g, h \in outer : caller[g] = caller[h] => g = h
    BY <1>2
  <2> QED
    BY <2>1, <2>2 DEF Injection, IsInjective
<1>4. Cardinality(outer) <= Cardinality(Nested)
  BY <1>3, FS_Injection
<1>5. Cardinality(outer) = Cardinality(held) - Cardinality(gone)
  <2>1. held \cap gone = gone
    OBVIOUS
  <2> QED
    BY <1>1, <2>1, FS_Difference
<1>6. /\ Cardinality(held) \in Nat /\ Cardinality(gone) \in Nat /\ Cardinality(outer) \in Nat
      /\ Cardinality(Nested) \in Nat /\ Cardinality(held) = MaxOpen
  BY <1>1, FS_CardinalityType DEF Stalled
<1> HIDE DEF gone, outer, caller
<1>7. Cardinality(Nested) + Cardinality(gone) >= MaxOpen
  BY <1>4, <1>5, <1>6
<1> QED
  BY <1>7 DEF StallNeedsNesting, gone

\* The pool never stalls but for callers that nest, as many as it has connections
\* less those that exited goroutines took with them.
THEOREM OnlyNestingStalls ==
  ASSUME IsFiniteSet(Nested)
  PROVE  Spec => []StallNeedsNesting
<1>1. IInv => StallNeedsNesting
  BY StalledByNesting DEF StallNeedsNesting
<1> QED
  BY <1>1, Invariance, PTL
================================================================================
