SPECIFICATION Spec
CONSTANTS
  m1 = m1  m2 = m2  d1 = d1  d2 = d2  Null = Null
  Messages = {m1, m2}
  Dispatchers = {d1, d2}
  OccurredAt <- AtZero
  Collation <- FirstToLast
  ByteOrder <- LastToFirst
  Owner <- SameOwner
  Offset <- InStep
  BatchSize = 2
  Lease = 2
  FailureDelay = 1
  MaxAttempt = 2
  MaxTime = 3
  FaultHorizon = 3
  MaxFaults = 1
INVARIANT ClaimsInOrder
