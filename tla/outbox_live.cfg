SPECIFICATION FairSpec
CONSTANTS
  m1 = m1  m2 = m2  d1 = d1  d2 = d2  Null = Null
  Messages = {m1, m2}
  Dispatchers = {d1, d2}
  OccurredAt <- AtZero
  Collation <- FirstToLast
  ByteOrder <- FirstToLast
  Owner <- SameOwner
  Offset <- InStep
  BatchSize = 1
  Lease = 2
  FailureDelay = 1
  MaxAttempt = 9
  MaxTime = 4
  FaultHorizon = 1
  MaxFaults = 1
PROPERTY EventuallyDelivered
