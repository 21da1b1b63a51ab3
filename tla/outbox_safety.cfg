SPECIFICATION Spec
CONSTANTS
  m1 = m1  m2 = m2  d1 = d1  d2 = d2  Null = Null
  Messages = {m1, m2}
  Dispatchers = {d1, d2}
  OccurredAt <- InTurn
  Collation <- FirstToLast
  ByteOrder <- FirstToLast
  Owner <- SameOwner
  Offset <- OneAhead
  BatchSize = 2
  Lease = 2
  FailureDelay = 1
  MaxAttempt = 2
  MaxTime = 3
  FaultHorizon = 3
  MaxFaults = 2
INVARIANTS IInv SchemaHolds LeaseExclusion
PROPERTIES ClaimsAreDue KeepsPromise RemovedWhenPublished OncePerReceipt
