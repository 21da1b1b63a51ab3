SPECIFICATION Spec
CONSTANTS
  r1 = r1  r2 = r2  r3 = r3  Null = Null
  Migrations <- Planned
  Version <- Versions
  MaxDigits = 2
  Runners = {r1, r2, r3}
  Plan <- Releases
  LockID <- SharedLock
  MaxFaults = 3
INVARIANTS TypeOK NoInterference SuccessMeansApplied PoolClean
PROPERTY KeepsPromise
