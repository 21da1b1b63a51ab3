SPECIFICATION FairSpec
CONSTANTS
  r1 = r1  r2 = r2  r3 = r3  Null = Null
  Migrations <- Planned
  Version <- Versions
  MaxDigits = 2
  Runners = {r1, r2, r3}
  Plan <- Rolling
  LockID <- MixedLock
  MaxFaults = 1
INVARIANTS IInv AppliedOnce NewestTakesOver
PROPERTIES EventuallyMigrated KeepsPromise
