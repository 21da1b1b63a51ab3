SPECIFICATION Spec
CONSTANTS
  r1 = r1  r2 = r2  r3 = r3  a = a  b = b  Null = Null
  Runners = {r1, r2}
  Steps = {a, b}
  Job <- SameJob
  Offset <- InStep
  Lease = 2
  MaxAttempt = 3
  MaxTime = 3
  FaultHorizon = 3
  MaxFaults = 2
PROPERTY StaleMeansInactive
