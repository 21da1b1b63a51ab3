SPECIFICATION FairSpec
CONSTANTS
  r1 = r1  r2 = r2  r3 = r3  a = a  b = b  Null = Null
  Runners = {r1, r2, r3}
  Steps = {a, b}
  Job <- MixedJob
  Offset <- InStep
  Lease = 2
  MaxAttempt = 7
  MaxTime = 3
  FaultHorizon = 1
  MaxFaults = 1
INVARIANTS NoStepSkipped
PROPERTY EventuallyComplete
