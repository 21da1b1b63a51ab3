SPECIFICATION Spec
CONSTANTS
  j1 = j1  j2 = j2  Null = Null
  Jobs = {j1}
  Modes <- OneMode
  Trees <- FourTrees
  MaxEdits = 1
  MaxFaults = 0
INVARIANT ReleaseIsVerified
CHECK_DEADLOCK FALSE
