SPECIFICATION Spec
CONSTANTS
  j1 = j1  j2 = j2  Null = Null
  Jobs = {j1, j2}
  Modes <- OneMode
  Trees <- FourTrees
  MaxEdits = 1
  MaxFaults = 1
INVARIANTS IInv PassedMeansVerified FailureIsDeserved LeftoversReported RehearsesOneCommit
PROPERTY GraphUntouched
CHECK_DEADLOCK FALSE
