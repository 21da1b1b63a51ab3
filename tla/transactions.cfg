SPECIFICATION FairSpec
CONSTANTS
  c1 = c1  c2 = c2
  Callers = {c1, c2}
  Nested = {c1, c2}
  Pool <- ThreeOpen
  MaxFaults = 1
INVARIANTS IInv StoredOnlyBySuccess ConnectionsReturned StallNeedsNesting
PROPERTY EventuallyServed
CHECK_DEADLOCK FALSE
