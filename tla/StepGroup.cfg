SPECIFICATION FairSpec
CONSTANTS
  r1 = r1
  r2 = r2
  Ranks <- MCTwo
  Source = r1
  Publisher = r2
  MaxStep = 2
  MaxPlane = 1
  MaxVotes = 1
  Identity <- MCIdentity
  Faults <- MCFaults
  Live <- MCLive
INVARIANTS
  GrantsNeverMix
  PhasesAreUnanimous
PROPERTIES
  ClosesQuiescent
  CallsReturn
CHECK_DEADLOCK FALSE
