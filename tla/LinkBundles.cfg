SPECIFICATION LinkSpec
CONSTANTS
  r1 = r1
  r2 = r2
  p1 = p1
  Routers = {r1, r2}
  Peerings = {p1}
  SideA <- OneSideA
  SideB <- OneSideB
  BlipPorts <- OtherMemberB
  FailingEnds <- EndA
  ResetEnds <- EndA
  FaultSpans <- EvenSpan
  Coroutines = {1, 2}
  Mishaps = 1
INVARIANTS
  LinkTypeOK
  BundleFollowsMembers
  DownWillRecover
  DownSessionIsExplained
PROPERTIES
  RedundancyHolds
  SessionRecovers
