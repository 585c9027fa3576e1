\* Two principals working incidents that correlation, the sweeper and clears move too;
\* one is an account with the name the system signs with.  A BGP session's reset waits
\* for its clear trap, and may be claimed by a late root meanwhile.
SPECIFICATION Spec
CONSTANTS
  r1 = r1
  r2 = r2
  e1 = e1
  p1 = p1
  Routers = {r1, r2}
  Ifaces = {e1}
  Peerings = {p1}
  SideA <- OnePeeringSideA
  SideB <- OnePeeringSideB
  Span <- OnePeeringSpan
  LinkPorts <- NoPort
  IsisPorts <- NoPort
  BgpPorts <- R2Chassis
  Raises <- CpuAndBgp
  RuleClears <- NoAlarm
  Users = {"system"}
  Principals = {"system", "service"}
  OperatorReasons = {"fixed"}
  Deletable = {}
  Settle = 1
  CorrWindow = 1
  MonitorTimeout = 2
  FlapThreshold = 2
  SweepBatch = 1
  MaxIncidents = 2
INVARIANTS
  OwnershipMatchesStage
  ResolutionIsAttributed
PROPERTIES
  HumanOwnedIsKept
  FixIsConfirmedOrEscalated
