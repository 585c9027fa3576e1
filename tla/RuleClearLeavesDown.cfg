\* A custom CLEAR rule for LINK_DOWN while auto-heal is off.
SPECIFICATION Spec
CONSTANTS
  r1 = r1
  r2 = r2
  e1 = e1
  p1 = p1
  Routers = {r1, r2}
  Ifaces = {e1}
  Peerings = {p1}
  SideA <- OnePeeringSideA
  SideB <- OnePeeringSideB
  Span <- OnePeeringSpan
  LinkPorts <- R1E1
  IsisPorts <- NoPort
  BgpPorts <- NoPort
  Raises <- NoAlarm
  RuleClears <- LinkRule
  Users = {"alice"}
  Principals = {"service"}
  OperatorReasons = {"fixed"}
  Deletable = {}
  Settle = 1
  CorrWindow = 1
  MonitorTimeout = 1
  FlapThreshold = 4
  SweepBatch = 1
  MaxIncidents = 1
INVARIANTS
  LinkStatusIsJustified
