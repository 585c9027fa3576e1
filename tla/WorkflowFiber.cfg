\* Fiber cuts on p1 and IS-IS alarms of r2: three incidents, so a symptom can be
\* released by one root and claimed by the next.
SPECIFICATION Spec
CONSTANTS
  r1 = r1
  r2 = r2
  e1 = e1
  p1 = p1
  Routers = {r1, r2}
  Ifaces = {e1}
  Peerings = {p1}
  SideA <- OnePeeringSideA
  SideB <- OnePeeringSideB
  Span <- OnePeeringSpan
  LinkPorts <- NoPort
  IsisPorts <- R2E1
  BgpPorts <- NoPort
  Raises <- NoAlarm
  RuleClears <- NoAlarm
  Users = {"alice"}
  Principals = {"service"}
  OperatorReasons = {"fixed"}
  Deletable = {}
  Settle = 1
  CorrWindow = 1
  MonitorTimeout = 1
  FlapThreshold = 2
  SweepBatch = 1
  MaxIncidents = 3
INVARIANTS
  TypeOK
  SymptomTree
  CorrelationIsComplete
PROPERTIES
  AutoHealOffMeansHandsOff
