\* Links of r1 going down, up and flapping beside fiber cuts, r1 deleted under open
\* incidents and their symptoms, and a custom CLEAR rule for the IS-IS alarm of r2.
\* The operator's account has the name the system signs with.
SPECIFICATION Spec
CONSTANTS
  r1 = r1
  r2 = r2
  e1 = e1
  p1 = p1
  Routers = {r1, r2}
  Ifaces = {e1}
  Peerings = {p1}
  SideA <- OnePeeringSideA
  SideB <- OnePeeringSideB
  Span <- OnePeeringSpan
  LinkPorts <- R1E1
  IsisPorts <- R2E1
  BgpPorts <- NoPort
  Raises <- NoAlarm
  RuleClears <- IsisRule
  Users = {"system"}
  Principals = {"system"}
  OperatorReasons = {"fixed"}
  Deletable = {r1}
  Settle = 1
  CorrWindow = 1
  MonitorTimeout = 1
  FlapThreshold = 2
  SweepBatch = 1
  MaxIncidents = 2
INVARIANTS
  SymptomTree
  StageMatchesStatus
  OneOpenPerProblem
  LinkStatusIsJustified
PROPERTIES
  ResolvedIsFinal
  ImplementsLifecycle
