CHECK_DEADLOCK FALSE
SPECIFICATION FleetAlone
CONSTANTS
  r1 = r1
  s1 = s1
  q1 = q1
  q2 = q2
  o1 = o1
  o2 = o2
  i1 = i1
  i2 = i2
  Roots = {r1}
  Symptoms = {s1}
  NoRoot = NoRoot
  Users = {u1, u2}
  u1 = u1
  u2 = u2
  FirstAdmin = u1
  Requests = {q1, q2}
  Handled = 4
  Passwords = 2
  NewRoles = {"admin"}
  Patches <- AdminPatches
  AuthSecret = TRUE
  Files <- MibFiles
  Batches <- MibBatches
  Base <- MibBase
  NoSymbol = "-"
  NoFile = NoFile
  MaxDepth = 4
  MaxModules = 4
  Uploads = {i1, i2}
  RuleBodies <- TrapRules
  BuiltIn = {}
  CacheTtl = 2
  Names = {1, 2, 3}
  RouterBatches <- SeededRouters
  LinkBatches <- SeededLinks
  LegacyLinks <- OldLinks
  LegacyBundles <- OldBundles
  LegacyGraph <- OldGraph
  MaxId = 3
  Faults = 1
  Ops = {o1, o2}
  Readers = 1
  Primaries <- Backbone
  Customers = {"c1", "c4"}
  Uplink <- HomeOf
  Mesh <- Spurs
  Alarms <- OpenAlarms
  Failing = {"n4", "c1"}
PROPERTY ResetCompletes
