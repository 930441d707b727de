SPECIFICATION ControlSpec
CONSTANTS
  MaxScenarios = 2
  MaxSends = 3
  MaxRackSessions = 3
  MaxFailures = 1
  MaxUnsaved = 1
  MaxSuspends = 1
  NeedsBus = {2}
  FirstStatus = "pending"
  NoScenario = NoScenario
  m1 = m1
  m3 = m3
  a = a
  b = b
  s1 = s1
  Machines = {m1, m2}
  RackNames = {a, b}
  NoName = NoName
  CallNames = {a, b, NoName}
  Secrets = {s1, s2, s3}
  Bootstrap = Bootstrap
  AutoAdopt = TRUE
  Workers = {w1, w2}
  Sweepers = {sw}
  WriteRetries = 0
  MaxOps = 2
  MaxRegistryCrashes = 1
  Nil = Nil
CHECK_DEADLOCK FALSE
INVARIANT
  FollowsMixer
PROPERTIES
  ResumesSafely
  PromotionCompletes
  SweepsRepair
