SPECIFICATION EmissionSpec
CONSTANTS
  Items = {1, 2, 3}
  SubjectOf <- OneSubject
  Events = {}
  Invalid = {3}
  Cap = 3
  MaxFaults = 1
  GearOf <- MCGearOf
  Retries = 1
  Ordered = TRUE
  Trees <- SomeTrees
  Ports <- AllPorts
  Wrap = 6
  MaxOpen = 1
CHECK_DEADLOCK FALSE
INVARIANT SubjectOrder
PROPERTIES
  OutboxProgress
  TreePromises
