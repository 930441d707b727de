SPECIFICATION RackSpec
CONSTANTS
  B = 2
  Limit = 3
  Bits = 3
  Width = 2
  AmountDigits = 3
  Currencies <- Money
  Trusted = {"acme"}
  MaxWhenDepth = 9
  Paths <- SomePaths
  NumberOf <- Texts
  p1 = p1
  p2 = p2
  Conns = {p1, p2}
  PeerIP <- MCPeerIP
  MaxConnections = 0
  Strict = TRUE
  OnMissing = "same_remote_ip"
  EventQueueSize = 3
  MaxIsoReplies = 1
  Peers = {a, b}
  TcpMaxConnections = 2
  MaxBuffered = 2
  Messages = {1, 2, 3}
  Requests = {1, 2, 3}
  KeyOf <- MCKeyOf
  OnMissingCoat = "error"
  MaxRestarts = 1
  Items = {1, 2, 3}
  SubjectOf <- TwoSubjects
  Events = {3}
  Invalid = {}
  Cap = 2
  MaxFaults = 1
  GearOf <- MCGearOf
  Retries = 1
  Ordered = TRUE
  MaxSize = 1
  MaxBackups = 2
  MaxRotations = 3
  MaxNow = 2
CHECK_DEADLOCK FALSE
INVARIANTS
  ScenariosOK
  
  
  
  
  
  RepliesWhole
  
PROPERTIES
  IsoServes
  OutboxAccounted
