SPECIFICATION MixerSpec
CONSTANTS
  m1 = m1
  m3 = m3
  a = a
  b = b
  s1 = s1
  Machines = {m1, m2, m3}
  RackNames = {a, b}
  NoName = NoName
  CallNames = {a, b}
  Secrets = {s1, s2, s3}
  Bootstrap = Bootstrap
  AutoAdopt = FALSE
  Workers = {w1, w2}
  Sweepers = {sw}
  WriteRetries = 1
  MaxOps = 2
  MaxRegistryCrashes = 1
  Nil = Nil
  Managers = {cli, mixer}
  Artefacts = {n}
  Contents = {1, 2}
  MaxTag = 2
  MaxImports = 3
  MaxSpecFaults = 1
  Streams = {msg, dlq}
  MsgStream = msg
  MaxKeys = 2
  MaxMsgs = 1
  MaxBootFaults = 2
  MaxChanges = 2
  Decrypting = FALSE
  Racks = {"r1"}
  Names = {"pinned", "global"}
  Pins <- MCPins
  Listed <- MCListed
  GlobalGear = {"global"}
  Pushers = {1, 2}
  MaxRegs = 2
  MaxCrashes = 1
  MaxSessions = 2
  None = None
  Partial = Partial
CHECK_DEADLOCK FALSE
SYMMETRY WorkerSymmetry
INVARIANT FiledIsKept
PROPERTIES
  NameKept
  
  
