SPECIFICATION ServicesSpec
CONSTANTS
  push = push
  promotion = promotion
  conductor = conductor
  client = client
  Appliers = {push, promotion}
  Gears = {conductor, client}
  GearsOf <- MCGearsOf
  WiresOf <- MCWiresOf
  LinkReaders = {conductor}
  Commanded = {client}
  MaxShutdowns = 1
  MaxDrains = 1
  MaxDials = 2
  Buses = {1}
  QueueSize = 4
  MaxEvents = 2
  MaxEventAge = 2
  MaxDeliver = 2
  Batch = 2
  InFlight = 2
  MaxLosses = 1
  BentoMsgs = {m1, m2, m3}
  InChan = 2
CHECK_DEADLOCK FALSE
INVARIANTS
  
  AckedIsEmitted
  
PROPERTIES
  WholeScenarios
  ApplyTerminates
  UplinkSettles
  ReaderComesBack
