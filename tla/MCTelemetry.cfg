SPECIFICATION TelemetrySpec
CONSTANTS
  MaxRecords = 4
  TruncateEvery = 3
  MaxCrashes = 1
  MaxInits = 2
  Msgs = {1, 2, 3, 4, 5, 6, 7, 8}
  MsgType <- MCMsgType
  Rows <- MCRows
  Malformed <- MCMalformed
  NoEntity <- MCNoEntity
  MaxDeliver = 2
  DLQEnabled = TRUE
  Retention = 0
  MaxTime = 1
  MaxSinkStarts = 2
  MaxFlushes = 1
CHECK_DEADLOCK FALSE
INVARIANT HandedOver
PROPERTIES
  RowsKept
  LogsArrive
