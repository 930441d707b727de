SPECIFICATION BootSpec
CONSTANTS
  Streams = {msg, dlq}
  MsgStream = msg
  MaxKeys = 2
  MaxMsgs = 1
  MaxBootFaults = 2
  MaxChanges = 2
  Decrypting = FALSE
CHECK_DEADLOCK FALSE
INVARIANT LimitsApplied
