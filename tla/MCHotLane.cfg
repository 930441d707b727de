SPECIFICATION LaneFairSpec
CONSTANTS
  Sources = {"src"}
  LaneSubjectOf <- FanSubjectOf
  None = None
  QueueSize = 1
  Subs = {"x", "y"}
  TornDown = {"x"}
  Forwards <- CycleForwards
  MaxMsgs = 2
  MaxHops = 1
CHECK_DEADLOCK FALSE
INVARIANT LaneExact
PROPERTIES
  QuiesceIsQuiet
  LaneProgress
