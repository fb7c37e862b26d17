\* One Ctrl+C, at the worst moment.
SPECIFICATION Spec
CONSTANTS
  Planned = 4
  Partitions = {"p0"}
  Route <- OnePartition
  QueueLimit = 2
  MaxBackoffs = 1
  MaxFaults = 1
INVARIANT
  InterruptStillReports
CHECK_DEADLOCK FALSE
