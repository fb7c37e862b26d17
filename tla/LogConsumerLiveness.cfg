\* Two members on one partition, fair scheduling, every fault budgeted.
SPECIFICATION FairSpec
CONSTANTS
  m1 = m1
  m2 = m2
  none = none
  noRecord = noRecord
  e1 = e1
  e2 = e2
  noEvent = noEvent
  d1 = d1
  d2 = d2
  Partitions = {"p0"}
  Events = {e1, e2}
  NoEvent = noEvent
  Data = {d1, d2}
  LogEnd <- LiveEnd
  Log <- LiveLog
  Members = {m1, m2}
  NoMember = none
  NoRecord = noRecord
  MaxRetries = 1
  MaxFaults = 2
PROPERTIES
  EventuallyDone
  CaughtUp
CHECK_DEADLOCK FALSE
