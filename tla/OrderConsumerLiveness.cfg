\* Two members on one partition, fair scheduling, every fault budgeted.
SPECIFICATION FairSpec
CONSTANTS
  m1 = m1
  m2 = m2
  none = none
  noRecord = noRecord
  e1 = e1
  e2 = e2
  noEvent = noEvent
  d = d
  Partitions = {"p0"}
  Events = {e1, e2}
  NoEvent = noEvent
  Data = {d}
  LogEnd <- LiveEnd
  Log <- LiveLog
  Members = {m1, m2}
  NoMember = none
  NoRecord = noRecord
  MaxRetries = 1
  MaxFaults = 3
PROPERTY
  EventuallyDone
  EventuallyCommitted
CHECK_DEADLOCK FALSE
