\* A record PostgreSQL refuses at the head of the partition, and no fault at all.
SPECIFICATION FairSpec
CONSTANTS
  m1 = m1
  m2 = m2
  none = none
  noRecord = noRecord
  e1 = e1
  e2 = e2
  noEvent = noEvent
  d = d
  Partitions = {"p0"}
  Events = {e1, e2}
  NoEvent = noEvent
  Data = {d}
  LogEnd <- PoisonEnd
  Log <- PoisonLog
  Members = {m1, m2}
  NoMember = none
  NoRecord = noRecord
  MaxRetries = 1
  MaxFaults = 0
PROPERTY
  PoisonNeverBlocks
