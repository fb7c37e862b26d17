\* Two members, two partitions, at most one retry and two faults.
SPECIFICATION Spec
CONSTANTS
  m1 = m1
  m2 = m2
  none = none
  noRecord = noRecord
  e1 = e1
  e2 = e2
  noEvent = noEvent
  d1 = d1
  d2 = d2
  Partitions = {"p0", "p1"}
  Events = {e1, e2}
  NoEvent = noEvent
  Data = {d1, d2}
  LogEnd <- SafetyEnd
  Log <- SafetyLog
  Members = {m1, m2}
  NoMember = none
  NoRecord = noRecord
  MaxRetries = 1
  MaxFaults = 2
SYMMETRY MemberSymmetry
INVARIANTS
  TypeOK
  NoSkip
  MetricsExact
  TrackerMatchesBatch
PROPERTIES
  HandoverExact
  DeliverySpec
CHECK_DEADLOCK FALSE
