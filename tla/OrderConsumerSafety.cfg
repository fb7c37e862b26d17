\* Two members, two partitions, at most one retry and three faults.
SPECIFICATION Spec
CONSTANTS
  m1 = m1
  m2 = m2
  none = none
  noRecord = noRecord
  e1 = e1
  e2 = e2
  noEvent = noEvent
  d = d
  Partitions = {"p0", "p1"}
  Events = {e1, e2}
  NoEvent = noEvent
  Data = {d}
  LogEnd <- SafetyEnd
  Log <- SafetyLog
  Members = {m1, m2}
  NoMember = none
  NoRecord = noRecord
  MaxRetries = 1
  MaxFaults = 3
SYMMETRY MemberSymmetry
INVARIANTS
  TypeOK
  NoSkip
  OneRowPerEvent
  MarkerMatchesRow
  IndInv
PROPERTY
  DeliverySpec
