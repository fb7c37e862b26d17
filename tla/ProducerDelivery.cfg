\* Four records on two partitions through a queue of two, two faults; only the
\* program is fair.
SPECIFICATION FairSpec
CONSTANTS
  Planned = 4
  Partitions = {"p0", "p1"}
  Route <- TwoPartitions
  QueueLimit = 2
  MaxBackoffs = 1
  MaxFaults = 2
INVARIANTS
  TypeOK
  Accounting
  RangesExact
  RangesCanonical
PROPERTY
  EventuallyEnds
CHECK_DEADLOCK FALSE
