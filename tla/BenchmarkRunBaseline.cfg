\* The backlog of a partition without a committed offset.
SPECIFICATION Spec
CONSTANTS
  none = none
  Groups = {"order", "log"}
  Partitions = {"o0", "l0", "l1"}
  GroupOf <- GroupOfPartition
  NoOffsetYet = none
  InitialEnd <- EndBefore
  InitialCommitted <- CommittedBefore
  InitialGroups = {"order"}
  Rejected <- RejectedRecords
  MaxEnd = 2
  MaxFaults = 0
INVARIANT
  BacklogDrained
CHECK_DEADLOCK FALSE
