\* Two groups, three partitions of two records, one fault.
SPECIFICATION FairSpec
CONSTANTS
  none = none
  Groups = {"order", "log"}
  Partitions = {"o0", "l0", "l1"}
  GroupOf <- GroupOfPartition
  NoOffsetYet = none
  InitialEnd <- EndBefore
  InitialCommitted <- CommittedBefore
  InitialGroups = {"order"}
  Rejected <- RejectedRecords
  MaxEnd = 2
  MaxFaults = 1
INVARIANTS
  TypeOK
  LagNeverNegative
  ConsumedIsDurable
  DlqCountComplete
  CommittedBacklogDrained
PROPERTY
  EventuallyEnds
CHECK_DEADLOCK FALSE
