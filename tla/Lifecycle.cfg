SPECIFICATION FairSpec
CHECK_DEADLOCK FALSE
INVARIANTS
  PoolOutlivesWork
PROPERTIES
  StoppedStaysStopped
  ShutdownEnds
