CONSTANTS
  Capacity = 2
  MaxSends = 5
SPECIFICATION FairSpec
INVARIANTS
  TypeOK
  NoLostWakeup
  NoneMeansDrained
PROPERTIES
  ImplementsChannel
  RecvReturns
CHECK_DEADLOCK FALSE
