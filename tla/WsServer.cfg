\* The process exits, so the system may stop.
CONSTANTS
  c1 = c1
  c2 = c2
  Clients = {c1, c2}
  NoClient = none
  Limits <- MCLimits
SPECIFICATION FairSpec
CHECK_DEADLOCK FALSE
INVARIANTS
  EveryEventDelivered
  NobodyLeftAfterClose
  OpenIsServed
PROPERTIES
  BroadcastEnds
  StopHeeded
