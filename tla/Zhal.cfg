SPECIFICATION FairSpec
CONSTANTS
  r1 = r1
  r2 = r2
  r3 = r3
  d1 = d1
  d2 = d2
  NULL = NULL
  Request = {r1, r2, r3}
  Device = {d1, d2}
  DeviceOf <- MCDeviceOf
  Prone = {r1, r2}
  Unlucky = {r1}
INVARIANT BusyCounts
INVARIANT FreedUnreachable
PROPERTY EveryRequestEnds
CHECK_DEADLOCK FALSE
