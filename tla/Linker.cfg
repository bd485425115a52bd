SPECIFICATION Spec
CONSTANTS
  Tables = {t1, t2}
  HostTable = t3
  Lists = {none, netsA, netsB, bad}
  NoNets = none
  Unusable = {bad}
  MaxPushes = 2
  MaxFaults = 2
  MaxRestarts = 1
INVARIANTS
  EgressGuarded
  RevertRestores
PROPERTIES
  NoMarkerLost
  Healed
CHECK_DEADLOCK FALSE
