SPECIFICATION Spec
CONSTANTS
  Fds = {3, 5}
  MsPerSec = 2
  Delays = {1, 3}
  FirstTimers <- ConnectAndCheck
  HandlerTimes = {0, 1}
  Horizon = 6
  MaxSteps = 1
  MaxIds = 3
INVARIANTS TypeOK SleepsUntilNearest PassIsThorough NoStaleDispatch
PROPERTIES NeverEarly
CHECK_DEADLOCK FALSE
