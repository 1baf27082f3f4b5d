SPECIFICATION Spec
CONSTANTS
  Clients = {"c1", "c2"}
  Pairs = 2
  MaxNum = 3
  QCap = 2
  MaxFaults = 1
INVARIANTS TypeOK ActiveOnce InStep
PROPERTY Completed
CHECK_DEADLOCK FALSE
