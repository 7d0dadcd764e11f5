SPECIFICATION Spec
INVARIANTS SporkTypeOK RestartWouldKnow
PROPERTIES ImplementsTable FallsBackOnlyExcused
CONSTANTS
  Ids = {swifttx}
  Values = {on, off}
  Resetters = {r1, r2}
  MaxTime = 3
  NewKeyFrom = 2
  MaxResets = 3
  MaxCrashes = 2
  MaxFaults = 2
  None = None
CHECK_DEADLOCK FALSE
