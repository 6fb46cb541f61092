CONSTANTS
  Clients = {a}
  None = None
  Capacity = 2
  MaxCursor = 6
  EmittedKinds = {"message", "message_update"}
  MaxFaults = 1
  FaultKinds = {"drop"}
  MaxResets = 1
  MaxCloses = 0
  ResetKinds = {"navigate"}
  NavOutcomes = {"cancelled"}
  EventsDuringReset = FALSE
SPECIFICATION Spec
INVARIANTS
  NavigationIndicatorSettles
CHECK_DEADLOCK FALSE
