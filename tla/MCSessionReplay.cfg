CONSTANTS
  Clients = {a, b}
  None = None
  Capacity = 1
  MaxCursor = 4
  EmittedKinds = {"message", "message_update"}
  MaxFaults = 1
  FaultKinds = {"drop", "restart", "open"}
  MaxResets = 1
  MaxCloses = 1
  ResetKinds = {"navigate", "replace"}
  NavOutcomes = {"moved", "cancelled"}
  EventsDuringReset = TRUE
SPECIFICATION Spec
SYMMETRY ClientSymmetry
INVARIANTS
  MirrorsTheSession
  UninterruptedIndicatorSettles
CHECK_DEADLOCK FALSE
