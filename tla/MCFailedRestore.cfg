CONSTANTS
  Clients = {a}
  None = None
  Capacity = 2
  MaxCursor = 6
  EmittedKinds = {"message", "message_update"}
  MaxFaults = 3
  FaultKinds = {"drop", "open"}
  MaxResets = 1
  MaxCloses = 0
  ResetKinds = {}
  NavOutcomes = {"moved", "cancelled"}
  EventsDuringReset = FALSE
SPECIFICATION Spec
INVARIANTS
  NoMessageTwice
CHECK_DEADLOCK FALSE
