CONSTANTS
  Clients = {a}
  None = None
  Capacity = 2
  MaxCursor = 5
  EmittedKinds = {"message", "invisible"}
  MaxFaults = 2
  FaultKinds = {"drop", "restart", "open"}
  MaxResets = 1
  MaxCloses = 1
  ResetKinds = {"navigate", "replace"}
  NavOutcomes = {"moved", "cancelled"}
  EventsDuringReset = FALSE
SPECIFICATION FairSpec
INVARIANT MirrorsTheSession
PROPERTY EventuallyInSync
CHECK_DEADLOCK FALSE
