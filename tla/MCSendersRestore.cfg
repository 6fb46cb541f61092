CONSTANTS
  Clients = {a, b}
  Texts = {x, y}
  NoOne = NoOne
  MaxInputs = 2
  MaxAborts = 1
  MaxLosses = 0
  MaxEvents = 5
SPECIFICATION QueueSpec
INVARIANT SendersRestoreTheirOwn
CHECK_DEADLOCK FALSE
