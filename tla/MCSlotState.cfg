CONSTANTS
  Capacity = 3
  BaseCursors = {0, 2}
  MaxCursor = 6
  EmittedKinds = {"message", "message_update", "bash_execution_update", "invisible",
                  "user_start", "user_end", "agent_settled"}
  Stamps = {s1}
  NoStamp = NoStamp
  Undefined = Undefined
  Clients = {a, b}
  Texts = {x, y}
  NoOne = NoOne
  MaxInputs = 3
  MaxAborts = 2
  MaxLosses = 1
  MaxEvents = 7
SPECIFICATION SlotSpec
INVARIANTS
  TypeOK
  RingHoldsNewest
  NothingNewerWasEvicted
  StreamIsExact
  OwnershipIsExact
PROPERTIES
  ImplementsReplayLog
  DraftsAreKept
SYMMETRY SlotSymmetry
CHECK_DEADLOCK FALSE
