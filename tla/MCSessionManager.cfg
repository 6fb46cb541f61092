CONSTANTS
  Sessions = {a, b}
  None = None
  Asked = {"open", "detach", "close", "archive", "unarchive", "delete", "reap", "call", "resume", "new", "kill", "move"}
  MaxOps = 3
  MaxSlots = 3
  MaxFailures = 1
  MaxCrashes = 1
  MaxFrames = 8
  Flows = {"replace", "navigate", "close"}
SPECIFICATION ManagerSpec
INVARIANTS
  RegistryIsExact
  HeldIsOpen
  ArchiveStands
  SlotIsGuarded
PROPERTY EverythingEnds
CHECK_DEADLOCK FALSE
