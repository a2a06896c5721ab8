SPECIFICATION Spec
CONSTANTS
  Pubkeys = {alice}
  Priorities = {1, 10}
  MaxTime = 2
  MAX_ATTEMPTS = 1
  MAX_AGE_SECONDS = 2
  BACKOFF_BASE_SECONDS = 1
  OUTBOUND_PAUSE_SECONDS = 1
  MinInterval = 0
  RecipientInterval = 0
  QueueMaxDepth = 1
  PRIORITY_NORMAL = 10
  Senders = {pump, notify}
  Handlers = {browser, page}
  MaxPackets = 2
  MaxRows = 5
  MaxFaults = 1
  MaxRequests = 2
SYMMETRY Interchangeable
ACTION_CONSTRAINTS KeepsRunning RadioStays QuickStatements WithinHorizon FloodOrRenewal
INVARIANTS
  LowPriorityBounded
PROPERTIES
  PauseHonoured
