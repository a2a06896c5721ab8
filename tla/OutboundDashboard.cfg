SPECIFICATION Spec
CONSTANTS
  Pubkeys = {alice}
  Priorities = {10}
  MaxTime = 4
  MAX_ATTEMPTS = 2
  MAX_AGE_SECONDS = 2
  BACKOFF_BASE_SECONDS = 1
  OUTBOUND_PAUSE_SECONDS = 2
  MinInterval = 1
  RecipientInterval = 2
  QueueMaxDepth = 1
  PRIORITY_NORMAL = 10
  Senders = {pump}
  Handlers = {browser}
  MaxPackets = 2
  MaxRows = 2
  MaxFaults = 0
  MaxRequests = 1
SYMMETRY Interchangeable
ACTION_CONSTRAINTS KeepsRunning RadioStays QuickStatements WithinHorizon
INVARIANTS
  Backed
PROPERTIES
  PromiseKept
