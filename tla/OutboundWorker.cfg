SPECIFICATION Spec
CONSTANTS
  Pubkeys = {alice, bob}
  Priorities = {10}
  MaxTime = 4
  MAX_ATTEMPTS = 2
  MAX_AGE_SECONDS = 2
  BACKOFF_BASE_SECONDS = 1
  OUTBOUND_PAUSE_SECONDS = 2
  MinInterval = 1
  RecipientInterval = 2
  QueueMaxDepth = 1
  PRIORITY_NORMAL = 10
  Senders = {pump}
  Handlers = {}
  MaxPackets = 2
  MaxRows = 2
  MaxFaults = 1
  MaxRequests = 0
SYMMETRY Interchangeable
ACTION_CONSTRAINTS QuickStatements WithinHorizon
INVARIANTS
  TypeOK
  StatusIsEarned
  DuplicatesNeedFaults
  AirtimeBounded
PROPERTIES
  Pacing
  PromiseKept
