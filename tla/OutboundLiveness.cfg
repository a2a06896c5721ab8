SPECIFICATION FairSpec
CONSTANTS
  Pubkeys = {alice, bob}
  Priorities = {1, 10}
  MaxTime = 3
  MAX_ATTEMPTS = 2
  MAX_AGE_SECONDS = 3
  BACKOFF_BASE_SECONDS = 1
  OUTBOUND_PAUSE_SECONDS = 2
  MinInterval = 1
  RecipientInterval = 2
  QueueMaxDepth = 2
  PRIORITY_NORMAL = 10
  Senders = {pump}
  Handlers = {}
  MaxPackets = 1
  MaxRows = 2
  MaxFaults = 0
  MaxRequests = 0
PROPERTIES
  NoStarvation
  ShutdownCompletes
ACTION_CONSTRAINTS
  QuickStatements
  StaysDown
