SPECIFICATION Spec
CONSTANTS
  Senders = {ann}
  MaxMessages = 2
  MaxBacklog = 2
  MaxFaults = 1
INVARIANTS
  TypeOK
  Accounted
  OrderKept
PROPERTIES
  LinkRestored
  FlagRecovers
  OutageReported
  MessagesServed
