SPECIFICATION Spec
CONSTANTS
  ann = ann
  bea = bea
  cas = cas
  Users = {ann, bea, cas}
  Names = {n1, n2}
  Texts = {t1, t2}
  NoName = NoName
  None = None
  Hops <- AllHops
  AdminLists <- NoneOrTwo
  inbound_per_minute = 1
  inbound_per_hour = 2
  Minute = 2
  Hour = 3
  ConfirmWithin = 1
  Verbs = {"ANY", "NAME", "BAN", "UNBAN", "BROADCAST", "CONFIRM"}
  MaxTime = 4
  MaxFaults = 1
SYMMETRY Interchangeable
ACTION_CONSTRAINT Scenes
INVARIANTS
  TypeOK
  OnlyMembersCommand
  AnsweredOnce
  BurstBounded
PROPERTIES
  AdminsStayInCharge
  BroadcastAsStaged
  AdmittedWithinLimit
  NoticesSpaced
