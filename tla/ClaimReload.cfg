SPECIFICATION Spec
CONSTANTS
  ann = ann
  bea = bea
  cas = cas
  Users = {ann, bea}
  Names = {n1, n2}
  Texts = {t1}
  NoName = NoName
  None = None
  Hops <- Direct
  AdminLists <- OneMoreAdmin
  inbound_per_minute = 1
  inbound_per_hour = 2
  Minute = 1
  Hour = 1
  ConfirmWithin = 1
  Verbs = {"ANY", "NAME", "BAN"}
  MaxTime = 1
  MaxFaults = 0
INVARIANTS
  ReloadMakesAdmins
