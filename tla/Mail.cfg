SPECIFICATION Spec
CONSTANTS
  ann = ann
  Users = {ann, bob}
  online_threshold = 3
  notify_min_interval = 2
  notify_every = 1
  MaxLag = 1
  MaxMails = 2
  MaxFaults = 1
ACTION_CONSTRAINT MailForAnn
INVARIANTS
  TypeOK
  NoticeCoversMail
PROPERTIES
  UnreadKept
  NotifyThrottled
  UnreadIsNoticed
