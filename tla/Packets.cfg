SPECIFICATION Spec
CONSTANTS
  packet_bytes = 14
  min_budget = 6
  Texts <- MCTexts
INVARIANTS
  NothingLost
  WholeLines
  AnnouncedComes
  JoinedLinesFit
