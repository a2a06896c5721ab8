SPECIFICATION Spec
CONSTANTS
  packet_bytes = 14
  min_budget = 6
  Texts <- MCTexts
INVARIANT
  LongLinesWrapped
