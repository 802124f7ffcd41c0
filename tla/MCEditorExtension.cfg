CONSTANTS
  Uris = {u1, u2}
  Texts = {a, b}
  NoText = NoText
  MaxOpens = 2
  MaxEdits = 3

SPECIFICATION Spec

INVARIANTS
  OneTimerPerFile
  QuietIsCurrent

PROPERTIES
  CatchesUp

CHECK_DEADLOCK FALSE
