CONSTANTS
  Uris = {u1}
  Texts = {a, b}
  NoText = NoText
  MaxOpens = 1
  MaxEdits = 1

SPECIFICATION Spec

INVARIANT ClosedIsClear

CHECK_DEADLOCK FALSE
