CONSTANTS
  Decl <- MCDecl
  Wires <- MCWires
  MaxWires = 3

SPECIFICATION Spec

INVARIANTS
  EndsLand
  OneWirePerRow
  RowsApart
  SliceShown
  ChannelsShownOnce
  TagsReplaceWires


