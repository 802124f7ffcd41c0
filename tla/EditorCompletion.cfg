CONSTANTS
  Declarations <- MCDeclarations
  Cursors <- MCCursors
  MaxStatements = 3

SPECIFICATION Spec

INVARIANT PortsAfterDot
