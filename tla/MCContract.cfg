SPECIFICATION ViewSpec
CONSTANTS
  Modulus <- MCModulus
  Numeral <- MCNumeral
  Cluster <- MCCluster
  Sanitized <- MCSanitized
  Ungrouped = "rest"
  MinGroupSize = 2
  Inputs <- MCInputs
INVARIANTS BoundaryExact EquivalentInScope BoundaryWired EdgesLand CablesDrawn OriginsKept
CHECK_DEADLOCK FALSE
