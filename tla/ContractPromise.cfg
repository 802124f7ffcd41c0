SPECIFICATION ViewSpec
CONSTANTS
  Modulus <- MCModulus
  Numeral <- MCNumeral
  Cluster <- MCCluster
  Sanitized <- MCSanitized
  Ungrouped = "rest"
  MinGroupSize = 2
  Inputs <- MCInputs
INVARIANTS EquivalentInside
CHECK_DEADLOCK FALSE
