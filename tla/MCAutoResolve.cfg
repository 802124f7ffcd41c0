\* Channels of [auto] against each other and against the channels named
SPECIFICATION Spec
CONSTANTS
  Port = {"x"}
  Lo <- MCLo
  Hi <- MCHi
  Scalar = {"s"}
  Unbound = "far"
  Span = {1, 2, 3}
  Programs <- MCPrograms
INVARIANTS
  NoSharedChannel
  AllocationOrder
  EveryAutoAnswered
PROPERTIES
  NoBlockMissed
  PoolSpec
CHECK_DEADLOCK FALSE
