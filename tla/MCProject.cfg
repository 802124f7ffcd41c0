SPECIFICATION ViewsSpec
CONSTANTS
  Path = {"main.patch", "a.patch", "b.patch", "c.patch"}
  Namespace = {"main", "a", "b", "c"}
  PathOf <- MCPathOf
  Template = {"t", "u"}
  NoName = NoName
  Nothing = Nothing
  Calls <- MCCalls
  IndexRange = 65536
INVARIANTS
  CompleteWhenDone
  BreadthFirst
  ProvenanceTrue
  GraphAgrees
PROPERTIES
  ClosureSpec
CHECK_DEADLOCK FALSE
