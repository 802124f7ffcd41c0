CONSTANTS
  Program <- MCProgram
  Outcome <- MCOutcome
  Normal <- MCNormal
  Examples <- MCExamples
  TypedTexts <- MCTypedTexts
  Directories <- MCDirectories
  Graphs <- MCGraphs
  NodesOf <- GraphNodes
  WiresOf <- GraphWires
  Routable <- MCRoutable
  Root = Root
  Nothing = Nothing
  NotLoaded = NotLoaded
  NoGraph = NoGraph
  MaxInputs = 5

SPECIFICATION Spec

INVARIANTS
  QuietShowsInput
  WhatOpensIsThere
  SettledShowsCurrent
  NoStaleWaypoints

PROPERTIES
  IssuesOpenPanel
  DiagramServed
  EditsCompiled
  DiagramCatchesUp

CHECK_DEADLOCK FALSE
