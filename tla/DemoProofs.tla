--------------------------- MODULE DemoProofs ---------------------------
(***************************************************************************)
(* The demo application, for every set of examples, texts, directories and *)
(* programs.  First its diagram component, whatever a parent passes: the   *)
(* canvas catches up with the last graph that was passed, and no edge      *)
(* keeps waypoints that its ends have left.  Then the application, which   *)
(* is such a parent: of an example of one text it shows the result of what *)
(* is in the editor, of a project the result of its files, and what can be *)
(* opened is there.                                                        *)
(***************************************************************************)
EXTENDS Demo, SequenceTheorems, FiniteSetTheorems, TLAPS

Kinds == {"orthogonal", "smoothstep", "default"}

-----------------------------------------------------------------------------
(* The component.                                                          *)

ViewTypeOK ==
  /\ props \in Passed
  /\ pending \in Seq(Graphs)
  /\ stored \in Graphs
  /\ shown \in [graph : Graphs, mode : Modes]
  /\ kinds \in [WiresOf(shown.graph) -> Kinds]

\* The graph that the canvas shows after the last answer
Coming == IF pending = <<>> THEN stored ELSE pending[Len(pending)]

\* What was asked last is what the parent passes
LastAsked == props.mounted /\ NodesOf(props.graph) # {} => Coming = props.graph

\* The canvas is drawn from the stored layout, in the mode of the parent
DrawnFromStored == shown.graph = stored /\ (props.mounted => shown.mode = props.mode)

\* Waypoints are given up when a drag begins, before the nodes move
WaypointsHold ==
  \A w \in DOMAIN kinds : kinds[w] = "orthogonal" => Ends(w) \cap (moved \cup dragging) \subseteq caught

ViewInv == ViewTypeOK /\ LastAsked /\ DrawnFromStored /\ WaypointsHold

-----------------------------------------------------------------------------
(* Pieces of the actions.                                                  *)

LEMMA PropsCases ==
  ASSUME NEW p \in Passed
  PROVE  /\ p.graph \in Graphs
         /\ p.mode \in Modes
         /\ p.mounted => p = Mounted(p.graph, p.mode)
  BY NoGraphAssumption DEF Passed, Unmounted, Mounted, Modes

LEMMA AboveOne ==
  ASSUME NEW n \in Nat \ {0}, n # 1
  PROVE  n > 1
  OBVIOUS

LEMMA RoutedKinds ==
  ASSUME NEW g
  PROVE  Routed(g) \in [WiresOf(g) -> Kinds]
  BY DEF Routed, Kinds

\* Putting the nodes in place gives every edge fresh waypoints
LEMMA DrawPlaces ==
  ASSUME NEW g \in Graphs, NEW m \in Modes, Draw(g, m)
  PROVE  /\ shown' = [graph |-> g, mode |-> m]
         /\ shown' \in [graph : Graphs, mode : Modes]
         /\ kinds' \in [WiresOf(g) -> Kinds]
         /\ WaypointsHold'
<1>1. shown' = [graph |-> g, mode |-> m]
  BY DEF Draw, Shown
<1>2. kinds' \in [WiresOf(g) -> Kinds]
  BY RoutedKinds DEF Draw
<1>3. moved' = {} /\ caught' = dragging'
  BY DEF Draw
<1>4. WaypointsHold'
  BY <1>3 DEF WaypointsHold
<1> QED BY <1>1, <1>2, <1>4

\* The state that a step leaves alone keeps its part of the invariant
LEMMA SameWaypoints ==
  ASSUME WaypointsHold, kinds' = kinds, caught' = caught, moved' \cup dragging' \subseteq moved \cup dragging
  PROVE  WaypointsHold'
  BY DEF WaypointsHold

-----------------------------------------------------------------------------
(* The steps.                                                              *)

LEMMA MountKeeps ==
  ASSUME ViewInv, props' \in Passed, Mount
  PROVE  ViewInv'
<1>1. props'.graph \in Graphs /\ props'.mode \in Modes
  BY PropsCases
<1>2. CASE NodesOf(props'.graph) = {}
  <2>1. pending' = <<>> /\ stored' = props'.graph /\ Draw(props'.graph, props'.mode) /\ dragging' = {}
    BY <1>2 DEF Mount, Lay
  <2>2. /\ shown' = [graph |-> props'.graph, mode |-> props'.mode]
        /\ shown' \in [graph : Graphs, mode : Modes]
        /\ kinds' \in [WiresOf(props'.graph) -> Kinds]
        /\ WaypointsHold'
    BY <1>1, <2>1, DrawPlaces
  <2>3. ViewTypeOK' BY <1>1, <2>1, <2>2 DEF ViewTypeOK
  <2> QED BY <1>2, <2>1, <2>2, <2>3 DEF ViewInv, LastAsked, DrawnFromStored
<1>3. CASE NodesOf(props'.graph) # {}
  <2>1. pending' = <<props'.graph>> /\ stored' = NoGraph /\ Draw(NoGraph, props'.mode) /\ dragging' = {}
    BY <1>3 DEF Mount
  <2>2. /\ shown' = [graph |-> NoGraph, mode |-> props'.mode]
        /\ shown' \in [graph : Graphs, mode : Modes]
        /\ kinds' \in [WiresOf(NoGraph) -> Kinds]
        /\ WaypointsHold'
    BY <1>1, <2>1, DrawPlaces, NoGraphAssumption
  <2>3. ViewTypeOK' BY <1>1, <2>1, <2>2, NoGraphAssumption DEF ViewTypeOK
  <2>4. pending' # <<>> /\ pending'[Len(pending')] = props'.graph BY <2>1
  <2> QED BY <2>1, <2>2, <2>3, <2>4 DEF ViewInv, LastAsked, Coming, DrawnFromStored
<1> QED BY <1>2, <1>3

LEMMA UnmountKeeps ==
  ASSUME ViewInv, props' \in Passed, Unmount
  PROVE  ViewInv'
<1>1. /\ pending' = <<>> /\ stored' = NoGraph /\ dragging' = {} /\ ~ props'.mounted
      /\ Draw(NoGraph, "wires")
  BY DEF Unmount, Lay
<1>2. /\ shown' = [graph |-> NoGraph, mode |-> "wires"]
      /\ shown' \in [graph : Graphs, mode : Modes]
      /\ kinds' \in [WiresOf(NoGraph) -> Kinds]
      /\ WaypointsHold'
  BY <1>1, DrawPlaces, NoGraphAssumption DEF Modes
<1>3. ViewTypeOK' BY <1>1, <1>2, NoGraphAssumption DEF ViewTypeOK
<1> QED BY <1>1, <1>2, <1>3 DEF ViewInv, LastAsked, DrawnFromStored

LEMMA NewGraphKeeps ==
  ASSUME ViewInv, props' \in Passed, NewGraph
  PROVE  ViewInv'
<1> DEFINE g == props'.graph
<1>1. g \in Graphs /\ props.mode \in Modes
  BY PropsCases DEF ViewInv, ViewTypeOK
<1>2. props.mounted /\ props'.mode = props.mode /\ dragging' = dragging /\ Watch(g, props.mode, pending)
  BY DEF NewGraph, Mounted
<1>3. CASE NodesOf(g) = {}
  <2>1. pending' = pending /\ stored' = g /\ Draw(g, props.mode)
    BY <1>2, <1>3 DEF Watch, Lay
  <2>2. /\ shown' = [graph |-> g, mode |-> props.mode]
        /\ shown' \in [graph : Graphs, mode : Modes]
        /\ kinds' \in [WiresOf(g) -> Kinds]
        /\ WaypointsHold'
    BY <1>1, <1>2, <2>1, DrawPlaces
  <2>3. ViewTypeOK' BY <1>1, <2>1, <2>2 DEF ViewInv, ViewTypeOK
  <2> QED BY <1>2, <1>3, <2>1, <2>2, <2>3 DEF ViewInv, LastAsked, DrawnFromStored
<1>4. CASE NodesOf(g) # {}
  <2>1. pending' = Append(pending, g) /\ UNCHANGED <<stored, shown, kinds, moved, caught>>
    BY <1>2, <1>4 DEF Watch
  <2>2. pending' # <<>> /\ pending'[Len(pending')] = g /\ pending' \in Seq(Graphs)
    BY <1>1, <2>1 DEF ViewInv, ViewTypeOK
  <2>3. WaypointsHold' BY <1>2, <2>1, SameWaypoints DEF ViewInv
  <2>4. ViewTypeOK' BY <2>1, <2>2 DEF ViewInv, ViewTypeOK
  <2> QED BY <1>2, <2>1, <2>2, <2>3, <2>4 DEF ViewInv, LastAsked, Coming, DrawnFromStored
<1> QED BY <1>3, <1>4

LEMMA NewModeKeeps ==
  ASSUME ViewInv, props' \in Passed, NewMode
  PROVE  ViewInv'
<1>1. props'.mode \in Modes /\ stored \in Graphs
  BY PropsCases DEF ViewInv, ViewTypeOK
<1>2. /\ props.mounted /\ props'.graph = props.graph /\ pending' = pending /\ dragging' = dragging
      /\ stored' = stored /\ Draw(stored, props'.mode)
  BY DEF NewMode, RedrawStored, Mounted
<1>3. /\ shown' = [graph |-> stored, mode |-> props'.mode]
      /\ shown' \in [graph : Graphs, mode : Modes]
      /\ kinds' \in [WiresOf(stored) -> Kinds]
      /\ WaypointsHold'
  BY <1>1, <1>2, DrawPlaces
<1>4. ViewTypeOK' BY <1>1, <1>2, <1>3 DEF ViewInv, ViewTypeOK
<1>5. LastAsked' BY <1>2 DEF ViewInv, LastAsked, Coming
<1> QED BY <1>2, <1>3, <1>4, <1>5 DEF ViewInv, DrawnFromStored

LEMMA LayoutKeeps ==
  ASSUME ViewInv, LayoutDone
  PROVE  ViewInv'
<1>1. /\ pending # <<>> /\ pending' = Tail(pending) /\ props' = props /\ dragging' = dragging
      /\ stored' = Head(pending) /\ Draw(Head(pending), props.mode)
  BY DEF LayoutDone, Lay
<1>2. Head(pending) \in Graphs /\ props.mode \in Modes
  BY <1>1, PropsCases DEF ViewInv, ViewTypeOK
<1>3. /\ shown' = [graph |-> Head(pending), mode |-> props.mode]
      /\ shown' \in [graph : Graphs, mode : Modes]
      /\ kinds' \in [WiresOf(Head(pending)) -> Kinds]
      /\ WaypointsHold'
  BY <1>1, <1>2, DrawPlaces
<1>4. ViewTypeOK' BY <1>1, <1>2, <1>3 DEF ViewInv, ViewTypeOK
<1>5. Coming' = pending[Len(pending)]
  <2>1. pending \in Seq(Graphs) BY DEF ViewInv, ViewTypeOK
  <2>2. CASE Len(pending) = 1 BY <1>1, <2>1, <2>2 DEF Coming
  <2>3. CASE Len(pending) # 1
    <3> DEFINE k == Len(pending) - 1
    <3>1. Len(pending) \in Nat \ {0} BY <1>1, <2>1, EmptySeq
    <3>2. Len(pending) > 1 BY <2>3, <3>1, AboveOne
    <3>3. Len(Tail(pending)) = k /\ \A i \in 1 .. k : Tail(pending)[i] = pending[i + 1]
      BY <1>1, <2>1, HeadTailProperties
    <3>4. k \in 1 .. k /\ k + 1 = Len(pending) /\ k # 0 BY <3>1, <3>2
    <3>5. Tail(pending)[k] = pending[Len(pending)] BY <3>3, <3>4
    <3>6. Tail(pending) # <<>> BY <3>3, <3>4, EmptySeq
    <3> QED BY <1>1, <3>3, <3>5, <3>6 DEF Coming
  <2> QED BY <2>2, <2>3
<1>6. LastAsked' BY <1>1, <1>5 DEF ViewInv, LastAsked, Coming
<1> QED BY <1>1, <1>3, <1>4, <1>6 DEF ViewInv, DrawnFromStored

LEMMA DragStartKeeps ==
  ASSUME ViewInv, NEW ns, DragStart(ns)
  PROVE  ViewInv'
<1>1. /\ dragging = {} /\ dragging' = ns /\ moved' = moved \cup ns /\ caught' = caught \ ns
      /\ props' = props /\ pending' = pending /\ stored' = stored /\ shown' = shown
      /\ kinds' = [w \in DOMAIN kinds |->
                     IF kinds[w] = "orthogonal" /\ TouchesDragged(w, ns) THEN "default" ELSE kinds[w]]
  BY DEF DragStart
<1>2. kinds' \in [WiresOf(shown.graph) -> Kinds]
  BY <1>1 DEF ViewInv, ViewTypeOK, Kinds
<1>3. WaypointsHold'
  <2> SUFFICES ASSUME NEW w \in DOMAIN kinds', kinds'[w] = "orthogonal"
               PROVE  Ends(w) \cap (moved' \cup dragging') \subseteq caught'
    BY DEF WaypointsHold
  <2>1. w \in DOMAIN kinds /\ kinds[w] = "orthogonal" /\ ~ TouchesDragged(w, ns)
    BY <1>1
  <2>2. Ends(w) \cap ns = {} BY <2>1 DEF TouchesDragged
  <2>3. Ends(w) \cap moved \subseteq caught BY <2>1 DEF ViewInv, WaypointsHold
  <2> QED BY <1>1, <2>2, <2>3
<1>4. ViewTypeOK' BY <1>1, <1>2 DEF ViewInv, ViewTypeOK
<1> QED BY <1>1, <1>3, <1>4 DEF ViewInv, LastAsked, Coming, DrawnFromStored

LEMMA DragGoesOn ==
  ASSUME ViewInv, DragOn \/ DragStop
  PROVE  ViewInv'
<1>1. /\ UNCHANGED <<props, pending, stored, shown, kinds, caught>>
      /\ moved' \cup dragging' \subseteq moved \cup dragging
  BY DEF DragOn, DragStop
<1>2. WaypointsHold' BY <1>1, SameWaypoints DEF ViewInv
<1>3. ViewTypeOK' BY <1>1 DEF ViewInv, ViewTypeOK
<1> QED BY <1>1, <1>2, <1>3 DEF ViewInv, LastAsked, Coming, DrawnFromStored

LEMMA StutterKeeps ==
  ASSUME ViewInv, UNCHANGED <<props, viewVars>>
  PROVE  ViewInv'
<1>1. /\ UNCHANGED <<props, pending, stored, shown, kinds, caught>>
      /\ moved' \cup dragging' \subseteq moved \cup dragging
  BY DEF viewVars
<1>2. WaypointsHold' BY <1>1, SameWaypoints DEF ViewInv
<1>3. ViewTypeOK' BY <1>1 DEF ViewInv, ViewTypeOK
<1> QED BY <1>1, <1>2, <1>3 DEF ViewInv, LastAsked, Coming, DrawnFromStored

LEMMA StepKeeps == ViewInv /\ [ViewNext]_<<props, viewVars>> => ViewInv'
<1> SUFFICES ASSUME ViewInv, [ViewNext]_<<props, viewVars>> PROVE ViewInv'
  OBVIOUS
<1>1. CASE SetProps
  <2>1. PICK again \in BOOLEAN : Follow(again)
    BY <1>1 DEF SetProps
  <2>2. props' \in Passed BY <1>1 DEF SetProps
  <2>3. CASE Mount BY <2>2, <2>3, MountKeeps
  <2>4. CASE Unmount BY <2>2, <2>4, UnmountKeeps
  <2>5. CASE NewGraph BY <2>2, <2>5, NewGraphKeeps
  <2>6. CASE NewMode BY <2>2, <2>6, NewModeKeeps
  <2>7. CASE props' = props /\ UNCHANGED viewVars BY <2>7, StutterKeeps
  <2> QED BY <2>1, <2>3, <2>4, <2>5, <2>6, <2>7 DEF Follow
<1>2. CASE LayoutDone BY <1>2, LayoutKeeps
<1>3. CASE Drag BY <1>3, DragStartKeeps, DragGoesOn DEF Drag
<1>4. CASE UNCHANGED <<props, viewVars>> BY <1>4, StutterKeeps
<1> QED BY <1>1, <1>2, <1>3, <1>4 DEF ViewNext

LEMMA InitHolds == ViewInit => ViewInv
<1> SUFFICES ASSUME ViewInit PROVE ViewInv
  OBVIOUS
<1>1. /\ props = Unmounted /\ pending = <<>> /\ stored = NoGraph /\ kinds = <<>>
      /\ shown = [graph |-> NoGraph, mode |-> "wires"]
  BY DEF ViewInit, Shown
<1>2. kinds \in [WiresOf(NoGraph) -> Kinds] /\ DOMAIN kinds = {}
  BY <1>1, NoGraphAssumption
<1>3. ViewTypeOK BY <1>1, <1>2, NoGraphAssumption DEF ViewTypeOK, Passed, Modes
<1>4. ~ props.mounted BY <1>1 DEF Unmounted
<1>5. WaypointsHold BY <1>2 DEF WaypointsHold
<1> QED BY <1>1, <1>3, <1>4, <1>5 DEF ViewInv, LastAsked, DrawnFromStored

\* The invariant of FlowDiagram.vue: graphs are laid out in the order in which
\* the parent passed them, and what is drawn is what was laid out last
THEOREM ViewInvariance == ViewSpec => []ViewInv
<1> QED BY InitHolds, StepKeeps, PTL DEF ViewSpec

\* When no layout is under way the canvas shows the graph and the mode that
\* the parent passes (FlowDiagram.vue, the two watchers)
THEOREM CanvasIsCurrent == ViewSpec => []SettledShowsCurrent
<1>1. ViewInv => SettledShowsCurrent
  BY DEF ViewInv, LastAsked, Coming, DrawnFromStored, SettledShowsCurrent
<1> QED BY <1>1, ViewInvariance, PTL

\* An edge keeps its waypoints only while its ends are where the layout put
\* them (FlowDiagram.vue, onNodeDragStart)
THEOREM WaypointsAreFresh == ViewSpec => []NoStaleWaypoints
<1>1. ViewInv => NoStaleWaypoints
  BY DEF ViewInv, WaypointsHold, NoStaleWaypoints
<1> QED BY <1>1, ViewInvariance, PTL

-----------------------------------------------------------------------------
(* The application.                                                        *)

\* The editor has the text of the application, in its own line ends
Synced == source \in Texts /\ doc = source /\ Normal[doc] = doc

AppTypeOK ==
  /\ selected \in DOMAIN Examples
  /\ mode \in Modes
  /\ stack \in Seq(Openable)

\* Both kinds of example at once: when no compile is due, the result is that of
\* what compile() would give the compiler
ResultOfInput ==
  \/ wasm # "ready"
  \/ result = InputOf(selected, doc)
  \/ Outcome[InputOf(selected, doc)] = "throws"
  \/ ResultOfDirectory

QuietIsOfInput == ~ timer => ResultOfInput

DInv == Synced /\ AppTypeOK /\ QuietIsOfInput /\ props = CanvasProps /\ ViewInv

\* The level that is open is one of a template, or the root
LEMMA LevelTyped == AppTypeOK => Level \in Levels
<1> SUFFICES ASSUME AppTypeOK PROVE Level \in Levels
  OBVIOUS
<1>1. CASE stack = <<>>
  BY <1>1 DEF Level, Levels
<1>2. CASE stack # <<>>
  <2>1. stack[Len(stack)] \in Openable
    BY <1>2 DEF AppTypeOK
  <2> QED BY <1>2, <2>1 DEF Level, LastOf, Levels
<1> QED BY <1>1, <1>2

PropsFit == CanvasProps \in Passed

LEMMA PropsTyped == AppTypeOK => PropsFit
<1> SUFFICES ASSUME AppTypeOK PROVE CanvasProps \in Passed
  BY DEF PropsFit
<1>1. Level \in Levels /\ mode \in Modes
  BY LevelTyped DEF AppTypeOK
<1>2. result \in DOMAIN Program => Graph(result, Level) \in Graphs
  BY <1>1, GraphsAssumption
<1> QED BY <1>1, <1>2 DEF CanvasProps, Passed

\* The nodes of a level are instances of it
LEMMA LevelsAreLists ==
  ASSUME NEW x \in DOMAIN Program, NEW level
  PROVE  LevelInstances(x, level) \in InstanceLists(x) \/ LevelInstances(x, level) = <<>>
BY DEF LevelInstances, InstanceLists

LEMMA NodesAreInstances ==
  ASSUME NEW g \in Graphs, NEW i \in NodesOf(g)
  PROVE  \E x \in DOMAIN Program, level \in Levels :
           /\ g = Graph(x, level) /\ g # NoGraph
           /\ i \in DOMAIN LevelInstances(x, level)
           /\ LevelInstances(x, level) \in InstanceLists(x)
           /\ [name |-> i, template |-> TemplateOf(g, i)] \in Instances(x)
<1>1. NodesOf(g) = GraphNodes(g)
  BY GraphsAssumption
<1>2. g # NoGraph
  BY <1>1 DEF GraphNodes
<1>3. PICK x \in DOMAIN Program, level \in Levels : g = Graph(x, level)
  BY <1>2, GraphsAssumption
<1>4. g.of = x /\ g.level = level
  BY <1>3 DEF Graph
<1>5. i \in DOMAIN LevelInstances(x, level)
  BY <1>1, <1>2, <1>4 DEF GraphNodes
<1>6. LevelInstances(x, level) \in InstanceLists(x)
  BY <1>5, LevelsAreLists
<1>7. Entry(LevelInstances(x, level), i) \in Instances(x)
  BY <1>5, <1>6 DEF Instances, Entries
<1> QED BY <1>2, <1>3, <1>4, <1>5, <1>6, <1>7 DEF Entry, TemplateOf

\* ... and so are the rows of the tree
LEMMA RowsAreInstances ==
  ASSUME NEW x \in DOMAIN Program, NEW r \in Tree(x)
  PROVE  /\ \E p \in BuildNodes(x) : r = TreeNode(p, DOMAIN ChildInstances(x, p) # {})
         /\ r.path \in BuildNodes(x)
         /\ Len(r.path) \in Nat \ {0}
         /\ r.path \in [1 .. Len(r.path) -> Instances(x)]
         /\ LastOf(r.path) \in Instances(x)
<1>1. PICK p \in BuildNodes(x) : r = TreeNode(p, DOMAIN ChildInstances(x, p) # {})
  BY DEF Tree, Trees
<1>2. r.path = p
  BY <1>1 DEF TreeNode
<1>3. PICK n \in 1 .. Cardinality(DOMAIN TemplatesOf(x)) + 1 : p \in [1 .. n -> Instances(x)]
  BY DEF BuildNodes, Paths
<1>4. Cardinality(DOMAIN TemplatesOf(x)) \in Nat
  BY ProgramsAssumption, FS_CardinalityType
<1>5. n \in Nat \ {0} /\ Len(p) = n /\ n \in 1 .. n
  BY <1>3, <1>4
<1> QED BY <1>1, <1>2, <1>3, <1>5 DEF LastOf

-----------------------------------------------------------------------------
(* The events of the application.                                          *)

AppInv == Synced /\ AppTypeOK /\ QuietIsOfInput

\* A text reaches the editor in the line ends of the editor, and comes back
LEMMA TextReaches ==
  ASSUME Synced, NEW t \in Texts, SetSource(t)
  PROVE  Synced' /\ doc' = Normal[t]
<1>1. CASE t \in {source, doc}
  <2>1. t = doc /\ source' = t /\ doc' = doc
    BY <1>1 DEF SetSource, Synced
  <2> QED BY <2>1 DEF Synced
<1>2. CASE t \notin {source, doc}
  <2>1. source' = Normal[t] /\ doc' = Normal[t]
    BY <1>2 DEF SetSource, Emitted
  <2>2. Normal[t] \in Texts /\ Normal[Normal[t]] = Normal[t]
    BY NormalAssumption
  <2> QED BY <2>1, <2>2 DEF Synced
<1> QED BY <1>1, <1>2

\* compile() shows its input, unless there is no compiler or it throws
LEMMA CompileShows ==
  ASSUME NEW before, CompileInto(InputOf(selected', doc'), before)
  PROVE  ResultOfInput'
<1>1. CASE Compiles(InputOf(selected', doc'))
  <2>1. result' = InputOf(selected', doc')
    BY <1>1 DEF CompileInto
  <2> QED BY <2>1 DEF ResultOfInput, ResultOfDirectory, InputOf
<1>2. CASE ~ Compiles(InputOf(selected', doc'))
  <2>1. wasm' # "ready" \/ Outcome[InputOf(selected', doc')] = "throws"
    BY <1>2 DEF Compiles
  <2> QED BY <2>1 DEF ResultOfInput, ResultOfDirectory, InputOf
<1> QED BY <1>1, <1>2

\* Events that touch neither the text nor the result
LEMMA ElsewhereKeeps ==
  ASSUME AppInv, UNCHANGED <<wasm, source, doc, selected, result, timer>>,
         mode' \in Modes, stack' \in Seq(Openable)
  PROVE  AppInv'
<1>1. Synced' /\ AppTypeOK'
  BY DEF AppInv, Synced, AppTypeOK
<1>2. QuietIsOfInput'
  BY DEF AppInv, QuietIsOfInput, ResultOfInput, ResultOfDirectory, InputOf
<1> QED BY <1>1, <1>2 DEF AppInv

\* Events that compile the text and leave it as it is
LEMMA CompilingKeeps ==
  ASSUME AppInv, UNCHANGED <<source, doc, selected, stack, mode>>,
         CompileInto(InputOf(selected, source), result) \/ wasm' # "ready"
  PROVE  AppInv'
<1>1. Synced' /\ AppTypeOK' /\ source = doc'
  BY DEF AppInv, Synced, AppTypeOK
<1>2. ResultOfInput'
  <2>1. CASE CompileInto(InputOf(selected, source), result)
    <3>1. CompileInto(InputOf(selected', doc'), result)
      BY <1>1, <2>1
    <3> QED BY <3>1, CompileShows
  <2>2. CASE wasm' # "ready"
    BY <2>2 DEF ResultOfInput, ResultOfDirectory
  <2> QED BY <2>1, <2>2
<1> QED BY <1>1, <1>2 DEF AppInv, QuietIsOfInput

LEMMA EditKeeps ==
  ASSUME AppInv, NEW t \in TypedTexts, Edit(t)
  PROVE  AppInv'
<1>1. /\ t # doc /\ doc' = t /\ source' = t /\ timer' = (timer \/ t # source)
      /\ UNCHANGED <<selected, stack, mode>>
  BY DEF Edit, Scheduled
<1>2. Synced'
  BY <1>1, NormalAssumption DEF Synced
<1>3. AppTypeOK'
  BY <1>1 DEF AppInv, AppTypeOK
<1>4. timer'
  BY <1>1 DEF AppInv, Synced
<1> QED BY <1>2, <1>3, <1>4 DEF AppInv, QuietIsOfInput

LEMMA ExampleKeeps ==
  ASSUME AppInv, NEW i \in DOMAIN Examples, LoadExample(i)
  PROVE  AppInv'
<1>1. Examples[i].text \in Texts /\ Normal[Examples[i].text] = Examples[i].text
  BY NormalAssumption
<1>2. /\ selected' = i /\ SetSource(Examples[i].text) /\ stack' = <<>> /\ mode' = mode
      /\ CompileInto(InputOf(i, Examples[i].text), Nothing)
  BY DEF LoadExample
<1>3. Synced' /\ doc' = Examples[i].text
  BY <1>1, <1>2, TextReaches DEF AppInv
<1>4. AppTypeOK'
  <2>1. <<>> \in Seq(Openable)
    OBVIOUS
  <2> QED BY <1>2, <2>1 DEF AppInv, AppTypeOK
<1>5. CompileInto(InputOf(selected', doc'), Nothing)
  BY <1>2, <1>3
<1>6. ResultOfInput'
  BY <1>5, CompileShows
<1> QED BY <1>3, <1>4, <1>6 DEF AppInv, QuietIsOfInput

\* When the text of the directory is what the editor has, no compile follows;
\* otherwise one is scheduled
LEMMA DirectoryKeeps ==
  ASSUME AppInv, NEW d \in DOMAIN Directories, DirectoryRead(d)
  PROVE  AppInv'
<1> DEFINE t == Directories[d].text
           throws == MultiResult(d) \in DOMAIN Outcome /\ Outcome[MultiResult(d)] = "throws"
<1>1. t \in Texts
  BY NormalAssumption
<1>2. /\ SetSource(t) /\ timer' = (timer \/ t # source)
      /\ UNCHANGED <<wasm, selected, mode>>
      /\ throws => UNCHANGED <<result, stack>>
      /\ ~ throws => result' = MultiResult(d) /\ stack' = <<>>
  BY DEF DirectoryRead, Scheduled
<1>3. Synced' /\ doc' = Normal[t]
  BY <1>1, <1>2, TextReaches DEF AppInv
<1>4. AppTypeOK'
  <2>1. <<>> \in Seq(Openable)
    OBVIOUS
  <2> QED BY <1>2, <2>1 DEF AppInv, AppTypeOK
<1>5. QuietIsOfInput'
  <2> SUFFICES ASSUME ~ timer' PROVE ResultOfInput'
    BY DEF QuietIsOfInput
  <2>1. ~ timer /\ t = source
    BY <1>2
  <2>2. doc' = doc
    BY <1>3, <2>1 DEF AppInv, Synced
  <2>3. CASE throws
    BY <1>2, <2>1, <2>2, <2>3 DEF AppInv, QuietIsOfInput, ResultOfInput, ResultOfDirectory, InputOf
  <2>4. CASE ~ throws /\ wasm = "ready"
    <3>1. result' = Directories[d].files
      BY <1>2, <2>4 DEF MultiResult
    <3> QED BY <1>3, <3>1 DEF ResultOfInput, ResultOfDirectory
  <2>5. CASE wasm # "ready"
    BY <1>2, <2>5 DEF ResultOfInput, ResultOfDirectory
  <2> QED BY <2>3, <2>4, <2>5
<1> QED BY <1>3, <1>4, <1>5 DEF AppInv

\* What a click opens is an instance of some program, be the program shown no
\* longer the one of the graph
LEMMA ClickKeeps ==
  ASSUME AppInv, ViewInv, NEW i \in NodesOf(shown.graph), ClickNode(i)
  PROVE  AppInv'
<1>1. shown.graph \in Graphs
  BY DEF ViewInv, ViewTypeOK
<1>2. [name |-> i, template |-> TemplateOf(shown.graph, i)] \in Openable
  BY <1>1, NodesAreInstances DEF Openable
<1>3. /\ stack' = Append(stack, [name |-> i, template |-> TemplateOf(shown.graph, i)])
      /\ UNCHANGED <<wasm, source, doc, selected, result, timer, mode>>
  BY DEF ClickNode, Drill
<1>4. stack' \in Seq(Openable) /\ mode' \in Modes
  BY <1>2, <1>3 DEF AppInv, AppTypeOK
<1> QED BY <1>3, <1>4, ElsewhereKeeps

LEMMA RowKeeps ==
  ASSUME AppInv, NEW r \in VisibleRows, SelectRow(r)
  PROVE  AppInv'
<1>1. result \in DOMAIN Program /\ r \in Tree(result)
  BY DEF VisibleRows
<1>2. LastOf(r.path) \in Openable
  BY <1>1, RowsAreInstances DEF Openable
<1>3. /\ stack' = Append(stack, LastOf(r.path))
      /\ UNCHANGED <<wasm, source, doc, selected, result, timer, mode>>
  BY DEF SelectRow
<1>4. stack' \in Seq(Openable) /\ mode' \in Modes
  BY <1>2, <1>3 DEF AppInv, AppTypeOK
<1> QED BY <1>3, <1>4, ElsewhereKeeps

LEMMA NavigateKeeps ==
  ASSUME AppInv, NEW k \in Nat, Navigate(k)
  PROVE  AppInv'
<1>1. /\ k < Len(stack) /\ stack' = SubSeq(stack, 1, k)
      /\ UNCHANGED <<wasm, source, doc, selected, result, timer, mode>>
  BY DEF Navigate
<1>2. stack \in Seq(Openable)
  BY DEF AppInv, AppTypeOK
<1>3. SubSeq(stack, 1, k) \in Seq(Openable)
  <2>1. \A j \in 1 .. k : stack[j] \in Openable
    BY <1>1, <1>2
  <2> QED BY <1>1, <1>2, <2>1, SubSeqProperties
<1>4. mode' \in Modes
  BY <1>1 DEF AppInv, AppTypeOK
<1> QED BY <1>1, <1>3, <1>4, ElsewhereKeeps

LEMMA AppKeeps == DInv /\ [Next]_vars => AppInv'
<1> SUFFICES ASSUME DInv, [Next]_vars PROVE AppInv'
  OBVIOUS
<1>1. AppInv /\ ViewInv /\ mode \in Modes /\ stack \in Seq(Openable)
  BY DEF DInv, AppInv, AppTypeOK
<1>2. CASE UNCHANGED appVars
  BY <1>1, <1>2, ElsewhereKeeps DEF appVars
<1>3. CASE Click
  <2>1. CASE \E i \in DOMAIN Examples : LoadExample(i)
    BY <1>1, <2>1, ExampleKeeps
  <2>2. CASE \E d \in DOMAIN Directories : OpenDirectory(d)
    BY <1>1, <2>2, ElsewhereKeeps DEF OpenDirectory
  <2>3. CASE \E i \in NodesOf(shown.graph) : ClickNode(i)
    BY <1>1, <2>3, ClickKeeps
  <2>4. CASE \E k \in 0 .. MaxInputs : Navigate(k)
    BY <1>1, <2>4, NavigateKeeps, ExamplesAssumption
  <2>5. CASE \E r \in VisibleRows : SelectRow(r)
    BY <1>1, <2>5, RowKeeps
  <2>6. CASE \E m \in Modes : SetMode(m)
    BY <1>1, <2>6, ElsewhereKeeps DEF SetMode
  <2>7. CASE ClosePanel
    BY <1>1, <2>7, ElsewhereKeeps DEF ClosePanel
  <2> QED BY <1>3, <2>1, <2>2, <2>3, <2>4, <2>5, <2>6, <2>7 DEF Click
<1>4. CASE Type
  BY <1>1, <1>4, EditKeeps DEF Type
<1>5. CASE Compiler
  <2>1. CASE WasmLoads
    BY <1>1, <2>1, CompilingKeeps DEF WasmLoads
  <2>2. CASE WasmFails
    BY <1>1, <2>2, CompilingKeeps DEF WasmFails
  <2> QED BY <1>5, <2>1, <2>2 DEF Compiler
<1>6. CASE Files
  <2>1. PICK d \in DOMAIN Directories : DirectoryRead(d) \/ Abandoned(d)
    BY <1>6 DEF Files
  <2>2. CASE DirectoryRead(d)
    BY <1>1, <2>2, DirectoryKeeps
  <2>3. CASE Abandoned(d)
    BY <1>1, <2>3, ElsewhereKeeps DEF Abandoned
  <2> QED BY <2>1, <2>2, <2>3
<1>7. CASE Timer
  BY <1>1, <1>7, CompilingKeeps DEF Timer, TimerFires
<1>8. CASE Layout
  BY <1>2, <1>8 DEF Layout
<1>9. CASE Pointer
  <2>1. UNCHANGED <<wasm, source, doc, selected, result, timer, stack, mode>>
    BY <1>9 DEF Pointer, appVars
  <2> QED BY <1>1, <2>1, ElsewhereKeeps
<1>10. CASE UNCHANGED vars
  BY <1>2, <1>10 DEF vars
<1> QED BY <1>3, <1>4, <1>5, <1>6, <1>7, <1>8, <1>9, <1>10 DEF Next

-----------------------------------------------------------------------------
(* The application serves its diagram.                                     *)

LEMMA PropsTypedNext == AppTypeOK' => PropsFit'
BY PropsTyped, PTL

\* What comes with an event of the application is a step of the component
LEMMA Rendered ==
  ASSUME AppTypeOK', NEW assigned, Render(assigned)
  PROVE  SetProps /\ props' = CanvasProps'
<1>1. props' = CanvasProps' /\ Follow(Recomputed(assigned))
  BY DEF Render
<1>2. \E again \in BOOLEAN : Follow(again)
  <2>1. CASE Recomputed(assigned)
    <3>1. Follow(TRUE)
      BY <1>1, <2>1 DEF Follow
    <3> QED BY <3>1
  <2>2. CASE ~ Recomputed(assigned)
    <3>1. Follow(FALSE)
      BY <1>1, <2>2 DEF Follow
    <3> QED BY <3>1
  <2> QED BY <2>1, <2>2
<1> QED BY <1>1, <1>2, PropsTypedNext DEF SetProps, PropsFit

\* An event of the application renders, or it is one of the diagram alone
LEMMA EventsRender ==
  ASSUME Next
  PROVE  \/ \E assigned : Render(assigned)
         \/ /\ UNCHANGED <<result, stack, mode, props>>
            /\ LayoutDone \/ Drag
<1>1. CASE Click \/ Type \/ Compiler \/ Files \/ Timer
  BY <1>1 DEF Click, Type, Compiler, Files, Timer
<1>2. CASE Layout
  BY <1>2 DEF Layout, LayoutDone, appVars
<1>3. CASE Pointer
  BY <1>3 DEF Pointer, Drag, DragStart, DragOn, DragStop, appVars
<1> QED BY <1>1, <1>2, <1>3 DEF Next

LEMMA AppServes == DInv /\ [Next]_vars => [ViewNext]_<<props, viewVars>> /\ DInv'
<1> SUFFICES ASSUME DInv, [Next]_vars
             PROVE  [ViewNext]_<<props, viewVars>> /\ DInv'
  OBVIOUS
<1>1. AppInv'
  BY AppKeeps
<1>2. [ViewNext]_<<props, viewVars>> /\ (props = CanvasProps)'
  <2>1. CASE \E assigned : Render(assigned)
    BY <1>1, <2>1, Rendered DEF AppInv, ViewNext
  <2>2. CASE UNCHANGED <<result, stack, mode, props>> /\ (LayoutDone \/ Drag)
    BY <2>2 DEF DInv, CanvasProps, Level, ViewNext
  <2>3. CASE UNCHANGED vars
    BY <2>3 DEF vars, appVars, DInv, CanvasProps, Level
  <2> QED BY <2>1, <2>2, <2>3, EventsRender
<1>3. ViewInv'
  BY <1>2, StepKeeps DEF DInv
<1> QED BY <1>1, <1>2, <1>3 DEF DInv, AppInv

LEMMA AppInitHolds == Init => ViewInit /\ DInv
<1> SUFFICES ASSUME Init PROVE ViewInit /\ DInv
  OBVIOUS
<1>1. AppInit /\ ViewInit
  BY DEF Init
<1>2. Synced
  BY <1>1, NormalAssumption, ExamplesAssumption DEF AppInit, Synced
<1>3. AppTypeOK
  BY <1>1, ExamplesAssumption DEF AppInit, AppTypeOK, Modes
<1>4. QuietIsOfInput
  BY <1>1 DEF AppInit, QuietIsOfInput, ResultOfInput
<1>5. props = CanvasProps
  BY <1>1, ResultsAssumption DEF AppInit, ViewInit, CanvasProps
<1>6. ViewInv
  BY <1>1, InitHolds
<1> QED BY <1>1, <1>2, <1>3, <1>4, <1>5, <1>6 DEF DInv

THEOREM AppInvariance == Spec => []DInv
<1> QED BY AppInitHolds, AppServes, PTL DEF Spec

\* What App.vue and DiagramCanvas.vue do to FlowDiagram.vue is what the
\* component expects of a parent: every graph they pass is a level of a program,
\* and it follows each of their changes
THEOREM ApplicationServes == Spec => DiagramServed
<1> QED BY AppInitHolds, AppServes, PTL DEF Spec, DiagramServed, ViewSpec

\* Whenever no layout is under way, the canvas of the demo shows the level that
\* is open, in the mode that is chosen
THEOREM DemoCanvasIsCurrent == Spec => []SettledShowsCurrent
<1> QED BY ApplicationServes, CanvasIsCurrent, PTL DEF DiagramServed

\* An edge on the canvas of the demo keeps its waypoints only while its ends are
\* where the layout put them
THEOREM DemoWaypointsAreFresh == Spec => []NoStaleWaypoints
<1> QED BY ApplicationServes, WaypointsAreFresh, PTL DEF DiagramServed

\* When no compile is due, the result is that of the text in the editor, if an
\* example of one text is selected, and that of the project's files whatever is
\* in the editor, if a project is; or that of a directory whose entry file is in
\* the editor (App.vue, compile, scheduleCompile, loadExample, openDirectory)
THEOREM InputIsShown == Spec => []QuietShowsInput
<1>1. QuietIsOfInput => QuietShowsInput
  BY DEF QuietIsOfInput, ResultOfInput, InputOf, QuietShowsInput, ResultOfEditor, ResultOfProject
<1> QED BY <1>1, AppInvariance, PTL DEF DInv

-----------------------------------------------------------------------------
(* The panel.                                                              *)

LEMMA CompilingOpens ==
  ASSUME NEW x, NEW before, CompileInto(x, before), before = result \/ before = Nothing,
         result' # result, HasIssues(result')
  PROVE  panel'
<1>1. CASE Compiles(x)
  BY <1>1 DEF CompileInto
<1>2. CASE ~ Compiles(x)
  <2>1. result' = before
    BY <1>2 DEF CompileInto
  <2>2. ~ HasIssues(Nothing)
    BY ResultsAssumption DEF HasIssues
  <2> QED BY <2>1, <2>2
<1> QED BY <1>1, <1>2

\* A result with errors opens the diagnostics panel (App.vue, compile,
\* openDirectory and the watcher on hasIssues), but for a directory with errors,
\* none of the parser's, after a result that had some
THEOREM PanelOpens == Spec => IssuesOpenPanel
<1> DEFINE Opens == result' # result /\ HasIssues(result') =>
                      \/ panel'
                      \/ reading' # reading /\ HasIssues(result) /\ ~ HasParseErrors(result')
<1>1. [Next]_vars => [Opens]_vars
  <2> SUFFICES ASSUME Next, result' # result, HasIssues(result')
               PROVE  \/ panel'
                      \/ reading' # reading /\ HasIssues(result) /\ ~ HasParseErrors(result')
    OBVIOUS
  <2>1. ASSUME NEW i, LoadExample(i) PROVE panel'
    BY <2>1, CompilingOpens DEF LoadExample
  <2>2. CASE WasmLoads \/ TimerFires
    BY <2>2, CompilingOpens DEF WasmLoads, TimerFires
  <2>3. ASSUME NEW d, DirectoryRead(d)
        PROVE  panel' \/ (reading' # reading /\ HasIssues(result) /\ ~ HasParseErrors(result'))
    <3>1. /\ result' = MultiResult(d)
          /\ panel' = (HasParseErrors(MultiResult(d)) \/ (HasIssues(MultiResult(d)) /\ ~ HasIssues(result)))
      BY <2>3 DEF DirectoryRead
    <3>2. reading' # reading
      BY <2>3 DEF DirectoryRead
    <3> QED BY <3>1, <3>2
  <2>4. ASSUME NEW i PROVE ~ ClickNode(i)
    BY DEF ClickNode, Drill
  <2>5. Click => \E i : LoadExample(i)
    BY <2>4 DEF Click, OpenDirectory, Navigate, SelectRow, SetMode, ClosePanel
  <2>6. ~ Type /\ ~ Layout /\ ~ Pointer
    BY DEF Type, Edit, Layout, Pointer, appVars
  <2>7. Compiler => WasmLoads
    BY DEF Compiler, WasmFails
  <2>8. Files => \E d : DirectoryRead(d)
    BY DEF Files, Abandoned
  <2>9. Timer => TimerFires
    BY DEF Timer
  <2> QED BY <2>1, <2>2, <2>3, <2>5, <2>6, <2>7, <2>8, <2>9 DEF Next
<1> QED BY <1>1, PTL DEF Spec, IssuesOpenPanel

-----------------------------------------------------------------------------
(* The tree.                                                               *)

LEMMA NoInstances ==
  ASSUME NEW x \in DOMAIN Program, NEW insts \in InstanceLists(x)
  PROVE  insts = <<>> <=> DOMAIN insts = {}
<1>1. insts = [i \in DOMAIN insts |-> insts[i]]
  BY ProgramsAssumption
<1>2. DOMAIN << >> = {}
  OBVIOUS
<1>3. ASSUME DOMAIN insts = {} PROVE insts = <<>>
  <2>1. <<>> = [i \in {} |-> insts[i]]
    OBVIOUS
  <2> QED BY <1>1, <1>3, <2>1
<1> QED BY <1>2, <1>3

\* A path of the tree has opened every template on it but the last
LEMMA PathOpens ==
  ASSUME NEW x \in DOMAIN Program, NEW p \in BuildNodes(x), NEW k \in 1 .. Len(p) - 1
  PROVE  p[k].template \in DOMAIN TemplatesOf(x) \ {p[j].template : j \in 1 .. k - 1}
<1>1. PICK n \in 1 .. Cardinality(DOMAIN TemplatesOf(x)) + 1 : p \in [1 .. n -> Instances(x)]
  BY DEF BuildNodes, Paths
<1>2. Cardinality(DOMAIN TemplatesOf(x)) \in Nat
  BY ProgramsAssumption, FS_CardinalityType
<1>3. n \in Nat /\ Len(p) = n /\ p \in Seq(Instances(x)) /\ k \in 1 .. n
  BY <1>1, <1>2
<1> DEFINE s == SubSeq(p, 1, k)
<1>4. Len(s) = k /\ \A j \in 1 .. k : s[j] = p[j]
  BY <1>3
<1>5. LastOf(s).template = p[k].template /\ TemplatesAbove(s) = {p[j].template : j \in 1 .. k - 1}
  BY <1>3, <1>4 DEF LastOf, TemplatesAbove
<1>6. p[k + 1] \in Entries(ChildInstances(x, s))
  BY DEF BuildNodes
<1>7. ChildInstances(x, s) # <<>>
  BY <1>6 DEF Entries
<1> QED BY <1>5, <1>7 DEF ChildInstances

\* A path that could grow is not the longest there is
LEMMA PathGrows ==
  ASSUME NEW x \in DOMAIN Program, NEW p \in BuildNodes(x),
         LastOf(p).template \in DOMAIN TemplatesOf(x) \ TemplatesAbove(p)
  PROVE  Len(p) \in 1 .. Cardinality(DOMAIN TemplatesOf(x))
<1>1. PICK n \in 1 .. Cardinality(DOMAIN TemplatesOf(x)) + 1 : p \in [1 .. n -> Instances(x)]
  BY DEF BuildNodes, Paths
<1>2. IsFiniteSet(DOMAIN TemplatesOf(x)) /\ Cardinality(DOMAIN TemplatesOf(x)) \in Nat
  BY ProgramsAssumption, FS_CardinalityType
<1>3. n \in Nat \ {0} /\ Len(p) = n
  BY <1>1, <1>2
<1> DEFINE f == [k \in 1 .. n |-> p[k].template]
<1>4. \A k \in 1 .. n : f[k] \in DOMAIN TemplatesOf(x) \ {f[j] : j \in 1 .. k - 1}
  <2> TAKE k \in 1 .. n
  <2>1. {f[j] : j \in 1 .. k - 1} = {p[j].template : j \in 1 .. k - 1}
    <3>1. \A j \in 1 .. k - 1 : j \in 1 .. n
      BY <1>3
    <3>2. \A j \in 1 .. k - 1 : f[j] = p[j].template
      BY <3>1
    <3> HIDE DEF f
    <3> QED BY <3>2
  <2>2. CASE k = n
    BY <1>3, <2>1, <2>2 DEF LastOf, TemplatesAbove
  <2>3. CASE k # n
    <3>1. k \in 1 .. Len(p) - 1
      BY <1>3, <2>3
    <3> QED BY <2>1, <3>1, PathOpens
  <2> QED BY <2>2, <2>3
<1>5. f \in [1 .. n -> DOMAIN TemplatesOf(x)]
  BY <1>4
<1>6. \A j, k \in 1 .. n : f[j] = f[k] => j = k
  <2>1. ASSUME NEW j \in 1 .. n, NEW k \in 1 .. n, j < k PROVE f[j] # f[k]
    <3>1. j \in 1 .. k - 1
      BY <1>3, <2>1
    <3> HIDE DEF f
    <3> QED BY <1>4, <3>1
  <2> HIDE DEF f
  <2> QED BY <1>3, <2>1
<1>7. f \in Injection(1 .. n, DOMAIN TemplatesOf(x))
  <2> HIDE DEF f
  <2> QED BY <1>5, <1>6 DEF Injection, IsInjective
<1>8. Cardinality(1 .. n) <= Cardinality(DOMAIN TemplatesOf(x))
  <2> HIDE DEF f
  <2> QED BY <1>2, <1>7, FS_Injection
<1>9. Cardinality(1 .. n) = n
  BY <1>3, FS_Interval
<1> QED BY <1>2, <1>3, <1>8, <1>9

\* ... and grows by each instance below it
LEMMA PathExtends ==
  ASSUME NEW x \in DOMAIN Program, NEW p \in BuildNodes(x), NEW i \in DOMAIN ChildInstances(x, p)
  PROVE  LET e == Entry(ChildInstances(x, p), i)
         IN  Append(p, e) \in BuildNodes(x) /\ Len(Append(p, e)) = Len(p) + 1
             /\ SubSeq(Append(p, e), 1, Len(p)) = p /\ Append(p, e)[Len(p) + 1] = e
<1> DEFINE e == Entry(ChildInstances(x, p), i)
           q == Append(p, e)
           n == Len(p)
<1>1. LastOf(p).template \in DOMAIN TemplatesOf(x) \ TemplatesAbove(p)
  BY DEF ChildInstances
<1>2. ChildInstances(x, p) \in InstanceLists(x)
  BY <1>1 DEF ChildInstances, InstanceLists
<1>3. e \in Entries(ChildInstances(x, p)) /\ e \in Instances(x)
  BY <1>2 DEF Entries, Instances
<1>4. n \in 1 .. Cardinality(DOMAIN TemplatesOf(x)) /\ Cardinality(DOMAIN TemplatesOf(x)) \in Nat
  BY <1>1, PathGrows, ProgramsAssumption, FS_CardinalityType
<1>5. n \in Nat \ {0} /\ p \in [1 .. n -> Instances(x)]
  <2>1. PICK m \in 1 .. Cardinality(DOMAIN TemplatesOf(x)) + 1 : p \in [1 .. m -> Instances(x)]
    BY DEF BuildNodes, Paths
  <2>2. m \in Nat /\ Len(p) = m
    BY <1>4, <2>1
  <2> QED BY <1>4, <2>1, <2>2
<1>6. p \in Seq(Instances(x))
  BY <1>5
<1> HIDE DEF e, n
<1>7. /\ q \in Seq(Instances(x)) /\ Len(q) = n + 1
      /\ \A k \in 1 .. n : q[k] = p[k]
      /\ q[n + 1] = e
  BY <1>3, <1>6, AppendProperties DEF n
<1> HIDE DEF q
<1>8. \A k \in 1 .. n : SubSeq(q, 1, k) = SubSeq(p, 1, k)
  <2> TAKE k \in 1 .. n
  <2>1. /\ SubSeq(q, 1, k) = [j \in 1 .. k |-> q[j]]
        /\ SubSeq(p, 1, k) = [j \in 1 .. k |-> p[j]]
    BY <1>5, <1>6, <1>7
  <2>2. \A j \in 1 .. k : q[j] = p[j]
    BY <1>5, <1>7
  <2> QED BY <2>1, <2>2
<1>9. SubSeq(p, 1, n) = p
  BY <1>5, <1>6
<1>10. q \in Paths(x)
  <2>1. q \in [1 .. n + 1 -> Instances(x)]
    BY <1>5, <1>7
  <2>2. n + 1 \in 1 .. Cardinality(DOMAIN TemplatesOf(x)) + 1
    BY <1>4, <1>5 DEF n
  <2> QED BY <2>1, <2>2 DEF Paths
<1>11. q \in BuildNodes(x)
  <2>1. q[1] \in Entries(Program[x].insts)
    <3>1. q[1] = p[1]
      BY <1>5, <1>7
    <3> QED BY <3>1 DEF BuildNodes
  <2>2. ASSUME NEW k \in 1 .. Len(q) - 1
        PROVE  q[k + 1] \in Entries(ChildInstances(x, SubSeq(q, 1, k)))
    <3>1. k \in 1 .. n /\ SubSeq(q, 1, k) = SubSeq(p, 1, k)
      BY <1>5, <1>7, <1>8
    <3>2. CASE k = n
      BY <1>3, <1>7, <1>9, <3>1, <3>2
    <3>3. CASE k # n
      <4>1. k \in 1 .. n - 1 /\ k + 1 \in 1 .. n
        BY <1>5, <3>1, <3>3
      <4>2. q[k + 1] = p[k + 1]
        BY <1>7, <4>1
      <4>3. p[k + 1] \in Entries(ChildInstances(x, SubSeq(p, 1, k)))
        BY <4>1 DEF BuildNodes, n
      <4> QED BY <3>1, <4>2, <4>3
    <3> QED BY <3>2, <3>3
  <2> QED BY <1>10, <2>1, <2>2 DEF BuildNodes
<1>12. SubSeq(q, 1, n) = p
  BY <1>5, <1>8, <1>9
<1> QED BY <1>7, <1>11, <1>12 DEF q, e, n

\* Below a row are the instances of the level it opens
LEMMA RowsShowLevel ==
  ASSUME NEW x \in DOMAIN Program, NEW r \in Tree(x)
  PROVE  LET template == LastOf(r.path).template
         IN  \/ template \in TemplatesAbove(r.path) /\ ~ r.composite
             \/ {NamesOn(q.path)[Len(q.path)] : q \in RowsBelow(x, r)} = DOMAIN LevelInstances(x, template)
<1> DEFINE p == r.path
           t == LastOf(p).template
           L == ChildInstances(x, p)
<1>1. /\ p \in BuildNodes(x) /\ r = TreeNode(p, DOMAIN L # {})
      /\ Len(p) \in Nat \ {0} /\ LastOf(p) \in Instances(x)
  BY RowsAreInstances DEF TreeNode
<1>2. CASE t \in TemplatesAbove(p)
  <2>1. L = <<>>
    BY <1>2 DEF ChildInstances
  <2>2. ~ r.composite
    <3>1. DOMAIN L = {}
      BY <2>1
    <3>2. r.composite = (DOMAIN L # {})
      BY <1>1 DEF TreeNode
    <3> HIDE DEF L
    <3> QED BY <3>1, <3>2
  <2> QED BY <1>2, <2>2
<1>3. CASE t \notin TemplatesAbove(p)
  <2>1. t # Root
    BY <1>1, ProgramsAssumption
  <2>2. L = LevelInstances(x, t)
    BY <1>3, <2>1 DEF ChildInstances, LevelInstances
  <2>3. ASSUME NEW q \in RowsBelow(x, r) PROVE NamesOn(q.path)[Len(q.path)] \in DOMAIN L
    <3>1. q \in Tree(x) /\ Len(q.path) = Len(p) + 1 /\ SubSeq(q.path, 1, Len(p)) = p
      BY DEF RowsBelow
    <3>2. q.path \in BuildNodes(x)
      BY <3>1, RowsAreInstances
    <3>3. Len(p) \in 1 .. Len(q.path) - 1
      BY <1>1, <3>1
    <3>4. q.path[Len(p) + 1] \in Entries(L)
      BY <3>1, <3>2, <3>3 DEF BuildNodes
    <3>5. PICK i \in DOMAIN L : q.path[Len(q.path)] = Entry(L, i)
      BY <3>1, <3>4 DEF Entries
    <3>6. NamesOn(q.path)[Len(q.path)] = q.path[Len(q.path)].name
      BY <1>1, <3>1 DEF NamesOn
    <3> QED BY <3>5, <3>6 DEF Entry
  <2>4. ASSUME NEW i \in DOMAIN L PROVE \E q \in RowsBelow(x, r) : NamesOn(q.path)[Len(q.path)] = i
    <3> DEFINE e == Entry(L, i)
               s == Append(p, e)
               q == TreeNode(s, DOMAIN ChildInstances(x, s) # {})
    <3>1. s \in BuildNodes(x) /\ Len(s) = Len(p) + 1 /\ SubSeq(s, 1, Len(p)) = p /\ s[Len(p) + 1] = e
      BY <1>1, PathExtends
    <3>2. e.name = i
      BY DEF Entry
    <3> HIDE DEF s, e
    <3>3. q \in Tree(x) /\ q.path = s
      BY <3>1 DEF Tree, Trees, TreeNode
    <3>4. q \in RowsBelow(x, r)
      BY <3>1, <3>3 DEF RowsBelow
    <3>5. NamesOn(s)[Len(s)] = i
      <4>1. Len(s) \in 1 .. Len(s)
        BY <1>1, <3>1
      <4> QED BY <3>1, <3>2, <4>1 DEF NamesOn
    <3> QED BY <3>3, <3>4, <3>5
  <2> HIDE DEF L, t, p
  <2>5. {NamesOn(q.path)[Len(q.path)] : q \in RowsBelow(x, r)} = DOMAIN L
    BY <2>3, <2>4
  <2> QED BY <2>2, <2>5 DEF t, p
<1> QED BY <1>2, <1>3

\* What the canvas marks as drillable shows something when it is opened, and
\* below a row of the tree are the instances that its level shows
\* (extractLevelFlow.ts, useHierarchyTree.ts, DiagramCanvas.vue)
THEOREM OpensWhatIsThere == Spec => []WhatOpensIsThere
<1>1. DInv => WhatOpensIsThere
  <2> SUFFICES ASSUME DInv PROVE WhatOpensIsThere
    OBVIOUS
  <2>1. ASSUME props.mounted, shown.graph = props.graph, NEW i \in NodesOf(shown.graph)
        PROVE  Drillable(shown.graph.of, shown.graph.level, i)
                 <=> LevelInstances(result, TemplateOf(shown.graph, i)) # <<>>
    <3> DEFINE g == shown.graph
               t == TemplateOf(g, i)
    <3>1. result \in DOMAIN Program /\ g = Graph(result, Level)
      BY <2>1 DEF DInv, CanvasProps, Mounted, Unmounted
    <3>2. g \in Graphs /\ g.of = result /\ t = LevelInstances(result, g.level)[i]
      BY <3>1 DEF DInv, ViewInv, ViewTypeOK, Graph, TemplateOf
    <3>3. PICK x \in DOMAIN Program, level \in Levels :
            g = Graph(x, level) /\ [name |-> i, template |-> t] \in Instances(x)
      BY <3>2, NodesAreInstances
    <3>4. t # Root
      BY <3>3, ProgramsAssumption
    <3>5. Drillable(g.of, g.level, i) <=> t \in DOMAIN TemplatesOf(result) /\ DOMAIN TemplatesOf(result)[t].insts # {}
      BY <3>2 DEF Drillable, Composite
    <3> HIDE DEF t
    <3>6. CASE t \in DOMAIN TemplatesOf(result)
      <4>1. LevelInstances(result, t) = TemplatesOf(result)[t].insts
        BY <3>4, <3>6 DEF LevelInstances
      <4>2. TemplatesOf(result)[t].insts \in InstanceLists(result)
        BY <3>6 DEF InstanceLists
      <4> QED BY <3>1, <3>5, <3>6, <4>1, <4>2, NoInstances DEF t
    <3>7. CASE t \notin DOMAIN TemplatesOf(result)
      <4>1. LevelInstances(result, t) = <<>>
        BY <3>4, <3>7 DEF LevelInstances
      <4> QED BY <3>5, <3>7, <4>1 DEF t
    <3> QED BY <3>6, <3>7
  <2> QED BY <2>1, RowsShowLevel DEF WhatOpensIsThere
<1> QED BY <1>1, AppInvariance, PTL
=============================================================================
