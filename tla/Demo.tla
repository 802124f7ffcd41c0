-------------------------------- MODULE Demo --------------------------------
(***************************************************************************)
(* The demo application around its diagram: DiagramCanvas.vue turns the    *)
(* shown result and the open level into the graph of FlowDiagram.vue, and  *)
(* clicks on its nodes open levels.                                        *)
(***************************************************************************)
EXTENDS DemoApp, DiagramView

\* What the application shows is a graph when the compile had no errors
Graph(x, level) == [of |-> x, level |-> level]

GraphNodes(g) == IF g = NoGraph THEN {} ELSE DOMAIN LevelInstances(g.of, g.level)
GraphWires(g) == IF g = NoGraph THEN {} ELSE LevelWires(g.of, g.level)

\* The diagram is given the levels of the programs
ASSUME GraphsAssumption ==
  /\ Graphs = {NoGraph} \cup {Graph(x, level) : x \in DOMAIN Program, level \in Levels}
  /\ \A g \in Graphs : NodesOf(g) = GraphNodes(g) /\ WiresOf(g) = GraphWires(g)

TemplateOf(g, i) == LevelInstances(g.of, g.level)[i]

\* DiagramCanvas: a placeholder without a result, or with one that failed
CanvasProps ==
  IF result \in DOMAIN Program /\ ~ HasIssues(result)
  THEN Mounted(Graph(result, Level), mode)
  ELSE Unmounted

\* The graph is computed anew when the result or the open template changes
Recomputed(assigned) == assigned \/ Level' # Level

\* Mutant: the component took its props apart when it was set up, and does
\* not see them change
RenderOnce(assigned) ==
  /\ props' = CanvasProps'
  /\ IF props.mounted /\ props'.mounted THEN UNCHANGED viewVars ELSE Follow(FALSE)

Render(assigned) ==
  /\ props' = CanvasProps'
  /\ Follow(Recomputed(assigned))

\* A click on a node of the canvas, onNodeClick: what can be opened and what
\* it opens was computed with the graph that is shown
ClickNode(i) ==
  /\ i \in NodesOf(shown.graph)
  /\ Drillable(shown.graph.of, shown.graph.level, i)
  /\ Drill(i, TemplateOf(shown.graph, i))

-----------------------------------------------------------------------------

Init == AppInit /\ ViewInit

\* The pointer is free
Click ==
  /\ dragging = {}
  /\ \/ \E i \in DOMAIN Examples : LoadExample(i) /\ Render(TRUE)
     \/ \E d \in DOMAIN Directories : OpenDirectory(d) /\ Render(FALSE)
     \/ props.mounted /\ \E i \in NodesOf(shown.graph) : ClickNode(i) /\ Render(FALSE)
     \/ \E k \in 0 .. MaxInputs : Navigate(k) /\ Render(FALSE)
     \/ \E r \in VisibleRows : SelectRow(r) /\ Render(FALSE)
     \/ \E m \in Modes : SetMode(m) /\ Render(FALSE)
     \/ ClosePanel /\ Render(FALSE)

Type == \E t \in TypedTexts : Edit(t) /\ Render(FALSE)

Compiler ==
  \/ WasmLoads /\ Render(Compiles(InputOf(selected, source)))
  \/ WasmFails /\ Render(FALSE)

Files ==
  \E d \in DOMAIN Directories :
    \/ DirectoryRead(d) /\ Render(result' # result \/ MultiResult(d) = result)
    \/ Abandoned(d) /\ Render(FALSE)

Timer == TimerFires /\ Render(Compiles(InputOf(selected, source)))

Layout == LayoutDone /\ UNCHANGED appVars

Pointer ==
  \/ /\ Input
     /\ \E n \in NodesOf(shown.graph) : DragStart({n})
     /\ UNCHANGED <<wasm, source, doc, selected, result, timer, reading, stack, mode, panel, expanded>>
  \/ (DragOn \/ DragStop) /\ UNCHANGED appVars

Next == Click \/ Type \/ Compiler \/ Files \/ Timer \/ Layout \/ Pointer

vars == <<appVars, props, viewVars>>

\* A timer fires and ELK answers; nothing else must happen
Spec == Init /\ [][Next]_vars /\ WF_vars(Timer) /\ WF_vars(Layout)

-----------------------------------------------------------------------------
(* Properties.                                                             *)

\* A directory is shown whose entry file is in the editor
ResultOfDirectory ==
  \E d \in DOMAIN Directories : result = Directories[d].files /\ doc = Normal[Directories[d].text]

\* While an example of one text is selected, what is shown is the result of
\* the text in the editor
ResultOfEditor ==
  Examples[selected].kind = "single" /\ wasm = "ready" =>
    result = doc \/ Outcome[doc] = "throws" \/ ResultOfDirectory

\* While a project is selected, it is that of its files, whatever is typed:
\* its text in the editor is never compiled
ResultOfProject ==
  LET files == Examples[selected].files
  IN  Examples[selected].kind = "multi" /\ wasm = "ready" =>
        result = files \/ Outcome[files] = "throws" \/ ResultOfDirectory

\* When no compile is due the one or the other is shown, in whatever order the
\* compiler loads, the user types, examples change and directories are read
QuietShowsInput == ~ timer => ResultOfEditor /\ ResultOfProject

\* A result with errors opens the diagnostics panel, unless a directory with
\* errors, though none of the parser's, follows a result that had some: the
\* watcher on hasIssues sees no change then
IssuesOpenPanel ==
  [][result' # result /\ HasIssues(result') =>
       \/ panel'
       \/ reading' # reading /\ HasIssues(result) /\ ~ HasParseErrors(result')]_vars

\* The tree, the nodes of the canvas and the levels agree: a node that can be
\* opened shows something then, and below a row of the tree are the instances
\* that its level shows, except below the template itself, where the tree
\* ends and the diagram goes on
WhatOpensIsThere ==
  /\ props.mounted /\ shown.graph = props.graph =>
       \A i \in NodesOf(shown.graph) :
         Drillable(shown.graph.of, shown.graph.level, i)
           <=> LevelInstances(result, TemplateOf(shown.graph, i)) # <<>>
  /\ result \in DOMAIN Program =>
       \A r \in Tree(result) :
         LET template == LastOf(r.path).template
         IN  \/ template \in TemplatesAbove(r.path) /\ ~ r.composite
             \/ {NamesOn(q.path)[Len(q.path)] : q \in RowsBelow(result, r)}
                  = DOMAIN LevelInstances(result, template)

\* What the application does to its diagram is what the component expects of a
\* parent, so what is proved of the component holds in the application
DiagramServed == ViewSpec

\* Once the user stops, the application comes to show what is in the editor,
\* when what is selected is not a project
EditsCompiled == <>[]ResultOfEditor

\* ... and the diagram the graph of it
DiagramCatchesUp ==
  <>[](props.mounted /\ NodesOf(props.graph) # {} => shown = Shown(props.graph, props.mode))
=============================================================================
