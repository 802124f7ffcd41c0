---------------------------- MODULE DiagramView -----------------------------
(***************************************************************************)
(* FlowDiagram.vue: the component that draws a graph.  Its parent sets the *)
(* graph and the mode; a new graph is laid out by ELK, which answers later *)
(* and in the order it was asked; a new mode redraws what the last answer  *)
(* left behind; the user drags nodes.                                      *)
(*                                                                         *)
(* A layout is abstracted to the kind of each edge: "orthogonal" along the *)
(* waypoints of the layout, "smoothstep" when the layout failed, "default" *)
(* once an end was dragged.  Sizes, spacings, colours and the paths        *)
(* themselves are left out.                                                *)
(***************************************************************************)
EXTENDS Integers, Sequences

CONSTANTS
  Graphs,           \* the graphs the parent may pass
  NodesOf(_),       \* the devices of a graph
  WiresOf(_),       \* its edges: pairs of devices
  Routable(_),      \* whether ELK knows the ports of all its edges
  NoGraph           \* the graph without a node

Modes == {"wires", "netnames"}

ASSUME NoGraphAssumption == NoGraph \in Graphs /\ NodesOf(NoGraph) = {} /\ WiresOf(NoGraph) = {}

VARIABLES
  props,     \* what the parent passes: [mounted, graph, mode]
  pending,   \* the graphs ELK has still to answer for, in order
  stored,    \* the graph of storedPostLayoutNodes and storedRoutedEdges
  shown,     \* the graph and mode of the nodes and edges on the canvas
  kinds,     \* edge on the canvas -> its kind
  dragging,  \* the nodes under the pointer
  moved,     \* the nodes that are not where the last setNodes put them
  caught     \* history: nodes that were under the pointer when they were put
             \* in place, and were not picked up again

viewVars == <<pending, stored, shown, kinds, dragging, moved, caught>>

Ends(w) == {w[1], w[2]}
Shown(g, m) == [graph |-> g, mode |-> m]

\* Before the parent has something to draw there is no component
Unmounted == [mounted |-> FALSE, graph |-> NoGraph, mode |-> "wires"]
Mounted(g, m) == [mounted |-> TRUE, graph |-> g, mode |-> m]
Passed == {Unmounted} \cup {Mounted(g, m) : g \in Graphs, m \in Modes}

ViewInit ==
  /\ props = Unmounted
  /\ pending = <<>>
  /\ stored = NoGraph
  /\ shown = Shown(NoGraph, "wires")
  /\ kinds = <<>>
  /\ dragging = {}
  /\ moved = {}
  /\ caught = {}

-----------------------------------------------------------------------------

\* applyElkRouting: an edge without waypoints keeps its type
Routed(g) == [w \in WiresOf(g) |-> IF Routable(g) THEN "orthogonal" ELSE "smoothstep"]

\* setNodes and setEdges put the nodes of the last layout in place
Draw(g, m) ==
  /\ shown' = Shown(g, m)
  /\ kinds' = Routed(g)
  /\ moved' = {}
  /\ caught' = dragging'

\* The graph of the component once the layout of g is there
Lay(g, m) == stored' = g /\ Draw(g, m)

\* Mutant: a graph that comes while ELK is at work is passed over
WatchWhenIdle(g, m, waiting) ==
  IF NodesOf(g) = {}
  THEN pending' = waiting /\ Lay(g, m)
  ELSE /\ pending' = IF waiting = <<>> THEN <<g>> ELSE waiting
       /\ UNCHANGED <<stored, shown, kinds, moved, caught>>

\* The watcher on nodes and edges.  Without nodes there is nothing to wait
\* for and the canvas is emptied at once, before layouts that are under way
Watch(g, m, waiting) ==
  IF NodesOf(g) = {}
  THEN pending' = waiting /\ Lay(g, m)
  ELSE pending' = Append(waiting, g) /\ UNCHANGED <<stored, shown, kinds, moved, caught>>

Mount ==
  /\ ~ props.mounted
  /\ props'.mounted
  /\ dragging' = {}
  /\ IF NodesOf(props'.graph) = {}
     THEN pending' = <<>> /\ Lay(props'.graph, props'.mode)
     ELSE /\ pending' = <<props'.graph>>
          /\ stored' = NoGraph
          /\ Draw(NoGraph, props'.mode)

\* What was awaited goes on, but it draws on a canvas that is gone
Unmount ==
  /\ props.mounted
  /\ ~ props'.mounted
  /\ dragging' = {}
  /\ pending' = <<>>
  /\ Lay(NoGraph, "wires")

NewGraph ==
  /\ props.mounted
  /\ props' = Mounted(props'.graph, props.mode)
  /\ UNCHANGED dragging
  /\ Watch(props'.graph, props.mode, pending)

\* Mutant: the mode is remembered and shown with the next layout
ModeLater == UNCHANGED <<stored, shown, kinds, moved, caught>>

\* The watcher on the mode redraws the stored layout
RedrawStored == UNCHANGED stored /\ Draw(stored, props'.mode)

NewMode ==
  /\ props.mounted
  /\ props.mode # props'.mode
  /\ props' = Mounted(props.graph, props'.mode)
  /\ UNCHANGED <<pending, dragging>>
  /\ RedrawStored

\* How the component follows its parent; `again' says that the parent passes
\* new arrays, be it for the same graph
Follow(again) ==
  \/ Mount
  \/ Unmount
  \/ again /\ NewGraph
  \/ ~ again /\ NewMode
  \/ /\ ~ again \/ ~ props.mounted
     /\ props' = props
     /\ UNCHANGED viewVars

\* The continuation of the watcher; it reads the mode of now
LayoutDone ==
  /\ pending # <<>>
  /\ pending' = Tail(pending)
  /\ UNCHANGED <<props, dragging>>
  /\ Lay(Head(pending), props.mode)

\* Mutant: only the edges that leave a dragged node are redrawn
LeavesDragged(w, ns) == w[1] \in ns

TouchesDragged(w, ns) == Ends(w) \cap ns # {}

\* onNodeDragStart: edges that keep waypoints would not follow the node
DragStart(ns) ==
  /\ props.mounted
  /\ dragging = {}
  /\ ns # {}
  /\ ns \subseteq NodesOf(shown.graph)
  /\ dragging' = ns
  /\ moved' = moved \cup ns
  /\ kinds' = [w \in DOMAIN kinds |->
                 IF kinds[w] = "orthogonal" /\ TouchesDragged(w, ns) THEN "default" ELSE kinds[w]]
  /\ caught' = caught \ ns
  /\ UNCHANGED <<props, pending, stored, shown>>

\* The pointer moves on after the nodes were put back in place under it
DragOn ==
  /\ ~ dragging \subseteq moved
  /\ moved' = moved \cup dragging
  /\ UNCHANGED <<props, pending, stored, shown, kinds, dragging, caught>>

DragStop ==
  /\ dragging # {}
  /\ dragging' = {}
  /\ UNCHANGED <<props, pending, stored, shown, kinds, moved, caught>>

Drag ==
  \/ \E n \in NodesOf(shown.graph) : DragStart({n})
  \/ DragOn
  \/ DragStop

\* The component under any parent
SetProps ==
  /\ props' \in Passed
  /\ \E again \in BOOLEAN : Follow(again)

ViewNext == SetProps \/ LayoutDone \/ Drag

ViewSpec == ViewInit /\ [][ViewNext]_<<props, viewVars>>

-----------------------------------------------------------------------------
(* Properties.                                                             *)

\* When no layout is under way, the canvas shows the graph the parent passes
\* now and in its mode, however graphs, modes and answers were interleaved.
\* The empty graph is excepted: it is shown at once, and the answer to an
\* earlier graph replaces it
SettledShowsCurrent ==
  props.mounted =>
    /\ shown.mode = props.mode
    /\ pending = <<>> /\ NodesOf(props.graph) # {} => shown.graph = props.graph

\* An edge drawn along the waypoints of a layout ends on nodes that are where
\* that layout put them.  A node that is under the pointer when a layout
\* answers is excepted: it is put in place, and moves on with the pointer
NoStaleWaypoints ==
  \A w \in DOMAIN kinds : kinds[w] = "orthogonal" => Ends(w) \cap moved \subseteq caught

=============================================================================
