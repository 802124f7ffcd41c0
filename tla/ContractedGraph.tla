-------------------------- MODULE ContractedGraph --------------------------
(***************************************************************************)
(* A flat program, its contraction, and the graphs both compile to: the    *)
(* call of contract_to_hierarchy, and then the two of compile_ast_to_graph *)
(* that compare its result with the program, as one step.                  *)
(***************************************************************************)
EXTENDS Contract, GraphLevels

\* Texts are made of pieces, and "to" is none of the numerals
Text == Seq(STRING) \ {<<>>}
Channel == 0..(Modulus - 1)
ASSUME NumeralsTyped == Numeral \in [Channel -> STRING \ {"to"}]

TypedRef(ref) ==
  /\ ref = Ref(ref.inst, ref.port, ref.indexed, ref.index)
  /\ ref.inst \in Text /\ ref.port \in Text /\ ref.index \in Seq(Channel)
  /\ ref.indexed \in BOOLEAN /\ (ref.index # <<>> => ref.indexed)
TypedMapping(mapping) ==
  /\ mapping.kind \in {"explicit", "offset", "unread", "default"}
  /\ mapping.kind = "explicit" => mapping.pairs \in Seq(Channel \X Channel)
  /\ mapping.kind = "offset" => mapping.by \in Int

\* What the parser makes of connects, bridges and bridge groups; no group has as many sources as
\* there are channel numbers
ASSUME RefsTyped ==
  \A x \in Inputs :
    /\ \A c \in ElementsOf(x[1].connects) :
         /\ c = [source |-> c.source, target |-> c.target, mapping |-> c.mapping]
         /\ TypedRef(c.source) /\ TypedRef(c.target) /\ TypedMapping(c.mapping)
    /\ x[1].bridges \in Seq(ElementsOf(x[1].bridges)) /\ x[1].groups \in Seq(ElementsOf(x[1].groups))
    /\ \A b \in ElementsOf(x[1].bridges) : TypedRef(b.source) /\ TypedRef(b.target)
    /\ \A g \in ElementsOf(x[1].groups) : TypedRef(g.target) /\ DOMAIN Fanned(g) \subseteq 1..Modulus
    /\ \A s \in ElementsOf(x[1].signals) : s = [name |-> s.name, origin |-> s.origin] /\ TypedRef(s.origin)

\* What it makes of templates and instances; a name is not empty
TypedInstances(list) ==
  /\ list \in Seq(ElementsOf(list))
  /\ \A i \in ElementsOf(list) : i.name \in Text \ {NoInstance} /\ i.cards \in Seq(ElementsOf(i.cards))
TypedPort(d) ==
  /\ d.name \in Text /\ d.dir \in {"in", "out", "io"} /\ d.ranged \in BOOLEAN
  /\ d.ranged => d.lo \in Channel /\ d.hi \in Channel
TypedTemplate(t) ==
  /\ t.ports \in Seq(ElementsOf(t.ports)) /\ \A d \in ElementsOf(t.ports) : TypedPort(d)
  /\ TypedInstances(t.instances)

ASSUME TemplatesTyped ==
  \A x \in Inputs :
    /\ DOMAIN x[1] = {"templates", "instances", "connects", "bridges", "groups", "signals"}
    /\ TypedInstances(x[1].instances)
    /\ IsFiniteSet(DOMAIN x[1].templates)
    /\ \A name \in DOMAIN x[1].templates : TypedTemplate(x[1].templates[name])
ASSUME SanitizedTyped == \A g \in Cluster : {Sanitized[g], GroupInstance(g), GroupTemplate(g)} \subseteq Text

VARIABLE compiled   \* the graph each of the two programs has compiled to

ViewInit == Init /\ compiled = <<>>

Contracting == Next /\ UNCHANGED compiled

Compile ==
  /\ phase = "done" /\ compiled = <<>>
  /\ compiled' = [program \in {flat, grouped} |-> CompileToGraph(program)]
  /\ UNCHANGED vars

ViewNext == Contracting \/ Compile

ViewSpec == ViewInit /\ [][ViewNext]_<<vars, compiled>> /\ WF_<<vars, compiled>>(ViewNext)

Done == compiled # <<>>

FlatGraph == compiled[flat]
GroupedGraph == compiled[grouped]


-----------------------------------------------------------------------------
(* Leaf connections, as the equivalence gate reads them (contract_tests):  *)
(* ports of real devices are told by device and port, ports on a boundary  *)
(* by their full ID, and connects are followed through the latter.         *)

Devices == InstanceNames(flat)

Vertex(node, id) ==
  IF node # <<>> /\ Last(node) \in Devices THEN <<"R", Last(node), id[2]>> ELSE <<"B", id[1], id[2]>>

Adjacent(levels) ==
  UNION {{<<Vertex(e.sourceNode, e.sourcePort), Vertex(e.targetNode, e.targetPort)>>
            : e \in {e \in l.edges : e.type = "connect"}} : l \in levels}

After(adj, vs) == {a[2] : a \in {a \in adj : a[1] \in vs}}
Boundary(vs) == {v \in vs : v[1] = "B"}

\* What a vertex leads to over at most so many boundaries
Reached(adj, s, most) ==
  LET reach[k \in 0..most] ==
        IF k = 0 THEN After(adj, {s}) ELSE reach[k - 1] \cup After(adj, Boundary(reach[k - 1]))
  IN reach

LeafConnects(levels) ==
  LET adj == Adjacent(levels)
      most == Cardinality(levels)
  IN {st \in {a[1] : a \in adj} \X {a[2] : a \in adj} :
        st[1][1] = "R" /\ st[2][1] = "R" /\ st[2] \in Reached(adj, st[1], most)[most]}

\* "The compiled graph of the result is leaf-equivalent to the flat program's" (contract.rs header)
LeafEquivalent == Done => LeafConnects(LevelsOf(FlatGraph)) = LeafConnects(LevelsOf(GroupedGraph))

-----------------------------------------------------------------------------
(* What has to hold of the program for the equivalence to be true.         *)

Cables == ElementsOf(flat.connects)
Cut == {c \in Cables : ~SameGroup(c)}

FirstOf(ref) == IF Own(ref) /\ LastNamed(OwnPorts(ref), ref.port).ranged THEN LastNamed(OwnPorts(ref), ref.port).lo ELSE 1

\* Inside a template a whole port is all its channels, at the root only the first
InsideNamesChannels ==
  \A c \in Cables \ Cut : \A r \in {c.source, c.target} : r.index = <<>> => Own(r) /\ PortEnd(r) = NoEnd

CablesJoinDevices == \A c \in Cables : {c.source.inst, c.target.inst} \subseteq Devices

\* [auto] is not resolved before the contraction
NoAutoCut == \A r \in NotedRefs : r.indexed => r.index # <<>>

\* A whole port on a boundary is the template's own, starts at channel 1, and has the channels
\* that others name
WholeFromOne ==
  /\ \A r \in NotedRefs : ~r.indexed => Own(r) /\ FirstOf(r) = 1
  /\ \A k \in DOMAIN exposed : exposed[k].whole => \A ch \in exposed[k].channels : ch >= 1 /\ exposed[k].end # NoEnd

\* A port is used in the direction its wire has inside the group
WiredAsUsed ==
  \A c \in Cut : /\ Grouped(c.source) => exposed[Key(c.source)].dir # "in"
                 /\ Grouped(c.target) => exposed[Key(c.target)].dir = "in"

\* Taking an instance to the top can cut a cable with a mapping that crossed nothing before
MappingsUncut == \A c \in Cut : Grouped(c.source) \/ Grouped(c.target) => c.mapping.kind = "default"

\* No port of a device reads like another or like a channel of another
DefinitionsOf(name) == NodeDefinitions(flat, LastNamed(flat.instances, name))
PortsApart(names) ==
  \A n \in names : \A j, k \in DOMAIN DefinitionsOf(n) :
    LET ports == ElementsOf(PortNames(DefinitionsOf(n)[j]))
        base == DefinitionsOf(n)[k].name
    IN ports # {} /\ (j # k => \A m \in ports : m # base /\ \A ch \in Channel : ~IsPrefix(base \o Suffix(ch), m))

InnerInstances == UNION {ElementsOf(flat.templates[t].instances) : t \in DOMAIN flat.templates}
InnerConnects == UNION {ElementsOf(flat.templates[t].connects) : t \in DOMAIN flat.templates}

\* Group names spell nothing else
GroupsApart ==
  /\ \A g, h \in Groups : Sanitized[g] = Sanitized[h] => g = h
  /\ \A g \in Groups :
       /\ GroupInstance(g) \notin Devices
       /\ GroupTemplate(g) \notin DOMAIN flat.templates
       /\ \A i \in ElementsOf(flat.instances) \cup InnerInstances :
            GroupTemplate(g) \notin {i.template} \cup ElementsOf(i.cards)

\* The gate tells devices by their last name: nothing inside a template has it
InnerApart ==
  /\ \A c \in InnerConnects : c.source.inst \notin Devices /\ c.target.inst \notin Devices
  /\ \A n \in Devices \cup {i.name : i \in InnerInstances} \cup {GroupInstance(g) : g \in Groups} :
       Append(n, "inputs") \notin Devices /\ Append(n, "outputs") \notin Devices

\* The texts of the two ports of an edge, one after the other
SourceText(e) == e.sourcePort[1][1] \o e.sourcePort[2]
EndsText(e) == SourceText(e) \o e.targetPort[1][1] \o e.targetPort[2]

\* Cables that spell the same, port after port with its channel, join the same ports
EndsApart(cables) ==
  \A c, d \in cables : \A e \in ConnectEdges(c), f \in ConnectEdges(d) :
    EndsText(e) = EndsText(f) => e.sourcePort = f.sourcePort /\ e.targetPort = f.targetPort

\* Neither cables nor the ports on a boundary spell the same
TextsApart ==
  /\ EndsApart(Cables) /\ EndsApart(ElementsOf(grouped.connects))
  /\ \A k, l \in DOMAIN exposed :
       k # l /\ group_of[k[1]] = group_of[l[1]] => ~IsPrefix(exposed[k].name, exposed[l].name)

InScopeButInside ==
  /\ CablesJoinDevices /\ NoAutoCut /\ WholeFromOne /\ WiredAsUsed /\ MappingsUncut
  /\ PortsApart(DOMAIN group_of) /\ GroupsApart /\ InnerApart /\ TextsApart

InScope == InsideNamesChannels /\ InScopeButInside

\* The same promise for all programs but those with a whole port inside a group
EquivalentInside == Done /\ InScopeButInside => LeafEquivalent

\* The promise of the contraction, for the programs that stay within its scope: the same ports of
\* the same devices are connected, channel by channel, before and after.
EquivalentInScope == Done /\ InScope => LeafEquivalent

-----------------------------------------------------------------------------

\* Channels of a device port that a group's level wires to the port standing for it
WiredChannels(k) ==
  LET g == <<GroupInstance(group_of[k[1]])>>
      device(ch) == <<Append(g, k[1]), k[2] \o Suffix(ch)>>
      boundary(ch) == <<g, exposed[k].name \o Suffix(ch)>>
      edges == UNION {l.edges : l \in {l \in GroupedGraph.inside : l.path = g}}
  IN {ch \in DOMAIN Numeral : \E e \in edges :
        {e.sourcePort, e.targetPort} = {device(ch), boundary(ch)}}

DevicePort(k) == Ref(k[1], k[2], FALSE, <<>>)

\* A group wires to a boundary port exactly those existing channels of the device that cross
\* ("wires ONLY the channels that actually cross the boundary", contract.rs header), and all
\* of them when a reference to the whole port crosses.
BoundaryWired ==
  Done /\ InScope =>
    \A k \in {k \in DOMAIN exposed : exposed[k].end # NoEnd} :
      LET existing == FirstOf(DevicePort(k))..exposed[k].end
      IN exposed[k].channels \cap 0..(FirstOf(DevicePort(k)) - 1) = {} =>
           WiredChannels(k) = {ch \in existing : exposed[k].whole \/ ch \in exposed[k].channels}

\* The origin a compiled signal shows is, before and after, the same channel of the same device:
\* either it is unchanged, or its group's level wires it to the device.  An origin of several
\* channels is shown as none of them.
OriginsKept ==
  Done /\ InScope =>
    \A i \in {i \in DOMAIN flat.signals : /\ Len(flat.signals[i].origin.index) <= 1
                                        /\ OriginPort(flat.signals[i]) \in AllIds(FlatGraph.root.nodes)} :
      LET before == OriginPort(flat.signals[i])
          after == OriginPort(grouped.signals[i])
          device == <<after[1] \o before[1], before[2]>>
      IN \/ after = before /\ before \in AllIds(GroupedGraph.root.nodes)
         \/ \E l \in GroupedGraph.inside :
              l.path = after[1] /\ \E e \in l.edges : {e.sourcePort, e.targetPort} = {device, after}

-----------------------------------------------------------------------------
(* The graph on its own.                                                   *)

\* A reference to a declared port, none of whose channels is below its range or a boundary's; the
\* compiler drops what is above
NotBelow(ref) ==
  /\ Own(ref) /\ (ref.index # <<>> => PortEnd(ref) # NoEnd)
  /\ \A ch \in ElementsOf(ref.index) : ch >= 1 /\ ch >= FirstOf(ref)

Regular ==
  /\ \A c \in Cables : c.mapping.kind = "default" /\ NotBelow(c.source) /\ NotBelow(c.target)
  /\ \A r \in NotedRefs : NotBelow(r)
  /\ PortsApart(Devices)

\* The levels the contraction is about: the two roots, and the groups'
LevelsOfGroups == {l \in GroupedGraph.inside : \E g \in Groups : l.path = <<GroupInstance(g)>>}

\* Of a regular program every edge of a cable, and every edge the contraction wires, ends at ports of
\* the nodes it names, so that a strict importer finds a shape for each ("so no edge references a
\* missing port shape", graph/mod.rs).
EdgesLand ==
  Done /\ Regular /\ InScope =>
    \A l \in {FlatGraph.root, GroupedGraph.root} \cup LevelsOfGroups :
      \A e \in {e \in l.edges : e.type = "connect"} :
        /\ e.sourceNode \in DOMAIN l.nodes /\ e.sourcePort \in {Id(p) : p \in ElementsOf(l.nodes[e.sourceNode])}
        /\ e.targetNode \in DOMAIN l.nodes /\ e.targetPort \in {Id(p) : p \in ElementsOf(l.nodes[e.targetNode])}

Joined(edges) == {<<e.sourcePort, e.targetPort>> : e \in edges}

\* The bridges whose source no other spells, nor a bridge group; the bridge groups whose target no
\* other spells.  A bridge's ID leaves its target out, a group's ID its sources
TargetText(group) == group.target.inst \o group.target.port
LoneBridges ==
  {b \in ElementsOf(flat.bridges) :
     /\ Head(b.source.inst) # "group"
     /\ \A c \in ElementsOf(flat.bridges) \ {b} : \A e \in RootBridgeEdges(b), f \in RootBridgeEdges(c) :
          SourceText(e) # SourceText(f)}
LoneGroups ==
  {g \in ElementsOf(flat.groups) : \A h \in ElementsOf(flat.groups) \ {g} : TargetText(g) # TargetText(h)}

\* Where no two cables spell the same, every channel pair of a cable, a bridge or a bridge group
\* whose two ports exist is an edge: the IDs, which are the keys of a map, keep them apart.
CablesDrawn ==
  Done /\ EndsApart(Cables) =>
    LET root == FlatGraph.root
        asked == UNION ({Joined(ConnectEdges(c)) : c \in Cables} \cup {Joined(RootBridgeEdges(b)) : b \in LoneBridges}
                        \cup {Joined(BridgeGroupEdges(g)) : g \in LoneGroups})
    IN asked \cap (AllIds(root.nodes) \X AllIds(root.nodes)) \subseteq Joined(root.edges)
=============================================================================
