---------------------------- MODULE GraphLevels ----------------------------
(***************************************************************************)
(* compile_ast_to_graph (graph/mod.rs) and what it does inside a template  *)
(* (graph/sublevel.rs, graph/ports.rs).                                    *)
(*                                                                         *)
(* A level is named by the path of instance names that leads to it, the    *)
(* root by the empty path.  Its nodes map node IDs to their ports, in      *)
(* order.  Attributes, labels and the reversed direction of ports on       *)
(* pseudo nodes are left out; nothing in the compiler reads them.          *)
(***************************************************************************)
EXTENDS GraphEdges

-----------------------------------------------------------------------------
(* Ports (ports.rs).                                                       *)

\* A template's own ports, then those of the cards in its instance's slots
Definitions(program, template, cards) ==
  Lookup(program, template).ports \o FlattenSeq([k \in DOMAIN cards |-> Lookup(program, cards[k]).ports])

\* Those of an instance's node, which has none when its template is not declared
NodeDefinitions(program, i) ==
  IF i.template \in DOMAIN program.templates THEN Definitions(program, i.template, i.cards) ELSE <<>>

PortNames(def) ==
  IF def.ranged THEN [k \in 1..(def.hi - def.lo + 1) |-> def.name \o Suffix(def.lo + k - 1)] ELSE <<def.name>>

\* The first definition of a name is kept
Expanded(defs) ==
  LET all == FlattenSeq([k \in DOMAIN defs |->
               [n \in DOMAIN PortNames(defs[k]) |-> [name |-> PortNames(defs[k])[n], dir |-> defs[k].dir]]])
  IN AllAt(all, {k \in DOMAIN all : \A j \in 1..(k - 1) : all[j].name # all[k].name})

ExpandPorts(owner, defs) ==
  LET ports == Expanded(defs)
  IN [k \in DOMAIN ports |-> [owner |-> owner, name |-> ports[k].name, dir |-> ports[k].dir]]

Id(port) == <<port.owner, port.name>>

AllIds(nodes) == UNION {{Id(p) : p \in ElementsOf(nodes[n])} : n \in DOMAIN nodes}

-----------------------------------------------------------------------------
(* The passes over a finished set of edges (mod.rs).                       *)

Extends(name, prefix) == IsStrictPrefix(prefix, name)

\* resolve_port_fallback: the first of four guesses that is a port
Fallback(nodes, node, id) ==
  LET guess(tail) == <<id[1], id[2] \o tail>>
      guesses == <<guess(Suffix(1)), guess(<<"In">> \o Suffix(1)), guess(<<"Out">> \o Suffix(1))>>
      hits == {k \in DOMAIN guesses : guesses[k] \in AllIds(nodes)}
      ports == IF node \in DOMAIN nodes THEN nodes[node] ELSE <<>>
      longer == {k \in DOMAIN ports : ports[k].owner = id[1] /\ Extends(ports[k].name, id[2])}
  IN CASE id \in AllIds(nodes) -> id
       [] id \notin AllIds(nodes) /\ hits # {} -> FirstAt(guesses, hits)
       [] id \notin AllIds(nodes) /\ hits = {} /\ longer # {} -> <<id[1], FirstAt(ports, longer).name>>
       [] OTHER -> id

ApplyFallback(nodes, edges) ==
  {[e EXCEPT !.sourcePort = Fallback(nodes, e.sourceNode, @), !.targetPort = Fallback(nodes, e.targetNode, @)]
     : e \in edges}

NumberOf == [text \in {Numeral[n] : n \in DOMAIN Numeral} |-> CHOOSE n \in DOMAIN Numeral : Numeral[n] = text]
Numbered(name) == Len(name) > 1 /\ Last(name) \in DOMAIN NumberOf

\* Channels of a name that the node declares
DeclaredOn(ports, base) ==
  {NumberOf[Last(p.name)] : p \in {p \in ElementsOf(ports) : Numbered(p.name) /\ Front(p.name) = base}}

\* is_over_range; the owner of a template's own ports is not a node of its level
OverRange(nodes, id) ==
  /\ id \notin AllIds(nodes) /\ Numbered(id[2]) /\ id[1] \in DOMAIN nodes
  /\ LET declared == DeclaredOn(nodes[id[1]], Front(id[2]))
     IN declared # {} /\ \A d \in declared : NumberOf[Last(id[2])] > d

\* Mutant: only sources are looked at
DropBySource(nodes, edges) == {e \in edges : ~OverRange(nodes, e.sourcePort)}

DropOverRange(nodes, edges) ==
  {e \in edges : ~OverRange(nodes, e.sourcePort) /\ ~OverRange(nodes, e.targetPort)}

\* The end of a level's compilation
Finish(path, nodes, edges) ==
  [path |-> path, nodes |-> nodes, edges |-> DropOverRange(nodes, ApplyFallback(nodes, edges))]

-----------------------------------------------------------------------------
(* Inside a template (sublevel.rs).  l is an opened instance: its path,    *)
(* its template and its cards.                                             *)

Here(program, l) == Lookup(program, l.template)
Subs(program, l) == ElementsOf(Here(program, l).instances)
SubNames(program, l) == {s.name : s \in Subs(program, l)}

Pseudo(path, face) == [path EXCEPT ![Len(path)] = Append(@, face)]

Candidates(program, l, ref) ==
  CASE ref.inst = NoInstance -> Definitions(program, l.template, l.cards)
    [] ref.inst \in SubNames(program, l) ->
         LET s == FirstNamed(Here(program, l).instances, ref.inst) IN Definitions(program, s.template, s.cards)
    [] OTHER -> <<>>

\* resolve_port_range: a reference without channels stands for the whole range
ResolvePortRange(program, l, ref) ==
  LET defs == Candidates(program, l, ref)
      exact == {k \in DOMAIN defs : defs[k].name = ref.port}
      longer == {k \in DOMAIN defs : Extends(defs[k].name, ref.port)}
      whole(d) == [port |-> d.name,
                   channels |-> IF d.ranged THEN [k \in 1..(d.hi - d.lo + 1) |-> d.lo + k - 1] ELSE <<NoChannel>>]
  IN CASE ref.index # <<>> -> [port |-> ref.port, channels |-> ref.index]
       [] ref.index = <<>> /\ exact # {} -> whole(FirstAt(defs, exact))
       [] ref.index = <<>> /\ exact = {} /\ longer # {} -> whole(FirstAt(defs, longer))
       [] OTHER -> [port |-> ref.port, channels |-> <<NoChannel>>]

\* The bridge with its ports and channels resolved
ResolvedBridge(program, l, b) ==
  LET side(ref) == LET r == ResolvePortRange(program, l, ref)
                   IN [ref EXCEPT !.port = r.port,
                               !.index = AllAt(r.channels, {k \in DOMAIN r.channels : r.channels[k] # NoChannel})]
  IN [source |-> side(b.source), target |-> side(b.target)]

InternalBridgeEdges(program, l, k) ==
  LET b == ResolvedBridge(program, l, Here(program, l).bridges[k])
      inside(ref) == ref.inst \in SubNames(program, l)
      owner(ref) == IF inside(ref) THEN Append(l.path, ref.inst) ELSE l.path
      node(ref, face) == IF inside(ref) THEN owner(ref) ELSE Pseudo(l.path, face)
  IN BridgeEdges(b, <<"bridge", Numeral[k]>>, node(b.source, "inputs"), owner(b.source),
                                              node(b.target, "outputs"), owner(b.target))

\* The ports of the template and its cards, which stand on the level's two pseudo nodes
FacePorts(program, l) == ExpandPorts(l.path, Definitions(program, l.template, l.cards))

\* The directions each pseudo node shows
Facing(face) == IF face = "inputs" THEN {"in", "io"} ELSE {"out", "io"}

\* resolve_internal_endpoint: a template's own port belongs to the pseudo node of its direction
InternalNode(program, l, ref, name, face, otherwise) ==
  IF ref.inst # NoInstance THEN Append(l.path, ref.inst)
  ELSE LET own == FacePorts(program, l)
           named == {k \in DOMAIN own : own[k].name = name}
       IN Pseudo(l.path, IF named # {} /\ FirstAt(own, named).dir \in Facing(face) THEN face ELSE otherwise)

InternalConnectEdges(program, l, k) ==
  LET c == Here(program, l).connects[k]
      src == ResolvePortRange(program, l, c.source)
      tgt == ResolvePortRange(program, l, c.target)
      pairs == ChannelPairs(c.mapping, src.channels, tgt.channels)
      owner(ref) == IF ref.inst = NoInstance THEN l.path ELSE Append(l.path, ref.inst)
      out(i) == src.port \o Suffix(pairs[i][1])
      in(i) == tgt.port \o Suffix(pairs[i][2])
  IN {Edge(<<"connect", Numeral[k], Numeral[i]>>, "connect",
           InternalNode(program, l, c.source, out(i), "outputs", "inputs"),
           <<owner(c.source), out(i)>>,
           InternalNode(program, l, c.target, in(i), "inputs", "outputs"),
           <<owner(c.target), in(i)>>)
        : i \in DOMAIN pairs}

\* synthesize_slot_port_shapes: an endpoint that names a slot becomes a port of its node
SlotShapes(program, l, nodes, edges) ==
  LET isSlot(name) == \/ name \in Here(program, l).slots
                      \/ Numbered(name) /\ Front(name) \in Here(program, l).slots
      ends == {<<e.sourceNode, e.sourcePort, "out">> : e \in edges}
                \cup {<<e.targetNode, e.targetPort, "in">> : e \in edges}
      missing(n) == {x \in ends : x[1] = n /\ x[2] \notin AllIds(nodes) /\ isSlot(x[2][2])}
      once(n) == {x \in missing(n) : x[3] = "out" \/ \A y \in missing(n) : y[2] = x[2] => y[3] = "in"}
  IN [n \in DOMAIN nodes |->
        nodes[n] \o SetToSeq({[owner |-> x[2][1], name |-> x[2][2], dir |-> x[3]] : x \in once(n)})]

SubNodes(program, l) ==
  LET own == FacePorts(program, l)
      inner == {Append(l.path, name) : name \in SubNames(program, l)}
  IN [n \in inner \cup {Pseudo(l.path, face) : face \in {"inputs", "outputs"}} |->
        IF n \in inner
        THEN ExpandPorts(n, NodeDefinitions(program, LastNamed(Here(program, l).instances, Last(n))))
        ELSE AllAt(own, {k \in DOMAIN own :
               \E face \in {"inputs", "outputs"} : n = Pseudo(l.path, face) /\ own[k].dir \in Facing(face)})]

SubEdges(program, l) ==
  (UNION {InternalBridgeEdges(program, l, k) : k \in DOMAIN Here(program, l).bridges})
  \cup UNION {InternalConnectEdges(program, l, k) : k \in DOMAIN Here(program, l).connects}

\* build_sub_level
SubLevel(program, l) ==
  Finish(l.path, SlotShapes(program, l, SubNodes(program, l), SubEdges(program, l)), SubEdges(program, l))

Drillable(program, name) == Lookup(program, name).bridges # <<>> \/ Lookup(program, name).instances # <<>>

Open(path, i, stack) == [path |-> path, template |-> i.template, cards |-> i.cards, stack |-> stack]
Within(program, l) == {Open(Append(l.path, s.name), s, l.stack \cup {l.template}) : s \in Subs(program, l)}
Outermost(program) == {Open(<<i.name>>, i, {}) : i \in ElementsOf(program.instances)}

\* An expansion never enters a template twice
Entered(program, ls) == {l \in ls : Drillable(program, l.template) /\ l.template \notin l.stack}

\* The instances that get a level of their own, by depth
OpenedAt(program, depth) ==
  LET at[d \in 0..depth] ==
        Entered(program, IF d = 0 THEN Outermost(program) ELSE UNION {Within(program, l) : l \in at[d - 1]})
  IN at

Opened(program) ==
  LET depth == Cardinality(DOMAIN program.templates)
  IN UNION {OpenedAt(program, depth)[d] : d \in 0..depth}

-----------------------------------------------------------------------------

\* Connects are expanded first, then bridges, then bridge groups
RootExpansions(program) ==
  [k \in DOMAIN program.connects |-> ConnectEdges(program.connects[k])]
    \o [k \in DOMAIN program.bridges |-> RootBridgeEdges(program.bridges[k])]
    \o [k \in DOMAIN program.groups |-> BridgeGroupEdges(program.groups[k])]

RootEdges(program) == Inserted(RootExpansions(program))

RootNodes(program) ==
  [n \in {<<name>> : name \in InstanceNames(program)} |->
     ExpandPorts(n, NodeDefinitions(program, LastNamed(program.instances, n[1])))]

Root(program) == Finish(<<>>, RootNodes(program), RootEdges(program))

\* resolve_port_id: one channel names its port, a wider selection the port without a channel
OriginPort(signal) ==
  RootId(signal.origin, IF Len(signal.origin.index) = 1 THEN signal.origin.index[1] ELSE NoChannel)

CompileToGraph(program) == [root |-> Root(program), inside |-> {SubLevel(program, l) : l \in Opened(program)}]
LevelsOf(graph) == {graph.root} \cup graph.inside
=============================================================================
