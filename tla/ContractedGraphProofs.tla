------------------------ MODULE ContractedGraphProofs ------------------------
(***************************************************************************)
(* The graphs of a program before and after its contraction, for every     *)
(* program and assignment within the scope ContractedGraph states: they    *)
(* connect the same ports of the same devices, each group wires to its     *)
(* boundary what crosses it, signals keep their origins, and every edge    *)
(* of a regular program ends at a port of its node.                        *)
(*                                                                         *)
(* The way there: which ports the nodes of the two roots and of a group's  *)
(* level show; where the fallback takes an end of an edge and when the     *)
(* range check drops it (Spot and Gone at a device, PortOf and Off at the  *)
(* top); the edges of the three kinds of level, each as a cable or a wire  *)
(* read with these four; and what leaf ports they connect.                 *)
(***************************************************************************)
EXTENDS ContractProofs

-----------------------------------------------------------------------------
(* The ports of a group.                                                   *)

\* What the ports on a group's boundary expand to, and the channels each has
B(g) == Expanded(Assembled(g).ports)
BoundaryChannels(k) == ChannelsOf(BoundaryPort(k))
Outer(k) == exposed[k].name

\* The highest of some channels is one of them
LEMMA HighestIs ==
  ASSUME NEW S, IsFiniteSet(S), S \subseteq Channel, S # {}
  PROVE  Highest(S) \in S /\ \A c \in S : c <= Highest(S)
<1> DEFINE M == Modulus - 1
           T == {M - c : c \in S}
<1>1. M \in Nat /\ \A c \in S : c \in 0..M
  BY Width DEF Channel
<1> HIDE DEF M
<1>2. T \subseteq Nat /\ T # {}
  BY <1>1
<1>3. PICK m \in T : \A n \in T : m <= n
  BY <1>2, LeastNatural
<1>4. PICK c \in S : m = M - c
  BY <1>3
<1>5. ASSUME NEW d \in S PROVE d <= c
  <2>1. M - d \in T
    BY <1>5
  <2>2. M - c <= M - d
    BY <1>3, <1>4, <2>1
  <2>3. c \in Int /\ d \in Int
    BY <1>1
  <2> QED BY <1>1, <2>2, <2>3
<1> QED BY <1>4, <1>5 DEF Highest

\* The end of an exposed port is a channel
LEMMA EndTyped ==
  ASSUME Settled, NEW k \in DOMAIN exposed
  PROVE  exposed[k].end # NoEnd => exposed[k].end \in Channel
<1> SUFFICES ASSUME exposed[k].end # NoEnd PROVE exposed[k].end \in Channel
  OBVIOUS
<1> DEFINE ref == DevicePort(k)
           d == LastNamed(OwnPorts(ref), ref.port)
<1>1. exposed[k].end = PortEnd(ref)
  BY KeyTyped
<1> HIDE DEF ref
<1>2. Own(ref) /\ d.ranged /\ exposed[k].end = d.hi
  BY <1>1 DEF PortEnd
<1>3. TypedPort(d)
  BY <1>2, SettledIs, OwnDeclared
<1> QED BY <1>2, <1>3 DEF TypedPort

\* The port that stands for it has the types of a port
LEMMA BoundaryTyped ==
  ASSUME Settled, NEW k \in DOMAIN exposed
  PROVE  /\ TypedPort(BoundaryPort(k)) /\ BoundaryPort(k).name = Outer(k)
         /\ BoundaryPort(k).dir = exposed[k].dir
<1>1. /\ exposed[k].dir \in {"in", "out", "io"} /\ exposed[k].name \in Text /\ exposed[k].whole \in BOOLEAN
      /\ exposed[k].channels \subseteq Channel /\ IsFiniteSet(exposed[k].channels)
  BY KeyTyped DEF Direction
<1>2. 1 \in Channel /\ Highest(exposed[k].channels) \in Channel
  <2>1. CASE exposed[k].channels = {}
    BY <2>1, OneIsChannel DEF Highest
  <2>2. CASE exposed[k].channels # {}
    BY <1>1, <2>2, OneIsChannel, HighestIs
  <2> QED BY <2>1, <2>2
<1>3. exposed[k].end # NoEnd => exposed[k].end \in Channel
  BY EndTyped
<1> DEFINE p == BoundaryPort(k)
<1>4. /\ p.name = exposed[k].name /\ p.dir = exposed[k].dir /\ p.lo = 1
      /\ p.ranged = (~exposed[k].whole \/ exposed[k].end # NoEnd)
      /\ p.hi = (IF exposed[k].whole THEN exposed[k].end ELSE Highest(exposed[k].channels))
  BY DEF BoundaryPort
<1> HIDE DEF p
<1>5. TypedPort(p)
  BY <1>1, <1>2, <1>3, <1>4 DEF TypedPort
<1> QED BY <1>4, <1>5 DEF p, Outer

\* A group's template declares one port for each of its exposed ports
LEMMA KeysListed ==
  ASSUME Settled, NEW g
  PROVE  LET keys == SetToSeq(ExposedBy(g))
             ports == Assembled(g).ports
         IN /\ keys \in Seq(ExposedBy(g)) /\ DOMAIN keys = 1..Len(keys) /\ Len(keys) \in Nat
            /\ ElementsOf(keys) = ExposedBy(g)
            /\ \A i, j \in DOMAIN keys : keys[i] = keys[j] => i = j
            /\ \A j \in DOMAIN keys : keys[j] \in DOMAIN exposed /\ keys[j] \in ExposedBy(g)
            /\ ports = [j \in DOMAIN keys |-> BoundaryPort(keys[j])]
            /\ ports \in Seq(ElementsOf(ports)) /\ DOMAIN ports = DOMAIN keys
            /\ \A j \in DOMAIN ports : TypedPort(ports[j])
<1> DEFINE S == ExposedBy(g)
           keys == SetToSeq(S)
           ports == Assembled(g).ports
<1>1. IsFiniteSet(S)
  <2>1. IsFiniteSet(DOMAIN exposed)
    BY SettledIs DEF Entries
  <2> QED BY <2>1, FS_Subset DEF ExposedBy
<1> HIDE DEF S
<1>2. /\ keys \in Seq(S) /\ DOMAIN keys = 1..Len(keys) /\ Len(keys) \in Nat /\ ElementsOf(keys) = S
      /\ \A i, j \in DOMAIN keys : keys[i] = keys[j] => i = j
  BY <1>1, SetToSeqIs
<1>3. ports = [j \in DOMAIN keys |-> BoundaryPort(keys[j])]
  BY DEF Assembled, S
<1> HIDE DEF keys, ports
<1>4. \A j \in DOMAIN keys : keys[j] \in S /\ keys[j] \in DOMAIN exposed
  <2>1. \A j \in DOMAIN keys : keys[j] \in S
    BY <1>2 DEF ElementsOf
  <2> QED BY <2>1 DEF S, ExposedBy
<1>5. DOMAIN ports = DOMAIN keys /\ \A j \in DOMAIN ports : TypedPort(ports[j])
  BY <1>3, <1>4, BoundaryTyped
<1>6. ports \in Seq(ElementsOf(ports))
  <2> DEFINE l == Len(keys)
             T == ElementsOf(ports)
  <2>1. l \in Nat /\ DOMAIN ports = 1..l
    BY <1>2, <1>5
  <2>2. \A j \in 1..l : ports[j] \in T
    BY <2>1 DEF ElementsOf
  <2>3. ports = [j \in 1..l |-> ports[j]]
    BY <1>3, <1>5, <2>1
  <2> HIDE DEF l, T
  <2>4. ports \in [1..l -> T]
    BY <2>2, <2>3
  <2>5. ports \in Seq(T)
    BY <2>1, <2>4
  <2> QED BY <2>5 DEF T
<1> QED BY <1>2, <1>3, <1>4, <1>5, <1>6 DEF S, keys, ports

\* The texts of two ports of one group are told apart by their names
LEMMA OuterApart ==
  ASSUME Settled, TextsApart, NEW j \in DOMAIN exposed, NEW k \in DOMAIN exposed, group_of[j[1]] = group_of[k[1]],
         NEW s \in Str, NEW t \in Str, IsPrefix(Outer(k) \o t, Outer(j) \o s)
  PROVE  j = k
<1>1. Outer(j) \in Str /\ Outer(k) \in Str
  BY KeyTyped, TextTyped DEF Outer
<1> DEFINE m == Outer(j) \o s
           p == Outer(k) \o t
<1>2. m \in Str /\ p \in Str
  BY <1>1, Joins
<1>3. PICK v \in Str : m = p \o v
  BY <1>2, PrefixSplits
<1>4. m = Outer(k) \o (t \o v) /\ t \o v \in Str
  BY <1>1, <1>3, Brackets, Joins
<1>5. IsPrefix(Outer(k), m) /\ IsPrefix(Outer(j), m)
  BY <1>1, <1>4, PrefixOfJoined
<1>6. IsPrefix(Outer(k), Outer(j)) \/ IsPrefix(Outer(j), Outer(k))
  <2> HIDE DEF m
  <2> QED BY <1>1, <1>2, <1>5, PrefixesOfOne
<1> QED BY <1>6 DEF TextsApart, Outer

\* On a boundary each port shows exactly its channels
LEMMA BoundaryRanges ==
  ASSUME Settled, TextsApart, NEW g, NEW k \in ExposedBy(g)
  PROVE  Ranges(B(g), Outer(k), BoundaryChannels(k))
<1> DEFINE keys == SetToSeq(ExposedBy(g))
           ports == Assembled(g).ports
<1>1. /\ ElementsOf(keys) = ExposedBy(g) /\ \A i, j \in DOMAIN keys : keys[i] = keys[j] => i = j
      /\ \A j \in DOMAIN keys : keys[j] \in DOMAIN exposed /\ keys[j] \in ExposedBy(g)
      /\ ports = [j \in DOMAIN keys |-> BoundaryPort(keys[j])]
      /\ ports \in Seq(ElementsOf(ports)) /\ DOMAIN ports = DOMAIN keys
      /\ \A j \in DOMAIN ports : TypedPort(ports[j])
  BY KeysListed
<1> HIDE DEF keys, ports
<1>2. PICK i \in DOMAIN keys : keys[i] = k
  BY <1>1 DEF ElementsOf
<1>3. ports[i] = BoundaryPort(k)
  BY <1>1, <1>2
<1>4. k \in DOMAIN exposed /\ group_of[k[1]] = g
  BY DEF ExposedBy
<1>5. ApartFrom(ports, i)
  <2> SUFFICES ASSUME NEW j \in DOMAIN ports, j # i, NEW m \in ElementsOf(PortNames(ports[j]))
               PROVE  m # ports[i].name /\ \A ch \in Channel : ~ IsPrefix(ports[i].name \o Suffix(ch), m)
    BY DEF ApartFrom
  <2> DEFINE h == keys[j]
  <2>1. h \in DOMAIN exposed /\ group_of[h[1]] = g /\ h # k /\ ports[j] = BoundaryPort(h) /\ TypedPort(ports[j])
    BY <1>1, <1>2 DEF ExposedBy
  <2> HIDE DEF h
  <2>2. ports[j].name = Outer(h) /\ ports[i].name = Outer(k)
    BY <1>3, <1>4, <2>1, BoundaryTyped
  <2>3. PICK ch \in ChannelsOf(ports[j]) : m = Outer(h) \o Suffix(ch)
    <3> DEFINE d == ports[j]
    <3>1. TypedPort(d) /\ m \in ElementsOf(PortNames(d)) /\ d.name = Outer(h)
      BY <2>1, <2>2
    <3> HIDE DEF d
    <3>2. ElementsOf(PortNames(d)) = {d.name \o Suffix(ch) : ch \in ChannelsOf(d)}
      BY <3>1, PortNamesAre
    <3> QED BY <3>1, <3>2 DEF d
  <2>4. Suffix(ch) \in Str
    BY <2>1, <2>3, ChannelsTyped, SuffixTyped
  <2>5. Outer(k) \in Str
    BY <1>4, KeyTyped, TextTyped DEF Outer
  <2>6. m # Outer(k)
    <3> SUFFICES ASSUME m = Outer(k) PROVE FALSE
      OBVIOUS
    <3>1. <<>> \in Str /\ Outer(k) \o <<>> = Outer(k) /\ IsPrefix(m \o <<>>, m)
      <4>1. <<>> \in Str
        BY EmptySeq DEF Str
      <4>2. Outer(k) \o <<>> = Outer(k)
        BY <2>5, ConcatEmptySeq DEF Str
      <4>3. IsPrefix(Outer(k), Outer(k) \o <<>>)
        BY <2>5, <4>1, PrefixOfJoined
      <4> QED BY <4>1, <4>2, <4>3
    <3>2. IsPrefix(Outer(k) \o <<>>, Outer(h) \o Suffix(ch))
      BY <2>3, <3>1
    <3>3. h = k
      BY <1>4, <2>1, <2>4, <3>1, <3>2, OuterApart
    <3> QED BY <2>1, <3>3
  <2>7. ASSUME NEW c \in Channel, IsPrefix(Outer(k) \o Suffix(c), m) PROVE FALSE
    <3>1. Suffix(c) \in Str
      BY OneIsChannel, SuffixTyped
    <3>2. h = k
      BY <1>4, <2>1, <2>3, <2>4, <2>7, <3>1, OuterApart
    <3> QED BY <2>1, <3>2
  <2> QED BY <2>2, <2>6, <2>7
<1>6. Ranges(Expanded(ports), ports[i].name, ChannelsOf(ports[i]))
  BY <1>1, <1>2, <1>5, ApartRanges
<1>7. ports[i].name = Outer(k) /\ ChannelsOf(ports[i]) = BoundaryChannels(k)
  BY <1>3, <1>4, BoundaryTyped DEF BoundaryChannels
<1> QED BY <1>6, <1>7 DEF B, ports

\* What a boundary's ports expand to
LEMMA BoundaryListed ==
  ASSUME Settled, NEW g
  PROVE  B(g) \in Seq(PortRecord) /\ DOMAIN B(g) \subseteq Nat /\ NamesOf(B(g)) \subseteq Str
<1>1. /\ Assembled(g).ports \in Seq(ElementsOf(Assembled(g).ports))
      /\ \A j \in DOMAIN Assembled(g).ports : TypedPort(Assembled(g).ports[j])
  BY KeysListed
<1> DEFINE ports == Assembled(g).ports
           D == ElementsOf(ports)
<1>2. ports \in Seq(D) /\ \A j \in DOMAIN ports : TypedPort(ports[j])
  BY <1>1
<1> HIDE DEF ports, D
<1>3. Expanded(ports) \in Seq(PortRecord) /\ DOMAIN Expanded(ports) \subseteq Nat /\ NamesOf(Expanded(ports)) \subseteq Str
  BY <1>2, ExpandedIs
<1> QED BY <1>3 DEF ports, B

-----------------------------------------------------------------------------
(* What the nodes of the roots and of a group's level show.                *)

\* A node of a root shows the expanded ports of its instance
LEMMA RootShows ==
  ASSUME NEW p, NEW n \in InstanceNames(p), NEW ports,
         ports = Expanded(NodeDefinitions(p, LastNamed(p.instances, n))),
         DOMAIN ports \subseteq Nat
  PROVE  Shows(RootNodes(p), <<n>>, ports)
<1> DEFINE nodes == RootNodes(p)
           D == {<<name>> : name \in InstanceNames(p)}
           Of(m) == ExpandPorts(m, NodeDefinitions(p, LastNamed(p.instances, m[1])))
<1>1. nodes = [m \in D |-> Of(m)]
  BY DEF RootNodes
<1>2. DOMAIN nodes = D /\ \A m \in D : nodes[m] = Of(m)
  BY <1>1
<1>3. <<n>> \in D
  OBVIOUS
<1>4. \A m \in D : \A k \in DOMAIN Of(m) : Of(m)[k].owner = m
  BY DEF ExpandPorts
<1>5. DOMAIN Of(<<n>>) = DOMAIN ports /\ \A k \in DOMAIN ports : Of(<<n>>)[k].name = ports[k].name
  BY DEF ExpandPorts
<1> HIDE DEF nodes, D, Of
<1>6. ASSUME NEW m \in DOMAIN nodes \ {<<n>>}, NEW x \in ElementsOf(nodes[m]) PROVE x.owner # <<n>>
  <2>1. m \in D /\ nodes[m] = Of(m)
    BY <1>2, <1>6
  <2>2. PICK k \in DOMAIN Of(m) : x = Of(m)[k]
    BY <1>6, <2>1 DEF ElementsOf
  <2> QED BY <1>4, <1>6, <2>1, <2>2
<1> QED BY <1>2, <1>3, <1>4, <1>5, <1>6 DEF Shows, nodes

\* A device's node in the flat graph
LEMMA FlatShows ==
  ASSUME Settled, NEW n \in Devices
  PROVE  Shows(RootNodes(flat), <<n>>, E(n))
<1>1. DOMAIN E(n) \subseteq Nat
  BY SettledIs, DeviceTyped
<1> QED BY <1>1, RootShows DEF E, DefinitionsOf, Devices

\* A device that no group has keeps its node
LEMMA TopShows ==
  ASSUME Settled, GroupsApart, NEW n \in Devices, n \notin DOMAIN group_of
  PROVE  Shows(RootNodes(grouped), <<n>>, E(n))
<1> DEFINE i == LastNamed(flat.instances, n)
<1>1. DOMAIN E(n) \subseteq Nat /\ i \in ElementsOf(flat.instances)
  BY SettledIs, DeviceTyped, DeviceIs
<1>2. LastNamed(grouped.instances, n) = i /\ n \in InstanceNames(grouped)
  BY GroupedNames
<1>3. NodeDefinitions(grouped, i) = NodeDefinitions(flat, i)
  BY <1>1, SameDefinitions
<1> QED BY <1>1, <1>2, <1>3, RootShows DEF E, DefinitionsOf

\* A group's instance has the ports of its template
LEMMA GroupDefinitions ==
  ASSUME Settled, GroupsApart, NEW g \in Groups
  PROVE  /\ Definitions(grouped, GroupTemplate(g), <<>>) = Assembled(g).ports
         /\ NodeDefinitions(grouped, GroupNode(g)) = Assembled(g).ports
<1> DEFINE ports == Assembled(g).ports
           T == ElementsOf(ports)
           none == [k \in DOMAIN <<>> |-> Lookup(grouped, <<>>[k]).ports]
<1>1. Lookup(grouped, GroupTemplate(g)) = Assembled(g) /\ GroupTemplate(g) \in DOMAIN grouped.templates
  BY GroupedTemplates
<1>2. ports \in Seq(T)
  BY KeysListed
<1>3. none = <<>>
  OBVIOUS
<1>4. FlattenSeq(none) = <<>>
  <2>1. <<>> \in Seq(Seq(T)) /\ DOMAIN <<>> = {}
    OBVIOUS
  <2>2. FlattenSeq(<<>>) \in Seq(T) /\ ElementsOf(FlattenSeq(<<>>)) = UNION {ElementsOf(<<>>[k]) : k \in DOMAIN <<>>}
    BY <2>1, FlattenIs
  <2> DEFINE f == FlattenSeq(<<>>)
  <2>3. ElementsOf(f) = {}
    BY <2>1, <2>2
  <2>4. f \in Seq(T)
    BY <2>2
  <2> HIDE DEF f
  <2>5. DOMAIN f = {} /\ DOMAIN f = 1..Len(f) /\ Len(f) \in Nat
    <3>1. DOMAIN f = {}
      BY <2>3 DEF ElementsOf
    <3>2. DOMAIN f = 1..Len(f) /\ Len(f) \in Nat
      <4> HIDE DEF T
      <4> QED BY <2>4, LenProperties
    <3> QED BY <3>1, <3>2
  <2>6. Len(f) = 0
    <3> DEFINE l == Len(f)
    <3>1. l \in Nat /\ 1..l = {}
      BY <2>5
    <3> HIDE DEF l
    <3>2. l # 0 => 1 \in 1..l
      BY <3>1
    <3>3. l = 0
      BY <3>1, <3>2
    <3> QED BY <3>3 DEF l
  <2>7. f = <<>>
    BY <2>4, <2>6, EmptySeq
  <2> QED BY <1>3, <2>7 DEF f
<1>5. Definitions(grouped, GroupTemplate(g), <<>>) = ports \o FlattenSeq(none)
  BY <1>1 DEF Definitions
<1>6. NodeDefinitions(grouped, GroupNode(g)) = Definitions(grouped, GroupTemplate(g), <<>>)
  BY <1>1 DEF NodeDefinitions, GroupNode
<1> HIDE DEF ports, T, none
<1> QED BY <1>2, <1>4, <1>5, <1>6, ConcatEmptySeq DEF ports

\* and its node shows the boundary
LEMMA GroupShows ==
  ASSUME Settled, GroupsApart, NEW g \in Groups
  PROVE  Shows(RootNodes(grouped), <<GroupInstance(g)>>, B(g))
<1>1. LastNamed(grouped.instances, GroupInstance(g)) = GroupNode(g) /\ GroupInstance(g) \in InstanceNames(grouped)
  BY GroupedNames
<1>2. DOMAIN B(g) \subseteq Nat
  BY BoundaryListed
<1> QED BY <1>1, <1>2, GroupDefinitions, RootShows DEF B

-----------------------------------------------------------------------------
(* The level of a group.                                                   *)

Path(g) == <<GroupInstance(g)>>
H(g) == Open(Path(g), GroupNode(g), {})
Held(g) == {n \in DOMAIN group_of : group_of[n] = g}
Box(g, n) == Append(Path(g), n)

\* What the compiler finds when it opens a group
LEMMA HereIs ==
  ASSUME Settled, GroupsApart, NEW g \in Groups
  PROVE  /\ Here(grouped, H(g)) = Assembled(g) /\ H(g).path = Path(g) /\ H(g).template = GroupTemplate(g) /\ H(g).cards = <<>>
         /\ H(g).stack = {} /\ Here(grouped, H(g)).instances = InGroup(g)
         /\ Here(grouped, H(g)).slots = {} /\ Here(grouped, H(g)).bridges = <<>>
<1>1. H(g).path = Path(g) /\ H(g).template = GroupTemplate(g) /\ H(g).cards = <<>> /\ H(g).stack = {}
  BY DEF H, Open, GroupNode
<1>2. Here(grouped, H(g)) = Assembled(g)
  BY <1>1, GroupedTemplates DEF Here
<1> QED BY <1>1, <1>2 DEF Assembled

\* A group's members are devices
LEMMA HeldDevices ==
  ASSUME Settled, NEW g
  PROVE  \A n \in Held(g) : n \in Devices /\ n \in DOMAIN group_of /\ n \in Text /\ n # NoInstance
<1>1. Reading /\ DOMAIN group_of \subseteq Devices
  BY SettledIs DEF TypeOK, Devices
<1> QED BY <1>1, DeviceIs DEF Held

\* A group's template has its members as instances
LEMMA InGroupIs ==
  ASSUME Settled, NEW g \in Groups
  PROVE  /\ InGroup(g) \in Seq(ElementsOf(flat.instances)) /\ ElementsOf(InGroup(g)) \subseteq ElementsOf(flat.instances)
         /\ {i.name : i \in ElementsOf(InGroup(g))} = Held(g) /\ InGroup(g) # <<>>
         /\ \A n \in Held(g) : /\ LastNamed(InGroup(g), n) = LastNamed(flat.instances, n)
                               /\ FirstNamed(InGroup(g), n) = LastNamed(flat.instances, n)
<1> DEFINE I == ElementsOf(flat.instances)
           at_g == Positions(g)
<1>1. Reading /\ flat.instances \in Seq(I)
  BY SettledIs, FlatInstances
<1>2. at_g \subseteq DOMAIN flat.instances /\ FirstMember(g) \in at_g
  BY PositionsAre
<1> HIDE DEF at_g, I
<1>3. InGroup(g) \in Seq(I) /\ ElementsOf(InGroup(g)) = {flat.instances[k] : k \in at_g} /\ ElementsOf(InGroup(g)) \subseteq ElementsOf(flat.instances)
  <2>1. InGroup(g) = AllAt(flat.instances, at_g)
    BY DEF InGroup, at_g
  <2> QED BY <1>1, <1>2, <2>1, AllAtElements
<1>4. \A i \in ElementsOf(InGroup(g)) : i \in I /\ i.name \in Held(g)
  BY <1>2, <1>3 DEF at_g, Positions, Held, I, ElementsOf
<1>5. ASSUME NEW n \in Held(g)
      PROVE  LastNamed(flat.instances, n) \in ElementsOf(InGroup(g)) /\ LastNamed(flat.instances, n).name = n
  <2> DEFINE i == LastNamed(flat.instances, n)
  <2>1. n \in Devices /\ group_of[n] = g /\ n \in DOMAIN group_of
    BY HeldDevices DEF Held
  <2>2. i \in I /\ i.name = n
    BY <1>1, <2>1, DeviceIs DEF I
  <2> HIDE DEF i
  <2>3. PICK k \in DOMAIN flat.instances : i = flat.instances[k]
    BY <2>2 DEF I, ElementsOf
  <2>4. k \in at_g
    BY <2>1, <2>2, <2>3 DEF at_g, Positions
  <2> QED BY <1>3, <2>2, <2>3, <2>4 DEF i
<1>6. {i.name : i \in ElementsOf(InGroup(g))} = Held(g)
  BY <1>4, <1>5
<1>7. ASSUME NEW n \in Held(g)
      PROVE  LastNamed(InGroup(g), n) = LastNamed(flat.instances, n) /\ FirstNamed(InGroup(g), n) = LastNamed(flat.instances, n)
  <2> DEFINE i == LastNamed(flat.instances, n)
  <2>1. i \in ElementsOf(InGroup(g)) /\ i.name = n
    BY <1>5
  <2>2. n \in Devices
    BY HeldDevices
  <2>3. \A y \in ElementsOf(InGroup(g)) : y.name = n => y = i
    BY <1>1, <1>4, <2>2, DeviceIs DEF I
  <2> HIDE DEF i
  <2>4. LastNamed(InGroup(g), i.name) = i /\ FirstNamed(InGroup(g), i.name) = i
    BY <1>3, <2>1, <2>3, OnlyElement, OnlyFound
  <2> QED BY <2>1, <2>4 DEF i
<1>8. InGroup(g) # <<>>
  <2>1. flat.instances[FirstMember(g)] \in ElementsOf(InGroup(g))
    BY <1>2, <1>3
  <2> QED BY <2>1 DEF ElementsOf
<1> QED BY <1>3, <1>6, <1>7, <1>8 DEF I

\* The nodes of the level
Shelf(g) == SubNodes(grouped, H(g))

Faces == {"inputs", "outputs"}
Face(g, face) == Pseudo(Path(g), face)

\* The paths of members and of the two faces differ, and none is the group's
LEMMA BoxesApart ==
  ASSUME Settled, GroupsApart, NEW g \in Groups
  PROVE  /\ \A n : Len(Box(g, n)) = 2 /\ Last(Box(g, n)) = n
         /\ \A m, n : Box(g, m) = Box(g, n) => m = n
         /\ \A face \in Faces : Face(g, face) = <<Append(GroupInstance(g), face)>> /\ Len(Face(g, face)) = 1
         /\ \A face \in Faces : Face(g, face) # Path(g)
         /\ \A n : Box(g, n) # Path(g)
         /\ \A n : \A face \in Faces : Box(g, n) # Face(g, face)
         /\ Face(g, "inputs") # Face(g, "outputs")
<1> DEFINE G == GroupInstance(g)
<1>1. G \in Seq(STRING)
  BY GroupNames DEF Text
<1>2. Path(g) = <<G>>
  BY DEF Path
<1> HIDE DEF G
<1>3. ASSUME NEW n PROVE Len(Box(g, n)) = 2 /\ Box(g, n)[2] = n
  <2> DEFINE S == {G, n}
  <2>1. <<G>> \in Seq(S) /\ n \in S /\ Len(<<G>>) = 1
    OBVIOUS
  <2>2. Box(g, n) = Append(<<G>>, n)
    BY <1>2 DEF Box
  <2> HIDE DEF S
  <2>3. Len(Append(<<G>>, n)) = Len(<<G>>) + 1 /\ Append(<<G>>, n)[Len(<<G>>) + 1] = n
    BY <2>1, AppendProperties
  <2> QED BY <2>1, <2>2, <2>3
<1>4. \A n : Len(Box(g, n)) = 2 /\ Last(Box(g, n)) = n
  BY <1>3 DEF Last
<1>5. \A m, n : Box(g, m) = Box(g, n) => m = n
  BY <1>4
<1>6. \A face \in Faces : Face(g, face) = <<Append(G, face)>> /\ Len(Face(g, face)) = 1
  <2> TAKE face \in Faces
  <2>1. Face(g, face) = [<<G>> EXCEPT ![1] = Append(G, face)]
    BY <1>2 DEF Face, Pseudo
  <2>2. Face(g, face) = <<Append(G, face)>>
    BY <2>1
  <2> QED BY <2>2
<1>7. \A face \in Faces : Append(G, face) # G /\ Len(Append(G, face)) = Len(G) + 1 /\ Append(G, face)[Len(G) + 1] = face
  <2> TAKE face \in Faces
  <2> DEFINE P == STRING \cup Faces
  <2>1. G \in Seq(P) /\ face \in P
    BY <1>1, SeqMonotonic
  <2> HIDE DEF P
  <2>2. Len(Append(G, face)) = Len(G) + 1 /\ Append(G, face)[Len(G) + 1] = face /\ Len(G) \in Nat
    BY <2>1, AppendProperties
  <2> QED BY <2>2
<1>8. \A face \in Faces : Face(g, face) # Path(g)
  <2> TAKE face \in Faces
  <2>1. Face(g, face)[1] = Append(G, face) /\ Path(g)[1] = G
    BY <1>2, <1>6
  <2> QED BY <1>7, <2>1
<1>9. \A n : Box(g, n) # Path(g)
  BY <1>2, <1>4
<1>10. \A n : \A face \in Faces : Box(g, n) # Face(g, face)
  <2> TAKE n
  <2> TAKE face \in Faces
  <2>1. Len(Box(g, n)) = 2 /\ Len(Face(g, face)) = 1
    BY <1>4, <1>6
  <2> QED BY <2>1
<1>11. Face(g, "inputs") # Face(g, "outputs")
  <2>1. "inputs" \in Faces /\ "outputs" \in Faces /\ "inputs" # "outputs"
    BY DEF Faces
  <2>2. Face(g, "inputs")[1] = Append(G, "inputs") /\ Face(g, "outputs")[1] = Append(G, "outputs")
    BY <1>6, <2>1
  <2>3. Append(G, "inputs") # Append(G, "outputs")
    BY <1>7, <2>1
  <2> QED BY <2>2, <2>3
<1> QED BY <1>4, <1>5, <1>6, <1>8, <1>9, <1>10, <1>11 DEF G

\* The faces' ports are the boundary's, in order
LEMMA FacesAre ==
  ASSUME Settled, GroupsApart, NEW g \in Groups
  PROVE  LET own == FacePorts(grouped, H(g))
         IN /\ own = ExpandPorts(Path(g), Assembled(g).ports)
            /\ DOMAIN own = DOMAIN B(g) /\ DOMAIN own \subseteq Nat /\ IsFiniteSet(DOMAIN own)
            /\ \A k \in DOMAIN own : /\ own[k].owner = Path(g) /\ own[k].name = B(g)[k].name
                                     /\ own[k].dir = B(g)[k].dir /\ own[k].dir \in Direction
<1> DEFINE own == FacePorts(grouped, H(g))
<1>1. own = ExpandPorts(Path(g), Assembled(g).ports)
  BY HereIs, GroupDefinitions DEF FacePorts
<1>2. own = [k \in DOMAIN B(g) |-> [owner |-> Path(g), name |-> B(g)[k].name, dir |-> B(g)[k].dir]]
  BY <1>1 DEF ExpandPorts, B
<1> HIDE DEF own
<1>3. B(g) \in Seq(PortRecord) /\ DOMAIN B(g) \subseteq Nat
  BY BoundaryListed
<1>4. \A k \in DOMAIN B(g) : B(g)[k].dir \in Direction
  <2> TAKE k \in DOMAIN B(g)
  <2>1. B(g)[k] \in PortRecord
    BY <1>3, ElementOfSeq, LenProperties
  <2> QED BY <2>1 DEF PortRecord, Direction
<1>5. IsFiniteSet(DOMAIN B(g))
  <2>1. DOMAIN B(g) = 1..Len(B(g)) /\ Len(B(g)) \in Nat
    BY <1>3, LenProperties
  <2> QED BY <2>1, FS_Interval
<1> QED BY <1>1, <1>2, <1>3, <1>4, <1>5 DEF own

\* The nodes of a group's level: a box for each member, and two faces
LEMMA ShelfIs ==
  ASSUME Settled, GroupsApart, NEW g \in Groups
  PROVE  LET own == FacePorts(grouped, H(g))
         IN /\ SubNames(grouped, H(g)) = Held(g)
            /\ DOMAIN Shelf(g) = {Box(g, n) : n \in Held(g)} \cup {Face(g, face) : face \in Faces}
            /\ Shelf(g) = [n \in DOMAIN Shelf(g) |-> Shelf(g)[n]]
            /\ \A n \in Held(g) : Shelf(g)[Box(g, n)] = ExpandPorts(Box(g, n), DefinitionsOf(n))
            /\ \A face \in Faces : Shelf(g)[Face(g, face)] = AllAt(own, {k \in DOMAIN own : own[k].dir \in Facing(face)})
<1> DEFINE own == FacePorts(grouped, H(g))
           inner == {Box(g, n) : n \in Held(g)}
           faces == {Face(g, face) : face \in Faces}
           OnFace(m) == AllAt(own, {k \in DOMAIN own : \E face \in Faces : m = Face(g, face) /\ own[k].dir \in Facing(face)})
           Of(m) == IF m \in inner THEN ExpandPorts(m, NodeDefinitions(grouped, LastNamed(InGroup(g), Last(m)))) ELSE OnFace(m)
<1>1. SubNames(grouped, H(g)) = Held(g)
  BY HereIs, InGroupIs DEF SubNames, Subs
<1>2. Shelf(g) = [m \in inner \cup faces |-> Of(m)]
  <2>1. H(g).path = Path(g) /\ Here(grouped, H(g)).instances = InGroup(g)
    BY HereIs
  <2>2. inner = {Append(Path(g), n) : n \in SubNames(grouped, H(g))} /\ faces = {Pseudo(Path(g), face) : face \in {"inputs", "outputs"}}
    BY <1>1 DEF Box, Face, Faces
  <2> HIDE DEF inner, faces
  <2> QED BY <2>1, <2>2 DEF Shelf, SubNodes, Face, Faces
<1>3. DOMAIN Shelf(g) = inner \cup faces /\ \A m \in inner \cup faces : Shelf(g)[m] = Of(m)
  <2> HIDE DEF inner, faces, Of
  <2> QED BY <1>2
<1>4. ASSUME NEW n \in Held(g) PROVE Shelf(g)[Box(g, n)] = ExpandPorts(Box(g, n), DefinitionsOf(n))
  <2> DEFINE s == LastNamed(InGroup(g), n)
  <2>1. Box(g, n) \in inner
    OBVIOUS
  <2>2. s = LastNamed(flat.instances, n) /\ s \in ElementsOf(flat.instances)
    BY HeldDevices, InGroupIs, SettledIs, DeviceIs
  <2> HIDE DEF s
  <2>3. NodeDefinitions(grouped, s) = NodeDefinitions(flat, s)
    BY <2>2, SameDefinitions
  <2>4. DefinitionsOf(n) = NodeDefinitions(flat, s)
    BY <2>2 DEF DefinitionsOf
  <2>5. Last(Box(g, n)) = n
    BY BoxesApart
  <2>6. Of(Box(g, n)) = ExpandPorts(Box(g, n), NodeDefinitions(grouped, s))
    BY <2>1, <2>5 DEF s
  <2> QED BY <1>3, <2>1, <2>3, <2>4, <2>6
<1>5. ASSUME NEW face \in Faces PROVE Shelf(g)[Face(g, face)] = AllAt(own, {k \in DOMAIN own : own[k].dir \in Facing(face)})
  <2>1. Face(g, face) \notin inner /\ Face(g, face) \in faces
    BY BoxesApart
  <2>2. \A other \in Faces : Face(g, face) = Face(g, other) <=> face = other
    BY BoxesApart DEF Faces
  <2>3. {k \in DOMAIN own : \E other \in Faces : Face(g, face) = Face(g, other) /\ own[k].dir \in Facing(other)}
          = {k \in DOMAIN own : own[k].dir \in Facing(face)}
    BY <2>2
  <2>4. Of(Face(g, face)) = OnFace(Face(g, face))
    BY <2>1
  <2>5. OnFace(Face(g, face)) = AllAt(own, {k \in DOMAIN own : own[k].dir \in Facing(face)})
    BY <2>3
  <2> HIDE DEF Of, OnFace, own
  <2> QED BY <1>3, <2>1, <2>4, <2>5
<1>6. Shelf(g) = [n \in DOMAIN Shelf(g) |-> Shelf(g)[n]]
  <2> HIDE DEF inner, faces, Of
  <2> QED BY <1>2
<1> HIDE DEF Of, OnFace, own
<1> QED BY <1>1, <1>3, <1>4, <1>5, <1>6 DEF own

\* Every port of the boundary stands on the pseudo nodes of its direction, and only there
LEMMA FaceElements ==
  ASSUME Settled, GroupsApart, NEW g \in Groups, NEW face \in Faces
  PROVE  LET own == FacePorts(grouped, H(g))
             list == Shelf(g)[Face(g, face)]
         IN /\ list \in Seq(ElementsOf(own)) /\ ElementsOf(list) = {own[k] : k \in {k \in DOMAIN own : own[k].dir \in Facing(face)}}
            /\ DOMAIN list \subseteq Nat
<1> DEFINE own == FacePorts(grouped, H(g))
           kept == {k \in DOMAIN own : own[k].dir \in Facing(face)}
           list == Shelf(g)[Face(g, face)]
<1>1. list = AllAt(own, kept)
  BY ShelfIs
<1>2. IsFiniteSet(DOMAIN own) /\ DOMAIN own \subseteq Nat
  BY FacesAre
<1>3. IsFiniteSet(kept) /\ kept \subseteq Int /\ kept \subseteq DOMAIN own
  BY <1>2, FS_Subset
<1> HIDE DEF own, kept, list
<1>4. \A k \in kept : own[k] \in ElementsOf(own)
  BY <1>3 DEF ElementsOf
<1>5. list \in Seq(ElementsOf(own))
  BY <1>1, <1>3, <1>4, AllAtTyped
<1>6. ElementsOf(list) = {own[k] : k \in kept}
  <2>1. ElementsOf(AllAt(own, kept)) = {own[k] : k \in kept}
    BY <1>3, AllAtIs
  <2> QED BY <1>1, <2>1
<1>7. DOMAIN list \subseteq Nat
  BY <1>5, LenProperties
<1> QED BY <1>5, <1>6, <1>7 DEF own, list, kept

\* A box has the ports of its device
LEMMA BoxElements ==
  ASSUME Settled, GroupsApart, NEW g \in Groups, NEW n \in Held(g)
  PROVE  LET list == Shelf(g)[Box(g, n)]
         IN /\ DOMAIN list = DOMAIN E(n) /\ DOMAIN list \subseteq Nat /\ list \in Seq(ElementsOf(list))
            /\ \A k \in DOMAIN list : list[k].owner = Box(g, n) /\ list[k].name = E(n)[k].name
<1> DEFINE list == Shelf(g)[Box(g, n)]
<1>1. list = [k \in DOMAIN E(n) |-> [owner |-> Box(g, n), name |-> E(n)[k].name, dir |-> E(n)[k].dir]]
  BY ShelfIs DEF ExpandPorts, E
<1>2. E(n) \in Seq(PortRecord)
  BY HeldDevices, SettledIs, DeviceTyped
<1>3. DOMAIN E(n) = 1..Len(E(n)) /\ Len(E(n)) \in Nat
  BY <1>2, LenProperties
<1> HIDE DEF list
<1>4. list \in Seq(ElementsOf(list))
  <2> DEFINE l == Len(E(n))
             T == ElementsOf(list)
  <2>1. l \in Nat /\ DOMAIN list = 1..l
    BY <1>1, <1>3
  <2>2. \A k \in 1..l : list[k] \in T
    BY <2>1 DEF ElementsOf
  <2>3. list = [k \in 1..l |-> list[k]]
    BY <1>1, <1>3
  <2> HIDE DEF l, T
  <2>4. list \in [1..l -> T]
    BY <2>2, <2>3
  <2>5. list \in Seq(T)
    BY <2>1, <2>4
  <2> QED BY <2>5 DEF T
<1> QED BY <1>1, <1>3, <1>4 DEF list

\* The ports of a device, on its own node alone
LEMMA BoxShows ==
  ASSUME Settled, GroupsApart, NEW g \in Groups, NEW n \in Held(g)
  PROVE  Shows(Shelf(g), Box(g, n), E(n))
<1>1. Box(g, n) \in DOMAIN Shelf(g)
  BY ShelfIs
<1>2. ASSUME NEW m \in DOMAIN Shelf(g) \ {Box(g, n)}, NEW p \in ElementsOf(Shelf(g)[m]) PROVE p.owner # Box(g, n)
  <2>1. CASE \E h \in Held(g) : m = Box(g, h)
    <3>1. PICK h \in Held(g) : m = Box(g, h)
      BY <2>1
    <3>2. p.owner = Box(g, h)
      BY <1>2, <3>1, BoxElements DEF ElementsOf
    <3> QED BY <1>2, <3>1, <3>2
  <2>2. CASE \E face \in Faces : m = Face(g, face)
    <3>1. PICK face \in Faces : m = Face(g, face)
      BY <2>2
    <3> DEFINE own == FacePorts(grouped, H(g))
    <3>2. \E k \in DOMAIN own : p = own[k]
      <4>1. ElementsOf(Shelf(g)[Face(g, face)]) = {own[k] : k \in {k \in DOMAIN own : own[k].dir \in Facing(face)}}
        BY FaceElements
      <4>2. p \in ElementsOf(Shelf(g)[Face(g, face)])
        BY <1>2, <3>1
      <4> HIDE DEF own
      <4> QED BY <4>1, <4>2
    <3>3. \A k \in DOMAIN own : own[k].owner = Path(g)
      BY FacesAre
    <3>4. p.owner = Path(g)
      BY <3>2, <3>3
    <3>5. Box(g, n) # Path(g)
      BY BoxesApart
    <3> QED BY <3>4, <3>5
  <2>3. m \in {Box(g, h) : h \in Held(g)} \cup {Face(g, face) : face \in Faces}
    BY <1>2, ShelfIs
  <2> QED BY <2>1, <2>2, <2>3
<1>3. DOMAIN Shelf(g)[Box(g, n)] = DOMAIN E(n) /\ DOMAIN E(n) \subseteq Nat
  BY BoxElements
<1>4. \A k \in DOMAIN E(n) : Shelf(g)[Box(g, n)][k].owner = Box(g, n) /\ Shelf(g)[Box(g, n)][k].name = E(n)[k].name
  BY BoxElements
<1> QED BY <1>1, <1>2, <1>3, <1>4 DEF Shows

\* The two faces together show the boundary
LEMMA FaceIds ==
  ASSUME Settled, GroupsApart, NEW g \in Groups, NEW x
  PROVE  <<Path(g), x>> \in AllIds(Shelf(g)) <=> x \in NamesOf(B(g))
<1> DEFINE own == FacePorts(grouped, H(g))
<1>1. /\ DOMAIN own = DOMAIN B(g)
      /\ \A k \in DOMAIN own : own[k].owner = Path(g) /\ own[k].name = B(g)[k].name /\ own[k].dir \in Direction
  BY FacesAre
<1>2. ASSUME <<Path(g), x>> \in AllIds(Shelf(g)) PROVE x \in NamesOf(B(g))
  <2>1. PICK m \in DOMAIN Shelf(g) : <<Path(g), x>> \in {Id(p) : p \in ElementsOf(Shelf(g)[m])}
    BY <1>2 DEF AllIds
  <2>2. PICK p \in ElementsOf(Shelf(g)[m]) : p.owner = Path(g) /\ p.name = x
    BY <2>1 DEF Id
  <2>3. CASE \E h \in Held(g) : m = Box(g, h)
    <3>1. PICK h \in Held(g) : m = Box(g, h)
      BY <2>3
    <3>2. p.owner = Box(g, h)
      BY <2>2, <3>1, BoxElements DEF ElementsOf
    <3> QED BY <2>2, <3>2, BoxesApart
  <2>4. CASE \E face \in Faces : m = Face(g, face)
    <3>1. PICK face \in Faces : m = Face(g, face)
      BY <2>4
    <3>2. PICK k \in DOMAIN own : p = own[k]
      <4>1. ElementsOf(Shelf(g)[Face(g, face)]) = {own[k] : k \in {k \in DOMAIN own : own[k].dir \in Facing(face)}}
        BY FaceElements
      <4>2. p \in ElementsOf(Shelf(g)[Face(g, face)])
        BY <2>2, <3>1
      <4> HIDE DEF own
      <4> QED BY <4>1, <4>2
    <3> QED BY <1>1, <2>2, <3>2 DEF NamesOf, ElementsOf
  <2>5. DOMAIN Shelf(g) = {Box(g, h) : h \in Held(g)} \cup {Face(g, face) : face \in Faces}
    BY ShelfIs
  <2>6. (\E h \in Held(g) : m = Box(g, h)) \/ \E face \in Faces : m = Face(g, face)
    BY <2>1, <2>5
  <2> QED BY <2>3, <2>4, <2>6
<1>3. ASSUME x \in NamesOf(B(g)) PROVE <<Path(g), x>> \in AllIds(Shelf(g))
  <2>1. PICK k \in DOMAIN own : own[k].name = x
    BY <1>1, <1>3 DEF NamesOf, ElementsOf
  <2>2. PICK face \in Faces : own[k].dir \in Facing(face)
    <3>1. own[k].dir \in {"in", "out", "io"}
      BY <1>1, <2>1 DEF Direction
    <3> QED BY <3>1 DEF Facing, Faces
  <2>3. own[k] \in ElementsOf(Shelf(g)[Face(g, face)])
    <3>1. ElementsOf(Shelf(g)[Face(g, face)]) = {own[j] : j \in {j \in DOMAIN own : own[j].dir \in Facing(face)}}
      BY FaceElements
    <3> HIDE DEF own
    <3> QED BY <2>1, <2>2, <3>1
  <2>4. Face(g, face) \in DOMAIN Shelf(g)
    BY ShelfIs
  <2>5. Id(own[k]) = <<Path(g), x>>
    BY <1>1, <2>1 DEF Id
  <2> HIDE DEF own
  <2> QED BY <2>3, <2>4, <2>5 DEF AllIds
<1> QED BY <1>2, <1>3

-----------------------------------------------------------------------------
(* The wires between the ports of a group and those of its devices.        *)

\* A sequence without elements is empty
LEMMA NoElements ==
  ASSUME NEW S, NEW f \in Seq(S), ElementsOf(f) = {}
  PROVE  f = <<>>
<1>1. DOMAIN f = {} /\ DOMAIN f = 1..Len(f) /\ Len(f) \in Nat
  <2>1. DOMAIN f = {}
    BY DEF ElementsOf
  <2> QED BY <2>1, LenProperties
<1>2. Len(f) = 0
  <2> DEFINE l == Len(f)
  <2>1. l \in Nat /\ 1..l = {}
    BY <1>1
  <2> HIDE DEF l
  <2>2. l # 0 => 1 \in 1..l
    BY <2>1
  <2>3. l = 0
    BY <2>1, <2>2
  <2> QED BY <2>3 DEF l
<1> QED BY <1>2, EmptySeq

\* No ports to add
LEMMA EmptyIsEmpty == SetToSeq({}) = <<>>
<1>1. IsFiniteSet({})
  BY FS_EmptySet
<1>2. SetToSeq({}) \in Seq({}) /\ ElementsOf(SetToSeq({})) = {}
  BY <1>1, SetToSeqIs
<1> DEFINE f == SetToSeq({})
<1> HIDE DEF f
<1>3. f = <<>>
  BY <1>2, NoElements DEF f
<1> QED BY <1>3 DEF f

\* Without slots no port is added to a node
LEMMA NoShapes ==
  ASSUME NEW p, NEW l, Here(p, l).slots = {}, NEW edges, NEW nodes, nodes = [n \in DOMAIN nodes |-> nodes[n]],
         \A n \in DOMAIN nodes : \E S : nodes[n] \in Seq(S)
  PROVE  SlotShapes(p, l, nodes, edges) = nodes
<1>1. \A n \in DOMAIN nodes : nodes[n] \o SetToSeq({}) = nodes[n]
  <2> TAKE n \in DOMAIN nodes
  <2>1. PICK S : nodes[n] \in Seq(S)
    OBVIOUS
  <2> QED BY <2>1, EmptyIsEmpty, ConcatEmptySeq
<1> DEFINE isSlot(name) == name \in Here(p, l).slots \/ (Numbered(name) /\ Front(name) \in Here(p, l).slots)
           ends == {<<e.sourceNode, e.sourcePort, "out">> : e \in edges}
                     \cup {<<e.targetNode, e.targetPort, "in">> : e \in edges}
           missing(n) == {x \in ends : x[1] = n /\ x[2] \notin AllIds(nodes) /\ isSlot(x[2][2])}
           once(n) == {x \in missing(n) : x[3] = "out" \/ \A y \in missing(n) : y[2] = x[2] => y[3] = "in"}
           shapes(n) == {[owner |-> x[2][1], name |-> x[2][2], dir |-> x[3]] : x \in once(n)}
<1>2. SlotShapes(p, l, nodes, edges) = [n \in DOMAIN nodes |-> nodes[n] \o SetToSeq(shapes(n))]
  BY DEF SlotShapes
<1>3. \A n : missing(n) = {}
  OBVIOUS
<1>4. \A n : shapes(n) = {}
  <2> HIDE DEF missing
  <2> QED BY <1>3
<1> HIDE DEF shapes
<1>5. SlotShapes(p, l, nodes, edges) = [n \in DOMAIN nodes |-> nodes[n]]
  BY <1>1, <1>2, <1>4
<1> QED BY <1>5

\* Every node has a list of ports
LEMMA ShelfTyped ==
  ASSUME Settled, GroupsApart, NEW g \in Groups
  PROVE  \A n \in DOMAIN Shelf(g) : \E S : Shelf(g)[n] \in Seq(S)
<1> SUFFICES ASSUME NEW n \in DOMAIN Shelf(g) PROVE \E S : Shelf(g)[n] \in Seq(S)
  OBVIOUS
<1>1. n \in {Box(g, h) : h \in Held(g)} \cup {Face(g, face) : face \in Faces}
  BY ShelfIs
<1>2. CASE \E h \in Held(g) : n = Box(g, h)
  BY <1>2, BoxElements
<1>3. CASE \E face \in Faces : n = Face(g, face)
  <2>1. PICK face \in Faces : n = Face(g, face)
    BY <1>3
  <2>2. Shelf(g)[Face(g, face)] \in Seq(ElementsOf(FacePorts(grouped, H(g))))
    BY FaceElements
  <2> QED BY <2>1, <2>2
<1> QED BY <1>1, <1>2, <1>3

GroupLevel(g) == SubLevel(grouped, H(g))
GroupEdges(g) == SubEdges(grouped, H(g))

\* A group's level is its nodes and its template's connects
LEMMA GroupLevelIs ==
  ASSUME Settled, GroupsApart, NEW g \in Groups
  PROVE  GroupLevel(g) = Finish(Path(g), Shelf(g), GroupEdges(g))
<1>1. Here(grouped, H(g)).slots = {} /\ H(g).path = Path(g)
  BY HereIs
<1>2. Shelf(g) = [n \in DOMAIN Shelf(g) |-> Shelf(g)[n]]
  BY ShelfIs
<1>3. SlotShapes(grouped, H(g), Shelf(g), GroupEdges(g)) = Shelf(g)
  BY <1>1, <1>2, ShelfTyped, NoShapes
<1> QED BY <1>1, <1>3 DEF GroupLevel, SubLevel, Shelf, GroupEdges

\* The passes over finished edges, edge by edge
Landed(nodes, e) == [e EXCEPT !.sourcePort = Fallback(nodes, e.sourceNode, @), !.targetPort = Fallback(nodes, e.targetNode, @)]
Stays(nodes, e) == ~OverRange(nodes, e.sourcePort) /\ ~OverRange(nodes, e.targetPort)

\* The edges of a finished level: those that stay, landed
LEMMA FinishIs ==
  ASSUME NEW path, NEW nodes, NEW edges
  PROVE  LET l == Finish(path, nodes, edges)
         IN /\ l.path = path /\ l.nodes = nodes
            /\ \A f \in l.edges : \E e \in edges : f = Landed(nodes, e) /\ Stays(nodes, f)
            /\ \A e \in edges : Stays(nodes, Landed(nodes, e)) => Landed(nodes, e) \in l.edges
<1>1. Finish(path, nodes, edges) = [path |-> path, nodes |-> nodes, edges |-> DropOverRange(nodes, ApplyFallback(nodes, edges))]
  BY DEF Finish
<1>2. DropOverRange(nodes, ApplyFallback(nodes, edges)) = {f \in {Landed(nodes, e) : e \in edges} : Stays(nodes, f)}
  BY DEF DropOverRange, ApplyFallback, Landed, Stays
<1> QED BY <1>1, <1>2

\* What landing does to an edge
LEMMA LandedIs ==
  ASSUME NEW nodes, NEW id, NEW type, NEW out, NEW outId, NEW in, NEW inId
  PROVE  LET e == Edge(id, type, out, outId, in, inId)
         IN /\ Landed(nodes, e).type = type /\ Landed(nodes, e).sourceNode = out /\ Landed(nodes, e).targetNode = in
            /\ Landed(nodes, e).sourcePort = Fallback(nodes, out, outId) /\ Landed(nodes, e).targetPort = Fallback(nodes, in, inId)
BY DEF Landed, Edge

\* A boundary port that no other reads like is not moved and not dropped
LEMMA FaceFallback ==
  ASSUME Settled, GroupsApart, NEW g \in Groups, NEW face \in Faces, NEW x \in Str,
         \A m \in NamesOf(B(g)) : IsPrefix(x, m) => m = x
  PROVE  /\ Fallback(Shelf(g), Face(g, face), <<Path(g), x>>) = <<Path(g), x>>
         /\ ~ OverRange(Shelf(g), <<Path(g), x>>)
<1> DEFINE id == <<Path(g), x>>
           nodes == Shelf(g)
           node == Face(g, face)
           guess(tail) == <<id[1], id[2] \o tail>>
           guesses == <<guess(Suffix(1)), guess(<<"In">> \o Suffix(1)), guess(<<"Out">> \o Suffix(1))>>
           hits == {k \in DOMAIN guesses : guesses[k] \in AllIds(nodes)}
           there == IF node \in DOMAIN nodes THEN nodes[node] ELSE <<>>
           longer == {k \in DOMAIN there : there[k].owner = id[1] /\ Extends(there[k].name, id[2])}
<1>1. \A y : <<Path(g), y>> \in AllIds(nodes) <=> y \in NamesOf(B(g))
  BY FaceIds
<1>2. hits = {}
  <2>1. guesses[1] \notin AllIds(nodes) /\ guesses[2] \notin AllIds(nodes) /\ guesses[3] \notin AllIds(nodes)
    <3>1. \A t \in {Suffix(1), <<"In">> \o Suffix(1), <<"Out">> \o Suffix(1)} : x \o t \notin NamesOf(B(g))
      BY GuessesTyped, JoinedDiffers
    <3> HIDE DEF nodes
    <3> QED BY <1>1, <3>1
  <2>2. DOMAIN guesses = {1, 2, 3}
    OBVIOUS
  <2> HIDE DEF guesses
  <2> QED BY <2>1, <2>2
<1>3. longer = {}
  <2> SUFFICES ASSUME NEW k \in DOMAIN there, there[k].owner = Path(g), Extends(there[k].name, x) PROVE FALSE
    OBVIOUS
  <2>1. node \in DOMAIN nodes /\ there = nodes[node]
    BY ShelfIs
  <2>2. Id(there[k]) \in AllIds(nodes) /\ Id(there[k]) = <<Path(g), there[k].name>>
    BY <2>1 DEF AllIds, ElementsOf, Id
  <2>3. there[k].name \in NamesOf(B(g))
    BY <1>1, <2>2
  <2> QED BY <2>3 DEF Extends, IsStrictPrefix
<1>4. Fallback(nodes, node, id) =
        CASE id \in AllIds(nodes) -> id
          [] id \notin AllIds(nodes) /\ hits # {} -> FirstAt(guesses, hits)
          [] id \notin AllIds(nodes) /\ hits = {} /\ longer # {} -> <<id[1], FirstAt(there, longer).name>>
          [] OTHER -> id
  BY DEF Fallback
<1>5. Fallback(nodes, node, id) = id
  <2> HIDE DEF hits, longer, there, guesses, nodes
  <2> QED BY <1>2, <1>3, <1>4
<1>6. ~ OverRange(nodes, id)
  <2>1. Path(g) \notin DOMAIN nodes
    <3>1. DOMAIN nodes = {Box(g, h) : h \in Held(g)} \cup {Face(g, other) : other \in Faces}
      BY ShelfIs
    <3>2. (\A h \in Held(g) : Box(g, h) # Path(g)) /\ \A other \in Faces : Face(g, other) # Path(g)
      BY BoxesApart
    <3> QED BY <3>1, <3>2
  <2> QED BY <2>1 DEF OverRange
<1> QED BY <1>5, <1>6

\* Ranges, on the ports of a boundary
LEMMA FaceChannel ==
  ASSUME Settled, GroupsApart, TextsApart, NEW g \in Groups, NEW face \in Faces, NEW k \in ExposedBy(g), NEW ch \in MaybeChannel,
         ch \in Channel \/ ch \in BoundaryChannels(k)
  PROVE  LET id == <<Path(g), Outer(k) \o Suffix(ch)>>
         IN /\ Fallback(Shelf(g), Face(g, face), id) = id /\ ~ OverRange(Shelf(g), id)
            /\ id \in AllIds(Shelf(g)) <=> ch \in BoundaryChannels(k)
<1> DEFINE x == Outer(k) \o Suffix(ch)
<1>1. Ranges(B(g), Outer(k), BoundaryChannels(k))
  BY BoundaryRanges
<1>2. x \in NamesOf(B(g)) <=> ch \in BoundaryChannels(k)
  BY <1>1 DEF Ranges
<1>3. x \in Str
  BY <1>1, SuffixTyped, Joins DEF Ranges
<1>4. <<Path(g), x>> \in AllIds(Shelf(g)) <=> x \in NamesOf(B(g))
  BY FaceIds
<1>5. CASE ch \in Channel
  <2>1. \A m \in NamesOf(B(g)) : IsPrefix(x, m) => m = x
    BY <1>1, <1>5 DEF Ranges
  <2> HIDE DEF x
  <2> QED BY <1>2, <1>3, <1>4, <2>1, FaceFallback DEF x
<1>6. CASE ch \in BoundaryChannels(k)
  <2>1. <<Path(g), x>> \in AllIds(Shelf(g))
    BY <1>2, <1>4, <1>6
  <2> HIDE DEF x
  <2>2. Fallback(Shelf(g), Face(g, face), <<Path(g), x>>) = <<Path(g), x>>
    BY <2>1 DEF Fallback
  <2>3. ~ OverRange(Shelf(g), <<Path(g), x>>)
    BY <2>1 DEF OverRange
  <2> QED BY <1>2, <1>4, <2>2, <2>3 DEF x
<1> QED BY <1>5, <1>6

-----------------------------------------------------------------------------
(* What a reference inside a group resolves to.                            *)

\* A list paired with itself
LEMMA PairsOfOne ==
  ASSUME NEW S, NEW s \in Seq(S)
  PROVE  ElementsOf(ChannelPairs(OneToOne, s, s)) = {<<x, x>> : x \in ElementsOf(s)}
<1> DEFINE l == Len(s)
           pairs == [i \in 1..l |-> <<s[i], s[i]>>]
<1>1. l \in Nat /\ DOMAIN s = 1..l
  BY LenProperties
<1>2. Larger(l, l) = l
  BY DEF Larger
<1>3. \A i \in 1..l : Broadcast(s, i) = s[i]
  <2> TAKE i \in 1..l
  <2>1. CASE l > 1
    BY <2>1 DEF Broadcast
  <2>2. CASE ~ (l > 1)
    <3>1. i = 1
      <4> HIDE DEF l
      <4> QED BY <1>1, <2>2
    <3> QED BY <2>2, <3>1 DEF Broadcast
  <2> QED BY <2>1, <2>2
<1>4. ChannelPairs(OneToOne, s, s) = [i \in 1..Larger(l, l) |-> <<Broadcast(s, i), Broadcast(s, i)>>]
  <2>1. OneToOne.kind = "default" /\ OneToOne.kind # "explicit" /\ OneToOne.kind # "offset"
    BY DEF OneToOne
  <2> QED BY <2>1 DEF ChannelPairs
<1> HIDE DEF l
<1>5. ChannelPairs(OneToOne, s, s) = pairs
  BY <1>2, <1>3, <1>4
<1>6. ElementsOf(pairs) = {<<x, x>> : x \in ElementsOf(s)}
  BY <1>1 DEF ElementsOf
<1> QED BY <1>5, <1>6

\* An exposed port is one of a member of a group
LEMMA HeldIs ==
  ASSUME Settled, NEW k \in DOMAIN exposed
  PROVE  /\ k[1] \in Held(group_of[k[1]]) /\ group_of[k[1]] \in Groups /\ k \in ExposedBy(group_of[k[1]])
         /\ \A r : Key(r) = k => r.inst = k[1] /\ r.port = k[2] /\ (Own(r) <=> Own(DevicePort(k))) /\ FirstOf(r) = FirstOf(DevicePort(k))
<1>1. k[1] \in DOMAIN group_of /\ group_of[k[1]] \in Groups
  BY KeyTyped
<1>2. \A r : Key(r) = k => r.inst = k[1] /\ r.port = k[2]
  BY DEF Key
<1>3. DevicePort(k).inst = k[1] /\ DevicePort(k).port = k[2]
  BY DEF DevicePort, Ref
<1>4. \A r : Key(r) = k => OwnPorts(r) = OwnPorts(DevicePort(k))
  BY <1>2, <1>3 DEF OwnPorts
<1> QED BY <1>1, <1>2, <1>3, <1>4 DEF Held, ExposedBy, Own, FirstOf

\* What WholeFromOne and PortsApart say of a port that is on the boundary as a whole
LEMMA WholeIs ==
  ASSUME Settled, WholeFromOne, PortsApart(DOMAIN group_of), NEW k \in DOMAIN exposed, exposed[k].whole
  PROVE  LET d == LastNamed(OwnPorts(DevicePort(k)), k[2])
             defs == DefinitionsOf(k[1])
         IN /\ Own(DevicePort(k)) /\ FirstOf(DevicePort(k)) = 1 /\ d.name = k[2]
            /\ Ranges(E(k[1]), k[2], BoundaryChannels(k)) /\ BoundaryChannels(k) = ChannelsOf(d)
            /\ BoundaryChannels(k) = (IF exposed[k].end # NoEnd THEN 1..exposed[k].end ELSE {NoChannel})
            /\ exposed[k].end # NoEnd => exposed[k].end >= 1 /\ exposed[k].end \in Channel
            /\ {i \in DOMAIN defs : defs[i].name = k[2]} # {}
            /\ FirstAt(defs, {i \in DOMAIN defs : defs[i].name = k[2]}) = d
            /\ d.ranged <=> exposed[k].end # NoEnd
            /\ d.ranged => d.lo = 1 /\ d.hi = exposed[k].end
            /\ BoundaryPort(k).ranged <=> exposed[k].end # NoEnd
            /\ BoundaryPort(k).lo = 1 /\ BoundaryPort(k).hi = exposed[k].end
<1> DEFINE ref == DevicePort(k)
           d == LastNamed(OwnPorts(ref), ref.port)
           defs == DefinitionsOf(ref.inst)
<1>1. PICK r \in NotedRefs : Key(r) = k /\ ~r.indexed
  BY SettledIs DEF BoundaryExact
<1>2. Own(ref) /\ FirstOf(ref) = 1
  BY <1>1, HeldIs DEF WholeFromOne
<1>3. ref.inst = k[1] /\ ref.port = k[2] /\ k[1] \in DOMAIN group_of /\ k[1] \in Devices /\ exposed[k].end = PortEnd(ref)
  BY KeyTyped DEF DevicePort, Ref
<1>4. PortsApart({ref.inst})
  BY <1>3 DEF PortsApart
<1>5. /\ d.name = ref.port /\ TypedPort(d) /\ Ranges(E(ref.inst), ref.port, ChannelsOf(d))
      /\ ChannelsOf(d) # {} /\ (d.ranged => d.lo <= d.hi)
      /\ FirstOf(ref) = (IF d.ranged THEN d.lo ELSE 1) /\ PortEnd(ref) = (IF d.ranged THEN d.hi ELSE NoEnd)
      /\ {i \in DOMAIN defs : defs[i].name = ref.port} # {}
      /\ FirstAt(defs, {i \in DOMAIN defs : defs[i].name = ref.port}) = d
  BY <1>2, <1>3, <1>4, SettledIs, OwnRanges
<1> HIDE DEF d
<1>6. d.ranged => d.hi \in Channel /\ d.hi # NoEnd /\ d.lo = 1
  BY <1>2, <1>5, OneIsChannel DEF TypedPort, NoEnd, NoChannel
<1>7. d.ranged <=> exposed[k].end # NoEnd
  BY <1>3, <1>5, <1>6
<1>8. d.ranged => d.lo = 1 /\ d.hi = exposed[k].end /\ exposed[k].end >= 1 /\ exposed[k].end \in Channel
  BY <1>3, <1>5, <1>6
<1>9. /\ BoundaryPort(k).ranged = (exposed[k].end # NoEnd) /\ BoundaryPort(k).lo = 1 /\ BoundaryPort(k).hi = exposed[k].end
  BY DEF BoundaryPort
<1>10. ChannelsOf(d) = (IF exposed[k].end # NoEnd THEN 1..exposed[k].end ELSE {NoChannel})
  BY <1>7, <1>8 DEF ChannelsOf
<1>11. BoundaryChannels(k) = (IF exposed[k].end # NoEnd THEN 1..exposed[k].end ELSE {NoChannel})
  BY <1>9 DEF BoundaryChannels, ChannelsOf
<1> HIDE DEF ref, defs
<1> QED BY <1>2, <1>3, <1>5, <1>7, <1>8, <1>9, <1>10, <1>11 DEF ref, d, defs

\* The channels a key's connect lists, on both sides
Wired(k) ==
  IF ~exposed[k].whole THEN Ascending(exposed[k].channels)
  ELSE IF exposed[k].end # NoEnd THEN [i \in 1..(exposed[k].end - 1 + 1) |-> 1 + i - 1] ELSE <<NoChannel>>
WireChannels(k) == IF exposed[k].whole THEN BoundaryChannels(k) ELSE exposed[k].channels

\* The channels a wire joins, in order
LEMMA WiredIs ==
  ASSUME Settled, WholeFromOne, PortsApart(DOMAIN group_of), NEW k \in DOMAIN exposed
  PROVE  Wired(k) \in Seq(MaybeChannel) /\ ElementsOf(Wired(k)) = WireChannels(k) /\ WireChannels(k) \subseteq MaybeChannel
<1>1. CASE ~exposed[k].whole
  <2> DEFINE S == exposed[k].channels
  <2>1. IsFiniteSet(S) /\ S \subseteq Channel /\ S \subseteq MaybeChannel /\ S \subseteq Int
    <3>1. IsFiniteSet(S) /\ S \subseteq Channel
      BY KeyTyped
    <3> HIDE DEF S
    <3>2. Channel \subseteq Nat /\ Channel \subseteq MaybeChannel
      BY OneIsChannel
    <3> QED BY <3>1, <3>2
  <2> HIDE DEF S
  <2>2. Ascending(S) \in Seq(S) /\ ElementsOf(Ascending(S)) = S
    BY <2>1, AscendingIs
  <2>3. Ascending(S) \in Seq(MaybeChannel)
    BY <2>1, <2>2, SeqMonotonic
  <2> QED BY <1>1, <2>1, <2>2, <2>3 DEF Wired, WireChannels, S
<1>2. CASE exposed[k].whole /\ exposed[k].end = NoEnd
  <2>1. Wired(k) = <<NoChannel>> /\ WireChannels(k) = {NoChannel}
    BY <1>2, WholeIs DEF Wired, WireChannels
  <2>2. NoChannel \in MaybeChannel
    BY DEF MaybeChannel
  <2>3. <<NoChannel>> \in Seq(MaybeChannel) /\ ElementsOf(<<NoChannel>>) = {NoChannel}
    BY <2>2 DEF ElementsOf
  <2> QED BY <2>1, <2>2, <2>3
<1>3. CASE exposed[k].whole /\ exposed[k].end # NoEnd
  <2> DEFINE m == exposed[k].end
             w == [i \in 1..m |-> i]
  <2>1. m \in Channel /\ m >= 1 /\ m \in Nat /\ WireChannels(k) = 1..m
    BY <1>3, WholeIs, OneIsChannel DEF WireChannels
  <2>2. Wired(k) = [i \in 1..(m - 1 + 1) |-> 1 + i - 1]
    BY <1>3 DEF Wired
  <2> HIDE DEF m
  <2>3. Wired(k) = w
    BY <2>1, <2>2
  <2>4. 1..m \subseteq MaybeChannel
    <3>1. Channel = 0..(Modulus - 1) /\ Modulus \in Nat
      BY Width DEF Channel
    <3> QED BY <2>1, <3>1 DEF MaybeChannel
  <2>5. w \in [1..m -> MaybeChannel]
    BY <2>4
  <2>6. w \in Seq(MaybeChannel)
    BY <2>1, <2>5
  <2>7. ElementsOf(w) = 1..m
    BY DEF ElementsOf
  <2> QED BY <2>1, <2>3, <2>4, <2>6, <2>7
<1> QED BY <1>1, <1>2, <1>3, KeyTyped

Index(k) == IF exposed[k].whole THEN <<>> ELSE Ascending(exposed[k].channels)
DeviceRef(k) == Ref(k[1], k[2], Index(k) # <<>>, Index(k))
BoundaryRef(k) == Ref(NoInstance, exposed[k].name, Index(k) # <<>>, Index(k))

\* Only whole ports are wired without channels
LEMMA IndexIs ==
  ASSUME Settled, NoAutoCut, NEW k \in DOMAIN exposed
  PROVE  Index(k) = <<>> <=> exposed[k].whole
<1>1. CASE exposed[k].whole
  BY <1>1 DEF Index
<1>2. CASE ~exposed[k].whole
  <2> DEFINE S == exposed[k].channels
  <2>1. IsFiniteSet(S) /\ S \subseteq Int /\ S # {}
    <3>1. IsFiniteSet(S) /\ S \subseteq Channel
      BY KeyTyped
    <3>2. S # {} \/ \E r \in NotedRefs : Key(r) = k /\ r.index = <<>> /\ r.indexed
      BY <1>2, KeyTyped
    <3> HIDE DEF S
    <3>3. Channel \subseteq Nat
      BY OneIsChannel
    <3> QED BY <3>1, <3>2, <3>3 DEF NoAutoCut
  <2>2. Index(k) = Ascending(S)
    BY <1>2 DEF Index
  <2> HIDE DEF S
  <2>3. ElementsOf(Ascending(S)) = S
    BY <2>1, AscendingIs
  <2>4. Index(k) # <<>>
    BY <2>1, <2>2, <2>3 DEF ElementsOf
  <2> QED BY <1>2, <2>4
<1> QED BY <1>1, <1>2

\* Inside a group a member's ports are its device's, if its template is declared
LEMMA CandidatesAre ==
  ASSUME Settled, GroupsApart, NEW g \in Groups, NEW ref, ref.inst \in Held(g),
         LastNamed(flat.instances, ref.inst).template \in DOMAIN flat.templates
  PROVE  Candidates(grouped, H(g), ref) = DefinitionsOf(ref.inst)
<1> DEFINE n == ref.inst
           s == FirstNamed(InGroup(g), n)
<1>1. n \in Held(g) /\ n # NoInstance
  BY HeldDevices
<1>2. SubNames(grouped, H(g)) = Held(g) /\ Here(grouped, H(g)).instances = InGroup(g)
  BY ShelfIs, HereIs
<1>3. Candidates(grouped, H(g), ref) = Definitions(grouped, s.template, s.cards)
  BY <1>1, <1>2 DEF Candidates
<1>4. s = LastNamed(flat.instances, n) /\ s \in ElementsOf(flat.instances)
  BY <1>1, HeldDevices, InGroupIs, SettledIs, DeviceIs
<1> HIDE DEF s
<1>5. Definitions(grouped, s.template, s.cards) = Definitions(flat, s.template, s.cards)
  BY <1>4, SameDefinitions
<1> QED BY <1>3, <1>4, <1>5 DEF DefinitionsOf, NodeDefinitions

\* The wire's device end stands for its channels
LEMMA DeviceResolves ==
  ASSUME Settled, NoAutoCut, WholeFromOne, GroupsApart, PortsApart(DOMAIN group_of), NEW g \in Groups, NEW k \in ExposedBy(g)
  PROVE  ResolvePortRange(grouped, H(g), DeviceRef(k)) = [port |-> k[2], channels |-> Wired(k)]
<1>0. k \in DOMAIN exposed /\ group_of[k[1]] = g
  BY DEF ExposedBy
<1> DEFINE ref == DeviceRef(k)
           defs == Candidates(grouped, H(g), ref)
           exact == {i \in DOMAIN defs : defs[i].name = ref.port}
           longer == {i \in DOMAIN defs : Extends(defs[i].name, ref.port)}
           whole(x) == [port |-> x.name,
                        channels |-> IF x.ranged THEN [i \in 1..(x.hi - x.lo + 1) |-> x.lo + i - 1] ELSE <<NoChannel>>]
<1>1. ref.inst = k[1] /\ ref.port = k[2] /\ ref.index = Index(k)
  BY DEF DeviceRef, Ref
<1>2. ResolvePortRange(grouped, H(g), ref) =
        CASE ref.index # <<>> -> [port |-> ref.port, channels |-> ref.index]
          [] ref.index = <<>> /\ exact # {} -> whole(FirstAt(defs, exact))
          [] ref.index = <<>> /\ exact = {} /\ longer # {} -> whole(FirstAt(defs, longer))
          [] OTHER -> [port |-> ref.port, channels |-> <<NoChannel>>]
  BY DEF ResolvePortRange
<1>3. exposed[k].whole => defs = DefinitionsOf(k[1])
  <2> SUFFICES ASSUME exposed[k].whole PROVE defs = DefinitionsOf(k[1])
    OBVIOUS
  <2>1. Own(DevicePort(k)) /\ DevicePort(k).inst = k[1]
    BY <1>0, WholeIs DEF DevicePort, Ref
  <2>2. LastNamed(flat.instances, k[1]).template \in DOMAIN flat.templates
    BY <2>1, OwnTemplate
  <2>3. ref.inst \in Held(g)
    BY <1>0, <1>1, HeldIs
  <2> HIDE DEF ref
  <2> QED BY <1>1, <2>2, <2>3, CandidatesAre
<1>4. Index(k) = <<>> <=> exposed[k].whole
  BY <1>0, IndexIs
<1> HIDE DEF ref, defs
<1>5. CASE ~exposed[k].whole
  BY <1>1, <1>2, <1>4, <1>5 DEF Index, Wired, ref
<1>6. CASE exposed[k].whole
  <2> DEFINE d == LastNamed(OwnPorts(DevicePort(k)), k[2])
             own == {i \in DOMAIN DefinitionsOf(k[1]) : DefinitionsOf(k[1])[i].name = k[2]}
  <2>1. /\ d.name = k[2] /\ (d.ranged <=> exposed[k].end # NoEnd) /\ (d.ranged => d.lo = 1 /\ d.hi = exposed[k].end)
        /\ own # {} /\ FirstAt(DefinitionsOf(k[1]), own) = d
    BY <1>0, <1>6, WholeIs
  <2>2. exact = own
    BY <1>1, <1>3, <1>6
  <2> HIDE DEF d, own, exact, longer
  <2>3. ResolvePortRange(grouped, H(g), ref) = whole(d)
    BY <1>1, <1>2, <1>3, <1>4, <1>6, <2>1, <2>2
  <2>4. whole(d).channels = Wired(k)
    BY <1>6, <2>1 DEF Wired
  <2> QED BY <2>1, <2>3, <2>4 DEF ref
<1> QED BY <1>0, <1>5, <1>6, KeyTyped

\* and so does its end on the boundary
LEMMA BoundaryResolves ==
  ASSUME Settled, NoAutoCut, WholeFromOne, GroupsApart, PortsApart(DOMAIN group_of), NEW g \in Groups, NEW k \in ExposedBy(g)
  PROVE  ResolvePortRange(grouped, H(g), BoundaryRef(k)) = [port |-> Outer(k), channels |-> Wired(k)]
<1>0. k \in DOMAIN exposed /\ group_of[k[1]] = g
  BY DEF ExposedBy
<1> DEFINE ref == BoundaryRef(k)
           defs == Candidates(grouped, H(g), ref)
           exact == {i \in DOMAIN defs : defs[i].name = ref.port}
           longer == {i \in DOMAIN defs : Extends(defs[i].name, ref.port)}
           whole(x) == [port |-> x.name,
                        channels |-> IF x.ranged THEN [i \in 1..(x.hi - x.lo + 1) |-> x.lo + i - 1] ELSE <<NoChannel>>]
<1>1. ref.inst = NoInstance /\ ref.port = Outer(k) /\ ref.index = Index(k)
  BY DEF BoundaryRef, Ref, Outer
<1>2. ResolvePortRange(grouped, H(g), ref) =
        CASE ref.index # <<>> -> [port |-> ref.port, channels |-> ref.index]
          [] ref.index = <<>> /\ exact # {} -> whole(FirstAt(defs, exact))
          [] ref.index = <<>> /\ exact = {} /\ longer # {} -> whole(FirstAt(defs, longer))
          [] OTHER -> [port |-> ref.port, channels |-> <<NoChannel>>]
  BY DEF ResolvePortRange
<1>3. defs = Assembled(g).ports
  <2>1. H(g).template = GroupTemplate(g) /\ H(g).cards = <<>>
    BY HereIs
  <2>2. NoInstance \notin SubNames(grouped, H(g))
    BY ShelfIs, HeldDevices
  <2>3. defs = Definitions(grouped, GroupTemplate(g), <<>>)
    BY <1>1, <2>1, <2>2 DEF Candidates
  <2> QED BY <2>3, GroupDefinitions
<1>4. Index(k) = <<>> <=> exposed[k].whole
  BY <1>0, IndexIs
<1> HIDE DEF ref, defs
<1>5. CASE ~exposed[k].whole
  BY <1>1, <1>2, <1>4, <1>5 DEF Index, Wired, ref
<1>6. CASE exposed[k].whole
  <2> DEFINE keys == SetToSeq(ExposedBy(g))
  <2>1. /\ ElementsOf(keys) = ExposedBy(g) /\ \A i, j \in DOMAIN keys : keys[i] = keys[j] => i = j
        /\ \A j \in DOMAIN keys : keys[j] \in DOMAIN exposed /\ keys[j] \in ExposedBy(g)
        /\ defs = [j \in DOMAIN keys |-> BoundaryPort(keys[j])]
        /\ DOMAIN keys = 1..Len(keys) /\ Len(keys) \in Nat
    BY <1>3, KeysListed
  <2> HIDE DEF keys
  <2>2. PICK i \in DOMAIN keys : keys[i] = k
    BY <2>1 DEF ElementsOf
  <2>3. \A j \in DOMAIN defs : j \in DOMAIN keys /\ defs[j] = BoundaryPort(keys[j]) /\ defs[j].name = Outer(keys[j])
    BY <2>1, BoundaryTyped
  <2>4. exact = {i}
    <3>1. \A j \in DOMAIN keys : Outer(keys[j]) = Outer(k) => j = i
      <4> TAKE j \in DOMAIN keys
      <4>1. group_of[keys[j][1]] = g /\ keys[j] \in DOMAIN exposed
        BY <2>1 DEF ExposedBy
      <4>2. Outer(keys[j]) = Outer(k) => keys[j] = k
        BY <1>0, <4>1, SettledIs DEF NamesApart, Outer
      <4> QED BY <2>1, <2>2, <4>2
    <3>2. DOMAIN defs = DOMAIN keys
      BY <2>1
    <3> QED BY <1>1, <2>2, <2>3, <3>1, <3>2
  <2>5. FirstAt(defs, exact) = BoundaryPort(k)
    <3>1. exact \subseteq Nat /\ exact # {}
      <4>1. i \in Nat
        BY <2>1, <2>2
      <4> QED BY <2>4, <4>1
    <3> HIDE DEF exact
    <3>2. PICK j \in exact : FirstAt(defs, exact) = defs[j]
      BY <3>1, FirstAtIs
    <3>3. j = i
      BY <2>4, <3>2
    <3>4. i \in DOMAIN defs
      BY <2>1, <2>2
    <3> QED BY <2>2, <2>3, <3>2, <3>3, <3>4
  <2>6. /\ BoundaryPort(k).ranged <=> exposed[k].end # NoEnd
        /\ BoundaryPort(k).lo = 1 /\ BoundaryPort(k).hi = exposed[k].end /\ BoundaryPort(k).name = Outer(k)
    BY <1>0, <1>6, WholeIs, BoundaryTyped
  <2>7. exact # {}
    BY <2>4
  <2> HIDE DEF exact, longer
  <2>8. ResolvePortRange(grouped, H(g), ref) = whole(BoundaryPort(k))
    BY <1>1, <1>2, <1>4, <1>6, <2>5, <2>7
  <2>9. whole(BoundaryPort(k)).channels = Wired(k)
    BY <1>6, <2>6 DEF Wired
  <2>10. whole(BoundaryPort(k)).port = Outer(k)
    BY <2>6
  <2>11. whole(BoundaryPort(k)) = [port |-> Outer(k), channels |-> Wired(k)]
    BY <2>9, <2>10
  <2> QED BY <2>8, <2>11 DEF ref
<1> QED BY <1>0, <1>5, <1>6, KeyTyped

-----------------------------------------------------------------------------
(* The edges of a group's level.                                           *)

Pairs(c) == ElementsOf(ChannelPairs(c.mapping, FlattenOpt(c.source), FlattenOpt(c.target)))
Called(ref, w) == ref.port \o Suffix(w)
\* Where a device's port is found, and whether the edge is dropped for it
Spot(ref, w) == Near(E(ref.inst), Called(ref, w))
Gone(ref, w) == Above(E(ref.inst), Spot(ref, w))

Intra(g) == {c \in Cables : SameGroup(c) /\ group_of[c.source.inst] = g}

\* The connects of a group's template: its own cables, and a wire for each exposed port
LEMMA ConnectsInside ==
  ASSUME Settled, NEW g
  PROVE  ElementsOf(Assembled(g).connects) = Intra(g) \cup {Wiring(k) : k \in ExposedBy(g)}
<1> DEFINE keys == SetToSeq(ExposedBy(g))
           kept == {i \in DOMAIN intra : group_of[intra[i].source.inst] = g}
           wires == [j \in DOMAIN keys |-> Wiring(keys[j])]
           inside == AllAt(intra, kept)
           W == {Wiring(k) : k \in ExposedBy(g)}
           S == Intra(g) \cup W
<1>1. Assembled(g).connects = inside \o wires
  BY DEF Assembled
<1>2. intra \in Seq(ElementsOf(intra)) /\ ElementsOf(intra) = {c \in Cables : SameGroup(c)} /\ kept \subseteq DOMAIN intra
  BY ListsAre
<1>3. ElementsOf(inside) = {intra[i] : i \in kept} /\ \E T : inside \in Seq(T)
  <2> HIDE DEF kept
  <2> QED BY <1>2, AllAtElements
<1>4. {intra[i] : i \in kept} = Intra(g)
  <2>1. {intra[i] : i \in kept} = {c \in ElementsOf(intra) : group_of[c.source.inst] = g}
    BY DEF ElementsOf
  <2> HIDE DEF kept
  <2> QED BY <1>2, <2>1 DEF Intra
<1>5. keys \in Seq(ExposedBy(g)) /\ DOMAIN keys = 1..Len(keys) /\ Len(keys) \in Nat /\ ElementsOf(keys) = ExposedBy(g)
  BY KeysListed
<1> HIDE DEF inside, kept, keys
<1>6. ElementsOf(wires) = W
  <2>1. ElementsOf(wires) = {Wiring(keys[j]) : j \in DOMAIN keys}
    BY DEF ElementsOf
  <2>2. \A k : k \in ExposedBy(g) <=> \E j \in DOMAIN keys : k = keys[j]
    BY <1>5 DEF ElementsOf
  <2> HIDE DEF wires
  <2> QED BY <2>1, <2>2
<1>7. wires \in Seq(S)
  <2> DEFINE l == Len(keys)
  <2>1. l \in Nat /\ wires = [j \in 1..l |-> Wiring(keys[j])]
    BY <1>5
  <2>2. \A j \in 1..l : Wiring(keys[j]) \in S
    BY <1>5 DEF ElementsOf
  <2> HIDE DEF l, wires, S
  <2>3. wires \in [1..l -> S]
    BY <2>1, <2>2
  <2> QED BY <2>1, <2>3
<1>8. inside \in Seq(S)
  <2>1. PICK T : inside \in Seq(T)
    BY <1>3
  <2> DEFINE l == Len(inside)
  <2>2. l \in Nat /\ DOMAIN inside = 1..l /\ inside = [i \in 1..l |-> inside[i]]
    BY <2>1, LenProperties
  <2>3. \A i \in 1..l : inside[i] \in S
    <3>1. \A i \in 1..l : inside[i] \in ElementsOf(inside)
      BY <2>2 DEF ElementsOf
    <3> QED BY <1>3, <1>4, <3>1
  <2> HIDE DEF l, S
  <2>4. inside \in [1..l -> S]
    BY <2>2, <2>3
  <2> QED BY <2>2, <2>4
<1> HIDE DEF wires, S
<1>9. ElementsOf(inside \o wires) = ElementsOf(inside) \cup ElementsOf(wires)
  BY <1>7, <1>8, ConcatElements
<1> QED BY <1>1, <1>3, <1>4, <1>6, <1>9

\* A reference inside a group stands for the same channels as at the root
LEMMA IntraResolves ==
  ASSUME Settled, GroupsApart, PortsApart(DOMAIN group_of), InsideNamesChannels, NEW g \in Groups,
         NEW c \in Intra(g), NEW r \in {c.source, c.target}
  PROVE  r.inst \in Held(g) /\ ResolvePortRange(grouped, H(g), r) = [port |-> r.port, channels |-> FlattenOpt(r)]
<1>1. c \in Cables \ Cut /\ r.inst \in Held(g) /\ r.inst \in DOMAIN group_of
  BY DEF Intra, SameGroup, Grouped, Held, Cut
<1> DEFINE defs == Candidates(grouped, H(g), r)
           exact == {i \in DOMAIN defs : defs[i].name = r.port}
           longer == {i \in DOMAIN defs : Extends(defs[i].name, r.port)}
           whole(x) == [port |-> x.name,
                        channels |-> IF x.ranged THEN [i \in 1..(x.hi - x.lo + 1) |-> x.lo + i - 1] ELSE <<NoChannel>>]
<1>2. ResolvePortRange(grouped, H(g), r) =
        CASE r.index # <<>> -> [port |-> r.port, channels |-> r.index]
          [] r.index = <<>> /\ exact # {} -> whole(FirstAt(defs, exact))
          [] r.index = <<>> /\ exact = {} /\ longer # {} -> whole(FirstAt(defs, longer))
          [] OTHER -> [port |-> r.port, channels |-> <<NoChannel>>]
  BY DEF ResolvePortRange
<1>3. r.index = <<>> => defs = DefinitionsOf(r.inst)
  <2> SUFFICES ASSUME r.index = <<>> PROVE defs = DefinitionsOf(r.inst)
    OBVIOUS
  <2>1. Own(r)
    BY <1>1 DEF InsideNamesChannels
  <2>2. LastNamed(flat.instances, r.inst).template \in DOMAIN flat.templates
    BY <2>1, OwnTemplate
  <2> QED BY <1>1, <2>2, CandidatesAre
<1> HIDE DEF defs
<1>4. CASE r.index # <<>>
  BY <1>1, <1>2, <1>4 DEF FlattenOpt
<1>5. CASE r.index = <<>>
  <2> DEFINE d == LastNamed(OwnPorts(r), r.port)
             own == {i \in DOMAIN DefinitionsOf(r.inst) : DefinitionsOf(r.inst)[i].name = r.port}
  <2>1. Own(r) /\ PortEnd(r) = NoEnd
    BY <1>1, <1>5 DEF InsideNamesChannels
  <2>2. r.inst \in Devices /\ PortsApart({r.inst})
    BY <1>1, HeldDevices DEF PortsApart
  <2>3. /\ d.name = r.port /\ TypedPort(d) /\ PortEnd(r) = (IF d.ranged THEN d.hi ELSE NoEnd)
        /\ own # {} /\ FirstAt(DefinitionsOf(r.inst), own) = d
    BY <2>1, <2>2, SettledIs, OwnRanges
  <2> HIDE DEF d, own
  <2>4. ~ d.ranged
    BY <2>1, <2>3, OneIsChannel DEF TypedPort, NoEnd, NoChannel
  <2>5. exact = own
    BY <1>3, <1>5 DEF own
  <2> HIDE DEF exact, longer
  <2>6. ResolvePortRange(grouped, H(g), r) = whole(d)
    BY <1>2, <1>3, <1>5, <2>3, <2>5
  <2>7. whole(d) = [port |-> r.port, channels |-> <<NoChannel>>]
    BY <2>3, <2>4
  <2> QED BY <1>1, <1>5, <2>6, <2>7 DEF FlattenOpt
<1> QED BY <1>4, <1>5

\* A pseudo node on which a port of the boundary stands, if there is such a port
RimNode(g, node, x) ==
  \E face \in Faces : /\ node = Face(g, face)
                      /\ x \in NamesOf(B(g)) => <<Path(g), x>> \in {Id(p) : p \in ElementsOf(Shelf(g)[node])}

\* An end on the boundary is given a face that shows its port
LEMMA NodeOfRim ==
  ASSUME Settled, GroupsApart, NEW g \in Groups, NEW ref, ref.inst = NoInstance, NEW x,
         NEW face \in Faces, NEW otherwise \in Faces, face # otherwise
  PROVE  RimNode(g, InternalNode(grouped, H(g), ref, x, face, otherwise), x)
<1> DEFINE own == FacePorts(grouped, H(g))
           named == {k \in DOMAIN own : own[k].name = x}
           chosen == IF named # {} /\ FirstAt(own, named).dir \in Facing(face) THEN face ELSE otherwise
           node == InternalNode(grouped, H(g), ref, x, face, otherwise)
<1>1. /\ DOMAIN own = DOMAIN B(g) /\ DOMAIN own \subseteq Nat
      /\ \A k \in DOMAIN own : own[k].owner = Path(g) /\ own[k].name = B(g)[k].name /\ own[k].dir \in Direction
  BY FacesAre
<1>2. node = Face(g, chosen)
  <2>1. H(g).path = Path(g)
    BY HereIs
  <2> QED BY <2>1 DEF InternalNode, Face
<1>3. chosen \in Faces
  OBVIOUS
<1>4. ASSUME x \in NamesOf(B(g)) PROVE <<Path(g), x>> \in {Id(p) : p \in ElementsOf(Shelf(g)[Face(g, chosen)])}
  <2>1. named # {} /\ named \subseteq Nat
    BY <1>1, <1>4 DEF NamesOf, ElementsOf
  <2>2. PICK k \in named : FirstAt(own, named) = own[k]
    <3> HIDE DEF named
    <3> QED BY <2>1, FirstAtIs
  <2>3. own[k].dir \in Facing(chosen)
    <3>1. own[k].dir \in {"in", "out", "io"}
      BY <1>1, <2>2 DEF Direction
    <3>2. CASE own[k].dir \in Facing(face)
      BY <2>1, <2>2, <3>2
    <3>3. CASE own[k].dir \notin Facing(face)
      <4>1. chosen = otherwise
        BY <2>2, <3>3
      <4>2. own[k].dir \in Facing(otherwise)
        BY <3>1, <3>3 DEF Facing, Faces
      <4> QED BY <4>1, <4>2
    <3> QED BY <3>2, <3>3
  <2>4. ElementsOf(Shelf(g)[Face(g, chosen)]) = {own[j] : j \in {j \in DOMAIN own : own[j].dir \in Facing(chosen)}}
    BY <1>3, FaceElements
  <2>5. k \in DOMAIN own /\ Id(own[k]) = <<Path(g), x>>
    BY <1>1, <2>2 DEF Id
  <2> HIDE DEF own, named, chosen
  <2> QED BY <2>3, <2>4, <2>5
<1> HIDE DEF chosen, node
<1> QED BY <1>2, <1>3, <1>4 DEF RimNode, node

-----------------------------------------------------------------------------
(* The edges of a group's level, one by one.                               *)

\* An edge between two devices of the group, one between a device and a port of the group
InnerLink(g, c, p, f) ==
  /\ f.type = "connect"
  /\ f.sourceNode = Box(g, c.source.inst) /\ f.sourcePort = <<Box(g, c.source.inst), Spot(c.source, p[1])>>
  /\ f.targetNode = Box(g, c.target.inst) /\ f.targetPort = <<Box(g, c.target.inst), Spot(c.target, p[2])>>

Rim(g, k, w) == <<Path(g), Outer(k) \o Suffix(w)>>

WireLink(g, k, w, f) ==
  LET box == Box(g, k[1])
      device == <<box, Spot(DevicePort(k), w)>>
  IN /\ f.type = "connect"
     /\ IF exposed[k].dir = "in"
        THEN /\ RimNode(g, f.sourceNode, Outer(k) \o Suffix(w)) /\ f.sourcePort = Rim(g, k, w)
             /\ f.targetNode = box /\ f.targetPort = device
        ELSE /\ RimNode(g, f.targetNode, Outer(k) \o Suffix(w)) /\ f.targetPort = Rim(g, k, w)
             /\ f.sourceNode = box /\ f.sourcePort = device

\* Where an end at a box lands, and when it is dropped
LEMMA DeviceEnd ==
  ASSUME Settled, GroupsApart, NEW g \in Groups, NEW ref, ref.inst \in Held(g), NEW w
  PROVE  LET id == <<Box(g, ref.inst), Called(ref, w)>>
             there == <<Box(g, ref.inst), Spot(ref, w)>>
         IN /\ Fallback(Shelf(g), Box(g, ref.inst), id) = there
            /\ OverRange(Shelf(g), there) <=> Gone(ref, w)
<1>1. Shows(Shelf(g), Box(g, ref.inst), E(ref.inst))
  BY BoxShows
<1>2. Fallback(Shelf(g), Box(g, ref.inst), <<Box(g, ref.inst), Called(ref, w)>>) = <<Box(g, ref.inst), Spot(ref, w)>>
  BY <1>1, FallbackShown DEF Spot
<1>3. OverRange(Shelf(g), <<Box(g, ref.inst), Spot(ref, w)>>) <=> Gone(ref, w)
  BY <1>1, OverShown DEF Gone
<1> QED BY <1>2, <1>3

\* A group's template has no bridges
LEMMA GroupEdgesAre ==
  ASSUME Settled, GroupsApart, NEW g \in Groups
  PROVE  GroupEdges(g) = UNION {InternalConnectEdges(grouped, H(g), j) : j \in DOMAIN Assembled(g).connects}
<1>1. Here(grouped, H(g)) = Assembled(g) /\ Here(grouped, H(g)).bridges = <<>>
  BY HereIs
<1>2. {InternalBridgeEdges(grouped, H(g), k) : k \in DOMAIN <<>>} = {}
  OBVIOUS
<1> QED BY <1>1, <1>2 DEF GroupEdges, SubEdges

\* The edge of one pair of a connect
InnerEdge(g, c, id, src, tgt, p) ==
  LET owner(ref) == IF ref.inst = NoInstance THEN H(g).path ELSE Append(H(g).path, ref.inst)
      out == src.port \o Suffix(p[1])
      in == tgt.port \o Suffix(p[2])
  IN Edge(id, "connect", InternalNode(grouped, H(g), c.source, out, "outputs", "inputs"), <<owner(c.source), out>>,
                         InternalNode(grouped, H(g), c.target, in, "inputs", "outputs"), <<owner(c.target), in>>)

\* The edges before they land, connect by connect
LEMMA EdgesInside ==
  ASSUME Settled, GroupsApart, NEW g \in Groups
  PROVE  LET src(c) == ResolvePortRange(grouped, H(g), c.source)
             tgt(c) == ResolvePortRange(grouped, H(g), c.target)
             pairs(c) == ElementsOf(ChannelPairs(c.mapping, src(c).channels, tgt(c).channels))
             conns == ElementsOf(Assembled(g).connects)
         IN /\ \A e \in GroupEdges(g) : \E c \in conns : \E p \in pairs(c) : \E id : e = InnerEdge(g, c, id, src(c), tgt(c), p)
            /\ \A c \in conns : \A p \in pairs(c) : \E id : InnerEdge(g, c, id, src(c), tgt(c), p) \in GroupEdges(g)
<1> DEFINE src(c) == ResolvePortRange(grouped, H(g), c.source)
           tgt(c) == ResolvePortRange(grouped, H(g), c.target)
           list(c) == ChannelPairs(c.mapping, src(c).channels, tgt(c).channels)
           conns == Assembled(g).connects
           EdgeOf(j, i) == InnerEdge(g, conns[j], <<"connect", Numeral[j], Numeral[i]>>, src(conns[j]), tgt(conns[j]), list(conns[j])[i])
<1>1. GroupEdges(g) = UNION {InternalConnectEdges(grouped, H(g), j) : j \in DOMAIN conns}
  BY GroupEdgesAre
<1>2. ASSUME NEW j \in DOMAIN conns
      PROVE  InternalConnectEdges(grouped, H(g), j) = {EdgeOf(j, i) : i \in DOMAIN list(conns[j])}
  <2>1. Here(grouped, H(g)).connects[j] = conns[j]
    BY HereIs
  <2> QED BY <2>1 DEF InternalConnectEdges, InnerEdge
<1> HIDE DEF src, tgt, list, conns
<1>3. ASSUME NEW e \in GroupEdges(g)
      PROVE  \E c \in ElementsOf(conns) : \E p \in ElementsOf(list(c)) : \E id : e = InnerEdge(g, c, id, src(c), tgt(c), p)
  <2>1. PICK j \in DOMAIN conns : e \in InternalConnectEdges(grouped, H(g), j)
    BY <1>1, <1>3
  <2>2. PICK i \in DOMAIN list(conns[j]) : e = EdgeOf(j, i)
    BY <1>2, <2>1
  <2>3. conns[j] \in ElementsOf(conns) /\ list(conns[j])[i] \in ElementsOf(list(conns[j]))
    BY DEF ElementsOf
  <2> QED BY <2>2, <2>3
<1>4. ASSUME NEW c \in ElementsOf(conns), NEW p \in ElementsOf(list(c))
      PROVE  \E id : InnerEdge(g, c, id, src(c), tgt(c), p) \in GroupEdges(g)
  <2>1. PICK j \in DOMAIN conns : c = conns[j]
    BY DEF ElementsOf
  <2>2. PICK i \in DOMAIN list(c) : p = list(c)[i]
    BY DEF ElementsOf
  <2>3. EdgeOf(j, i) \in InternalConnectEdges(grouped, H(g), j)
    BY <1>2, <2>1, <2>2
  <2>4. EdgeOf(j, i) \in GroupEdges(g)
    BY <1>1, <2>3
  <2> QED BY <2>1, <2>2, <2>4
<1> QED BY <1>3, <1>4 DEF src, tgt, list, conns

\* What becomes of the edge of a connect between two devices
LEMMA IntraLanded ==
  ASSUME Settled, GroupsApart, PortsApart(DOMAIN group_of), InsideNamesChannels, NEW g \in Groups,
         NEW c \in Intra(g), NEW p, NEW id, NEW e,
         e = InnerEdge(g, c, id, ResolvePortRange(grouped, H(g), c.source), ResolvePortRange(grouped, H(g), c.target), p)
  PROVE  /\ InnerLink(g, c, p, Landed(Shelf(g), e))
         /\ Stays(Shelf(g), Landed(Shelf(g), e)) <=> ~Gone(c.source, p[1]) /\ ~Gone(c.target, p[2])
<1> DEFINE s == c.source
           t == c.target
           out == s.port \o Suffix(p[1])
           in == t.port \o Suffix(p[2])
<1>1. /\ s.inst \in Held(g) /\ ResolvePortRange(grouped, H(g), s).port = s.port
      /\ t.inst \in Held(g) /\ ResolvePortRange(grouped, H(g), t).port = t.port
  <2>1. \A r \in {c.source, c.target} : r.inst \in Held(g) /\ ResolvePortRange(grouped, H(g), r) = [port |-> r.port, channels |-> FlattenOpt(r)]
    BY IntraResolves
  <2> QED BY <2>1
<1>2. s.inst # NoInstance /\ t.inst # NoInstance /\ H(g).path = Path(g)
  BY <1>1, HeldDevices, HereIs
<1>3. e = Edge(id, "connect", Box(g, s.inst), <<Box(g, s.inst), out>>, Box(g, t.inst), <<Box(g, t.inst), in>>)
  BY <1>1, <1>2 DEF InnerEdge, InternalNode, Box
<1>4. /\ Fallback(Shelf(g), Box(g, s.inst), <<Box(g, s.inst), out>>) = <<Box(g, s.inst), Spot(s, p[1])>>
      /\ Fallback(Shelf(g), Box(g, t.inst), <<Box(g, t.inst), in>>) = <<Box(g, t.inst), Spot(t, p[2])>>
      /\ OverRange(Shelf(g), <<Box(g, s.inst), Spot(s, p[1])>>) <=> Gone(s, p[1])
      /\ OverRange(Shelf(g), <<Box(g, t.inst), Spot(t, p[2])>>) <=> Gone(t, p[2])
  BY <1>1, DeviceEnd DEF Called
<1> DEFINE f == Landed(Shelf(g), e)
<1> HIDE DEF s, t, out, in
<1>5. /\ f.type = "connect" /\ f.sourceNode = Box(g, s.inst) /\ f.targetNode = Box(g, t.inst)
      /\ f.sourcePort = <<Box(g, s.inst), Spot(s, p[1])>> /\ f.targetPort = <<Box(g, t.inst), Spot(t, p[2])>>
  BY <1>3, <1>4, LandedIs
<1> HIDE DEF f
<1>6. Stays(Shelf(g), f) <=> ~Gone(s, p[1]) /\ ~Gone(t, p[2])
  BY <1>4, <1>5 DEF Stays
<1> QED BY <1>5, <1>6 DEF InnerLink, f, s, t

\* What becomes of the edge of a wire
LEMMA WireLanded ==
  ASSUME Settled, NoAutoCut, WholeFromOne, GroupsApart, TextsApart, PortsApart(DOMAIN group_of), NEW g \in Groups,
         NEW k \in ExposedBy(g), NEW w \in WireChannels(k), NEW id, NEW e,
         e = InnerEdge(g, Wiring(k), id, ResolvePortRange(grouped, H(g), Wiring(k).source),
                       ResolvePortRange(grouped, H(g), Wiring(k).target), <<w, w>>)
  PROVE  /\ WireLink(g, k, w, Landed(Shelf(g), e))
         /\ Stays(Shelf(g), Landed(Shelf(g), e)) <=> ~Gone(DevicePort(k), w)
<1>0. k \in DOMAIN exposed /\ group_of[k[1]] = g
  BY DEF ExposedBy
<1> DEFINE dref == DeviceRef(k)
           bref == BoundaryRef(k)
           in == Outer(k) \o Suffix(w)
           text == k[2] \o Suffix(w)
           n == k[1]
           dev == <<Box(g, n), text>>
           there == <<Box(g, n), Spot(DevicePort(k), w)>>
           rim == <<Path(g), in>>
<1>1. ResolvePortRange(grouped, H(g), dref).port = k[2] /\ ResolvePortRange(grouped, H(g), bref).port = Outer(k)
  BY DeviceResolves, BoundaryResolves
<1>2. dref.inst = n /\ bref.inst = NoInstance /\ n \in Held(g) /\ n # NoInstance /\ H(g).path = Path(g)
  BY <1>0, HeldIs, HeldDevices, HereIs DEF DeviceRef, BoundaryRef, Ref
<1>3. Wiring(k) = IF exposed[k].dir = "in" THEN [source |-> bref, target |-> dref, mapping |-> OneToOne]
                  ELSE [source |-> dref, target |-> bref, mapping |-> OneToOne]
  BY DEF Wiring, DeviceRef, BoundaryRef, Index
<1>4. /\ Fallback(Shelf(g), Box(g, n), dev) = there
      /\ OverRange(Shelf(g), there) <=> Gone(DevicePort(k), w)
  <2>1. DevicePort(k).inst = n /\ DevicePort(k).port = k[2]
    BY DEF DevicePort, Ref
  <2> QED BY <1>2, <2>1, DeviceEnd DEF Called
<1>5. w \in MaybeChannel /\ (w \in Channel \/ w \in BoundaryChannels(k))
  <2>1. CASE exposed[k].whole
    BY <1>0, <2>1, WiredIs DEF WireChannels
  <2>2. CASE ~exposed[k].whole
    <3>1. w \in Channel
      BY <1>0, <2>2, KeyTyped DEF WireChannels
    <3> QED BY <3>1, OneIsChannel
  <2> QED BY <2>1, <2>2
<1>6. ASSUME NEW face \in Faces PROVE Fallback(Shelf(g), Face(g, face), rim) = rim /\ ~ OverRange(Shelf(g), rim)
  BY <1>5, FaceChannel
<1>7. "inputs" \in Faces /\ "outputs" \in Faces /\ "inputs" # "outputs"
  BY DEF Faces
<1> DEFINE f == Landed(Shelf(g), e)
<1> HIDE DEF dref, bref, in, text, n, dev, there
<1>8. CASE exposed[k].dir = "in"
  <2> DEFINE node == InternalNode(grouped, H(g), bref, in, "outputs", "inputs")
  <2>1. Wiring(k).source = bref /\ Wiring(k).target = dref
    BY <1>3, <1>8
  <2>2. InternalNode(grouped, H(g), dref, text, "inputs", "outputs") = Box(g, n)
    BY <1>2 DEF InternalNode, Box
  <2>3. e = Edge(id, "connect", node, rim, Box(g, n), dev)
    BY <1>1, <1>2, <2>1, <2>2 DEF InnerEdge, Box, dev, in, text
  <2>4. RimNode(g, node, in)
    BY <1>2, <1>7, NodeOfRim
  <2> HIDE DEF node
  <2>5. PICK face \in Faces : node = Face(g, face)
    BY <2>4 DEF RimNode
  <2> HIDE DEF rim
  <2>6. /\ f.type = "connect" /\ f.sourceNode = node /\ f.targetNode = Box(g, n) /\ f.sourcePort = rim /\ f.targetPort = there
    BY <1>4, <1>6, <2>3, <2>5, LandedIs
  <2> HIDE DEF f
  <2>7. Stays(Shelf(g), f) <=> ~Gone(DevicePort(k), w)
    BY <1>4, <1>6, <1>7, <2>6 DEF Stays
  <2>8. WireLink(g, k, w, f)
    BY <1>8, <2>4, <2>6 DEF WireLink, Rim, rim, in, there, n
  <2> QED BY <2>7, <2>8 DEF f
<1>9. CASE exposed[k].dir # "in"
  <2> DEFINE node == InternalNode(grouped, H(g), bref, in, "inputs", "outputs")
  <2>1. Wiring(k).source = dref /\ Wiring(k).target = bref
    BY <1>3, <1>9
  <2>2. InternalNode(grouped, H(g), dref, text, "outputs", "inputs") = Box(g, n)
    BY <1>2 DEF InternalNode, Box
  <2>3. e = Edge(id, "connect", Box(g, n), dev, node, rim)
    BY <1>1, <1>2, <2>1, <2>2 DEF InnerEdge, Box, dev, in, text
  <2>4. RimNode(g, node, in)
    BY <1>2, <1>7, NodeOfRim
  <2> HIDE DEF node
  <2>5. PICK face \in Faces : node = Face(g, face)
    BY <2>4 DEF RimNode
  <2> HIDE DEF rim
  <2>6. /\ f.type = "connect" /\ f.targetNode = node /\ f.sourceNode = Box(g, n) /\ f.targetPort = rim /\ f.sourcePort = there
    BY <1>4, <1>6, <2>3, <2>5, LandedIs
  <2> HIDE DEF f
  <2>7. Stays(Shelf(g), f) <=> ~Gone(DevicePort(k), w)
    BY <1>4, <1>6, <1>7, <2>6 DEF Stays
  <2>8. WireLink(g, k, w, f)
    BY <1>9, <2>4, <2>6 DEF WireLink, Rim, rim, in, there, n
  <2> QED BY <2>7, <2>8 DEF f
<1> QED BY <1>8, <1>9

\* The pairs of a wire and of a cable inside
LEMMA WirePairs ==
  ASSUME Settled, NoAutoCut, WholeFromOne, GroupsApart, PortsApart(DOMAIN group_of), NEW g \in Groups, NEW k \in ExposedBy(g)
  PROVE  LET c == Wiring(k)
         IN ElementsOf(ChannelPairs(c.mapping, ResolvePortRange(grouped, H(g), c.source).channels,
                                    ResolvePortRange(grouped, H(g), c.target).channels)) = {<<w, w>> : w \in WireChannels(k)}
<1>0. k \in DOMAIN exposed
  BY DEF ExposedBy
<1> DEFINE c == Wiring(k)
<1>1. ResolvePortRange(grouped, H(g), DeviceRef(k)).channels = Wired(k) /\ ResolvePortRange(grouped, H(g), BoundaryRef(k)).channels = Wired(k)
  BY DeviceResolves, BoundaryResolves
<1>2. c = IF exposed[k].dir = "in" THEN [source |-> BoundaryRef(k), target |-> DeviceRef(k), mapping |-> OneToOne]
          ELSE [source |-> DeviceRef(k), target |-> BoundaryRef(k), mapping |-> OneToOne]
  BY DEF Wiring, DeviceRef, BoundaryRef, Index
<1>3. c.mapping = OneToOne /\ {c.source, c.target} = {DeviceRef(k), BoundaryRef(k)}
  BY <1>2
<1>4. Wired(k) \in Seq(MaybeChannel) /\ ElementsOf(Wired(k)) = WireChannels(k)
  BY <1>0, WiredIs
<1>5. ElementsOf(ChannelPairs(OneToOne, Wired(k), Wired(k))) = {<<w, w>> : w \in WireChannels(k)}
  BY <1>4, PairsOfOne
<1> HIDE DEF c
<1>6. ResolvePortRange(grouped, H(g), c.source).channels = Wired(k) /\ ResolvePortRange(grouped, H(g), c.target).channels = Wired(k)
  BY <1>1, <1>3
<1> QED BY <1>3, <1>5, <1>6 DEF c

\* A cable inside a group joins the same channels as at the top
LEMMA IntraPairs ==
  ASSUME Settled, GroupsApart, PortsApart(DOMAIN group_of), InsideNamesChannels, NEW g \in Groups, NEW c \in Intra(g)
  PROVE  ElementsOf(ChannelPairs(c.mapping, ResolvePortRange(grouped, H(g), c.source).channels,
                                 ResolvePortRange(grouped, H(g), c.target).channels)) = Pairs(c)
<1>1. \A r \in {c.source, c.target} : ResolvePortRange(grouped, H(g), r) = [port |-> r.port, channels |-> FlattenOpt(r)]
  BY IntraResolves
<1>2. /\ ResolvePortRange(grouped, H(g), c.source).channels = FlattenOpt(c.source)
      /\ ResolvePortRange(grouped, H(g), c.target).channels = FlattenOpt(c.target)
  BY <1>1
<1> QED BY <1>2 DEF Pairs

Scoped == Settled /\ InScope

\* The parts of the scope
LEMMA ScopedIs ==
  ASSUME Scoped
  PROVE  /\ Settled /\ InsideNamesChannels /\ CablesJoinDevices /\ NoAutoCut /\ WholeFromOne /\ WiredAsUsed /\ MappingsUncut
         /\ PortsApart(DOMAIN group_of) /\ GroupsApart /\ InnerApart /\ TextsApart
BY DEF Scoped, InScope, InScopeButInside

\* Every edge of a group's level is one of a cable inside it or of a wire
LEMMA GroupLevelEdges ==
  ASSUME Scoped, NEW g \in Groups, NEW f \in GroupLevel(g).edges
  PROVE  \/ \E c \in Intra(g) : \E p \in Pairs(c) : InnerLink(g, c, p, f) /\ ~Gone(c.source, p[1]) /\ ~Gone(c.target, p[2])
         \/ \E k \in ExposedBy(g) : \E w \in WireChannels(k) : WireLink(g, k, w, f) /\ ~Gone(DevicePort(k), w)
<1> DEFINE src(c) == ResolvePortRange(grouped, H(g), c.source)
           tgt(c) == ResolvePortRange(grouped, H(g), c.target)
           pairs(c) == ElementsOf(ChannelPairs(c.mapping, src(c).channels, tgt(c).channels))
           conns == ElementsOf(Assembled(g).connects)
<1>1. GroupLevel(g) = Finish(Path(g), Shelf(g), GroupEdges(g))
  BY ScopedIs, GroupLevelIs
<1>2. PICK e \in GroupEdges(g) : f = Landed(Shelf(g), e) /\ Stays(Shelf(g), f)
  BY <1>1, FinishIs
<1>3. \A x \in GroupEdges(g) : \E c \in conns : \E p \in pairs(c) : \E id : x = InnerEdge(g, c, id, src(c), tgt(c), p)
  BY ScopedIs, EdgesInside
<1>4. PICK c \in conns : \E p \in pairs(c) : \E id : e = InnerEdge(g, c, id, src(c), tgt(c), p)
  BY <1>2, <1>3
<1>5. PICK p \in pairs(c) : \E id : e = InnerEdge(g, c, id, src(c), tgt(c), p)
  BY <1>4
<1>6. PICK id : e = InnerEdge(g, c, id, src(c), tgt(c), p)
  BY <1>5
<1>7. conns = Intra(g) \cup {Wiring(k) : k \in ExposedBy(g)}
  BY ScopedIs, ConnectsInside
<1> HIDE DEF conns
<1>8. CASE c \in Intra(g)
  <2>1. p \in Pairs(c)
    BY <1>5, <1>8, ScopedIs, IntraPairs
  <2>2. /\ InnerLink(g, c, p, f)
        /\ Stays(Shelf(g), f) <=> ~Gone(c.source, p[1]) /\ ~Gone(c.target, p[2])
    BY <1>2, <1>6, <1>8, ScopedIs, IntraLanded
  <2> QED BY <1>2, <1>8, <2>1, <2>2
<1>9. CASE \E k \in ExposedBy(g) : c = Wiring(k)
  <2>1. PICK k \in ExposedBy(g) : c = Wiring(k)
    BY <1>9
  <2>2. pairs(Wiring(k)) = {<<w, w>> : w \in WireChannels(k)}
    BY ScopedIs, WirePairs
  <2>3. PICK w \in WireChannels(k) : p = <<w, w>>
    BY <1>5, <2>1, <2>2
  <2>4. /\ WireLink(g, k, w, f)
        /\ Stays(Shelf(g), f) <=> ~Gone(DevicePort(k), w)
    BY <1>2, <1>6, <2>1, <2>3, ScopedIs, WireLanded
  <2> QED BY <1>2, <2>4
<1> QED BY <1>4, <1>7, <1>8, <1>9

\* and every channel pair of such a cable that is not dropped is drawn
LEMMA IntraDrawn ==
  ASSUME Scoped, NEW g \in Groups, NEW c \in Intra(g), NEW p \in Pairs(c), ~Gone(c.source, p[1]), ~Gone(c.target, p[2])
  PROVE  \E f \in GroupLevel(g).edges : InnerLink(g, c, p, f)
<1> DEFINE src(x) == ResolvePortRange(grouped, H(g), x.source)
           tgt(x) == ResolvePortRange(grouped, H(g), x.target)
           pairs(x) == ElementsOf(ChannelPairs(x.mapping, src(x).channels, tgt(x).channels))
           conns == ElementsOf(Assembled(g).connects)
<1>1. GroupLevel(g) = Finish(Path(g), Shelf(g), GroupEdges(g))
  BY ScopedIs, GroupLevelIs
<1>2. \A x \in conns : \A q \in pairs(x) : \E id : InnerEdge(g, x, id, src(x), tgt(x), q) \in GroupEdges(g)
  BY ScopedIs, EdgesInside
<1>3. c \in conns /\ p \in pairs(c)
  BY ScopedIs, ConnectsInside, IntraPairs
<1> HIDE DEF conns, pairs
<1>4. PICK id : InnerEdge(g, c, id, src(c), tgt(c), p) \in GroupEdges(g)
  BY <1>2, <1>3
<1> DEFINE e == InnerEdge(g, c, id, src(c), tgt(c), p)
<1>5. /\ InnerLink(g, c, p, Landed(Shelf(g), e))
      /\ Stays(Shelf(g), Landed(Shelf(g), e)) <=> ~Gone(c.source, p[1]) /\ ~Gone(c.target, p[2])
  BY ScopedIs, IntraLanded
<1> HIDE DEF e
<1>6. Landed(Shelf(g), e) \in GroupLevel(g).edges
  BY <1>1, <1>4, <1>5, FinishIs DEF e
<1> QED BY <1>5, <1>6

\* as is every channel of a wire
LEMMA WireDrawn ==
  ASSUME Scoped, NEW g \in Groups, NEW k \in ExposedBy(g), NEW w \in WireChannels(k), ~Gone(DevicePort(k), w)
  PROVE  \E f \in GroupLevel(g).edges : WireLink(g, k, w, f)
<1> DEFINE src(x) == ResolvePortRange(grouped, H(g), x.source)
           tgt(x) == ResolvePortRange(grouped, H(g), x.target)
           pairs(x) == ElementsOf(ChannelPairs(x.mapping, src(x).channels, tgt(x).channels))
           conns == ElementsOf(Assembled(g).connects)
           c == Wiring(k)
           p == <<w, w>>
<1>1. GroupLevel(g) = Finish(Path(g), Shelf(g), GroupEdges(g))
  BY ScopedIs, GroupLevelIs
<1>2. \A x \in conns : \A q \in pairs(x) : \E id : InnerEdge(g, x, id, src(x), tgt(x), q) \in GroupEdges(g)
  BY ScopedIs, EdgesInside
<1>3. c \in conns
  BY ScopedIs, ConnectsInside
<1>4. pairs(c) = {<<v, v>> : v \in WireChannels(k)}
  BY ScopedIs, WirePairs
<1>5. p \in pairs(c)
  BY <1>4
<1> HIDE DEF conns, pairs
<1>6. PICK id : InnerEdge(g, c, id, src(c), tgt(c), p) \in GroupEdges(g)
  BY <1>2, <1>3, <1>5
<1> DEFINE e == InnerEdge(g, c, id, src(c), tgt(c), p)
<1>7. /\ WireLink(g, k, w, Landed(Shelf(g), e))
      /\ Stays(Shelf(g), Landed(Shelf(g), e)) <=> ~Gone(DevicePort(k), w)
  BY ScopedIs, WireLanded
<1> HIDE DEF e
<1>8. Landed(Shelf(g), e) \in GroupLevel(g).edges
  BY <1>1, <1>6, <1>7, FinishIs DEF e
<1> QED BY <1>7, <1>8

-----------------------------------------------------------------------------
(* The levels of a graph.                                                  *)

Deeper(p, f, d) == Entered(p, IF d = 0 THEN Outermost(p) ELSE UNION {Within(p, l) : l \in f[d - 1]})

\* The instances opened, depth by depth
LEMMA Deepening ==
  ASSUME NEW p, NEW N \in Nat
  PROVE  \E f : f = [d \in 0..N |-> Deeper(p, f, d)]
<1> DEFINE T == {n \in Nat : \E f : f = [d \in 0..n |-> Deeper(p, f, d)]}
<1>1. 0 \in T
  <2> DEFINE f == [d \in 0..0 |-> Entered(p, Outermost(p))]
  <2>1. \A d \in 0..0 : d = 0
    OBVIOUS
  <2>2. f = [d \in 0..0 |-> f[d]] /\ \A d \in 0..0 : f[d] = Deeper(p, f, d)
    BY <2>1 DEF Deeper
  <2> HIDE DEF f
  <2>3. f = [d \in 0..0 |-> Deeper(p, f, d)]
    BY <2>2
  <2>4. \E g : g = [d \in 0..0 |-> Deeper(p, g, d)]
    BY <2>3, Zenon
  <2> QED BY <2>4
<1>2. ASSUME NEW n \in Nat, n \in T PROVE n + 1 \in T
  <2>1. PICK f : f = [d \in 0..n |-> Deeper(p, f, d)]
    BY <1>2
  <2> DEFINE last == Deeper(p, f, n + 1)
             g == [d \in 0..n + 1 |-> IF d = n + 1 THEN last ELSE f[d]]
  <2>2. g = [d \in 0..n + 1 |-> g[d]] /\ g[n + 1] = last /\ \A d \in 0..n : g[d] = f[d]
    <3>1. n + 1 \in 0..n + 1 /\ \A d \in 0..n : d \in 0..n + 1 /\ d # n + 1
      OBVIOUS
    <3>2. g = [d \in 0..n + 1 |-> g[d]]
      OBVIOUS
    <3> HIDE DEF last
    <3> QED BY <3>1, <3>2
  <2>3. last = Deeper(p, f, n + 1)
    OBVIOUS
  <2> HIDE DEF g, last
  <2>4. \A d \in 0..n + 1 : (d = 0 \/ g[d - 1] = f[d - 1])
    <3>1. \A d \in 0..n + 1 : d = 0 \/ d - 1 \in 0..n
      OBVIOUS
    <3> QED BY <2>2, <3>1
  <2>5. \A d \in 0..n + 1 : Deeper(p, g, d) = Deeper(p, f, d)
    BY <2>4 DEF Deeper
  <2>6. \A d \in 0..n : f[d] = Deeper(p, f, d)
    BY <2>1
  <2>7. \A d \in 0..n + 1 : d \in 0..n \/ d = n + 1
    OBVIOUS
  <2>8. \A d \in 0..n + 1 : g[d] = Deeper(p, g, d)
    BY <2>2, <2>3, <2>5, <2>6, <2>7
  <2>9. g = [d \in 0..n + 1 |-> Deeper(p, g, d)]
    BY <2>2, <2>8
  <2>10. \E h : h = [d \in 0..n + 1 |-> Deeper(p, h, d)]
    BY <2>9, Zenon
  <2>11. n + 1 \in Nat
    OBVIOUS
  <2> QED BY <2>10, <2>11, Zenon
<1> HIDE DEF T
<1>3. N \in T
  BY <1>1, <1>2, FromZero
<1> QED BY <1>3 DEF T

\* as the compiler goes through them
LEMMA OpenedAtIs ==
  ASSUME NEW p, NEW N \in Nat
  PROVE  LET f == OpenedAt(p, N)
         IN /\ f[0] = Entered(p, Outermost(p))
            /\ \A d \in 1..N : f[d] = Entered(p, UNION {Within(p, l) : l \in f[d - 1]})
<1> DEFINE f == CHOOSE f : f = [d \in 0..N |-> Deeper(p, f, d)]
<1>1. OpenedAt(p, N) = f
  BY DEF OpenedAt, Deeper
<1>2. f = [d \in 0..N |-> Deeper(p, f, d)]
  BY Deepening, Zenon
<1> HIDE DEF f
<1>3. 0 \in 0..N /\ \A d \in 1..N : d \in 0..N /\ d # 0
  OBVIOUS
<1>4. f[0] = Deeper(p, f, 0) /\ \A d \in 1..N : f[d] = Deeper(p, f, d)
  BY <1>2, <1>3
<1> QED BY <1>1, <1>3, <1>4 DEF Deeper

\* What holds of the outermost instances, and passes to those within, holds of all that are opened
LEMMA EveryLevel ==
  ASSUME NEW p, NEW S, Cardinality(DOMAIN p.templates) \in Nat,
         Opened(p) \cap Entered(p, Outermost(p)) \subseteq S,
         \A l \in S : Opened(p) \cap Entered(p, Within(p, l)) \subseteq S
  PROVE  Opened(p) \subseteq S
<1> DEFINE N == Cardinality(DOMAIN p.templates)
           f == OpenedAt(p, N)
           T == {n \in Nat : n <= N => f[n] \subseteq S}
<1>1. N \in Nat /\ Opened(p) = UNION {f[d] : d \in 0..N}
  BY DEF Opened
<1>2. /\ f[0] = Entered(p, Outermost(p))
      /\ \A d \in 1..N : f[d] = Entered(p, UNION {Within(p, l) : l \in f[d - 1]})
  BY <1>1, OpenedAtIs
<1> HIDE DEF f, N
<1>3. 0 \in T
  <2>1. f[0] \subseteq Opened(p)
    BY <1>1
  <2> QED BY <1>2, <2>1
<1>4. ASSUME NEW n \in Nat, n \in T PROVE n + 1 \in T
  <2> SUFFICES ASSUME n + 1 <= N PROVE f[n + 1] \subseteq S
    OBVIOUS
  <2> SUFFICES ASSUME NEW m \in f[n + 1] PROVE m \in S
    OBVIOUS
  <2>1. n + 1 \in 1..N /\ n + 1 - 1 = n /\ n <= N /\ n + 1 \in 0..N
    BY <1>1
  <2>2. m \in Entered(p, UNION {Within(p, l) : l \in f[n]}) /\ f[n] \subseteq S
    BY <1>2, <1>4, <2>1
  <2>3. PICK l \in f[n] : m \in Within(p, l)
    BY <2>2 DEF Entered
  <2>4. m \in Entered(p, Within(p, l))
    BY <2>2, <2>3 DEF Entered
  <2>5. m \in Opened(p)
    BY <1>1, <2>1
  <2> QED BY <2>2, <2>3, <2>4, <2>5
<1> HIDE DEF T
<1>5. Nat \subseteq T
  BY <1>3, <1>4, FromZero
<1>6. \A d \in 0..N : f[d] \subseteq S
  BY <1>1, <1>5 DEF T
<1> QED BY <1>1, <1>6

\* Only finitely many instances are opened
LEMMA OpenedFinite ==
  ASSUME NEW p, Cardinality(DOMAIN p.templates) \in Nat, IsFiniteSet(Outermost(p)),
         \A l \in Opened(p) : IsFiniteSet(Within(p, l))
  PROVE  IsFiniteSet(Opened(p))
<1> DEFINE N == Cardinality(DOMAIN p.templates)
           f == OpenedAt(p, N)
           T == {n \in Nat : n <= N => IsFiniteSet(f[n])}
<1>1. N \in Nat /\ Opened(p) = UNION {f[d] : d \in 0..N}
  BY DEF Opened
<1>2. /\ f[0] = Entered(p, Outermost(p))
      /\ \A d \in 1..N : f[d] = Entered(p, UNION {Within(p, l) : l \in f[d - 1]})
  BY <1>1, OpenedAtIs
<1> HIDE DEF f, N
<1>3. 0 \in T
  <2>1. Entered(p, Outermost(p)) \in SUBSET Outermost(p)
    BY DEF Entered
  <2> QED BY <1>2, <2>1, FS_Subset
<1>4. ASSUME NEW n \in Nat, n \in T PROVE n + 1 \in T
  <2> SUFFICES ASSUME n + 1 <= N PROVE IsFiniteSet(f[n + 1])
    OBVIOUS
  <2>1. n + 1 \in 1..N /\ n + 1 - 1 = n /\ n <= N /\ n \in 0..N
    BY <1>1
  <2>2. IsFiniteSet(f[n]) /\ \A l \in f[n] : IsFiniteSet(Within(p, l))
    BY <1>1, <1>4, <2>1
  <2> DEFINE w == [l \in f[n] |-> Within(p, l)]
             R == {Within(p, l) : l \in f[n]}
  <2>3. (\A l \in f[n] : w[l] \in R) /\ \A r \in R : \E l \in f[n] : w[l] = r
    OBVIOUS
  <2>4. \A r \in R : IsFiniteSet(r)
    BY <2>2
  <2> HIDE DEF w, R
  <2>5. IsFiniteSet(R)
    BY <2>2, <2>3, ImageFinite
  <2>6. IsFiniteSet(UNION R)
    BY <2>4, <2>5, FS_UNION
  <2>7. f[n + 1] = Entered(p, UNION R)
    BY <1>2, <2>1 DEF R
  <2>8. f[n + 1] \in SUBSET (UNION R)
    BY <2>7 DEF Entered
  <2> QED BY <2>6, <2>8, FS_Subset
<1> HIDE DEF T
<1>5. Nat \subseteq T
  BY <1>3, <1>4, FromZero
<1> DEFINE R == {f[d] : d \in 0..N}
           F == [d \in 0..N |-> f[d]]
<1>6. \A r \in R : IsFiniteSet(r)
  BY <1>1, <1>5 DEF T
<1>7. (\A d \in 0..N : F[d] \in R) /\ \A r \in R : \E d \in 0..N : F[d] = r
  OBVIOUS
<1>8. IsFiniteSet(0..N)
  BY <1>1, FS_Interval
<1> HIDE DEF F, R
<1>9. IsFiniteSet(R)
  BY <1>7, <1>8, ImageFinite
<1>10. IsFiniteSet(UNION R)
  BY <1>6, <1>9, FS_UNION
<1> QED BY <1>1, <1>10 DEF R

\* The instances inside a group or a device
InnerNames == {i.name : i \in InnerInstances}
Lower(l) ==
  /\ l.template \notin {GroupTemplate(g) : g \in Groups}
  /\ l.path \in Seq(Text) /\ l.path # <<>>
  /\ \A g \in Groups : l.path # Path(g)
  /\ Last(l.path) \in Devices \cup InnerNames

\* What is inside a template of the program, in either program
LEMMA InsideTemplates ==
  ASSUME Settled, GroupsApart, NEW p \in {flat, grouped}, NEW t, t \notin {GroupTemplate(g) : g \in Groups}
  PROVE  /\ Lookup(p, t).instances \in Seq(ElementsOf(Lookup(p, t).instances))
         /\ ElementsOf(Lookup(p, t).instances) \subseteq InnerInstances
         /\ ElementsOf(Lookup(p, t).connects) \subseteq InnerConnects
<1> DEFINE T == Lookup(flat, t)
<1>1. Lookup(p, t) = T
  BY GroupedTemplates
<1>2. Reading
  BY SettledIs
<1>3. CASE t \in DOMAIN flat.templates
  <2>1. T = flat.templates[t] /\ TypedTemplate(T)
    BY <1>2, <1>3, ReadTyped DEF Lookup
  <2>2. T.instances \in Seq(ElementsOf(T.instances))
    BY <2>1 DEF TypedTemplate, TypedInstances
  <2>3. ElementsOf(T.instances) \subseteq InnerInstances /\ ElementsOf(T.connects) \subseteq InnerConnects
    BY <1>3, <2>1 DEF InnerInstances, InnerConnects
  <2> HIDE DEF T
  <2> QED BY <1>1, <2>2, <2>3
<1>4. CASE t \notin DOMAIN flat.templates
  <2>1. T.instances = <<>> /\ T.connects = <<>>
    BY <1>4 DEF Lookup, NoTemplate
  <2>2. ElementsOf(<<>>) = {} /\ <<>> \in Seq({})
    BY EmptySeq DEF ElementsOf
  <2>3. T.instances \in Seq(ElementsOf(T.instances)) /\ ElementsOf(T.instances) = {} /\ ElementsOf(T.connects) = {}
    BY <2>1, <2>2
  <2> HIDE DEF T
  <2> QED BY <1>1, <2>3
<1> QED BY <1>3, <1>4

\* The names of instances inside templates
LEMMA InnerTyped ==
  ASSUME Settled, NEW i \in InnerInstances
  PROVE  i.name \in Text
<1>1. PICK t \in DOMAIN flat.templates : i \in ElementsOf(flat.templates[t].instances)
  BY DEF InnerInstances
<1>2. TypedTemplate(flat.templates[t])
  BY SettledIs, ReadTyped
<1> QED BY <1>1, <1>2 DEF TypedTemplate, TypedInstances

\* One path after another
LEMMA Deeper1 ==
  ASSUME NEW path \in Seq(Text), path # <<>>, NEW name \in Text
  PROVE  /\ Append(path, name) \in Seq(Text) /\ Append(path, name) # <<>> /\ Last(Append(path, name)) = name
         /\ Len(Append(path, name)) >= 2 /\ Len(path) >= 1
<1>1. Len(path) \in Nat /\ Len(path) # 0
  BY EmptySeq, LenProperties
<1>2. /\ Append(path, name) \in Seq(Text) /\ Len(Append(path, name)) = Len(path) + 1
      /\ Append(path, name)[Len(path) + 1] = name
  BY AppendProperties
<1> QED BY <1>1, <1>2 DEF Last

\* A group's level is at the top
LEMMA PathIs ==
  ASSUME Settled, NEW g \in Groups
  PROVE  Path(g) \in Seq(Text) /\ Len(Path(g)) = 1 /\ Path(g) # <<>> /\ Last(Path(g)) = GroupInstance(g) /\ Path(g)[1] = GroupInstance(g)
<1>1. GroupInstance(g) \in Text
  <2>1. g \in Cluster
    BY SettledIs DEF TypeOK, Groups
  <2> QED BY <2>1, SanitizedTyped
<1> QED BY <1>1 DEF Path, Last

\* Whatever is opened below the root is a device, something inside one, or a group
LEMMA LowerPasses ==
  ASSUME Settled, GroupsApart, NEW p \in {flat, grouped}, NEW l, NEW path \in Seq(Text),
         path # <<>>, NEW i \in ElementsOf(flat.instances) \cup InnerInstances, NEW stack,
         l = Open(Append(path, i.name), i, stack)
  PROVE  Lower(l)
<1>1. i.name \in Text
  <2>1. CASE i \in InnerInstances
    BY <2>1, InnerTyped
  <2>2. CASE i \in ElementsOf(flat.instances)
    BY <2>2, SettledIs, ReadTyped DEF TypedInstances
  <2> QED BY <2>1, <2>2
<1>2. /\ l.path \in Seq(Text) /\ l.path # <<>> /\ Last(l.path) = i.name /\ Len(l.path) >= 2
      /\ l.template = i.template
  BY <1>1, Deeper1 DEF Open
<1>3. \A g \in Groups : l.path # Path(g)
  <2> TAKE g \in Groups
  <2>1. Len(Path(g)) = 1
    BY PathIs
  <2> SUFFICES ASSUME l.path = Path(g) PROVE FALSE
    OBVIOUS
  <2>2. Len(l.path) = 1
    BY <2>1
  <2> QED BY <1>2, <2>2
<1>4. \A g \in Groups : l.template # GroupTemplate(g)
  BY <1>2 DEF GroupsApart
<1>5. i.name \in Devices \cup InnerNames
  BY DEF InnerNames, Devices, InstanceNames
<1> QED BY <1>2, <1>3, <1>4, <1>5 DEF Lower

\* Below a level that is no group's there is none
LEMMA WithinLower ==
  ASSUME Settled, GroupsApart, NEW p \in {flat, grouped}, NEW l, Lower(l), NEW m \in Within(p, l)
  PROVE  Lower(m)
<1>1. PICK s \in Subs(p, l) : m = Open(Append(l.path, s.name), s, l.stack \cup {l.template})
  BY DEF Within
<1>2. s \in InnerInstances
  <2>1. l.template \notin {GroupTemplate(g) : g \in Groups}
    BY DEF Lower
  <2>2. ElementsOf(Lookup(p, l.template).instances) \subseteq InnerInstances
    BY <2>1, InsideTemplates
  <2> QED BY <1>1, <2>2 DEF Subs, Here
<1>3. l.path \in Seq(Text) /\ l.path # <<>>
  BY DEF Lower
<1> QED BY <1>1, <1>2, <1>3, LowerPasses

\* The level of a device at the top is none
LEMMA TopLower ==
  ASSUME Settled, GroupsApart, NEW i \in ElementsOf(flat.instances)
  PROVE  Lower(Open(<<i.name>>, i, {}))
<1> DEFINE l == Open(<<i.name>>, i, {})
<1>1. i.name \in Text /\ i.name \in Devices
  BY SettledIs, ReadTyped DEF TypedInstances, Devices, InstanceNames
<1>2. /\ l.path \in Seq(Text) /\ l.path # <<>> /\ Last(l.path) = i.name /\ l.path[1] = i.name
      /\ l.template = i.template
  BY <1>1 DEF Open, Last
<1>3. \A g \in Groups : l.path # Path(g)
  <2> TAKE g \in Groups
  <2>1. GroupInstance(g) \notin Devices
    BY DEF GroupsApart
  <2> QED BY <1>1, <1>2, <2>1, PathIs
<1>4. \A g \in Groups : l.template # GroupTemplate(g)
  BY <1>2 DEF GroupsApart
<1> QED BY <1>1, <1>2, <1>3, <1>4 DEF Lower

\* Both programs have finitely many templates
LEMMA TemplatesCounted ==
  ASSUME Settled, GroupsApart, NEW p \in {flat, grouped}
  PROVE  Cardinality(DOMAIN p.templates) \in Nat
<1>1. IsFiniteSet(DOMAIN p.templates)
  BY GroupedTemplates, SettledIs, ReadTyped
<1> QED BY <1>1, FS_CardinalityType

\* Below the root of the program
LEMMA OpenedFlat ==
  ASSUME Settled, GroupsApart, NEW l \in Opened(flat)
  PROVE  Lower(l)
<1> DEFINE S == {m \in Opened(flat) : Lower(m)}
<1>1. Opened(flat) \cap Entered(flat, Outermost(flat)) \subseteq S
  <2> SUFFICES ASSUME NEW m \in Outermost(flat) PROVE Lower(m)
    BY DEF Entered
  <2>1. PICK i \in ElementsOf(flat.instances) : m = Open(<<i.name>>, i, {})
    BY DEF Outermost
  <2> QED BY <2>1, TopLower
<1>2. ASSUME NEW k \in S PROVE Opened(flat) \cap Entered(flat, Within(flat, k)) \subseteq S
  <2>1. Lower(k)
    OBVIOUS
  <2> HIDE DEF S
  <2>2. \A m \in Within(flat, k) : Lower(m)
    BY <2>1, WithinLower
  <2> QED BY <2>2 DEF Entered, S
<1>3. Cardinality(DOMAIN flat.templates) \in Nat
  BY TemplatesCounted
<1> HIDE DEF S
<1>4. Opened(flat) \subseteq S
  BY <1>1, <1>2, <1>3, EveryLevel
<1> QED BY <1>4 DEF S

\* and of its contraction
LEMMA OpenedGrouped ==
  ASSUME Settled, GroupsApart, NEW l \in Opened(grouped)
  PROVE  Lower(l) \/ \E g \in Groups : l = H(g)
<1> DEFINE S == {m \in Opened(grouped) : Lower(m) \/ \E g \in Groups : m = H(g)}
<1>1. Opened(grouped) \cap Entered(grouped, Outermost(grouped)) \subseteq S
  <2> SUFFICES ASSUME NEW m \in Outermost(grouped) PROVE Lower(m) \/ \E g \in Groups : m = H(g)
    BY DEF Entered
  <2>1. PICK i \in ElementsOf(grouped.instances) : m = Open(<<i.name>>, i, {})
    BY DEF Outermost
  <2>2. i \in KeptOnTop \/ \E g \in Groups : i = GroupNode(g)
    BY <2>1, GroupedIs, TopInstancesAre
  <2>3. CASE i \in KeptOnTop
    BY <2>1, <2>3, TopLower DEF KeptOnTop
  <2>4. CASE \E g \in Groups : i = GroupNode(g)
    <3>1. PICK g \in Groups : i = GroupNode(g)
      BY <2>4
    <3>2. m = H(g)
      BY <2>1, <3>1 DEF H, GroupNode, Path
    <3> QED BY <3>2
  <2> QED BY <2>2, <2>3, <2>4
<1>2. ASSUME NEW k \in S PROVE Opened(grouped) \cap Entered(grouped, Within(grouped, k)) \subseteq S
  <2> SUFFICES ASSUME NEW m \in Within(grouped, k) PROVE Lower(m)
    BY DEF Entered
  <2>1. CASE Lower(k)
    <3> HIDE DEF S
    <3> QED BY <2>1, WithinLower
  <2>2. CASE \E g \in Groups : k = H(g)
    <3>1. PICK g \in Groups : k = H(g)
      BY <2>2
    <3>2. PICK s \in ElementsOf(InGroup(g)) : m = Open(Append(Path(g), s.name), s, k.stack \cup {k.template})
      <4>1. Here(grouped, H(g)).instances = InGroup(g) /\ H(g).path = Path(g)
        BY HereIs
      <4> QED BY <3>1, <4>1 DEF Within, Subs
    <3>3. s \in ElementsOf(flat.instances)
      BY <3>2, InGroupIs
    <3>4. Path(g) \in Seq(Text) /\ Path(g) # <<>>
      BY PathIs
    <3> HIDE DEF S
    <3> QED BY <3>2, <3>3, <3>4, LowerPasses
  <2> QED BY <2>1, <2>2
<1>3. Cardinality(DOMAIN grouped.templates) \in Nat
  BY TemplatesCounted
<1> HIDE DEF S
<1>4. Opened(grouped) \subseteq S
  BY <1>1, <1>2, <1>3, EveryLevel
<1> QED BY <1>4 DEF S

\* Every group has a level
LEMMA GroupOpened ==
  ASSUME Settled, GroupsApart, NEW g \in Groups
  PROVE  H(g) \in Opened(grouped)
<1> DEFINE N == Cardinality(DOMAIN grouped.templates)
           f == OpenedAt(grouped, N)
<1>1. N \in Nat /\ Opened(grouped) = UNION {f[d] : d \in 0..N}
  BY TemplatesCounted DEF Opened
<1>2. f[0] = Entered(grouped, Outermost(grouped))
  BY <1>1, OpenedAtIs
<1>3. H(g) \in Outermost(grouped)
  <2>1. GroupNode(g) \in ElementsOf(grouped.instances)
    BY GroupedIs, TopInstancesAre
  <2>2. H(g) = Open(<<GroupNode(g).name>>, GroupNode(g), {})
    BY DEF H, GroupNode, Path
  <2> QED BY <2>1, <2>2 DEF Outermost
<1>4. Drillable(grouped, H(g).template) /\ H(g).template \notin H(g).stack
  <2>1. H(g).template = GroupTemplate(g) /\ H(g).stack = {}
    BY HereIs
  <2>2. Lookup(grouped, GroupTemplate(g)).instances = InGroup(g)
    BY HereIs, <2>1 DEF Here
  <2>3. InGroup(g) # <<>>
    BY InGroupIs
  <2> QED BY <2>1, <2>2, <2>3 DEF Drillable
<1> HIDE DEF f, N
<1>5. 0 \in 0..N
  BY <1>1
<1> QED BY <1>1, <1>2, <1>3, <1>4, <1>5 DEF Entered

\* No two of them are taken for each other
LEMMA LevelOfPath ==
  ASSUME Settled, GroupsApart, NEW g \in Groups
  PROVE  /\ GroupLevel(g) \in GroupedGraph.inside /\ GroupLevel(g).path = Path(g)
         /\ \A l \in GroupedGraph.inside : l.path = Path(g) => l = GroupLevel(g)
         /\ GroupedGraph.inside = {SubLevel(grouped, l) : l \in Opened(grouped)}
<1>1. GroupedGraph.inside = {SubLevel(grouped, l) : l \in Opened(grouped)}
  BY SettledIs DEF CompileToGraph
<1>2. GroupLevel(g) \in GroupedGraph.inside
  BY <1>1, GroupOpened DEF GroupLevel
<1>3. \A l : SubLevel(grouped, l).path = l.path
  BY DEF SubLevel, Finish
<1>4. GroupLevel(g).path = Path(g)
  BY <1>3, HereIs DEF GroupLevel
<1>5. ASSUME NEW l \in Opened(grouped), l.path = Path(g) PROVE l = H(g)
  <2>1. PICK h \in Groups : l = H(h)
    BY <1>5, OpenedGrouped DEF Lower
  <2>2. Path(h) = Path(g)
    BY <1>5, <2>1, HereIs
  <2>3. GroupInstance(h) = GroupInstance(g)
    BY <2>2 DEF Path
  <2> QED BY <2>1, <2>3, GroupNames
<1> QED BY <1>1, <1>2, <1>3, <1>4, <1>5 DEF GroupLevel

-----------------------------------------------------------------------------
(* Exactly the channels that cross are wired.                              *)

\* A name's channel can be read from the name with the channel
LEMMA SameSuffix ==
  ASSUME NEW s \in Str, NEW v \in MaybeChannel, NEW w \in MaybeChannel, s \o Suffix(w) = s \o Suffix(v)
  PROVE  w = v
<1>1. Suffix(w) \in Str /\ Suffix(v) \in Str
  BY SuffixTyped
<1>2. Suffix(w) = Suffix(v)
  BY <1>1, CancelLeft
<1> QED BY <1>2, SuffixesDiffer

\* The names of an exposed port, outside and inside
LEMMA OuterTyped ==
  ASSUME Settled, NEW k \in DOMAIN exposed
  PROVE  Outer(k) \in Str /\ Outer(k) # <<>> /\ k[2] \in Str /\ k[2] # <<>>
<1>1. Outer(k) \in Text /\ k[2] \in Text
  BY KeyTyped DEF Outer
<1> QED BY <1>1, TextTyped DEF Text

\* Different wires end at different ports of the boundary
LEMMA SameRim ==
  ASSUME Settled, TextsApart, NEW g, NEW j \in ExposedBy(g), NEW k \in ExposedBy(g), NEW w \in MaybeChannel, NEW v \in MaybeChannel,
         Rim(g, j, w) = Rim(g, k, v)
  PROVE  j = k /\ w = v
<1>1. j \in DOMAIN exposed /\ k \in DOMAIN exposed /\ group_of[j[1]] = group_of[k[1]]
  BY DEF ExposedBy
<1>2. Suffix(w) \in Str /\ Suffix(v) \in Str /\ Outer(j) \in Str /\ Outer(k) \in Str /\ Outer(k) # <<>>
  BY <1>1, OuterTyped, SuffixTyped
<1>3. Outer(j) \o Suffix(w) = Outer(k) \o Suffix(v)
  BY DEF Rim
<1>4. IsPrefix(Outer(k) \o Suffix(v), Outer(j) \o Suffix(w))
  <2> DEFINE x == Outer(k) \o Suffix(v)
  <2>1. x \in Str /\ x \o <<>> = x /\ <<>> \in Str
    BY <1>2, ConcatProperties, ConcatEmptySeq, EmptySeq DEF Str
  <2> HIDE DEF x
  <2>2. IsPrefix(x, x)
    BY <2>1, PrefixOfJoined
  <2> QED BY <1>3, <2>2 DEF x
<1>5. j = k
  BY <1>1, <1>2, <1>4, OuterApart
<1> QED BY <1>2, <1>3, <1>5, SameSuffix

\* A ranged port shows the channels of its range
LEMMA RangedEnd ==
  ASSUME Settled, PortsApart(DOMAIN group_of), NEW k \in DOMAIN exposed, exposed[k].end # NoEnd
  PROVE  /\ FirstOf(DevicePort(k)) \in Channel /\ exposed[k].end \in Channel /\ FirstOf(DevicePort(k)) <= exposed[k].end
         /\ Ranges(E(k[1]), k[2], FirstOf(DevicePort(k))..exposed[k].end)
<1> DEFINE ref == DevicePort(k)
           d == LastNamed(OwnPorts(ref), ref.port)
<1>1. ref.inst = k[1] /\ ref.port = k[2] /\ k[1] \in Devices /\ k[1] \in DOMAIN group_of /\ exposed[k].end = PortEnd(ref) /\ Reading
  BY KeyTyped, SettledIs DEF DevicePort, Ref
<1> HIDE DEF ref
<1>2. Own(ref)
  BY <1>1 DEF PortEnd
<1>3. PortsApart({ref.inst})
  BY <1>1 DEF PortsApart
<1>4. /\ d.name = ref.port /\ TypedPort(d) /\ Ranges(E(ref.inst), ref.port, ChannelsOf(d))
      /\ (d.ranged => d.lo <= d.hi)
      /\ FirstOf(ref) = (IF d.ranged THEN d.lo ELSE 1) /\ PortEnd(ref) = (IF d.ranged THEN d.hi ELSE NoEnd)
  BY <1>1, <1>2, <1>3, OwnRanges
<1> HIDE DEF d
<1>5. d.ranged
  BY <1>1, <1>4
<1>6. ChannelsOf(d) = FirstOf(ref)..exposed[k].end /\ d.lo \in Channel /\ d.hi \in Channel
  BY <1>1, <1>4, <1>5 DEF ChannelsOf, TypedPort
<1> QED BY <1>1, <1>4, <1>5, <1>6 DEF ref

\* What a group wires of a ranged port, read from the edges of its level
LEMMA WiredExactly ==
  ASSUME Scoped, NEW k \in DOMAIN exposed, exposed[k].end # NoEnd,
         exposed[k].channels \cap 0..(FirstOf(DevicePort(k)) - 1) = {}
  PROVE  WiredChannels(k) = {ch \in FirstOf(DevicePort(k))..exposed[k].end : exposed[k].whole \/ ch \in exposed[k].channels}
<1> DEFINE g == group_of[k[1]]
           lo == FirstOf(DevicePort(k))
           hi == exposed[k].end
           edges == UNION {l.edges : l \in {l \in GroupedGraph.inside : l.path = Path(g)}}
           device(ch) == <<Box(g, k[1]), k[2] \o Suffix(ch)>>
<1>1. /\ Settled /\ NoAutoCut /\ WholeFromOne /\ PortsApart(DOMAIN group_of) /\ GroupsApart /\ TextsApart
  BY ScopedIs
<1>2. g \in Groups /\ k \in ExposedBy(g) /\ k[1] \in Held(g)
  BY <1>1, HeldIs
<1>3. lo \in Channel /\ hi \in Channel /\ lo <= hi /\ Ranges(E(k[1]), k[2], lo..hi)
  BY <1>1, RangedEnd
<1>4. WiredChannels(k) = {ch \in DOMAIN Numeral : \E e \in edges : {e.sourcePort, e.targetPort} = {device(ch), Rim(g, k, ch)}}
  BY DEF WiredChannels, Path, Box, Rim, Outer
<1>5. edges = GroupLevel(g).edges
  BY <1>1, <1>2, LevelOfPath
<1>6. DOMAIN Numeral = Channel /\ Channel \subseteq Nat
  BY NumeralsDiffer, OneIsChannel DEF Channel
<1>7. exposed[k].whole \in BOOLEAN /\ exposed[k].channels \subseteq Channel
  BY <1>1, KeyTyped
<1>8. exposed[k].whole => lo = 1 /\ BoundaryChannels(k) = 1..hi
  <2> SUFFICES ASSUME exposed[k].whole PROVE lo = 1 /\ BoundaryChannels(k) = 1..hi
    OBVIOUS
  <2>1. FirstOf(DevicePort(k)) = 1 /\ BoundaryChannels(k) = (IF exposed[k].end # NoEnd THEN 1..exposed[k].end ELSE {NoChannel})
    BY <1>1, WholeIs
  <2> QED BY <2>1
<1>9. DevicePort(k).inst = k[1] /\ DevicePort(k).port = k[2]
  BY DEF DevicePort, Ref
<1>10. \A ch \in Channel : Spot(DevicePort(k), ch) = k[2] \o Suffix(ch)
  <2> TAKE ch \in Channel
  <2>1. ch \in MaybeChannel
    BY OneIsChannel
  <2>2. Near(E(k[1]), k[2] \o Suffix(ch)) = k[2] \o Suffix(ch)
    BY <1>3, <2>1, NearChannel
  <2> QED BY <1>9, <2>2 DEF Spot, Called
<1>11. \A ch \in Channel : Gone(DevicePort(k), ch) <=> ch > hi
  <2> HIDE DEF lo, hi
  <2> TAKE ch \in Channel
  <2>1. Above(E(k[1]), k[2] \o Suffix(ch)) <=> ch \notin lo..hi /\ (lo..hi) \cap Channel # {} /\ \A d \in (lo..hi) \cap Channel : ch > d
    BY <1>3, AboveChannel
  <2>2. (lo..hi) \cap Channel = lo..hi
    <3>1. Channel = 0..(Modulus - 1) /\ Modulus \in Nat
      BY Width DEF Channel
    <3> QED BY <1>3, <3>1
  <2>3. hi \in lo..hi /\ ch \in Int
    BY <1>3, <1>6
  <2>4. Above(E(k[1]), k[2] \o Suffix(ch)) <=> ch > hi
    <3>1. \A d \in lo..hi : d <= hi /\ d \in Int
      BY <1>3, <1>6
    <3> QED BY <1>3, <1>6, <2>1, <2>2, <2>3, <3>1
  <2> QED BY <1>9, <1>10, <2>4 DEF Gone
<1>12. /\ \A ch \in MaybeChannel : device(ch)[1] # Path(g) /\ Rim(g, k, ch)[1] = Path(g)
       /\ \A n : Box(g, n) # Path(g)
  BY <1>1, <1>2, BoxesApart DEF Rim
<1>13. WireChannels(k) \subseteq MaybeChannel /\ \A j \in ExposedBy(g) : WireChannels(j) \subseteq MaybeChannel
  BY <1>1, <1>2, WiredIs DEF ExposedBy
<1> HIDE DEF edges, lo, hi
<1>14. ASSUME NEW ch \in lo..hi, exposed[k].whole \/ ch \in exposed[k].channels
      PROVE  ch \in Channel /\ \E e \in edges : {e.sourcePort, e.targetPort} = {device(ch), Rim(g, k, ch)}
  <2>1. ch \in Channel /\ ~(ch > hi)
    <3>1. Channel = 0..(Modulus - 1) /\ Modulus \in Nat
      BY Width DEF Channel
    <3> QED BY <1>3, <3>1
  <2>2. ch \in WireChannels(k)
    BY <1>8, <1>14 DEF WireChannels
  <2>3. ~Gone(DevicePort(k), ch)
    BY <1>11, <2>1
  <2> HIDE DEF g
  <2>4. PICK f \in GroupLevel(g).edges : WireLink(g, k, ch, f)
    BY <1>2, <2>2, <2>3, WireDrawn
  <2>5. Spot(DevicePort(k), ch) = k[2] \o Suffix(ch)
    BY <1>10, <2>1
  <2>6. {f.sourcePort, f.targetPort} = {device(ch), Rim(g, k, ch)}
    BY <2>4, <2>5 DEF WireLink
  <2> QED BY <1>5, <2>1, <2>6
<1>15. ASSUME NEW ch \in Channel, NEW e \in edges, {e.sourcePort, e.targetPort} = {device(ch), Rim(g, k, ch)}
      PROVE  ch \in lo..hi /\ (exposed[k].whole \/ ch \in exposed[k].channels)
  <2> HIDE DEF g
  <2>1. e \in GroupLevel(g).edges
    BY <1>5
  <2>2. ch \in MaybeChannel
    BY OneIsChannel
  <2>3. Rim(g, k, ch)[1] = Path(g) /\ (e.sourcePort = Rim(g, k, ch) \/ e.targetPort = Rim(g, k, ch))
    BY <1>12, <1>15, <2>2
  <2>4. PICK j \in ExposedBy(g) : \E w \in WireChannels(j) : WireLink(g, j, w, e) /\ ~Gone(DevicePort(j), w)
    <3>1. ASSUME NEW c \in Intra(g), NEW p \in Pairs(c), InnerLink(g, c, p, e) PROVE FALSE
      <4>1. e.sourcePort[1] = Box(g, c.source.inst) /\ e.targetPort[1] = Box(g, c.target.inst)
        BY <3>1 DEF InnerLink
      <4> QED BY <1>12, <2>3, <4>1
    <3> QED BY <1>2, <2>1, <3>1, GroupLevelEdges
  <2>5. PICK w \in WireChannels(j) : WireLink(g, j, w, e) /\ ~Gone(DevicePort(j), w)
    BY <2>4
  <2>6. Rim(g, j, w) = Rim(g, k, ch)
    <3>1. \/ e.sourcePort = Rim(g, j, w) /\ e.targetPort[1] = Box(g, j[1])
          \/ e.targetPort = Rim(g, j, w) /\ e.sourcePort[1] = Box(g, j[1])
      BY <2>5 DEF WireLink
    <3>2. Rim(g, j, w)[1] = Path(g)
      BY DEF Rim
    <3>3. device(ch)[1] # Path(g)
      BY <1>12, <2>2
    <3> HIDE DEF device
    <3> QED BY <1>12, <1>15, <2>3, <3>1, <3>2, <3>3
  <2>7. j = k /\ w = ch
    <3>1. w \in MaybeChannel
      BY <1>13
    <3> QED BY <1>1, <1>2, <2>2, <2>6, <3>1, SameRim
  <2>8. ch \in WireChannels(k) /\ ~(ch > hi)
    BY <1>11, <2>5, <2>7
  <2>9. CASE exposed[k].whole
    BY <1>8, <2>8, <2>9 DEF WireChannels
  <2>10. CASE ~exposed[k].whole
    <3>1. ch \in exposed[k].channels
      BY <2>8, <2>10 DEF WireChannels
    <3>2. ch \notin 0..(lo - 1)
      BY <3>1 DEF lo
    <3>3. ch \in Nat /\ lo \in Nat /\ hi \in Nat
      BY <1>3, <1>6
    <3> QED BY <2>8, <3>1, <3>2, <3>3
  <2> QED BY <1>7, <2>9, <2>10
<1>16. {ch \in Channel : \E e \in edges : {e.sourcePort, e.targetPort} = {device(ch), Rim(g, k, ch)}}
         = {ch \in lo..hi : exposed[k].whole \/ ch \in exposed[k].channels}
  <2> HIDE DEF g, device
  <2> QED BY <1>14, <1>15
<1> QED BY <1>4, <1>6, <1>16 DEF lo, hi

\* which is what BoundaryWired asks for
LEMMA WiredSettled == Graphed => BoundaryWired
<1> SUFFICES ASSUME Graphed, Done, InScope, NEW k \in DOMAIN exposed, exposed[k].end # NoEnd,
                    exposed[k].channels \cap 0..(FirstOf(DevicePort(k)) - 1) = {}
             PROVE  WiredChannels(k) = {ch \in FirstOf(DevicePort(k))..exposed[k].end : exposed[k].whole \/ ch \in exposed[k].channels}
  BY DEF BoundaryWired
<1>1. Scoped
  BY DEF Scoped, Settled
<1> QED BY <1>1, WiredExactly

-----------------------------------------------------------------------------
(* The origins of signals.                                                 *)

\* The ports that the nodes of a root show
LEMMA RootIds ==
  ASSUME NEW p, NEW id \in AllIds(RootNodes(p))
  PROVE  \E n \in InstanceNames(p) : id[1] = <<n>>
<1> DEFINE nodes == RootNodes(p)
           D == {<<name>> : name \in InstanceNames(p)}
           Of(m) == ExpandPorts(m, NodeDefinitions(p, LastNamed(p.instances, m[1])))
<1>1. nodes = [m \in D |-> Of(m)]
  BY DEF RootNodes
<1>2. PICK m \in DOMAIN nodes : id \in {Id(q) : q \in ElementsOf(nodes[m])}
  BY DEF AllIds
<1>3. m \in D /\ nodes[m] = Of(m)
  BY <1>1, <1>2
<1>4. PICK q \in ElementsOf(Of(m)) : id = Id(q)
  BY <1>2, <1>3
<1>5. \A j \in DOMAIN Of(m) : Of(m)[j].owner = m
  BY DEF ExpandPorts
<1> HIDE DEF Of
<1>6. id[1] = m
  BY <1>4, <1>5 DEF ElementsOf, Id
<1> QED BY <1>3, <1>6

\* The path of a member's box
LEMMA BoxIs ==
  ASSUME NEW g, NEW n
  PROVE  Path(g) \o <<n>> = Box(g, n)
<1> DEFINE S == {GroupInstance(g), n}
<1>1. Path(g) \in Seq(S) /\ n \in S
  BY DEF Path
<1> HIDE DEF S
<1> QED BY <1>1, AppendIsConcat DEF Box

\* A channel of a device that exists, and that a reference asks for, is wired
LEMMA AskedIsWired ==
  ASSUME Scoped, NEW r \in NotedRefs, NEW w \in ElementsOf(FlattenOpt(r)), NEW k, k = Key(r),
         Called(r, w) \in NamesOf(E(r.inst))
  PROVE  /\ k \in DOMAIN exposed /\ w \in WireChannels(k) /\ ~Gone(DevicePort(k), w) /\ Spot(DevicePort(k), w) = Called(r, w)
<1>1. Settled /\ NoAutoCut /\ WholeFromOne /\ PortsApart(DOMAIN group_of)
  BY ScopedIs
<1>2. TypedRef(r) /\ k \in DOMAIN exposed
  BY <1>1, NotedAre
<1>3. r.index \in Seq(Channel) /\ r.indexed \in BOOLEAN
  BY <1>2 DEF TypedRef
<1>4. w \in MaybeChannel
  <2>1. FlattenOpt(r) \in Seq(MaybeChannel)
    BY <1>2, FlattenTyped
  <2> QED BY <2>1, ElementOfSeq DEF ElementsOf
<1>5. k[1] = r.inst /\ k[2] = r.port /\ DevicePort(k).inst = r.inst /\ DevicePort(k).port = r.port
  BY DEF Key, DevicePort, Ref
<1>6. Called(DevicePort(k), w) = Called(r, w) /\ E(DevicePort(k).inst) = E(r.inst)
  BY <1>5 DEF Called
<1>7. Spot(DevicePort(k), w) = Called(r, w) /\ ~Gone(DevicePort(k), w)
  BY <1>6, NearThere, ThereNotAbove DEF Spot, Gone
<1>8. w \in WireChannels(k)
  <2>1. CASE exposed[k].whole
    <3>1. Ranges(E(k[1]), k[2], BoundaryChannels(k))
      BY <1>1, <1>2, <2>1, WholeIs
    <3>2. w \in BoundaryChannels(k)
      BY <1>4, <1>5, <3>1 DEF Ranges, Called
    <3> QED BY <2>1, <3>2 DEF WireChannels
  <2>2. CASE ~exposed[k].whole
    <3>1. r.indexed
      BY <1>1, <1>2, <1>3, <2>2, SettledIs DEF BoundaryExact
    <3>2. r.index # <<>>
      BY <1>1, <3>1 DEF NoAutoCut
    <3>3. w \in ElementsOf(r.index)
      BY <3>2 DEF FlattenOpt
    <3>4. w \in exposed[k].channels
      BY <1>1, <1>2, <3>3, SettledIs DEF BoundaryExact
    <3> QED BY <2>2, <3>4 DEF WireChannels
  <2> QED BY <2>1, <2>2
<1> QED BY <1>2, <1>7, <1>8

\* The port a signal shows as its origin
LEMMA OriginIs ==
  ASSUME Scoped, NEW i \in DOMAIN flat.signals, Len(flat.signals[i].origin.index) <= 1,
         OriginPort(flat.signals[i]) \in AllIds(FlatGraph.root.nodes)
  PROVE  LET before == OriginPort(flat.signals[i])
             after == OriginPort(grouped.signals[i])
             device == <<after[1] \o before[1], before[2]>>
         IN \/ after = before /\ before \in AllIds(GroupedGraph.root.nodes)
            \/ \E l \in GroupedGraph.inside :
                 l.path = after[1] /\ \E e \in l.edges : {e.sourcePort, e.targetPort} = {device, after}
<1> DEFINE r == flat.signals[i].origin
           s == grouped.signals[i].origin
           w == IF Len(r.index) = 1 THEN r.index[1] ELSE NoChannel
           before == OriginPort(flat.signals[i])
           after == OriginPort(grouped.signals[i])
<1>1. Settled /\ GroupsApart
  BY ScopedIs
<1>2. s = Shown(group_of, exposed, r)
  BY <1>1, GroupedIs, ListsAre
<1>3. TypedRef(r)
  BY <1>1, SettledIs, ReadTyped, ListsAre
<1>4. r = Ref(r.inst, r.port, r.indexed, r.index) /\ r.index \in Seq(Channel) /\ r.inst \in Text /\ r.port \in Text
  BY <1>3 DEF TypedRef
<1>5. before = RootId(r, w)
  BY DEF OriginPort
<1>6. s.index = r.index
  <2>1. CASE r.inst \in DOMAIN group_of
    <3>1. s = [r EXCEPT !.inst = GroupInstance(group_of[r.inst]), !.port = exposed[Key(r)].name]
      BY <1>2, <2>1 DEF Shown
    <3> HIDE DEF r
    <3> QED BY <1>4, <3>1 DEF Ref
  <2>2. CASE r.inst \notin DOMAIN group_of
    BY <1>2, <2>2 DEF Shown
  <2> QED BY <2>1, <2>2
<1>7. after = RootId(s, w)
  BY <1>6 DEF OriginPort
<1>8. w \in ElementsOf(FlattenOpt(r)) /\ w \in MaybeChannel
  <2> HIDE DEF r
  <2>1. Len(r.index) \in Nat /\ (Len(r.index) = 0 => r.index = <<>>) /\ DOMAIN r.index = 1..Len(r.index)
    BY <1>4, EmptySeq, LenProperties
  <2>2. CASE Len(r.index) = 1
    <3>1. 1 \in DOMAIN r.index /\ r.index # <<>>
      <4>1. DOMAIN r.index = 1..1
        BY <2>1, <2>2
      <4>2. 1 \in 1..1 /\ DOMAIN <<>> = {}
        BY EmptySeq
      <4> QED BY <4>1, <4>2
    <3>2. r.index[1] \in Channel
      BY <1>4, <3>1, ElementOfSeq
    <3> QED BY <2>2, <3>1, <3>2 DEF FlattenOpt, ElementsOf, MaybeChannel
  <2>3. CASE Len(r.index) # 1
    <3>1. Len(r.index) <= 1
      BY DEF r
    <3>2. Len(r.index) = 0
      <4> DEFINE l == Len(r.index)
      <4>1. l \in Nat /\ l # 1 /\ l <= 1
        BY <2>1, <2>3, <3>1
      <4> HIDE DEF l
      <4>2. l = 0
        BY <4>1
      <4> QED BY <4>2 DEF l
    <3>3. r.index = <<>>
      BY <2>1, <3>2
    <3>4. FlattenOpt(r) = <<NoChannel>> /\ ElementsOf(<<NoChannel>>) = {NoChannel}
      BY <3>3 DEF FlattenOpt, ElementsOf
    <3> QED BY <2>3, <3>4 DEF MaybeChannel
  <2> QED BY <2>2, <2>3
<1>9. FlatGraph.root.nodes = RootNodes(flat) /\ GroupedGraph.root.nodes = RootNodes(grouped)
  BY <1>1, SettledIs DEF CompileToGraph, Root, Finish
<1> HIDE DEF r, s, w, before, after
<1>10. before = <<<<r.inst>>, Called(r, w)>>
  BY <1>5 DEF RootId, Called
<1>11. before \in AllIds(RootNodes(flat))
  BY <1>9 DEF before
<1>12. r.inst \in Devices
  <2>1. PICK n \in InstanceNames(flat) : before[1] = <<n>>
    BY <1>11, RootIds
  <2> QED BY <1>10, <2>1 DEF Devices
<1>13. Called(r, w) \in NamesOf(E(r.inst))
  <2>1. Shows(RootNodes(flat), <<r.inst>>, E(r.inst))
    BY <1>1, <1>12, FlatShows
  <2> QED BY <1>10, <1>11, <2>1, IdsShown
<1>14. CASE r.inst \notin DOMAIN group_of
  <2>1. s = r
    BY <1>2, <1>14 DEF Shown
  <2>2. after = before
    BY <1>5, <1>7, <2>1
  <2>3. Shows(RootNodes(grouped), <<r.inst>>, E(r.inst))
    BY <1>1, <1>12, <1>14, TopShows
  <2>4. before \in AllIds(RootNodes(grouped))
    BY <1>10, <1>13, <2>3, IdsShown
  <2> QED BY <1>9, <2>2, <2>4 DEF before, after
<1>15. CASE r.inst \in DOMAIN group_of
  <2> DEFINE k == Key(r)
             g == group_of[r.inst]
  <2>1. r \in NotedRefs
    BY <1>1, <1>15, NotedAre DEF Grouped, r
  <2>2. k \in DOMAIN exposed /\ w \in WireChannels(k) /\ ~Gone(DevicePort(k), w) /\ Spot(DevicePort(k), w) = Called(r, w)
    BY <1>8, <1>13, <2>1, AskedIsWired
  <2>3. k[1] = r.inst
    BY DEF Key
  <2>4. g \in Groups /\ k \in ExposedBy(g)
    BY <1>1, <2>2, <2>3, HeldIs
  <2>5. after = Rim(g, k, w)
    <3>1. s = [r EXCEPT !.inst = GroupInstance(group_of[r.inst]), !.port = exposed[Key(r)].name]
      BY <1>2, <1>15 DEF Shown
    <3>2. s.inst = GroupInstance(g) /\ s.port = Outer(k)
      BY <1>4, <3>1 DEF Ref, Outer
    <3> QED BY <1>7, <3>2 DEF RootId, Rim, Path
  <2> HIDE DEF k, g
  <2>6. PICK f \in GroupLevel(g).edges : WireLink(g, k, w, f)
    BY <2>2, <2>4, WireDrawn
  <2>7. <<after[1] \o before[1], before[2]>> = <<Box(g, r.inst), Called(r, w)>>
    <3>1. after[1] = Path(g) /\ before[1] = <<r.inst>> /\ before[2] = Called(r, w)
      BY <1>10, <2>5 DEF Rim
    <3> QED BY <3>1, BoxIs
  <2>8. {f.sourcePort, f.targetPort} = {<<Box(g, r.inst), Called(r, w)>>, after}
    BY <2>2, <2>3, <2>5, <2>6 DEF WireLink
  <2>9. GroupLevel(g) \in GroupedGraph.inside /\ GroupLevel(g).path = Path(g)
    BY <1>1, <2>4, LevelOfPath
  <2>10. after[1] = Path(g)
    BY <2>5 DEF Rim
  <2>11. \E l \in GroupedGraph.inside :
           l.path = after[1] /\ \E e \in l.edges : {e.sourcePort, e.targetPort} = {<<after[1] \o before[1], before[2]>>, after}
    BY <2>7, <2>8, <2>9, <2>10
  <2> QED BY <2>11 DEF before, after
<1> QED BY <1>14, <1>15

\* which is unchanged, or wired to, as OriginsKept asks for
LEMMA OriginsSettled == Graphed => OriginsKept
<1> SUFFICES ASSUME Graphed, Done, InScope PROVE OriginsKept
  BY DEF OriginsKept
<1>1. Scoped
  BY DEF Scoped, Settled
<1> QED BY <1>1, OriginIs DEF OriginsKept

-----------------------------------------------------------------------------
(* The connects of a root, cable by cable.                                 *)

RootLink(c, q) ==
  Edge(ConnectId(c, q), "connect", <<c.source.inst>>, RootId(c.source, q[1]), <<c.target.inst>>, RootId(c.target, q[2]))

\* An edge at the root that stands for a channel pair of a cable
RootLanding(p, c, q, f) ==
  /\ f.type = "connect" /\ f.sourceNode = <<c.source.inst>> /\ f.targetNode = <<c.target.inst>>
  /\ f.sourcePort = Fallback(RootNodes(p), <<c.source.inst>>, RootId(c.source, q[1]))
  /\ f.targetPort = Fallback(RootNodes(p), <<c.target.inst>>, RootId(c.target, q[2]))

\* Where a cable's edges land
LEMMA LinkLands ==
  ASSUME NEW p, NEW c, NEW q
  PROVE  RootLanding(p, c, q, Landed(RootNodes(p), RootLink(c, q)))
BY LandedIs DEF RootLink, RootLanding

\* A cable's edges, pair by pair
LEMMA EdgesOfCable ==
  ASSUME NEW c
  PROVE  ConnectEdges(c) = {RootLink(c, q) : q \in Pairs(c)}
BY DEF ConnectEdges, RootLink, Pairs

\* Bridges and bridge groups make no connects
LEMMA OnlyCablesConnect ==
  ASSUME NEW p, TypedProgram(p), NEW j \in 1..Len(RootExpansions(p)), NEW e \in RootExpansions(p)[j], NEW nodes,
         Landed(nodes, e).type = "connect"
  PROVE  \E c \in ElementsOf(p.connects) : e \in ConnectEdges(c)
<1>1. ASSUME NEW b, e \in RootBridgeEdges(b) PROVE FALSE
  <2>1. PICK x \in BridgePairs(FlattenOpt(b.source), FlattenOpt(b.target)) :
          e = Edge((<<"bridge">> \o b.source.inst \o b.source.port) \o Suffix(x[1]) \o <<"to">> \o Suffix(x[2]), "bridge",
                   <<b.source.inst>>, <<<<b.source.inst>>, b.source.port \o Suffix(x[1])>>,
                   <<b.target.inst>>, <<<<b.target.inst>>, b.target.port \o Suffix(x[2])>>)
    BY <1>1 DEF RootBridgeEdges, BridgeEdges
  <2> QED BY <2>1, LandedIs
<1>2. ASSUME NEW g, e \in BridgeGroupEdges(g) PROVE FALSE
  <2>1. PICK k \in DOMAIN Fanned(g) :
          e = Edge(<<"bridge", "group">> \o g.target.inst \o g.target.port \o Suffix(k - 1), "bridge",
                   Fanned(g)[k][1], Fanned(g)[k],
                   <<g.target.inst>>, RootId(g.target, (FirstTarget(g) + k - 1) % Modulus))
    BY <1>2 DEF BridgeGroupEdges
  <2> QED BY <2>1, LandedIs
<1> QED BY <1>1, <1>2, Sorts

\* The nodes and edges of a root
LEMMA RootParts ==
  ASSUME NEW p
  PROVE  /\ Root(p).nodes = RootNodes(p) /\ Root(p).path = <<>>
         /\ \A f \in Root(p).edges : \E e \in RootEdges(p) : f = Landed(RootNodes(p), e) /\ Stays(RootNodes(p), f)
         /\ \A e \in RootEdges(p) : Stays(RootNodes(p), Landed(RootNodes(p), e)) => Landed(RootNodes(p), e) \in Root(p).edges
BY FinishIs DEF Root

\* Every connect of a root comes from a channel pair of a cable
LEMMA RootLinks ==
  ASSUME NEW p, TypedProgram(p), NEW f \in Root(p).edges, f.type = "connect"
  PROVE  \E c \in ElementsOf(p.connects) : \E q \in Pairs(c) : RootLanding(p, c, q, f) /\ Stays(RootNodes(p), f)
<1>1. PICK e \in RootEdges(p) : f = Landed(RootNodes(p), e) /\ Stays(RootNodes(p), f)
  BY RootParts
<1>2. PICK S : RootExpansions(p) \in Seq(S)
  BY RootExpanded
<1>3. PICK j \in 1..Len(RootExpansions(p)) : e \in RootExpansions(p)[j]
  <2>1. DOMAIN RootExpansions(p) = 1..Len(RootExpansions(p))
    BY <1>2, LenProperties
  <2> QED BY <1>1, <2>1 DEF RootEdges, Inserted
<1>4. PICK c \in ElementsOf(p.connects) : e \in ConnectEdges(c)
  BY <1>1, <1>3, OnlyCablesConnect
<1>5. PICK q \in Pairs(c) : e = RootLink(c, q)
  BY <1>4, EdgesOfCable
<1> QED BY <1>1, <1>5, LinkLands

\* and every such pair whose edge is not dropped makes one
LEMMA RootDrawn ==
  ASSUME NEW p, TypedProgram(p), EndsApart(ElementsOf(p.connects)), NEW c \in ElementsOf(p.connects), NEW q \in Pairs(c),
         \A f : RootLanding(p, c, q, f) => Stays(RootNodes(p), f)
  PROVE  \E f \in Root(p).edges : RootLanding(p, c, q, f)
<1> DEFINE sets == RootExpansions(p)
           e == RootLink(c, q)
<1>1. PICK S : sets \in Seq(S)
  BY RootExpanded
<1>2. e \in ConnectEdges(c)
  BY EdgesOfCable
<1>3. PICK k \in 1..Len(sets) : e \in sets[k]
  <2>1. PICK k \in DOMAIN p.connects : c = p.connects[k]
    BY DEF ElementsOf
  <2>2. /\ NC(p) \in Nat /\ NB(p) \in Nat /\ NG(p) \in Nat /\ DOMAIN p.connects = 1..NC(p)
        /\ Len(sets) = NC(p) + NB(p) + NG(p)
        /\ \A i \in 1..NC(p) : sets[i] = ConnectEdges(p.connects[i])
    BY RootExpanded
  <2> HIDE DEF sets, e
  <2>3. k \in 1..Len(sets) /\ sets[k] = ConnectEdges(c)
    BY <2>1, <2>2
  <2> QED BY <1>2, <2>3
<1>4. PICK j \in k..Len(sets) : \E h \in sets[j] : h.id = e.id /\ h \in Inserted(sets)
  <2> HIDE DEF sets, e
  <2> QED BY <1>1, <1>3, LastStays
<1>5. PICK h \in sets[j] : h.id = e.id /\ h \in Inserted(sets)
  BY <1>4
<1>6. j \in 1..Len(sets)
  <2>1. Len(sets) \in Nat
    BY <1>1, LenProperties
  <2> HIDE DEF sets
  <2> QED BY <1>3, <1>4, <2>1
<1>7. SamePorts(e, h) /\ \E d \in ElementsOf(p.connects) : h \in ConnectEdges(d)
  BY <1>2, <1>5, <1>6, ConnectTwin
<1>8. PICK d \in ElementsOf(p.connects) : h \in ConnectEdges(d)
  BY <1>7
<1>9. PICK r \in Pairs(d) : h = RootLink(d, r)
  BY <1>8, EdgesOfCable
<1>10. RootId(d.source, r[1]) = RootId(c.source, q[1]) /\ RootId(d.target, r[2]) = RootId(c.target, q[2])
  BY <1>7, <1>9 DEF SamePorts, RootLink, Edge
<1>11. d.source.inst = c.source.inst /\ d.target.inst = c.target.inst
  BY <1>10 DEF RootId
<1>12. RootLanding(p, c, q, Landed(RootNodes(p), h))
  <2>1. RootLanding(p, d, r, Landed(RootNodes(p), h))
    BY <1>9, LinkLands
  <2> QED BY <1>10, <1>11, <2>1 DEF RootLanding
<1>13. h \in RootEdges(p)
  BY <1>5 DEF RootEdges
<1> QED BY <1>12, <1>13, RootParts

-----------------------------------------------------------------------------
(* The two roots.                                                          *)

\* The node, the port and the fate a reference has in the contracted root
NodeOf(ref) == IF Grouped(ref) THEN Path(group_of[ref.inst]) ELSE <<ref.inst>>
PortOf(ref, w) ==
  IF Grouped(ref) THEN Near(B(group_of[ref.inst]), Outer(Key(ref)) \o Suffix(w)) ELSE Spot(ref, w)
Off(ref, w) == IF Grouped(ref) THEN Above(B(group_of[ref.inst]), PortOf(ref, w)) ELSE Gone(ref, w)

\* An edge for a channel pair of a cable, in the flat root and in the contracted one
FlatLink(c, q, f) ==
  /\ f.type = "connect"
  /\ f.sourceNode = <<c.source.inst>> /\ f.sourcePort = <<<<c.source.inst>>, Spot(c.source, q[1])>>
  /\ f.targetNode = <<c.target.inst>> /\ f.targetPort = <<<<c.target.inst>>, Spot(c.target, q[2])>>
TopLink(c, q, f) ==
  /\ f.type = "connect"
  /\ f.sourceNode = NodeOf(c.source) /\ f.sourcePort = <<NodeOf(c.source), PortOf(c.source, q[1])>>
  /\ f.targetNode = NodeOf(c.target) /\ f.targetPort = <<NodeOf(c.target), PortOf(c.target, q[2])>>

\* How a cut cable's end is written in the result
LEMMA ShownTyped ==
  ASSUME Settled, NEW c \in Cut, NEW r \in {c.source, c.target}
  PROVE  LET s == Shown(group_of, exposed, r)
         IN /\ TypedRef(s) /\ s.index = r.index /\ <<s.inst>> = NodeOf(r)
            /\ s.port = (IF Grouped(r) THEN Outer(Key(r)) ELSE r.port)
<1> DEFINE s == Shown(group_of, exposed, r)
<1>1. TypedRef(r)
  BY CableTyped DEF Cut
<1>2. CASE ~ Grouped(r)
  <2>1. s = r
    BY <1>2 DEF Shown, Grouped
  <2> QED BY <1>1, <1>2, <2>1 DEF NodeOf
<1>3. CASE Grouped(r)
  <2> DEFINE g == group_of[r.inst]
             k == Key(r)
  <2>1. k \in DOMAIN exposed
    BY <1>3, NotedAre
  <2>2. exposed[k].name \in Text /\ group_of[k[1]] \in Cluster
    BY <2>1, KeyTyped
  <2>3. k[1] = r.inst
    BY DEF Key
  <2>4. GroupInstance(g) \in Text
    BY <2>2, <2>3, SanitizedTyped
  <2>5. r = [inst |-> r.inst, port |-> r.port, indexed |-> r.indexed, index |-> r.index]
    BY <1>1 DEF TypedRef, Ref
  <2>6. s = [r EXCEPT !.inst = GroupInstance(g), !.port = exposed[k].name]
    BY <1>3 DEF Shown, Grouped
  <2> DEFINE i == GroupInstance(g)
             n == exposed[k].name
  <2>7. i \in Text /\ n \in Text /\ s = [r EXCEPT !.inst = i, !.port = n]
    BY <2>2, <2>4, <2>6
  <2> HIDE DEF i, n, s
  <2>8. s = [inst |-> i, port |-> n, indexed |-> r.indexed, index |-> r.index]
    BY <2>5, <2>7
  <2>9. TypedRef(s)
    BY <1>1, <2>7, <2>8 DEF TypedRef, Ref
  <2>10. s.index = r.index /\ s.inst = i /\ s.port = n
    BY <2>8
  <2> QED BY <1>3, <2>9, <2>10 DEF NodeOf, Path, i, n, s, Outer
<1> QED BY <1>2, <1>3

\* What the contraction makes of a program is a program
LEMMA GroupedTyped ==
  ASSUME Settled
  PROVE  TypedProgram(grouped)
<1>1. /\ grouped.connects = top_connects /\ grouped.bridges = flat.bridges /\ grouped.groups = flat.groups
      /\ top_connects \in Seq(ElementsOf(top_connects)) /\ ElementsOf(top_connects) = {Rewired(group_of, exposed, c) : c \in Cut}
  BY GroupedIs, ListsAre
<1>2. TypedProgram(flat)
  BY SettledIs, ProgramTyped
<1>3. ASSUME NEW d \in ElementsOf(top_connects) PROVE TypedRef(d.source) /\ TypedRef(d.target) /\ TypedMapping(d.mapping)
  <2>1. PICK c \in Cut : d = Rewired(group_of, exposed, c)
    BY <1>1
  <2>2. d.source = Shown(group_of, exposed, c.source) /\ d.target = Shown(group_of, exposed, c.target) /\ d.mapping = c.mapping
    BY <2>1 DEF Rewired
  <2>3. TypedMapping(c.mapping)
    BY CableTyped DEF Cut
  <2> QED BY <2>2, <2>3, ShownTyped
<1> QED BY <1>1, <1>2, <1>3 DEF TypedProgram

\* A rewired cable asks for the same channel pairs
LEMMA SamePairs ==
  ASSUME Settled, NEW c \in Cut
  PROVE  Pairs(Rewired(group_of, exposed, c)) = Pairs(c)
<1> DEFINE d == Rewired(group_of, exposed, c)
<1>1. d.source = Shown(group_of, exposed, c.source) /\ d.target = Shown(group_of, exposed, c.target) /\ d.mapping = c.mapping
  BY DEF Rewired
<1>2. d.source.index = c.source.index /\ d.target.index = c.target.index
  BY <1>1, ShownTyped
<1> HIDE DEF d
<1> QED BY <1>1, <1>2 DEF Pairs, FlattenOpt, d

\* Where an end lands in the flat root
LEMMA FlatEnd ==
  ASSUME Scoped, NEW c \in Cables, NEW r \in {c.source, c.target}, NEW w
  PROVE  LET there == <<<<r.inst>>, Spot(r, w)>>
         IN /\ Fallback(RootNodes(flat), <<r.inst>>, RootId(r, w)) = there
            /\ OverRange(RootNodes(flat), there) <=> Gone(r, w)
<1>1. r.inst \in Devices /\ Settled
  BY ScopedIs DEF CablesJoinDevices
<1>2. Shows(RootNodes(flat), <<r.inst>>, E(r.inst))
  BY <1>1, FlatShows
<1>3. Fallback(RootNodes(flat), <<r.inst>>, <<<<r.inst>>, Called(r, w)>>) = <<<<r.inst>>, Near(E(r.inst), Called(r, w))>>
  BY <1>2, FallbackShown
<1>4. OverRange(RootNodes(flat), <<<<r.inst>>, Spot(r, w)>>) <=> Above(E(r.inst), Spot(r, w))
  BY <1>2, OverShown
<1> QED BY <1>3, <1>4 DEF RootId, Called, Spot, Gone

\* The connect edges of the flat root are the cables' channel pairs that are not dropped
LEMMA FlatRoot ==
  ASSUME Scoped
  PROVE  /\ \A f \in Root(flat).edges : f.type = "connect" =>
              \E c \in Cables : \E q \in Pairs(c) : FlatLink(c, q, f) /\ ~Gone(c.source, q[1]) /\ ~Gone(c.target, q[2])
         /\ \A c \in Cables : \A q \in Pairs(c) : ~Gone(c.source, q[1]) /\ ~Gone(c.target, q[2]) =>
              \E f \in Root(flat).edges : FlatLink(c, q, f)
<1>1. TypedProgram(flat) /\ EndsApart(ElementsOf(flat.connects))
  BY ScopedIs, SettledIs, ProgramTyped DEF TextsApart, Cables
<1>2. ASSUME NEW c \in Cables, NEW q \in Pairs(c), NEW f
      PROVE  /\ RootLanding(flat, c, q, f) <=> FlatLink(c, q, f)
             /\ RootLanding(flat, c, q, f) => (Stays(RootNodes(flat), f) <=> ~Gone(c.source, q[1]) /\ ~Gone(c.target, q[2]))
  <2>1. /\ Fallback(RootNodes(flat), <<c.source.inst>>, RootId(c.source, q[1])) = <<<<c.source.inst>>, Spot(c.source, q[1])>>
        /\ OverRange(RootNodes(flat), <<<<c.source.inst>>, Spot(c.source, q[1])>>) <=> Gone(c.source, q[1])
    BY FlatEnd
  <2>2. /\ Fallback(RootNodes(flat), <<c.target.inst>>, RootId(c.target, q[2])) = <<<<c.target.inst>>, Spot(c.target, q[2])>>
        /\ OverRange(RootNodes(flat), <<<<c.target.inst>>, Spot(c.target, q[2])>>) <=> Gone(c.target, q[2])
    BY FlatEnd
  <2>3. RootLanding(flat, c, q, f) <=> FlatLink(c, q, f)
    BY <2>1, <2>2 DEF RootLanding, FlatLink
  <2> QED BY <2>1, <2>2, <2>3 DEF FlatLink, Stays
<1>3. ASSUME NEW f \in Root(flat).edges, f.type = "connect"
      PROVE  \E c \in Cables : \E q \in Pairs(c) : FlatLink(c, q, f) /\ ~Gone(c.source, q[1]) /\ ~Gone(c.target, q[2])
  <2>1. PICK c \in Cables : \E q \in Pairs(c) : RootLanding(flat, c, q, f) /\ Stays(RootNodes(flat), f)
    BY <1>1, <1>3, RootLinks DEF Cables
  <2> QED BY <1>2, <2>1
<1>4. ASSUME NEW c \in Cables, NEW q \in Pairs(c), ~Gone(c.source, q[1]), ~Gone(c.target, q[2])
      PROVE  \E f \in Root(flat).edges : FlatLink(c, q, f)
  <2>1. \A f : RootLanding(flat, c, q, f) => Stays(RootNodes(flat), f)
    BY <1>2, <1>4
  <2>2. c \in ElementsOf(flat.connects)
    BY DEF Cables
  <2>3. \E f \in Root(flat).edges : RootLanding(flat, c, q, f)
    BY <1>1, <2>1, <2>2, RootDrawn
  <2> QED BY <1>2, <2>3
<1> QED BY <1>3, <1>4

\* and in the contracted one
LEMMA TopEnd ==
  ASSUME Scoped, NEW c \in Cut, NEW r \in {c.source, c.target}, NEW w
  PROVE  LET there == <<NodeOf(r), PortOf(r, w)>>
             s == Shown(group_of, exposed, r)
         IN /\ Fallback(RootNodes(grouped), <<s.inst>>, RootId(s, w)) = there
            /\ OverRange(RootNodes(grouped), there) <=> Off(r, w)
<1> DEFINE s == Shown(group_of, exposed, r)
<1>1. r.inst \in Devices /\ Settled /\ GroupsApart
  BY ScopedIs DEF CablesJoinDevices, Cut
<1>2. <<s.inst>> = NodeOf(r) /\ s.port = (IF Grouped(r) THEN Outer(Key(r)) ELSE r.port)
  BY <1>1, ShownTyped
<1>3. RootId(s, w) = <<NodeOf(r), s.port \o Suffix(w)>>
  BY <1>2 DEF RootId
<1> HIDE DEF s
<1>4. CASE Grouped(r)
  <2> DEFINE g == group_of[r.inst]
             x == Outer(Key(r)) \o Suffix(w)
  <2>1. g \in Groups /\ NodeOf(r) = Path(g) /\ RootId(s, w) = <<Path(g), x>>
    BY <1>2, <1>3, <1>4 DEF Groups, Grouped, NodeOf
  <2>2. PortOf(r, w) = Near(B(g), x) /\ (Off(r, w) <=> Above(B(g), PortOf(r, w)))
    BY <1>4 DEF PortOf, Off
  <2> HIDE DEF g, x
  <2>3. Shows(RootNodes(grouped), Path(g), B(g))
    BY <1>1, <2>1, GroupShows DEF Path
  <2>4. Fallback(RootNodes(grouped), Path(g), <<Path(g), x>>) = <<Path(g), Near(B(g), x)>>
    BY <2>3, FallbackShown
  <2>5. OverRange(RootNodes(grouped), <<Path(g), PortOf(r, w)>>) <=> Above(B(g), PortOf(r, w))
    BY <2>3, OverShown
  <2> QED BY <1>2, <2>1, <2>2, <2>4, <2>5 DEF s
<1>5. CASE ~ Grouped(r)
  <2>1. NodeOf(r) = <<r.inst>> /\ PortOf(r, w) = Spot(r, w) /\ (Off(r, w) <=> Gone(r, w)) /\ RootId(s, w) = <<<<r.inst>>, Called(r, w)>>
    BY <1>2, <1>3, <1>5 DEF NodeOf, PortOf, Off, Called
  <2>2. Shows(RootNodes(grouped), <<r.inst>>, E(r.inst))
    BY <1>1, <1>5, TopShows DEF Grouped
  <2>3. Fallback(RootNodes(grouped), <<r.inst>>, <<<<r.inst>>, Called(r, w)>>) = <<<<r.inst>>, Near(E(r.inst), Called(r, w))>>
    BY <2>2, FallbackShown
  <2>4. OverRange(RootNodes(grouped), <<<<r.inst>>, Spot(r, w)>>) <=> Above(E(r.inst), Spot(r, w))
    BY <2>2, OverShown
  <2> QED BY <1>2, <2>1, <2>3, <2>4 DEF Spot, Gone, s
<1> QED BY <1>4, <1>5

\* The connect edges of the grouped root are the cut cables'
LEMMA GroupedRoot ==
  ASSUME Scoped
  PROVE  /\ \A f \in Root(grouped).edges : f.type = "connect" =>
              \E c \in Cut : \E q \in Pairs(c) : TopLink(c, q, f) /\ ~Off(c.source, q[1]) /\ ~Off(c.target, q[2])
         /\ \A c \in Cut : \A q \in Pairs(c) : ~Off(c.source, q[1]) /\ ~Off(c.target, q[2]) =>
              \E f \in Root(grouped).edges : TopLink(c, q, f)
<1>1. TypedProgram(grouped) /\ EndsApart(ElementsOf(grouped.connects)) /\ Settled
  BY ScopedIs, GroupedTyped DEF TextsApart
<1>2. ElementsOf(grouped.connects) = {Rewired(group_of, exposed, c) : c \in Cut}
  BY <1>1, GroupedIs, ListsAre
<1>3. ASSUME NEW c \in Cut, NEW d, d = Rewired(group_of, exposed, c), NEW q, NEW f
      PROVE  /\ RootLanding(grouped, d, q, f) <=> TopLink(c, q, f)
             /\ RootLanding(grouped, d, q, f) => (Stays(RootNodes(grouped), f) <=> ~Off(c.source, q[1]) /\ ~Off(c.target, q[2]))
  <2> DEFINE s == Shown(group_of, exposed, c.source)
             t == Shown(group_of, exposed, c.target)
  <2>1. d.source = s /\ d.target = t
    BY <1>3 DEF Rewired
  <2>2. <<s.inst>> = NodeOf(c.source) /\ <<t.inst>> = NodeOf(c.target)
    BY <1>1, ShownTyped
  <2>3. /\ Fallback(RootNodes(grouped), <<s.inst>>, RootId(s, q[1])) = <<NodeOf(c.source), PortOf(c.source, q[1])>>
        /\ OverRange(RootNodes(grouped), <<NodeOf(c.source), PortOf(c.source, q[1])>>) <=> Off(c.source, q[1])
    BY TopEnd
  <2>4. /\ Fallback(RootNodes(grouped), <<t.inst>>, RootId(t, q[2])) = <<NodeOf(c.target), PortOf(c.target, q[2])>>
        /\ OverRange(RootNodes(grouped), <<NodeOf(c.target), PortOf(c.target, q[2])>>) <=> Off(c.target, q[2])
    BY TopEnd
  <2> HIDE DEF s, t
  <2>5. RootLanding(grouped, d, q, f) <=> TopLink(c, q, f)
    BY <2>1, <2>2, <2>3, <2>4 DEF RootLanding, TopLink
  <2> QED BY <2>3, <2>4, <2>5 DEF TopLink, Stays
<1>4. ASSUME NEW f \in Root(grouped).edges, f.type = "connect"
      PROVE  \E c \in Cut : \E q \in Pairs(c) : TopLink(c, q, f) /\ ~Off(c.source, q[1]) /\ ~Off(c.target, q[2])
  <2>1. PICK d \in ElementsOf(grouped.connects) : \E q \in Pairs(d) : RootLanding(grouped, d, q, f) /\ Stays(RootNodes(grouped), f)
    BY <1>1, <1>4, RootLinks
  <2>2. PICK c \in Cut : d = Rewired(group_of, exposed, c)
    BY <1>2
  <2>3. PICK q \in Pairs(c) : RootLanding(grouped, d, q, f) /\ Stays(RootNodes(grouped), f)
    BY <1>1, <2>1, <2>2, SamePairs
  <2> QED BY <1>3, <2>2, <2>3
<1>5. ASSUME NEW c \in Cut, NEW q \in Pairs(c), ~Off(c.source, q[1]), ~Off(c.target, q[2])
      PROVE  \E f \in Root(grouped).edges : TopLink(c, q, f)
  <2> DEFINE d == Rewired(group_of, exposed, c)
  <2>1. d \in ElementsOf(grouped.connects) /\ q \in Pairs(d)
    BY <1>1, <1>2, SamePairs
  <2> HIDE DEF d
  <2>2. \A f : RootLanding(grouped, d, q, f) => Stays(RootNodes(grouped), f)
    BY <1>3, <1>5 DEF d
  <2>3. \E f \in Root(grouped).edges : RootLanding(grouped, d, q, f)
    BY <1>1, <2>1, <2>2, RootDrawn
  <2> QED BY <1>3, <2>3 DEF d
<1> QED BY <1>4, <1>5

-----------------------------------------------------------------------------
(* Where a reference meets the wires inside its group.                     *)

\* Either a reference to a grouped device finds, on the boundary, the port of the wire whose
\* device end is where it led before, or it names a channel neither has and is dropped in both
LEMMA CrossingIs ==
  ASSUME Scoped, NEW r \in NotedRefs, NEW w \in ElementsOf(FlattenOpt(r))
  PROVE  \/ Gone(r, w) /\ Off(r, w)
         \/ /\ ~Off(r, w)
            /\ \E v \in WireChannels(Key(r)) :
                 PortOf(r, w) = Outer(Key(r)) \o Suffix(v) /\ Spot(DevicePort(Key(r)), v) = Spot(r, w)
<1> DEFINE k == Key(r)
           g == group_of[r.inst]
           x == Outer(k) \o Suffix(w)
           C == BoundaryChannels(k)
<1>1. /\ Settled /\ TextsApart /\ NoAutoCut /\ WholeFromOne /\ PortsApart(DOMAIN group_of)
      /\ TypedRef(r) /\ Grouped(r) /\ k \in DOMAIN exposed
  BY ScopedIs, NotedAre
<1>2. k[1] = r.inst /\ k[2] = r.port
  BY DEF Key
<1>3. g \in Groups /\ k \in ExposedBy(g)
  BY <1>1, <1>2, HeldIs
<1>4. /\ exposed[k].channels \subseteq Channel /\ IsFiniteSet(exposed[k].channels)
      /\ r.indexed => ElementsOf(r.index) \subseteq exposed[k].channels
      /\ ~r.indexed => exposed[k].whole
  <2>1. BoundaryExact
    BY <1>1, SettledIs
  <2> QED BY <1>1, <2>1, KeyTyped DEF BoundaryExact
<1>5. Ranges(B(g), Outer(k), C)
  BY <1>1, <1>3, BoundaryRanges
<1>6. PortOf(r, w) = Near(B(g), x) /\ (Off(r, w) <=> Above(B(g), PortOf(r, w)))
  BY <1>1 DEF PortOf, Off
<1>7. \A v : Spot(DevicePort(k), v) = Near(E(k[1]), k[2] \o Suffix(v)) /\ Spot(r, v) = Near(E(k[1]), k[2] \o Suffix(v))
  BY <1>2 DEF Spot, Called, DevicePort, Ref
<1>8. CASE w \in Channel
  <2>1. Near(B(g), x) = x
    BY <1>5, <1>8, NearChannel, OneIsChannel
  <2>2. r.indexed /\ w \in exposed[k].channels
    <3>1. r.index # <<>>
      <4> SUFFICES ASSUME r.index = <<>> PROVE FALSE
        OBVIOUS
      <4>1. ElementsOf(FlattenOpt(r)) = {NoChannel}
        BY DEF FlattenOpt, ElementsOf
      <4> QED BY <1>8, <4>1, OneIsChannel
    <3>2. FlattenOpt(r) = r.index
      BY <3>1 DEF FlattenOpt
    <3> QED BY <1>1, <1>4, <3>1, <3>2 DEF TypedRef
  <2>3. CASE ~ exposed[k].whole
    <3>1. WireChannels(k) = exposed[k].channels
      BY <2>3 DEF WireChannels
    <3>2. C = 1..Highest(exposed[k].channels) /\ Highest(exposed[k].channels) \in Channel
             /\ \A c \in exposed[k].channels : c <= Highest(exposed[k].channels)
      <4>1. Highest(exposed[k].channels) \in exposed[k].channels /\ \A c \in exposed[k].channels : c <= Highest(exposed[k].channels)
        BY <1>4, <2>2, HighestIs
      <4>2. C = 1..Highest(exposed[k].channels)
        BY <2>3 DEF BoundaryChannels, ChannelsOf, BoundaryPort
      <4> QED BY <1>4, <4>1, <4>2
    <3> DEFINE h == Highest(exposed[k].channels)
    <3>3. w <= h /\ h \in Channel /\ C = 1..h
      BY <2>2, <3>2
    <3> HIDE DEF h, C, x, g, k
    <3>4. ~ (w \notin C /\ C \cap Channel # {} /\ \A d \in C \cap Channel : w > d)
      <4> SUFFICES ASSUME w \notin C, C \cap Channel # {}, \A d \in C \cap Channel : w > d PROVE FALSE
        OBVIOUS
      <4>1. Channel \subseteq Nat
        BY OneIsChannel
      <4>2. w \in Nat /\ h \in Nat
        BY <1>8, <3>3, <4>1
      <4>3. PICK d \in C : d \in Channel
        OBVIOUS
      <4>4. h >= 1
        BY <3>3, <4>2, <4>3
      <4>5. h \in C \cap Channel
        BY <3>3, <4>2, <4>4
      <4> QED BY <3>3, <4>2, <4>5
    <3>5. ~ Above(B(g), x)
      BY <1>5, <1>8, <3>4, AboveChannel DEF x
    <3> QED BY <1>6, <1>7, <2>1, <2>2, <3>1, <3>5 DEF x, k
  <2>4. CASE exposed[k].whole
    <3>1. w >= 1 /\ exposed[k].end # NoEnd
      BY <1>1, <2>2, <2>4 DEF WholeFromOne
    <3>2. /\ WireChannels(k) = C /\ C = 1..exposed[k].end /\ exposed[k].end >= 1 /\ exposed[k].end \in Channel
          /\ Ranges(E(k[1]), k[2], C)
      BY <1>1, <2>4, <3>1, WholeIs DEF WireChannels
    <3> DEFINE n == exposed[k].end
    <3>3. n \in Nat /\ w \in Nat /\ w >= 1 /\ n >= 1 /\ n \in Channel /\ C = 1..n
      BY <1>8, <3>1, <3>2, OneIsChannel
    <3> HIDE DEF n, C, x, g, k
    <3>4. CASE w \in C
      <4>1. x \in NamesOf(B(g))
        BY <1>5, <1>8, <3>4, OneIsChannel DEF Ranges, x
      <4>2. ~ Above(B(g), x)
        BY <4>1, ThereNotAbove
      <4> QED BY <1>6, <1>7, <2>1, <3>2, <3>4, <4>2 DEF x, k
    <3>5. CASE w \notin C
      <4>1. w > n
        BY <3>3, <3>5
      <4>2. w \notin C /\ C \cap Channel # {} /\ \A d \in C \cap Channel : w > d
        BY <3>3, <3>5, <4>1
      <4>3. Above(B(g), x)
        BY <1>5, <1>8, <4>2, AboveChannel DEF x
      <4>4. Near(E(k[1]), k[2] \o Suffix(w)) = k[2] \o Suffix(w) /\ Above(E(k[1]), k[2] \o Suffix(w))
        <5>1. Ranges(E(k[1]), k[2], C) /\ w \in MaybeChannel /\ w \in Channel
          BY <1>8, <3>2, OneIsChannel
        <5>2. Near(E(k[1]), k[2] \o Suffix(w)) = k[2] \o Suffix(w)
          BY <5>1, NearChannel
        <5>3. Above(E(k[1]), k[2] \o Suffix(w))
          BY <4>2, <5>1, AboveChannel
        <5> QED BY <5>2, <5>3
      <4>5. Gone(r, w)
        BY <1>2, <1>7, <4>4 DEF Gone, k
      <4> QED BY <1>6, <2>1, <4>3, <4>5
    <3> QED BY <3>4, <3>5
  <2> QED BY <2>3, <2>4
<1>9. CASE w \notin Channel
  <2>1. r.index = <<>> /\ w = NoChannel
    <3>1. CASE r.index # <<>>
      <4>1. FlattenOpt(r) = r.index /\ ElementsOf(r.index) \subseteq Channel
        BY <1>1, <3>1 DEF TypedRef, FlattenOpt, ElementsOf
      <4> QED BY <1>9, <4>1
    <3>2. CASE r.index = <<>>
      <4>1. ElementsOf(FlattenOpt(r)) = {NoChannel}
        BY <3>2 DEF FlattenOpt, ElementsOf
      <4> QED BY <3>2, <4>1
    <3> QED BY <3>1, <3>2
  <2>2. ~r.indexed /\ exposed[k].whole
    BY <1>1, <1>4, <2>1 DEF NoAutoCut
  <2>3. /\ WireChannels(k) = C /\ Ranges(E(k[1]), k[2], C)
        /\ C = (IF exposed[k].end # NoEnd THEN 1..exposed[k].end ELSE {NoChannel})
        /\ exposed[k].end # NoEnd => exposed[k].end >= 1 /\ exposed[k].end \in Channel
    BY <1>1, <2>2, WholeIs DEF WireChannels
  <2>4. NoChannel \in MaybeChannel /\ 1 \in MaybeChannel
    BY OneIsChannel DEF MaybeChannel
  <2> DEFINE n == exposed[k].end
  <2> HIDE DEF n, C, g, k, x
  <2>5. CASE n = NoEnd
    <3>1. C = {NoChannel}
      BY <2>3, <2>5 DEF n
    <3>2. x \in NamesOf(B(g))
      BY <1>5, <2>1, <2>4, <3>1 DEF Ranges, x
    <3>3. Near(B(g), x) = x /\ ~ Above(B(g), x)
      BY <3>2, NearThere, ThereNotAbove
    <3>4. w \in WireChannels(k)
      BY <2>1, <2>3, <3>1
    <3> QED BY <1>6, <1>7, <3>3, <3>4 DEF x, k
  <2>6. CASE n # NoEnd
    <3>1. n \in Nat /\ n >= 1 /\ C = 1..n
      BY <2>3, <2>6, OneIsChannel DEF n
    <3>2. 1 \in C /\ NoChannel \notin C
      <4>1. 1 \in C /\ -1 \notin C
        BY <3>1
      <4> QED BY <4>1 DEF NoChannel
    <3> DEFINE y == Outer(k) \o Suffix(1)
               z == k[2] \o Suffix(1)
    <3>3. Near(B(g), x) = y
      BY <1>5, <2>1, <3>2, NearWhole DEF x
    <3>4. y \in NamesOf(B(g))
      BY <1>5, <2>4, <3>2 DEF Ranges
    <3>5. ~ Above(B(g), y)
      BY <3>4, ThereNotAbove
    <3>6. Near(E(k[1]), k[2] \o Suffix(NoChannel)) = z
      BY <2>3, <3>2, NearWhole
    <3>7. z \in NamesOf(E(k[1]))
      BY <2>3, <2>4, <3>2 DEF Ranges
    <3>8. Near(E(k[1]), z) = z
      BY <3>7, NearThere
    <3>9. Spot(DevicePort(k), 1) = Spot(r, w)
      BY <1>7, <2>1, <3>6, <3>8
    <3>10. 1 \in WireChannels(k)
      BY <2>3, <3>2
    <3> QED BY <1>6, <3>3, <3>5, <3>9, <3>10 DEF k
  <2> QED BY <2>5, <2>6
<1> QED BY <1>8, <1>9

\* A device's end of a wire is dropped where the device drops what the reference led to
LEMMA SameGone ==
  ASSUME NEW r, NEW w, NEW v, Spot(DevicePort(Key(r)), v) = Spot(r, w)
  PROVE  Gone(DevicePort(Key(r)), v) <=> Gone(r, w)
<1>1. DevicePort(Key(r)).inst = r.inst
  BY DEF DevicePort, Key, Ref
<1> QED BY <1>1 DEF Gone

\* A cable without a mapping pairs the channels its two ends name
LEMMA PairsName ==
  ASSUME NEW c, TypedRef(c.source), TypedRef(c.target), c.mapping.kind = "default", NEW q \in Pairs(c)
  PROVE  q[1] \in ElementsOf(FlattenOpt(c.source)) /\ q[2] \in ElementsOf(FlattenOpt(c.target))
<1> DEFINE src == FlattenOpt(c.source)
           tgt == FlattenOpt(c.target)
           m == Len(src)
           n == Len(tgt)
<1>1. /\ m \in Nat /\ m >= 1 /\ DOMAIN src = 1..m
      /\ n \in Nat /\ n >= 1 /\ DOMAIN tgt = 1..n
  <2>1. ASSUME NEW r, TypedRef(r)
        PROVE  Len(FlattenOpt(r)) \in Nat /\ Len(FlattenOpt(r)) >= 1 /\ DOMAIN FlattenOpt(r) = 1..Len(FlattenOpt(r))
    <3>1. CASE r.index = <<>>
      BY <3>1 DEF FlattenOpt
    <3>2. CASE r.index # <<>>
      <4>1. FlattenOpt(r) = r.index /\ r.index \in Seq(Channel)
        BY <2>1, <3>2 DEF FlattenOpt, TypedRef
      <4> DEFINE s == r.index
      <4> HIDE DEF s
      <4>2. s \in Seq(Channel) /\ s # <<>>
        BY <3>2, <4>1 DEF s
      <4>3. Len(s) \in Nat /\ Len(s) >= 1 /\ DOMAIN s = 1..Len(s)
        BY <4>2, EmptySeq, LenProperties
      <4> QED BY <4>1, <4>3 DEF s
    <3> QED BY <3>1, <3>2
  <2> QED BY <2>1
<1>2. \A i \in 1..Larger(m, n) :
        (Broadcast(src, i) \in ElementsOf(src) /\ Broadcast(tgt, i) \in ElementsOf(tgt)) \/ (m > 1 /\ n > 1 /\ m # n)
  <2> HIDE DEF src, tgt, m, n
  <2> SUFFICES ASSUME NEW i \in 1..Larger(m, n), ~ (m > 1 /\ n > 1 /\ m # n)
               PROVE  Broadcast(src, i) \in ElementsOf(src) /\ Broadcast(tgt, i) \in ElementsOf(tgt)
    OBVIOUS
  <2>1. (IF m > 1 THEN i ELSE 1) \in 1..m /\ (IF n > 1 THEN i ELSE 1) \in 1..n
    BY <1>1 DEF Larger
  <2>2. Broadcast(src, i) = src[IF m > 1 THEN i ELSE 1] /\ Broadcast(tgt, i) = tgt[IF n > 1 THEN i ELSE 1]
    BY DEF Broadcast, m, n
  <2> QED BY <1>1, <2>1, <2>2 DEF ElementsOf
<1>3. q \in ElementsOf(ChannelPairs(c.mapping, src, tgt))
  BY DEF Pairs
<1> HIDE DEF src, tgt
<1>4. CASE m > 1 /\ n > 1 /\ m # n
  <2>1. ChannelPairs(c.mapping, src, tgt) = <<>>
    BY <1>4 DEF ChannelPairs
  <2> QED BY <1>3, <2>1 DEF ElementsOf
<1>5. CASE ~ (m > 1 /\ n > 1 /\ m # n)
  <2>1. ChannelPairs(c.mapping, src, tgt) = [i \in 1..Larger(m, n) |-> <<Broadcast(src, i), Broadcast(tgt, i)>>]
    BY <1>5 DEF ChannelPairs
  <2>2. PICK i \in 1..Larger(m, n) : q = <<Broadcast(src, i), Broadcast(tgt, i)>>
    BY <1>3, <2>1 DEF ElementsOf
  <2> QED BY <1>2, <1>5, <2>2 DEF src, tgt
<1> QED BY <1>4, <1>5

-----------------------------------------------------------------------------
(* The levels inside the templates of the program.                         *)

\* The fallback changes the name of a port, never its owner
LEMMA FallbackKeeps ==
  ASSUME NEW nodes, NEW n, NEW id
  PROVE  Fallback(nodes, n, id)[1] = id[1]
<1> DEFINE guesses == <<<<id[1], id[2] \o Suffix(1)>>, <<id[1], id[2] \o (<<"In">> \o Suffix(1))>>,
                        <<id[1], id[2] \o (<<"Out">> \o Suffix(1))>>>>
           hits == {k \in DOMAIN guesses : guesses[k] \in AllIds(nodes)}
           ports == IF n \in DOMAIN nodes THEN nodes[n] ELSE <<>>
           longer == {k \in DOMAIN ports : ports[k].owner = id[1] /\ Extends(ports[k].name, id[2])}
           there == FirstAt(ports, longer).name
<1>1. \A k \in DOMAIN guesses : guesses[k][1] = id[1]
  OBVIOUS
<1>2. hits # {} => FirstAt(guesses, hits)[1] = id[1]
  <2> SUFFICES ASSUME hits # {} PROVE FirstAt(guesses, hits)[1] = id[1]
    OBVIOUS
  <2>1. hits \subseteq DOMAIN guesses /\ DOMAIN guesses = 1..3
    OBVIOUS
  <2>2. hits \subseteq Nat
    BY <2>1
  <2> HIDE DEF hits, guesses
  <2>3. PICK k \in hits : FirstAt(guesses, hits) = guesses[k]
    BY <2>2, FirstAtIs
  <2> QED BY <1>1, <2>1, <2>3
<1>3. Fallback(nodes, n, id) =
        CASE id \in AllIds(nodes) -> id
          [] id \notin AllIds(nodes) /\ hits # {} -> FirstAt(guesses, hits)
          [] id \notin AllIds(nodes) /\ hits = {} /\ longer # {} -> <<id[1], there>>
          [] OTHER -> id
  BY DEF Fallback
<1> HIDE DEF guesses, hits, longer, there
<1>4. CASE id \in AllIds(nodes)
  BY <1>3, <1>4
<1>5. CASE id \notin AllIds(nodes) /\ hits # {}
  BY <1>2, <1>3, <1>5
<1>6. CASE id \notin AllIds(nodes) /\ hits = {} /\ longer # {}
  BY <1>3, <1>6
<1>7. CASE id \notin AllIds(nodes) /\ hits = {} /\ longer = {}
  BY <1>3, <1>7
<1> QED BY <1>4, <1>5, <1>6, <1>7

\* A place that is neither a device nor the port of a group
Aside(node, id) ==
  /\ node # <<>> /\ Last(node) \notin Devices
  /\ \A g \in Groups : id[1] # Path(g)

\* The last name of a longer path
LEMMA LastAppended ==
  ASSUME NEW path \in Seq(Text), path # <<>>, NEW x
  PROVE  /\ Append(path, x) # <<>> /\ Last(Append(path, x)) = x /\ Len(Append(path, x)) >= 2
<1> DEFINE S == Text \cup {x}
<1>1. path \in Seq(S) /\ x \in S
  OBVIOUS
<1>2. Len(path) \in Nat /\ Len(path) >= 1
  BY EmptySeq, LenProperties
<1> HIDE DEF S
<1>3. Append(path, x) \in Seq(S) /\ Append(path, x) # <<>> /\ Len(Append(path, x)) = Len(path) + 1
        /\ Append(path, x)[Len(path) + 1] = x
  BY <1>1, AppendProperties
<1> QED BY <1>2, <1>3 DEF Last

\* The last name of a face
LEMMA PseudoIs ==
  ASSUME NEW path \in Seq(Text), path # <<>>, NEW face
  PROVE  Pseudo(path, face) # <<>> /\ Last(Pseudo(path, face)) = Append(Last(path), face)
<1>1. Len(path) \in Nat /\ Len(path) >= 1 /\ DOMAIN path = 1..Len(path)
  BY EmptySeq, LenProperties
<1> DEFINE n == Len(path)
           x == Append(path[n], face)
           S == Text \cup {x}
           s == [path EXCEPT ![n] = x]
<1>2. Pseudo(path, face) = s /\ Last(path) = path[n]
  BY DEF Pseudo, Last
<1> HIDE DEF n, x
<1>3. n \in Nat /\ n >= 1 /\ DOMAIN path = 1..n /\ path \in Seq(Text)
  BY <1>1 DEF n
<1>4. path \in [1..n -> S]
  <2>1. path = [i \in 1..n |-> path[i]] /\ \A i \in 1..n : path[i] \in S
    BY <1>3, ElementOfSeq DEF n
  <2> QED BY <2>1
<1>5. s \in [1..n -> S] /\ s[n] = x
  BY <1>3, <1>4
<1>6. s \in Seq(S) /\ Len(s) = n
  <2> HIDE DEF s, S
  <2> QED BY <1>3, <1>5
<1> HIDE DEF s, S
<1>7. Last(s) = x
  BY <1>5, <1>6 DEF Last
<1>8. s # <<>>
  BY <1>3, <1>6, EmptySeq
<1> QED BY <1>2, <1>7, <1>8 DEF x

\* Connects inside a template of the program lead from such a place to such a place
LEMMA LowerEdges ==
  ASSUME Scoped, NEW p \in {flat, grouped}, NEW l, Lower(l), NEW f \in SubLevel(p, l).edges, f.type = "connect"
  PROVE  Aside(f.sourceNode, f.sourcePort) /\ Aside(f.targetNode, f.targetPort)
<1>1. /\ Settled /\ GroupsApart /\ InnerApart
      /\ l.template \notin {GroupTemplate(g) : g \in Groups}
      /\ l.path \in Seq(Text) /\ l.path # <<>> /\ Last(l.path) \in Devices \cup InnerNames
      /\ \A g \in Groups : l.path # Path(g)
  BY ScopedIs DEF Lower
<1> DEFINE nodes == SlotShapes(p, l, SubNodes(p, l), SubEdges(p, l))
<1>2. PICK e \in SubEdges(p, l) : f = Landed(nodes, e)
  <2>1. SubLevel(p, l) = Finish(l.path, nodes, SubEdges(p, l))
    BY DEF SubLevel
  <2> HIDE DEF nodes
  <2> QED BY <2>1, FinishIs
<1> HIDE DEF nodes
<1>3. PICK k \in DOMAIN Here(p, l).connects : e \in InternalConnectEdges(p, l, k)
  <2>1. ASSUME NEW k, e \in InternalBridgeEdges(p, l, k) PROVE FALSE
    <3>1. \E id : \E out : \E outId : \E in : \E inId : e = Edge(id, "bridge", out, outId, in, inId)
      BY <2>1 DEF InternalBridgeEdges, BridgeEdges
    <3> QED BY <1>2, <3>1, LandedIs
  <2> QED BY <1>2, <2>1 DEF SubEdges
<1> DEFINE c == Here(p, l).connects[k]
           owner(ref) == IF ref.inst = NoInstance THEN l.path ELSE Append(l.path, ref.inst)
<1>4. c \in InnerConnects
  <2>1. ElementsOf(Lookup(p, l.template).connects) \subseteq InnerConnects
    BY <1>1, InsideTemplates
  <2> QED BY <1>3, <2>1 DEF Here, ElementsOf
<1>5. \E id : \E x : \E y :
        e = Edge(id, "connect", InternalNode(p, l, c.source, x, "outputs", "inputs"), <<owner(c.source), x>>,
                                InternalNode(p, l, c.target, y, "inputs", "outputs"), <<owner(c.target), y>>)
  BY <1>3 DEF InternalConnectEdges
<1> HIDE DEF c
<1>6. ASSUME NEW ref \in {c.source, c.target}, NEW x, NEW y, NEW face \in Faces, NEW otherwise \in Faces
      PROVE  Aside(InternalNode(p, l, ref, x, face, otherwise), Fallback(nodes, InternalNode(p, l, ref, x, face, otherwise), <<owner(ref), y>>))
  <2> DEFINE n == InternalNode(p, l, ref, x, face, otherwise)
             id == Fallback(nodes, n, <<owner(ref), y>>)
  <2>1. id[1] = owner(ref)
    BY FallbackKeeps
  <2>2. \A g \in Groups : owner(ref) # Path(g)
    <3> TAKE g \in Groups
    <3>1. Len(Append(l.path, ref.inst)) >= 2 /\ Len(Path(g)) = 1
      BY <1>1, LastAppended, PathIs
    <3>2. Append(l.path, ref.inst) # Path(g)
      <4> SUFFICES ASSUME Append(l.path, ref.inst) = Path(g) PROVE FALSE
        OBVIOUS
      <4>1. Len(Path(g)) >= 2
        BY <3>1
      <4> QED BY <3>1, <4>1
    <3> QED BY <1>1, <3>2
  <2>3. CASE ref.inst # NoInstance
    <3>1. n = Append(l.path, ref.inst)
      BY <2>3 DEF InternalNode
    <3>2. ref.inst \notin Devices
      BY <1>1, <1>4 DEF InnerApart
    <3> QED BY <1>1, <2>1, <2>2, <3>1, <3>2, LastAppended DEF Aside
  <2>4. CASE ref.inst = NoInstance
    <3>1. n = Pseudo(l.path, face) \/ n = Pseudo(l.path, otherwise)
      BY <2>4 DEF InternalNode
    <3>2. PICK f1 \in Faces : n = Pseudo(l.path, f1)
      BY <3>1
    <3>3. n # <<>> /\ Last(n) = Append(Last(l.path), f1)
      BY <1>1, <3>2, PseudoIs
    <3>4. Append(Last(l.path), f1) \notin Devices
      <4>1. Last(l.path) \in Devices \cup {i.name : i \in InnerInstances} \cup {GroupInstance(g) : g \in Groups}
        BY <1>1 DEF InnerNames
      <4> QED BY <1>1, <4>1 DEF InnerApart, Faces
    <3> QED BY <2>1, <2>2, <3>3, <3>4 DEF Aside
  <2> QED BY <2>3, <2>4
<1>7. PICK id, x, y :
        e = Edge(id, "connect", InternalNode(p, l, c.source, x, "outputs", "inputs"), <<owner(c.source), x>>,
                                InternalNode(p, l, c.target, y, "inputs", "outputs"), <<owner(c.target), y>>)
  BY <1>5
<1> DEFINE out == InternalNode(p, l, c.source, x, "outputs", "inputs")
           in == InternalNode(p, l, c.target, y, "inputs", "outputs")
           so == <<owner(c.source), x>>
           ti == <<owner(c.target), y>>
<1>8. Aside(out, Fallback(nodes, out, so)) /\ Aside(in, Fallback(nodes, in, ti))
  BY <1>6 DEF Faces
<1>9. e = Edge(id, "connect", out, so, in, ti)
  BY <1>7
<1> HIDE DEF out, in, so, ti
<1>10. /\ f.sourceNode = out /\ f.targetNode = in
       /\ f.sourcePort = Fallback(nodes, out, so) /\ f.targetPort = Fallback(nodes, in, ti)
  BY <1>2, <1>9, LandedIs
<1> QED BY <1>8, <1>10

-----------------------------------------------------------------------------
(* What a vertex leads to.                                                 *)

Spread(adj, s, f, k) == IF k = 0 THEN After(adj, {s}) ELSE f[k - 1] \cup After(adj, Boundary(f[k - 1]))

Spreads(adj, s, N, f) ==
  /\ f[0] = After(adj, {s})
  /\ \A k \in 1..N : f[k] = f[k - 1] \cup After(adj, Boundary(f[k - 1]))

\* What a vertex leads to, boundary after boundary
LEMMA Spreading ==
  ASSUME NEW adj, NEW s, NEW N \in Nat
  PROVE  \E f : f = [k \in 0..N |-> Spread(adj, s, f, k)]
<1> DEFINE T == {n \in Nat : \E f : f = [k \in 0..n |-> Spread(adj, s, f, k)]}
<1>1. 0 \in T
  <2> DEFINE f == [k \in 0..0 |-> After(adj, {s})]
  <2>1. \A k \in 0..0 : k = 0
    OBVIOUS
  <2>2. f = [k \in 0..0 |-> f[k]] /\ \A k \in 0..0 : f[k] = Spread(adj, s, f, k)
    BY <2>1 DEF Spread
  <2> HIDE DEF f
  <2>3. f = [k \in 0..0 |-> Spread(adj, s, f, k)]
    BY <2>2
  <2>4. \E g : g = [k \in 0..0 |-> Spread(adj, s, g, k)]
    BY <2>3, Zenon
  <2> QED BY <2>4
<1>2. ASSUME NEW n \in Nat, n \in T PROVE n + 1 \in T
  <2>1. PICK f : f = [k \in 0..n |-> Spread(adj, s, f, k)]
    BY <1>2
  <2> DEFINE last == Spread(adj, s, f, n + 1)
             g == [k \in 0..n + 1 |-> IF k = n + 1 THEN last ELSE f[k]]
  <2>2. g = [k \in 0..n + 1 |-> g[k]] /\ g[n + 1] = last /\ \A k \in 0..n : g[k] = f[k]
    <3>1. n + 1 \in 0..n + 1 /\ \A k \in 0..n : k \in 0..n + 1 /\ k # n + 1
      OBVIOUS
    <3>2. g = [k \in 0..n + 1 |-> g[k]]
      OBVIOUS
    <3> HIDE DEF last
    <3> QED BY <3>1, <3>2
  <2>3. last = Spread(adj, s, f, n + 1)
    OBVIOUS
  <2> HIDE DEF g, last
  <2>4. \A k \in 0..n + 1 : (k = 0 \/ g[k - 1] = f[k - 1])
    <3>1. \A k \in 0..n + 1 : k = 0 \/ k - 1 \in 0..n
      OBVIOUS
    <3> QED BY <2>2, <3>1
  <2>5. \A k \in 0..n + 1 : Spread(adj, s, g, k) = Spread(adj, s, f, k)
    BY <2>4 DEF Spread
  <2>6. \A k \in 0..n : f[k] = Spread(adj, s, f, k)
    BY <2>1
  <2>7. \A k \in 0..n + 1 : k \in 0..n \/ k = n + 1
    OBVIOUS
  <2>8. \A k \in 0..n + 1 : g[k] = Spread(adj, s, g, k)
    BY <2>2, <2>3, <2>5, <2>6, <2>7
  <2>9. g = [k \in 0..n + 1 |-> Spread(adj, s, g, k)]
    BY <2>2, <2>8
  <2>10. \E h : h = [k \in 0..n + 1 |-> Spread(adj, s, h, k)]
    BY <2>9, Zenon
  <2>11. n + 1 \in Nat
    OBVIOUS
  <2> QED BY <2>10, <2>11, Zenon
<1> HIDE DEF T
<1>3. N \in T
  BY <1>1, <1>2, FromZero
<1> QED BY <1>3 DEF T

\* as the equivalence gate computes it
LEMMA ReachedIs ==
  ASSUME NEW adj, NEW s, NEW N \in Nat
  PROVE  Spreads(adj, s, N, Reached(adj, s, N))
<1> DEFINE f == CHOOSE f : f = [k \in 0..N |-> Spread(adj, s, f, k)]
<1>1. Reached(adj, s, N) = f
  BY DEF Reached, Spread
<1>2. f = [k \in 0..N |-> Spread(adj, s, f, k)]
  BY Spreading, Zenon
<1> HIDE DEF f
<1>3. 0 \in 0..N /\ \A k \in 1..N : k \in 0..N /\ k # 0
  OBVIOUS
<1>4. f[0] = Spread(adj, s, f, 0) /\ \A k \in 1..N : f[k] = Spread(adj, s, f, k)
  BY <1>2, <1>3
<1> QED BY <1>1, <1>3, <1>4 DEF Spread, Spreads

\* It stays within what the first step leads to and boundaries lead on to
LEMMA ReachedIn ==
  ASSUME NEW adj, NEW s, NEW N \in Nat, NEW S,
         \A a \in adj : a[1] = s => a[2] \in S,
         \A a \in adj : a[1] \in S /\ a[1][1] = "B" => a[2] \in S
  PROVE  Reached(adj, s, N)[N] \subseteq S
<1> DEFINE f == Reached(adj, s, N)
           T == {n \in Nat : n <= N => f[n] \subseteq S}
<1>0. Spreads(adj, s, N, f)
  BY ReachedIs
<1> HIDE DEF f
<1>1. f[0] = After(adj, {s}) /\ \A k \in 1..N : f[k] = f[k - 1] \cup After(adj, Boundary(f[k - 1]))
  BY <1>0 DEF Spreads
<1>2. 0 \in T
  BY <1>1 DEF After
<1>3. ASSUME NEW n \in Nat, n \in T PROVE n + 1 \in T
  <2> SUFFICES ASSUME n + 1 <= N PROVE f[n + 1] \subseteq S
    OBVIOUS
  <2>1. n + 1 \in 1..N /\ n + 1 - 1 = n /\ n <= N
    OBVIOUS
  <2>2. f[n] \subseteq S /\ f[n + 1] = f[n] \cup After(adj, Boundary(f[n]))
    BY <1>1, <1>3, <2>1
  <2> QED BY <2>2 DEF After, Boundary
<1> HIDE DEF T
<1>4. Nat \subseteq T
  BY <1>2, <1>3, FromZero
<1> QED BY <1>4 DEF T, f

\* It only grows
LEMMA ReachedGrows ==
  ASSUME NEW adj, NEW s, NEW N \in Nat, NEW m \in 0..N
  PROVE  Reached(adj, s, N)[m] \subseteq Reached(adj, s, N)[N]
<1> DEFINE f == Reached(adj, s, N)
           T == {n \in Nat : m + n <= N => f[m] \subseteq f[m + n]}
<1>0. Spreads(adj, s, N, f)
  BY ReachedIs
<1> HIDE DEF f
<1>1. \A k \in 1..N : f[k] = f[k - 1] \cup After(adj, Boundary(f[k - 1]))
  BY <1>0 DEF Spreads
<1>2. 0 \in T
  OBVIOUS
<1>3. ASSUME NEW n \in Nat, n \in T PROVE n + 1 \in T
  <2> DEFINE k == m + (n + 1)
  <2> SUFFICES ASSUME k <= N PROVE f[m] \subseteq f[k]
    OBVIOUS
  <2>1. k \in 1..N /\ k - 1 = m + n /\ m + n <= N
    OBVIOUS
  <2> HIDE DEF k
  <2>2. f[k] = f[k - 1] \cup After(adj, Boundary(f[k - 1]))
    BY <1>1, <2>1
  <2> QED BY <1>3, <2>1, <2>2
<1> HIDE DEF T
<1>4. Nat \subseteq T
  BY <1>2, <1>3, FromZero
<1> DEFINE n == N - m
<1>5. n \in Nat /\ m + n = N
  OBVIOUS
<1> HIDE DEF n
<1> QED BY <1>4, <1>5 DEF T, f

\* Where one step leads, two over a boundary, or three over two
LEMMA ReachedOne ==
  ASSUME NEW adj, NEW s, NEW N \in Nat, NEW a \in adj, a[1] = s
  PROVE  a[2] \in Reached(adj, s, N)[N]
<1>1. 0 \in 0..N
  OBVIOUS
<1>2. a[2] \in Reached(adj, s, N)[0]
  <2>1. Spreads(adj, s, N, Reached(adj, s, N))
    BY ReachedIs
  <2> QED BY <2>1 DEF Spreads, After
<1> QED BY <1>1, <1>2, ReachedGrows

\* One boundary more
LEMMA ReachedStep ==
  ASSUME NEW adj, NEW s, NEW N \in Nat, NEW m \in 1..N, NEW b \in adj, b[1] \in Reached(adj, s, N)[m - 1], b[1][1] = "B"
  PROVE  b[2] \in Reached(adj, s, N)[m]
<1> DEFINE f == Reached(adj, s, N)
<1>1. Spreads(adj, s, N, f)
  BY ReachedIs
<1>2. b[1] \in f[m - 1]
  OBVIOUS
<1> HIDE DEF f
<1>3. b[2] \in f[m]
  BY <1>1, <1>2 DEF Spreads, After, Boundary
<1> QED BY <1>3 DEF f

\* Over one boundary
LEMMA ReachedTwo ==
  ASSUME NEW adj, NEW s, NEW a \in adj, NEW b \in adj, a[1] = s, a[2] = b[1], b[1][1] = "B", NEW N \in Nat \ {0}
  PROVE  b[2] \in Reached(adj, s, N)[1] /\ b[2] \in Reached(adj, s, N)[N]
<1>1. 1 \in 1..N /\ 1 - 1 = 0 /\ 1 \in 0..N /\ N \in Nat
  OBVIOUS
<1>2. a[2] \in Reached(adj, s, N)[0]
  <2>1. Spreads(adj, s, N, Reached(adj, s, N))
    BY <1>1, ReachedIs
  <2> QED BY <2>1 DEF Spreads, After
<1>3. b[2] \in Reached(adj, s, N)[1]
  BY <1>1, <1>2, ReachedStep
<1> QED BY <1>1, <1>3, ReachedGrows

\* Over two
LEMMA ReachedThree ==
  ASSUME NEW adj, NEW s, NEW a \in adj, NEW b \in adj, NEW c \in adj,
         a[1] = s, a[2] = b[1], b[1][1] = "B", b[2] = c[1], c[1][1] = "B", NEW N \in Nat \ {0, 1}
  PROVE  c[2] \in Reached(adj, s, N)[N]
<1>1. 2 \in 1..N /\ 2 - 1 = 1 /\ 2 \in 0..N /\ N \in Nat /\ N \in Nat \ {0}
  OBVIOUS
<1>2. c[1] \in Reached(adj, s, N)[1]
  BY <1>1, ReachedTwo
<1>3. c[2] \in Reached(adj, s, N)[2]
  BY <1>1, <1>2, ReachedStep
<1> QED BY <1>1, <1>3, ReachedGrows

-----------------------------------------------------------------------------
(* What is connected in the flat graph.                                    *)

\* A port of a device, and the pairs of them that cables join
Leaf(ref, w) == <<"R", ref.inst, Spot(ref, w)>>
Linked(s, t) ==
  \E c \in Cables : \E q \in Pairs(c) :
    s = Leaf(c.source, q[1]) /\ t = Leaf(c.target, q[2]) /\ ~Gone(c.source, q[1]) /\ ~Gone(c.target, q[2])

\* A vertex inside a template of the program
Low(v) == v[1] = "B" /\ \A g \in Groups : v[2] # Path(g)

LeafOf(adj, N, s, t) ==
  s \in {a[1] : a \in adj} /\ t \in {a[2] : a \in adj} /\ s[1] = "R" /\ t[1] = "R" /\ t \in Reached(adj, s, N)[N]

\* What the gate compares, as pairs
LEMMA LeafConnectsAre ==
  ASSUME NEW levels
  PROVE  LeafConnects(levels) =
           {st \in {a[1] : a \in Adjacent(levels)} \X {a[2] : a \in Adjacent(levels)} :
              LeafOf(Adjacent(levels), Cardinality(levels), st[1], st[2])}
BY DEF LeafConnects, LeafOf

\* Graphs connect the same pairs if in both each vertex is connected to the same ones
LEMMA SameLeaves ==
  ASSUME NEW k, NEW l,
         \A s, t : LeafOf(Adjacent(k), Cardinality(k), s, t) <=> LeafOf(Adjacent(l), Cardinality(l), s, t)
  PROVE  LeafConnects(k) = LeafConnects(l)
<1>1. ASSUME NEW m, NEW n, NEW x \in LeafConnects(m),
             \A s, t : LeafOf(Adjacent(m), Cardinality(m), s, t) => LeafOf(Adjacent(n), Cardinality(n), s, t)
      PROVE  x \in LeafConnects(n)
  <2>1. x = <<x[1], x[2]>> /\ LeafOf(Adjacent(m), Cardinality(m), x[1], x[2])
    BY <1>1, LeafConnectsAre
  <2>2. LeafOf(Adjacent(n), Cardinality(n), x[1], x[2])
    BY <1>1, <2>1
  <2>3. x[1] \in {a[1] : a \in Adjacent(n)} /\ x[2] \in {a[2] : a \in Adjacent(n)}
    BY <2>2 DEF LeafOf
  <2> QED BY <2>1, <2>2, <2>3, LeafConnectsAre
<1> QED BY <1>1

\* Adjacency, edge by edge
LEMMA AdjacentAre ==
  ASSUME NEW levels
  PROVE  /\ \A a \in Adjacent(levels) : \E l \in levels : \E e \in l.edges :
              e.type = "connect" /\ a = <<Vertex(e.sourceNode, e.sourcePort), Vertex(e.targetNode, e.targetPort)>>
         /\ \A l \in levels : \A e \in l.edges :
              e.type = "connect" => <<Vertex(e.sourceNode, e.sourcePort), Vertex(e.targetNode, e.targetPort)>> \in Adjacent(levels)
BY DEF Adjacent

\* A device's ports are leaves, whatever is aside is not
LEMMA VertexOf ==
  ASSUME NEW n, NEW x
  PROVE  /\ n \in Devices => Vertex(<<n>>, <<<<n>>, x>>) = <<"R", n, x>>
         /\ \A node, id : Aside(node, id) => Low(Vertex(node, id))
<1>1. <<n>> # <<>> /\ Last(<<n>>) = n
  BY DEF Last
<1>2. ASSUME NEW node, NEW id, Aside(node, id) PROVE Low(Vertex(node, id))
  <2>1. Vertex(node, id) = <<"B", id[1], id[2]>>
    BY <1>2 DEF Aside, Vertex
  <2> QED BY <1>2, <2>1 DEF Aside, Low
<1> QED BY <1>1, <1>2 DEF Vertex

\* In the flat graph the cables' leaves are adjacent, and otherwise only what lies inside devices
LEMMA FlatAdjacent ==
  ASSUME Scoped
  PROVE  /\ \A a \in Adjacent(LevelsOf(FlatGraph)) : Linked(a[1], a[2]) \/ (Low(a[1]) /\ Low(a[2]))
         /\ \A s, t : Linked(s, t) => <<s, t>> \in Adjacent(LevelsOf(FlatGraph))
<1>1. /\ Settled /\ GroupsApart /\ CablesJoinDevices
      /\ LevelsOf(FlatGraph) = {Root(flat)} \cup {SubLevel(flat, l) : l \in Opened(flat)}
  BY ScopedIs, SettledIs DEF CompileToGraph, LevelsOf
<1>2. ASSUME NEW c \in Cables, NEW q \in Pairs(c), NEW f, FlatLink(c, q, f)
      PROVE  Vertex(f.sourceNode, f.sourcePort) = Leaf(c.source, q[1]) /\ Vertex(f.targetNode, f.targetPort) = Leaf(c.target, q[2])
  <2>1. c.source.inst \in Devices /\ c.target.inst \in Devices
    BY <1>1 DEF CablesJoinDevices
  <2> QED BY <1>2, <2>1, VertexOf DEF FlatLink, Leaf
<1>3. ASSUME NEW a \in Adjacent(LevelsOf(FlatGraph)) PROVE Linked(a[1], a[2]) \/ (Low(a[1]) /\ Low(a[2]))
  <2>1. PICK l \in LevelsOf(FlatGraph) : \E e \in l.edges :
              e.type = "connect" /\ a = <<Vertex(e.sourceNode, e.sourcePort), Vertex(e.targetNode, e.targetPort)>>
    BY AdjacentAre
  <2>2. PICK e \in l.edges :
              e.type = "connect" /\ a = <<Vertex(e.sourceNode, e.sourcePort), Vertex(e.targetNode, e.targetPort)>>
    BY <2>1
  <2>3. CASE l = Root(flat)
    <3>1. PICK c \in Cables : \E q \in Pairs(c) : FlatLink(c, q, e) /\ ~Gone(c.source, q[1]) /\ ~Gone(c.target, q[2])
      BY <2>2, <2>3, FlatRoot
    <3> QED BY <1>2, <2>2, <3>1 DEF Linked
  <2>4. CASE \E m \in Opened(flat) : l = SubLevel(flat, m)
    <3>1. PICK m \in Opened(flat) : l = SubLevel(flat, m)
      BY <2>4
    <3>2. Lower(m)
      BY <1>1, OpenedFlat
    <3>3. Aside(e.sourceNode, e.sourcePort) /\ Aside(e.targetNode, e.targetPort)
      BY <2>2, <3>1, <3>2, LowerEdges
    <3> QED BY <2>2, <3>3, VertexOf
  <2> QED BY <1>1, <2>3, <2>4
<1>4. ASSUME NEW s, NEW t, Linked(s, t) PROVE <<s, t>> \in Adjacent(LevelsOf(FlatGraph))
  <2>1. PICK c \in Cables : \E q \in Pairs(c) :
          s = Leaf(c.source, q[1]) /\ t = Leaf(c.target, q[2]) /\ ~Gone(c.source, q[1]) /\ ~Gone(c.target, q[2])
    BY <1>4 DEF Linked
  <2>2. PICK q \in Pairs(c) :
          s = Leaf(c.source, q[1]) /\ t = Leaf(c.target, q[2]) /\ ~Gone(c.source, q[1]) /\ ~Gone(c.target, q[2])
    BY <2>1
  <2>3. PICK f \in Root(flat).edges : FlatLink(c, q, f)
    BY <2>2, FlatRoot
  <2>4. f.type = "connect" /\ Root(flat) \in LevelsOf(FlatGraph)
    BY <1>1, <2>3 DEF FlatLink
  <2>5. <<Vertex(f.sourceNode, f.sourcePort), Vertex(f.targetNode, f.targetPort)>> \in Adjacent(LevelsOf(FlatGraph))
    BY <2>4, AdjacentAre
  <2> QED BY <1>2, <2>2, <2>3, <2>5
<1> QED BY <1>3, <1>4

\* There are finitely many levels
LEMMA Counted ==
  ASSUME Settled, GroupsApart, NEW p \in {flat, grouped}
  PROVE  Cardinality(LevelsOf(CompileToGraph(p))) \in Nat /\ IsFiniteSet(LevelsOf(CompileToGraph(p)))
<1>1. \A S : \A seq \in Seq(S) : IsFiniteSet(DOMAIN seq)
  BY LenProperties, FS_Interval
<1>2. ASSUME NEW seq, seq \in Seq(ElementsOf(seq)) PROVE IsFiniteSet(ElementsOf(seq))
  <2>1. IsFiniteSet(DOMAIN seq)
    BY <1>1, <1>2
  <2>2. (\A k \in DOMAIN seq : seq[k] \in ElementsOf(seq)) /\ \A x \in ElementsOf(seq) : \E k \in DOMAIN seq : seq[k] = x
    BY DEF ElementsOf
  <2> QED BY <2>1, <2>2, ImageFinite
<1>3. IsFiniteSet(Outermost(p))
  <2>1. p.instances \in Seq(ElementsOf(p.instances))
    <3>1. flat.instances \in Seq(ElementsOf(flat.instances))
      BY SettledIs, ReadTyped DEF TypedInstances
    <3>2. grouped.instances \in Seq(ElementsOf(grouped.instances))
      BY GroupedIs, TopInstancesAre
    <3> QED BY <3>1, <3>2
  <2> DEFINE S == ElementsOf(p.instances)
             f == [i \in S |-> Open(<<i.name>>, i, {})]
  <2>2. IsFiniteSet(S)
    BY <1>2, <2>1
  <2>3. Outermost(p) = {Open(<<i.name>>, i, {}) : i \in S}
    BY DEF Outermost
  <2>4. (\A i \in S : f[i] \in Outermost(p)) /\ \A x \in Outermost(p) : \E i \in S : f[i] = x
    BY <2>3
  <2> HIDE DEF S, f
  <2> QED BY <2>2, <2>4, ImageFinite
<1>4. ASSUME NEW l \in Opened(p) PROVE IsFiniteSet(Within(p, l))
  <2>1. Here(p, l).instances \in Seq(ElementsOf(Here(p, l).instances))
    <3>1. CASE Lower(l)
      <4>1. l.template \notin {GroupTemplate(g) : g \in Groups}
        BY <3>1 DEF Lower
      <4> QED BY <4>1, InsideTemplates DEF Here
    <3>2. CASE p = grouped /\ \E g \in Groups : l = H(g)
      <4>1. PICK g \in Groups : l = H(g)
        BY <3>2
      <4>2. Here(p, l).instances = InGroup(g) /\ InGroup(g) \in Seq(ElementsOf(flat.instances))
        BY <3>2, <4>1, HereIs, InGroupIs
      <4>3. InGroup(g) \in Seq(ElementsOf(InGroup(g)))
        <5> DEFINE s == InGroup(g)
        <5>1. s \in Seq(ElementsOf(flat.instances))
          BY <4>2
        <5> HIDE DEF s
        <5>2. Len(s) \in Nat /\ DOMAIN s = 1..Len(s) /\ s \in [1..Len(s) -> ElementsOf(flat.instances)]
          BY <5>1, LenProperties
        <5>3. \A i \in 1..Len(s) : s[i] \in ElementsOf(s)
          BY <5>2 DEF ElementsOf
        <5>4. s \in [1..Len(s) -> ElementsOf(s)]
          BY <5>2, <5>3
        <5>5. s \in Seq(ElementsOf(s))
          BY <5>2, <5>4
        <5> QED BY <5>5 DEF s
      <4> QED BY <4>2, <4>3
    <3> QED BY <3>1, <3>2, OpenedFlat, OpenedGrouped
  <2> DEFINE S == Subs(p, l)
             f == [s \in S |-> Open(Append(l.path, s.name), s, l.stack \cup {l.template})]
  <2>2. IsFiniteSet(S)
    BY <1>2, <2>1 DEF Subs
  <2>3. Within(p, l) = {Open(Append(l.path, s.name), s, l.stack \cup {l.template}) : s \in S}
    BY DEF Within
  <2>4. (\A s \in S : f[s] \in Within(p, l)) /\ \A x \in Within(p, l) : \E s \in S : f[s] = x
    BY <2>3
  <2> HIDE DEF S, f
  <2> QED BY <2>2, <2>4, ImageFinite
<1>5. IsFiniteSet(Opened(p))
  BY <1>3, <1>4, TemplatesCounted, OpenedFinite
<1> DEFINE S == Opened(p)
           T == {SubLevel(p, l) : l \in S}
           f == [l \in S |-> SubLevel(p, l)]
<1>6. (\A l \in S : f[l] \in T) /\ \A x \in T : \E l \in S : f[l] = x
  OBVIOUS
<1>7. LevelsOf(CompileToGraph(p)) = T \cup {Root(p)}
  BY DEF LevelsOf, CompileToGraph
<1> HIDE DEF S, T, f
<1>8. IsFiniteSet(T)
  BY <1>5, <1>6, ImageFinite DEF S
<1>9. IsFiniteSet(T \cup {Root(p)})
  BY <1>8, FS_AddElement
<1> QED BY <1>7, <1>9, FS_CardinalityType

\* In the flat graph a device's port is connected to what a cable joins it with
LEMMA FlatLeaves ==
  ASSUME Scoped, NEW s, NEW t
  PROVE  LeafOf(Adjacent(LevelsOf(FlatGraph)), Cardinality(LevelsOf(FlatGraph)), s, t) <=> Linked(s, t)
<1> DEFINE adj == Adjacent(LevelsOf(FlatGraph))
           N == Cardinality(LevelsOf(FlatGraph))
<1>1. N \in Nat
  BY ScopedIs, SettledIs, Counted
<1>2. /\ \A a \in adj : Linked(a[1], a[2]) \/ (Low(a[1]) /\ Low(a[2]))
      /\ Linked(s, t) => <<s, t>> \in adj
  BY FlatAdjacent
<1>3. \A x, y : Linked(x, y) => x[1] = "R" /\ y[1] = "R"
  BY DEF Linked, Leaf
<1> HIDE DEF adj, N
<1>4. ASSUME LeafOf(adj, N, s, t) PROVE Linked(s, t)
  <2> DEFINE S == {x \in {a[2] : a \in adj} : Linked(s, x)}
  <2>1. ASSUME NEW a \in adj, a[1] = s PROVE a[2] \in S
    <3>1. ~ Low(a[1])
      BY <1>4, <2>1 DEF LeafOf, Low
    <3> QED BY <1>2, <2>1, <3>1
  <2>2. ASSUME NEW a \in adj, a[1] \in S, a[1][1] = "B" PROVE a[2] \in S
    BY <1>3, <2>2
  <2> HIDE DEF S
  <2>3. Reached(adj, s, N)[N] \subseteq S
    BY <1>1, <2>1, <2>2, ReachedIn
  <2> QED BY <1>4, <2>3 DEF LeafOf, S
<1>5. ASSUME Linked(s, t) PROVE LeafOf(adj, N, s, t)
  <2> DEFINE a == <<s, t>>
  <2>1. a \in adj /\ a[1] = s /\ a[2] = t
    BY <1>2, <1>5
  <2> HIDE DEF a
  <2>2. t \in Reached(adj, s, N)[N]
    BY <1>1, <2>1, ReachedOne
  <2> QED BY <1>3, <1>5, <2>1, <2>2 DEF LeafOf
<1> QED BY <1>4, <1>5 DEF adj, N

-----------------------------------------------------------------------------
(* What is connected in the graph of the contracted program.               *)

\* The port on a group's boundary that stands for a channel of a device's port
Gate(k, v) == <<"B", Path(group_of[k[1]]), Outer(k) \o Suffix(v)>>

\* Where a reference meets the contracted root
Meets(r, w, x) ==
  IF Grouped(r) THEN \E v \in WireChannels(Key(r)) : x = Gate(Key(r), v) /\ Spot(DevicePort(Key(r)), v) = Spot(r, w)
  ELSE x = Leaf(r, w) /\ ~Gone(r, w)

Outward(x, y) ==
  \E k \in DOMAIN exposed : \E v \in WireChannels(k) :
    x = Leaf(DevicePort(k), v) /\ y = Gate(k, v) /\ exposed[k].dir # "in" /\ ~Gone(DevicePort(k), v)
Inward(x, y) ==
  \E k \in DOMAIN exposed : \E v \in WireChannels(k) :
    x = Gate(k, v) /\ y = Leaf(DevicePort(k), v) /\ exposed[k].dir = "in" /\ ~Gone(DevicePort(k), v)
Across(x, y) == \E c \in Cut : \E q \in Pairs(c) : Meets(c.source, q[1], x) /\ Meets(c.target, q[2], y)

\* Different wires lead to different gates
LEMMA GatesDiffer ==
  ASSUME Scoped, NEW j \in DOMAIN exposed, NEW k \in DOMAIN exposed, NEW u \in WireChannels(j), NEW v \in WireChannels(k),
         Gate(j, u) = Gate(k, v)
  PROVE  j = k /\ u = v
<1>1. Settled /\ GroupsApart /\ TextsApart /\ WholeFromOne /\ PortsApart(DOMAIN group_of)
  BY ScopedIs
<1> DEFINE g == group_of[j[1]]
           h == group_of[k[1]]
<1>2. g \in Groups /\ j \in ExposedBy(g) /\ h \in Groups /\ k \in ExposedBy(h)
  BY <1>1, HeldIs
<1>3. Path(g) = Path(h) /\ Outer(j) \o Suffix(u) = Outer(k) \o Suffix(v)
  BY DEF Gate
<1> HIDE DEF g, h
<1>4. GroupInstance(g) = GroupInstance(h)
  BY <1>3 DEF Path
<1>5. g = h
  BY <1>1, <1>2, <1>4, GroupNames
<1>6. u \in MaybeChannel /\ v \in MaybeChannel
  BY <1>1, WiredIs
<1>7. Rim(g, j, u) = Rim(g, k, v)
  BY <1>3 DEF Rim
<1> QED BY <1>1, <1>2, <1>5, <1>6, <1>7, SameRim

\* The reference a channel pair of a cut cable has in a group names a channel the group knows
LEMMA CutCrosses ==
  ASSUME Scoped, NEW c \in Cut, NEW q \in Pairs(c)
  PROVE  /\ Grouped(c.source) => c.source \in NotedRefs /\ q[1] \in ElementsOf(FlattenOpt(c.source)) /\ Key(c.source) \in DOMAIN exposed
         /\ Grouped(c.target) => c.target \in NotedRefs /\ q[2] \in ElementsOf(FlattenOpt(c.target)) /\ Key(c.target) \in DOMAIN exposed
<1>1. Settled /\ MappingsUncut
  BY ScopedIs
<1>2. TypedRef(c.source) /\ TypedRef(c.target)
  BY <1>1, CableTyped DEF Cut
<1>3. Grouped(c.source) \/ Grouped(c.target) => c.mapping.kind = "default"
  BY <1>1 DEF MappingsUncut
<1> QED BY <1>1, <1>2, <1>3, NotedAre, PairsName

\* Where an end of a cut cable is in the contracted root
LEMMA MeetsIs ==
  ASSUME Scoped, NEW r, r.inst \in Devices, NEW w,
         Grouped(r) => r \in NotedRefs /\ w \in ElementsOf(FlattenOpt(r)) /\ Key(r) \in DOMAIN exposed
  PROVE  /\ ~Off(r, w) => Meets(r, w, Vertex(NodeOf(r), <<NodeOf(r), PortOf(r, w)>>))
         /\ ~Gone(r, w) => ~Off(r, w)
<1>1. Settled /\ GroupsApart
  BY ScopedIs
<1>2. CASE ~Grouped(r)
  <2>1. NodeOf(r) = <<r.inst>> /\ PortOf(r, w) = Spot(r, w) /\ (Off(r, w) <=> Gone(r, w))
    BY <1>2 DEF NodeOf, PortOf, Off
  <2>2. Vertex(<<r.inst>>, <<<<r.inst>>, Spot(r, w)>>) = Leaf(r, w)
    BY VertexOf DEF Leaf
  <2> QED BY <1>2, <2>1, <2>2 DEF Meets
<1>3. CASE Grouped(r)
  <2> DEFINE g == group_of[r.inst]
  <2>1. r \in NotedRefs /\ w \in ElementsOf(FlattenOpt(r))
    BY <1>3
  <2>2. NodeOf(r) = Path(g) /\ g \in Groups
    BY <1>3 DEF NodeOf, Groups, Grouped
  <2>3. Vertex(Path(g), <<Path(g), PortOf(r, w)>>) = <<"B", Path(g), PortOf(r, w)>>
    <3>1. Last(Path(g)) \notin Devices
      BY <1>1, <2>2, PathIs DEF GroupsApart
    <3> QED BY <3>1 DEF Vertex
  <2>4. Key(r)[1] = r.inst
    BY DEF Key
  <2>5. ~Off(r, w) => Meets(r, w, <<"B", Path(g), PortOf(r, w)>>)
    BY <1>3, <2>1, <2>4, CrossingIs DEF Meets, Gate
  <2>6. ~Gone(r, w) => ~Off(r, w)
    BY <2>1, CrossingIs
  <2> QED BY <2>2, <2>3, <2>5, <2>6
<1> QED BY <1>2, <1>3

\* The ends of the edges of a group's level
LEMMA LevelVertices ==
  ASSUME Scoped, NEW g \in Groups
  PROVE  /\ \A c \in Intra(g) : \A p, f : InnerLink(g, c, p, f) =>
              /\ Vertex(f.sourceNode, f.sourcePort) = Leaf(c.source, p[1])
              /\ Vertex(f.targetNode, f.targetPort) = Leaf(c.target, p[2])
         /\ \A k \in ExposedBy(g) : \A w, f : WireLink(g, k, w, f) =>
              IF exposed[k].dir = "in"
              THEN Vertex(f.sourceNode, f.sourcePort) = Gate(k, w) /\ Vertex(f.targetNode, f.targetPort) = Leaf(DevicePort(k), w)
              ELSE Vertex(f.sourceNode, f.sourcePort) = Leaf(DevicePort(k), w) /\ Vertex(f.targetNode, f.targetPort) = Gate(k, w)
<1>1. Settled /\ GroupsApart /\ InnerApart
  BY ScopedIs
<1>2. ASSUME NEW n \in Devices, NEW x PROVE Vertex(Box(g, n), <<Box(g, n), x>>) = <<"R", n, x>>
  <2>1. Len(Box(g, n)) = 2 /\ Last(Box(g, n)) = n
    BY <1>1, BoxesApart
  <2>2. Box(g, n) # <<>>
    <3> SUFFICES ASSUME Box(g, n) = <<>> PROVE FALSE
      OBVIOUS
    <3>1. Len(Box(g, n)) = 0
      BY EmptySeq
    <3> QED BY <2>1, <3>1
  <2> QED BY <2>1, <2>2 DEF Vertex
<1>3. ASSUME NEW node, NEW x, NEW y, RimNode(g, node, y) PROVE Vertex(node, <<Path(g), x>>) = <<"B", Path(g), x>>
  <2>1. PICK face \in Faces : node = Face(g, face)
    BY <1>3 DEF RimNode
  <2>2. node = <<Append(GroupInstance(g), face)>>
    BY <1>1, <2>1, BoxesApart
  <2>3. Append(GroupInstance(g), face) \notin Devices
    BY <1>1, <2>1 DEF InnerApart, Faces
  <2>4. Last(node) \notin Devices
    BY <2>2, <2>3 DEF Last
  <2> QED BY <2>4 DEF Vertex
<1>4. ASSUME NEW c \in Intra(g), NEW p, NEW f, InnerLink(g, c, p, f)
      PROVE  /\ Vertex(f.sourceNode, f.sourcePort) = Leaf(c.source, p[1])
             /\ Vertex(f.targetNode, f.targetPort) = Leaf(c.target, p[2])
  <2>1. c.source.inst \in Devices /\ c.target.inst \in Devices
    BY ScopedIs DEF CablesJoinDevices, Intra
  <2> QED BY <1>2, <1>4, <2>1 DEF InnerLink, Leaf
<1>5. ASSUME NEW k \in ExposedBy(g), NEW w, NEW f, WireLink(g, k, w, f)
      PROVE  IF exposed[k].dir = "in"
             THEN Vertex(f.sourceNode, f.sourcePort) = Gate(k, w) /\ Vertex(f.targetNode, f.targetPort) = Leaf(DevicePort(k), w)
             ELSE Vertex(f.sourceNode, f.sourcePort) = Leaf(DevicePort(k), w) /\ Vertex(f.targetNode, f.targetPort) = Gate(k, w)
  <2>1. k \in DOMAIN exposed /\ group_of[k[1]] = g
    BY DEF ExposedBy
  <2>2. k[1] \in Devices
    BY <1>1, <2>1, KeyTyped
  <2>3. Leaf(DevicePort(k), w) = <<"R", k[1], Spot(DevicePort(k), w)>> /\ Gate(k, w) = <<"B", Path(g), Outer(k) \o Suffix(w)>>
    BY <2>1 DEF Leaf, Gate, DevicePort, Ref
  <2>4. Vertex(Box(g, k[1]), <<Box(g, k[1]), Spot(DevicePort(k), w)>>) = Leaf(DevicePort(k), w)
    BY <1>2, <2>2, <2>3
  <2> QED BY <1>3, <1>5, <2>3, <2>4 DEF WireLink, Rim
<1> QED BY <1>4, <1>5

\* Every connect is one of five
LEMMA GroupedAdjacent ==
  ASSUME Scoped, NEW a \in Adjacent(LevelsOf(GroupedGraph))
  PROVE  \/ Linked(a[1], a[2]) \/ Outward(a[1], a[2]) \/ Inward(a[1], a[2]) \/ Across(a[1], a[2])
         \/ Low(a[1]) /\ Low(a[2])
<1>1. /\ Settled /\ GroupsApart /\ CablesJoinDevices
      /\ LevelsOf(GroupedGraph) = {Root(grouped)} \cup {SubLevel(grouped, l) : l \in Opened(grouped)}
  BY ScopedIs, SettledIs DEF CompileToGraph, LevelsOf
<1>2. PICK l \in LevelsOf(GroupedGraph) : \E e \in l.edges :
        e.type = "connect" /\ a = <<Vertex(e.sourceNode, e.sourcePort), Vertex(e.targetNode, e.targetPort)>>
  BY AdjacentAre
<1>3. PICK e \in l.edges :
        e.type = "connect" /\ a = <<Vertex(e.sourceNode, e.sourcePort), Vertex(e.targetNode, e.targetPort)>>
  BY <1>2
<1>4. CASE l = Root(grouped)
  <2>1. PICK c \in Cut : \E q \in Pairs(c) : TopLink(c, q, e) /\ ~Off(c.source, q[1]) /\ ~Off(c.target, q[2])
    BY <1>3, <1>4, GroupedRoot
  <2>2. PICK q \in Pairs(c) : TopLink(c, q, e) /\ ~Off(c.source, q[1]) /\ ~Off(c.target, q[2])
    BY <2>1
  <2>3. c.source.inst \in Devices /\ c.target.inst \in Devices
    BY <1>1 DEF CablesJoinDevices, Cut
  <2>4. Meets(c.source, q[1], Vertex(NodeOf(c.source), <<NodeOf(c.source), PortOf(c.source, q[1])>>))
    BY <2>2, <2>3, CutCrosses, MeetsIs
  <2>5. Meets(c.target, q[2], Vertex(NodeOf(c.target), <<NodeOf(c.target), PortOf(c.target, q[2])>>))
    BY <2>2, <2>3, CutCrosses, MeetsIs
  <2>6. Meets(c.source, q[1], a[1]) /\ Meets(c.target, q[2], a[2])
    BY <1>3, <2>2, <2>4, <2>5 DEF TopLink
  <2> QED BY <2>6 DEF Across
<1>5. CASE \E m \in Opened(grouped) : l = SubLevel(grouped, m)
  <2>1. PICK m \in Opened(grouped) : l = SubLevel(grouped, m)
    BY <1>5
  <2>2. CASE Lower(m)
    <3>1. Aside(e.sourceNode, e.sourcePort) /\ Aside(e.targetNode, e.targetPort)
      BY <1>3, <2>1, <2>2, LowerEdges
    <3> QED BY <1>3, <3>1, VertexOf
  <2>3. CASE \E g \in Groups : m = H(g)
    <3>1. PICK g \in Groups : m = H(g)
      BY <2>3
    <3>2. e \in GroupLevel(g).edges
      BY <2>1, <3>1 DEF GroupLevel
    <3>3. CASE \E c \in Intra(g) : \E p \in Pairs(c) : InnerLink(g, c, p, e) /\ ~Gone(c.source, p[1]) /\ ~Gone(c.target, p[2])
      <4>1. PICK c \in Intra(g) : \E p \in Pairs(c) : InnerLink(g, c, p, e) /\ ~Gone(c.source, p[1]) /\ ~Gone(c.target, p[2])
        BY <3>3
      <4>2. PICK p \in Pairs(c) : InnerLink(g, c, p, e) /\ ~Gone(c.source, p[1]) /\ ~Gone(c.target, p[2])
        BY <4>1
      <4>3. a[1] = Leaf(c.source, p[1]) /\ a[2] = Leaf(c.target, p[2])
        BY <1>3, <4>2, LevelVertices
      <4>4. c \in Cables
        BY DEF Intra
      <4> QED BY <4>2, <4>3, <4>4 DEF Linked
    <3>4. CASE \E k \in ExposedBy(g) : \E w \in WireChannels(k) : WireLink(g, k, w, e) /\ ~Gone(DevicePort(k), w)
      <4>1. PICK k \in ExposedBy(g) : \E w \in WireChannels(k) : WireLink(g, k, w, e) /\ ~Gone(DevicePort(k), w)
        BY <3>4
      <4>2. PICK w \in WireChannels(k) : WireLink(g, k, w, e) /\ ~Gone(DevicePort(k), w)
        BY <4>1
      <4>3. k \in DOMAIN exposed
        BY DEF ExposedBy
      <4>4. CASE exposed[k].dir = "in"
        <5>1. a[1] = Gate(k, w) /\ a[2] = Leaf(DevicePort(k), w)
          BY <1>3, <4>2, <4>4, LevelVertices
        <5> QED BY <4>2, <4>3, <4>4, <5>1 DEF Inward
      <4>5. CASE exposed[k].dir # "in"
        <5>1. a[1] = Leaf(DevicePort(k), w) /\ a[2] = Gate(k, w)
          BY <1>3, <4>2, <4>5, LevelVertices
        <5> QED BY <4>2, <4>3, <4>5, <5>1 DEF Outward
      <4> QED BY <4>4, <4>5
    <3> QED BY <3>2, <3>3, <3>4, GroupLevelEdges
  <2> QED BY <1>1, <2>1, <2>2, <2>3, OpenedGrouped
<1> QED BY <1>1, <1>4, <1>5

\* A cable of a group is drawn on its level, a wire too, and a cut cable in the root
LEMMA GroupedDrawn ==
  ASSUME Scoped
  PROVE  /\ \A c \in Cables : \A q \in Pairs(c) : SameGroup(c) /\ ~Gone(c.source, q[1]) /\ ~Gone(c.target, q[2]) =>
              <<Leaf(c.source, q[1]), Leaf(c.target, q[2])>> \in Adjacent(LevelsOf(GroupedGraph))
         /\ \A k \in DOMAIN exposed : \A v \in WireChannels(k) : ~Gone(DevicePort(k), v) =>
              (IF exposed[k].dir = "in" THEN <<Gate(k, v), Leaf(DevicePort(k), v)>> ELSE <<Leaf(DevicePort(k), v), Gate(k, v)>>)
                \in Adjacent(LevelsOf(GroupedGraph))
         /\ \A c \in Cut : \A q \in Pairs(c) : ~Gone(c.source, q[1]) /\ ~Gone(c.target, q[2]) =>
              \E x, y : Meets(c.source, q[1], x) /\ Meets(c.target, q[2], y) /\ <<x, y>> \in Adjacent(LevelsOf(GroupedGraph))
<1> DEFINE adj == Adjacent(LevelsOf(GroupedGraph))
<1>1. /\ Settled /\ GroupsApart /\ CablesJoinDevices
      /\ LevelsOf(GroupedGraph) = {Root(grouped)} \cup GroupedGraph.inside
  BY ScopedIs, SettledIs DEF CompileToGraph, LevelsOf
<1>2. \A l \in LevelsOf(GroupedGraph) : \A e \in l.edges :
        e.type = "connect" => <<Vertex(e.sourceNode, e.sourcePort), Vertex(e.targetNode, e.targetPort)>> \in adj
  BY AdjacentAre
<1> HIDE DEF adj
<1>3. \A g \in Groups : GroupLevel(g) \in LevelsOf(GroupedGraph)
  BY <1>1, LevelOfPath
<1>4. ASSUME NEW c \in Cables, NEW q \in Pairs(c), SameGroup(c), ~Gone(c.source, q[1]), ~Gone(c.target, q[2])
      PROVE  <<Leaf(c.source, q[1]), Leaf(c.target, q[2])>> \in adj
  <2> DEFINE g == group_of[c.source.inst]
  <2>1. g \in Groups /\ c \in Intra(g)
    BY <1>4 DEF SameGroup, Groups, Intra, Grouped
  <2> HIDE DEF g
  <2>2. PICK f \in GroupLevel(g).edges : InnerLink(g, c, q, f)
    BY <1>4, <2>1, IntraDrawn
  <2>3. f.type = "connect"
    BY <2>2 DEF InnerLink
  <2>4. Vertex(f.sourceNode, f.sourcePort) = Leaf(c.source, q[1]) /\ Vertex(f.targetNode, f.targetPort) = Leaf(c.target, q[2])
    BY <2>1, <2>2, LevelVertices
  <2>5. <<Vertex(f.sourceNode, f.sourcePort), Vertex(f.targetNode, f.targetPort)>> \in adj
    BY <1>2, <1>3, <2>1, <2>2, <2>3
  <2> QED BY <2>4, <2>5
<1>5. ASSUME NEW k \in DOMAIN exposed, NEW v \in WireChannels(k), ~Gone(DevicePort(k), v)
      PROVE  (IF exposed[k].dir = "in" THEN <<Gate(k, v), Leaf(DevicePort(k), v)>> ELSE <<Leaf(DevicePort(k), v), Gate(k, v)>>) \in adj
  <2> DEFINE g == group_of[k[1]]
  <2>1. g \in Groups /\ k \in ExposedBy(g)
    BY <1>1, HeldIs
  <2> HIDE DEF g
  <2>2. PICK f \in GroupLevel(g).edges : WireLink(g, k, v, f)
    BY <1>5, <2>1, WireDrawn
  <2>3. f.type = "connect"
    BY <2>2 DEF WireLink
  <2>4. <<Vertex(f.sourceNode, f.sourcePort), Vertex(f.targetNode, f.targetPort)>> \in adj
    BY <1>2, <1>3, <2>1, <2>2, <2>3
  <2> QED BY <2>1, <2>2, <2>4, LevelVertices
<1>6. ASSUME NEW c \in Cut, NEW q \in Pairs(c), ~Gone(c.source, q[1]), ~Gone(c.target, q[2])
      PROVE  \E x, y : Meets(c.source, q[1], x) /\ Meets(c.target, q[2], y) /\ <<x, y>> \in adj
  <2>1. c.source.inst \in Devices /\ c.target.inst \in Devices
    BY <1>1 DEF CablesJoinDevices, Cut
  <2> DEFINE x == Vertex(NodeOf(c.source), <<NodeOf(c.source), PortOf(c.source, q[1])>>)
             y == Vertex(NodeOf(c.target), <<NodeOf(c.target), PortOf(c.target, q[2])>>)
  <2>2. ~Off(c.source, q[1]) /\ Meets(c.source, q[1], x)
    BY <1>6, <2>1, CutCrosses, MeetsIs
  <2>3. ~Off(c.target, q[2]) /\ Meets(c.target, q[2], y)
    BY <1>6, <2>1, CutCrosses, MeetsIs
  <2>4. PICK f \in Root(grouped).edges : TopLink(c, q, f)
    BY <2>2, <2>3, GroupedRoot
  <2>5. f.type = "connect" /\ Vertex(f.sourceNode, f.sourcePort) = x /\ Vertex(f.targetNode, f.targetPort) = y
    BY <2>4 DEF TopLink
  <2>6. <<Vertex(f.sourceNode, f.sourcePort), Vertex(f.targetNode, f.targetPort)>> \in adj
    BY <1>1, <1>2, <2>4, <2>5
  <2>7. <<x, y>> \in adj
    BY <2>5, <2>6
  <2> HIDE DEF x, y
  <2> QED BY <2>2, <2>3, <2>7
<1> QED BY <1>4, <1>5, <1>6 DEF adj

\* With a group there are at least two levels
LEMMA TwoLevels ==
  ASSUME Scoped, Groups # {}
  PROVE  Cardinality(LevelsOf(GroupedGraph)) \in Nat \ {0, 1}
<1> DEFINE S == LevelsOf(GroupedGraph)
<1>1. Settled /\ GroupsApart /\ IsFiniteSet(S) /\ Cardinality(S) \in Nat
  BY ScopedIs, SettledIs, Counted
<1>2. PICK g : g \in Groups
  OBVIOUS
<1> DEFINE r == Root(grouped)
           l == GroupLevel(g)
<1>3. r \in S /\ l \in S
  BY <1>1, <1>2, SettledIs, LevelOfPath DEF LevelsOf, CompileToGraph
<1>4. r.path = <<>> /\ l.path # <<>>
  BY <1>1, <1>2, RootParts, LevelOfPath, PathIs
<1>5. r # l
  BY <1>4
<1> HIDE DEF S, r, l
<1>6. {r} \in SUBSET S /\ l \notin {r} /\ {r} \cup {l} \in SUBSET S
  BY <1>3, <1>5
<1>7. IsFiniteSet({r}) /\ Cardinality({r}) = 1
  BY FS_Singleton
<1>8. IsFiniteSet({r} \cup {l}) /\ Cardinality({r} \cup {l}) = 2
  <2>1. IsFiniteSet({r} \cup {l})
    BY <1>7, FS_AddElement
  <2>2. Cardinality({r} \cup {l}) = Cardinality({r}) + 1
    BY <1>6, <1>7, FS_AddElement
  <2> DEFINE n == Cardinality({r} \cup {l})
             m == Cardinality({r})
  <2>3. n = m + 1 /\ m = 1
    BY <1>7, <2>2
  <2> HIDE DEF n, m
  <2>4. n = 2
    BY <2>3
  <2> QED BY <2>1, <2>4 DEF n
<1>9. Cardinality({r} \cup {l}) <= Cardinality(S)
  BY <1>1, <1>6, FS_Subset
<1> DEFINE n == Cardinality(S)
<1>10. n \in Nat /\ 2 <= n
  BY <1>1, <1>8, <1>9
<1> HIDE DEF n
<1>11. n \in Nat \ {0, 1}
  BY <1>10
<1> QED BY <1>11 DEF n, S

\* A vertex the flat graph connects s with, or a port on the way there: where a wire leads s out of
\* its group, or where a cable leads it into another
Told(s, x) ==
  \/ Linked(s, x)
  \/ Outward(s, x)
  \/ \E c \in Cut : \E q \in Pairs(c) :
       Grouped(c.target) /\ s = Leaf(c.source, q[1]) /\ ~Gone(c.source, q[1]) /\ Meets(c.target, q[2], x)

\* Leaves and gates are told apart
LEMMA Kinds ==
  /\ \A x, y : Linked(x, y) => x[1] = "R" /\ y[1] = "R"
  /\ \A k, v : Gate(k, v)[1] = "B" /\ Leaf(DevicePort(k), v)[1] = "R"
  /\ \A r, w : Leaf(r, w)[1] = "R"
  /\ \A v : Low(v) => v[1] = "B"
BY DEF Linked, Leaf, Gate, Low

\* Where a reference's gate is a wire's, the wire's device end is where the reference led
LEMMA GateRead ==
  ASSUME Scoped, NEW r, NEW w, Grouped(r), Key(r) \in DOMAIN exposed, NEW k \in DOMAIN exposed, NEW v \in WireChannels(k),
         Meets(r, w, Gate(k, v))
  PROVE  Key(r) = k /\ Leaf(DevicePort(k), v) = Leaf(r, w) /\ (Gone(DevicePort(k), v) <=> Gone(r, w))
<1>1. PICK u \in WireChannels(Key(r)) : Gate(k, v) = Gate(Key(r), u) /\ Spot(DevicePort(Key(r)), u) = Spot(r, w)
  BY DEF Meets
<1>2. Key(r) = k /\ u = v
  BY <1>1, GatesDiffer
<1>3. Spot(DevicePort(Key(r)), v) = Spot(r, w)
  BY <1>1, <1>2
<1>4. DevicePort(Key(r)).inst = r.inst
  BY DEF DevicePort, Key, Ref
<1> QED BY <1>2, <1>3, <1>4, SameGone DEF Leaf

\* A gate is a group's
LEMMA GateNotLow ==
  ASSUME Scoped, NEW k \in DOMAIN exposed, NEW v
  PROVE  ~ Low(Gate(k, v))
<1>1. group_of[k[1]] \in Groups
  BY ScopedIs, HeldIs
<1> QED BY <1>1 DEF Low, Gate

\* The first step from a device's port
LEMMA FirstStep ==
  ASSUME Scoped, NEW a \in Adjacent(LevelsOf(GroupedGraph)), a[1][1] = "R"
  PROVE  Told(a[1], a[2])
<1>1. ~ Inward(a[1], a[2]) /\ ~ Low(a[1])
  BY Kinds DEF Inward
<1>2. ASSUME Across(a[1], a[2]) PROVE Told(a[1], a[2])
  <2>1. PICK c \in Cut : \E q \in Pairs(c) : Meets(c.source, q[1], a[1]) /\ Meets(c.target, q[2], a[2])
    BY <1>2 DEF Across
  <2>2. PICK q \in Pairs(c) : Meets(c.source, q[1], a[1]) /\ Meets(c.target, q[2], a[2])
    BY <2>1
  <2>3. ~ Grouped(c.source)
    BY <2>2, Kinds DEF Meets
  <2>4. a[1] = Leaf(c.source, q[1]) /\ ~Gone(c.source, q[1])
    BY <2>2, <2>3 DEF Meets
  <2>5. CASE Grouped(c.target)
    BY <2>2, <2>4, <2>5 DEF Told
  <2>6. CASE ~ Grouped(c.target)
    <3>1. a[2] = Leaf(c.target, q[2]) /\ ~Gone(c.target, q[2])
      BY <2>2, <2>6 DEF Meets
    <3>2. c \in Cables
      BY DEF Cut
    <3> QED BY <2>4, <3>1, <3>2 DEF Linked, Told
  <2> QED BY <2>5, <2>6
<1> QED BY <1>1, <1>2, GroupedAdjacent DEF Told

\* and every step over a port on a boundary
LEMMA NextStep ==
  ASSUME Scoped, NEW s, NEW a \in Adjacent(LevelsOf(GroupedGraph)), Told(s, a[1]), a[1][1] = "B"
  PROVE  Told(s, a[2])
<1> DEFINE x == a[1]
<1>1. WiredAsUsed
  BY ScopedIs
<1>2. ~ Linked(s, x) /\ ~ Linked(x, a[2]) /\ ~ Outward(x, a[2])
  BY Kinds DEF Outward
<1>3. CASE Outward(s, x)
  <2>1. PICK k \in DOMAIN exposed : \E v \in WireChannels(k) :
          s = Leaf(DevicePort(k), v) /\ x = Gate(k, v) /\ exposed[k].dir # "in" /\ ~Gone(DevicePort(k), v)
    BY <1>3 DEF Outward
  <2>2. PICK v \in WireChannels(k) :
          s = Leaf(DevicePort(k), v) /\ x = Gate(k, v) /\ exposed[k].dir # "in" /\ ~Gone(DevicePort(k), v)
    BY <2>1
  <2>3. ~ Low(x)
    BY <2>2, GateNotLow
  <2>4. ~ Inward(x, a[2])
    <3> SUFFICES ASSUME Inward(x, a[2]) PROVE FALSE
      OBVIOUS
    <3>1. PICK j \in DOMAIN exposed : \E u \in WireChannels(j) : x = Gate(j, u) /\ exposed[j].dir = "in"
      BY DEF Inward
    <3> QED BY <2>2, <3>1, GatesDiffer
  <2>5. Across(x, a[2])
    BY <1>2, <2>3, <2>4, GroupedAdjacent
  <2>6. PICK c \in Cut : \E q \in Pairs(c) : Meets(c.source, q[1], x) /\ Meets(c.target, q[2], a[2])
    BY <2>5 DEF Across
  <2>7. PICK q \in Pairs(c) : Meets(c.source, q[1], x) /\ Meets(c.target, q[2], a[2])
    BY <2>6
  <2>8. Grouped(c.source)
    BY <2>7, Kinds DEF Meets
  <2>9. s = Leaf(c.source, q[1]) /\ ~Gone(c.source, q[1])
    <3>1. Key(c.source) \in DOMAIN exposed
      BY <2>8, CutCrosses
    <3> QED BY <2>2, <2>7, <2>8, <3>1, GateRead
  <2>10. CASE Grouped(c.target)
    BY <2>7, <2>9, <2>10 DEF Told
  <2>11. CASE ~ Grouped(c.target)
    <3>1. a[2] = Leaf(c.target, q[2]) /\ ~Gone(c.target, q[2])
      BY <2>7, <2>11 DEF Meets
    <3>2. c \in Cables
      BY DEF Cut
    <3> QED BY <2>9, <3>1, <3>2 DEF Linked, Told
  <2> QED BY <2>10, <2>11
<1>4. CASE \E c \in Cut : \E q \in Pairs(c) :
             Grouped(c.target) /\ s = Leaf(c.source, q[1]) /\ ~Gone(c.source, q[1]) /\ Meets(c.target, q[2], x)
  <2>1. PICK c \in Cut : \E q \in Pairs(c) :
             Grouped(c.target) /\ s = Leaf(c.source, q[1]) /\ ~Gone(c.source, q[1]) /\ Meets(c.target, q[2], x)
    BY <1>4
  <2>2. PICK q \in Pairs(c) :
             Grouped(c.target) /\ s = Leaf(c.source, q[1]) /\ ~Gone(c.source, q[1]) /\ Meets(c.target, q[2], x)
    BY <2>1
  <2> DEFINE k == Key(c.target)
  <2>3. k \in DOMAIN exposed /\ exposed[k].dir = "in"
    BY <1>1, <2>2, CutCrosses DEF WiredAsUsed
  <2>4. PICK v \in WireChannels(k) : x = Gate(k, v)
    BY <2>2 DEF Meets
  <2>5. Leaf(DevicePort(k), v) = Leaf(c.target, q[2]) /\ (Gone(DevicePort(k), v) <=> Gone(c.target, q[2]))
    BY <2>2, <2>3, <2>4, GateRead
  <2>6. ~ Low(x)
    BY <2>3, <2>4, GateNotLow
  <2>7. ~ Across(x, a[2])
    <3> SUFFICES ASSUME Across(x, a[2]) PROVE FALSE
      OBVIOUS
    <3>1. PICK d \in Cut : \E p \in Pairs(d) : Meets(d.source, p[1], x)
      BY DEF Across
    <3>2. PICK p \in Pairs(d) : Meets(d.source, p[1], x)
      BY <3>1
    <3>3. Grouped(d.source)
      BY <3>2, Kinds DEF Meets
    <3>4. Key(d.source) \in DOMAIN exposed
      BY <3>3, CutCrosses
    <3> HIDE DEF k
    <3>5. Meets(d.source, p[1], Gate(k, v))
      BY <2>4, <3>2
    <3>6. Key(d.source) = k
      BY <2>3, <3>3, <3>4, <3>5, GateRead
    <3> QED BY <1>1, <2>3, <3>3, <3>6 DEF WiredAsUsed
  <2>8. Inward(x, a[2])
    BY <1>2, <2>6, <2>7, GroupedAdjacent
  <2>9. PICK j \in DOMAIN exposed : \E u \in WireChannels(j) :
          x = Gate(j, u) /\ a[2] = Leaf(DevicePort(j), u) /\ ~Gone(DevicePort(j), u)
    BY <2>8 DEF Inward
  <2>10. PICK u \in WireChannels(j) : x = Gate(j, u) /\ a[2] = Leaf(DevicePort(j), u) /\ ~Gone(DevicePort(j), u)
    BY <2>9
  <2>11. j = k /\ u = v
    BY <2>3, <2>4, <2>10, GatesDiffer
  <2>12. a[2] = Leaf(c.target, q[2]) /\ ~Gone(c.target, q[2])
    BY <2>5, <2>10, <2>11
  <2>13. c \in Cables
    BY DEF Cut
  <2> QED BY <2>2, <2>12, <2>13 DEF Linked, Told
<1> QED BY <1>2, <1>3, <1>4 DEF Told

\* A cable's source, as the grouped graph's leaves reach its gate: at the device, or one wire further
LEMMA SourceMet ==
  ASSUME Scoped, NEW c \in Cut, NEW q \in Pairs(c), ~Gone(c.source, q[1]), NEW x, Meets(c.source, q[1], x)
  PROVE  \/ ~Grouped(c.source) /\ x = Leaf(c.source, q[1])
         \/ Grouped(c.source) /\ x[1] = "B" /\ <<Leaf(c.source, q[1]), x>> \in Adjacent(LevelsOf(GroupedGraph))
<1>1. CASE ~Grouped(c.source)
  BY <1>1 DEF Meets
<1>2. CASE Grouped(c.source)
  <2> DEFINE k == Key(c.source)
  <2>1. k \in DOMAIN exposed
    BY <1>2, CutCrosses
  <2>2. exposed[k].dir # "in"
    BY <1>2, ScopedIs DEF WiredAsUsed
  <2>3. PICK v \in WireChannels(k) : x = Gate(k, v)
    BY <1>2 DEF Meets
  <2> HIDE DEF k
  <2>4. Meets(c.source, q[1], Gate(k, v))
    BY <2>3
  <2>5. Leaf(DevicePort(k), v) = Leaf(c.source, q[1]) /\ (Gone(DevicePort(k), v) <=> Gone(c.source, q[1]))
    <3>1. Key(c.source) \in DOMAIN exposed
      BY <2>1 DEF k
    <3> QED BY <1>2, <2>1, <2>4, <3>1, GateRead
  <2>6. <<Leaf(DevicePort(k), v), Gate(k, v)>> \in Adjacent(LevelsOf(GroupedGraph))
    BY <2>1, <2>2, <2>5, GroupedDrawn
  <2>7. x[1] = "B"
    BY <2>3, Kinds
  <2> QED BY <1>2, <2>3, <2>5, <2>6, <2>7
<1> QED BY <1>1, <1>2

\* A cable's target, the same way: at the device, or a wire before it
LEMMA TargetMet ==
  ASSUME Scoped, NEW c \in Cut, NEW q \in Pairs(c), ~Gone(c.target, q[2]), NEW y, Meets(c.target, q[2], y)
  PROVE  \/ ~Grouped(c.target) /\ y = Leaf(c.target, q[2])
         \/ Grouped(c.target) /\ y[1] = "B" /\ <<y, Leaf(c.target, q[2])>> \in Adjacent(LevelsOf(GroupedGraph))
<1>1. CASE ~Grouped(c.target)
  BY <1>1 DEF Meets
<1>2. CASE Grouped(c.target)
  <2> DEFINE k == Key(c.target)
  <2>1. k \in DOMAIN exposed
    BY <1>2, CutCrosses
  <2>2. exposed[k].dir = "in"
    BY <1>2, ScopedIs DEF WiredAsUsed
  <2>3. PICK v \in WireChannels(k) : y = Gate(k, v)
    BY <1>2 DEF Meets
  <2> HIDE DEF k
  <2>4. Meets(c.target, q[2], Gate(k, v))
    BY <2>3
  <2>5. Leaf(DevicePort(k), v) = Leaf(c.target, q[2]) /\ (Gone(DevicePort(k), v) <=> Gone(c.target, q[2]))
    <3>1. Key(c.target) \in DOMAIN exposed
      BY <2>1 DEF k
    <3> QED BY <1>2, <2>1, <2>4, <3>1, GateRead
  <2>6. <<Gate(k, v), Leaf(DevicePort(k), v)>> \in Adjacent(LevelsOf(GroupedGraph))
    BY <2>1, <2>2, <2>5, GroupedDrawn
  <2>7. y[1] = "B"
    BY <2>3, Kinds
  <2> QED BY <1>2, <2>3, <2>5, <2>6, <2>7
<1> QED BY <1>1, <1>2

\* The group of a grouped device is a group
LEMMA SomeGroup ==
  ASSUME Scoped, NEW c \in Cut, NEW q \in Pairs(c), Grouped(c.source) \/ Grouped(c.target)
  PROVE  Cardinality(LevelsOf(GroupedGraph)) \in Nat \ {0, 1}
<1>1. PICK k : k \in DOMAIN exposed
  BY CutCrosses
<1>2. group_of[k[1]] \in Groups
  BY <1>1, ScopedIs, HeldIs
<1> QED BY <1>2, TwoLevels

\* Both graphs connect the same leaves: what the grouped graph's leaves are connected by is a cable
LEMMA GroupedLeaves ==
  ASSUME Scoped, NEW s, NEW t
  PROVE  LeafOf(Adjacent(LevelsOf(GroupedGraph)), Cardinality(LevelsOf(GroupedGraph)), s, t) <=> Linked(s, t)
<1> DEFINE A == Adjacent(LevelsOf(GroupedGraph))
<1> DEFINE N == Cardinality(LevelsOf(GroupedGraph))
<1>0. N \in Nat
  BY ScopedIs, SettledIs, Counted
<1>1. ASSUME LeafOf(A, N, s, t) PROVE Linked(s, t)
  <2>1. s[1] = "R" /\ t[1] = "R" /\ t \in Reached(A, s, N)[N]
    BY <1>1 DEF LeafOf
  <2> DEFINE S == {x \in {a[2] : a \in A} : Told(s, x)}
  <2>2. \A a \in A : a[1] = s => a[2] \in S
    BY <2>1, FirstStep
  <2>3. \A a \in A : a[1] \in S /\ a[1][1] = "B" => a[2] \in S
    BY NextStep
  <2> HIDE DEF A, N, S
  <2>4. Reached(A, s, N)[N] \subseteq S
    BY <1>0, <2>2, <2>3, ReachedIn
  <2>5. Told(s, t)
    BY <2>1, <2>4 DEF S
  <2>6. ~ Outward(s, t)
    BY <2>1, Kinds DEF Outward
  <2>7. ~ \E c \in Cut : \E q \in Pairs(c) : Grouped(c.target) /\ Meets(c.target, q[2], t)
    BY <2>1, Kinds DEF Meets
  <2> QED BY <2>5, <2>6, <2>7 DEF Told
<1>2. ASSUME Linked(s, t) PROVE LeafOf(A, N, s, t)
  <2>1. PICK c \in Cables : \E q \in Pairs(c) :
          s = Leaf(c.source, q[1]) /\ t = Leaf(c.target, q[2]) /\ ~Gone(c.source, q[1]) /\ ~Gone(c.target, q[2])
    BY <1>2 DEF Linked
  <2>2. PICK q \in Pairs(c) :
          s = Leaf(c.source, q[1]) /\ t = Leaf(c.target, q[2]) /\ ~Gone(c.source, q[1]) /\ ~Gone(c.target, q[2])
    BY <2>1
  <2>3. s[1] = "R" /\ t[1] = "R"
    BY <2>2, Kinds
  <2>4. CASE SameGroup(c)
    <3>1. <<s, t>> \in A
      BY <2>2, <2>4, GroupedDrawn
    <3> HIDE DEF A, N
    <3>2. t \in Reached(A, s, N)[N]
      BY <1>0, <3>1, ReachedOne
    <3> QED BY <2>3, <3>1, <3>2 DEF LeafOf
  <2>5. CASE ~ SameGroup(c)
    <3>1. c \in Cut
      BY <2>5 DEF Cut
    <3>2. PICK x, y : Meets(c.source, q[1], x) /\ Meets(c.target, q[2], y) /\ <<x, y>> \in A
      BY <2>2, <3>1, GroupedDrawn
    <3>3. \/ ~Grouped(c.source) /\ x = s
          \/ Grouped(c.source) /\ x[1] = "B" /\ <<s, x>> \in A
      BY <2>2, <3>1, <3>2, SourceMet
    <3>4. \/ ~Grouped(c.target) /\ y = t
          \/ Grouped(c.target) /\ y[1] = "B" /\ <<y, t>> \in A
      BY <2>2, <3>1, <3>2, TargetMet
    <3>5. Grouped(c.source) \/ Grouped(c.target) => N \in Nat \ {0, 1}
      BY <3>1, SomeGroup
    <3> HIDE DEF A, N
    <3>6. s \in {a[1] : a \in A} /\ t \in {a[2] : a \in A}
      BY <3>2, <3>3, <3>4
    <3>7. t \in Reached(A, s, N)[N]
      <4>1. CASE x = s /\ y = t
        BY <1>0, <3>2, <4>1, ReachedOne
      <4>2. CASE Grouped(c.source) /\ x[1] = "B" /\ <<s, x>> \in A /\ y = t
        <5>1. N \in Nat \ {0}
          BY <3>5, <4>2
        <5>2. <<x, t>> \in A
          BY <3>2, <4>2
        <5> QED BY <4>2, <5>1, <5>2, ReachedTwo
      <4>3. CASE x = s /\ Grouped(c.target) /\ y[1] = "B" /\ <<y, t>> \in A
        <5>1. N \in Nat \ {0}
          BY <3>5, <4>3
        <5>2. <<s, y>> \in A
          BY <3>2, <4>3
        <5> QED BY <4>3, <5>1, <5>2, ReachedTwo
      <4>4. CASE Grouped(c.source) /\ x[1] = "B" /\ <<s, x>> \in A /\ y[1] = "B" /\ <<y, t>> \in A
        <5>1. N \in Nat \ {0, 1}
          BY <3>5, <4>4
        <5> QED BY <3>2, <4>4, <5>1, ReachedThree
      <4> QED BY <3>3, <3>4, <4>1, <4>2, <4>3, <4>4
    <3> QED BY <2>3, <3>6, <3>7 DEF LeafOf
  <2> QED BY <2>4, <2>5
<1> QED BY <1>1, <1>2

\* Grouping keeps what is connected with what
LEMMA EquivalentSettled ==
  ASSUME Graphed
  PROVE  EquivalentInScope
<1> SUFFICES ASSUME Done, InScope PROVE LeafConnects(LevelsOf(FlatGraph)) = LeafConnects(LevelsOf(GroupedGraph))
  BY DEF EquivalentInScope, LeafEquivalent
<1>1. Scoped
  BY DEF Scoped, Settled
<1>2. \A s, t : LeafOf(Adjacent(LevelsOf(FlatGraph)), Cardinality(LevelsOf(FlatGraph)), s, t) <=> Linked(s, t)
  BY <1>1, FlatLeaves
<1>3. \A s, t : LeafOf(Adjacent(LevelsOf(GroupedGraph)), Cardinality(LevelsOf(GroupedGraph)), s, t) <=> Linked(s, t)
  BY <1>1, GroupedLeaves
<1> QED BY <1>2, <1>3, SameLeaves

-----------------------------------------------------------------------------
(* Every edge of a regular program ends at a port.                         *)

\* A whole reference to a ranged port is given some port of its owner
LEMMA NearLanded ==
  ASSUME NEW ports, NEW p, NEW C, Ranges(ports, p, C), C # {}
  PROVE  Near(ports, p \o Suffix(NoChannel)) \in NamesOf(ports)
<1> DEFINE names == <<p \o Suffix(1), p \o (<<"In">> \o Suffix(1)), p \o (<<"Out">> \o Suffix(1))>>
           hits == {k \in DOMAIN names : names[k] \in NamesOf(ports)}
           longer == {k \in DOMAIN ports : Extends(ports[k].name, p)}
<1>1. p \o Suffix(NoChannel) = p
  BY SuffixTyped, ConcatEmptySeq DEF Ranges, MaybeChannel, Str
<1>2. Near(ports, p) =
        CASE p \in NamesOf(ports) -> p
          [] p \notin NamesOf(ports) /\ hits # {} -> FirstAt(names, hits)
          [] p \notin NamesOf(ports) /\ hits = {} /\ longer # {} -> FirstAt(ports, longer).name
          [] OTHER -> p
  BY DEF Near, names
<1>3. CASE p \in NamesOf(ports)
  BY <1>1, <1>2, <1>3
<1>4. CASE p \notin NamesOf(ports) /\ hits # {}
  <2>1. DOMAIN names = {1, 2, 3}
    OBVIOUS
  <2> HIDE DEF names
  <2>2. hits \subseteq Nat
    BY <2>1
  <2>3. PICK k \in hits : FirstAt(names, hits) = names[k]
    <3> HIDE DEF hits
    <3> QED BY <1>4, <2>2, FirstAtIs
  <2>4. FirstAt(names, hits) \in NamesOf(ports)
    BY <2>3
  <2> HIDE DEF hits, longer
  <2> QED BY <1>1, <1>2, <1>4, <2>4
<1>5. CASE p \notin NamesOf(ports) /\ hits = {}
  <2>1. PICK c \in C : c \in MaybeChannel /\ p \o Suffix(c) \in NamesOf(ports)
    BY DEF Ranges
  <2>2. PICK k \in DOMAIN ports : ports[k].name = p \o Suffix(c)
    BY <2>1 DEF NamesOf, ElementsOf
  <2>3. c # NoChannel
    BY <1>1, <1>5, <2>1
  <2>4. p \in Str /\ Suffix(c) \in Str /\ Suffix(c) # <<>>
    <3>1. p \in Str /\ Suffix(c) \in Str /\ Suffix(c) = <<Numeral[c]>>
      BY <2>1, <2>3, SuffixTyped DEF Ranges
    <3> QED BY <3>1
  <2>5. Extends(ports[k].name, p)
    BY <2>2, <2>4, JoinedDiffers DEF Extends, IsStrictPrefix
  <2>6. k \in longer /\ longer \subseteq Nat
    BY <2>5 DEF Ranges
  <2>7. PICK j \in longer : FirstAt(ports, longer) = ports[j]
    <3> HIDE DEF longer
    <3> QED BY <2>6, FirstAtIs
  <2>8. FirstAt(ports, longer).name \in NamesOf(ports)
    BY <2>7 DEF NamesOf, ElementsOf
  <2> HIDE DEF hits, longer
  <2> QED BY <1>1, <1>2, <1>5, <2>6, <2>8
<1> QED BY <1>3, <1>4, <1>5

\* What a reference names and the compiler does not drop is a port of the device
LEMMA DeviceLanded ==
  ASSUME Settled, NEW r, TypedRef(r), r.inst \in Devices, NotBelow(r), PortsApart({r.inst}),
         NEW w \in ElementsOf(FlattenOpt(r)), ~Gone(r, w)
  PROVE  Spot(r, w) \in NamesOf(E(r.inst))
<1> DEFINE d == LastNamed(OwnPorts(r), r.port)
           C == ChannelsOf(d)
<1>1. Reading /\ Own(r)
  BY SettledIs DEF NotBelow
<1>2. /\ TypedPort(d) /\ Ranges(E(r.inst), r.port, C) /\ C # {}
      /\ (d.ranged => d.lo <= d.hi)
      /\ FirstOf(r) = (IF d.ranged THEN d.lo ELSE 1) /\ PortEnd(r) = (IF d.ranged THEN d.hi ELSE NoEnd)
  BY <1>1, OwnRanges
<1>3. CASE r.index = <<>>
  <2>1. ElementsOf(FlattenOpt(r)) = {NoChannel}
    BY <1>3 DEF FlattenOpt, ElementsOf
  <2>2. w = NoChannel
    BY <2>1
  <2> HIDE DEF C
  <2>3. Near(E(r.inst), r.port \o Suffix(NoChannel)) \in NamesOf(E(r.inst))
    BY <1>2, NearLanded
  <2> QED BY <2>2, <2>3 DEF Spot, Called
<1>4. CASE r.index # <<>>
  <2>1. w \in ElementsOf(r.index) /\ w >= FirstOf(r) /\ PortEnd(r) # NoEnd
    BY <1>4 DEF FlattenOpt, NotBelow
  <2>2. w \in Channel
    BY <2>1 DEF TypedRef, ElementsOf
  <2>3. d.ranged /\ FirstOf(r) = d.lo /\ C = d.lo..d.hi /\ d.lo \in Channel /\ d.hi \in Channel /\ d.lo <= d.hi
    BY <1>2, <2>1 DEF ChannelsOf, TypedPort
  <2> HIDE DEF C, d
  <2>4. Spot(r, w) = r.port \o Suffix(w)
    BY <1>2, <2>2, NearChannel, OneIsChannel DEF Spot, Called
  <2>5. w \in C
    <3> SUFFICES ASSUME w \notin C PROVE FALSE
      OBVIOUS
    <3>1. Channel \subseteq Nat
      BY OneIsChannel
    <3>2. w \in Nat /\ d.lo \in Nat /\ d.hi \in Nat
      BY <2>2, <2>3, <3>1
    <3> DEFINE lo == d.lo
               hi == d.hi
    <3>3. lo \in Nat /\ hi \in Nat /\ C = lo..hi /\ w >= lo /\ lo \in Channel /\ lo <= hi
      BY <2>1, <2>3, <3>2
    <3> HIDE DEF lo, hi
    <3>4. w > hi
      BY <3>2, <3>3
    <3>5. lo \in C \cap Channel /\ \A j \in C \cap Channel : w > j
      BY <3>2, <3>3, <3>4
    <3>6. Above(E(r.inst), r.port \o Suffix(w))
      BY <1>2, <2>2, <3>5, AboveChannel
    <3> QED BY <2>4, <3>6 DEF Gone
  <2>6. r.port \o Suffix(w) \in NamesOf(E(r.inst))
    BY <1>2, <2>2, <2>5, OneIsChannel DEF Ranges
  <2> QED BY <2>4, <2>6
<1> QED BY <1>3, <1>4

\* A node shows the ports of its owner
LEMMA NodeShows ==
  ASSUME NEW nodes, NEW o, NEW ports, Shows(nodes, o, ports), NEW x \in NamesOf(ports)
  PROVE  o \in DOMAIN nodes /\ <<o, x>> \in {Id(p) : p \in ElementsOf(nodes[o])}
<1>1. PICK k \in DOMAIN ports : x = ports[k].name
  BY DEF NamesOf, ElementsOf
<1>2. k \in DOMAIN nodes[o] /\ nodes[o][k].owner = o /\ nodes[o][k].name = x /\ o \in DOMAIN nodes
  BY <1>1 DEF Shows
<1>3. nodes[o][k] \in ElementsOf(nodes[o]) /\ Id(nodes[o][k]) = <<o, x>>
  BY <1>2 DEF ElementsOf, Id
<1> QED BY <1>2, <1>3

\* Every channel that is wired is one of the boundary's
LEMMA WiredShown ==
  ASSUME Scoped, Regular, NEW k \in DOMAIN exposed, NEW w \in WireChannels(k)
  PROVE  /\ w \in BoundaryChannels(k) /\ w \in MaybeChannel
         /\ Outer(k) \o Suffix(w) \in NamesOf(B(group_of[k[1]]))
<1>1. /\ Settled /\ TextsApart /\ WholeFromOne /\ PortsApart(DOMAIN group_of) /\ BoundaryExact
      /\ exposed[k].channels \subseteq Channel /\ IsFiniteSet(exposed[k].channels)
  BY ScopedIs, SettledIs, KeyTyped
<1>2. w \in BoundaryChannels(k)
  <2>1. CASE exposed[k].whole
    BY <2>1 DEF WireChannels
  <2>2. CASE ~ exposed[k].whole
    <3>1. w \in exposed[k].channels
      BY <2>2 DEF WireChannels
    <3>2. PICK r \in NotedRefs : Key(r) = k /\ w \in ElementsOf(r.index)
      BY <1>1, <3>1 DEF BoundaryExact
    <3>3. w >= 1
      BY <3>2 DEF Regular, NotBelow
    <3> DEFINE h == Highest(exposed[k].channels)
    <3>4. h \in exposed[k].channels /\ w <= h
      BY <1>1, <3>1, HighestIs
    <3>5. BoundaryChannels(k) = 1..h
      BY <2>2 DEF BoundaryChannels, ChannelsOf, BoundaryPort
    <3>6. w \in Nat /\ h \in Nat
      BY <1>1, <3>1, <3>4, OneIsChannel
    <3> HIDE DEF h
    <3> QED BY <3>3, <3>4, <3>5, <3>6
  <2> QED BY <2>1, <2>2
<1>3. w \in MaybeChannel
  BY <1>1, WiredIs
<1>4. k \in ExposedBy(group_of[k[1]])
  BY <1>1, HeldIs
<1>5. Ranges(B(group_of[k[1]]), Outer(k), BoundaryChannels(k))
  BY <1>1, <1>4, BoundaryRanges
<1> HIDE DEF Outer
<1> QED BY <1>2, <1>3, <1>5 DEF Ranges

\* and its device's end a port of the device
LEMMA WireDeviceLands ==
  ASSUME Scoped, Regular, NEW k \in DOMAIN exposed, NEW w \in WireChannels(k), ~Gone(DevicePort(k), w)
  PROVE  Spot(DevicePort(k), w) \in NamesOf(E(k[1]))
<1>1. /\ Settled /\ WholeFromOne /\ PortsApart(DOMAIN group_of) /\ BoundaryExact
      /\ k[1] \in Devices
  BY ScopedIs, SettledIs, KeyTyped
<1>2. DevicePort(k).inst = k[1] /\ DevicePort(k).port = k[2]
  BY DEF DevicePort, Ref
<1>3. CASE exposed[k].whole
  <2>1. Ranges(E(k[1]), k[2], BoundaryChannels(k))
    BY <1>1, <1>3, WholeIs
  <2>2. w \in BoundaryChannels(k) /\ w \in MaybeChannel
    BY WiredShown
  <2>3. k[2] \o Suffix(w) \in NamesOf(E(k[1]))
    BY <2>1, <2>2 DEF Ranges
  <2>4. Near(E(k[1]), k[2] \o Suffix(w)) = k[2] \o Suffix(w)
    BY <2>3, NearThere
  <2> QED BY <1>2, <2>3, <2>4 DEF Spot, Called
<1>4. CASE ~ exposed[k].whole
  <2>1. w \in exposed[k].channels
    BY <1>4 DEF WireChannels
  <2>2. PICK r \in NotedRefs : Key(r) = k /\ w \in ElementsOf(r.index)
    BY <1>1, <2>1 DEF BoundaryExact
  <2>3. TypedRef(r) /\ r.inst = k[1] /\ r.port = k[2] /\ NotBelow(r)
    BY <1>1, <2>2, NotedAre, HeldIs DEF Regular
  <2>4. r.index # <<>>
    BY <2>2 DEF ElementsOf
  <2>5. w \in ElementsOf(FlattenOpt(r))
    BY <2>2, <2>4 DEF FlattenOpt
  <2>6. PortsApart({r.inst})
    BY <1>1, <2>3 DEF Regular, PortsApart
  <2>7. Spot(DevicePort(k), w) = Spot(r, w)
    BY <1>2, <2>3 DEF Spot, Called
  <2>8. ~ Gone(r, w)
    BY <1>2, <2>3, <2>7 DEF Gone
  <2>9. Spot(r, w) \in NamesOf(E(r.inst))
    BY <1>1, <2>3, <2>5, <2>6, <2>8, DeviceLanded
  <2> QED BY <2>3, <2>7, <2>9
<1> QED BY <1>3, <1>4

\* What an edge names is there
SourceThere(l, e) == e.sourceNode \in DOMAIN l.nodes /\ e.sourcePort \in {Id(p) : p \in ElementsOf(l.nodes[e.sourceNode])}
TargetThere(l, e) == e.targetNode \in DOMAIN l.nodes /\ e.targetPort \in {Id(p) : p \in ElementsOf(l.nodes[e.targetNode])}

\* A cable's end at a device
LEMMA CableLands ==
  ASSUME Scoped, Regular, NEW c \in Cables, NEW q \in Pairs(c)
  PROVE  /\ ~Gone(c.source, q[1]) => Spot(c.source, q[1]) \in NamesOf(E(c.source.inst))
         /\ ~Gone(c.target, q[2]) => Spot(c.target, q[2]) \in NamesOf(E(c.target.inst))
<1>1. Settled /\ c.source.inst \in Devices /\ c.target.inst \in Devices
  BY ScopedIs DEF CablesJoinDevices
<1>2. TypedRef(c.source) /\ TypedRef(c.target)
  BY <1>1, CableTyped
<1>3. c.mapping.kind = "default" /\ NotBelow(c.source) /\ NotBelow(c.target)
  BY DEF Regular
<1>4. q[1] \in ElementsOf(FlattenOpt(c.source)) /\ q[2] \in ElementsOf(FlattenOpt(c.target))
  BY <1>2, <1>3, PairsName
<1>5. PortsApart({c.source.inst}) /\ PortsApart({c.target.inst})
  BY <1>1 DEF Regular, PortsApart
<1> QED BY <1>1, <1>2, <1>3, <1>4, <1>5, DeviceLanded

\* In the flat root
LEMMA FlatLands ==
  ASSUME Scoped, Regular, NEW f \in Root(flat).edges, f.type = "connect"
  PROVE  SourceThere(Root(flat), f) /\ TargetThere(Root(flat), f)
<1>1. PICK c \in Cables : \E q \in Pairs(c) : FlatLink(c, q, f) /\ ~Gone(c.source, q[1]) /\ ~Gone(c.target, q[2])
  BY FlatRoot
<1>2. PICK q \in Pairs(c) : FlatLink(c, q, f) /\ ~Gone(c.source, q[1]) /\ ~Gone(c.target, q[2])
  BY <1>1
<1>3. Root(flat).nodes = RootNodes(flat)
  BY RootParts
<1>4. Settled /\ c.source.inst \in Devices /\ c.target.inst \in Devices
  BY ScopedIs DEF CablesJoinDevices
<1>5. Shows(RootNodes(flat), <<c.source.inst>>, E(c.source.inst)) /\ Shows(RootNodes(flat), <<c.target.inst>>, E(c.target.inst))
  BY <1>4, FlatShows
<1>6. Spot(c.source, q[1]) \in NamesOf(E(c.source.inst)) /\ Spot(c.target, q[2]) \in NamesOf(E(c.target.inst))
  BY <1>2, CableLands
<1>7. /\ <<c.source.inst>> \in DOMAIN RootNodes(flat)
      /\ <<<<c.source.inst>>, Spot(c.source, q[1])>> \in {Id(p) : p \in ElementsOf(RootNodes(flat)[<<c.source.inst>>])}
  BY <1>5, <1>6, NodeShows
<1>8. /\ <<c.target.inst>> \in DOMAIN RootNodes(flat)
      /\ <<<<c.target.inst>>, Spot(c.target, q[2])>> \in {Id(p) : p \in ElementsOf(RootNodes(flat)[<<c.target.inst>>])}
  BY <1>5, <1>6, NodeShows
<1> QED BY <1>2, <1>3, <1>7, <1>8 DEF FlatLink, SourceThere, TargetThere

\* A cut cable's end at the top
LEMMA CrossLanded ==
  ASSUME Scoped, Regular, NEW c \in Cut, NEW r \in {c.source, c.target}, NEW w \in ElementsOf(FlattenOpt(r)), ~Off(r, w),
         ~Grouped(r) => Spot(r, w) \in NamesOf(E(r.inst))
  PROVE  /\ NodeOf(r) \in DOMAIN RootNodes(grouped)
         /\ <<NodeOf(r), PortOf(r, w)>> \in {Id(p) : p \in ElementsOf(RootNodes(grouped)[NodeOf(r)])}
<1>1. Settled /\ GroupsApart
  BY ScopedIs
<1>2. CASE Grouped(r)
  <2> DEFINE g == group_of[r.inst]
  <2>1. r \in NotedRefs /\ Key(r) \in DOMAIN exposed
    BY <1>1, <1>2, NotedAre
  <2>2. Key(r)[1] = r.inst
    BY DEF Key
  <2>3. g \in Groups
    BY <1>1, <2>1, <2>2, HeldIs
  <2>4. PICK v \in WireChannels(Key(r)) : PortOf(r, w) = Outer(Key(r)) \o Suffix(v)
    BY <1>2, <2>1, CrossingIs
  <2>5. PortOf(r, w) \in NamesOf(B(g))
    BY <2>1, <2>2, <2>4, WiredShown
  <2>6. Shows(RootNodes(grouped), <<GroupInstance(g)>>, B(g))
    BY <1>1, <2>3, GroupShows
  <2>7. NodeOf(r) = <<GroupInstance(g)>>
    BY <1>2 DEF NodeOf, Path
  <2> HIDE DEF g
  <2> QED BY <2>5, <2>6, <2>7, NodeShows
<1>3. CASE ~ Grouped(r)
  <2>1. r.inst \in Devices /\ r.inst \notin DOMAIN group_of
    BY <1>3, ScopedIs DEF CablesJoinDevices, Cut, Grouped
  <2>2. Shows(RootNodes(grouped), <<r.inst>>, E(r.inst))
    BY <1>1, <2>1, TopShows
  <2>3. NodeOf(r) = <<r.inst>> /\ PortOf(r, w) = Spot(r, w) /\ Spot(r, w) \in NamesOf(E(r.inst))
    BY <1>3 DEF NodeOf, PortOf
  <2> QED BY <2>2, <2>3, NodeShows
<1> QED BY <1>2, <1>3

\* In the grouped root
LEMMA TopLands ==
  ASSUME Scoped, Regular, NEW f \in Root(grouped).edges, f.type = "connect"
  PROVE  SourceThere(Root(grouped), f) /\ TargetThere(Root(grouped), f)
<1>1. PICK c \in Cut : \E q \in Pairs(c) : TopLink(c, q, f) /\ ~Off(c.source, q[1]) /\ ~Off(c.target, q[2])
  BY GroupedRoot
<1>2. PICK q \in Pairs(c) : TopLink(c, q, f) /\ ~Off(c.source, q[1]) /\ ~Off(c.target, q[2])
  BY <1>1
<1>3. Root(grouped).nodes = RootNodes(grouped)
  BY RootParts
<1>4. c \in Cables /\ Settled
  BY ScopedIs DEF Cut
<1>5. TypedRef(c.source) /\ TypedRef(c.target) /\ c.mapping.kind = "default"
  BY <1>4, CableTyped DEF Regular
<1>6. q[1] \in ElementsOf(FlattenOpt(c.source)) /\ q[2] \in ElementsOf(FlattenOpt(c.target))
  BY <1>5, PairsName
<1>7. /\ ~Grouped(c.source) => Spot(c.source, q[1]) \in NamesOf(E(c.source.inst))
      /\ ~Grouped(c.target) => Spot(c.target, q[2]) \in NamesOf(E(c.target.inst))
  BY <1>2, <1>4, CableLands DEF Off
<1>8. /\ NodeOf(c.source) \in DOMAIN RootNodes(grouped)
      /\ <<NodeOf(c.source), PortOf(c.source, q[1])>> \in {Id(p) : p \in ElementsOf(RootNodes(grouped)[NodeOf(c.source)])}
  BY <1>2, <1>6, <1>7, CrossLanded
<1>9. /\ NodeOf(c.target) \in DOMAIN RootNodes(grouped)
      /\ <<NodeOf(c.target), PortOf(c.target, q[2])>> \in {Id(p) : p \in ElementsOf(RootNodes(grouped)[NodeOf(c.target)])}
  BY <1>2, <1>6, <1>7, CrossLanded
<1> QED BY <1>2, <1>3, <1>8, <1>9 DEF TopLink, SourceThere, TargetThere

\* In a group's level, at boxes and faces
LEMMA GroupLands ==
  ASSUME Scoped, Regular, NEW g \in Groups, NEW f \in GroupLevel(g).edges
  PROVE  SourceThere(GroupLevel(g), f) /\ TargetThere(GroupLevel(g), f)
<1>1. Settled /\ GroupsApart
  BY ScopedIs
<1>2. GroupLevel(g).nodes = Shelf(g)
  BY <1>1, GroupLevelIs, FinishIs
<1>3. ASSUME NEW n \in Held(g), NEW x \in NamesOf(E(n))
      PROVE  Box(g, n) \in DOMAIN Shelf(g) /\ <<Box(g, n), x>> \in {Id(p) : p \in ElementsOf(Shelf(g)[Box(g, n)])}
  BY <1>1, <1>3, BoxShows, NodeShows
<1>4. ASSUME NEW c \in Intra(g), NEW p \in Pairs(c), InnerLink(g, c, p, f), ~Gone(c.source, p[1]), ~Gone(c.target, p[2])
      PROVE  SourceThere(GroupLevel(g), f) /\ TargetThere(GroupLevel(g), f)
  <2>1. c \in Cables
    BY DEF Intra
  <2>2. c.source.inst \in Held(g) /\ c.target.inst \in Held(g)
    BY <1>1, ScopedIs, IntraResolves
  <2>3. Spot(c.source, p[1]) \in NamesOf(E(c.source.inst)) /\ Spot(c.target, p[2]) \in NamesOf(E(c.target.inst))
    BY <1>4, <2>1, CableLands
  <2>4. /\ Box(g, c.source.inst) \in DOMAIN Shelf(g)
        /\ <<Box(g, c.source.inst), Spot(c.source, p[1])>> \in {Id(i) : i \in ElementsOf(Shelf(g)[Box(g, c.source.inst)])}
    BY <1>3, <2>2, <2>3
  <2>5. /\ Box(g, c.target.inst) \in DOMAIN Shelf(g)
        /\ <<Box(g, c.target.inst), Spot(c.target, p[2])>> \in {Id(i) : i \in ElementsOf(Shelf(g)[Box(g, c.target.inst)])}
    BY <1>3, <2>2, <2>3
  <2> QED BY <1>2, <1>4, <2>4, <2>5 DEF InnerLink, SourceThere, TargetThere
<1>5. ASSUME NEW k \in ExposedBy(g), NEW w \in WireChannels(k), WireLink(g, k, w, f), ~Gone(DevicePort(k), w)
      PROVE  SourceThere(GroupLevel(g), f) /\ TargetThere(GroupLevel(g), f)
  <2> DEFINE rim == Outer(k) \o Suffix(w)
             there == Spot(DevicePort(k), w)
  <2>1. k \in DOMAIN exposed /\ group_of[k[1]] = g
    BY DEF ExposedBy
  <2>2. k[1] \in Held(g)
    BY <1>1, <2>1, HeldIs
  <2>3. there \in NamesOf(E(k[1]))
    BY <1>5, <2>1, WireDeviceLands
  <2>4. Box(g, k[1]) \in DOMAIN Shelf(g) /\ <<Box(g, k[1]), there>> \in {Id(i) : i \in ElementsOf(Shelf(g)[Box(g, k[1])])}
    BY <1>3, <2>2, <2>3
  <2>5. rim \in NamesOf(B(g))
    BY <2>1, WiredShown
  <2>6. ASSUME NEW node, RimNode(g, node, rim)
        PROVE  node \in DOMAIN Shelf(g) /\ <<Path(g), rim>> \in {Id(i) : i \in ElementsOf(Shelf(g)[node])}
    BY <1>1, <2>5, <2>6, ShelfIs DEF RimNode
  <2> HIDE DEF there
  <2>7. CASE exposed[k].dir = "in"
    <3>1. /\ RimNode(g, f.sourceNode, rim) /\ f.sourcePort = <<Path(g), rim>>
          /\ f.targetNode = Box(g, k[1]) /\ f.targetPort = <<Box(g, k[1]), there>>
      BY <1>5, <2>7 DEF WireLink, Rim, there
    <3> HIDE DEF rim
    <3> QED BY <1>2, <2>4, <2>6, <3>1 DEF SourceThere, TargetThere
  <2>8. CASE exposed[k].dir # "in"
    <3>1. /\ RimNode(g, f.targetNode, rim) /\ f.targetPort = <<Path(g), rim>>
          /\ f.sourceNode = Box(g, k[1]) /\ f.sourcePort = <<Box(g, k[1]), there>>
      BY <1>5, <2>8 DEF WireLink, Rim, there
    <3> HIDE DEF rim
    <3> QED BY <1>2, <2>4, <2>6, <3>1 DEF SourceThere, TargetThere
  <2> QED BY <2>7, <2>8
<1> QED BY <1>4, <1>5, GroupLevelEdges

\* which is what EdgesLand asks for
LEMMA LandsSettled ==
  ASSUME Graphed
  PROVE  EdgesLand
<1> SUFFICES ASSUME Done, Regular, InScope, NEW l \in {FlatGraph.root, GroupedGraph.root} \cup LevelsOfGroups,
                    NEW e \in {e \in l.edges : e.type = "connect"}
             PROVE  SourceThere(l, e) /\ TargetThere(l, e)
  BY DEF EdgesLand, SourceThere, TargetThere
<1>1. Scoped
  BY DEF Scoped, Settled
<1>2. Settled /\ GroupsApart
  BY <1>1, ScopedIs
<1>3. FlatGraph.root = Root(flat) /\ GroupedGraph.root = Root(grouped)
  BY <1>2, SettledIs DEF CompileToGraph
<1>4. CASE l = FlatGraph.root
  BY <1>1, <1>3, <1>4, FlatLands
<1>5. CASE l = GroupedGraph.root
  BY <1>1, <1>3, <1>5, TopLands
<1>6. CASE l \in LevelsOfGroups
  <2>1. PICK g \in Groups : l.path = Path(g) /\ l \in GroupedGraph.inside
    BY <1>6 DEF LevelsOfGroups, Path
  <2>2. l = GroupLevel(g)
    BY <1>2, <2>1, LevelOfPath
  <2> QED BY <1>1, <2>2, GroupLands
<1> QED BY <1>4, <1>5, <1>6

-----------------------------------------------------------------------------
(* The four properties of the compiled contraction.                        *)

\* For every program within scope and every assignment of its instances to groups: the channels of
\* a port that crosses a boundary which its group's level wires to the boundary are the existing
\* ones that cross, all of them when the whole port does (build_group_templates, contract.rs).
THEOREM BoundaryIsWired == ViewSpec => []BoundaryWired
BY GraphsOfTables, WiredSettled, PTL

\* For every such program: the one channel that a signal originates from is the port it originates
\* from in the grouped program, or its group's level wires it to that port (promote_origin).
THEOREM OriginsStay == ViewSpec => []OriginsKept
BY GraphsOfTables, OriginsSettled, PTL

\* For every such program: the compiled graph of the result is leaf-equivalent to the flat program's,
\* the promise of contract_to_hierarchy.
THEOREM ContractionIsEquivalent == ViewSpec => []EquivalentInScope
BY GraphsOfTables, EquivalentSettled, PTL

\* For every such program that is regular too: each connect edge of the two roots and of the groups'
\* levels names nodes of its level and ports that these show (compile_ast_to_graph).
THEOREM EveryEdgeLands == ViewSpec => []EdgesLand
BY GraphsOfTables, LandsSettled, PTL
=============================================================================
