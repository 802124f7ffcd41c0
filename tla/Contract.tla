------------------------------ MODULE Contract ------------------------------
(***************************************************************************)
(* contract_to_hierarchy (contract.rs): a flat program and an assignment   *)
(* of its instances to clusters become a program of group templates whose  *)
(* exposed ports carry what crosses their boundary.                        *)
(*                                                                         *)
(* The instance map, the port lookup and the grouping are one step; then   *)
(* each connect and each signal is a step, and the assembly one more.      *)
(* Spans, properties and suppressions ride along and are left out.         *)
(***************************************************************************)
EXTENDS GraphProgram, SequencesExt

CONSTANTS
  Inputs,        \* pairs of a flat program and an assignment [instances -> Cluster]
  Cluster,       \* cluster IDs
  Ungrouped,     \* the cluster small ones are folded into
  Sanitized,     \* [Cluster -> text]: sanitize of a cluster ID
  MinGroupSize   \* 3 in the code

ASSUME Clusters == Ungrouped \in Cluster /\ DOMAIN Sanitized = Cluster
ASSUME SizeIsNatural == MinGroupSize \in Nat

\* The parser and the structural rules leave names of instances unique
ASSUME InputsWellFormed ==
  \A x \in Inputs :
    /\ DOMAIN x[2] \subseteq InstanceNames(x[1])
    /\ \A n \in DOMAIN x[2] : x[2][n] \in Cluster
    /\ \A j, k \in DOMAIN x[1].instances : x[1].instances[j].name = x[1].instances[k].name => j = k

ASSUME InputsTyped ==
  \A x \in Inputs :
    /\ x[1].connects \in Seq(ElementsOf(x[1].connects)) /\ x[1].signals \in Seq(ElementsOf(x[1].signals))
    /\ \A c \in ElementsOf(x[1].connects) : c.source.indexed \in BOOLEAN /\ c.target.indexed \in BOOLEAN
    /\ \A s \in ElementsOf(x[1].signals) : s.origin.indexed \in BOOLEAN

VARIABLES
  flat,        \* the program
  assignment,
  phase,       \* "group", "connects", "signals", "assemble", "done"
  at,          \* the connect or signal that is next
  group_of,    \* the group of each instance that is not kept at the top
  exposed,     \* (instance, port) |-> the port that stands for it on its group's boundary
  intra,       \* connects that stay inside a group
  top_connects,
  top_signals,
  grouped      \* the result, <<>> until it is assembled

vars == <<flat, assignment, phase, at, group_of, exposed, intra, top_connects, top_signals, grouped>>

-----------------------------------------------------------------------------
(* Reading the flat program.                                               *)

\* port_dir, port_end: the template's own ports only, cards are not looked at
OwnPorts(ref) ==
  IF ref.inst \in InstanceNames(flat) THEN Lookup(flat, LastNamed(flat.instances, ref.inst).template).ports ELSE <<>>
Own(ref) == \E d \in ElementsOf(OwnPorts(ref)) : d.name = ref.port

NoEnd == -1
PortEnd(ref) ==
  IF Own(ref) /\ LastNamed(OwnPorts(ref), ref.port).ranged THEN LastNamed(OwnPorts(ref), ref.port).hi ELSE NoEnd
PortDir(ref, fallback) == IF Own(ref) THEN LastNamed(OwnPorts(ref), ref.port).dir ELSE fallback

ClusterOf(name) == IF name \in DOMAIN assignment THEN assignment[name] ELSE Ungrouped
Members(c) == {n \in InstanceNames(flat) : ClusterOf(n) = c}

Folded(name) == IF Cardinality(Members(ClusterOf(name))) >= MinGroupSize THEN ClusterOf(name) ELSE Ungrouped

Crosses(c) ==
  /\ {c.source.inst, c.target.inst} \subseteq InstanceNames(flat)
  /\ Folded(c.source.inst) # Folded(c.target.inst)

\* A whole port whose width is not declared
Widthless(ref) == ~ref.indexed /\ PortEnd(ref) = NoEnd

\* Instances kept at the top because a cable that crosses could not be promoted.
\* What crosses is decided once, before any of them is taken out of its group.
ForcedTop ==
  UNION {LET ends == {c.source, c.target}
         IN IF c.mapping.kind # "default" THEN {r.inst : r \in ends}
            ELSE {r.inst : r \in {r \in ends : Widthless(r)}}
           : c \in {c \in ElementsOf(flat.connects) : Crosses(c)}}

Init ==
  /\ \E x \in Inputs : flat = x[1] /\ assignment = x[2]
  /\ phase = "group"
  /\ at = 1
  /\ group_of = <<>>
  /\ exposed = <<>>
  /\ intra = <<>>
  /\ top_connects = <<>>
  /\ top_signals = <<>>
  /\ grouped = <<>>

Group ==
  /\ phase = "group"
  /\ group_of' = [n \in InstanceNames(flat) \ ForcedTop |-> Folded(n)]
  /\ phase' = "connects"
  /\ UNCHANGED <<flat, assignment, at, exposed, intra, top_connects, top_signals, grouped>>

-----------------------------------------------------------------------------
(* Exposed ports (note_exposure).                                          *)

Grouped(ref) == ref.inst \in DOMAIN group_of

Key(ref) == <<ref.inst, ref.port>>

UsedNames(g) == {exposed[k].name : k \in {k \in DOMAIN exposed : group_of[k[1]] = g}}

\* The name the port has, or the first of base, base_2, base_3, ... that is not in use
ExposedNames(ref) ==
  LET base == ref.inst \o ref.port
      used == UsedNames(group_of[ref.inst])
      numbered(k) == base \o <<Numeral[k]>>
  IN CASE Key(ref) \in DOMAIN exposed -> {exposed[Key(ref)].name}
       [] Key(ref) \notin DOMAIN exposed /\ base \notin used -> {base}
       [] OTHER -> {numbered(k) : k \in {k \in 2..(Modulus - 1) :
                      numbered(k) \notin used /\ \A j \in 2..(k - 1) : numbered(j) \in used}}

\* Mutant: only the first reference's channels are recorded
NotedOnce(ports, ref, name, dir) ==
  ports @@ (Key(ref) :> [name |-> name, dir |-> dir, whole |-> ~ref.indexed, channels |-> ElementsOf(ref.index),
                         end |-> PortEnd(ref)])

Noted(ports, ref, name, dir) ==
  LET k == Key(ref)
      entry == IF k \in DOMAIN ports THEN ports[k]
               ELSE [name |-> name, dir |-> dir, whole |-> FALSE, channels |-> {}, end |-> PortEnd(ref)]
  IN [x \in DOMAIN ports \cup {k} |->
        IF x = k THEN [entry EXCEPT !.whole = @ \/ ~ref.indexed, !.channels = @ \cup ElementsOf(ref.index)]
        ELSE ports[x]]

GroupInstance(g) == <<"G">> \o Sanitized[g]
GroupTemplate(g) == <<"Group">> \o Sanitized[g]

\* Mutant: the promoted reference loses its channels
PromotedWhole(ref, name) == Ref(GroupInstance(group_of[ref.inst]), name, FALSE, <<>>)

Promoted(ref, name) == [ref EXCEPT !.inst = GroupInstance(group_of[ref.inst]), !.port = name]

-----------------------------------------------------------------------------
(* One connect at a time.                                                  *)

Current == flat.connects[at]

SameGroup(c) ==
  Grouped(c.source) /\ Grouped(c.target) /\ group_of[c.source.inst] = group_of[c.target.inst]

Classifying == phase = "connects" /\ at <= Len(flat.connects)

KeepInside ==
  /\ Classifying /\ SameGroup(Current)
  /\ intra' = Append(intra, Current)
  /\ at' = at + 1
  /\ UNCHANGED <<flat, assignment, phase, group_of, exposed, top_connects, top_signals, grouped>>

\* An end that is in no group is connected as it is
RewireSource ==
  /\ Classifying /\ ~SameGroup(Current) /\ Grouped(Current.source) /\ ~Grouped(Current.target)
  /\ \E s \in ExposedNames(Current.source) :
       /\ exposed' = Noted(exposed, Current.source, s, PortDir(Current.source, "out"))
       /\ top_connects' = Append(top_connects, [Current EXCEPT !.source = Promoted(@, s)])
  /\ at' = at + 1
  /\ UNCHANGED <<flat, assignment, phase, group_of, intra, top_signals, grouped>>

RewireTarget ==
  /\ Classifying /\ ~SameGroup(Current) /\ ~Grouped(Current.source) /\ Grouped(Current.target)
  /\ \E t \in ExposedNames(Current.target) :
       /\ exposed' = Noted(exposed, Current.target, t, PortDir(Current.target, "in"))
       /\ top_connects' = Append(top_connects, [Current EXCEPT !.target = Promoted(@, t)])
  /\ at' = at + 1
  /\ UNCHANGED <<flat, assignment, phase, group_of, intra, top_signals, grouped>>

RewireBoth ==
  /\ Classifying /\ ~SameGroup(Current) /\ Grouped(Current.source) /\ Grouped(Current.target)
  /\ \E s \in ExposedNames(Current.source), t \in ExposedNames(Current.target) :
       /\ exposed' = Noted(Noted(exposed, Current.source, s, PortDir(Current.source, "out")),
                           Current.target, t, PortDir(Current.target, "in"))
       /\ top_connects' = Append(top_connects, [Current EXCEPT !.source = Promoted(@, s), !.target = Promoted(@, t)])
  /\ at' = at + 1
  /\ UNCHANGED <<flat, assignment, phase, group_of, intra, top_signals, grouped>>

LeaveOnTop ==
  /\ Classifying /\ ~Grouped(Current.source) /\ ~Grouped(Current.target)
  /\ top_connects' = Append(top_connects, Current)
  /\ at' = at + 1
  /\ UNCHANGED <<flat, assignment, phase, group_of, exposed, intra, top_signals, grouped>>

ConnectsDone ==
  /\ phase = "connects" /\ at > Len(flat.connects)
  /\ phase' = "signals"
  /\ at' = 1
  /\ UNCHANGED <<flat, assignment, group_of, exposed, intra, top_connects, top_signals, grouped>>

-----------------------------------------------------------------------------
(* One signal at a time; a signal is its name and the port it starts from. *)

Tracing == phase = "signals" /\ at <= Len(flat.signals)

PromoteOrigin ==
  /\ Tracing /\ Grouped(flat.signals[at].origin)
  /\ LET origin == flat.signals[at].origin
     IN \E o \in ExposedNames(origin) :
          /\ exposed' = Noted(exposed, origin, o, PortDir(origin, "out"))
          /\ top_signals' = Append(top_signals, [flat.signals[at] EXCEPT !.origin = Promoted(@, o)])
  /\ at' = at + 1
  /\ UNCHANGED <<flat, assignment, phase, group_of, intra, top_connects, grouped>>

KeepOrigin ==
  /\ Tracing /\ ~Grouped(flat.signals[at].origin)
  /\ top_signals' = Append(top_signals, flat.signals[at])
  /\ at' = at + 1
  /\ UNCHANGED <<flat, assignment, phase, group_of, exposed, intra, top_connects, grouped>>

SignalsDone ==
  /\ phase = "signals" /\ at > Len(flat.signals)
  /\ phase' = "assemble"
  /\ UNCHANGED <<flat, assignment, at, group_of, exposed, intra, top_connects, top_signals, grouped>>

-----------------------------------------------------------------------------
(* Assembling the result.                                                  *)

ExposedBy(g) == {k \in DOMAIN exposed : group_of[k[1]] = g}

\* Greatest channel of an exposed port; 1 when no reference lists one
Highest(channels) == IF channels = {} THEN 1 ELSE CHOOSE m \in channels : \A c \in channels : c <= m

BoundaryPort(k) ==
  LET ep == exposed[k]
  IN [name |-> ep.name, dir |-> ep.dir, lo |-> 1,
      ranged |-> ~ep.whole \/ ep.end # NoEnd, hi |-> IF ep.whole THEN ep.end ELSE Highest(ep.channels)]

\* Mutant: the device is wired with its whole port, whatever crosses
WiredWhole(k) ==
  LET device == Ref(k[1], k[2], FALSE, <<>>)
      boundary == Ref(NoInstance, exposed[k].name, FALSE, <<>>)
  IN IF exposed[k].dir = "in" THEN [source |-> boundary, target |-> device, mapping |-> OneToOne]
     ELSE [source |-> device, target |-> boundary, mapping |-> OneToOne]

\* Mutant: every wire leads from the device to the boundary
WiredOutward(k) ==
  LET ep == exposed[k]
      index == IF ep.whole THEN <<>> ELSE Ascending(ep.channels)
  IN [source |-> Ref(k[1], k[2], index # <<>>, index),
      target |-> Ref(NoInstance, ep.name, index # <<>>, index), mapping |-> OneToOne]

\* The connect between an exposed port and its device: the channels that cross, or the whole port
Wiring(k) ==
  LET ep == exposed[k]
      index == IF ep.whole THEN <<>> ELSE Ascending(ep.channels)
      device == Ref(k[1], k[2], index # <<>>, index)
      boundary == Ref(NoInstance, ep.name, index # <<>>, index)
  IN IF ep.dir = "in" THEN [source |-> boundary, target |-> device, mapping |-> OneToOne]
     ELSE [source |-> device, target |-> boundary, mapping |-> OneToOne]

Positions(g) == {k \in DOMAIN flat.instances : flat.instances[k].name \in DOMAIN group_of /\ group_of[flat.instances[k].name] = g}
InGroup(g) == AllAt(flat.instances, Positions(g))

Assembled(g) ==
  LET keys == SetToSeq(ExposedBy(g))
  IN [ports |-> [j \in DOMAIN keys |-> BoundaryPort(keys[j])],
      bridges |-> <<>>,
      instances |-> InGroup(g),
      connects |-> AllAt(intra, {i \in DOMAIN intra : group_of[intra[i].source.inst] = g})
                    \o [j \in DOMAIN keys |-> Wiring(keys[j])],
      slots |-> {}]

Groups == {group_of[n] : n \in DOMAIN group_of}

\* Groups are declared in the order of their first instances, and the last template of a name counts
FirstMember(g) == CHOOSE k \in Positions(g) : \A j \in Positions(g) : k <= j

GroupOrder ==
  LET firsts == AllAt(flat.instances, {FirstMember(g) : g \in Groups})
  IN [n \in DOMAIN firsts |-> group_of[firsts[n].name]]

LastGroup(name) ==
  CHOOSE g \in Groups : /\ GroupTemplate(g) = name
                        /\ \A h \in Groups : GroupTemplate(h) = name => FirstMember(h) <= FirstMember(g)
Declared(name) ==
  IF \E g \in Groups : GroupTemplate(g) = name THEN Assembled(LastGroup(name)) ELSE flat.templates[name]

TopInstances ==
  [k \in DOMAIN GroupOrder |->
     [name |-> GroupInstance(GroupOrder[k]), template |-> GroupTemplate(GroupOrder[k]), cards |-> <<>>]]
  \o AllAt(flat.instances, {k \in DOMAIN flat.instances : flat.instances[k].name \notin DOMAIN group_of})

Assemble ==
  /\ phase = "assemble"
  /\ grouped' = [flat EXCEPT
       !.templates = [name \in DOMAIN flat.templates \cup {GroupTemplate(g) : g \in Groups} |-> Declared(name)],
       !.instances = TopInstances,
       !.connects = top_connects,
       !.signals = top_signals]
  /\ phase' = "done"
  /\ UNCHANGED <<flat, assignment, at, group_of, exposed, intra, top_connects, top_signals>>

Next ==
  \/ Group
  \/ KeepInside \/ RewireSource \/ RewireTarget \/ RewireBoth \/ LeaveOnTop \/ ConnectsDone
  \/ PromoteOrigin \/ KeepOrigin \/ SignalsDone
  \/ Assemble

Spec == Init /\ [][Next]_vars /\ WF_vars(Next)

-----------------------------------------------------------------------------
(* Properties of the contraction itself.                                   *)

\* Instances are grouped by members of the program, connects are sorted into two lists
\* no longer than the program's, and a result is there exactly when the call has ended.
TypeOK ==
  /\ phase \in {"group", "connects", "signals", "assemble", "done"}
  /\ at \in Nat \ {0}
  /\ DOMAIN group_of \subseteq InstanceNames(flat)
  /\ \A n \in DOMAIN group_of : group_of[n] \in Cluster
  /\ \A k \in DOMAIN exposed : k[1] \in DOMAIN group_of
  /\ phase = "group" => group_of = <<>> /\ exposed = <<>>
  /\ phase = "connects" => at <= Len(flat.connects) + 1
  /\ phase # "done" => grouped = <<>>

\* No two ports on the boundary of one group have the same name, also when the names of
\* two devices and of their ports run together to the same text (note_exposure).
NamesApart ==
  \A j, k \in DOMAIN exposed :
    j # k /\ group_of[j[1]] = group_of[k[1]] => exposed[j].name # exposed[k].name

ConnectsRead == CASE phase = "group" -> 0 [] phase = "connects" -> at - 1 [] OTHER -> Len(flat.connects)
SignalsRead == CASE phase \in {"group", "connects"} -> 0 [] phase = "signals" -> at - 1 [] OTHER -> Len(flat.signals)

\* The references read so far that cross a boundary
NotedRefs ==
  (UNION {{r \in {flat.connects[i].source, flat.connects[i].target} : Grouped(r) /\ ~SameGroup(flat.connects[i])}
            : i \in 1..ConnectsRead})
  \cup {r \in {flat.signals[i].origin : i \in 1..SignalsRead} : Grouped(r)}

\* A device port is on its group's boundary exactly if a connect or a signal crosses there, with
\* exactly the channels they name, and whole exactly if one of them names no channel
\* ("the union across all references", contract.rs).
BoundaryExact ==
  /\ DOMAIN exposed = {Key(r) : r \in NotedRefs}
  /\ \A k \in DOMAIN exposed :
       /\ exposed[k].whole <=> \E r \in NotedRefs : Key(r) = k /\ ~r.indexed
       /\ exposed[k].channels = UNION {ElementsOf(r.index) : r \in {r \in NotedRefs : Key(r) = k}}

\* Once a port is on the boundary its name and width stay and its channels only grow: connects
\* that were rewired before keep naming it.
BoundaryGrows ==
  [][phase # "group" =>
       \A k \in DOMAIN exposed :
         /\ k \in DOMAIN exposed'
         /\ exposed'[k].name = exposed[k].name /\ exposed'[k].end = exposed[k].end
         /\ exposed[k].channels \subseteq exposed'[k].channels]_vars
=============================================================================
