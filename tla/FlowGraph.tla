----------------------------- MODULE FlowGraph ------------------------------
(***************************************************************************)
(* transformAstToFlow of the diagram package (useAstToFlow.ts): the        *)
(* statements of one level become device nodes with rows of port handles,  *)
(* and edges between handles.                                              *)
(*                                                                         *)
(* The passes are steps: nodes and edges are built, every handle that      *)
(* several edges share is split (fanOutSharedPorts), the channels of       *)
(* vector ports that no connection uses get rows of their own              *)
(* (addRemainderPorts).  A row stands for a PortHandle; its label is       *)
(* reduced to the channels it names, and the order of rows on a node, the  *)
(* net label of an edge and the meta data of a node are left out.          *)
(***************************************************************************)
EXTENDS Integers, FiniteSets, Sequences

CONSTANTS
  Decl,      \* instance of the level -> port of its template -> definition
  Wires,     \* the Connect and Bridge statements a level may have
  MaxWires   \* number of statements of one call (bound of the model)

Dir == {"in", "out", "io"}
Side == {"source", "target"}

\* A port of a template: its channels, none without a range
PortDefinition(dir, chans) == [dir |-> dir, chans |-> chans]

\* One end of a statement: the channels its indexSpec names, none without one
PortRef(i, p, index) == [instance |-> i, port |-> p, index |-> index]

\* A Connect or a Bridge
Statement(s, t) == [source |-> s, target |-> t]

\* What the label of an unindexed reference to a vector port names: "[?]"
Unindexed == -1

ASSUME DeclAssumption ==
  \A i \in DOMAIN Decl : \A p \in DOMAIN Decl[i] :
    Decl[i][p].dir \in Dir /\ Decl[i][p].chans \subseteq Nat

ASSUME WiresAssumption ==
  \A w \in Wires : w.source.index \subseteq Nat /\ w.target.index \subseteq Nat

ASSUME MaxWiresAssumption == MaxWires \in Nat

VARIABLES
  conns,     \* the statements that are transformed
  rows,      \* the port handles of all nodes
  edges,     \* the handles of each statement's edge
  shared,    \* the handles fanOutSharedPorts has still to split
  pc         \* the pass that comes next

vars == <<conns, rows, edges, shared, pc>>

Init ==
  /\ conns = <<>>
  /\ rows = {}
  /\ edges = <<>>
  /\ shared = {}
  /\ pc = "call"

-----------------------------------------------------------------------------
(* Handles.  The texts are injective: a name of PatchLang has no hyphen.   *)

HandleId(i, p, side) == <<i, p, side, "own", 0>>
FanId(h, j) == <<h[1], h[2], h[3], "fan", j>>

\* Mutant: a remainder row is not named for its first channel
RemainderIdBare(h, c) == <<h[1], h[2], h[3], "rem", 0>>

RemainderId(h, c) == <<h[1], h[2], h[3], "rem", c>>

IsInput(i, p) == Decl[i][p].dir \in {"in", "io"}
IsOutput(i, p) == Decl[i][p].dir \in {"out", "io"}

Row(h, col, shows, ranged) == [id |-> h, col |-> col, shows |-> shows, ranged |-> ranged]

DeclaredPorts == UNION {{<<i, p>> : p \in DOMAIN Decl[i]} : i \in DOMAIN Decl}
Declared(ref) == <<ref.instance, ref.port>> \in DeclaredPorts

PortRow(h, col) == LET d == Decl[h[1]][h[2]] IN Row(h, col, d.chans, d.chans # {})

\* The rows of transformInstance, for every instance
NodeRows ==
  {PortRow(HandleId(x[1], x[2], "target"), "in") : x \in {y \in DeclaredPorts : IsInput(y[1], y[2])}}
  \cup
  {PortRow(HandleId(x[1], x[2], "source"), "out") : x \in {y \in DeclaredPorts : IsOutput(y[1], y[2])}}

Known(h) == \E r \in NodeRows : r.id = h

Opposite(side) == IF side = "source" THEN "target" ELSE "source"

\* Mutant: no second try with the other suffix
StandardHandle(ref, side) == HandleId(ref.instance, ref.port, side)

\* A bridge may leave from an input and end in an output
HandleOf(ref, side) ==
  IF Known(HandleId(ref.instance, ref.port, side))
  THEN HandleId(ref.instance, ref.port, side)
  ELSE HandleId(ref.instance, ref.port, Opposite(side))

-----------------------------------------------------------------------------
(* The ends of the edges, and the uses of a handle in the order of the     *)
(* statements, the source before the target.                               *)

Ends == (1 .. Len(conns)) \X Side
RefAt(e) == conns[e[1]][e[2]]
FirstHandle(e) == HandleOf(RefAt(e), e[2])

UsesOf(h) == {e \in Ends : FirstHandle(e) = h}

Before(e, f) ==
  \/ e[1] < f[1]
  \/ e[1] = f[1] /\ e[2] = "source" /\ f[2] = "target"

Rank(h, e) == Cardinality({f \in UsesOf(h) : Before(f, e)})

MultiUse == {h \in {FirstHandle(e) : e \in Ends} : \E e, f \in UsesOf(h) : e # f}

\* The channels a label with the slice of a reference names
Slice(ref, vector) ==
  IF vector /\ ref.index = {} THEN {Unindexed} ELSE ref.index

-----------------------------------------------------------------------------
(* The passes.                                                             *)

AddStatement(w) ==
  /\ pc = "call"
  /\ Len(conns) < MaxWires
  /\ conns' = Append(conns, w)
  /\ UNCHANGED <<rows, edges, shared, pc>>

\* First and second pass: the nodes, then an edge per statement.  A compiled
\* statement names an instance and a port at both ends, so none is skipped
BuildNodesAndEdges ==
  /\ pc = "call"
  /\ rows' = NodeRows
  /\ edges' = [k \in 1 .. Len(conns) |-> [s \in Side |-> FirstHandle(<<k, s>>)]]
  /\ shared' = MultiUse
  /\ pc' = "fan"
  /\ UNCHANGED conns

\* Mutant: the first two uses of a handle share the row
FannedLate(h, e) == IF Rank(h, e) <= 1 THEN h ELSE FanId(h, Rank(h, e))

Fanned(h, e) == IF Rank(h, e) = 0 THEN h ELSE FanId(h, Rank(h, e))

\* Mutant: every row is labelled like the first
FanLabelOfFirst(r, e) == Slice(RefAt(CHOOSE f \in UsesOf(r.id) : Rank(r.id, f) = 0), r.ranged)

FanLabel(r, e) == Slice(RefAt(e), r.ranged)

FanRows(h) ==
  UNION {{Row(Fanned(h, e), r.col, FanLabel(r, e), FALSE) : e \in UsesOf(h)} :
           r \in {s \in rows : s.id = h}}

\* The row of a shared handle is relabelled with the slice of its first use;
\* every other use gets a row and the edge is moved there.  A handle no node
\* has is left alone
FanOut(h) ==
  /\ pc = "fan"
  /\ h \in shared
  /\ shared' = shared \ {h}
  /\ \/ /\ \E r \in rows : r.id = h
        /\ rows' = {r \in rows : r.id # h} \cup FanRows(h)
        /\ edges' = [k \in 1 .. Len(conns) |-> [s \in Side |->
             IF <<k, s>> \in UsesOf(h) THEN Fanned(h, <<k, s>>) ELSE edges[k][s]]]
     \/ /\ ~ \E r \in rows : r.id = h
        /\ UNCHANGED <<rows, edges>>
  /\ UNCHANGED <<conns, pc>>

\* The channels of a port that some reference names, from either side
Consumed(i, p) ==
  UNION {RefAt(e).index : e \in {f \in Ends : RefAt(f).instance = i /\ RefAt(f).port = p}}

\* toContiguousRanges: where the runs of a set of channels start, and the
\* run from a start
RunStarts(S) == {c \in S : c - 1 \notin S}
RunFrom(S, c) == {d \in S : d >= c /\ c .. d \subseteq S}
OneRun(S) == \E c \in S : RunFrom(S, c) = S

\* An input or a bidirectional port has its own row among the inputs
MainHandle(i, p) == HandleId(i, p, IF IsInput(i, p) THEN "target" ELSE "source")
MainColumn(i, p) == IF IsInput(i, p) THEN "in" ELSE "out"
ColumnsOf(i, p) == (IF IsInput(i, p) THEN {"in"} ELSE {}) \cup (IF IsOutput(i, p) THEN {"out"} ELSE {})

PartlyUsed == {x \in DeclaredPorts : Decl[x[1]][x[2]].chans # {} /\ Consumed(x[1], x[2]) # {}}

\* A row that still shows the range is relabelled when the consumed channels
\* are one run
Relabelled(r) ==
  IF /\ r.ranged
     /\ \E x \in PartlyUsed : /\ r.id = MainHandle(x[1], x[2])
                              /\ r.col = MainColumn(x[1], x[2])
                              /\ OneRun(Consumed(x[1], x[2]))
  THEN Row(r.id, r.col, Consumed(r.id[1], r.id[2]), FALSE)
  ELSE r

\* Mutant: the channel after a used one is skipped too
RemainingGapped(i, p) ==
  {c \in Decl[i][p].chans : c \notin Consumed(i, p) /\ c - 1 \notin Consumed(i, p)}

Remaining(i, p) == Decl[i][p].chans \ Consumed(i, p)

RemainderRows(i, p) ==
  {Row(RemainderId(MainHandle(i, p), y[1]), y[2], RunFrom(Remaining(i, p), y[1]), FALSE) :
     y \in RunStarts(Remaining(i, p)) \X ColumnsOf(i, p)}

AddRemainderPorts ==
  /\ pc = "fan"
  /\ shared = {}
  /\ rows' = {Relabelled(r) : r \in rows} \cup (UNION {RemainderRows(x[1], x[2]) : x \in PartlyUsed})
  /\ pc' = "done"
  /\ UNCHANGED <<conns, edges, shared>>

\* The next call starts from nothing
NextCall ==
  /\ pc = "done"
  /\ conns' = <<>>
  /\ rows' = {}
  /\ edges' = <<>>
  /\ shared' = {}
  /\ pc' = "call"

Next ==
  \/ \E w \in Wires : AddStatement(w)
  \/ BuildNodesAndEdges
  \/ \E h \in shared : FanOut(h)
  \/ AddRemainderPorts
  \/ NextCall

Spec == Init /\ [][Next]_vars

-----------------------------------------------------------------------------
(* What the diagram makes of the handles (FlowDiagram.vue, DeviceNode.vue). *)

HandleAt(e) == edges[e[1]][e[2]]
EndsAt(h) == {e \in Ends : HandleAt(e) = h}
PeerOf(e) == RefAt(<<e[1], Opposite(e[2])>>).instance

\* The dot of a row is lit when an edge ends there
IsConnected(r) == EndsAt(r.id) # {}

\* Mutant: the tag names the device it hangs on
TagOfSelf(e) == [names |-> RefAt(e).instance, side |-> e[2]]

TagOf(e) == [names |-> PeerOf(e), side |-> e[2]]

\* In netnames mode the tags of a handle are the devices at the other ends
PortTags(h) ==
  {TagOf(e) : e \in {f \in EndsAt(h) : RefAt(f).instance \in DOMAIN Decl /\ PeerOf(f) \in DOMAIN Decl}}

\* One tag node per handle that has tags and a row; inputs are searched first
NetTagNodes ==
  {[port |-> h, labels |-> PortTags(h),
    side |-> IF \E r \in rows : r.id = h /\ r.col = "in" THEN "in" ELSE "out"] :
     h \in {r.id : r \in {s \in rows : PortTags(s.id) # {}}}}

-----------------------------------------------------------------------------
(* Properties.                                                             *)

\* An edge whose port the template declares ends on a row of a node, after
\* every pass: a handle is never split, moved or renamed under an edge
EndsLand ==
  pc # "call" =>
    \A e \in Ends : Declared(RefAt(e)) => \E r \in rows : r.id = HandleAt(e)

\* After fanOutSharedPorts no two wires end on one row ("each wire gets its
\* own visual row and routing target", useAstToFlow.ts:375)
OneWirePerRow ==
  pc = "done" =>
    \A e, f \in Ends :
      e # f /\ Declared(RefAt(e)) /\ Declared(RefAt(f)) => HandleAt(e) # HandleAt(f)

\* The rows of one column of a node have different IDs, which Vue and ELK
\* take them by
RowsApart == \A r, s \in rows : r.id = s.id /\ r.col = s.col => r = s

\* Where an index can be shown on the row of its wire: the passes take the
\* consumed channels of both sides of a bidirectional port together, and a
\* lone index of several runs leaves the label of the whole range
Plain(i, p) ==
  LET uses == {e \in Ends : RefAt(e).instance = i /\ RefAt(e).port = p}
  IN  /\ Decl[i][p].dir # "io"
      /\ (\A e, f \in uses : e = f) => \A e \in uses : RefAt(e).index = {} \/ OneRun(RefAt(e).index)

\* The row a wire ends on is labelled with exactly the channels the wire
\* carries, whichever pass made the row
SliceShown ==
  pc = "done" =>
    \A e \in Ends :
      LET ref == RefAt(e)
      IN  Declared(ref) =>
            (Plain(ref.instance, ref.port) /\ ref.index # {} /\ Decl[ref.instance][ref.port].chans # {}
               => \A r \in rows : r.id = HandleAt(e) => r.shows = ref.index)

\* Every channel of a vector port is on exactly one row, lit when a wire
\* carries the channel and dark when none does; where its references have an
\* index and no two of them name one channel
ChannelsShownOnce ==
  pc = "done" =>
    \A x \in DeclaredPorts :
      LET uses == {e \in Ends : RefAt(e).instance = x[1] /\ RefAt(e).port = x[2]}
      IN  /\ Plain(x[1], x[2])
          /\ \A e \in uses : RefAt(e).index # {}
          /\ \A e, f \in uses : e # f => RefAt(e).index \cap RefAt(f).index = {}
          => \A c \in Decl[x[1]][x[2]].chans :
               LET on == {r \in rows : r.id[1] = x[1] /\ r.id[2] = x[2] /\ c \in r.shows}
               IN  /\ Cardinality(on) = 1
                   /\ \A r \in on : IsConnected(r) <=> c \in Consumed(x[1], x[2])

\* In netnames mode, where no wire is drawn, each end of a wire has a tag of
\* its own that names the device at the other end
TagsReplaceWires ==
  pc = "done" =>
    \A e \in Ends :
      Declared(RefAt(e)) /\ PeerOf(e) \in DOMAIN Decl =>
        \E n \in NetTagNodes : n.port = HandleAt(e) /\ n.labels = {[names |-> PeerOf(e), side |-> e[2]]}
=============================================================================
