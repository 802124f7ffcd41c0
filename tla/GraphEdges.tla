----------------------------- MODULE GraphEdges -----------------------------
(***************************************************************************)
(* From connects, bridges and bridge groups to edges (graph/edges.rs).     *)
(*                                                                         *)
(* An edge joins two ports, a port ID being its owner and its name.  Edge  *)
(* properties and bus numbering are left out.                              *)
(***************************************************************************)
EXTENDS GraphProgram, SequencesExt

\* The edges of a level are a map by edge ID: what is inserted replaces what
\* has the same ID
Inserted(sets) ==
  UNION {{e \in sets[k] : \A j \in (k + 1)..Len(sets) : \A n \in sets[j] : n.id # e.id} : k \in DOMAIN sets}

Edge(id, type, out, outId, in, inId) ==
  [id |-> id, type |-> type, sourceNode |-> out, sourcePort |-> outId, targetNode |-> in, targetPort |-> inId]

\* flatten_opt: an index without channels counts as none
FlattenOpt(ref) == IF ref.index = <<>> THEN <<NoChannel>> ELSE ref.index

Larger(m, n) == IF m < n THEN n ELSE m
Broadcast(side, i) == side[IF Len(side) > 1 THEN i ELSE 1]

\* The channel of the source and of the target, for each edge of a connect
ChannelPairs(mapping, src, tgt) ==
  CASE mapping.kind = "explicit" -> mapping.pairs
    [] mapping.kind = "offset" ->
         [i \in DOMAIN src |->
            <<src[i], IF src[i] = NoChannel THEN NoChannel ELSE (src[i] + mapping.by) % Modulus>>]
    [] mapping.kind \notin {"explicit", "offset"} /\ Len(src) > 1 /\ Len(tgt) > 1 /\ Len(src) # Len(tgt) -> <<>>
    [] OTHER -> [i \in 1..Larger(Len(src), Len(tgt)) |-> <<Broadcast(src, i), Broadcast(tgt, i)>>]

RootId(ref, ch) == <<<<ref.inst>>, ref.port \o Suffix(ch)>>

\* Mutant: the ID of an edge leaves its target out
ConnectIdBySource(c, pair) == <<"connect">> \o c.source.inst \o c.source.port \o Suffix(pair[1])

ConnectId(c, pair) ==
  <<"connect">> \o c.source.inst \o c.source.port \o Suffix(pair[1])
                \o c.target.inst \o c.target.port \o Suffix(pair[2])

ConnectEdges(c) ==
  {Edge(ConnectId(c, pair), "connect", <<c.source.inst>>, RootId(c.source, pair[1]),
                                       <<c.target.inst>>, RootId(c.target, pair[2]))
     : pair \in ElementsOf(ChannelPairs(c.mapping, FlattenOpt(c.source), FlattenOpt(c.target)))}

\* Lists of one length are joined in order, others each to each
BridgePairs(src, tgt) ==
  IF Len(src) = Len(tgt) THEN {<<src[i], tgt[i]>> : i \in DOMAIN src} ELSE ElementsOf(src) \X ElementsOf(tgt)

\* expand_bridge; an edge's ID names both channels but no target
BridgeEdges(bridge, prefix, out, outOwner, in, inOwner) ==
  {Edge(prefix \o Suffix(p[1]) \o <<"to">> \o Suffix(p[2]), "bridge",
        out, <<outOwner, bridge.source.port \o Suffix(p[1])>>, in, <<inOwner, bridge.target.port \o Suffix(p[2])>>)
     : p \in BridgePairs(FlattenOpt(bridge.source), FlattenOpt(bridge.target))}

RootBridgeEdges(b) ==
  BridgeEdges(b, <<"bridge">> \o b.source.inst \o b.source.port,
              <<b.source.inst>>, <<b.source.inst>>, <<b.target.inst>>, <<b.target.inst>>)

\* The sources of a group one after the other, each with its channels
Fanned(group) ==
  FlattenSeq([i \in DOMAIN group.sources |->
                LET s == group.sources[i] IN [j \in DOMAIN FlattenOpt(s) |-> RootId(s, FlattenOpt(s)[j])]])

FirstTarget(group) == IF group.target.index = <<>> THEN 1 ELSE group.target.index[1]

BridgeGroupEdges(group) ==
  {Edge(<<"bridge", "group">> \o group.target.inst \o group.target.port \o Suffix(k - 1), "bridge",
        Fanned(group)[k][1], Fanned(group)[k],
        <<group.target.inst>>, RootId(group.target, (FirstTarget(group) + k - 1) % Modulus))
     : k \in DOMAIN Fanned(group)}
=============================================================================
