----------------------------- MODULE MCFlowGraph ----------------------------
(***************************************************************************)
(* A level of three devices: a vector output of four channels, a vector    *)
(* input of three, a bidirectional vector, a scalar input and output, and  *)
(* a frame F whose port comes from a card, so that no handle is declared.  *)
(***************************************************************************)
EXTENDS FlowGraph

MCDecl ==
  [A |-> [Vout |-> PortDefinition("out", 1 .. 4), Sin |-> PortDefinition("in", {})],
   B |-> [Vin |-> PortDefinition("in", 1 .. 3), Sout |-> PortDefinition("out", {}), Net |-> PortDefinition("io", 1 .. 2)],
   F |-> [Own |-> PortDefinition("in", {})]]

\* A lone channel, two runs, the whole range, no index; a bridge that leaves
\* from an input, one whose two ends are one handle, and a card's port
MCWires ==
  {Statement(PortRef("A", "Vout", {1}), PortRef("B", "Vin", {1})),
   Statement(PortRef("A", "Vout", {2}), PortRef("B", "Vin", {3})),
   Statement(PortRef("A", "Vout", {1, 3}), PortRef("B", "Vin", {1, 2})),
   Statement(PortRef("A", "Vout", 1 .. 3), PortRef("B", "Vin", 1 .. 3)),
   Statement(PortRef("A", "Vout", {}), PortRef("A", "Sin", {})),
   Statement(PortRef("B", "Sout", {}), PortRef("A", "Sin", {})),
   Statement(PortRef("B", "Net", {1}), PortRef("B", "Vin", {2})),
   Statement(PortRef("B", "Net", {2}), PortRef("B", "Net", {1})),
   Statement(PortRef("B", "Vin", {2}), PortRef("B", "Vin", {})),
   Statement(PortRef("A", "Vout", {4}), PortRef("F", "Slot", {}))}
=============================================================================
