------------------------- MODULE MCBuilderStructure -------------------------
(***************************************************************************)
(* Instance of PatchBuilder for the operations of BuilderStructure: a desk *)
(* without a port of its own, two cards that give it the same port as an   *)
(* output and as an input, and a second instance made from a card          *)
(* template.                                                               *)
(***************************************************************************)
EXTENDS PatchBuilder

MCInst == {"A", "B"}
MCTmpl == {"Desk", "CardOut", "CardIn"}
MCPort == {"p"}
MCSlot == {"S1", "S2"}
MCSlotIndex == {0}

Template(n, d, sl) == [name |-> n, dir |-> [p \in MCPort |-> d], slots |-> sl, rf |-> NoPort]
Desk == Template("Desk", NoPort, MCSlot)
CardOut == Template("CardOut", "out", {})
CardIn == Template("CardIn", "in", {})

MCDecl == {Desk, CardOut, CardIn}
MCInstDecl == {[name |-> "A", tmpl |-> "Desk", cards |-> {}],
               [name |-> "B", tmpl |-> "CardIn", cards |-> {}]}
MCLibraries == {{}, {CardIn}}

End(i) == [inst |-> i, port |-> "p"]
AtoB == [src |-> End("A"), tgt |-> End("B")]
BtoA == [src |-> End("B"), tgt |-> End("A")]
MCWires == {AtoB, BtoA}

\* A parsed program: a desk with a card, wired to an instance of a template
\* that is still to come from a library
Wired2 ==
  [EmptyProgram EXCEPT
     !.templates = {[at |-> 0, decl |-> Desk], [at |-> 1, decl |-> CardOut]},
     !.instances = {[name |-> "A", tmpl |-> "Desk",
                     cards |-> {[slot |-> "S1", index |-> 0, card |-> "CardOut"]}],
                    [name |-> "B", tmpl |-> "CardIn", cards |-> {}]},
     !.connects = {[at |-> 0, src |-> End("A"), tgt |-> End("B"), props |-> "p"]}]

MCPrograms == {EmptyProgram, Wired2}
MCPreloaded == 2
=============================================================================
