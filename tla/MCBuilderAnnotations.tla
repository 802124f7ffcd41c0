------------------------ MODULE MCBuilderAnnotations ------------------------
(***************************************************************************)
(* Instance of PatchBuilder for the cascade of remove_instance: one RF     *)
(* device template, two instances of it, and one statement of every kind   *)
(* that can name an instance.                                              *)
(***************************************************************************)
EXTENDS PatchBuilder

MCInst == {"A", "B"}

Mic == [name |-> "Mic", dir |-> [p \in {"rf"} |-> "io"], slots |-> {}, rf |-> "rf"]
MCDecl == {Mic}
MCInstDecl == {[name |-> i, tmpl |-> "Mic", cards |-> {}] : i \in MCInst}

End(i) == [inst |-> i, port |-> "rf"]
AtoB == [src |-> End("A"), tgt |-> End("B")]
MCWires == {AtoB}
MCLinks == {[src |-> End(Unqualified), tgt |-> End("A")]}
MCGroups == {[tgt |-> End("B"), srcs |-> {End("A"), End(Unqualified)}]}

\* A parsed program with two config blocks of one instance
Labelled ==
  [EmptyProgram EXCEPT
     !.templates = {[at |-> 0, decl |-> Mic]},
     !.instances = MCInstDecl,
     !.configs = {[at |-> 0, name |-> "A", labels |-> {<<"rf", 1>>}],
                  [at |-> 1, name |-> "A", labels |-> {}]}]

MCPrograms == {EmptyProgram, Labelled}
MCPreloaded == 2
=============================================================================
