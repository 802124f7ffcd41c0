---------------------------- MODULE GraphProgram ----------------------------
(***************************************************************************)
(* Programs as the graph compiler (graph/) and the contraction             *)
(* (contract.rs) read them.                                                *)
(*                                                                         *)
(* Both build identifiers by joining texts with underscores and take them  *)
(* apart again.  A text is therefore the sequence of its pieces between    *)
(* underscores: joining is concatenation, "starts with X_" is being a      *)
(* proper prefix, and two different endpoints that spell the same          *)
(* identifier are equal here too.                                          *)
(***************************************************************************)
EXTENDS Integers, Sequences, FiniteSets

CONSTANTS
  Numeral,   \* the text of each u32 channel number
  Modulus    \* number of channel numbers; 2^32 in the code

ASSUME Width == Modulus \in Nat \ {0, 1}
ASSUME NumeralsDiffer ==
  /\ DOMAIN Numeral = 0..(Modulus - 1)
  /\ \A m, n \in 0..(Modulus - 1) : Numeral[m] = Numeral[n] => m = n

\* The empty text
NoInstance == <<"">>
NoChannel == -1
Suffix(ch) == IF ch = NoChannel THEN <<>> ELSE <<Numeral[ch]>>

\* indexed tells [auto], which lists no channel, from no index at all
Ref(inst, port, indexed, index) == [inst |-> inst, port |-> port, indexed |-> indexed, index |-> index]

\* A mapping is "explicit" or "offset", "unread" when its text is none that parse_mapping_spec
\* knows, and "default" when there is none, or an empty one, or 1:1
OneToOne == [kind |-> "default", by |-> 0, pairs |-> <<>>]

\* A template a program does not declare
NoTemplate == [ports |-> <<>>, bridges |-> <<>>, instances |-> <<>>, connects |-> <<>>, slots |-> {}]
Lookup(program, name) == IF name \in DOMAIN program.templates THEN program.templates[name] ELSE NoTemplate

ElementsOf(seq) == {seq[i] : i \in DOMAIN seq}

\* A set of numbers as a sequence, the element at the first of some positions, and those at all of them
Ascending(S) == [n \in 1..Cardinality(S) |-> CHOOSE m \in S : Cardinality({l \in S : l < m}) = n - 1]
FirstAt(seq, at) == seq[CHOOSE k \in at : \A j \in at : k <= j]
AllAt(seq, at) == [n \in 1..Cardinality(at) |-> seq[Ascending(at)[n]]]

\* The one that find() meets
FirstNamed(decls, name) == FirstAt(decls, {k \in DOMAIN decls : decls[k].name = name})

InstanceNames(program) == {i.name : i \in ElementsOf(program.instances)}

\* Instances, ports and nodes are put in maps by name: the last one stays
LastNamed(decls, name) ==
  decls[CHOOSE k \in DOMAIN decls :
          decls[k].name = name /\ \A j \in DOMAIN decls : decls[j].name = name => j <= k]
=============================================================================
