------------------------------ MODULE UseClosure ------------------------------
(***************************************************************************)
(* What following `use' statements promises (docs/compiler.md, "Multi-File *)
(* Pipeline"): starting from the entry, whatever a file uses is found, in  *)
(* some order, and a file is settled when all it uses has been found.      *)
(***************************************************************************)
CONSTANT Path

VARIABLES
  entry,     \* the root file
  uses,      \* [Path -> SUBSET Path]: what each file uses; nothing when it is absent
  found,     \* files that have been reached
  settled    \* files whose uses have been followed

vars == <<entry, uses, found, settled>>

Init ==
  /\ entry \in Path
  /\ uses \in [Path -> SUBSET Path]
  /\ found = {}
  /\ settled = {}

Begin ==
  /\ found = {}
  /\ found' = {entry}
  /\ UNCHANGED <<entry, uses, settled>>

Find ==
  /\ \E f \in found \ settled : \E g \in uses[f] : found' = found \cup {g}
  /\ UNCHANGED <<entry, uses, settled>>

Settle ==
  /\ \E f \in found \ settled : uses[f] \subseteq found /\ settled' = settled \cup {f}
  /\ UNCHANGED <<entry, uses, found>>

Next == Begin \/ Find \/ Settle

Spec == Init /\ [][Next]_vars
=============================================================================
