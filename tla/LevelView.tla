----------------------------- MODULE LevelView ------------------------------
(***************************************************************************)
(* The levels of a compiled program: the inside of a template as a graph   *)
(* (extractLevelFlow.ts, DiagramCanvas.vue), and the tree of instances     *)
(* (useHierarchyTree.ts).  Templates of a program have different names; a  *)
(* device is its name and template, ports and metadata are left out.       *)
(***************************************************************************)
EXTENDS Integers, Sequences, FiniteSets

CONSTANTS
  Program,   \* input of the compiler -> program: [insts, wires, templates],
             \* templates being a function to [insts, wires]
  Root       \* the level of the top-level statements

\* A template with what is declared inside it, and a whole program
NestedTemplate(insts, wires) == [insts |-> insts, wires |-> wires]
Statements(insts, wires, templates) == [insts |-> insts, wires |-> wires, templates |-> templates]

TemplatesOf(x) == Program[x].templates

\* The statement of an instance: its name and its template
Entry(insts, i) == [name |-> i, template |-> insts[i]]
Entries(insts) == {Entry(insts, i) : i \in DOMAIN insts}

InstanceLists(x) == {Program[x].insts} \cup {TemplatesOf(x)[t].insts : t \in DOMAIN TemplatesOf(x)}
Instances(x) == UNION {Entries(insts) : insts \in InstanceLists(x)}

\* Instances are functions from names; a program has finitely many templates,
\* and none is called like the root
ASSUME ProgramsAssumption ==
  \A x \in DOMAIN Program :
    /\ \A insts \in InstanceLists(x) : insts = [i \in DOMAIN insts |-> insts[i]]
    /\ IsFiniteSet(DOMAIN TemplatesOf(x))
    /\ \A e \in Instances(x) : e.template # Root

\* What can be opened, and the levels
Openable == UNION {Instances(x) : x \in DOMAIN Program}
Levels == {Root} \cup {e.template : e \in Openable}

\* Mutant: any template can be opened
Declared(x) == DOMAIN TemplatesOf(x)

\* buildCompositeTemplateNames
Composite(x) == {t \in DOMAIN TemplatesOf(x) : DOMAIN TemplatesOf(x)[t].insts # {}}

\* extractLevelFlow.  The connects of the boundary have no instance at one
\* end, a connect to an unknown instance is dropped as well; at the root all
\* statements are passed on.  A level that no template has is empty
LevelInstances(x, level) ==
  IF level = Root THEN Program[x].insts
  ELSE IF level \in DOMAIN TemplatesOf(x) THEN TemplatesOf(x)[level].insts
  ELSE <<>>

LevelWires(x, level) ==
  IF level = Root THEN Program[x].wires
  ELSE IF level \in DOMAIN TemplatesOf(x)
  THEN {w \in TemplatesOf(x)[level].wires :
          w[1] \in DOMAIN LevelInstances(x, level) /\ w[2] \in DOMAIN LevelInstances(x, level)}
  ELSE {}

\* A node opens its template on a click when the template has instances
Drillable(x, level, i) == LevelInstances(x, level)[i] \in Composite(x)

-----------------------------------------------------------------------------
(* The tree.  A row is its path of [name, template] from a root instance.  *)

TreeNode(path, composite) == [path |-> path, composite |-> composite]

LastOf(s) == s[Len(s)]
TemplatesAbove(path) == {path[k].template : k \in 1 .. Len(path) - 1}

\* buildNodes stops where a template would be opened below itself
ChildInstances(x, path) ==
  LET template == LastOf(path).template
  IN  IF template \in DOMAIN TemplatesOf(x) \ TemplatesAbove(path) THEN TemplatesOf(x)[template].insts ELSE <<>>

\* A path opens every template at most once, and ends with an instance
Paths(x) == UNION {[1 .. n -> Instances(x)] : n \in 1 .. Cardinality(DOMAIN TemplatesOf(x)) + 1}

\* The first turn of buildNodes takes the root instances, every other the
\* instances below the path it was called for
BuildNodes(x) ==
  {p \in Paths(x) :
     /\ p[1] \in Entries(Program[x].insts)
     /\ \A k \in 1 .. Len(p) - 1 : p[k + 1] \in Entries(ChildInstances(x, SubSeq(p, 1, k)))}

Trees == [x \in DOMAIN Program |-> {TreeNode(p, DOMAIN ChildInstances(x, p) # {}) : p \in BuildNodes(x)}]
Tree(x) == Trees[x]

RowsBelow(x, r) == {q \in Tree(x) : Len(q.path) = Len(r.path) + 1 /\ SubSeq(q.path, 1, Len(r.path)) = r.path}
=============================================================================
