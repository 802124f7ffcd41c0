------------------------------ MODULE MultiFile ------------------------------
(***************************************************************************)
(* compile_project (multi_file.rs): a breadth-first walk over the `use'    *)
(* statements from the entry file, which merges the statements of every    *)
(* file it reaches, keeps where each came from, and runs the DRC when      *)
(* nothing went wrong.                                                     *)
(*                                                                         *)
(* A file is what parse returns for it: statements and whether there were  *)
(* errors (the statements of a file with errors are merged all the same).  *)
(* Statements that are neither `use' nor template stand for all others.    *)
(***************************************************************************)
EXTENDS Integers, Sequences, FiniteSets

CONSTANTS
  Path,         \* file paths
  Namespace,    \* dotted names in `use' statements
  PathOf,       \* [Namespace -> Path]: resolve_namespace
  Template,     \* template names
  NoName,       \* for statements that are no template
  Calls,        \* the [files, entry] compile_project may be given
  IndexRange    \* file indices are kept modulo this: 2^16

ASSUME PathOfType == PathOf \in [Namespace -> Path]
ASSUME IndexRangeType == IndexRange \in Nat \ {0}

\* `only' is the template list of a `use', {} for a bare namespace or wildcard
Use == [kind : {"use"}, namespace : Namespace, only : SUBSET Template]
Declaration == [kind : {"template"}, name : Template] \cup [kind : {"other"}, name : {NoName}]

File == [stmts : Seq(Use \cup Declaration), broken : BOOLEAN]

ASSUME CallsTyped ==
  \A call \in Calls :
    /\ call.entry \in Path
    /\ DOMAIN call.files \subseteq Path
    /\ \A f \in DOMAIN call.files : call.files[f] \in File

VARIABLES
  files, entry,     \* the arguments
  phase,            \* "start", "walk" between files, "read" inside one, "done"
  queue, visited,   \* BFS state
  file_table,       \* paths of the files read, in order
  pos,              \* the next statement of the file being read
  merged,           \* merged_statements: a declaration and its file index
  template_defs,    \* template name -> path of the file that defined it first
  use_graph,        \* path -> namespaces it uses
  errors,           \* all_errors, as a set
  drc               \* "run" when it ran on the merged program, else "skipped"

vars == <<files, entry, phase, queue, visited, file_table, pos, merged, template_defs, use_graph, errors, drc>>

Init ==
  /\ \E call \in Calls : files = call.files /\ entry = call.entry
  /\ phase = "start"
  /\ queue = <<>> /\ visited = {}
  /\ file_table = <<>> /\ pos = 1
  /\ merged = <<>>
  /\ template_defs = <<>> /\ use_graph = <<>>
  /\ errors = {}
  /\ drc = "skipped"

\* f with x mapped to y, whether or not it was mapped before
Put(f, x, y) == [z \in DOMAIN f \cup {x} |-> IF z = x THEN y ELSE f[z]]

EntryMissing ==
  /\ phase = "start" /\ entry \notin DOMAIN files
  /\ errors' = {[kind |-> "no_entry", path |-> entry]}
  /\ phase' = "done"
  /\ UNCHANGED <<files, entry, queue, visited, file_table, pos, merged, template_defs, use_graph, drc>>

Begin ==
  /\ phase = "start" /\ entry \in DOMAIN files
  /\ queue' = <<entry>> /\ visited' = {entry}
  /\ phase' = "walk"
  /\ UNCHANGED <<files, entry, file_table, pos, merged, template_defs, use_graph, errors, drc>>

-----------------------------------------------------------------------------
(* Between two files.                                                      *)

\* Mutant: a file that is not in the map is skipped without an error
MissingFileSilently ==
  /\ phase = "walk" /\ queue # <<>> /\ Head(queue) \notin DOMAIN files
  /\ queue' = Tail(queue)
  /\ UNCHANGED <<files, entry, phase, visited, file_table, pos, merged, template_defs, use_graph, errors, drc>>

MissingFile ==
  /\ phase = "walk" /\ queue # <<>> /\ Head(queue) \notin DOMAIN files
  /\ queue' = Tail(queue)
  /\ errors' = errors \cup {[kind |-> "missing", path |-> Head(queue)]}
  /\ UNCHANGED <<files, entry, phase, visited, file_table, pos, merged, template_defs, use_graph, drc>>

IsUse(stmt) == stmt.kind = "use"

UsesIn(stmts) ==
  LET us == SelectSeq(stmts, IsUse) IN [k \in DOMAIN us |-> us[k].namespace]

ParseErrors(f) == IF files[f].broken THEN {[kind |-> "parse", path |-> f]} ELSE {}

ReadFile ==
  /\ phase = "walk" /\ queue # <<>> /\ Head(queue) \in DOMAIN files
  /\ LET f == Head(queue) IN
       /\ file_table' = Append(file_table, f)
       /\ use_graph' = Put(use_graph, f, UsesIn(files[f].stmts))
       /\ errors' = errors \cup ParseErrors(f)
  /\ queue' = Tail(queue)
  /\ pos' = 1
  /\ phase' = "read"
  /\ UNCHANGED <<files, entry, visited, merged, template_defs, drc>>

-----------------------------------------------------------------------------
(* The statements of a file.                                               *)

Current == file_table[Len(file_table)]

\* file_table.len() as u16, taken before the push
FileIndex == (Len(file_table) - 1) % IndexRange

Reads(kind) ==
  /\ phase = "read" /\ pos <= Len(files[Current].stmts)
  /\ files[Current].stmts[pos].kind = kind
  /\ pos' = pos + 1
  /\ UNCHANGED <<files, entry, phase, file_table, use_graph, drc>>

Stmt == files[Current].stmts[pos]

\* Mutant: the newest dependency is read first
EnqueueInFront(p) ==
  IF p \in visited THEN UNCHANGED <<queue, visited>>
  ELSE queue' = <<p>> \o queue /\ visited' = visited \cup {p}

Enqueue(p) ==
  IF p \in visited THEN UNCHANGED <<queue, visited>>
  ELSE queue' = Append(queue, p) /\ visited' = visited \cup {p}

FollowUse ==
  /\ Reads("use")
  /\ Enqueue(PathOf[Stmt.namespace])
  /\ UNCHANGED <<merged, template_defs, errors>>

Merge == merged' = Append(merged, [stmt |-> Stmt, file |-> FileIndex])

Define ==
  IF Stmt.name \in DOMAIN template_defs
  THEN /\ errors' = errors \cup {[kind |-> "duplicate", path |-> Current]}
       /\ UNCHANGED template_defs
  ELSE /\ template_defs' = Put(template_defs, Stmt.name, Current)
       /\ UNCHANGED errors

\* Mutant: of two templates with a name the second is left out
MergeTemplateOnce ==
  /\ Reads("template") /\ Define
  /\ IF Stmt.name \in DOMAIN template_defs THEN UNCHANGED merged ELSE Merge
  /\ UNCHANGED <<queue, visited>>

MergeTemplate == Reads("template") /\ Define /\ Merge /\ UNCHANGED <<queue, visited>>

MergeOther == Reads("other") /\ Merge /\ UNCHANGED <<queue, visited, template_defs, errors>>

\* Mutant: the last statement is not looked at
EndOfFileEarly ==
  /\ phase = "read" /\ pos >= Len(files[Current].stmts)
  /\ phase' = "walk"
  /\ UNCHANGED <<files, entry, queue, visited, file_table, pos, merged, template_defs, use_graph, errors, drc>>

EndOfFile ==
  /\ phase = "read" /\ pos > Len(files[Current].stmts)
  /\ phase' = "walk"
  /\ UNCHANGED <<files, entry, queue, visited, file_table, pos, merged, template_defs, use_graph, errors, drc>>

Finish ==
  /\ phase = "walk" /\ queue = <<>>
  /\ phase' = "done"
  /\ drc' = IF errors = {} THEN "run" ELSE "skipped"
  /\ UNCHANGED <<files, entry, queue, visited, file_table, pos, merged, template_defs, use_graph, errors>>

Next ==
  \/ EntryMissing \/ Begin \/ MissingFile \/ ReadFile
  \/ FollowUse \/ MergeTemplate \/ MergeOther \/ EndOfFile \/ Finish

Spec == Init /\ [][Next]_vars

-----------------------------------------------------------------------------
(* Properties.                                                             *)

\* The tables keep their shape, and a file index is that of a file read so far
TypeOK ==
  /\ entry \in Path
  /\ DOMAIN files \subseteq Path /\ \A f \in DOMAIN files : files[f] \in File
  /\ phase \in {"start", "walk", "read", "done"}
  /\ queue \in Seq(Path) /\ visited \subseteq Path
  /\ file_table \in Seq(DOMAIN files)
  /\ pos \in Nat \ {0}
  /\ merged \in Seq([stmt : Declaration, file : Nat])
  /\ \A k \in DOMAIN merged : merged[k].file < Len(file_table)
  /\ DOMAIN template_defs \subseteq Template
  /\ \A t \in DOMAIN template_defs : template_defs[t] \in DOMAIN files
  /\ DOMAIN use_graph \subseteq DOMAIN files
  /\ errors \subseteq [kind : {"no_entry", "missing", "parse", "duplicate"}, path : Path]
  /\ drc \in {"skipped", "run"}

\* Files that use each other, or themselves, in whatever circle, are read once
ReadOnce == \A i, j \in DOMAIN file_table : file_table[i] = file_table[j] => i = j

Statements(f) == IF f \in DOMAIN files THEN files[f].stmts ELSE <<>>

\* What the file uses, by its text
UsedBy(f) ==
  {PathOf[Statements(f)[k].namespace] : k \in {j \in DOMAIN Statements(f) : IsUse(Statements(f)[j])}}

Closed(S) == entry \in S /\ \A f \in S : UsedBy(f) \subseteq S

\* The least set that holds the entry and whatever its files use
Reachable == {f \in Path : \A S \in SUBSET Path : Closed(S) => f \in S}

\* When the walk is over it has read the reachable files that exist and reported
\* the others, and no file else
CompleteWhenDone ==
  phase = "done" /\ entry \in DOMAIN files =>
    /\ {file_table[i] : i \in DOMAIN file_table} = Reachable \cap DOMAIN files
    /\ {e.path : e \in {x \in errors : x.kind = "missing"}} = Reachable \ DOMAIN files

\* Files at most 0, 1, .. N `use' steps away from the entry
Within(N) ==
  LET w[n \in 0 .. N] ==
        IF n = 0 THEN {entry} ELSE w[n - 1] \cup UNION {UsedBy(f) : f \in w[n - 1]}
  IN  w

\* docs/compiler.md:335: the list of files is in breadth-first order.  A file is
\* at most as many steps away as files have been read
BreadthFirst ==
  LET w == Within(Len(file_table))
  IN  \A i, j \in DOMAIN file_table : i < j =>
        \A n \in DOMAIN w : file_table[j] \in w[n] => file_table[i] \in w[n]

\* The statements of the files read that are no `use': a file and a position
Declarations ==
  UNION {{<<i, k>> : k \in {j \in DOMAIN files[file_table[i]].stmts : ~ IsUse(files[file_table[i]].stmts[j])}} :
           i \in DOMAIN file_table}

\* Where a declaration is when files are laid one after the other
UpToHere(x) == {y \in Declarations : y[1] < x[1] \/ (y[1] = x[1] /\ y[2] <= x[2])}
Place(x) == Cardinality(UpToHere(x))

\* The merged program holds the declarations of the files in the order they were
\* read, each under the index of the file it stands in, and nothing else
ProvenanceTrue ==
  phase = "done" =>
    /\ Len(merged) = Cardinality(Declarations)
    /\ \A x \in Declarations :
         merged[Place(x)] = [stmt |-> files[file_table[x[1]]].stmts[x[2]], file |-> x[1] - 1]

\* The walk follows uses as UseClosure says
Reading == phase = "read"
Settled ==
  {file_table[i] : i \in {j \in DOMAIN file_table : ~ (Reading /\ j = Len(file_table))}}
    \cup {e.path : e \in {x \in errors : x.kind = "missing"}}

Closure == INSTANCE UseClosure WITH
  uses <- [f \in Path |-> UsedBy(f)], found <- visited, settled <- Settled
ClosureSpec == Closure!Spec
=============================================================================
