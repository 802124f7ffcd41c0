----------------------------- MODULE ProjectGraph -----------------------------
(***************************************************************************)
(* compile_project_to_graph_from_sources (graph/mod.rs): the second walk   *)
(* over the same files, with its own queue, which knows no errors and no   *)
(* provenance, and the templates the graph compiler then works with.       *)
(***************************************************************************)
EXTENDS Integers, Sequences

CONSTANTS
  Path, Namespace, PathOf,
  Nothing         \* no file is being read

VARIABLES
  files, entry,
  queue, visited,
  reading, pos,   \* the file being read and its next statement
  statements,     \* merged_stmts
  done

vars == <<files, entry, queue, visited, reading, pos, statements, done>>

Start ==
  /\ queue = <<entry>> /\ visited = {entry}
  /\ reading = Nothing /\ pos = 1
  /\ statements = <<>>
  /\ done = FALSE

Idle == ~ done /\ reading = Nothing

Skip ==
  /\ Idle /\ queue # <<>> /\ Head(queue) \notin DOMAIN files
  /\ queue' = Tail(queue)
  /\ UNCHANGED <<files, entry, visited, reading, pos, statements, done>>

Read ==
  /\ Idle /\ queue # <<>> /\ Head(queue) \in DOMAIN files
  /\ reading' = Head(queue) /\ pos' = 1
  /\ queue' = Tail(queue)
  /\ UNCHANGED <<files, entry, visited, statements, done>>

InFile == reading # Nothing /\ pos <= Len(files[reading].stmts)
Stmt == files[reading].stmts[pos]

\* Mutant: the newest dependency is read first
EnqueueInFront(p) ==
  IF p \in visited THEN UNCHANGED <<queue, visited>>
  ELSE queue' = <<p>> \o queue /\ visited' = visited \cup {p}

Enqueue(p) ==
  IF p \in visited THEN UNCHANGED <<queue, visited>>
  ELSE queue' = Append(queue, p) /\ visited' = visited \cup {p}

Follow ==
  /\ InFile /\ Stmt.kind = "use"
  /\ Enqueue(PathOf[Stmt.namespace])
  /\ pos' = pos + 1
  /\ UNCHANGED <<files, entry, reading, statements, done>>

Collect ==
  /\ InFile /\ Stmt.kind # "use"
  /\ statements' = Append(statements, Stmt)
  /\ pos' = pos + 1
  /\ UNCHANGED <<files, entry, queue, visited, reading, done>>

Leave ==
  /\ reading # Nothing /\ pos > Len(files[reading].stmts)
  /\ reading' = Nothing
  /\ UNCHANGED <<files, entry, queue, visited, pos, statements, done>>

Compile ==
  /\ Idle /\ queue = <<>>
  /\ done' = TRUE
  /\ UNCHANGED <<files, entry, queue, visited, reading, pos, statements>>

Next == Skip \/ Read \/ Follow \/ Collect \/ Leave \/ Compile

\* compile_ast_to_graph inserts templates into a map: of one name the last stays
TemplateIndex(name) ==
  CHOOSE k \in DOMAIN statements :
    /\ statements[k].kind = "template" /\ statements[k].name = name
    /\ \A j \in DOMAIN statements :
         statements[j].kind = "template" /\ statements[j].name = name => j <= k
=============================================================================
