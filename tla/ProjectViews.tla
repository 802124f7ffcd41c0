----------------------------- MODULE ProjectViews -----------------------------
(***************************************************************************)
(* The two project calls of the WASM interface on the same files,          *)
(* compile_project and compile_project_to_graph, and what their results    *)
(* must have in common for a client to put them side by side: the graph's  *)
(* templates and the files they are said to come from.                     *)
(***************************************************************************)
EXTENDS MultiFile

CONSTANT Nothing   \* the graph's walk reads no file

ASSUME NothingType == Nothing \notin Path

VARIABLES gQueue, gVisited, gReading, gPos, gStatements, gDone

Graph == INSTANCE ProjectGraph WITH
  queue <- gQueue, visited <- gVisited, reading <- gReading, pos <- gPos,
  statements <- gStatements, done <- gDone

graphVars == <<gQueue, gVisited, gReading, gPos, gStatements, gDone>>

ViewsInit == Init /\ Graph!Start

ViewsNext ==
  \/ Next /\ UNCHANGED graphVars
  \/ /\ phase = "done" /\ Graph!Next
     /\ UNCHANGED <<phase, file_table, merged, template_defs, use_graph, errors, drc, queue, visited, pos>>

\* Two function calls, one after the other
ViewsSpec == ViewsInit /\ [][ViewsNext]_<<vars, graphVars>> /\ WF_<<vars, graphVars>>(ViewsNext)

\* Both walks merge the same statements in the same order, errors or not, and
\* when there were none, templateFiles names the file of the very template the
\* graph compiler works with
GraphAgrees ==
  gDone /\ entry \in DOMAIN files =>
    /\ gStatements = [k \in DOMAIN merged |-> merged[k].stmt]
    /\ errors = {} =>
         \A t \in DOMAIN template_defs :
           template_defs[t] = file_table[merged[Graph!TemplateIndex(t)].file + 1]

=============================================================================
