------------------------------ MODULE DemoApp -------------------------------
(***************************************************************************)
(* The demo application (App.vue, useProjectCompiler.ts, useNavigation.ts, *)
(* CodeEditor.vue, HierarchyTree.vue): the text, the compiler, the result  *)
(* that is shown and the level of it that is open.                         *)
(*                                                                         *)
(* An action is an event together with the watchers it sets off, which run *)
(* before the next event.  A result is the input it was compiled from: a   *)
(* text, or the files of a project.                                        *)
(***************************************************************************)
EXTENDS LevelView

CONSTANTS
  Examples,    \* 1 .. n -> [kind, text, files]
  TypedTexts,  \* what the user may type
  Directories, \* name -> [text, files]: what may be opened
  Outcome,     \* input -> "ok", "warned", "parse errors", "errors" or "throws"
  Normal,      \* text -> the text with the line ends of the editor
  Nothing,     \* no result
  NotLoaded,   \* the result of a compiler that is not there
  MaxInputs    \* number of events by the user (bound of the model)

Texts == DOMAIN Normal

ASSUME NormalAssumption ==
  /\ \A t \in Texts : Normal[t] \in Texts /\ Normal[Normal[t]] = Normal[t]
  /\ \A i \in DOMAIN Examples : Examples[i].text \in Texts /\ Normal[Examples[i].text] = Examples[i].text
  /\ \A t \in TypedTexts : t \in Texts /\ Normal[t] = t
  /\ \A d \in DOMAIN Directories : Directories[d].text \in Texts

ASSUME ExamplesAssumption == 1 \in DOMAIN Examples /\ MaxInputs \in Nat

\* The compiler answers with a program, or says why there is none
ASSUME ResultsAssumption ==
  /\ DOMAIN Outcome = DOMAIN Program
  /\ Nothing \notin DOMAIN Program
  /\ NotLoaded \notin DOMAIN Program \cup {Nothing}

VARIABLES
  wasm,        \* useProjectCompiler: "loading", "ready" or "failed"
  source,      \* the text of the application
  doc,         \* the text in the editor
  selected,    \* selectedExampleIndex
  result,      \* compileResult
  timer,       \* debounceTimer is set
  reading,     \* directories that are being read
  stack,       \* the levels that were opened, without the root
  mode,        \* diagramMode
  panel,       \* showDiagnostics
  expanded,    \* the open rows of the tree
  inputs       \* events by the user so far

appVars == <<wasm, source, doc, selected, result, timer, reading, stack, mode, panel, expanded, inputs>>

\* Errors of the parser, of the use graph or of the rules; success is their absence
HasIssues(r) == r = NotLoaded \/ (r \in DOMAIN Outcome /\ Outcome[r] \in {"parse errors", "errors"})
HasParseErrors(r) == r = NotLoaded \/ (r \in DOMAIN Outcome /\ Outcome[r] = "parse errors")

Level == IF stack = <<>> THEN Root ELSE LastOf(stack).template

AppInit ==
  /\ wasm = "loading"
  /\ source = Examples[1].text
  /\ doc = Examples[1].text
  /\ selected = 1
  /\ result = Nothing
  /\ timer = FALSE
  /\ reading = {}
  /\ stack = <<>>
  /\ mode = "wires"
  /\ panel = FALSE
  /\ expanded = {}
  /\ inputs = 0

Input == inputs < MaxInputs /\ inputs' = inputs + 1

-----------------------------------------------------------------------------
(* Compiling.                                                              *)

\* What compile() gives the compiler: the text, but the files of an example
\* of several whatever the text was changed to
InputOf(i, text) == IF Examples[i].kind = "multi" THEN Examples[i].files ELSE text

\* The compiler is there and does not throw
Compiles(x) == wasm' = "ready" /\ Outcome[x] # "throws"

\* Mutant: the panel opens for the errors of the parser only
CompileQuietly(x, before) ==
  IF Compiles(x)
  THEN result' = x /\ panel' = HasParseErrors(x)
  ELSE result' = before /\ panel' = panel

\* compile(): nothing before the compiler is there; a compiler that throws
\* leaves the result that was there before
CompileInto(x, before) ==
  IF Compiles(x)
  THEN result' = x /\ panel' = HasIssues(x)
  ELSE result' = before /\ panel' = panel

\* Mutant: what the editor is given is not handed back
NotEmitted(t) == t

\* The editor has its own line ends, and its listener emits the changed text
Emitted(t) == Normal[t]

\* A new text reaches the editor when it is not what the editor has
SetSource(t) ==
  IF t \in {source, doc}
  THEN source' = t /\ UNCHANGED doc
  ELSE source' = Emitted(t) /\ doc' = Normal[t]

\* Mutant: the first edit waits, the others do not schedule
ScheduledOnce(t) == IF t = source THEN timer ELSE ~ timer

\* The watcher on the source: scheduleCompile
Scheduled(t) == timer \/ t # source

WasmLoads ==
  /\ wasm = "loading"
  /\ wasm' = "ready"
  /\ CompileInto(InputOf(selected, source), result)
  /\ UNCHANGED <<source, doc, selected, timer, reading, stack, mode, expanded, inputs>>

WasmFails ==
  /\ wasm = "loading"
  /\ wasm' = "failed"
  /\ UNCHANGED <<source, doc, selected, result, timer, reading, stack, mode, panel, expanded, inputs>>

\* The user types; the editor emits the new text
Edit(t) ==
  /\ Input
  /\ t # doc
  /\ doc' = t
  /\ source' = t
  /\ timer' = Scheduled(t)
  /\ UNCHANGED <<wasm, selected, result, reading, stack, mode, panel, expanded>>

TimerFires ==
  /\ timer
  /\ timer' = FALSE
  /\ wasm' = wasm
  /\ CompileInto(InputOf(selected, source), result)
  /\ UNCHANGED <<source, doc, selected, reading, stack, mode, expanded, inputs>>

\* loadExample and its watchers, in the order in which it sets them off: the
\* one on the selection takes a timer back and compiles at once, the one on
\* the source then schedules a second compile of the same input
LoadExample(i) ==
  /\ Input
  /\ i # selected
  /\ selected' = i
  /\ SetSource(Examples[i].text)
  /\ timer' = (Examples[i].text # source)
  /\ wasm' = wasm
  /\ CompileInto(InputOf(i, Examples[i].text), Nothing)
  /\ stack' = <<>>
  /\ UNCHANGED <<reading, mode, expanded>>

-----------------------------------------------------------------------------
(* A directory: the picker and the files are awaited, what follows runs in *)
(* one go, whatever happened to the application meanwhile.                 *)

OpenDirectory(d) ==
  /\ Input
  /\ d \notin reading
  /\ reading' = reading \cup {d}
  /\ UNCHANGED <<wasm, source, doc, selected, result, timer, stack, mode, panel, expanded>>

\* Without a PatchLang file, or without a choice, nothing happens
Abandoned(d) ==
  /\ d \in reading
  /\ reading' = reading \ {d}
  /\ UNCHANGED <<wasm, source, doc, selected, result, timer, stack, mode, panel, expanded, inputs>>

\* What compileMulti makes of the files
MultiResult(d) == IF wasm = "ready" THEN Directories[d].files ELSE NotLoaded

\* The text goes to the editor and its watcher schedules a compile of the
\* selected example; a compiler that throws leaves the rest undone.  The
\* panel is set for parse errors; the watcher on hasIssues opens it for other
\* errors only when there were none before
DirectoryRead(d) ==
  /\ d \in reading
  /\ reading' = reading \ {d}
  /\ SetSource(Directories[d].text)
  /\ timer' = Scheduled(Directories[d].text)
  /\ LET r == MultiResult(d)
     IN  IF r \in DOMAIN Outcome /\ Outcome[r] = "throws"
         THEN UNCHANGED <<result, stack, panel>>
         ELSE /\ result' = r
              /\ stack' = <<>>
              /\ panel' = (HasParseErrors(r) \/ (HasIssues(r) /\ ~ HasIssues(result)))
  /\ UNCHANGED <<wasm, selected, mode, expanded, inputs>>

-----------------------------------------------------------------------------
(* Levels, tree, mode and panel.                                           *)

\* drillInto, from a node of the diagram
Drill(i, template) ==
  /\ Input
  /\ stack' = Append(stack, [name |-> i, template |-> template])
  /\ UNCHANGED <<wasm, source, doc, selected, result, timer, reading, mode, panel, expanded>>

\* navigateTo, from the breadcrumbs; 0 is the root
Navigate(k) ==
  /\ Input
  /\ k < Len(stack)
  /\ stack' = SubSeq(stack, 1, k)
  /\ UNCHANGED <<wasm, source, doc, selected, result, timer, reading, mode, panel, expanded>>

NamesOn(path) == [k \in 1 .. Len(path) |-> path[k].name]

\* The rows on the screen: below a row that is open and composite
VisibleRows ==
  IF result \notin DOMAIN Program THEN {}
  ELSE {r \in Tree(result) :
          \A k \in 1 .. Len(r.path) - 1 : NamesOn(SubSeq(r.path, 1, k)) \in expanded}

\* A click on a row opens or closes it when it is composite, and selects it
SelectRow(r) ==
  /\ Input
  /\ LET key == NamesOn(r.path)
     IN  expanded' = IF ~ r.composite THEN expanded
                     ELSE IF key \in expanded THEN expanded \ {key} ELSE expanded \cup {key}
  /\ stack' = Append(stack, LastOf(r.path))
  /\ UNCHANGED <<wasm, source, doc, selected, result, timer, reading, mode, panel>>

SetMode(m) ==
  /\ Input
  /\ m # mode
  /\ mode' = m
  /\ UNCHANGED <<wasm, source, doc, selected, result, timer, reading, stack, panel, expanded>>

ClosePanel ==
  /\ Input
  /\ panel
  /\ panel' = FALSE
  /\ UNCHANGED <<wasm, source, doc, selected, result, timer, reading, stack, mode, expanded>>
=============================================================================
