# A TLA+ development for SignalCanvasLang

PatchLang describes an audio or video installation: templates of devices with
ports and slots, instances of them, and the connects, bridges, signals, streams,
rings and networks between them. `crates/patchlang` holds the language: a parser,
the `[auto]` pass, the design-rule check (DRC), a graph compiler, and a *program
builder* through which an editor changes a program. WASM, Python, command-line
and language-server crates wrap it; two TypeScript packages draw the result.

This directory specifies the parts of it where the order of operations, the
relation between two tables, or a whole walk over the input decides whether the
result is right. TLC checks the specifications on small instances; TLAPS proves
the most important results for every value of the constants.

## 1. Inventory

Paths are below `src/crates/patchlang/src/` unless they start with `src/`.

| Part | State | Operations | What is hard | What makes it correct |
|---|---|---|---|---|
| **Program builder** `builder/` | a list of statements, the imported templates, a counter per connect-ID text | 40 public operations on templates, instances, slots, connects, bridges, configs, signals, streams, flags, rings | long sequences of legal calls; eager validation on the way in against a cascade on the way out; a counter that only grows against a rank that is recounted; calls that stop half-way (`add_connect_mapped`, `set_labels`) | no statement refers to an instance that is gone; a cascade takes exactly what it should; names stay unique; IDs are not given out twice and address one connect |
| **Builder routing** `builder/routing.rs` | routes, buses, link groups inside a template or instance | add and remove | as above | a route joins ports of its own device |
| **Canvas emission and loading** `builder/canvas_emit/`, `canvas_load.rs`, `insert_endpoints.rs` | none between calls; drives a builder | a bundle from the editor to text, and text to a bundle | split ports, slot cards and stream selections lose their identity on the way | loading what was emitted gives the bundle back |
| **Lexer, parser** `lexer.rs`, `parser/`, `template_parser.rs`, `body_parser.rs` | position in the tokens, errors | one function per construct | every loop has to consume a token; recovery | the parser returns on every input and never runs past the end |
| **`[auto]` pass** `resolve_auto.rs`, its use in `compat.rs` | per port, the channels in use and a cursor | a scan for named channels, then one search per `[auto]` | the two passes have to see the same statements; a cursor that only moves up; `u32` arithmetic at a port that starts at 0 | channels are private, in range and in order, connects before bridges; every request is answered |
| **Multi-file compilation** `multi_file.rs` | queue, visited set, table of files, merged statements with their file, errors | one call that walks `use` statements | circles, missing and broken files, duplicate names, provenance by index | reads exactly the reachable files, once, breadth-first |
| **Graph compiler** `graph/` | levels of nodes and edges | a walk of its own over the files; expansion of instances into sublevels and of connects into edges | a second copy of the walk; IDs that are joined texts in a map | shows the program that was checked; loses no edge |
| **Hierarchy contraction** `contract.rs` | none | a flat program into groups | exposed ports for exactly the channels that leave a group | its graph is leaf-equivalent to the flat one's |
| **DRC** `drc/` | a context built per run | some forty rules | reachability for signals and rings; effective ports of slotted instances | no rule judges a port it resolved otherwise than the builder |
| **JSON conversion** `compat.rs`, `ids.rs` | none | AST to JSON types | merging resolutions | the JSON says what was resolved |
| **Formatter, importer, layout validator, manifest** | none | text or JSON conversion | wording and layout | – |
| **WASM bindings** `src/crates/patchlang-wasm/src/lib.rs` | a table of builders behind one lock | allocate, use, free, and a wrapper per operation | a position is used again after it is freed | a handle reaches its own builder |
| **Language server** `src/crates/patchlang-lsp/src/` | parsed documents per URI | open, change, close, queries | overlapping notifications; what is published when | what the editor shows is about the text it has |
| **Command line, Python** | none | one library call | – | – |
| **Diagram, transformation** `src/packages/diagram/src/useAstToFlow.ts` | none | one call: nodes, edges, then three passes that split, move and relabel port rows | a pass counts uses before the pass that changes them; runs of channels; ports used from both sides | each wire has a row of its own that says what it carries; no channel is lost or shown twice |
| **Diagram, component** `src/packages/diagram/src/FlowDiagram.vue` | the canvas, the last layout, nodes under the pointer | two watchers, an awaited layout, drags | layouts answer late while graph, mode and pointer move on | the canvas comes to show the graph and mode that were passed; no edge ends where its node was |
| **Demo application** `src/packages/demo/src/` | text, editor, selected example, compile result, timer, open level, tree, panel | events of the user, the loading compiler, a 400 ms timer, directories read asynchronously | every order of these; two sources of truth for the text; results that outlive their text | what is shown is the result of the text in the editor, or of the files of the selected project |
| **Editor extension** `src/vscode/src/extension.ts` | one timer per file, a collection of diagnostics | open, edit, close, timer; completions | a timer outlives its document; untyped JSON | diagnostics are those of the text; a closed file has none |
| **Scripts** `src/scripts/`, `src/docs/superpowers/` | none | run once over files | – | – |

How they interact: in the Rust crates everything is a synchronous call. A client (editor, WASM)
parses text into a program and gives it to a builder (`from_program`), or starts
empty; the builder validates against the DRC's context (`build_context`,
`build_effective_port_map`). `check` runs parse, then the `[auto]` pass, then
conversion and DRC. `compile_project` parses and merges files and runs the DRC;
`compile_project_to_graph_from_sources` walks the same files again on its own and
compiles the graph. The only shared mutable state is the WASM table of builders
and the language server's table of documents, each behind one mutex.

The TypeScript side is single-threaded and event-driven. Each event runs to its end
together with the watchers it triggers; what is awaited (a timer, a layout, a file, the WASM
module) comes back as an event of its own and finds the state as it is then. The demo
calls the compiler, keeps the result, cuts the open level out of it and passes it as properties to
`DiagramCanvas`, which calls `transformAstToFlow` and mounts `FlowDiagram`; clicks come back as
events that open another level. The extension calls the same compiler on whole documents.

`PROJECT.json` lists every component with what is modelled of it, and every
hazard of the code at its line with the properties that look for it.

## 2. Modules

| Module | Stands for |
|---|---|
| `BuilderProgram` | the builder's state; templates, effective ports and connect IDs as operations read them |
| `BuilderStructure` | templates, library, instances, slots, connects, and `remove_instance`'s cascade |
| `BuilderAnnotations` | bridges, bridge groups, configs and labels, signals, streams, flags, rings |
| `PatchBuilder` | every sequence of these operations on an empty or a parsed program; the properties |
| `AutoResolve` | the `[auto]` pass, one probe of the search per step, and the merge of its result |
| `ChannelPool` | what `[auto]` promises: private contiguous blocks of a port's range |
| `MultiFile` | `compile_project`, one statement per step |
| `UseClosure` | what following `use` promises: the closure of a relation |
| `ProjectGraph` | the graph compiler's own walk and its choice among templates of one name |
| `ProjectViews` | both project calls on the same files, as a client makes them |
| `GraphProgram` | programs as the graph compiler and the contraction read them, and texts joined with underscores |
| `GraphEdges` | the edges of connects, bridges and bridge groups, with their IDs |
| `GraphLevels` | `compile_ast_to_graph`: ports, levels inside templates, the passes over finished edges |
| `Contract` | `contract_to_hierarchy`, one connect or signal per step, and what it must keep |
| `ContractedGraph` | a program and its contraction, both compiled and compared |
| `FlowGraph` | `transformAstToFlow`: nodes and edges, the split of shared handles one per step, the rows of unused channels; the tags of netnames mode |
| `DiagramView` | `FlowDiagram.vue`: what it shows between its parent, the layout engine and the pointer |
| `LevelView` | levels and the tree of instances, as functions of a program |
| `DemoApp` | the demo's events and watchers |
| `Demo` | the application around its diagram; the properties |
| `EditorExtension` | the documents, timers and diagnostics of the VS Code extension |
| `EditorCompletion` | its completions, from the JSON the compiler gives it |
| `MC…` | instances for TLC |
| `PatchBuilderProofs`, `AutoResolveProofs`, `MultiFileProofs`, `ContractProofs`, `ContractedGraphProofs`, `FlowGraphProofs`, `DemoProofs`, `EditorExtensionProofs` | the theorems |

`PatchBuilder` composes `BuilderStructure` and `BuilderAnnotations` over `BuilderProgram`; `ProjectViews` composes
`MultiFile` and an instance of `ProjectGraph`; `ContractedGraph` composes `Contract` and `GraphLevels`;
`Demo` composes `DemoApp` (over `LevelView`) and `DiagramView`.

### The builder

`program` is `self.program` with its statement list split by kind; where the code
depends on positions (the first template of a name, the rank of a connect) records
carry `at`, the value of `clock` when they were appended. `library` and `counter` are
the fields of the same meaning. `issued` is history: for each connect still there,
the ID its caller was given.

Every operation takes `&mut self`, so an operation is one step; what it does before
an early error return is part of the step (`AddConnectMapped` may add only the first
runs). A refused call is not a step, unless it changes state. Payload no operation looks at is left out:
spans, property texts other than their replacement, label texts, channel indices of
connects. Two places are nondeterministic because the code is: cards are grouped in
a `HashMap`, so which card a port name resolves to when two slots declare it depends
on iteration order (`EffectiveDirs`), and a call may read it one way and the next
the other.

Assumptions on inputs (`ProgramsWellFormed`, `Inputs`): a parsed program has unique
instance names and attached connects, bridges and configs, as the parser and the
structural checks leave it. Nothing is assumed about templates being there, about
signals, streams, rings or bridge groups.

### `[auto]`

A program is the sequence of (source, target) pairs in the order the pass visits
them: connects first, those of link groups included, then bridges and the sources
of bridge groups. `span` is the place of the statement in the file, which grows within
each kind only (`VisitingOrder`). The pre-scan is one step; then each `[auto]` starts a search at
its port's cursor (`BeginSearch`), probes one `start_ch` per step (`Probe`, `Found`)
and ends with `Exhausted`, which counts the channels of the whole range for the choice
between A04 and A05. `Beyond` keeps the `u32` subtraction: with a count of 0 (an
index list that expands to nothing) at channel 0 it wraps in a release build; a
debug build would panic there. `Convert` is the merge in `compat.rs`, which
looks resolutions up by span and side, and for connects only.

### Multi-file

`files` and `entry` are the arguments. A file is its statements and whether parse
reported errors. `resolve_namespace` is the constant function `PathOf`. File
indices are kept modulo `IndexRange` (2^16, the `as u16` of the code). Errors are a set
of kind and path; their order and wording are left out. The graph's walk has its own
variables and is composed in `ProjectViews`: it starts when the first call has
returned.

### Graph and contraction

The compiler and the contraction build port and edge IDs by joining names with underscores and later ask whether
an ID starts with another or ends in a number. A text is therefore the sequence of its pieces between underscores:
joining is concatenation, and an endpoint `a.b_in` and an endpoint `a_b.in` spell the same, as they do in the code.
`Numeral` gives the text of each channel number and `Modulus` the width of `u32`. An empty index (an
`[auto]` that was not resolved) is told from no index by `indexed`.

`Contract` keeps the phases of the function: `Group` builds the instance map, folds small
clusters and decides what stays at the top; then every connect goes one of five ways (`KeepInside`,
`RewireSource`, `RewireTarget`, `RewireBoth`, `LeaveOnTop`), every signal one of two, and `Assemble` declares the
groups and wires their boundaries. `exposed` is the map of exposed ports; exposed ports are assembled in no
particular order, which nothing reads. `GraphLevels` is a pure function from programs to levels: a level is
its path, its nodes with their ports, and its edges. `Compile` applies it to the program and to the result, as the
test of the equivalence does. Between the two the test formats and parses the result again; that is left out, as are
attributes, labels, streams, rings, edge properties and bus numbering, which are copied and looked at by nothing here.

Assumptions (`InputsWellFormed`, `InputsTyped`): instance names are unique, as the structural rules leave them; the
assignment names instances of the program. The instance has ranges with `lo <= hi`.

### Diagram

`FlowGraph` takes one call of `transformAstToFlow` apart into its passes. A row stands for a `PortHandle`: its handle,
its column on the device and, for its label, the set of channels the label names (`Unindexed` for the `[?]` of a vector
port without an index). Handles are tuples where the code joins texts; a name of PatchLang has no hyphen, so the joined
texts differ when the tuples do. `conns`, `rows`, `edges` and `shared` are the statements, the port lists of all nodes,
the two handles of each edge and `multiUse`. `FanOut` is one turn of the loop of `fanOutSharedPorts`, in any order: a turn
touches one handle only. `AddRemainderPorts` is the last pass. `PortTags` and `NetTagNodes` are the functions `FlowDiagram`
applies to the result.

`DiagramView` has `props`, what the parent passes, and follows every change of it in the same step (`Follow`), as the
watchers do before the next event. A graph with nodes is asked of ELK (`pending`, answered in order by one worker);
`LayoutDone` is the continuation, which reads the mode of then. A graph without nodes needs no layout and is shown at
once. `stored` is the last layout, redrawn by `NewMode`. A drag takes the waypoints of the edges at its nodes away
(`TouchesDragged`) and moves them (`moved`); `caught` is history for the nodes that a layout put in place under
the pointer. A layout ELK refuses (`Routable`) leaves the edges as they were.

### Demo

An action of `DemoApp` is an event with the watchers it triggers. `source` is the text of the
application and `doc` that of the editor, which has its own line ends (`Normal`) and hands changed text back
(`Emitted`). A result is named by the input it was compiled from, and `Outcome` says what the compiler makes of an input: errors,
warnings, or an exception, which leaves the result that was there. `OpenDirectory` and `DirectoryRead` are the two sides of an
await; between them anything may happen. `Demo` adds the diagram: `CanvasProps` is `DiagramCanvas`, and every action of
the application comes with what it passes (`Render`). Timers and layouts have no duration: they end after any other
events, or before them.

### Editor extension

A document is a uri and the number of times it was opened, because a timer keeps the object it was made for.
The diagnostics of a text are the text. Timers have one delay, so they fire in the order
they were set. `tracked` is `debounceTimers`; `strayed` is history, the files that were closed
under a running timer. `EditorCompletion` gives statements the keys that the compiler serialises and lets the provider
read the keys it reads.

## 3. Runs

| Run | Question | Instance | Distinct states |
|---|---|---|---|
| `builder_structure` | Do references and connect IDs survive every sequence of structural operations? | a desk with two slots, two cards that give it the same port in opposite directions, two instances, a library, wires both ways; from empty and from a parsed program; at most 4 statements ever appended, 2 runs per mapped connect | 197 504 |
| `builder_annotations` | Is the cascade of `remove_instance` exact? | two instances of an RF device, one statement of every kind that can name an instance, two config blocks of one instance; at most 3 positioned statements | 81 280 |
| `auto_resolve` | Does `[auto]` give out private channels in order and answer everything? | one port of channels 0–3, a scalar port, an unbound side; every program of up to three statements of ten shapes, connects and bridges in any order in the file | 69 929 |
| `project` | Does the walk read what it should, and does the graph see the same program? | four paths, 2521 projects with circles, self-uses, missing and broken files, duplicate names, a missing entry | 45 140 |
| `graph` | Does the contraction keep connections and origins, and does the graph draw every cable and nothing loose? | four devices, one with an instance inside, two whose names run into a port's, a slot with a card; 28 cables (whole ports, lists, `[auto]`, mappings, one of which cannot be read, over-range, bidirectional and undeclared ports), every pair of them, or one with signals (of one, several and all channels, and of a port that starts at 2), bridges or bridge groups; four assignments, one with two clusters of one sanitized name | 36 404 |
| `flow_graph` | Does every wire keep a row that says what it carries, however rows are split? | two devices with vector, scalar and bidirectional ports and one whose port comes from a card; every list of up to three of ten connects and bridges | 5 778 |
| `extension` | Do the diagnostics come to describe the text? | two files, two texts, each file opened twice, three edits | 39 301 |
| `demo` | Does what is shown come to be the result of the selected text or project, level by level, and does the diagram follow? | two examples (one text with a template inside itself, one of several files), three texts to type (one ELK cannot route, one with errors, one the compiler fails on), a directory with other line ends; five events of the user | 217 587 |
| `connect_ids` (violated) | is an ID stable across edits? | as `builder_structure` | – |
| `contract_inside` (violated) | is the contraction's graph leaf-equivalent for cables of whole ports inside a group, too? | as `graph` | – |
| `extension_closed` (violated) | does a closed file have no diagnostics? | one opening, one edit | – |
| `extension_completion` (violated) | are the ports of an instance offered? | two templates, an instance of each | – |

Why the bounds are enough to be interesting. Connect IDs go wrong with two parallel
connects and one removal, then a third connect: three appended statements; four leave
room for one in another direction and for a parsed program that brings two of its own.
The cascade needs, of every kind, a statement that names the
removed instance and one that does not; the two instances and `Unqualified`
give both. A port of four channels lets blocks of one, two and three channels
be blocked, be fragmented and pass the cursor; three statements put an explicit channel
before, between and after two requests. Four paths give circles of one, two and
three files, two ways to one file, and a file that is only found missing at the
second step. Two cables are what it takes to widen an exposed port, to make two names or
two edge IDs meet, and to cut a cable by keeping another's end at the top; groups of two instances instead of
three (`MinGroupSize`) leave a device outside, a small cluster and two groups in a program of four. Three statements are the least that split
both ends of one wire among different partners, and the ten shapes hold a lone channel, two runs, the whole range, no
index and both ends on one handle. Two openings of a file are enough for an old timer to meet a new document,
three edits for one before and one after. Five events let the user choose an example, open a directory, type, open a
level and drag while the compiler, the timer and two layouts are under way.

The bounds in guards are `MaxClock` and `MaxRun` (statements ever appended, contiguous runs of one
`add_connect_mapped`), `MaxWires` (statements of a level), `MaxOpens` and `MaxEdits` (extension) and `MaxInputs` (events of
the user). No theorem depends on their values.

Deadlock is checked in the builder runs (an editor can always go on) and in `flow_graph` (the next call starts); the others are
function calls, which end, or stop when their users do.

### Fairness

`AutoResolve`, `ProjectViews` and `ContractedGraph` assume weak fairness of their whole next-state relation,
and nothing finer: a synchronous call that has a step to take takes it. The builder
has no liveness property: nothing forces a client to call. In `EditorExtension` only the firing of a
timer is fair, in `Demo` only the timer and the answer of ELK: a timer that is not cleared fires, and the layout engine
answers or rejects. Users, the loading of the compiler, the file picker and drags are under no fairness: a property
that depends on them says so (`wasm` that never gets ready, a directory never chosen).

### What the runs say

References: whatever is called in whatever order, no connect, bridge or config block
names a missing instance (`NothingDangles`), and `remove_instance` removes exactly the
references to its instance (`CascadeExact`). That names stay unique and that removing a template never
takes an instance's own template away is proved only (`NamesUnique`, `RemovalSafe`).

Connect IDs: the counter of a text is never behind its connects
(`CounterCoversConnects`), so a new ID addresses no older connect (`FreshId`); an ID
addresses at most one connect (`IdsAddressOne`), and one that has gone stale is at
worst off by one of several connects of the same two ports (`HeldIdsStayOnPair`).

`[auto]`: channels are never shared with another `[auto]` nor with a channel a statement
names anywhere in the program (`NoSharedChannel`). On one port connects get lower channels than
bridges, and of two connects or two bridges the one that stands first in the file (`AllocationOrder`); this is not the order of declaration
that the documentation promises, see below. A search that gives up missed
nothing at or after the cursor (`NoBlockMissed`); every request on a port that
was found gets channels or one error, and one on a port that was not found gets neither (`EveryAutoAnswered`); the pass implements `ChannelPool` (`PoolSpec`).

Projects: the reachable files are read in breadth-first order
(`BreadthFirst`: none is read before one that is fewer uses away), the missing ones are reported and no other is touched
(`CompleteWhenDone`); the merged program has the declarations of the files in the order they were read, each with the
index of its file, and nothing else (`ProvenanceTrue`); the graph's walk merges the same
statements, and `templateFiles` names the file of the template the graph uses when there
was no error (`GraphAgrees`); the walk implements `UseClosure` (`ClosureSpec`).

Contraction: the boundary of a group is the union
of what crosses (`BoundaryExact`); each signal still starts at the same channel of the same device
(`OriginsKept`), a boundary is wired with exactly the channels that cross (`BoundaryWired`), and the same channels of
the same devices are connected before and after (`EquivalentInScope`).
All but the first hold for programs within a scope (`InScope`), a conjunction of conditions on the program, the boundaries
that were noted and the names in the result. It is the scope for which they are proved. Without any one
of the conditions TLC finds a program of the instance whose connections change, except for `CablesJoinDevices`,
`PortsApart` and `InnerApart`: these the proofs found, and no program of the instance breaks them.

| Condition | Without it |
|---|---|
| `InsideNamesChannels` | a cable of whole ports inside a group is one channel flat, all channels in the group (the second disagreement below) |
| `CablesJoinDevices` | the gate takes a name that is no instance for a boundary and follows cables through it, farther than there are levels |
| `NoAutoCut` | an `[auto]` that crosses, of a cable or a signal, exposes a port without channels |
| `WholeFromOne` | a whole port is exposed from channel 1 whatever its range, a card's port from 1 to its last channel or as a scalar, a scalar with an index as two things at once; the lengths differ and the wiring inside is skipped in silence |
| `WiredAsUsed` | a port used against the direction its wire has (bidirectional, undeclared, or used both ways) is wired outward although a cable enters it |
| `MappingsUncut` | an instance kept at the top cuts a cable with a mapping that was inside its group when this was decided |
| `PortsApart` | a port called `in_2` beside a port `in`: a reference to one lands on the other |
| `GroupsApart` | two clusters sanitize to one name and replace each other, or a cluster replaces a template or makes one for an instance or a card that had none |
| `InnerApart` | the gate tells devices by the last name of a path, so an instance inside a template that is called like a device is taken for it |
| `TextsApart` | two cables have one edge ID, before or after the contraction, or a port of a boundary reads like a channel of another |

`BoundaryWired` leaves out boundaries with a channel below the range of the device (0, or 1 when the range starts at 2): there
a wire names channels that exist on one of its sides only. `OriginsKept` is about origins of at most one channel; the graph shows
an origin of several as the port without any.

Graph: every channel pair that is asked for and whose ports exist is an edge of the flat program's graph (`CablesDrawn`), and
for programs whose cables and signals name declared ports and no channel below their range (`Regular`) every edge that the contraction has to do with
ends at ports of its nodes: the cables of both roots and the edges inside the groups (`EdgesLand`). Edges inside the program's own templates and
bridges are no part of it: nothing is asked of what stands in a template, and a bridge may name a device that has moved into a group.
`CablesDrawn` speaks of programs in which no two cables spell different ports alike, channels included (`EndsApart`: `a.b[1] ->
c.d_e` and `a.b_1_c -> d.e` have one edge ID). It leaves out bridges whose source is spelled by another and bridge groups whose
target is: their IDs are equal and the later edge replaces the earlier one (`LoneBridges`, `LoneGroups`). A bridge from an
instance called `group` or `group_...` is left out too, as its ID can be a bridge group's.

Diagram: after every pass an edge ends on a row (`EndsLand`), after the last no two wires share one (`OneWirePerRow`); rows
of a column have different handles (`RowsApart`), a row names exactly the channels of its wire (`SliceShown`), every channel of a
vector port is on one row, lit when it is used (`ChannelsShownOnce`); in netnames mode every end of a wire has a tag that names
the other device (`TagsReplaceWires`). The two properties on labels leave out bidirectional ports and a lone reference of several
runs: there the code shows less, see below.

The component: when no layout is under way the canvas shows the current graph, in the current mode at any time (`SettledShowsCurrent`), and an edge drawn
along waypoints ends on nodes that have not moved (`NoStaleWaypoints`); the canvas gets there (`DiagramCatchesUp`). The empty graph
and nodes under the pointer are excepted, as the comments of the properties say.

Demo: `QuietShowsInput` says what is shown when no compile is due. While an example of one text is selected, it is the result of the
text in the editor, and the application gets there once the user stops (`EditsCompiled`). While a project is selected, it is the result of the project's
files: `compile` does not read the text then (`App.vue:46`), so the property says nothing about what is typed. In both cases it may be
the result of a directory whose entry is in the editor, or the one of before when the compiler throws; that a directory's result stays is not claimed. A result with errors opens the panel
(`IssuesOpenPanel`); the tree, the nodes that can be opened and the levels agree (`WhatOpensIsThere`). `DiagramServed` is
a refinement: what the application does to its diagram is a behaviour of `DiagramView`, so what is proved of the component for
every parent holds in the application.

Extension: a file has one timer, the one the map knows (`OneTimerPerFile`); without one its diagnostics are those of its text, and a
closed file has none (`QuietIsCurrent`); they catch up (`CatchesUp`). All three hold for files never closed under
a running timer; `extension_closed` shows why.

### Disagreements with the documentation

Shown by a run:

1. `docs/compiler.md:683` calls connection IDs "deterministic and stable across edits";
   removing the first of two parallel connects renames the second (`connect_ids`).
2. `contract.rs:7` says that the graph of the result is leaf-equivalent to the flat program's; a cable between two
   whole ports of one group joins their first channels before and all of them after (`contract_inside`).
3. `src/vscode/src/extension.ts:317`: "Clear diagnostics when document closes"; the timer of an edit just before is not
   cleared and puts them back (`extension_closed`).
4. `src/vscode/src/extension.ts:240`: after an instance's name and a dot its ports are suggested; the provider reads keys
   the compiler does not write, so none ever are (`extension_completion`). For the same reason no instance is
   offered after `connect` or `->`, though line 259 says so, and ranges are not expanded.

Met while modelling, not run:

- `docs/language-reference.md:827`, `docs/compiler.md:366` and `:371` and `resolve_auto.rs:4` say that `[auto]` on a connect or bridge gets its channels in
  declaration order. The pass goes through all connects before the first bridge (`resolve_auto.rs:76` to `101`): a bridge written above a
  connect on the same port gets the higher channels. `AllocationOrder` states the order that the code keeps.
- `builder/templates.rs:16`: `remove_template` "fails if any instances still reference it"; a card template in a slot is not looked at.
- `docs/language-reference.md:843` says A05 means that explicit indices fragment the range;
  it is also reported when the free block lies below the cursor.
- `docs/compiler.md:373`: the JSON "contains resolved concrete indices, not `auto`"; for a bridge it still says auto.
- `docs/language-reference.md:542`: `use yamaha { CL5, Rio3224 }` imports specific templates; the list is not looked at.
- `useAstToFlow.ts`: a wire on one side of a bidirectional port relabels the row of the other, and its unused channels
  have one handle in both columns (`types.ts:5` calls the ID globally unique).
- `FlowDiagram.vue:220` sets wires to opacity 0 in netnames mode; only the orthogonal edge heeds it, so wires that were dragged or
  not routed stay visible.
- `FlowDiagram.vue:388`: one wire to a card's port makes ELK refuse the whole diagram; all nodes are then drawn at the origin.
- `App.vue:71` says "compile immediately on example switch": the watcher on the selection does, and the watcher on the source, which
  runs after it, schedules the same compile once more. 400 ms later the diagram is laid out again, and a panel that was closed meanwhile reopens.
- `App.vue:46`: with a project selected the text of its entry can be edited, and is never compiled.
- `App.vue:98`: opening a directory sets the source, whose watcher compiles the selected example 400 ms later and replaces
  the directory's result.

## 4. Proofs

**Builder, integrity** (`PatchBuilderProofs`). Assumed: `Inputs` and `ProgramsWellFormed`. `TypeOK` is
inductive together with finiteness of the set of connects. `Integrity` is inductive on
top of it: `NothingDangles`, `NamesStayUnique`, and two facts about positions and wires
(`Ordered`, `ConnectsWired`); without `Ordered` a position could be used twice and
"the first" would mean nothing. There is one step per operation. `RemovalSafe` and `CascadeIsExact`
are action properties and follow from the same invariant.

**Builder, connect IDs** (`PatchBuilderProofs`). Every operation does one of four things to
connects, counter and held IDs: grow, drop, rewrite in place, keep (`ConnectSteps`).
From this `CounterCovers` follows without an assumption on texts. The other four theorems
assume `UnambiguousIds`: no two pairs of ports and suffixes spell the same text. The code does not
guarantee it — a port called `in_2` beside a port `in` breaks it — and the assumption
is stated in each theorem. The core is that the rank of a connect is injective
among the connects of its text, and never above the counter.

**`[auto]`** (`AutoResolveProofs`). Assumed: ranges are of natural numbers, ports with and without a range
are different, programs are well typed and visited connects first, in the order of the file within a kind (`VisitingOrder`). The invariant adds to `TypeOK`: after the scan
all named channels are consumed (`Scanned`); every block given out lies below its
port's cursor, in range, consumed and unnamed (`Granted`); the cursor is at or above the
first channel (`CursorInRange`); a running search belongs to the current pair and
everything it has left behind was not free (`SearchRuns`); blocks are apart and ordered (`Apart`).
The cursor is what makes `Apart` inductive. `Apart` orders the blocks of a port by the visit; `BlocksInOrder` carries this over
to kinds and places in the file (`BeforeIsVisitedFirst`). `ImplementsPool` maps every step to a step of `ChannelPool` or a stutter.
For `EveryAutoHasOneAnswer` the invariant is extended by `Answers`: every pair that was passed has one resolution or one error
if one was due and neither if none was, no pair has an answer before it was passed, and the pass ends only past the last pair.

**Multi-file** (`MultiFileProofs`). Assumed: `PathOf` is a function from namespaces to paths,
`IndexRange` is positive, the arguments are well typed; the set of paths may be infinite. The invariant
adds to `TypeOK`: what was visited is waiting, read or reported missing, and only one of the three
(`Partition`); all uses of a file that was left, and those already passed of the file being read, are visited
(`UsesVisited`); nothing is visited that the entry does not lead to (`OnlyReachable`); and what each
phase starts with (`Phases`). When the queue is empty the visited set is closed under `use`, so it is
the least closed set. `ImplementsClosure` is the refinement of `UseClosure`.

`WalkIsBreadthFirst` goes through the levels of the `use` relation (`Within`, a recursive function, is unfolded once for all
`n` by induction in the form of sets: the naturals for which a formula holds are a set with no least element outside). Its
invariant `Ordered` says that files read and files waiting, one after the other, never get nearer to the entry, and that the last
that waits is at most one use farther than the file being read. `MergedInPlace` needs no induction: `Place` is the number of
declarations up to one, `Laid` are those passed so far, and `Merged` puts each at its place. Its hypothesis `Len(file_table) <=
IndexRange` is the 16-bit index of the code.

**The two walks of a project** (`MultiFileProofs`, second part). Assumed besides: `NothingType` (`Nothing` is not a path). `WalksAgree` says that both
walks merge the same statements, and that without errors `templateFiles` is right. The invariants are: of the first walk, that a file is read before another when its first `use` stands
earlier (`Found`), which fixes the order without a word about the queue, and that without errors a name belongs to one template
of one file (`Defined`); of the second, that its own queue follows that order (`Follows`) and that it has collected what was merged up to where it is (`Collected`).

**Contraction** (`ContractProofs`). Assumed: `Clusters`, `InputsWellFormed` and `InputsTyped` (connects and signals are lists).
The invariant adds to `TypeOK` where the position can be (`Reading`), and states the other two over a table and a
set of references given as arguments (`Apart`, `Exact`), so that noting one reference is one lemma (`NoteOne`), used
twice for a cable that leaves one group and enters another: there the second name is still free because it is
taken in another group (`FreeAfter`). `NamesStayApart` and `BoundaryIsExact` follow; `BoundaryOnlyGrows` is proved along
with the invariant, action by action.

**Graph, edges of the root** (`ContractProofs`). Assumed besides: `NumeralsTyped` (numerals are texts other than `to`) and `RefsTyped`
(references are texts with lists of channels, mappings one of four kinds, bridge groups no longer than there are channel numbers). `EveryCableIsDrawn` has
three parts. An expansion that is inserted stays, or gives way to a later one of the same ID
(`LastStays`). The twin lemmas read an ID back: `ConnectTwin` by cancelling its prefix; `BridgeTwin` because no numeral is `to`, which
tells the target's channel from the source's (`ReadApart`); `GroupTwin` because the place of a source is the last piece. A later edge of the same ID
joins the same two ports. And an edge whose ports exist passes the fallback and the range check unchanged (`PortsPass`). The proof found
that the property was wrong: it had assumed `TextsApart`, under which the example in section 3 loses a cable, and compared the sources
of bridges where it has to compare what they spell.

**Contraction, its graphs** (`ContractedGraphProofs`, on lemmas at the end of `ContractProofs`). Assumed besides: `Width` (there are at
least two channel numbers), `TemplatesTyped` (a program has the six parts, finitely many templates, ports with a range
of channels, and no empty name) and `SanitizedTyped` (what is made of a cluster's ID is a text); `RefsTyped` also says that a
reference with channels has an index. The four properties speak of the two graphs at the end, so the invariant (`Graphed`)
has to tell what the run leaves behind: where each cable and each signal ended up, in what order, that
the result is what `Assemble` makes of it (`Tables`), and that `compiled` is the two graphs. The rest follows from that.

*What is declared.* The ports of a group are the exposed ports, one each, from 1 to the highest channel (`BoundaryRanges`). What a list of
definitions expands to is computed by flattening a list of lists; the facts about it are those of the library's `FlattenSeq`,
and positions are taken from sets (`AllAt`) instead of filtered, so nothing is proved by induction over a list. `Shows` says
which channels of which ports a node has; from it follow where the fallback takes an end of an edge and when the range check
drops it, at a device (`Spot`, `Gone`) and at the top (`PortOf`, `Off`).

*The edges.* There are four kinds of level: the root before (`FlatRoot`), the root after (`GroupedRoot`), the levels of groups
(`GroupLevelEdges`: the cables that stayed inside, and one wire for each channel that crosses), and those inside the program's
own templates, which never lead to a device (`Lower`, `LowerEdges`). `EveryLevel` finds the kind of a level from its path, whatever the depth.
With this `BoundaryIsWired` reads off the wires of a group, `OriginsStay` follows an origin over one of them, and
`EveryEdgeLands` goes through the three kinds that a cable can be on.

*The connections.* A cable that crosses two boundaries is three edges: out of the group, at the top, into the group. So a device
leads to a device over at most two boundaries. `FirstStep` and `NextStep` say where the search can be after each step (`Told`), `SourceMet` and
`TargetMet` that a cable's pair of channels finds its wire in the group exactly when the flat edge is not dropped, and
`ReachedThree` that there are enough levels for the search not to end too early. `FlatLeaves` and
`GroupedLeaves` describe both sets of connections by the same cables and channels, which is `ContractionIsEquivalent`.

The proofs changed the properties. As first stated they held on every program of the instance of then, but not on every program:
a signal that starts at a whole port not starting at 1 widens a boundary as a cable does; a cable and a signal can use one port
both ways; a scalar port can be named with an index; the rename of a boundary can give two cables of the result one edge ID. Each is now in the scope,
and the instance has such signals.

**Diagram, transformation** (`FlowGraphProofs`). Assumed: `DeclAssumption`, `WiresAssumption` and `MaxWiresAssumption`; the level and its statements may be any. `Now` says where each end is in the middle of the split: a handle still
to split is the end of all its uses, one that was split only of its first. The invariant is that edges are there
(`EdgesFollow`) and, for declared ports, rows too (`RowsThere`), that only handles in use are split (`SharedOwn`), and that no row
is made up (`RowsKnown`). That different uses have different ranks (`Rank`) makes ends differ, by cardinalities of
finite sets. `EdgesEndOnRows` and `WiresApart` follow.

What rows say needs more: `RowsExact` is the set of rows after every pass, whatever the order of the split. `RowIdsApart` is a
case distinction over three sorts of rows. `LabelsAreSlices` holds for ports that are not bidirectional and
whose lone references are of one run (`Plain`). For `EveryChannelOnce` (`WellUsed`) a used channel is on the row of its use; an unused one is in the one run of
unused channels that holds it, which exists because the naturals are well-founded. `TagsAreExact` follows from `RowsExact` and
the edges.

**Diagram, component** (`DemoProofs`, first part). Assumed: `NoGraphAssumption`. The invariant adds to a type invariant that the last graph that waits is
the one that was passed (`LastAsked`), that what is drawn is what is stored, in the current mode (`DrawnFromStored`), and that a drag gives
waypoints up before nodes move (`WaypointsHold`); it is proved for every parent that
passes what it likes when it likes (`CanvasIsCurrent`, `WaypointsAreFresh`).

**Demo** (`DemoProofs`, second part). Assumed: `NormalAssumption` (normalising line ends twice is normalising once; examples and typed texts
have the editor's), `ExamplesAssumption`, `ResultsAssumption`, `ProgramsAssumption` (instances are functions from names, a program has finitely many
templates and none is called like the root) and `GraphsAssumption` (the diagram gets levels of the programs). The invariant: the editor
has the text of the application in its own line ends (`Synced`), without which "the result is that of the text" would be about two texts; the levels
that are open are instances of some program (`AppTypeOK`); the diagram has what `DiagramCanvas` passes (`props = CanvasProps`); and the
component's own. `ApplicationServes` is the refinement, by which every event of the application is one of a parent; so
`DemoCanvasIsCurrent` and `DemoWaypointsAreFresh` hold in the application. `InputIsShown` and `PanelOpens` follow event by event.
`OpensWhatIsThere` is about the program that is shown. The tree is a set of paths; that it shows every
instance that can be opened is proved by taking, of the paths to it, one that opens no template twice, which is no longer than there are
templates.

**Editor extension** (`EditorExtensionProofs`). Assumed: `NoTextAssumption`, `BoundsAssumption`. The invariant adds to `TypeOK`
that a number names one timer (`TimersApart`), that an entry of the map names a timer that runs (`EntriesRun`), that a timer of a
file without a stray is the one the map names and was made for the document that is open (`TimersKnown`), without which a firing
timer might describe a document that is gone, and what holds before activation and after deactivation (`IdleEmpty`).

**Only model-checked**: liveness (`CatchesUp`, `EditsCompiled`, `DiagramCatchesUp`), which the prover does not do. Every
invariant that a run checks is a theorem.

## 5. What is not modelled, and what could come next

1. **Canvas** (`canvas_emit/`, `canvas_load.rs`) with **builder routing**: conversions between a bundle and builder calls. The
   round trip is the property; it needs the records of the canvas, which are large and mostly copied.
2. **Parser**: the loops over tokens, one action per turn, and their progress. The `bridge_group` loop, which
   makes no progress on a token that is no identifier, is listed as a hazard.
3. **DRC**: signal tracing and ring checks as reachability. The pairwise rules compare two ports by tables and have no state.
4. **Tables**: the handle store of the WASM bindings, and the language server's documents.
5. **Proofs**: `UseClosure` for the graph's own walk; `EdgesLand` for bridges and for the levels inside templates, once it is
   clear what has to hold of a template for it.

Left out for good: the lexer, formatter, importer, layout validator and manifest (text and
field conversion without a step that depends on another), the command line and the Python bindings (one call each), the scripts, and what only
presents: sizes, colours and paths in the diagram, the marks and highlighting of the editor, the panels of the demo, and the texts of its examples.
