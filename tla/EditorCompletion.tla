-------------------------- MODULE EditorCompletion --------------------------
(***************************************************************************)
(* PatchLangCompletionProvider of the VS Code extension: what is offered   *)
(* at the cursor, from the names of the document as the WASM compiler      *)
(* reads it.                                                               *)
(*                                                                         *)
(* A statement is a record with the keys of the compiler's JSON, and the   *)
(* provider reads keys of its own, so a key that is not there matters.     *)
(* What stands before the cursor is reduced to the pattern it matches: at  *)
(* most one does.  The kind and the detail of an item are left out.        *)
(***************************************************************************)
EXTENDS Integers, Sequences

CONSTANTS
  Declarations,   \* the statements a document may have, see the constructors
  Cursors,        \* what may stand before the cursor, see Cursor
  MaxStatements   \* length of a document (bound of the model)

VARIABLES
  wasm,         \* wasmModule: "loaded" or "failed"
  statements,   \* of the document, as the compiler reads them
  asked,        \* the cursor of the last request, or NoCursor after an edit
  checked,      \* what check gave for it: "program" or "nothing"
  items         \* the labels offered

vars == <<wasm, statements, asked, checked, items>>

\* A template name is typed after "is ", a port after "<Name>.", an instance
\* after "connect ", "bridge " or "->"; anything else is "other"
Cursor(kind, name) == [kind |-> kind, name |-> name]
NoCursor == Cursor("none", "")

\* The JSON of the compiler: keys in camel case, a range only where there is one
ScalarPort(n) == [name |-> n]
VectorPort(n, first, last) == [name |-> n, rangeStart |-> first, rangeEnd |-> last]
Template(n, ports) == [type |-> "Template", name |-> n, ports |-> ports]
Instance(n, t) == [type |-> "Instance", name |-> n, templateName |-> t]

Init ==
  /\ wasm \in {"loaded", "failed"}
  /\ statements = <<>>
  /\ asked = NoCursor
  /\ checked = "nothing"
  /\ items = {}

-----------------------------------------------------------------------------

Has(s, keys) == keys \subseteq DOMAIN s

\* The last statement of a name is the one a Map keeps
LastNamed(which, n) ==
  CHOOSE k \in which : statements[k].name = n /\ \A j \in which : statements[j].name = n => j <= k

\* The statements extractSymbols takes for templates and for instances
TemplateStatements ==
  {k \in DOMAIN statements : statements[k].type = "Template" /\ Has(statements[k], {"name", "ports"})}

InstanceStatements ==
  {k \in DOMAIN statements : statements[k].type = "Instance" /\ Has(statements[k], {"name", "template_name"})}

NamesOf(which) == {statements[k].name : k \in which}

\* Without a program there are no names
Templates(result) ==
  [n \in IF result = "program" THEN NamesOf(TemplateStatements) ELSE {} |->
     statements[LastNamed(TemplateStatements, n)].ports]

Instances(result) ==
  [n \in IF result = "program" THEN NamesOf(InstanceStatements) ELSE {} |->
     statements[LastNamed(InstanceStatements, n)].template_name]

\* expandPorts: every channel of a range and the range itself
PortLabels(p) ==
  IF Has(p, {"range_start", "range_end"})
  THEN {<<p.name, i, i>> : i \in p.range_start .. p.range_end} \cup {<<p.name, p.range_start, p.range_end>>}
  ELSE {<<p.name>>}

\* provideCompletionItems
ItemsAt(c, templates, instances) ==
  CASE c.kind = "is" -> DOMAIN templates
    [] c.kind = "dot" ->
         IF c.name \in DOMAIN instances /\ instances[c.name] \in DOMAIN templates
         THEN UNION {PortLabels(p) : p \in templates[instances[c.name]]}
         ELSE {}
    [] c.kind = "endpoint" -> DOMAIN instances
    [] OTHER -> {}

-----------------------------------------------------------------------------

\* The document is written statement by statement, or emptied
Edit(s) ==
  /\ statements' \in {<<>>} \cup (IF Len(statements) < MaxStatements THEN {Append(statements, s)} ELSE {})
  /\ asked' = NoCursor
  /\ checked' = "nothing"
  /\ items' = {}
  /\ UNCHANGED wasm

\* The text at a cursor need not parse: check may give no program, or throw
Provide(c) ==
  /\ asked' = c
  /\ checked' \in (IF wasm = "loaded" THEN {"program", "nothing"} ELSE {"nothing"})
  /\ items' = ItemsAt(c, Templates(checked'), Instances(checked'))
  /\ UNCHANGED <<wasm, statements>>

Next ==
  \/ \E s \in Declarations : Edit(s)
  \/ \E c \in Cursors : Provide(c)

Spec == Init /\ [][Next]_vars

-----------------------------------------------------------------------------
(* What a comment of the provider says.                                    *)

\* The ports the document gives to an instance
PortsOf(i) ==
  UNION {statements[j].ports : j \in {k \in DOMAIN statements :
    /\ statements[k].type = "Template"
    /\ Instance(i, statements[k].name) \in {statements[m] : m \in DOMAIN statements}}}

\* "After "InstanceName." -> suggest that instance's template ports"
\* (extension.ts:240): something is offered for an instance with ports
PortsAfterDot ==
  checked = "program" /\ asked.kind = "dot" /\ PortsOf(asked.name) # {} => items # {}
=============================================================================
