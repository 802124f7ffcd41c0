--------------------------- MODULE EditorExtension --------------------------
(***************************************************************************)
(* The VS Code extension (vscode/src/extension.ts): the diagnostics of the *)
(* open PatchLang documents, recomputed when a document opens and 300 ms   *)
(* after its last edit.                                                    *)
(*                                                                         *)
(* A document is an object of the editor: opening a file again makes a new *)
(* one for the same uri, while a timer keeps the object it was made for.   *)
(* The diagnostics of a text are abstracted to the text itself: what       *)
(* matters is which text a list in the collection describes.               *)
(***************************************************************************)
EXTENDS Integers, FiniteSets

CONSTANTS
  Uris,       \* the files
  Texts,      \* what they may contain
  NoText,     \* no diagnostics, or a document that was never opened
  MaxOpens,   \* how often a file is opened (bound of the model)
  MaxEdits    \* number of edits (bound of the model)

ASSUME NoTextAssumption == NoText \notin Texts

ASSUME BoundsAssumption == MaxOpens \in Nat /\ MaxEdits \in Nat

VARIABLES
  phase,      \* "idle" until activate, "active", "inactive" after deactivate
  wasm,       \* wasmModule: "loaded" or not
  opens,      \* uri -> number of documents made for it so far
  open,       \* the uris with an open document, the last one made
  text,       \* document -> its text; a closed document keeps its last one
  edits,      \* number of edits so far; a timer is named by its edit
  timers,     \* the timers that have not fired: [id, doc]
  tracked,    \* debounceTimers: uri -> id of a timer, or 0
  shown,      \* diagnosticCollection: uri -> the text its list describes
  strayed     \* history: uris that were closed while their timer ran

vars == <<phase, wasm, opens, open, text, edits, timers, tracked, shown, strayed>>
docVars == <<opens, open, text>>

Docs == Uris \X (1 .. MaxOpens)
DocOf(u) == <<u, opens[u]>>
TextOf(u) == text[DocOf(u)]

Timer(id, doc) == [id |-> id, doc |-> doc]
TimersOf(u) == {t \in timers : t.doc[1] = u}

Init ==
  /\ phase = "idle"
  /\ wasm = "unloaded"
  /\ opens = [u \in Uris |-> 0]
  /\ open = {}
  /\ text = [d \in Docs |-> NoText]
  /\ edits = 0
  /\ timers = {}
  /\ tracked = [u \in Uris |-> 0]
  /\ shown = [u \in Uris |-> NoText]
  /\ strayed = {}

-----------------------------------------------------------------------------

\* Mutant: a list that is there is not replaced
ParsedOnce(u, t) ==
  IF wasm = "loaded" /\ shown[u] = NoText THEN [shown EXCEPT ![u] = t] ELSE shown

\* parseDiagnostics: nothing without the module; a check that throws leaves a
\* list too, so the list always describes the text of the document
Parsed(u, t) == IF wasm = "loaded" THEN [shown EXCEPT ![u] = t] ELSE shown

\* loadWasm: without the file the extension goes on and shows an error
LoadResults == {"loaded", "failed"}

\* activate: the module is loaded or not, then the open documents are parsed
Activate ==
  /\ phase = "idle"
  /\ open # {}
  /\ phase' = "active"
  /\ wasm' \in LoadResults
  /\ shown' = [u \in Uris |-> IF wasm' = "loaded" /\ u \in open THEN TextOf(u) ELSE shown[u]]
  /\ UNCHANGED <<docVars, edits, timers, tracked, strayed>>

OnDidOpen(u, t) ==
  /\ u \notin open
  /\ opens[u] < MaxOpens
  /\ opens' = [opens EXCEPT ![u] = @ + 1]
  /\ open' = open \cup {u}
  /\ text' = [text EXCEPT ![<<u, opens[u] + 1>>] = t]
  /\ shown' = IF phase = "active" THEN Parsed(u, t) ELSE shown
  /\ UNCHANGED <<phase, wasm, edits, timers, tracked, strayed>>

\* Mutant: the timer that is running is left to fire
NotCleared(u) == timers

\* debouncedParse clears the timer the map knows of
Debounced(u) == {t \in timers : t.id # tracked[u]}

\* An edit; before activation nobody listens
OnDidChange(u, t) ==
  /\ u \in open
  /\ t # TextOf(u)
  /\ edits < MaxEdits
  /\ edits' = edits + 1
  /\ text' = [text EXCEPT ![DocOf(u)] = t]
  /\ IF phase = "active"
     THEN /\ timers' = Debounced(u) \cup {Timer(edits + 1, DocOf(u))}
          /\ tracked' = [tracked EXCEPT ![u] = edits + 1]
     ELSE UNCHANGED <<timers, tracked>>
  /\ UNCHANGED <<phase, wasm, opens, open, shown, strayed>>

\* The timers have one delay, so they fire in the order they were set.  The
\* callback forgets the entry of the uri, whoever's it is, and parses the
\* document it was made for; after deactivate the collection is disposed
TimerFires(t) ==
  /\ t \in timers
  /\ \A s \in timers : t.id <= s.id
  /\ timers' = timers \ {t}
  /\ tracked' = [tracked EXCEPT ![t.doc[1]] = 0]
  /\ shown' = IF phase = "active" THEN Parsed(t.doc[1], text[t.doc]) ELSE shown
  /\ UNCHANGED <<phase, wasm, docVars, edits, strayed>>

\* Mutant: the list stays
KeptAfterClose(u) == shown

\* diagnosticCollection.delete
ClearedOnClose(u) == [shown EXCEPT ![u] = NoText]

\* The entry of the map is deleted, its timer is not cleared
OnDidClose(u) ==
  /\ u \in open
  /\ open' = open \ {u}
  /\ IF phase = "active"
     THEN /\ shown' = ClearedOnClose(u)
          /\ tracked' = [tracked EXCEPT ![u] = 0]
          /\ strayed' = IF TimersOf(u) # {} THEN strayed \cup {u} ELSE strayed
     ELSE UNCHANGED <<shown, tracked, strayed>>
  /\ UNCHANGED <<phase, wasm, opens, text, edits, timers>>

\* deactivate clears the timers the map knows of
ClearedTimers == {t \in timers : \A u \in Uris : tracked[u] # t.id}

Deactivate ==
  /\ phase = "active"
  /\ phase' = "inactive"
  /\ timers' = ClearedTimers
  /\ tracked' = [u \in Uris |-> 0]
  /\ shown' = [u \in Uris |-> NoText]
  /\ UNCHANGED <<wasm, docVars, edits, strayed>>

Next ==
  \/ Activate
  \/ \E u \in Uris, t \in Texts : OnDidOpen(u, t) \/ OnDidChange(u, t)
  \/ \E t \in timers : TimerFires(t)
  \/ \E u \in Uris : OnDidClose(u)
  \/ Deactivate

\* A timer that is not cleared fires
Spec == Init /\ [][Next]_vars /\ WF_vars(\E t \in timers : TimerFires(t))

-----------------------------------------------------------------------------
(* Properties.                                                             *)

TypeOK ==
  /\ phase \in {"idle", "active", "inactive"}
  /\ wasm \in {"unloaded", "loaded", "failed"}
  /\ opens \in [Uris -> 0 .. MaxOpens]
  /\ open \subseteq {u \in Uris : opens[u] > 0}
  /\ text \in [Docs -> Texts \cup {NoText}]
  /\ edits \in 0 .. MaxEdits
  /\ timers \subseteq [id : 1 .. edits, doc : Docs]
  /\ tracked \in [Uris -> 0 .. edits]
  /\ shown \in [Uris -> Texts \cup {NoText}]
  /\ strayed \subseteq Uris

\* A file that was never closed under a running timer has at most one timer,
\* the one debounceTimers holds, so the next edit and deactivate reach it;
\* the entry of such a file never names a timer that has fired
OneTimerPerFile ==
  \A u \in Uris \ strayed :
    /\ TimersOf(u) = {t \in timers : t.id = tracked[u]}
    /\ \A s, t \in TimersOf(u) : s = t
    /\ tracked[u] # 0 => TimersOf(u) # {}

\* When no timer of a file runs, what the editor shows describes the text it
\* holds now, and a closed file shows nothing.  A file closed under a running
\* timer is excepted: the timer parses the closed document
QuietIsCurrent ==
  phase = "active" /\ wasm = "loaded" =>
    \A u \in Uris \ strayed :
      TimersOf(u) = {} => shown[u] = (IF u \in open THEN TextOf(u) ELSE NoText)

\* "Clear diagnostics when document closes" (extension.ts:317)
ClosedIsClear == \A u \in Uris \ open : shown[u] = NoText

\* Whatever the order of opens, edits and timers, the editor comes to show
\* the text it holds
CatchesUp ==
  \A u \in Uris :
    <>[](phase = "active" /\ wasm = "loaded" /\ u \in open /\ u \notin strayed => shown[u] = TextOf(u))
=============================================================================
