----------------------- MODULE EditorExtensionProofs ------------------------
(***************************************************************************)
(* The extension keeps one timer per file and, between timers, shows the   *)
(* diagnostics of the text that is open: for every set of files and texts  *)
(* and any number of opens and edits.                                      *)
(***************************************************************************)
EXTENDS EditorExtension, TLAPS

\* A timer is known by its number
TimersApart == \A s, t \in timers : s.id = t.id => s = t

\* An entry of the map names a timer of its file that still runs
EntriesRun ==
  \A u \in Uris : tracked[u] # 0 => \E t \in timers : t.id = tracked[u] /\ t.doc[1] = u

\* A timer of a file that did not stray is the one the map holds, and it was
\* made for the document that is open
TimersKnown ==
  \A t \in timers :
    t.doc[1] \notin strayed =>
      /\ t.id = tracked[t.doc[1]]
      /\ t.doc[1] \in open
      /\ t.doc = DocOf(t.doc[1])

\* Before activation there is nothing to time or to show; after deactivate
\* only the timers run that were left behind before
IdleEmpty ==
  /\ phase = "idle" => timers = {} /\ \A u \in Uris : shown[u] = NoText
  /\ phase = "inactive" => \A t \in timers : t.doc[1] \in strayed

IInv ==
  /\ TypeOK
  /\ TimersApart
  /\ EntriesRun
  /\ TimersKnown
  /\ IdleEmpty
  /\ QuietIsCurrent

LEMMA InitIInv == Init => IInv
<1> SUFFICES ASSUME Init PROVE IInv
  OBVIOUS
<1> USE DEF Init
<1>1. TypeOK
  <2>1. 0 \in 0 .. MaxEdits /\ 0 \in 0 .. MaxOpens
    BY BoundsAssumption, SMT
  <2>2. wasm \in {"unloaded", "loaded", "failed"} /\ phase \in {"idle", "active", "inactive"}
    OBVIOUS
  <2> QED
    BY <2>1, <2>2, SMT DEF TypeOK
<1>2. TimersApart /\ EntriesRun /\ TimersKnown /\ IdleEmpty
  BY DEF TimersApart, EntriesRun, TimersKnown, IdleEmpty
<1>3. QuietIsCurrent
  BY DEF QuietIsCurrent
<1> QED
  BY <1>1, <1>2, <1>3 DEF IInv

LEMMA NextTypeOK == IInv /\ [Next]_vars => TypeOK'
<1> SUFFICES ASSUME IInv, [Next]_vars PROVE TypeOK'
  OBVIOUS
<1> USE BoundsAssumption DEF TypeOK, Docs
<1>0. TypeOK
  BY DEF IInv
<1>1. CASE Activate
  BY <1>0, <1>1, SMT DEF Activate, LoadResults, docVars, TextOf, DocOf
<1>2. ASSUME NEW u \in Uris, NEW t \in Texts, OnDidOpen(u, t) PROVE TypeOK'
  <2>1. opens' \in [Uris -> 0 .. MaxOpens] /\ open' \subseteq {v \in Uris : opens'[v] > 0}
    BY <1>0, <1>2, SMT DEF OnDidOpen
  <2>2. text' \in [Docs -> Texts \cup {NoText}] /\ shown' \in [Uris -> Texts \cup {NoText}]
    BY <1>0, <1>2, SMT DEF OnDidOpen, Parsed
  <2> QED
    BY <1>0, <1>2, <2>1, <2>2, SMT DEF OnDidOpen
<1>3. ASSUME NEW u \in Uris, NEW t \in Texts, OnDidChange(u, t) PROVE TypeOK'
  <2>1. DocOf(u) \in Docs
    BY <1>0, <1>3, SMT DEF OnDidChange, DocOf
  <2>2. edits' \in 0 .. MaxEdits /\ edits' = edits + 1
    BY <1>0, <1>3, SMT DEF OnDidChange
  <2>3. text' \in [Docs -> Texts \cup {NoText}]
    BY <1>0, <1>3, <2>1, SMT DEF OnDidChange
  <2>4. timers' \subseteq [id : 1 .. edits', doc : Docs]
    BY <1>0, <1>3, <2>1, <2>2, SMT DEF OnDidChange, Debounced, Timer
  <2>5. tracked' \in [Uris -> 0 .. edits']
    BY <1>0, <1>3, <2>2, SMT DEF OnDidChange
  <2> QED
    BY <1>0, <1>3, <2>2, <2>3, <2>4, <2>5, SMT DEF OnDidChange
<1>4. ASSUME NEW t \in timers, TimerFires(t) PROVE TypeOK'
  <2>1. t.doc \in Docs /\ t.doc[1] \in Uris
    BY <1>0, SMT
  <2> QED
    BY <1>0, <1>4, <2>1, SMT DEF TimerFires, docVars, Parsed
<1>5. ASSUME NEW u \in Uris, OnDidClose(u) PROVE TypeOK'
  BY <1>0, <1>5, SMT DEF OnDidClose, ClearedOnClose, TimersOf
<1>6. CASE Deactivate
  BY <1>0, <1>6, SMT DEF Deactivate, ClearedTimers, docVars
<1>7. CASE UNCHANGED vars
  BY <1>0, <1>7, SMT DEF vars
<1> QED
  BY <1>1, <1>2, <1>3, <1>4, <1>5, <1>6, <1>7 DEF Next

LEMMA NextTimers ==
  IInv /\ [Next]_vars => TimersApart' /\ EntriesRun'
<1> SUFFICES ASSUME IInv, [Next]_vars PROVE TimersApart' /\ EntriesRun'
  OBVIOUS
<1> USE DEF TimersApart, EntriesRun
<1>0. TypeOK /\ TimersApart /\ EntriesRun
  BY DEF IInv
<1>t. /\ \A t \in timers : t.id \in 1 .. edits /\ t.doc \in Docs /\ t.doc[1] \in Uris
      /\ tracked \in [Uris -> 0 .. edits]
      /\ edits \in Nat
  BY <1>0, BoundsAssumption, SMT DEF TypeOK, Docs
<1>1. CASE Activate
  BY <1>0, <1>1 DEF Activate
<1>2. ASSUME NEW u \in Uris, NEW t \in Texts, OnDidOpen(u, t) PROVE TimersApart' /\ EntriesRun'
  BY <1>0, <1>2 DEF OnDidOpen
<1>3. ASSUME NEW u \in Uris, NEW t \in Texts, OnDidChange(u, t) PROVE TimersApart' /\ EntriesRun'
  <2>1. CASE phase = "active"
    <3> DEFINE new == Timer(edits + 1, DocOf(u))
    <3>1. timers' = Debounced(u) \cup {new} /\ tracked' = [tracked EXCEPT ![u] = edits + 1]
      BY <1>3, <2>1 DEF OnDidChange
    <3>2. new.id = edits + 1 /\ new.doc[1] = u
      BY DEF Timer, DocOf
    <3>3. Debounced(u) \subseteq timers /\ \A s \in Debounced(u) : s.id # new.id
      BY <1>t, <3>2, SMT DEF Debounced
    <3>4. TimersApart'
      BY <1>0, <3>1, <3>3, SMT
    <3>5. ASSUME NEW v \in Uris, tracked'[v] # 0
          PROVE \E s \in timers' : s.id = tracked'[v] /\ s.doc[1] = v
      <4>1. CASE v = u
        BY <1>t, <3>1, <3>2, <4>1, SMT
      <4>2. CASE v # u
        <5>1. tracked'[v] = tracked[v]
          BY <1>t, <3>1, <4>2, SMT
        <5>2. PICK s \in timers : s.id = tracked[v] /\ s.doc[1] = v
          BY <1>0, <3>5, <5>1
        <5>3. s.id # tracked[u]
          <6>1. SUFFICES ASSUME s.id = tracked[u] PROVE FALSE
            OBVIOUS
          <6>2. tracked[u] # 0
            BY <1>t, <6>1, SMT
          <6>3. PICK r \in timers : r.id = tracked[u] /\ r.doc[1] = u
            BY <1>0, <6>2
          <6> QED
            BY <1>0, <4>2, <5>2, <6>1, <6>3
        <5> QED
          BY <3>1, <5>1, <5>2, <5>3 DEF Debounced
      <4> QED
        BY <4>1, <4>2
    <3> QED
      BY <3>4, <3>5
  <2>2. CASE phase # "active"
    BY <1>0, <1>3, <2>2 DEF OnDidChange
  <2> QED
    BY <2>1, <2>2
<1>4. ASSUME NEW t \in timers, TimerFires(t) PROVE TimersApart' /\ EntriesRun'
  <2>1. timers' = timers \ {t} /\ tracked' = [tracked EXCEPT ![t.doc[1]] = 0]
    BY <1>4 DEF TimerFires
  <2>2. ASSUME NEW v \in Uris, tracked'[v] # 0
        PROVE \E s \in timers' : s.id = tracked'[v] /\ s.doc[1] = v
    <3>1. v # t.doc[1] /\ tracked'[v] = tracked[v]
      BY <1>t, <2>1, <2>2, SMT
    <3>2. PICK s \in timers : s.id = tracked[v] /\ s.doc[1] = v
      BY <1>0, <2>2, <3>1
    <3> QED
      BY <2>1, <3>1, <3>2
  <2> QED
    BY <1>0, <2>1, <2>2
<1>5. ASSUME NEW u \in Uris, OnDidClose(u) PROVE TimersApart' /\ EntriesRun'
  <2>1. timers' = timers /\ \A v \in Uris : tracked'[v] # 0 => tracked'[v] = tracked[v]
    BY <1>t, <1>5, SMT DEF OnDidClose
  <2> QED
    BY <1>0, <2>1
<1>6. CASE Deactivate
  BY <1>0, <1>6, SMT DEF Deactivate, ClearedTimers
<1>7. CASE UNCHANGED vars
  BY <1>0, <1>7 DEF vars
<1> QED
  BY <1>1, <1>2, <1>3, <1>4, <1>5, <1>6, <1>7 DEF Next

LEMMA NextKnown == IInv /\ [Next]_vars => TimersKnown' /\ IdleEmpty'
<1> SUFFICES ASSUME IInv, [Next]_vars PROVE TimersKnown' /\ IdleEmpty'
  OBVIOUS
<1> USE DEF TimersKnown, IdleEmpty
<1>0. TypeOK /\ TimersApart /\ EntriesRun /\ TimersKnown /\ IdleEmpty
  BY DEF IInv
<1>t. /\ \A t \in timers : t.id \in 1 .. edits /\ t.doc \in Docs /\ t.doc[1] \in Uris
      /\ tracked \in [Uris -> 0 .. edits]
      /\ opens \in [Uris -> 0 .. MaxOpens]
      /\ edits \in Nat
      /\ shown \in [Uris -> Texts \cup {NoText}]
  BY <1>0, BoundsAssumption, SMT DEF TypeOK, Docs
<1>1. CASE Activate
  BY <1>0, <1>1 DEF Activate, docVars, DocOf
<1>2. ASSUME NEW u \in Uris, NEW t \in Texts, OnDidOpen(u, t) PROVE TimersKnown' /\ IdleEmpty'
  <2>1. /\ timers' = timers /\ tracked' = tracked /\ strayed' = strayed
        /\ open' = open \cup {u} /\ u \notin open
        /\ opens' = [opens EXCEPT ![u] = @ + 1]
        /\ phase' = phase
        /\ phase = "idle" => shown' = shown
    BY <1>2 DEF OnDidOpen
  <2>2. ASSUME NEW s \in timers, s.doc[1] \notin strayed
        PROVE s.id = tracked[s.doc[1]] /\ s.doc[1] \in open' /\ s.doc = DocOf(s.doc[1])'
    <3>1. s.id = tracked[s.doc[1]] /\ s.doc[1] \in open /\ s.doc = DocOf(s.doc[1])
      BY <1>0, <2>2
    <3>2. opens'[s.doc[1]] = opens[s.doc[1]]
      BY <1>t, <2>1, <3>1, SMT
    <3> QED
      BY <2>1, <3>1, <3>2 DEF DocOf
  <2> QED
    BY <1>0, <2>1, <2>2
<1>3. ASSUME NEW u \in Uris, NEW t \in Texts, OnDidChange(u, t) PROVE TimersKnown' /\ IdleEmpty'
  <2>0. u \in open /\ open' = open /\ opens' = opens /\ strayed' = strayed /\ phase' = phase /\ shown' = shown
    BY <1>3 DEF OnDidChange
  <2>1. CASE phase = "active"
    <3> DEFINE new == Timer(edits + 1, DocOf(u))
    <3>1. timers' = Debounced(u) \cup {new} /\ tracked' = [tracked EXCEPT ![u] = edits + 1]
      BY <1>3, <2>1 DEF OnDidChange
    <3>2. new.id = edits + 1 /\ new.doc = DocOf(u) /\ new.doc[1] = u
      BY DEF Timer, DocOf
    <3>3. tracked'[u] = edits + 1 /\ \A v \in Uris : v # u => tracked'[v] = tracked[v]
      BY <1>t, <3>1, SMT
    <3>4. ASSUME NEW s \in Debounced(u), s.doc[1] \notin strayed
          PROVE s.id = tracked'[s.doc[1]] /\ s.doc[1] \in open /\ s.doc = DocOf(s.doc[1])
      <4>1. s \in timers /\ s.id # tracked[u]
        BY DEF Debounced
      <4>2. s.id = tracked[s.doc[1]] /\ s.doc[1] \in open /\ s.doc = DocOf(s.doc[1])
        BY <1>0, <3>4, <4>1
      <4>3. s.doc[1] # u /\ s.doc[1] \in Uris
        BY <1>t, <4>1, <4>2
      <4> QED
        BY <3>3, <4>2, <4>3
    <3> QED
      BY <2>0, <2>1, <3>1, <3>2, <3>3, <3>4 DEF DocOf
  <2>2. CASE phase # "active"
    BY <1>0, <1>3, <2>0, <2>2 DEF OnDidChange, DocOf
  <2> QED
    BY <2>1, <2>2
<1>4. ASSUME NEW t \in timers, TimerFires(t) PROVE TimersKnown' /\ IdleEmpty'
  <2>1. /\ timers' = timers \ {t} /\ tracked' = [tracked EXCEPT ![t.doc[1]] = 0]
        /\ open' = open /\ opens' = opens /\ strayed' = strayed /\ phase' = phase
    BY <1>4 DEF TimerFires, docVars
  <2>2. phase # "idle"
    BY <1>0
  <2>3. ASSUME NEW s \in timers', s.doc[1] \notin strayed PROVE s.id = tracked'[s.doc[1]]
    <3>1. s \in timers /\ s # t /\ s.id = tracked[s.doc[1]]
      BY <1>0, <2>1, <2>3
    <3>2. s.doc[1] # t.doc[1]
      <4>1. SUFFICES ASSUME s.doc[1] = t.doc[1] PROVE FALSE
        OBVIOUS
      <4>2. t.id = tracked[t.doc[1]]
        BY <1>0, <2>3, <4>1
      <4> QED
        BY <1>0, <3>1, <4>1, <4>2 DEF TimersApart
    <3> QED
      BY <1>t, <2>1, <3>1, <3>2, SMT
  <2> QED
    BY <1>0, <2>1, <2>2, <2>3 DEF DocOf
<1>5. ASSUME NEW u \in Uris, OnDidClose(u) PROVE TimersKnown' /\ IdleEmpty'
  <2>1. timers' = timers /\ open' = open \ {u} /\ opens' = opens /\ phase' = phase
    BY <1>5 DEF OnDidClose
  <2>2. CASE phase = "active"
    <3>1. /\ tracked' = [tracked EXCEPT ![u] = 0]
          /\ strayed' = IF TimersOf(u) # {} THEN strayed \cup {u} ELSE strayed
      BY <1>5, <2>2 DEF OnDidClose
    <3>2. ASSUME NEW s \in timers, s.doc[1] \notin strayed'
          PROVE s.id = tracked'[s.doc[1]] /\ s.doc[1] \in open' /\ s.doc = DocOf(s.doc[1])
      <4>1. s.doc[1] \notin strayed
        BY <3>1, <3>2
      <4>2. s.doc[1] # u
        BY <3>1, <3>2 DEF TimersOf
      <4>3. tracked'[s.doc[1]] = tracked[s.doc[1]]
        BY <1>t, <3>1, <4>2, SMT
      <4> QED
        BY <1>0, <2>1, <4>1, <4>2, <4>3
    <3> QED
      BY <2>1, <2>2, <3>2 DEF DocOf
  <2>3. CASE phase = "idle"
    BY <1>0, <1>5, <2>1, <2>3 DEF OnDidClose
  <2>4. CASE phase = "inactive"
    <3>1. strayed' = strayed /\ tracked' = tracked
      BY <1>5, <2>4 DEF OnDidClose
    <3>2. \A s \in timers : s.doc[1] \in strayed
      BY <1>0, <2>4
    <3> QED
      BY <2>1, <2>4, <3>1, <3>2
  <2> QED
    BY <1>0, <2>2, <2>3, <2>4 DEF TypeOK
<1>6. CASE Deactivate
  <2>1. \A s \in timers' : s.doc[1] \in strayed
    BY <1>0, <1>t, <1>6 DEF Deactivate, ClearedTimers
  <2> QED
    BY <1>6, <2>1 DEF Deactivate
<1>7. CASE UNCHANGED vars
  BY <1>0, <1>7 DEF vars, DocOf
<1> QED
  BY <1>1, <1>2, <1>3, <1>4, <1>5, <1>6, <1>7 DEF Next
LEMMA NextQuiet == IInv /\ [Next]_vars => QuietIsCurrent'
<1> SUFFICES ASSUME IInv, [Next]_vars,
                    phase' = "active", wasm' = "loaded",
                    NEW u \in Uris \ strayed', TimersOf(u)' = {}
             PROVE shown'[u] = (IF u \in open' THEN TextOf(u)' ELSE NoText)
  BY DEF QuietIsCurrent
<1>0. TypeOK /\ TimersKnown /\ IdleEmpty /\ QuietIsCurrent
  BY DEF IInv
<1>t. /\ \A t \in timers : t.doc \in Docs /\ t.doc[1] \in Uris
      /\ opens \in [Uris -> 0 .. MaxOpens]
      /\ text \in [Docs -> Texts \cup {NoText}]
      /\ shown \in [Uris -> Texts \cup {NoText}]
  BY <1>0, SMT DEF TypeOK, Docs
<1>q. phase = "active" /\ wasm = "loaded" /\ u \notin strayed /\ TimersOf(u) = {}
        => shown[u] = (IF u \in open THEN TextOf(u) ELSE NoText)
  BY <1>0 DEF QuietIsCurrent
<1>1. CASE Activate
  <2>1. /\ wasm' = "loaded" => shown' = [v \in Uris |-> IF v \in open THEN TextOf(v) ELSE shown[v]]
        /\ open' = open /\ TextOf(u)' = TextOf(u)
    BY <1>1, Zenon DEF Activate, docVars, TextOf, DocOf
  <2>2. shown[u] = NoText
    BY <1>0, <1>1 DEF Activate, IdleEmpty
  <2> QED
    BY <2>1, <2>2
<1>2. ASSUME NEW v \in Uris, NEW t \in Texts, OnDidOpen(v, t)
      PROVE shown'[u] = (IF u \in open' THEN TextOf(u)' ELSE NoText)
  <2>1. /\ phase' = phase /\ wasm' = wasm /\ timers' = timers /\ strayed' = strayed
        /\ open' = open \cup {v} /\ v \notin open /\ opens[v] < MaxOpens
        /\ opens' = [opens EXCEPT ![v] = @ + 1]
        /\ text' = [text EXCEPT ![<<v, opens[v] + 1>>] = t]
    BY <1>2 DEF OnDidOpen
  <2>2. shown' = [shown EXCEPT ![v] = t]
    BY <1>2, <2>1 DEF OnDidOpen, Parsed
  <2>3. CASE u = v
    <3>1. opens'[v] = opens[v] + 1 /\ <<v, opens[v] + 1>> \in Docs
      BY <1>t, <2>1, BoundsAssumption, SMT DEF Docs
    <3>2. TextOf(u)' = t /\ shown'[u] = t
      BY <1>t, <2>1, <2>2, <2>3, <3>1 DEF TextOf, DocOf
    <3> QED
      BY <2>1, <2>3, <3>2
  <2>4. CASE u # v
    <3>1. TextOf(u)' = TextOf(u)
      <4>1. opens'[u] = opens[u] /\ <<u, opens[u]>> # <<v, opens[v] + 1>>
        BY <1>t, <2>1, <2>4
      <4> QED
        BY <1>t, <2>1, <4>1, SMT DEF TextOf, DocOf
    <3>2. shown'[u] = shown[u]
      BY <1>t, <2>2, <2>4
    <3> QED
      BY <1>q, <2>1, <2>4, <3>1, <3>2 DEF TimersOf
  <2> QED
    BY <2>3, <2>4
<1>3. ASSUME NEW v \in Uris, NEW t \in Texts, OnDidChange(v, t)
      PROVE shown'[u] = (IF u \in open' THEN TextOf(u)' ELSE NoText)
  <2>1. /\ phase' = phase /\ wasm' = wasm /\ strayed' = strayed /\ shown' = shown
        /\ open' = open /\ opens' = opens
        /\ text' = [text EXCEPT ![DocOf(v)] = t]
        /\ timers' = Debounced(v) \cup {Timer(edits + 1, DocOf(v))}
    BY <1>3 DEF OnDidChange
  <2>2. u # v
    <3>1. Timer(edits + 1, DocOf(v)) \in timers' /\ Timer(edits + 1, DocOf(v)).doc[1] = v
      BY <2>1 DEF Timer, DocOf
    <3> QED
      BY <3>1 DEF TimersOf
  <2>3. TextOf(u)' = TextOf(u)
    BY <1>t, <2>1, <2>2 DEF TextOf, DocOf
  <2>4. TimersOf(u) = {}
    <3>1. SUFFICES ASSUME NEW s \in timers, s.doc[1] = u PROVE FALSE
      BY DEF TimersOf
    <3>2. s \notin Debounced(v)
      BY <2>1, <3>1 DEF TimersOf
    <3>3. s.id = tracked[v] /\ tracked[v] # 0
      BY <1>0, <3>2, BoundsAssumption, SMT DEF Debounced, TypeOK
    <3>4. PICK r \in timers : r.id = tracked[v] /\ r.doc[1] = v
      BY <3>3 DEF IInv, EntriesRun
    <3> QED
      BY <2>2, <3>1, <3>3, <3>4 DEF IInv, TimersApart
  <2> QED
    BY <1>q, <2>1, <2>3, <2>4
<1>4. ASSUME NEW t \in timers, TimerFires(t)
      PROVE shown'[u] = (IF u \in open' THEN TextOf(u)' ELSE NoText)
  <2>1. /\ phase' = phase /\ wasm' = wasm /\ strayed' = strayed
        /\ open' = open /\ opens' = opens /\ text' = text
        /\ timers' = timers \ {t}
    BY <1>4 DEF TimerFires, docVars
  <2>2. shown' = [shown EXCEPT ![t.doc[1]] = text[t.doc]]
    BY <1>4, <2>1 DEF TimerFires, Parsed
  <2>3. CASE t.doc[1] = u
    BY <1>0, <1>t, <2>1, <2>2, <2>3 DEF TimersKnown, TextOf, DocOf
  <2>4. CASE t.doc[1] # u
    BY <1>q, <1>t, <2>1, <2>2, <2>4 DEF TimersOf, TextOf, DocOf
  <2> QED
    BY <2>3, <2>4
<1>5. ASSUME NEW v \in Uris, OnDidClose(v)
      PROVE shown'[u] = (IF u \in open' THEN TextOf(u)' ELSE NoText)
  <2>1. /\ phase' = phase /\ wasm' = wasm /\ timers' = timers
        /\ open' = open \ {v} /\ opens' = opens /\ text' = text
    BY <1>5 DEF OnDidClose
  <2>3. strayed \subseteq strayed'
    BY <1>5 DEF OnDidClose
  <2>2. shown' = [shown EXCEPT ![v] = NoText]
    BY <1>5, <2>1 DEF OnDidClose, ClearedOnClose
  <2> QED
    BY <1>q, <1>t, <2>1, <2>2, <2>3 DEF TimersOf, TextOf, DocOf
<1>6. CASE Deactivate
  BY <1>6 DEF Deactivate
<1>7. CASE UNCHANGED vars
  BY <1>q, <1>7 DEF vars, TimersOf, TextOf, DocOf
<1> QED
  BY <1>1, <1>2, <1>3, <1>4, <1>5, <1>6, <1>7 DEF Next

THEOREM Invariance == Spec => []IInv
<1>1. IInv /\ [Next]_vars => IInv'
  BY NextTypeOK, NextTimers, NextKnown, NextQuiet DEF IInv
<1> QED
  BY InitIInv, <1>1, PTL DEF Spec

\* The state of the extension stays in its types: no timer or entry has a
\* number no edit has, and the shown texts are texts
THEOREM TypeCorrect == Spec => []TypeOK
<1>1. IInv => TypeOK
  BY DEF IInv
<1> QED
  BY Invariance, <1>1, PTL

\* debouncedParse, the callback and the close handler keep at most one timer
\* for a file that was not closed under one, and the map holds it
THEOREM TimerTracked == Spec => []OneTimerPerFile
<1>1. IInv => OneTimerPerFile
  <2> SUFFICES ASSUME IInv, NEW u \in Uris \ strayed
               PROVE /\ TimersOf(u) = {t \in timers : t.id = tracked[u]}
                     /\ \A s, t \in TimersOf(u) : s = t
                     /\ tracked[u] # 0 => TimersOf(u) # {}
    BY DEF OneTimerPerFile
  <2>0. TypeOK /\ TimersApart /\ EntriesRun /\ TimersKnown
    BY DEF IInv
  <2>1. \A t \in TimersOf(u) : t \in timers /\ t.id = tracked[u]
    BY <2>0 DEF TimersOf, TimersKnown
  <2>2. tracked[u] # 0 => \E t \in timers : t.id = tracked[u] /\ t.doc[1] = u
    BY <2>0 DEF EntriesRun
  <2>3. ASSUME NEW t \in timers, t.id = tracked[u] PROVE t \in TimersOf(u)
    <3>1. tracked[u] # 0
      BY <2>0, <2>3, BoundsAssumption, SMT DEF TypeOK
    <3> QED
      BY <2>0, <2>2, <2>3, <3>1 DEF TimersApart, TimersOf
  <2> QED
    BY <2>0, <2>1, <2>2, <2>3 DEF TimersApart, TimersOf
<1> QED
  BY Invariance, <1>1, PTL

\* Between timers the editor shows the diagnostics of the text it holds
THEOREM ShownIsCurrent == Spec => []QuietIsCurrent
<1>1. IInv => QuietIsCurrent
  BY DEF IInv
<1> QED
  BY Invariance, <1>1, PTL
=============================================================================
