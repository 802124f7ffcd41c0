------------------------- MODULE BuilderAnnotations -------------------------
(***************************************************************************)
(* The operations of PatchProgramBuilder on bridges, bridge groups, config *)
(* labels, signals, streams, flags and rings (builder/connections.rs,      *)
(* config.rs, signals.rs).  As in BuilderStructure, an action is the       *)
(* successful case of an operation.                                        *)
(***************************************************************************)
EXTENDS BuilderStructure

Edit(p) == program' = p /\ UNCHANGED <<library, counter, issued>>

-----------------------------------------------------------------------------
(* Bridges.  An end without an instance is not validated.  A bridge group  *)
(* is not validated at all.                                                *)

\* Mutant: the ends of a bridge are taken as they come
AnyEnd(e) == TRUE

Resolved(e) == e.inst = Unqualified \/ HasPort(e)

AddBridge(w, auto) ==
  /\ Resolved(w.src) /\ Resolved(w.tgt)
  /\ Edit([program EXCEPT !.bridges = @ \cup {[src |-> w.src, tgt |-> w.tgt, auto |-> auto]}])
  /\ UNCHANGED clock

\* index_elements_match finds no two [auto] indices equal
BridgesMatching(w) == {b \in program.bridges : b.src = w.src /\ b.tgt = w.tgt /\ ~ b.auto}

RemoveBridge(w) ==
  /\ BridgesMatching(w) # {}
  /\ Edit([program EXCEPT !.bridges = @ \ BridgesMatching(w)])
  /\ UNCHANGED clock

AddBridgeGroup(g) ==
  /\ Edit([program EXCEPT !.bridgeGroups = @ \cup {g}])
  /\ UNCHANGED clock

GroupsInto(e) == {g \in program.bridgeGroups : g.tgt = e}

RemoveBridgeGroup(e) ==
  /\ GroupsInto(e) # {}
  /\ Edit([program EXCEPT !.bridgeGroups = @ \ GroupsInto(e)])
  /\ UNCHANGED clock

-----------------------------------------------------------------------------
(* Config blocks.  A parsed program may hold several of one name; the      *)
(* operations look at the first.                                           *)

ConfigsNamed(i) == {c \in program.configs : c.name = i}
FirstConfig(i) == First(ConfigsNamed(i))

Relabelled(c, ls) ==
  [program EXCEPT !.configs = (@ \ {c}) \cup {[at |-> c.at, name |-> c.name, labels |-> ls]}]

\* The labels go into the first block; without one, the first label makes it
SetLabels(i, ls) ==
  /\ HasInstance(i)
  /\ \/ /\ ConfigsNamed(i) = {}
        /\ Room(1)
        /\ Edit([program EXCEPT !.configs = @ \cup {[at |-> clock, name |-> i, labels |-> ls]}])
        /\ clock' = clock + 1
     \/ /\ \E c \in FirstConfig(i) : Edit(Relabelled(c, c.labels \cup ls))
        /\ UNCHANGED clock

SetLabel(i, l) == SetLabels(i, {l})

\* Only a template declared in the program itself is consulted
SetRfLabels(i, channels) ==
  /\ channels # {}
  /\ HasInstance(i)
  /\ \E d \in First(LocalNamed(GetInstance(i).tmpl)) :
       d.decl.rf # NoPort /\ SetLabels(i, {d.decl.rf} \X channels)

\* A block that is left empty takes every block of that name with it
RemoveLabel(i, l) ==
  /\ \E c \in FirstConfig(i) :
       /\ l \in c.labels
       /\ \/ c.labels = {l} /\ Edit([program EXCEPT !.configs = @ \ ConfigsNamed(i)])
          \/ c.labels # {l} /\ Edit(Relabelled(c, c.labels \ {l}))
  /\ UNCHANGED clock

RemoveConfig(i) ==
  /\ ConfigsNamed(i) # {}
  /\ Edit([program EXCEPT !.configs = @ \ ConfigsNamed(i)])
  /\ UNCHANGED clock

-----------------------------------------------------------------------------
(* Signals, streams, flags and rings.  The instance a signal, a stream or  *)
(* a ring member names is not validated.                                   *)

AddSignal(s, origin) ==
  /\ \A x \in program.signals : x.name # s
  /\ Edit([program EXCEPT !.signals = @ \cup {[name |-> s, origin |-> origin]}])
  /\ UNCHANGED clock

RemoveSignal(s) ==
  /\ \E x \in program.signals : x.name = s
  /\ Edit([program EXCEPT !.signals = {x \in @ : x.name # s}])
  /\ UNCHANGED clock

AddStream(s, source) ==
  /\ \A x \in program.streams : x.name # s
  /\ Edit([program EXCEPT !.streams = @ \cup {[name |-> s, source |-> source]}])
  /\ UNCHANGED clock

RemoveStream(s) ==
  /\ \E x \in program.streams : x.name = s
  /\ Edit([program EXCEPT !.streams = {x \in @ : x.name # s}])
  /\ UNCHANGED clock

AddFlag(f) ==
  /\ f \notin program.flags
  /\ Edit([program EXCEPT !.flags = @ \cup {f}])
  /\ UNCHANGED clock

RemoveFlag(f) ==
  /\ f \in program.flags
  /\ Edit([program EXCEPT !.flags = @ \ {f}])
  /\ UNCHANGED clock

RingsNamed(r) == {x \in program.rings : x.name = r}

AddRing(r, members) ==
  /\ RingsNamed(r) = {}
  /\ Edit([program EXCEPT !.rings = @ \cup {[name |-> r, members |-> members]}])
  /\ UNCHANGED clock

RemoveRing(r) ==
  /\ RingsNamed(r) # {}
  /\ Edit([program EXCEPT !.rings = @ \ RingsNamed(r)])
  /\ UNCHANGED clock

ReplaceMembers(x, members) ==
  Edit([program EXCEPT !.rings = (@ \ {x}) \cup {[name |-> x.name, members |-> members]}])

AddRingMember(r, i) ==
  /\ \E x \in RingsNamed(r) : ReplaceMembers(x, x.members \cup {i})
  /\ UNCHANGED clock

RemoveRingMember(r, i) ==
  /\ \E x \in RingsNamed(r) : i \in x.members /\ ReplaceMembers(x, x.members \ {i})
  /\ UNCHANGED clock

-----------------------------------------------------------------------------

AnnotationsNext ==
  \/ \E w \in Links, a \in BOOLEAN : AddBridge(w, a)
  \/ \E w \in Links : RemoveBridge(w)
  \/ \E g \in Groups : AddBridgeGroup(g) \/ RemoveBridgeGroup(g.tgt)
  \/ \E i \in Inst, l \in Label : SetLabel(i, l) \/ RemoveLabel(i, l)
  \/ \E i \in Inst, ch \in SUBSET Channel : SetRfLabels(i, ch)
  \/ \E i \in Inst : RemoveConfig(i)
  \/ \E s \in Signal, o \in Inst \cup {NoRef} : AddSignal(s, o)
  \/ \E s \in Signal : RemoveSignal(s)
  \/ \E s \in Stream, o \in Inst \cup {NoRef} : AddStream(s, o)
  \/ \E s \in Stream : RemoveStream(s)
  \/ \E f \in Flag : AddFlag(f) \/ RemoveFlag(f)
  \/ \E r \in Ring, m \in SUBSET Inst : AddRing(r, m)
  \/ \E r \in Ring : RemoveRing(r)
  \/ \E r \in Ring, i \in Inst : AddRingMember(r, i) \/ RemoveRingMember(r, i)
=============================================================================
