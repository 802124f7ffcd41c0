------------------------ MODULE PatchBuilderProofs ------------------------
(***************************************************************************)
(* Type correctness, referential integrity, name uniqueness and connect    *)
(* IDs of the builder, for every choice of names, declarations, wires and  *)
(* programs.                                                               *)
(***************************************************************************)
EXTENDS PatchBuilder, TLAPS, FiniteSetTheorems

-----------------------------------------------------------------------------
(* Type correctness.                                                       *)

LEMMA SeededType == ASSUME NEW p, IsFiniteSet(p.connects) PROVE Seeded(p) \in [Bases -> Nat]
<1>1. ASSUME NEW b \in Bases PROVE Cardinality(WithBase(p, b)) \in Nat
  <2>1. WithBase(p, b) \in SUBSET p.connects
    BY DEF WithBase
  <2> QED BY <2>1, FS_Subset, FS_CardinalityType
<1> QED BY <1>1 DEF Seeded

\* The set of connects stays finite
FiniteConnects == IsFiniteSet(program.connects)

LEMMA WiresTyped == ASSUME NEW w \in Wires
                    PROVE w.src \in Endpoint /\ w.tgt \in Endpoint /\ Base(w.src, w.tgt) \in Bases
BY Inputs DEF Wire, Bases

LEMMA StructureType == TypeOK /\ FiniteConnects /\ StructureNext => TypeOK' /\ FiniteConnects'
<1> SUFFICES ASSUME TypeOK, FiniteConnects, StructureNext PROVE TypeOK' /\ FiniteConnects'
  OBVIOUS
<1> USE DEF TypeOK, FiniteConnects
<1>1. ASSUME NEW d \in Decl, AddTemplate(d) PROVE TypeOK' /\ FiniteConnects'
  BY <1>1 DEF AddTemplate, Program
<1>2. ASSUME NEW t \in Tmpl, RemoveTemplate(t) PROVE TypeOK' /\ FiniteConnects'
  BY <1>2 DEF RemoveTemplate, Program, LocalNamed
<1>3. ASSUME NEW t \in Tmpl, NEW d \in Decl, UpdateTemplate(t, d) PROVE TypeOK' /\ FiniteConnects'
  BY <1>3 DEF UpdateTemplate, Program, LocalNamed, First
<1>4. ASSUME NEW l \in Libraries, SetLibrary(l) PROVE TypeOK' /\ FiniteConnects'
  BY <1>4, Inputs DEF SetLibrary, Program
<1>5. ASSUME NEW d \in InstDecl, AddInstance(d) PROVE TypeOK' /\ FiniteConnects'
  BY <1>5, Inputs DEF AddInstance, Program
<1>6. ASSUME NEW i \in Inst, RemoveInstance(i) PROVE TypeOK' /\ FiniteConnects'
  <2>1. program' \in Program
    <3> DEFINE sigs == {[s EXCEPT !.origin = IF @ = i THEN NoRef ELSE @] : s \in program.signals}
               strs == {[s EXCEPT !.source = IF @ = i THEN NoRef ELSE @] : s \in program.streams}
               rngs == {[r EXCEPT !.members = @ \ {i}] : r \in program.rings}
    <3>1. sigs \in SUBSET [name : Signal, origin : Inst \cup {NoRef}]
      BY DEF Program
    <3>2. strs \in SUBSET [name : Stream, source : Inst \cup {NoRef}]
      BY DEF Program
    <3>3. rngs \in SUBSET [name : Ring, members : SUBSET Inst]
      BY DEF Program
    <3>4. program' = WithoutInstance(program, i)
      BY <1>6 DEF RemoveInstance
    <3> QED BY <3>1, <3>2, <3>3, <3>4 DEF WithoutInstance, Program
  <2>2. FiniteConnects'
    BY <1>6, FS_Subset DEF RemoveInstance, WithoutInstance, Program
  <2> QED BY <1>6, <2>1, <2>2 DEF RemoveInstance, IssuedFor
<1>7. ASSUME NEW i \in Inst, NEW s \in Slot, NEW k \in SlotIndex, NEW t \in Tmpl, SetSlot(i, s, k, t)
      PROVE TypeOK' /\ FiniteConnects'
  <2>1. GetInstance(i) \in program.instances
    BY <1>7 DEF SetSlot, GetInstance, HasInstance, InstancesNamed
  <2>2. OtherPositions(i, s, k) \cup {[slot |-> s, index |-> k, card |-> t]} \in SUBSET SlotAssignment
    BY <2>1 DEF OtherPositions, Program, InstanceDecl, SlotAssignment
  <2> QED BY <1>7, <2>1, <2>2 DEF SetSlot, ReplaceCards, Program, InstanceDecl
<1>8. ASSUME NEW i \in Inst, NEW s \in Slot, NEW k \in SlotIndex, RemoveSlot(i, s, k)
      PROVE TypeOK' /\ FiniteConnects'
  <2>1. GetInstance(i) \in program.instances
    BY <1>8 DEF RemoveSlot, GetInstance, HasInstance, InstancesNamed
  <2>2. OtherPositions(i, s, k) \in SUBSET SlotAssignment
    BY <2>1 DEF OtherPositions, Program, InstanceDecl
  <2> QED BY <1>8, <2>1, <2>2 DEF RemoveSlot, ReplaceCards, Program, InstanceDecl
<1>9. ASSUME NEW w \in Wires, NEW p \in Props, NEW n \in Nat, NEW r, PushConnects(w, p, n, r)
      PROVE TypeOK' /\ FiniteConnects'
  <2> DEFINE new == {ConnectAt(w, p, clock + k - 1) : k \in 1..n}
             ids == {[base |-> Base(w.src, w.tgt), n |-> counter[Base(w.src, w.tgt)] + k,
                      at |-> clock + k - 1] : k \in 1..n}
             f == [k \in 1..n |-> ConnectAt(w, p, clock + k - 1)]
  <2>1. new \in SUBSET [at : Int, src : Endpoint, tgt : Endpoint, props : Props]
    BY WiresTyped DEF ConnectAt
  <2>2. ids \in SUBSET [base : Bases, n : Nat, at : Nat]
    BY WiresTyped
  <2>3. IsFiniteSet(new)
    <3>1. f \in Surjection(1..n, new)
      BY DEF Surjection
    <3> QED BY <3>1, FS_Surjection, FS_Interval
  <2>4. program' = [program EXCEPT !.connects = @ \cup new]
    BY <1>9 DEF PushConnects
  <2>5. issued' = issued \cup ids \/ issued' = issued
    BY <1>9 DEF PushConnects
  <2>6. FiniteConnects'
    BY <2>3, <2>4, FS_Union DEF Program
  <2>7. program' \in Program
    BY <2>1, <2>4 DEF Program
  <2>8. counter' \in [Bases -> Nat] /\ clock' \in Nat /\ library' \in SUBSET Decl
    BY <1>9, WiresTyped DEF PushConnects
  <2> QED BY <2>2, <2>5, <2>6, <2>7, <2>8
<1>10. ASSUME NEW w \in Wires, NEW p \in Props, AddConnect(w, p) PROVE TypeOK' /\ FiniteConnects'
  BY <1>9, <1>10 DEF AddConnect
<1>11. ASSUME NEW w \in Wires, NEW p \in Props, NEW n \in 2..MaxRun, AddConnectMapped(w, p, n)
       PROVE TypeOK' /\ FiniteConnects'
  <2>1. PICK m \in 1..n, r \in BOOLEAN : PushConnects(w, p, m, r)
    <3> HIDE DEF TypeOK, FiniteConnects
    <3>1. n \in Nat /\ n \in 1..n /\ 1 .. n - 1 \subseteq 1..n
      BY Inputs
    <3> QED BY <3>1, <1>11 DEF AddConnectMapped
  <2>2. m \in Nat
    BY Inputs
  <2> QED BY <1>9, <2>1, <2>2
<1>12. ASSUME NEW id, RemoveConnect(id) PROVE TypeOK' /\ FiniteConnects'
  <2>1. PICK c : program' = [program EXCEPT !.connects = @ \ {c}]
    BY <1>12 DEF RemoveConnect
  <2>2. program'.connects = program.connects \ {c} /\ program' \in Program
    BY <2>1 DEF Program
  <2>3. FiniteConnects'
    <3>1. IsFiniteSet(program.connects \ {c})
      BY FS_RemoveElement
    <3> QED BY <2>2, <3>1
  <2> QED BY <1>12, <2>2, <2>3 DEF RemoveConnect, IssuedFor
<1>13. ASSUME NEW id, NEW p \in Props, UpdateConnectProperties(id, p) PROVE TypeOK' /\ FiniteConnects'
  <2>1. PICK c \in program.connects :
           program' = [program EXCEPT !.connects = (@ \ {c}) \cup {ConnectAt(c, p, c.at)}]
    BY <1>13 DEF UpdateConnectProperties, First, Addressed
  <2>2. /\ program'.connects = (program.connects \ {c}) \cup {ConnectAt(c, p, c.at)}
        /\ program' \in Program
    BY <2>1 DEF Program, ConnectAt
  <2>3. IsFiniteSet(program.connects \ {c})
    BY FS_RemoveElement
  <2>4. FiniteConnects'
    BY <2>2, <2>3, FS_AddElement
  <2> QED BY <1>13, <2>2, <2>4 DEF UpdateConnectProperties
<1> QED BY <1>1, <1>2, <1>3, <1>4, <1>5, <1>6, <1>7, <1>8, <1>10, <1>11, <1>12, <1>13 DEF StructureNext


LEMMA AnnotationsType ==
  TypeOK /\ FiniteConnects /\ AnnotationsNext => TypeOK' /\ FiniteConnects'
<1> SUFFICES ASSUME TypeOK, FiniteConnects, AnnotationsNext PROVE TypeOK' /\ FiniteConnects'
  OBVIOUS
<1> USE DEF TypeOK, FiniteConnects, Edit
<1>1. ASSUME NEW w \in Links, NEW a \in BOOLEAN, AddBridge(w, a) PROVE TypeOK' /\ FiniteConnects'
  BY <1>1, Inputs DEF AddBridge, Program, Wire
<1>2. ASSUME NEW w \in Links, RemoveBridge(w) PROVE TypeOK' /\ FiniteConnects'
  BY <1>2 DEF RemoveBridge, Program
<1>3. ASSUME NEW g \in Groups, AddBridgeGroup(g) PROVE TypeOK' /\ FiniteConnects'
  BY <1>3, Inputs DEF AddBridgeGroup, Program
<1>4. ASSUME NEW e, RemoveBridgeGroup(e) PROVE TypeOK' /\ FiniteConnects'
  BY <1>4 DEF RemoveBridgeGroup, Program
<1>5. ASSUME NEW i \in Inst, NEW ls \in SUBSET Label, SetLabels(i, ls) PROVE TypeOK' /\ FiniteConnects'
  <2>1. CASE Edit([program EXCEPT !.configs = @ \cup {[at |-> clock, name |-> i, labels |-> ls]}])
             /\ clock' = clock + 1
    BY <2>1 DEF Program
  <2>2. CASE /\ \E c \in FirstConfig(i) : Edit(Relabelled(c, c.labels \cup ls))
             /\ UNCHANGED clock
    BY <2>2 DEF Program, FirstConfig, First, ConfigsNamed, Relabelled
  <2> QED BY <1>5, <2>1, <2>2 DEF SetLabels
<1>6. ASSUME NEW i \in Inst, NEW l \in Label, SetLabel(i, l) PROVE TypeOK' /\ FiniteConnects'
  BY <1>5, <1>6 DEF SetLabel
<1>7. ASSUME NEW i \in Inst, NEW ch \in SUBSET Channel, SetRfLabels(i, ch)
      PROVE TypeOK' /\ FiniteConnects'
  <2>1. PICK d \in program.templates : d.decl.rf # NoPort /\ SetLabels(i, {d.decl.rf} \X ch)
    BY <1>7 DEF SetRfLabels, First, LocalNamed
  <2>2. {d.decl.rf} \X ch \in SUBSET Label
    BY <2>1, Inputs DEF Program, TemplateDecl, Label
  <2> QED BY <1>5, <2>1, <2>2
<1>8. ASSUME NEW i \in Inst, NEW l \in Label, RemoveLabel(i, l) PROVE TypeOK' /\ FiniteConnects'
  BY <1>8 DEF RemoveLabel, Program, FirstConfig, First, ConfigsNamed, Relabelled
<1>9. ASSUME NEW i \in Inst, RemoveConfig(i) PROVE TypeOK' /\ FiniteConnects'
  BY <1>9 DEF RemoveConfig, Program
<1>10. ASSUME NEW s \in Signal, NEW o \in Inst \cup {NoRef}, AddSignal(s, o) PROVE TypeOK' /\ FiniteConnects'
  BY <1>10 DEF AddSignal, Program
<1>11. ASSUME NEW s \in Signal, RemoveSignal(s) PROVE TypeOK' /\ FiniteConnects'
  BY <1>11 DEF RemoveSignal, Program
<1>12. ASSUME NEW s \in Stream, NEW o \in Inst \cup {NoRef}, AddStream(s, o) PROVE TypeOK' /\ FiniteConnects'
  BY <1>12 DEF AddStream, Program
<1>13. ASSUME NEW s \in Stream, RemoveStream(s) PROVE TypeOK' /\ FiniteConnects'
  BY <1>13 DEF RemoveStream, Program
<1>14. ASSUME NEW f \in Flag, AddFlag(f) \/ RemoveFlag(f) PROVE TypeOK' /\ FiniteConnects'
  BY <1>14 DEF AddFlag, RemoveFlag, Program
<1>15. ASSUME NEW r \in Ring, NEW m \in SUBSET Inst, AddRing(r, m) PROVE TypeOK' /\ FiniteConnects'
  BY <1>15 DEF AddRing, Program
<1>16. ASSUME NEW r \in Ring, RemoveRing(r) PROVE TypeOK' /\ FiniteConnects'
  BY <1>16 DEF RemoveRing, Program
<1>17. ASSUME NEW r \in Ring, NEW i \in Inst, AddRingMember(r, i) \/ RemoveRingMember(r, i)
       PROVE TypeOK' /\ FiniteConnects'
  BY <1>17 DEF AddRingMember, RemoveRingMember, ReplaceMembers, RingsNamed, Program
<1> QED BY <1>1, <1>2, <1>3, <1>4, <1>6, <1>7, <1>8, <1>9, <1>10, <1>11, <1>12, <1>13, <1>14, <1>15,
           <1>16, <1>17 DEF AnnotationsNext

\* Every field of the builder keeps its shape, and the program stays finite
THEOREM TypeCorrect == Spec => [](TypeOK /\ FiniteConnects)
<1>1. Init => TypeOK /\ FiniteConnects
  BY ProgramsWellFormed, SeededType, Inputs DEF Init, TypeOK, WellFormed, FiniteConnects
<1>2. TypeOK /\ FiniteConnects /\ [Next]_vars => TypeOK' /\ FiniteConnects'
  <2>1. CASE FromProgram
    BY <2>1, SeededType DEF FromProgram, TypeOK, FiniteConnects
  <2>2. CASE UNCHANGED vars
    BY <2>2 DEF vars, TypeOK, FiniteConnects
  <2> QED BY <2>1, <2>2, StructureType, AnnotationsType DEF Next
<1> QED BY <1>1, <1>2, PTL DEF Spec

-----------------------------------------------------------------------------
(* Integrity.  NothingDangles and NamesStayUnique need each other only     *)
(* through what an instance name stands for; the order of statements is    *)
(* what the ID proofs and the first-of-its-name rules rest on.             *)

Ordered == OrderedIn(program, clock)

ConnectsWired == \A c \in program.connects : [src |-> c.src, tgt |-> c.tgt] \in Wires

Integrity == NothingDangles /\ NamesStayUnique /\ Ordered /\ ConnectsWired

USE DEF NothingDangles, NamesStayUnique, Ordered, ConnectsWired

\* A step that leaves the instances alone and takes statements away, or edits
\* what Integrity does not look at, keeps it
Shrinks ==
  /\ clock' = clock
  /\ program'.instances = program.instances
  /\ program'.connects \subseteq program.connects
  /\ program'.bridges \subseteq program.bridges
  /\ program'.configs \subseteq program.configs
  /\ program'.templates \subseteq program.templates
  /\ program'.rings \subseteq program.rings
  /\ program'.signals \subseteq program.signals
  /\ program'.streams \subseteq program.streams

LEMMA ShrinkingKeepsIntegrity == Integrity /\ Shrinks => Integrity'
BY DEF Integrity, Shrinks, ConnectsAttachedIn, BridgesAttachedIn, ConfigsAttachedIn, AttachedIn,
       UniqueNames, OrderedIn

LEMMA IntegrityStructure == TypeOK /\ Integrity /\ StructureNext => Integrity'
<1> SUFFICES ASSUME TypeOK, Integrity, StructureNext PROVE Integrity'
  OBVIOUS
<1> USE DEF TypeOK
<1>1. ASSUME NEW d \in Decl, AddTemplate(d) PROVE Integrity'
  BY <1>1 DEF AddTemplate, Program, Integrity, OrderedIn, ConnectsAttachedIn, BridgesAttachedIn,
              ConfigsAttachedIn, AttachedIn, UniqueNames
<1>2. ASSUME NEW t \in Tmpl, RemoveTemplate(t) PROVE Integrity'
  BY <1>2, ShrinkingKeepsIntegrity DEF RemoveTemplate, Shrinks, Program
<1>3. ASSUME NEW t \in Tmpl, NEW d \in Decl, UpdateTemplate(t, d) PROVE Integrity'
  BY <1>3 DEF UpdateTemplate, LocalNamed, First, Program, Integrity, OrderedIn, ConnectsAttachedIn,
              BridgesAttachedIn, ConfigsAttachedIn, AttachedIn, UniqueNames
<1>4. ASSUME NEW l \in Libraries, SetLibrary(l) PROVE Integrity'
  BY <1>4, ShrinkingKeepsIntegrity DEF SetLibrary, Shrinks
<1>5. ASSUME NEW d \in InstDecl, AddInstance(d) PROVE Integrity'
  BY <1>5 DEF AddInstance, HasInstance, InstancesNamed, Program, Integrity, OrderedIn,
              ConnectsAttachedIn, BridgesAttachedIn, ConfigsAttachedIn, AttachedIn, UniqueNames
<1>6. ASSUME NEW i \in Inst, RemoveInstance(i) PROVE Integrity'
  <2> DEFINE p == WithoutInstance(program, i)
  <2>1. program' = p /\ clock' = clock
    BY <1>6 DEF RemoveInstance
  <2>2. /\ p.connects = {c \in program.connects : ~ Touches(c, i)}
        /\ p.bridges = {b \in program.bridges : ~ Touches(b, i)}
        /\ p.configs = {c \in program.configs : c.name # i}
        /\ p.instances = {d \in program.instances : d.name # i}
        /\ p.templates = program.templates
        /\ p.signals = {[s EXCEPT !.origin = IF @ = i THEN NoRef ELSE @] : s \in program.signals}
        /\ p.streams = {[s EXCEPT !.source = IF @ = i THEN NoRef ELSE @] : s \in program.streams}
        /\ p.rings = {[r EXCEPT !.members = @ \ {i}] : r \in program.rings}
    BY DEF WithoutInstance, Program
  <2>3. ConnectsAttachedIn(p) /\ BridgesAttachedIn(p) /\ ConfigsAttachedIn(p)
    BY <2>2 DEF Integrity, ConnectsAttachedIn, BridgesAttachedIn, ConfigsAttachedIn, AttachedIn, Touches
  <2>4. UniqueNames(p)
    <3>1. \A x, y \in p.instances : x.name = y.name => x = y
      BY <2>2 DEF Integrity, UniqueNames
    <3>2. \A x, y \in p.rings : x.name = y.name => x = y
      <4>1. SUFFICES ASSUME NEW x \in p.rings, NEW y \in p.rings, x.name = y.name PROVE x = y
        OBVIOUS
      <4>2. PICK r \in program.rings : x = [r EXCEPT !.members = @ \ {i}]
        BY <2>2
      <4>3. PICK s \in program.rings : y = [s EXCEPT !.members = @ \ {i}]
        BY <2>2
      <4>4. x.name = r.name /\ y.name = s.name
        BY <4>2, <4>3 DEF Program
      <4> QED BY <4>1, <4>2, <4>3, <4>4 DEF Integrity, UniqueNames
    <3>3. \A x, y \in p.signals : x.name = y.name => x = y
      BY <2>2 DEF Integrity, UniqueNames, Program
    <3>4. \A x, y \in p.streams : x.name = y.name => x = y
      BY <2>2 DEF Integrity, UniqueNames, Program
    <3> QED BY <3>1, <3>2, <3>3, <3>4 DEF UniqueNames
  <2>5. OrderedIn(p, clock)
    BY <2>2 DEF Integrity, OrderedIn
  <2> QED BY <2>1, <2>2, <2>3, <2>4, <2>5 DEF Integrity
<1>7. ASSUME NEW i \in Inst, NEW cards, HasInstance(i), ReplaceCards(i, cards), clock' = clock
      PROVE Integrity'
  <2> DEFINE d == GetInstance(i)
             new == [name |-> d.name, tmpl |-> d.tmpl, cards |-> cards]
  <2>1. d \in program.instances /\ d.name = i
    BY <1>7 DEF HasInstance, InstancesNamed, GetInstance
  <2>2. /\ program' = [program EXCEPT !.instances = (@ \ {d}) \cup {new}]
        /\ program'.instances = (program.instances \ {d}) \cup {new}
        /\ new.name = d.name
    BY <1>7 DEF ReplaceCards, Program
  <2>3. \A n : (\E e \in program.instances : e.name = n) => \E e \in program'.instances : e.name = n
    BY <2>1, <2>2
  <2>4. \A x, y \in program'.instances : x.name = y.name => x = y
    BY <2>1, <2>2 DEF Integrity, UniqueNames
  <2>5. /\ program'.connects = program.connects /\ program'.bridges = program.bridges
        /\ program'.configs = program.configs /\ program'.templates = program.templates
        /\ program'.rings = program.rings /\ program'.signals = program.signals
        /\ program'.streams = program.streams
    BY <2>2 DEF Program
  <2>6. UniqueNames(program')
    BY <2>4, <2>5 DEF Integrity, UniqueNames
  <2>7. OrderedIn(program', clock')
    BY <1>7, <2>5 DEF Integrity, OrderedIn
  <2>8. ConnectsAttachedIn(program')
    BY <2>3, <2>5 DEF Integrity, ConnectsAttachedIn
  <2>9. BridgesAttachedIn(program') /\ ConfigsAttachedIn(program')
    BY <2>3, <2>5 DEF Integrity, BridgesAttachedIn, ConfigsAttachedIn, AttachedIn
  <2>10. ConnectsWired'
    BY <2>5 DEF Integrity
  <2> QED BY <2>6, <2>7, <2>8, <2>9, <2>10 DEF Integrity
<1>8. ASSUME NEW i \in Inst, NEW s \in Slot, NEW k \in SlotIndex, NEW t \in Tmpl, SetSlot(i, s, k, t)
      PROVE Integrity'
  BY <1>7, <1>8 DEF SetSlot
<1>9. ASSUME NEW i \in Inst, NEW s \in Slot, NEW k \in SlotIndex, RemoveSlot(i, s, k)
      PROVE Integrity'
  BY <1>7, <1>9 DEF RemoveSlot
<1>10. ASSUME NEW w \in Wires, NEW p \in Props, NEW n \in Nat, NEW r, Wired(w), PushConnects(w, p, n, r)
       PROVE Integrity'
  <2> DEFINE new == {ConnectAt(w, p, clock + k - 1) : k \in 1..n}
  <2>1. /\ program'.connects = program.connects \cup new
        /\ program' = [program EXCEPT !.connects = program.connects \cup new]
        /\ clock' = clock + n
    BY <1>10 DEF PushConnects, Program
  <2>2. /\ \A c \in new : c.src = w.src /\ c.tgt = w.tgt /\ c.at \in clock .. clock + n - 1
        /\ \A c, d \in new : c.at = d.at => c = d
    BY DEF ConnectAt
  <2>3. ConnectsAttachedIn(program)'
    BY <1>10, <2>1, <2>2 DEF Wired, HasInstance, InstancesNamed, Integrity, ConnectsAttachedIn, Program
  <2>4. OrderedIn(program', clock')
    <3>1. \A c \in program.connects : c.at \in 0 .. clock - 1
      BY DEF Integrity, OrderedIn
    <3>2. \A c, d \in program'.connects : c.at = d.at => c = d
      BY <2>1, <2>2, <3>1 DEF Integrity, OrderedIn
    <3>3. \A c \in program'.connects \cup program'.templates \cup program'.configs : c.at \in 0 .. clock' - 1
      BY <2>1, <2>2 DEF Integrity, OrderedIn, Program
    <3> QED BY <2>1, <3>2, <3>3 DEF Integrity, OrderedIn, Program
  <2>5. \A c \in program'.connects : [src |-> c.src, tgt |-> c.tgt] \in Wires
    <3>1. [src |-> w.src, tgt |-> w.tgt] = w
      BY Inputs DEF Wire
    <3> QED BY <2>1, <2>2, <3>1 DEF Integrity
  <2> QED BY <2>1, <2>3, <2>4, <2>5 DEF Integrity, BridgesAttachedIn, ConfigsAttachedIn, AttachedIn,
             UniqueNames, Program
<1>11. ASSUME NEW w \in Wires, NEW p \in Props, AddConnect(w, p) PROVE Integrity'
  BY <1>10, <1>11 DEF AddConnect
<1>12. ASSUME NEW w \in Wires, NEW p \in Props, NEW n \in 2..MaxRun, AddConnectMapped(w, p, n)
       PROVE Integrity'
  <2>1. n \in Nat /\ 1 .. n - 1 \subseteq Nat
    BY Inputs
  <2> QED BY <1>10, <1>12, <2>1 DEF AddConnectMapped
<1>13. ASSUME NEW id, RemoveConnect(id) PROVE Integrity'
  BY <1>13, ShrinkingKeepsIntegrity DEF RemoveConnect, Shrinks, Program
<1>14. ASSUME NEW id, NEW p \in Props, UpdateConnectProperties(id, p) PROVE Integrity'
  <2>1. PICK c \in program.connects :
           program' = [program EXCEPT !.connects = (@ \ {c}) \cup {ConnectAt(c, p, c.at)}]
    BY <1>14 DEF UpdateConnectProperties, First, Addressed
  <2> DEFINE new == ConnectAt(c, p, c.at)
  <2>2. /\ program'.connects = (program.connects \ {c}) \cup {new}
        /\ new.at = c.at /\ new.src = c.src /\ new.tgt = c.tgt
        /\ clock' = clock
    BY <1>14, <2>1 DEF ConnectAt, Program, UpdateConnectProperties
  <2>3. /\ program'.instances = program.instances /\ program'.bridges = program.bridges
        /\ program'.configs = program.configs /\ program'.templates = program.templates
        /\ program'.rings = program.rings /\ program'.signals = program.signals
        /\ program'.streams = program.streams
    BY <2>1 DEF Program
  <2>4. ConnectsAttachedIn(program') /\ ConnectsWired'
    BY <2>2, <2>3 DEF Integrity, ConnectsAttachedIn
  <2> QED BY <2>2, <2>3, <2>4 DEF Integrity, OrderedIn, BridgesAttachedIn, ConfigsAttachedIn,
             AttachedIn, UniqueNames
<1> QED BY <1>1, <1>2, <1>3, <1>4, <1>5, <1>6, <1>8, <1>9, <1>11, <1>12, <1>13, <1>14 DEF StructureNext

\* An edit that reaches only bridges, groups, flags, signals, streams and rings
\* keeps Integrity when the new bridges are attached and the names stay unique
LEMMA EditKeepsIntegrity ==
  ASSUME NEW p, Integrity, Edit(p), clock' = clock,
         p.instances = program.instances, p.connects = program.connects,
         p.templates = program.templates, p.configs = program.configs,
         BridgesAttachedIn(p), UniqueNames(p)
  PROVE  Integrity'
BY DEF Edit, Integrity, ConnectsAttachedIn, ConfigsAttachedIn, OrderedIn

LEMMA IntegrityAnnotations == TypeOK /\ Integrity /\ AnnotationsNext => Integrity'
<1> SUFFICES ASSUME TypeOK, Integrity, AnnotationsNext PROVE Integrity'
  OBVIOUS
<1> USE DEF TypeOK, Edit
<1>1. ASSUME NEW w \in Links, NEW a \in BOOLEAN, AddBridge(w, a) PROVE Integrity'
  <2> DEFINE b == [src |-> w.src, tgt |-> w.tgt, auto |-> a]
             p == [program EXCEPT !.bridges = @ \cup {b}]
  <2>1. /\ p.instances = program.instances /\ p.connects = program.connects
        /\ p.templates = program.templates /\ p.configs = program.configs
        /\ p.rings = program.rings /\ p.signals = program.signals
        /\ p.streams = program.streams
        /\ p.bridges = program.bridges \cup {b}
    BY DEF Program
  <2>2. AttachedIn(program, w.src) /\ AttachedIn(program, w.tgt)
    BY <1>1 DEF AddBridge, Resolved, HasPort, HasInstance, InstancesNamed, AttachedIn
  <2>3. BridgesAttachedIn(p)
    BY <2>1, <2>2 DEF Integrity, BridgesAttachedIn, AttachedIn
  <2>4. UniqueNames(p)
    BY <2>1 DEF Integrity, UniqueNames
  <2> QED BY <1>1, <2>1, <2>3, <2>4, EditKeepsIntegrity DEF AddBridge
<1>2. ASSUME NEW w \in Links, RemoveBridge(w) PROVE Integrity'
  BY <1>2, ShrinkingKeepsIntegrity DEF RemoveBridge, Shrinks, Program
<1>3. ASSUME NEW g \in Groups, AddBridgeGroup(g) \/ RemoveBridgeGroup(g.tgt) PROVE Integrity'
  BY <1>3, ShrinkingKeepsIntegrity DEF AddBridgeGroup, RemoveBridgeGroup, Shrinks, Program
<1>4. ASSUME NEW c \in program.configs, NEW ls, Edit(Relabelled(c, ls)), clock' = clock
      PROVE Integrity'
  <2> DEFINE new == [at |-> c.at, name |-> c.name, labels |-> ls]
  <2>1. /\ program'.instances = program.instances /\ program'.connects = program.connects
        /\ program'.templates = program.templates /\ program'.bridges = program.bridges
        /\ program'.rings = program.rings /\ program'.signals = program.signals
        /\ program'.streams = program.streams
        /\ program'.configs = (program.configs \ {c}) \cup {new}
        /\ new.at = c.at /\ new.name = c.name
    BY <1>4 DEF Relabelled, Program
  <2>2. ConfigsAttachedIn(program')
    BY <2>1 DEF Integrity, ConfigsAttachedIn
  <2>3. OrderedIn(program', clock')
    BY <1>4, <2>1 DEF Integrity, OrderedIn
  <2> QED BY <2>1, <2>2, <2>3 DEF Integrity, ConnectsAttachedIn, BridgesAttachedIn, AttachedIn, UniqueNames
<1>5. ASSUME NEW i \in Inst, NEW ls, SetLabels(i, ls) PROVE Integrity'
  <2>1. CASE \E c \in FirstConfig(i) : Edit(Relabelled(c, c.labels \cup ls)) /\ clock' = clock
    BY <1>4, <2>1 DEF FirstConfig, First, ConfigsNamed
  <2>2. CASE /\ Edit([program EXCEPT !.configs = @ \cup {[at |-> clock, name |-> i, labels |-> ls]}])
             /\ clock' = clock + 1
    <3> DEFINE new == [at |-> clock, name |-> i, labels |-> ls]
    <3>1. /\ program'.instances = program.instances /\ program'.connects = program.connects
          /\ program'.templates = program.templates /\ program'.bridges = program.bridges
          /\ program'.rings = program.rings /\ program'.signals = program.signals
          /\ program'.streams = program.streams
          /\ program'.configs = program.configs \cup {new}
          /\ new.at = clock /\ new.name = i
      BY <2>2 DEF Program
    <3>2. ConfigsAttachedIn(program')
      BY <1>5, <3>1 DEF SetLabels, HasInstance, InstancesNamed, Integrity, ConfigsAttachedIn
    <3>3. \A x, y \in program'.configs : x.at = y.at => x = y
      BY <3>1 DEF Integrity, OrderedIn
    <3>4. \A x \in program'.connects \cup program'.templates \cup program'.configs : x.at \in 0 .. clock' - 1
      BY <2>2, <3>1 DEF Integrity, OrderedIn
    <3>5. OrderedIn(program', clock')
      BY <3>1, <3>3, <3>4 DEF Integrity, OrderedIn
    <3> QED BY <3>1, <3>2, <3>5 DEF Integrity, ConnectsAttachedIn, BridgesAttachedIn, AttachedIn, UniqueNames
  <2> QED BY <1>5, <2>1, <2>2 DEF SetLabels
<1>6. ASSUME NEW i \in Inst, NEW l \in Label, SetLabel(i, l) PROVE Integrity'
  BY <1>5, <1>6 DEF SetLabel
<1>7. ASSUME NEW i \in Inst, NEW ch \in SUBSET Channel, SetRfLabels(i, ch) PROVE Integrity'
  BY <1>5, <1>7 DEF SetRfLabels
<1>8. ASSUME NEW i \in Inst, NEW l \in Label, RemoveLabel(i, l) PROVE Integrity'
  <2>1. CASE Edit([program EXCEPT !.configs = @ \ ConfigsNamed(i)])
    BY <1>8, <2>1, ShrinkingKeepsIntegrity DEF RemoveLabel, Shrinks, Program
  <2>2. CASE \E c \in FirstConfig(i) : Edit(Relabelled(c, c.labels \ {l}))
    BY <1>4, <1>8, <2>2 DEF RemoveLabel, FirstConfig, First, ConfigsNamed
  <2> QED BY <1>8, <2>1, <2>2 DEF RemoveLabel
<1>9. ASSUME NEW i \in Inst, RemoveConfig(i) PROVE Integrity'
  BY <1>9, ShrinkingKeepsIntegrity DEF RemoveConfig, Shrinks, Program
<1>10. ASSUME NEW s \in Signal, NEW o \in Inst \cup {NoRef}, AddSignal(s, o) PROVE Integrity'
  <2> DEFINE p == [program EXCEPT !.signals = @ \cup {[name |-> s, origin |-> o]}]
  <2>1. /\ p.instances = program.instances /\ p.connects = program.connects
        /\ p.templates = program.templates /\ p.configs = program.configs
        /\ p.bridges = program.bridges
        /\ p.rings = program.rings /\ p.streams = program.streams
        /\ p.signals = program.signals \cup {[name |-> s, origin |-> o]}
    BY DEF Program
  <2>2. BridgesAttachedIn(p)
    BY <2>1 DEF Integrity, BridgesAttachedIn, AttachedIn
  <2>3. UniqueNames(p)
    BY <1>10, <2>1 DEF AddSignal, Integrity, UniqueNames
  <2> QED BY <1>10, <2>1, <2>2, <2>3, EditKeepsIntegrity DEF AddSignal
<1>11. ASSUME NEW s \in Signal, RemoveSignal(s) PROVE Integrity'
  BY <1>11, ShrinkingKeepsIntegrity DEF RemoveSignal, Shrinks, Program
<1>12. ASSUME NEW s \in Stream, NEW o \in Inst \cup {NoRef}, AddStream(s, o) PROVE Integrity'
  <2> DEFINE p == [program EXCEPT !.streams = @ \cup {[name |-> s, source |-> o]}]
  <2>1. /\ p.instances = program.instances /\ p.connects = program.connects
        /\ p.templates = program.templates /\ p.configs = program.configs
        /\ p.bridges = program.bridges
        /\ p.rings = program.rings /\ p.signals = program.signals
        /\ p.streams = program.streams \cup {[name |-> s, source |-> o]}
    BY DEF Program
  <2>2. BridgesAttachedIn(p)
    BY <2>1 DEF Integrity, BridgesAttachedIn, AttachedIn
  <2>3. UniqueNames(p)
    BY <1>12, <2>1 DEF AddStream, Integrity, UniqueNames
  <2> QED BY <1>12, <2>1, <2>2, <2>3, EditKeepsIntegrity DEF AddStream
<1>13. ASSUME NEW s \in Stream, RemoveStream(s) PROVE Integrity'
  BY <1>13, ShrinkingKeepsIntegrity DEF RemoveStream, Shrinks, Program
<1>14. ASSUME NEW f \in Flag, AddFlag(f) \/ RemoveFlag(f) PROVE Integrity'
  BY <1>14, ShrinkingKeepsIntegrity DEF AddFlag, RemoveFlag, Shrinks, Program
<1>15. ASSUME NEW r \in Ring, NEW m \in SUBSET Inst, AddRing(r, m) PROVE Integrity'
  <2> DEFINE p == [program EXCEPT !.rings = @ \cup {[name |-> r, members |-> m]}]
  <2>1. /\ p.instances = program.instances /\ p.connects = program.connects
        /\ p.templates = program.templates /\ p.configs = program.configs
        /\ p.bridges = program.bridges
        /\ p.signals = program.signals /\ p.streams = program.streams
        /\ p.rings = program.rings \cup {[name |-> r, members |-> m]}
    BY DEF Program
  <2>2. BridgesAttachedIn(p)
    BY <2>1 DEF Integrity, BridgesAttachedIn, AttachedIn
  <2>3. UniqueNames(p)
    BY <1>15, <2>1 DEF AddRing, Integrity, UniqueNames, RingsNamed
  <2> QED BY <1>15, <2>1, <2>2, <2>3, EditKeepsIntegrity DEF AddRing
<1>16. ASSUME NEW r \in Ring, RemoveRing(r) PROVE Integrity'
  BY <1>16, ShrinkingKeepsIntegrity DEF RemoveRing, RingsNamed, Shrinks, Program
<1>17. ASSUME NEW x \in program.rings, NEW m, ReplaceMembers(x, m), clock' = clock PROVE Integrity'
  <2> DEFINE p == [program EXCEPT !.rings = (@ \ {x}) \cup {[name |-> x.name, members |-> m]}]
  <2>1. /\ p.instances = program.instances /\ p.connects = program.connects
        /\ p.templates = program.templates /\ p.configs = program.configs
        /\ p.bridges = program.bridges
        /\ p.signals = program.signals /\ p.streams = program.streams
        /\ p.rings = (program.rings \ {x}) \cup {[name |-> x.name, members |-> m]}
    BY DEF Program
  <2>2. BridgesAttachedIn(p)
    BY <2>1 DEF Integrity, BridgesAttachedIn, AttachedIn
  <2>3. UniqueNames(p)
    BY <1>17, <2>1 DEF ReplaceMembers, Integrity, UniqueNames
  <2> QED BY <1>17, <2>1, <2>2, <2>3, EditKeepsIntegrity DEF ReplaceMembers
<1>18. ASSUME NEW r \in Ring, NEW i \in Inst, AddRingMember(r, i) \/ RemoveRingMember(r, i)
       PROVE Integrity'
  BY <1>17, <1>18 DEF AddRingMember, RemoveRingMember, RingsNamed
<1> QED BY <1>1, <1>2, <1>3, <1>6, <1>7, <1>8, <1>9, <1>10, <1>11, <1>12, <1>13, <1>14, <1>15, <1>16,
           <1>18 DEF AnnotationsNext

\* The strengthening holds of every state a builder can reach
LEMMA IntegrityInvariant == Spec => []Integrity
<1>1. Init => Integrity
  BY ProgramsWellFormed DEF Init, Integrity, WellFormed
<1>2. TypeOK /\ Integrity /\ [Next]_vars => Integrity'
  <2>1. CASE FromProgram \/ UNCHANGED vars
    BY <2>1 DEF FromProgram, vars, Integrity, ConnectsAttachedIn, BridgesAttachedIn, ConfigsAttachedIn,
                AttachedIn, UniqueNames, OrderedIn
  <2> QED BY <2>1, IntegrityStructure, IntegrityAnnotations DEF Next
<1> QED BY <1>1, <1>2, TypeCorrect, PTL DEF Spec

\* For every instance set, program and sequence of operations: no connect,
\* bridge or config block of the builder names an instance that is not there
THEOREM NothingEverDangles == Spec => []NothingDangles
<1>1. Integrity => NothingDangles
  BY DEF Integrity
<1> QED BY <1>1, IntegrityInvariant, PTL

\* Instances, rings, signals and streams keep unique names for ever
THEOREM NamesUnique == Spec => []NamesStayUnique
<1>1. Integrity => NamesStayUnique
  BY DEF Integrity
<1> QED BY <1>1, IntegrityInvariant, PTL

-----------------------------------------------------------------------------
(* Templates.                                                              *)

\* Only the template operations write the declarations
LEMMA TemplatesKept ==
  ASSUME TypeOK, Next
  PROVE  \/ \E d \in Decl : AddTemplate(d)
         \/ \E t \in Tmpl : RemoveTemplate(t)
         \/ \E t \in Tmpl, d \in Decl : UpdateTemplate(t, d)
         \/ program'.templates = program.templates
<1> USE DEF TypeOK
<1>1. AnnotationsNext => program'.templates = program.templates
  BY DEF AnnotationsNext, AddBridge, RemoveBridge, AddBridgeGroup, RemoveBridgeGroup, SetLabel, SetLabels,
         SetRfLabels, RemoveLabel, RemoveConfig, AddSignal, RemoveSignal, AddStream, RemoveStream,
         AddFlag, RemoveFlag, AddRing, RemoveRing, AddRingMember, RemoveRingMember, ReplaceMembers,
         Relabelled, Edit, Program
<1>2. ASSUME NEW w, NEW p, NEW n, NEW r, PushConnects(w, p, n, r)
      PROVE program'.templates = program.templates
  BY <1>2 DEF PushConnects, Program
<1>3. ASSUME NEW w, NEW p, NEW n, AddConnect(w, p) \/ AddConnectMapped(w, p, n)
      PROVE program'.templates = program.templates
  BY <1>2, <1>3 DEF AddConnect, AddConnectMapped
<1>4. ASSUME NEW i, NEW s, NEW k, NEW t, SetSlot(i, s, k, t) \/ RemoveSlot(i, s, k)
      PROVE program'.templates = program.templates
  BY <1>4 DEF SetSlot, RemoveSlot, ReplaceCards, Program
<1>5. ASSUME NEW id, NEW p, RemoveConnect(id) \/ UpdateConnectProperties(id, p)
      PROVE program'.templates = program.templates
  BY <1>5 DEF RemoveConnect, UpdateConnectProperties, Program
<1>6. ASSUME NEW i, RemoveInstance(i) PROVE program'.templates = program.templates
  BY <1>6 DEF RemoveInstance, WithoutInstance, Program
<1>7. ASSUME NEW d, NEW l, AddInstance(d) \/ SetLibrary(l) PROVE program'.templates = program.templates
  BY <1>7 DEF AddInstance, SetLibrary, Program
<1> QED BY <1>1, <1>3, <1>4, <1>5, <1>6, <1>7 DEF Next, StructureNext, FromProgram

\* No step that only takes declarations away leaves an instance that had a
\* template without one
THEOREM RemovalSafe == Spec => RemovalKeepsTemplates
<1> DEFINE A == (program'.templates \subseteq program.templates /\ library' = library)
                => \A d \in program.instances :
                     (HasTemplate(d.tmpl) /\ d \in program'.instances) => HasTemplate(d.tmpl)'
<1>1. TypeOK /\ Integrity /\ [Next]_vars => [A]_vars
  <2> SUFFICES ASSUME TypeOK, Integrity, Next,
                      program'.templates \subseteq program.templates, library' = library,
                      NEW d \in program.instances, HasTemplate(d.tmpl)
               PROVE  HasTemplate(d.tmpl)'
    OBVIOUS
  <2>1. CASE program'.templates = program.templates
    BY <2>1 DEF HasTemplate, LocalNamed, LibraryNamed
  <2>2. ASSUME NEW e \in Decl, AddTemplate(e) PROVE FALSE
    <3>1. [at |-> clock, decl |-> e] \in program.templates
      BY <2>2 DEF AddTemplate, TypeOK, Program
    <3>2. LocalNamed(e.name) # {}
      BY <3>1 DEF LocalNamed
    <3> QED BY <2>2, <3>2 DEF AddTemplate
  <2>3. ASSUME NEW t \in Tmpl, RemoveTemplate(t) PROVE HasTemplate(d.tmpl)'
    <3>1. d.tmpl # t
      BY <2>3 DEF RemoveTemplate, InstancesUsing
    <3>2. program'.templates = program.templates \ LocalNamed(t)
      BY <2>3 DEF RemoveTemplate, TypeOK, Program
    <3> QED BY <3>1, <3>2 DEF HasTemplate, LocalNamed, LibraryNamed
  <2>4. ASSUME NEW t \in Tmpl, NEW e \in Decl, UpdateTemplate(t, e)
        PROVE program'.templates = program.templates
    <3>1. PICK old \in program.templates :
            program'.templates = (program.templates \ {old}) \cup {[at |-> old.at, decl |-> e]}
      BY <2>4 DEF UpdateTemplate, First, LocalNamed, TypeOK, Program
    <3>2. [at |-> old.at, decl |-> e] = old
      BY <3>1 DEF Integrity, OrderedIn
    <3> QED BY <3>1, <3>2
  <2> QED BY <2>1, <2>2, <2>3, <2>4, TemplatesKept
<1> QED BY <1>1, TypeCorrect, IntegrityInvariant, PTL DEF Spec, RemovalKeepsTemplates

-----------------------------------------------------------------------------
(* The cascade.                                                            *)

Named(p) == {d.name : d \in p.instances}

\* Only remove_instance takes an instance name away
LEMMA NamesKept ==
  ASSUME TypeOK, Next
  PROVE  (\E i \in Inst : RemoveInstance(i)) \/ Named(program) \subseteq Named(program')
<1> USE DEF TypeOK
<1>1. AnnotationsNext => program'.instances = program.instances
  BY DEF AnnotationsNext, AddBridge, RemoveBridge, AddBridgeGroup, RemoveBridgeGroup, SetLabel, SetLabels,
         SetRfLabels, RemoveLabel, RemoveConfig, AddSignal, RemoveSignal, AddStream, RemoveStream,
         AddFlag, RemoveFlag, AddRing, RemoveRing, AddRingMember, RemoveRingMember, ReplaceMembers,
         Relabelled, Edit, Program
<1>2. ASSUME NEW w, NEW p, NEW n, AddConnect(w, p) \/ AddConnectMapped(w, p, n)
      PROVE program'.instances = program.instances
  BY <1>2 DEF AddConnect, AddConnectMapped, PushConnects, Program
<1>3. ASSUME NEW i, NEW cards, HasInstance(i), ReplaceCards(i, cards)
      PROVE Named(program) \subseteq Named(program')
  <2> DEFINE d == GetInstance(i)
             new == [name |-> d.name, tmpl |-> d.tmpl, cards |-> cards]
  <2>1. program'.instances = (program.instances \ {d}) \cup {new} /\ new.name = d.name
    BY <1>3 DEF ReplaceCards, Program
  <2> HIDE DEF d, new
  <2> QED BY <2>1 DEF Named
<1>4. ASSUME NEW i, NEW s, NEW k, NEW t, SetSlot(i, s, k, t) \/ RemoveSlot(i, s, k)
      PROVE Named(program) \subseteq Named(program')
  BY <1>3, <1>4 DEF SetSlot, RemoveSlot
<1>5. ASSUME NEW id, NEW p, RemoveConnect(id) \/ UpdateConnectProperties(id, p)
      PROVE program'.instances = program.instances
  BY <1>5 DEF RemoveConnect, UpdateConnectProperties, Program
<1>6. ASSUME NEW t, NEW d, AddTemplate(d) \/ RemoveTemplate(t) \/ UpdateTemplate(t, d)
      PROVE program'.instances = program.instances
  BY <1>6 DEF AddTemplate, RemoveTemplate, UpdateTemplate, Program
<1>7. ASSUME NEW d, NEW l, AddInstance(d) \/ SetLibrary(l)
      PROVE Named(program) \subseteq Named(program')
  BY <1>7 DEF AddInstance, SetLibrary, Named, Program
<1>8. program'.instances = program.instances => Named(program) \subseteq Named(program')
  BY DEF Named
<1> QED BY <1>1, <1>2, <1>4, <1>5, <1>6, <1>7, <1>8 DEF Next, StructureNext, FromProgram

\* What remove_instance leaves behind
LEMMA CascadeStep ==
  ASSUME TypeOK, NEW i \in Inst, RemoveInstance(i)
  PROVE  /\ Unreferenced(program', i)
         /\ \A w \in program.connects : Touches(w, i) \/ w \in program'.connects
         /\ \A w \in program.bridges : Touches(w, i) \/ w \in program'.bridges
         /\ \A g \in program.bridgeGroups : GroupTouches(g, i) \/ g \in program'.bridgeGroups
         /\ \A c \in program.configs : c.name = i \/ c \in program'.configs
         /\ \A r \in program.rings : [r EXCEPT !.members = @ \ {i}] \in program'.rings
         /\ \A s \in program.signals : \E u \in program'.signals :
              u.name = s.name /\ (s.origin # i => u = s)
         /\ \A s \in program.streams : \E u \in program'.streams :
              u.name = s.name /\ (s.source # i => u = s)
<1> USE DEF TypeOK
<1>1. /\ program'.connects = {c \in program.connects : ~ Touches(c, i)}
      /\ program'.bridges = {b \in program.bridges : ~ Touches(b, i)}
      /\ program'.bridgeGroups = {g \in program.bridgeGroups : ~ GroupTouches(g, i)}
      /\ program'.configs = {c \in program.configs : c.name # i}
      /\ program'.signals = {[s EXCEPT !.origin = IF @ = i THEN NoRef ELSE @] : s \in program.signals}
      /\ program'.streams = {[s EXCEPT !.source = IF @ = i THEN NoRef ELSE @] : s \in program.streams}
      /\ program'.rings = {[r EXCEPT !.members = @ \ {i}] : r \in program.rings}
  BY DEF RemoveInstance, WithoutInstance, Program
<1>2. i # NoRef
  BY Inputs
<1>3. \A s \in program'.signals : s.origin # i
  BY <1>1, <1>2 DEF Program
<1>4. \A s \in program'.streams : s.source # i
  BY <1>1, <1>2 DEF Program
<1>5. \A r \in program'.rings : i \notin r.members
  BY <1>1 DEF Program
<1>6. Unreferenced(program', i)
  BY <1>1, <1>3, <1>4, <1>5 DEF Unreferenced
<1>7. \A r \in program.rings : [r EXCEPT !.members = @ \ {i}] \in program'.rings
  BY <1>1
<1>8. ASSUME NEW s \in program.signals
      PROVE \E u \in program'.signals : u.name = s.name /\ (s.origin # i => u = s)
  <2> DEFINE u == [s EXCEPT !.origin = IF @ = i THEN NoRef ELSE @]
  <2>1. u \in program'.signals
    BY <1>1
  <2>2. u.name = s.name /\ (s.origin # i => u = s)
    BY DEF Program
  <2> QED BY <2>1, <2>2
<1>9. ASSUME NEW s \in program.streams
      PROVE \E u \in program'.streams : u.name = s.name /\ (s.source # i => u = s)
  <2> DEFINE u == [s EXCEPT !.source = IF @ = i THEN NoRef ELSE @]
  <2>1. u \in program'.streams
    BY <1>1
  <2>2. u.name = s.name /\ (s.source # i => u = s)
    BY DEF Program
  <2> QED BY <2>1, <2>2
<1> QED BY <1>1, <1>6, <1>7, <1>8, <1>9

\* In every builder, whenever an instance goes, everything that referred to it
\* goes or forgets it, and everything else stays
THEOREM CascadeIsExact == Spec => CascadeExact
<1>1. ASSUME TypeOK, Next, NEW i \in Inst, InstancesNamed(i) # {},
             ~ \E d \in program'.instances : d.name = i
      PROVE  RemoveInstance(i)
  <2>1. i \in Named(program) /\ i \notin Named(program')
    BY <1>1 DEF Named, InstancesNamed
  <2>2. PICK j \in Inst : RemoveInstance(j)
    BY <1>1, <2>1, NamesKept
  <2>3. program'.instances = {d \in program.instances : d.name # j}
    BY <1>1, <2>2 DEF RemoveInstance, WithoutInstance, TypeOK, Program
  <2>4. i = j
    BY <2>1, <2>3 DEF Named
  <2> QED BY <2>2, <2>4
<1> DEFINE A == \A i \in Inst :
       (InstancesNamed(i) # {} /\ ~ \E d \in program'.instances : d.name = i) =>
         /\ Unreferenced(program', i)
         /\ \A w \in program.connects : Touches(w, i) \/ w \in program'.connects
         /\ \A w \in program.bridges : Touches(w, i) \/ w \in program'.bridges
         /\ \A g \in program.bridgeGroups : GroupTouches(g, i) \/ g \in program'.bridgeGroups
         /\ \A c \in program.configs : c.name = i \/ c \in program'.configs
         /\ \A r \in program.rings : [r EXCEPT !.members = @ \ {i}] \in program'.rings
         /\ \A s \in program.signals : \E u \in program'.signals :
              u.name = s.name /\ (s.origin # i => u = s)
         /\ \A s \in program.streams : \E u \in program'.streams :
              u.name = s.name /\ (s.source # i => u = s)
<1>2. TypeOK /\ Next => A
  BY <1>1, CascadeStep
<1>3. TypeOK /\ [Next]_vars => [A]_vars
  BY <1>2
<1> QED BY <1>3, TypeCorrect, PTL DEF Spec, CascadeExact

-----------------------------------------------------------------------------
(* Connect IDs: the counter of a base text is never behind the connects of *)
(* that text, and, if no two pairs of base and suffix spell the same text, *)
(* an ID is issued once, addresses at most one connect, and never leaves   *)
(* its pair of ports.  The texts themselves stay opaque: nothing below     *)
(* expands Base or IdText.                                                 *)

(* What a step can do to connects, counter and the IDs held.               *)

Grow(w, p, n) ==
  /\ program'.connects = program.connects \cup {ConnectAt(w, p, clock + k - 1) : k \in 1..n}
  /\ counter' = [counter EXCEPT ![Base(w.src, w.tgt)] = @ + n]
  /\ \/ issued' = issued
     \/ issued' = issued \cup {[base |-> Base(w.src, w.tgt), n |-> counter[Base(w.src, w.tgt)] + k,
                                at |-> clock + k - 1] : k \in 1..n}

Drop ==
  /\ program'.connects \subseteq program.connects
  /\ counter' = counter
  /\ issued' = IssuedFor(program')

Rewrite(c, p) ==
  /\ program'.connects = (program.connects \ {c}) \cup {ConnectAt(c, p, c.at)}
  /\ counter' = counter
  /\ issued' = issued

Keep == program'.connects = program.connects /\ counter' = counter /\ issued' = issued

LEMMA ConnectSteps ==
  ASSUME TypeOK, Next
  PROVE  \/ \E w \in Wires, p \in Props, n \in Nat : Grow(w, p, n)
         \/ Drop
         \/ \E c \in program.connects, p \in Props : Rewrite(c, p)
         \/ FromProgram
         \/ Keep
<1> USE DEF TypeOK
<1>1. AnnotationsNext => Keep
  BY DEF AnnotationsNext, AddBridge, RemoveBridge, AddBridgeGroup, RemoveBridgeGroup, SetLabel, SetLabels,
         SetRfLabels, RemoveLabel, RemoveConfig, AddSignal, RemoveSignal, AddStream, RemoveStream,
         AddFlag, RemoveFlag, AddRing, RemoveRing, AddRingMember, RemoveRingMember, ReplaceMembers,
         Relabelled, Edit, Keep, Program
<1>2. ASSUME NEW w, NEW p, NEW n, NEW r, PushConnects(w, p, n, r) PROVE Grow(w, p, n)
  BY <1>2 DEF PushConnects, Grow, Program
<1>3. ASSUME NEW w \in Wires, NEW p \in Props, AddConnect(w, p)
      PROVE \E n \in Nat : Grow(w, p, n)
  BY <1>2, <1>3 DEF AddConnect
<1>4. ASSUME NEW w \in Wires, NEW p \in Props, NEW n \in 2..MaxRun, AddConnectMapped(w, p, n)
      PROVE \E m \in Nat : Grow(w, p, m)
  <2>1. n \in Nat /\ 1 .. n - 1 \subseteq Nat
    BY Inputs
  <2> QED BY <1>2, <1>4, <2>1 DEF AddConnectMapped
<1>5. ASSUME NEW i, NEW s, NEW k, NEW t, SetSlot(i, s, k, t) \/ RemoveSlot(i, s, k) PROVE Keep
  BY <1>5 DEF SetSlot, RemoveSlot, ReplaceCards, Keep, Program
<1>6. ASSUME NEW id, RemoveConnect(id) PROVE Drop
  BY <1>6 DEF RemoveConnect, Drop, Program
<1>7. ASSUME NEW id, NEW p, UpdateConnectProperties(id, p)
      PROVE \E c \in program.connects : Rewrite(c, p)
  BY <1>7 DEF UpdateConnectProperties, First, Addressed, Rewrite, Program
<1>8. ASSUME NEW i, RemoveInstance(i) PROVE Drop
  BY <1>8 DEF RemoveInstance, WithoutInstance, Drop, Program
<1>9. ASSUME NEW t, NEW d, AddTemplate(d) \/ RemoveTemplate(t) \/ UpdateTemplate(t, d)
      PROVE Keep
  BY <1>9 DEF AddTemplate, RemoveTemplate, UpdateTemplate, Keep, Program
<1>10. ASSUME NEW d, NEW l, AddInstance(d) \/ SetLibrary(l) PROVE Keep
  BY <1>10 DEF AddInstance, SetLibrary, Keep, Program
<1> QED BY <1>1, <1>3, <1>4, <1>5, <1>6, <1>7, <1>8, <1>9, <1>10 DEF Next, StructureNext

-----------------------------------------------------------------------------
(* Counting connects.                                                      *)

LEMMA WithBaseFinite ==
  ASSUME NEW p, IsFiniteSet(p.connects), NEW b
  PROVE  IsFiniteSet(WithBase(p, b)) /\ Cardinality(WithBase(p, b)) \in Nat
<1>1. WithBase(p, b) \in SUBSET p.connects
  BY DEF WithBase
<1> QED BY <1>1, FS_Subset, FS_CardinalityType

\* A run of n appended connects has at most n members
LEMMA RunSize ==
  ASSUME NEW w, NEW p, NEW n \in Nat, NEW a \in Nat
  PROVE  LET run == {ConnectAt(w, p, a + k - 1) : k \in 1..n}
         IN  IsFiniteSet(run) /\ Cardinality(run) \in Nat /\ Cardinality(run) <= n
<1> DEFINE run == {ConnectAt(w, p, a + k - 1) : k \in 1..n}
           f == [k \in 1..n |-> ConnectAt(w, p, a + k - 1)]
<1>1. f \in Surjection(1..n, run)
  BY DEF Surjection
<1>2. IsFiniteSet(1..n) /\ Cardinality(1..n) = n
  BY FS_Interval
<1> QED BY <1>1, <1>2, FS_Surjection, FS_CardinalityType

LEMMA ConnectsHaveBase ==
  ASSUME ConnectsWired, NEW c \in program.connects PROVE Base(c.src, c.tgt) \in Bases
<1> DEFINE w == [src |-> c.src, tgt |-> c.tgt]
<1>1. w \in Wires /\ w.src = c.src /\ w.tgt = c.tgt
  BY DEF ConnectsWired
<1>2. Base(w.src, w.tgt) \in Bases
  BY <1>1 DEF Bases
<1> QED BY <1>1, <1>2

\* What the counting argument rests on
Sound == TypeOK /\ FiniteConnects /\ Integrity

LEMMA SoundInvariant == Spec => []Sound
BY TypeCorrect, IntegrityInvariant, PTL DEF Sound

LEMMA CoversInductive ==
  Sound /\ CounterCoversConnects /\ [Next]_vars => CounterCoversConnects'
<1> SUFFICES ASSUME Sound, CounterCoversConnects, [Next]_vars,
                    NEW b \in Bases
             PROVE  Cardinality(WithBase(program', b)) <= counter'[b]
  BY DEF CounterCoversConnects, Bases
<1> USE DEF Sound
<1> DEFINE old == WithBase(program, b)
           now == WithBase(program', b)
<1>1. IsFiniteSet(old) /\ Cardinality(old) \in Nat /\ Cardinality(old) <= counter[b] /\ counter[b] \in Nat
  BY WithBaseFinite DEF FiniteConnects, CounterCoversConnects, TypeOK
<1>2. ASSUME NEW w \in Wires, NEW p \in Props, NEW n \in Nat, Grow(w, p, n)
      PROVE Cardinality(now) <= counter'[b]
  <2> DEFINE run == {ConnectAt(w, p, clock + k - 1) : k \in 1..n}
  <2>1. IsFiniteSet(run) /\ Cardinality(run) \in Nat /\ Cardinality(run) <= n
    <3>1. clock \in Nat
      BY DEF TypeOK
    <3> QED BY <3>1, RunSize, Zenon
  <2>2. \A c \in run : Base(c.src, c.tgt) = Base(w.src, w.tgt)
    BY DEF ConnectAt
  <2>3. CASE b = Base(w.src, w.tgt)
    <3>1. now = old \cup run
      BY <1>2, <2>2, <2>3 DEF Grow, WithBase
    <3>2. Cardinality(now) = Cardinality(old) + Cardinality(run) - Cardinality(old \cap run)
      BY <1>1, <2>1, <3>1, FS_Union
    <3>3. Cardinality(old \cap run) \in Nat
      <4>1. old \cap run \in SUBSET old
        OBVIOUS
      <4> QED BY <1>1, <4>1, FS_Subset, FS_CardinalityType
    <3>4. counter'[b] = counter[b] + n
      BY <1>2, <2>3 DEF Grow, TypeOK
    <3> QED BY <1>1, <2>1, <3>2, <3>3, <3>4
  <2>4. CASE b # Base(w.src, w.tgt)
    <3>1. now = old
      BY <1>2, <2>2, <2>4 DEF Grow, WithBase
    <3>2. counter'[b] = counter[b]
      BY <1>2, <2>4 DEF Grow, TypeOK
    <3> QED BY <1>1, <3>1, <3>2
  <2> QED BY <2>3, <2>4
<1>3. ASSUME Drop PROVE Cardinality(now) <= counter'[b]
  <2>1. now \in SUBSET old
    BY <1>3 DEF Drop, WithBase
  <2>2. Cardinality(now) <= Cardinality(old) /\ Cardinality(now) \in Nat
    BY <1>1, <2>1, FS_Subset, FS_CardinalityType
  <2> QED BY <1>1, <1>3, <2>2 DEF Drop
<1>4. ASSUME NEW c \in program.connects, NEW p \in Props, Rewrite(c, p)
      PROVE Cardinality(now) <= counter'[b]
  <2> DEFINE new == ConnectAt(c, p, c.at)
  <2>1. new.src = c.src /\ new.tgt = c.tgt
    BY DEF ConnectAt
  <2>2. CASE c \in old
    <3>1. now = (old \ {c}) \cup {new}
      BY <1>4, <2>1, <2>2 DEF Rewrite, WithBase
    <3>2. IsFiniteSet(old \ {c}) /\ Cardinality(old \ {c}) = Cardinality(old) - 1
      BY <1>1, <2>2, FS_RemoveElement
    <3>3. /\ IsFiniteSet(now)
          /\ Cardinality(now) <= Cardinality(old)
      <4> DEFINE rest == old \ {c}
      <4>1. now = rest \cup {new}
        BY <3>1
      <4>2. Cardinality(rest) \in Int /\ IsFiniteSet(rest) /\ Cardinality(rest) + 1 = Cardinality(old)
        BY <1>1, <3>2
      <4> HIDE DEF rest, new, now
      <4>3. IsFiniteSet(rest \cup {new})
        BY <4>2, FS_AddElement
      <4>4. Cardinality(rest \cup {new}) = IF new \in rest THEN Cardinality(rest) ELSE Cardinality(rest) + 1
        BY <4>2, FS_AddElement
      <4> QED BY <4>1, <4>2, <4>3, <4>4
    <3>4. Cardinality(now) \in Nat
      BY <3>3, FS_CardinalityType
    <3>5. counter'[b] = counter[b]
      BY <1>4 DEF Rewrite
    <3> QED BY <1>1, <3>3, <3>4, <3>5
  <2>3. CASE c \notin old
    <3>1. now = old
      BY <1>4, <2>1, <2>3 DEF Rewrite, WithBase
    <3> QED BY <1>1, <1>4, <3>1 DEF Rewrite
  <2> QED BY <2>2, <2>3
<1>5. ASSUME FromProgram PROVE Cardinality(now) <= counter'[b]
  BY <1>1, <1>5 DEF FromProgram, Seeded
<1>6. ASSUME Keep \/ UNCHANGED vars PROVE Cardinality(now) <= counter'[b]
  BY <1>1, <1>6 DEF Keep, vars, WithBase
<1> QED BY <1>2, <1>3, <1>4, <1>5, <1>6, ConnectSteps

\* However connects are added, removed, edited and cascaded away, and whatever
\* program the builder started from, the number the next ID gets is above the
\* number of connects that share its text
THEOREM CounterCovers == Spec => []CounterCoversConnects
<1>1. Init => CounterCoversConnects
  <2> SUFFICES ASSUME Init, NEW b \in Bases PROVE Cardinality(WithBase(program, b)) <= counter[b]
    BY DEF CounterCoversConnects
  <2>1. IsFiniteSet(program.connects)
    BY ProgramsWellFormed DEF Init, WellFormed
  <2>2. Cardinality(WithBase(program, b)) \in Nat
    BY <2>1, WithBaseFinite
  <2> QED BY <2>2 DEF Init, Seeded
<1> QED BY <1>1, SoundInvariant, CoversInductive, PTL DEF Spec

-----------------------------------------------------------------------------
(* Rank and the IDs that are reconstructed from it.                        *)

LEMMA RankType ==
  ASSUME Sound, CounterCoversConnects, NEW c \in program.connects
  PROVE  Rank(c) \in 1 .. counter[Base(c.src, c.tgt)]
<1> DEFINE all == WithBase(program, Base(c.src, c.tgt))
           upto == {d \in all : d.at <= c.at}
<1>1. IsFiniteSet(all) /\ Cardinality(all) \in Nat
  BY WithBaseFinite DEF Sound, FiniteConnects
<1>2. upto \in SUBSET all
  OBVIOUS
<1>3. IsFiniteSet(upto) /\ Cardinality(upto) \in Nat /\ Cardinality(upto) <= Cardinality(all)
  BY <1>1, <1>2, FS_Subset, FS_CardinalityType
<1>4. c \in upto
  BY DEF WithBase, Sound, TypeOK, Program
<1>5. Cardinality(upto) # 0
  BY <1>3, <1>4, FS_EmptySet
<1>6. Base(c.src, c.tgt) \in Bases
  BY ConnectsHaveBase DEF Sound, Integrity
<1>7. Cardinality(all) <= counter[Base(c.src, c.tgt)] /\ counter[Base(c.src, c.tgt)] \in Nat
  BY <1>6 DEF CounterCoversConnects, Sound, TypeOK
<1> QED BY <1>1, <1>3, <1>5, <1>7 DEF Rank

\* Of two connects of one base the earlier has the smaller rank
LEMMA RankOrder ==
  ASSUME Sound, NEW c \in program.connects, NEW d \in program.connects,
         Base(c.src, c.tgt) = Base(d.src, d.tgt), c.at < d.at
  PROVE  Rank(c) # Rank(d)
<1> DEFINE all == WithBase(program, Base(c.src, c.tgt))
           C == {x \in all : x.at <= c.at}
           D == {x \in all : x.at <= d.at}
<1>1. \A x \in all : x.at \in Int
  BY DEF WithBase, Sound, TypeOK, Program
<1>2. c.at \in Int /\ d.at \in Int /\ d \in all
  BY DEF WithBase, Sound, TypeOK, Program
<1>3. IsFiniteSet(D)
  <2>1. IsFiniteSet(all) /\ D \in SUBSET all
    BY WithBaseFinite DEF Sound, FiniteConnects
  <2> QED BY <2>1, FS_Subset
<1>4. C \in SUBSET D
  BY <1>1, <1>2
<1>5. d \in D /\ d \notin C
  BY <1>2
<1>6. Cardinality(C) # Cardinality(D)
  BY <1>3, <1>4, <1>5, FS_Subset
<1> QED BY <1>6 DEF Rank

LEMMA EqualTexts ==
  ASSUME UnambiguousIds, NEW a \in Bases, NEW b \in Bases, NEW m \in Nat \ {0}, NEW n \in Nat \ {0},
         IdText(a, m) = IdText(b, n)
  PROVE  a = b /\ m = n
BY DEF UnambiguousIds, Bases

\* With unambiguous texts a base stands for one pair of ports
LEMMA EqualBases ==
  ASSUME UnambiguousIds, Sound, NEW c \in program.connects, NEW d \in program.connects,
         Base(c.src, c.tgt) = Base(d.src, d.tgt)
  PROVE  c.src = d.src /\ c.tgt = d.tgt
<1> DEFINE v == [src |-> c.src, tgt |-> c.tgt]
           w == [src |-> d.src, tgt |-> d.tgt]
<1>1. /\ v \in Wires /\ v.src = c.src /\ v.tgt = c.tgt
      /\ w \in Wires /\ w.src = d.src /\ w.tgt = d.tgt
  BY DEF Sound, Integrity, ConnectsWired
<1>2. IdText(Base(v.src, v.tgt), 1) = IdText(Base(w.src, w.tgt), 1)
  BY <1>1
<1> HIDE DEF v, w
<1>3. v = w
  BY <1>1, <1>2 DEF UnambiguousIds
<1> QED BY <1>1, <1>3

LEMMA AddressOne ==
  ASSUME UnambiguousIds, Sound, CounterCoversConnects PROVE IdsAddressOne
<1> SUFFICES ASSUME NEW c \in program.connects, NEW d \in program.connects,
                    ReconstructedId(c) = ReconstructedId(d)
             PROVE  c = d
  BY DEF IdsAddressOne
<1>1. /\ Base(c.src, c.tgt) \in Bases /\ Base(d.src, d.tgt) \in Bases
      /\ Rank(c) \in Nat \ {0} /\ Rank(d) \in Nat \ {0}
  <2>1. Base(c.src, c.tgt) \in Bases /\ Base(d.src, d.tgt) \in Bases
    BY ConnectsHaveBase DEF Sound, Integrity
  <2>2. counter[Base(c.src, c.tgt)] \in Nat /\ counter[Base(d.src, d.tgt)] \in Nat
    BY <2>1 DEF Sound, TypeOK
  <2>3. Rank(c) \in 1 .. counter[Base(c.src, c.tgt)] /\ Rank(d) \in 1 .. counter[Base(d.src, d.tgt)]
    BY RankType
  <2> QED BY <2>1, <2>2, <2>3
<1>2. Base(c.src, c.tgt) = Base(d.src, d.tgt) /\ Rank(c) = Rank(d)
  BY <1>1, EqualTexts DEF ReconstructedId
<1>3. ~ (c.at < d.at) /\ ~ (d.at < c.at)
  BY <1>2, RankOrder
<1>4. c.at \in Int /\ d.at \in Int
  BY DEF Sound, TypeOK, Program
<1> QED BY <1>3, <1>4 DEF Sound, Integrity, Ordered, OrderedIn

\* Two connects of a builder are never addressed by the same ID, so
\* remove_connect and update_connect_properties act on one connect or none
THEOREM OneConnectPerId == ASSUME UnambiguousIds PROVE Spec => []IdsAddressOne
BY AddressOne, SoundInvariant, CounterCovers, PTL

-----------------------------------------------------------------------------
(* The IDs the client holds.                                               *)

\* A held ID has a number the counter has passed, and its connect is live and
\* of its base; no two held IDs agree in base and number
HeldIds ==
  /\ \A r \in issued :
       /\ r.n \in 1 .. counter[r.base]
       /\ \E c \in program.connects : c.at = r.at /\ Base(c.src, c.tgt) = r.base
  /\ \A r, s \in issued : r.base = s.base /\ r.n = s.n => r = s

LEMMA HeldInductive == Sound /\ HeldIds /\ [Next]_vars => HeldIds'
<1> SUFFICES ASSUME Sound, HeldIds, [Next]_vars PROVE HeldIds'
  OBVIOUS
<1> USE DEF Sound
<1>1. ASSUME NEW w \in Wires, NEW p \in Props, NEW n \in Nat, Grow(w, p, n) PROVE HeldIds'
  <2> DEFINE b == Base(w.src, w.tgt)
             given == {[base |-> b, n |-> counter[b] + k, at |-> clock + k - 1] : k \in 1..n}
  <2>1. b \in Bases /\ counter[b] \in Nat /\ clock \in Nat
    BY DEF Bases, TypeOK
  <2>2. \A a \in Bases : counter[a] \in Nat /\ counter'[a] = IF a = b THEN counter[a] + n ELSE counter[a]
    BY <1>1, <2>1 DEF Grow, TypeOK
  <2>3. ASSUME NEW r \in issued
        PROVE  /\ r.n \in 1 .. counter'[r.base]
               /\ \E c \in program'.connects : c.at = r.at /\ Base(c.src, c.tgt) = r.base
    <3>1. r.base \in Bases
      BY DEF TypeOK
    <3> QED BY <1>1, <2>2, <3>1 DEF Grow, HeldIds
  <2>4. ASSUME NEW r \in given
        PROVE  /\ r.base = b /\ r.n \in counter[b] + 1 .. counter'[b]
               /\ \E c \in program'.connects : c.at = r.at /\ Base(c.src, c.tgt) = r.base
    <3>1. PICK k \in 1..n : r = [base |-> b, n |-> counter[b] + k, at |-> clock + k - 1]
      OBVIOUS
    <3>2. r.base = b /\ r.n \in counter[b] + 1 .. counter'[b]
      BY <2>1, <2>2, <3>1
    <3> DEFINE c == ConnectAt(w, p, clock + k - 1)
    <3>3. c \in program'.connects /\ c.at = r.at /\ Base(c.src, c.tgt) = b
      BY <1>1, <3>1 DEF Grow, ConnectAt
    <3> QED BY <3>2, <3>3
  <2>5. ASSUME NEW r \in issued, NEW s \in given PROVE ~ (r.base = s.base /\ r.n = s.n)
    BY <2>1, <2>4 DEF HeldIds
  <2>6. ASSUME NEW r \in given, NEW s \in given, r.n = s.n PROVE r = s
    BY <2>1, <2>6
  <2>7. CASE issued' = issued
    BY <2>3, <2>7 DEF HeldIds
  <2>8. CASE issued' = issued \cup given
    <3>1. \A r \in issued' : /\ r.n \in 1 .. counter'[r.base]
                             /\ \E c \in program'.connects : c.at = r.at /\ Base(c.src, c.tgt) = r.base
      <4> SUFFICES ASSUME NEW r \in issued'
                   PROVE  /\ r.n \in 1 .. counter'[r.base]
                          /\ \E c \in program'.connects : c.at = r.at /\ Base(c.src, c.tgt) = r.base
        OBVIOUS
      <4>1. CASE r \in issued
        BY <2>3, <4>1
      <4>2. CASE r \in given
        <5> HIDE DEF given
        <5>1. r.base = b /\ r.n \in counter[b] + 1 .. counter'[b]
          BY <2>4, <4>2
        <5>2. r.n \in 1 .. counter'[r.base]
          BY <2>1, <2>2, <5>1
        <5> QED BY <2>4, <4>2, <5>2
      <4> QED BY <2>8, <4>1, <4>2
    <3>2. \A r, s \in issued' : r.base = s.base /\ r.n = s.n => r = s
      BY <2>5, <2>6, <2>8 DEF HeldIds
    <3> QED BY <3>1, <3>2 DEF HeldIds
  <2> QED BY <1>1, <2>7, <2>8 DEF Grow
<1>2. ASSUME Drop PROVE HeldIds'
  <2>1. issued' \subseteq issued
    BY <1>2 DEF Drop, IssuedFor
  <2>2. ASSUME NEW r \in issued'
        PROVE \E c \in program'.connects : c.at = r.at /\ Base(c.src, c.tgt) = r.base
    <3>1. PICK c \in program'.connects : c.at = r.at
      BY <1>2, <2>2 DEF Drop, IssuedFor
    <3>2. PICK d \in program.connects : d.at = r.at /\ Base(d.src, d.tgt) = r.base
      BY <2>1 DEF HeldIds
    <3>3. c = d
      BY <1>2, <3>1, <3>2 DEF Drop, Integrity, Ordered, OrderedIn
    <3> QED BY <3>1, <3>2, <3>3
  <2> QED BY <1>2, <2>1, <2>2 DEF Drop, HeldIds
<1>3. ASSUME NEW c \in program.connects, NEW p \in Props, Rewrite(c, p) PROVE HeldIds'
  <2> DEFINE new == ConnectAt(c, p, c.at)
  <2>1. new \in program'.connects /\ new.at = c.at /\ new.src = c.src /\ new.tgt = c.tgt
    BY <1>3 DEF Rewrite, ConnectAt
  <2>2. \A d \in program.connects : d = c \/ d \in program'.connects
    BY <1>3 DEF Rewrite
  <2>3. counter' = counter /\ issued' = issued
    BY <1>3 DEF Rewrite
  <2> HIDE DEF new
  <2> QED BY <2>1, <2>2, <2>3 DEF HeldIds
<1>4. ASSUME FromProgram PROVE HeldIds'
  BY <1>4 DEF FromProgram, HeldIds
<1>5. ASSUME Keep \/ UNCHANGED vars PROVE HeldIds'
  BY <1>5 DEF Keep, vars, HeldIds
<1> QED BY <1>1, <1>2, <1>3, <1>4, <1>5, ConnectSteps

LEMMA HeldInvariant == Spec => []HeldIds
<1>1. Init => HeldIds
  BY DEF Init, HeldIds
<1> QED BY <1>1, SoundInvariant, HeldInductive, PTL DEF Spec

LEMMA HeldType ==
  ASSUME Sound, HeldIds, NEW r \in issued PROVE r.base \in Bases /\ r.n \in Nat \ {0}
BY DEF Sound, TypeOK, HeldIds

\* No ID is given out a second time while the connect it was given out for lives
THEOREM IdsIssuedOnce == ASSUME UnambiguousIds PROVE Spec => []IssuedOnce
<1>1. Sound /\ HeldIds => IssuedOnce
  <2> SUFFICES ASSUME Sound, HeldIds, NEW r \in issued, NEW s \in issued, IssuedId(r) = IssuedId(s)
               PROVE  r = s
    BY DEF IssuedOnce
  <2>1. r.base = s.base /\ r.n = s.n
    BY HeldType, EqualTexts DEF IssuedId
  <2> QED BY <2>1 DEF HeldIds
<1> QED BY <1>1, SoundInvariant, HeldInvariant, PTL

\* An ID that went stale through a removal can address another connect, but
\* only one of the same two ports
THEOREM IdsStayOnPair == ASSUME UnambiguousIds PROVE Spec => []HeldIdsStayOnPair
<1>1. Sound /\ CounterCoversConnects /\ HeldIds => HeldIdsStayOnPair
  <2> SUFFICES ASSUME Sound, CounterCoversConnects, HeldIds,
                      NEW r \in issued, NEW c \in program.connects, NEW d \in program.connects,
                      c.at = r.at, ReconstructedId(d) = IssuedId(r)
               PROVE  c.src = d.src /\ c.tgt = d.tgt
    BY DEF HeldIdsStayOnPair, Addressed
  <2>1. Base(d.src, d.tgt) \in Bases /\ counter[Base(d.src, d.tgt)] \in Nat
    BY ConnectsHaveBase DEF Sound, Integrity, TypeOK
  <2>2. Rank(d) \in Nat \ {0}
    BY <2>1, RankType
  <2>3. Base(d.src, d.tgt) = r.base
    BY <2>1, <2>2, HeldType, EqualTexts DEF IssuedId, ReconstructedId
  <2>4. PICK e \in program.connects : e.at = r.at /\ Base(e.src, e.tgt) = r.base
    BY DEF HeldIds
  <2>5. e = c
    BY <2>4 DEF Sound, Integrity, Ordered, OrderedIn
  <2> QED BY <2>3, <2>4, <2>5, EqualBases
<1> QED BY <1>1, SoundInvariant, CounterCovers, HeldInvariant, PTL

\* The ID a call returns addresses none of the connects that were there before it
THEOREM ReturnedIdsFresh == ASSUME UnambiguousIds PROVE Spec => FreshId
<1> DEFINE A == \A r \in issued' \ issued : \A c \in program.connects : ReconstructedId(c) # IssuedId(r)
<1>1. Sound /\ CounterCoversConnects /\ [Next]_vars => [A]_vars
  <2> SUFFICES ASSUME Sound, CounterCoversConnects, Next, NEW r \in issued' \ issued,
                      NEW c \in program.connects, ReconstructedId(c) = IssuedId(r)
               PROVE  FALSE
    OBVIOUS
  <2>1. PICK w \in Wires, p \in Props, n \in Nat : Grow(w, p, n)
    BY ConnectSteps DEF Sound, Drop, IssuedFor, Rewrite, Keep, FromProgram
  <2> DEFINE b == Base(w.src, w.tgt)
  <2>2. b \in Bases /\ counter[b] \in Nat
    BY DEF Bases, Sound, TypeOK
  <2>3. r.base = b /\ r.n \in counter[b] + 1 .. counter[b] + n
    BY <2>1, <2>2 DEF Grow
  <2>4. Base(c.src, c.tgt) \in Bases /\ Rank(c) \in 1 .. counter[Base(c.src, c.tgt)]
    BY ConnectsHaveBase, RankType DEF Sound, Integrity
  <2>5. counter[Base(c.src, c.tgt)] \in Nat
    BY <2>4 DEF Sound, TypeOK
  <2>6. Base(c.src, c.tgt) = b /\ Rank(c) = r.n
    <3>1. r.base \in Bases /\ r.n \in Nat \ {0} /\ Rank(c) \in Nat \ {0}
      BY <2>2, <2>3, <2>4, <2>5
    <3> QED BY <2>3, <2>4, <3>1, EqualTexts DEF ReconstructedId, IssuedId
  <2> QED BY <2>2, <2>3, <2>4, <2>6
<1> QED BY <1>1, SoundInvariant, CounterCovers, PTL DEF Spec, FreshId
=============================================================================
