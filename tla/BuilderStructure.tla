-------------------------- MODULE BuilderStructure --------------------------
(***************************************************************************)
(* The operations of PatchProgramBuilder on templates, instances, slots    *)
(* and connects (builder/templates.rs, instances.rs, connections.rs).      *)
(*                                                                         *)
(* An operation that returns an error leaves the builder as it was, so     *)
(* only its successful case is an action; the one exception is             *)
(* add_connect_mapped, which can fail after it has added some connects.    *)
(***************************************************************************)
EXTENDS BuilderProgram

\* Room for n more statements (bound of the model)
Room(n) == clock + n <= MaxClock

-----------------------------------------------------------------------------
(* Templates.                                                              *)

AddTemplate(d) ==
  /\ Room(1)
  /\ LocalNamed(d.name) = {}
  /\ program' = [program EXCEPT !.templates = @ \cup {[at |-> clock, decl |-> d]}]
  /\ clock' = clock + 1
  /\ UNCHANGED <<library, counter, issued>>

\* A library template cannot be removed, nor one an instance is declared with
RemoveTemplate(t) ==
  /\ LocalNamed(t) # {}
  /\ InstancesUsing(t) = {}
  /\ program' = [program EXCEPT !.templates = @ \ LocalNamed(t)]
  /\ UNCHANGED <<library, counter, clock, issued>>

\* The first declaration of that name is replaced where it stands; the new
\* declaration may have another name
UpdateTemplate(t, d) ==
  /\ \E old \in First(LocalNamed(t)) :
       program' = [program EXCEPT !.templates = (@ \ {old}) \cup {[at |-> old.at, decl |-> d]}]
  /\ UNCHANGED <<library, counter, clock, issued>>

SetLibrary(l) ==
  /\ library' = l
  /\ UNCHANGED <<program, counter, clock, issued>>

-----------------------------------------------------------------------------
(* Instances and their slots.                                              *)

AddInstance(d) ==
  /\ ~ HasInstance(d.name)
  /\ HasTemplate(d.tmpl)
  /\ program' = [program EXCEPT !.instances = @ \cup {d}]
  /\ UNCHANGED <<library, counter, clock, issued>>

\* Mutant: only the target end is looked at
TouchesTarget(w, i) == w.tgt.inst = i

Touches(w, i) == w.src.inst = i \/ w.tgt.inst = i

GroupTouches(g, i) == g.tgt.inst = i \/ \E s \in g.srcs : s.inst = i

\* Mutant: rings keep a member that is gone
WithoutInstanceInRings(p, i) ==
  [p EXCEPT
     !.connects     = {c \in @ : ~ Touches(c, i)},
     !.bridges      = {b \in @ : ~ Touches(b, i)},
     !.bridgeGroups = {g \in @ : ~ GroupTouches(g, i)},
     !.configs      = {c \in @ : c.name # i},
     !.signals      = {[s EXCEPT !.origin = IF @ = i THEN NoRef ELSE @] : s \in @},
     !.streams      = {[s EXCEPT !.source = IF @ = i THEN NoRef ELSE @] : s \in @},
     !.instances    = {d \in @ : d.name # i}]

\* The instance goes, with every statement and every reference that names it
WithoutInstance(p, i) ==
  [p EXCEPT
     !.connects     = {c \in @ : ~ Touches(c, i)},
     !.bridges      = {b \in @ : ~ Touches(b, i)},
     !.bridgeGroups = {g \in @ : ~ GroupTouches(g, i)},
     !.configs      = {c \in @ : c.name # i},
     !.signals      = {[s EXCEPT !.origin = IF @ = i THEN NoRef ELSE @] : s \in @},
     !.streams      = {[s EXCEPT !.source = IF @ = i THEN NoRef ELSE @] : s \in @},
     !.rings        = {[r EXCEPT !.members = @ \ {i}] : r \in @},
     !.instances    = {d \in @ : d.name # i}]

RemoveInstance(i) ==
  /\ HasInstance(i)
  /\ program' = WithoutInstance(program, i)
  /\ issued' = IssuedFor(program')
  /\ UNCHANGED <<library, counter, clock>>

ReplaceCards(i, cards) ==
  LET d == GetInstance(i)
      new == [name |-> d.name, tmpl |-> d.tmpl, cards |-> cards]
  IN  program' = [program EXCEPT !.instances = (@ \ {d}) \cup {new}]

OtherPositions(i, s, k) ==
  {a \in GetInstance(i).cards : ~ (a.slot = s /\ a.index = k)}

SetSlot(i, s, k, card) ==
  /\ HasTemplate(card)
  /\ HasInstance(i)
  /\ HasTemplate(GetInstance(i).tmpl)
  /\ s \in GetTemplate(GetInstance(i).tmpl).slots
  /\ ReplaceCards(i, OtherPositions(i, s, k) \cup {[slot |-> s, index |-> k, card |-> card]})
  /\ UNCHANGED <<library, counter, clock, issued>>

\* Nothing that was connected to a port of the card is touched
RemoveSlot(i, s, k) ==
  /\ HasInstance(i)
  /\ ReplaceCards(i, OtherPositions(i, s, k))
  /\ UNCHANGED <<library, counter, clock, issued>>

-----------------------------------------------------------------------------
(* Connects.                                                               *)

ConnectAt(w, props, at) == [at |-> at, src |-> w.src, tgt |-> w.tgt, props |-> props]

\* Mutant: the number is taken before the counter is raised
PushConnectsLate(w, props, n, returned) ==
  LET b == Base(w.src, w.tgt)
  IN  /\ Room(n)
      /\ program' = [program EXCEPT
           !.connects = @ \cup {ConnectAt(w, props, clock + k - 1) : k \in 1..n}]
      /\ counter' = [counter EXCEPT ![b] = @ + n]
      /\ clock' = clock + n
      /\ issued' = IF returned
                   THEN issued \cup {[base |-> b, n |-> counter[b] + k - 1, at |-> clock + k - 1] : k \in 1..n}
                   ELSE issued
      /\ UNCHANGED library

\* n connects of one pair of ports appended in one call, `returned' telling
\* whether the caller gets their IDs
PushConnects(w, props, n, returned) ==
  LET b == Base(w.src, w.tgt)
  IN  /\ Room(n)
      /\ program' = [program EXCEPT
           !.connects = @ \cup {ConnectAt(w, props, clock + k - 1) : k \in 1..n}]
      /\ counter' = [counter EXCEPT ![b] = @ + n]
      /\ clock' = clock + n
      /\ issued' = IF returned
                   THEN issued \cup {[base |-> b, n |-> counter[b] + k, at |-> clock + k - 1] : k \in 1..n}
                   ELSE issued
      /\ UNCHANGED library

Wired(w) == HasInstance(w.src.inst) /\ HasInstance(w.tgt.inst)

AddConnect(w, props) ==
  /\ Wired(w)
  /\ MayConnect(w)
  /\ PushConnects(w, props, 1, TRUE)

\* One connect per contiguous run of source channels.  Each run validates
\* again: a refusal keeps the connects of the runs before it and drops their IDs
AddConnectMapped(w, props, runs) ==
  /\ Wired(w)
  /\ MayConnect(w)
  /\ \/ PushConnects(w, props, runs, TRUE)
     \/ /\ MayRefuse(w)
        /\ \E done \in 1 .. runs - 1 : PushConnects(w, props, done, FALSE)

RemoveConnect(id) ==
  /\ \E c \in First(Addressed(id)) : program' = [program EXCEPT !.connects = @ \ {c}]
  /\ issued' = IssuedFor(program')
  /\ UNCHANGED <<library, counter, clock>>

UpdateConnectProperties(id, props) ==
  /\ \E c \in First(Addressed(id)) :
       program' = [program EXCEPT !.connects = (@ \ {c}) \cup {ConnectAt(c, props, c.at)}]
  /\ UNCHANGED <<library, counter, clock, issued>>

-----------------------------------------------------------------------------

StructureNext ==
  \/ \E d \in Decl : AddTemplate(d)
  \/ \E t \in Tmpl : RemoveTemplate(t)
  \/ \E t \in Tmpl, d \in Decl : UpdateTemplate(t, d)
  \/ \E l \in Libraries : SetLibrary(l)
  \/ \E d \in InstDecl : AddInstance(d)
  \/ \E i \in Inst : RemoveInstance(i)
  \/ \E i \in Inst, s \in Slot, k \in SlotIndex, t \in Tmpl : SetSlot(i, s, k, t)
  \/ \E i \in Inst, s \in Slot, k \in SlotIndex : RemoveSlot(i, s, k)
  \/ \E w \in Wires, p \in Props : AddConnect(w, p)
  \/ \E w \in Wires, p \in Props, n \in 2..MaxRun : AddConnectMapped(w, p, n)
  \/ \E c \in program.connects : RemoveConnect(ReconstructedId(c))
  \/ \E c \in program.connects, p \in Props : UpdateConnectProperties(ReconstructedId(c), p)
=============================================================================
