---------------------------- MODULE PatchBuilder ----------------------------
(***************************************************************************)
(* PatchProgramBuilder as its clients drive it: every sequence of the      *)
(* operations of BuilderStructure and BuilderAnnotations, on a program     *)
(* that is empty or was parsed from text, and what must come of it.        *)
(*                                                                         *)
(* All operations take &mut self, so one operation is one step.            *)
(***************************************************************************)
EXTENDS BuilderAnnotations

\* new() and from_program(): no library, the counter seeded from the program
Init ==
  /\ program \in Programs
  /\ library = {}
  /\ counter = Seeded(program)
  /\ clock = Preloaded
  /\ issued = {}

\* from_program() on the program of this builder: the program moves to a new
\* builder, the library and the IDs handed out do not
FromProgram ==
  /\ library' = {}
  /\ counter' = Seeded(program)
  /\ issued' = {}
  /\ UNCHANGED <<program, clock>>

Next == StructureNext \/ AnnotationsNext \/ FromProgram

Spec == Init /\ [][Next]_vars

-----------------------------------------------------------------------------
(* What is assumed of the programs a builder is created from: the parser   *)
(* and the structural checks accept them.  Nothing is assumed of the       *)
(* targets of signals, streams, rings and bridge groups, nor of templates. *)

AttachedIn(p, e) == e.inst = Unqualified \/ \E d \in p.instances : d.name = e.inst

UniqueNames(p) ==
  /\ \A d, e \in p.instances : d.name = e.name => d = e
  /\ \A x, y \in p.rings : x.name = y.name => x = y
  /\ \A x, y \in p.signals : x.name = y.name => x = y
  /\ \A x, y \in p.streams : x.name = y.name => x = y

ConnectsAttachedIn(p) ==
  \A c \in p.connects : \A e \in {c.src, c.tgt} : \E d \in p.instances : d.name = e.inst

BridgesAttachedIn(p) == \A b \in p.bridges : AttachedIn(p, b.src) /\ AttachedIn(p, b.tgt)

ConfigsAttachedIn(p) == \A c \in p.configs : \E d \in p.instances : d.name = c.name

\* Positions tell the statements of one kind apart and are below n
OrderedIn(p, n) ==
  /\ \A c \in p.connects \cup p.templates \cup p.configs : c.at \in 0 .. n - 1
  /\ \A c, d \in p.connects : c.at = d.at => c = d
  /\ \A c, d \in p.templates : c.at = d.at => c = d
  /\ \A c, d \in p.configs : c.at = d.at => c = d

WellFormed(p) ==
  /\ p \in Program
  /\ IsFiniteSet(p.connects)
  /\ \A c \in p.connects : [src |-> c.src, tgt |-> c.tgt] \in Wires
  /\ UniqueNames(p)
  /\ ConnectsAttachedIn(p)
  /\ BridgesAttachedIn(p)
  /\ ConfigsAttachedIn(p)
  /\ OrderedIn(p, Preloaded)

ASSUME ProgramsWellFormed == \A p \in Programs : WellFormed(p)

ASSUME Inputs ==
  /\ Unqualified \notin Inst /\ NoRef \notin Inst /\ NoPort \notin Port
  /\ SlotIndex \subseteq Nat
  /\ Decl \subseteq TemplateDecl
  /\ InstDecl \subseteq InstanceDecl
  /\ Libraries \subseteq SUBSET Decl
  /\ \A l \in Libraries : \A d, e \in l : d.name = e.name => d = e
  /\ Wires \subseteq Wire
  /\ Links \subseteq Wire
  /\ Groups \subseteq [tgt : Endpoint, srcs : SUBSET Endpoint]
  /\ Preloaded \in Nat /\ MaxClock \in Nat /\ MaxRun \in Nat

\* No two wires and suffixes spell the same ID text.  The code does not see to
\* this: ports `in' and `in_2' of one instance break it.
UnambiguousIds ==
  \A v, w \in Wires, m, n \in Nat \ {0} :
     IdText(Base(v.src, v.tgt), m) = IdText(Base(w.src, w.tgt), n) => v = w /\ m = n

-----------------------------------------------------------------------------
(* Properties.                                                             *)

\* Every variable keeps the shape its Rust field has, and every connect is one
\* of the pairs asked for
TypeOK ==
  /\ program \in Program
  /\ library \in SUBSET Decl
  /\ counter \in [Bases -> Nat]
  /\ clock \in Nat
  /\ issued \in SUBSET [base : Bases, n : Nat, at : Nat]

\* Whatever was added and removed, in whatever order, a connect never names an
\* instance that is gone, nor a bridge, nor a config block: eager validation on
\* the way in and the cascade of remove_instance on the way out fit together
NothingDangles ==
  /\ ConnectsAttachedIn(program)
  /\ BridgesAttachedIn(program)
  /\ ConfigsAttachedIn(program)

\* add_instance, signals, streams and rings keep names unique, whatever slot,
\* cascade or member operation rewrote the statements in between
NamesStayUnique == UniqueNames(program)

\* The counter is never behind the connects of its base text, so the number
\* add_connect appends is above the rank of every connect it could be taken for
CounterCoversConnects ==
  \A b \in Bases : Cardinality(WithBase(program, b)) <= counter[b]

\* Two connects of the program are never addressed by the same ID
IdsAddressOne ==
  \A c, d \in program.connects : ReconstructedId(c) = ReconstructedId(d) => c = d

\* add_connect never hands out the ID of a connect whose caller still holds it
IssuedOnce == \A r, s \in issued : IssuedId(r) = IssuedId(s) => r = s

\* An ID add_connect returns does not already address another connect
FreshId ==
  [][\A r \in issued' \ issued : \A c \in program.connects : ReconstructedId(c) # IssuedId(r)]_vars

\* Removing a template never leaves an instance without one: if a step takes
\* declarations away and adds none, every instance that had a template has one
RemovalKeepsTemplates ==
  [][(program'.templates \subseteq program.templates /\ library' = library)
       => \A d \in program.instances :
            (HasTemplate(d.tmpl) /\ d \in program'.instances) => HasTemplate(d.tmpl)']_vars

\* No statement of p refers to instance i
Unreferenced(p, i) ==
  /\ \A w \in p.connects \cup p.bridges : ~ Touches(w, i)
  /\ \A g \in p.bridgeGroups : ~ GroupTouches(g, i)
  /\ \A c \in p.configs : c.name # i
  /\ \A s \in p.signals : s.origin # i
  /\ \A s \in p.streams : s.source # i
  /\ \A r \in p.rings : i \notin r.members

\* When an instance goes, nothing that refers to it stays, and no statement that
\* does not refer to it goes with it; the signals, streams and rings all stay
CascadeExact ==
  [][\A i \in Inst :
       (InstancesNamed(i) # {} /\ ~ \E d \in program'.instances : d.name = i) =>
         /\ Unreferenced(program', i)
         /\ \A w \in program.connects : Touches(w, i) \/ w \in program'.connects
         /\ \A w \in program.bridges : Touches(w, i) \/ w \in program'.bridges
         /\ \A g \in program.bridgeGroups : GroupTouches(g, i) \/ g \in program'.bridgeGroups
         /\ \A c \in program.configs : c.name = i \/ c \in program'.configs
         /\ \A r \in program.rings : [r EXCEPT !.members = @ \ {i}] \in program'.rings
         /\ \A s \in program.signals : \E u \in program'.signals :
              u.name = s.name /\ (s.origin # i => u = s)
         /\ \A s \in program.streams : \E u \in program'.streams :
              u.name = s.name /\ (s.source # i => u = s)]_vars

\* A stale ID is at worst off by one of several connects of the same two ports:
\* whatever an ID the client holds addresses is wired as the connect it was
\* returned for
HeldIdsStayOnPair ==
  \A r \in issued : \A c, d \in program.connects :
     (c.at = r.at /\ d \in Addressed(IssuedId(r))) => c.src = d.src /\ c.tgt = d.tgt

-----------------------------------------------------------------------------
(* Two claims of the documentation the code does not keep.                 *)

\* docs/compiler.md:683: connect IDs are "Deterministic and stable across
\* edits": an ID that was returned still addresses the connect it was returned for
IdsStable ==
  \A r \in issued : \A c \in program.connects :
     c.at = r.at => First(Addressed(IssuedId(r))) = {c}

=============================================================================
