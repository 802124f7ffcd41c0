--------------------------- MODULE BuilderProgram ---------------------------
(***************************************************************************)
(* The state of a PatchProgramBuilder and the views its operations take of *)
(* it.  A builder wraps one program (a list of statements), the templates  *)
(* imported from library files and, per connect-ID base text, the number   *)
(* of IDs it has handed out (builder/mod.rs).                              *)
(*                                                                         *)
(* The statement list is kept as one set per kind of statement.  Where the *)
(* code depends on the position of a statement among those of its kind,    *)
(* the record carries `at', the value `clock' had when it was appended: a  *)
(* smaller `at' comes first.  Port and label texts, spans, suppressions    *)
(* and the channel index of a connect are payload the operations below     *)
(* never look at.                                                          *)
(***************************************************************************)
EXTENDS Integers, FiniteSets, Sequences, TLC

CONSTANTS
  Inst,       \* instance names
  Tmpl,       \* template names (devices and cards)
  Port,       \* port names
  Slot,       \* slot names
  SlotIndex,  \* slot indices; 0 stands for "no index", which sorts as 0
  Decl,       \* template declarations the client may pass
  InstDecl,   \* instance declarations the client may pass
  Libraries,  \* library contexts the client may set
  Wires,      \* (source, target) pairs the client asks to connect
  Props,      \* property lists of a connect
  Links,      \* (source, target) pairs the client asks to bridge
  Groups,     \* bridge groups the client adds
  Signal,     \* signal names
  Stream,     \* stream names
  Flag,       \* flag names
  Ring,       \* ring names
  Channel,    \* channel numbers of a config label
  Programs,   \* programs the builder may be created from
  Preloaded,  \* statement positions those programs use: 0 .. Preloaded - 1
  MaxClock,   \* bound: statements ever appended
  MaxRun      \* bound: contiguous source runs of one add_connect_mapped

Unqualified == "_"     \* a PortRef without an instance
NoRef == "none"        \* a signal without origin, a stream without source
NoPort == "noport"     \* a template does not declare the port

Direction == {"in", "out", "io"}
Endpoint == [inst : Inst \cup {Unqualified}, port : Port]
Wire == [src : Endpoint, tgt : Endpoint]
SlotAssignment == [slot : Slot, index : SlotIndex, card : Tmpl]

Label == Port \X Channel   \* what addresses a label inside a config block

\* rf is the XLR port set_rf_labels picks from rf_subtype and direction, if any
TemplateDecl ==
  [name : Tmpl, dir : [Port -> Direction \cup {NoPort}], slots : SUBSET Slot, rf : Port \cup {NoPort}]
InstanceDecl == [name : Inst, tmpl : Tmpl, cards : SUBSET SlotAssignment]

Program ==
  [templates    : SUBSET [at : Int, decl : Decl],
   instances    : SUBSET InstanceDecl,
   connects     : SUBSET [at : Int, src : Endpoint, tgt : Endpoint, props : Props],
   bridges      : SUBSET [src : Endpoint, tgt : Endpoint, auto : BOOLEAN],
   bridgeGroups : SUBSET [tgt : Endpoint, srcs : SUBSET Endpoint],
   configs      : SUBSET [at : Int, name : Inst, labels : SUBSET Label],
   signals      : SUBSET [name : Signal, origin : Inst \cup {NoRef}],
   streams      : SUBSET [name : Stream, source : Inst \cup {NoRef}],
   rings        : SUBSET [name : Ring, members : SUBSET Inst],
   flags        : SUBSET Flag]

EmptyProgram ==
  [templates |-> {}, instances |-> {}, connects |-> {}, bridges |-> {},
   bridgeGroups |-> {}, configs |-> {}, signals |-> {}, streams |-> {},
   rings |-> {}, flags |-> {}]

\* The first of a set of statements in statement order: one element, or none
First(S) == {x \in S : \A y \in S : x.at <= y.at}

VARIABLES
  program,   \* self.program
  library,   \* self.library: a set of declarations, one per name
  counter,   \* self.connect_id_counter: base text -> IDs handed out
  clock,     \* the position the next appended statement takes
  issued     \* history: for each live connect the client was given an ID of,
             \* the position of the connect and the base and number of the ID

vars == <<program, library, counter, clock, issued>>

-----------------------------------------------------------------------------
(* Templates as the builder and as the DRC context see them.               *)

LocalNamed(t) == {d \in program.templates : d.decl.name = t}
LibraryNamed(t) == {d \in library : d.name = t}

\* require_template: declared in the program or imported
HasTemplate(t) == LocalNamed(t) # {} \/ LibraryNamed(t) # {}

\* get_template: the first local declaration wins, then the library
GetTemplate(t) ==
  IF LocalNamed(t) # {}
  THEN (CHOOSE d \in First(LocalNamed(t)) : TRUE).decl
  ELSE CHOOSE d \in LibraryNamed(t) : TRUE

\* template_map of build_context: the last local declaration wins, then the library
CtxTemplate(t) ==
  IF LocalNamed(t) # {}
  THEN (CHOOSE d \in LocalNamed(t) : \A e \in LocalNamed(t) : d.at >= e.at).decl
  ELSE CHOOSE d \in LibraryNamed(t) : TRUE

PortOf(t, p) == IF HasTemplate(t) THEN CtxTemplate(t).dir[p] ELSE NoPort

-----------------------------------------------------------------------------
(* Instances.                                                              *)

InstancesNamed(i) == {d \in program.instances : d.name = i}

\* require_instance
HasInstance(i) == InstancesNamed(i) # {}

\* instance_map of build_context; names are unique, so the first is the only one
GetInstance(i) == CHOOSE d \in program.instances : d.name = i

InstancesUsing(t) == {d \in program.instances : d.tmpl = t}

-----------------------------------------------------------------------------
(* The effective ports of an instance: its template's ports, then the      *)
(* ports of the cards in its slots.  Cards of one slot name contribute in  *)
(* index order.  Which slot name wins a port two of them declare depends   *)
(* on the iteration order of a HashMap, so it is any of them.              *)

CardsWith(d, s, p) == {a \in d.cards : a.slot = s /\ PortOf(a.card, p) # NoPort}

SlotPort(d, s, p) ==
  LET first == CHOOSE a \in CardsWith(d, s, p) :
                 \A b \in CardsWith(d, s, p) : a.index <= b.index
  IN  PortOf(first.card, p)

\* The directions resolve_effective_port may find; {} when there is no such port
EffectiveDirs(i, p) ==
  LET d == GetInstance(i)
  IN  IF PortOf(d.tmpl, p) # NoPort
      THEN {PortOf(d.tmpl, p)}
      ELSE {SlotPort(d, s, p) : s \in {u \in Slot : CardsWith(d, u, p) # {}}}

HasPort(e) == HasInstance(e.inst) /\ EffectiveDirs(e.inst, e.port) # {}

\* check_direction
Compatible(sd, td) == sd = "io" \/ td = "io" \/ sd # td

MayConnect(w) ==
  \E sd \in EffectiveDirs(w.src.inst, w.src.port), td \in EffectiveDirs(w.tgt.inst, w.tgt.port) :
     Compatible(sd, td)

\* With two readings of the port map, a later call may be refused
MayRefuse(w) ==
  \E sd \in EffectiveDirs(w.src.inst, w.src.port), td \in EffectiveDirs(w.tgt.inst, w.tgt.port) :
     ~ Compatible(sd, td)

-----------------------------------------------------------------------------
(* Connect IDs: the text of the four names, with a suffix from the second  *)
(* on.  The suffix an existing connect is addressed by is its rank among   *)
(* the connects of its base that are in the program now.                   *)

\* Mutant: an ID text that only names the ports
PortBase(src, tgt) == "connect_" \o src.port \o "_" \o tgt.port

Base(src, tgt) ==
  "connect_" \o src.inst \o "_" \o src.port \o "_" \o tgt.inst \o "_" \o tgt.port

Bases == {Base(w.src, w.tgt) : w \in Wires}

\* Mutant: parallel connects share one text
PlainText(base, n) == base

IdText(base, n) == IF n = 1 THEN base ELSE base \o "_" \o ToString(n)

WithBase(p, b) == {c \in p.connects : Base(c.src, c.tgt) = b}

Rank(c) == Cardinality({d \in WithBase(program, Base(c.src, c.tgt)) : d.at <= c.at})

ReconstructedId(c) == IdText(Base(c.src, c.tgt), Rank(c))

\* The connects an ID stands for; remove_connect and update_connect_properties
\* act on the first
Addressed(id) == {c \in program.connects : ReconstructedId(c) = id}

\* Mutant: from_program starts counting anew
Unseeded(p) == [b \in Bases |-> 0]

\* The counter from_program seeds
Seeded(p) == [b \in Bases |-> Cardinality(WithBase(p, b))]

IssuedId(r) == IdText(r.base, r.n)

\* The history of the connects that are still in p
IssuedFor(p) == {r \in issued : \E c \in p.connects : c.at = r.at}
=============================================================================
