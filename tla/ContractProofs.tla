--------------------------- MODULE ContractProofs ---------------------------
(***************************************************************************)
(* The contraction of every program under every assignment: what is on the *)
(* boundary of a group is exactly what crosses it, under names of its own, *)
(* and no cable that was rewired loses the port it was given.  Then the    *)
(* graph of the flat program: every cable, bridge and bridge group whose   *)
(* text is its own is drawn.  Last, what a finished contraction has in its *)
(* lists and which ports and channels the graph compiler expands from      *)
(* them, which ContractedGraphProofs builds on.                            *)
(***************************************************************************)
EXTENDS ContractedGraph, SequenceTheorems, FiniteSetTheorems, WellFoundedInduction, TLAPS

-----------------------------------------------------------------------------
(* One reference put on the boundary.                                      *)

\* The ports on the boundary are a function to records of five fields
Entry(e) ==
  /\ e = [name |-> e.name, dir |-> e.dir, whole |-> e.whole, channels |-> e.channels, end |-> e.end]
  /\ e.whole \in BOOLEAN

Form(ports) ==
  /\ ports = [k \in DOMAIN ports |-> ports[k]]
  /\ \A k \in DOMAIN ports : Entry(ports[k])

\* BoundaryExact for any table of ports and any set of references
Exact(ports, refs) ==
  /\ DOMAIN ports = {Key(r) : r \in refs}
  /\ \A k \in DOMAIN ports :
       /\ ports[k].whole <=> \E r \in refs : Key(r) = k /\ ~r.indexed
       /\ ports[k].channels = UNION {ElementsOf(r.index) : r \in {r \in refs : Key(r) = k}}

\* NamesApart for any table of ports
Apart(ports) ==
  \A j, k \in DOMAIN ports : j # k /\ group_of[j[1]] = group_of[k[1]] => ports[j].name # ports[k].name

\* A name no other port of the group has
Free(ports, ref, name) ==
  IF Key(ref) \in DOMAIN ports THEN name = ports[Key(ref)].name
  ELSE \A k \in DOMAIN ports : group_of[k[1]] = group_of[ref.inst] => ports[k].name # name

\* The part of an entry that later references keep
Kept(old, new) ==
  \A k \in DOMAIN old :
    /\ k \in DOMAIN new
    /\ new[k].name = old[k].name /\ new[k].end = old[k].end
    /\ old[k].channels \subseteq new[k].channels

\* Noting a reference puts its port on the boundary and takes none off
LEMMA NotedDomain ==
  ASSUME NEW ports, NEW ref, NEW name, NEW dir
  PROVE  DOMAIN Noted(ports, ref, name, dir) = DOMAIN ports \cup {Key(ref)}
BY DEF Noted

\* The other ports stay as they were
LEMMA NotedElsewhere ==
  ASSUME NEW ports, NEW ref, NEW name, NEW dir, NEW k \in DOMAIN ports, k # Key(ref)
  PROVE  Noted(ports, ref, name, dir)[k] = ports[k]
BY DEF Noted

\* The entry of a port that was on the boundary, and of one that was not
Widened(entry, ref) ==
  [name |-> entry.name, dir |-> entry.dir, whole |-> (entry.whole \/ ~ref.indexed),
   channels |-> entry.channels \cup ElementsOf(ref.index), end |-> entry.end]

Opening(ref, name, dir) ==
  [name |-> name, dir |-> dir, whole |-> ~ref.indexed, channels |-> ElementsOf(ref.index), end |-> PortEnd(ref)]

\* A port that is there already keeps its name, end and direction
LEMMA NotedAgain ==
  ASSUME NEW ports, NEW ref, NEW name, NEW dir, Form(ports), Key(ref) \in DOMAIN ports
  PROVE  Noted(ports, ref, name, dir)[Key(ref)] = Widened(ports[Key(ref)], ref)
<1> DEFINE entry == ports[Key(ref)]
           wide == entry.whole \/ ~ref.indexed
           more == entry.channels \cup ElementsOf(ref.index)
<1>1. Entry(entry)
  BY DEF Form
<1>2. Noted(ports, ref, name, dir)[Key(ref)] =
        [entry EXCEPT !.whole = @ \/ ~ref.indexed, !.channels = @ \cup ElementsOf(ref.index)]
  BY DEF Noted
<1>3. Noted(ports, ref, name, dir)[Key(ref)] = [entry EXCEPT !.whole = wide, !.channels = more]
  BY <1>2, Zenon
<1>4. Noted(ports, ref, name, dir)[Key(ref)] =
        [name |-> entry.name, dir |-> entry.dir, whole |-> wide, channels |-> more, end |-> entry.end]
  <2> HIDE DEF entry, wide, more
  <2> QED BY <1>1, <1>3 DEF Entry
<1> QED BY <1>4, Zenon DEF Widened

\* A new port has the name, the direction and the channels it was noted with
LEMMA NotedFirst ==
  ASSUME NEW ports, NEW ref, NEW name, NEW dir, Key(ref) \notin DOMAIN ports
  PROVE  Noted(ports, ref, name, dir)[Key(ref)] = Opening(ref, name, dir)
BY DEF Noted, Opening

\* What noting changes in the entry of a port that is there
LEMMA WidenedFields ==
  ASSUME NEW entry, NEW ref, ref.indexed \in BOOLEAN, Entry(entry)
  PROVE  /\ Entry(Widened(entry, ref))
         /\ Widened(entry, ref).name = entry.name /\ Widened(entry, ref).end = entry.end
         /\ Widened(entry, ref).channels = entry.channels \cup ElementsOf(ref.index)
         /\ Widened(entry, ref).whole <=> entry.whole \/ ~ref.indexed
<1> DEFINE wide == entry.whole \/ ~ref.indexed
           e == [name |-> entry.name, dir |-> entry.dir, whole |-> wide,
                 channels |-> entry.channels \cup ElementsOf(ref.index), end |-> entry.end]
<1>1. wide \in BOOLEAN
  OBVIOUS
<1>2. /\ Entry(e) /\ e.name = entry.name /\ e.end = entry.end
      /\ e.channels = entry.channels \cup ElementsOf(ref.index) /\ e.whole = wide
  <2> HIDE DEF wide
  <2> QED BY <1>1 DEF Entry
<1> QED BY <1>2, Zenon DEF Widened

\* What noting writes into the entry of a new port
LEMMA OpeningFields ==
  ASSUME NEW ref, NEW name, NEW dir, ref.indexed \in BOOLEAN
  PROVE  /\ Entry(Opening(ref, name, dir))
         /\ Opening(ref, name, dir).name = name
         /\ Opening(ref, name, dir).channels = ElementsOf(ref.index)
         /\ Opening(ref, name, dir).whole <=> ~ref.indexed
<1> DEFINE wide == ~ref.indexed
           e == [name |-> name, dir |-> dir, whole |-> wide, channels |-> ElementsOf(ref.index), end |-> PortEnd(ref)]
<1>1. wide \in BOOLEAN
  OBVIOUS
<1>2. Entry(e) /\ e.name = name /\ e.channels = ElementsOf(ref.index) /\ e.whole = wide
  <2> HIDE DEF wide
  <2> QED BY <1>1 DEF Entry
<1> QED BY <1>2, Zenon DEF Opening

\* The table stays a table
LEMMA NotedForm ==
  ASSUME NEW ports, NEW ref, NEW name, NEW dir, Form(ports), ref.indexed \in BOOLEAN
  PROVE  Form(Noted(ports, ref, name, dir))
<1> DEFINE new == Noted(ports, ref, name, dir)
<1>1. DOMAIN new = DOMAIN ports \cup {Key(ref)}
  BY NotedDomain
<1>2. ASSUME NEW k \in DOMAIN ports, k # Key(ref) PROVE Entry(new[k])
  <2>1. Entry(ports[k])
    BY DEF Form
  <2>2. new[k] = ports[k]
    BY <1>2, NotedElsewhere
  <2> HIDE DEF new
  <2> QED BY <2>1, <2>2
<1>3. Entry(new[Key(ref)])
  <2>1. CASE Key(ref) \in DOMAIN ports
    <3>1. Entry(ports[Key(ref)])
      BY <2>1 DEF Form
    <3>2. new[Key(ref)] = Widened(ports[Key(ref)], ref)
      BY <2>1, NotedAgain
    <3> HIDE DEF new
    <3> QED BY <3>1, <3>2, WidenedFields
  <2>2. CASE Key(ref) \notin DOMAIN ports
    <3>1. new[Key(ref)] = Opening(ref, name, dir)
      BY <2>2, NotedFirst
    <3> HIDE DEF new
    <3> QED BY <3>1, OpeningFields
  <2> QED BY <2>1, <2>2
<1>4. new = [k \in DOMAIN new |-> new[k]]
  BY DEF Noted
<1> HIDE DEF new
<1>5. Form(new)
  BY <1>1, <1>2, <1>3, <1>4 DEF Form
<1> QED BY <1>5 DEF new

\* What the entry of the reference says after the step, whether it was there or not
LEMMA NotedEntry ==
  ASSUME NEW ports, NEW ref, NEW name, NEW dir, NEW k, Form(ports), ref.indexed \in BOOLEAN, k = Key(ref)
  PROVE  /\ k \in DOMAIN ports =>
              /\ Noted(ports, ref, name, dir)[k].name = ports[k].name
              /\ Noted(ports, ref, name, dir)[k].end = ports[k].end
              /\ Noted(ports, ref, name, dir)[k].channels = ports[k].channels \cup ElementsOf(ref.index)
              /\ Noted(ports, ref, name, dir)[k].whole <=> ports[k].whole \/ ~ref.indexed
         /\ k \notin DOMAIN ports =>
              /\ Noted(ports, ref, name, dir)[k].name = name
              /\ Noted(ports, ref, name, dir)[k].channels = ElementsOf(ref.index)
              /\ Noted(ports, ref, name, dir)[k].whole <=> ~ref.indexed
<1> DEFINE e == Noted(ports, ref, name, dir)[k]
<1>1. CASE k \in DOMAIN ports
  <2>1. Entry(ports[k])
    BY <1>1 DEF Form
  <2>2. e = Widened(ports[k], ref)
    BY <1>1, NotedAgain
  <2> HIDE DEF e
  <2>3. /\ e.name = ports[k].name /\ e.end = ports[k].end
        /\ e.channels = ports[k].channels \cup ElementsOf(ref.index)
        /\ e.whole <=> ports[k].whole \/ ~ref.indexed
    BY <2>1, <2>2, WidenedFields
  <2> QED BY <1>1, <2>3, Zenon DEF e
<1>2. CASE k \notin DOMAIN ports
  <2>1. e = Opening(ref, name, dir)
    BY <1>2, NotedFirst
  <2> HIDE DEF e
  <2>2. /\ e.name = name /\ e.channels = ElementsOf(ref.index)
        /\ e.whole <=> ~ref.indexed
    BY <2>1, OpeningFields
  <2> QED BY <1>2, <2>2, Zenon DEF e
<1> QED BY <1>1, <1>2

\* Names, widths and channels stay
LEMMA NotedKept ==
  ASSUME NEW ports, NEW ref, NEW name, NEW dir, Form(ports), ref.indexed \in BOOLEAN
  PROVE  Kept(ports, Noted(ports, ref, name, dir))
<1> DEFINE new == Noted(ports, ref, name, dir)
<1>1. DOMAIN new = DOMAIN ports \cup {Key(ref)} /\ \A k \in DOMAIN ports \ {Key(ref)} : new[k] = ports[k]
  <2>1. DOMAIN new = DOMAIN ports \cup {Key(ref)}
    BY NotedDomain
  <2>2. ASSUME NEW k \in DOMAIN ports \ {Key(ref)} PROVE new[k] = ports[k]
    BY NotedElsewhere
  <2> QED BY <2>1, <2>2
<1>2. Key(ref) \in DOMAIN ports =>
        /\ new[Key(ref)].name = ports[Key(ref)].name /\ new[Key(ref)].end = ports[Key(ref)].end
        /\ new[Key(ref)].channels = ports[Key(ref)].channels \cup ElementsOf(ref.index)
  BY NotedEntry
<1> HIDE DEF new
<1>3. Kept(ports, new)
  BY <1>1, <1>2 DEF Kept
<1> QED BY <1>3 DEF new

\* A free name keeps the names of a group's ports apart
LEMMA NotedApart ==
  ASSUME NEW ports, NEW ref, NEW name, NEW dir, Form(ports), ref.indexed \in BOOLEAN,
         Apart(ports), Free(ports, ref, name)
  PROVE  Apart(Noted(ports, ref, name, dir))
<1> DEFINE new == Noted(ports, ref, name, dir)
<1>1. DOMAIN new = DOMAIN ports \cup {Key(ref)} /\ \A k \in DOMAIN ports \ {Key(ref)} : new[k] = ports[k]
  <2>1. DOMAIN new = DOMAIN ports \cup {Key(ref)}
    BY NotedDomain
  <2>2. ASSUME NEW k \in DOMAIN ports \ {Key(ref)} PROVE new[k] = ports[k]
    BY NotedElsewhere
  <2> QED BY <2>1, <2>2
<1>2. new[Key(ref)].name = name
  BY NotedEntry DEF Free
<1>3. \A k \in DOMAIN ports : new[k].name = ports[k].name
  BY NotedKept DEF Kept
<1>4. Key(ref)[1] = ref.inst
  BY DEF Key
<1> HIDE DEF new
<1>5. \A j, k \in DOMAIN ports : j # k /\ group_of[j[1]] = group_of[k[1]] => ports[j].name # ports[k].name
  BY Zenon DEF Apart
<1>6. ASSUME NEW k \in DOMAIN ports, Key(ref) \notin DOMAIN ports, group_of[k[1]] = group_of[ref.inst]
      PROVE  new[k].name # new[Key(ref)].name
  BY <1>2, <1>3, <1>6 DEF Free
<1>7. Apart(new)
  <2>1. SUFFICES ASSUME NEW j \in DOMAIN new, NEW k \in DOMAIN new, j # k, group_of[j[1]] = group_of[k[1]]
                 PROVE  new[j].name # new[k].name
    BY Zenon DEF Apart
  <2>2. CASE j \in DOMAIN ports /\ k \in DOMAIN ports
    BY <1>3, <1>5, <2>1, <2>2
  <2>3. CASE j \notin DOMAIN ports
    <3>1. j = Key(ref) /\ k \in DOMAIN ports
      BY <1>1, <2>1, <2>3
    <3> QED BY <1>4, <1>6, <2>1, <2>3, <3>1
  <2>4. CASE k \notin DOMAIN ports
    <3>1. k = Key(ref) /\ j \in DOMAIN ports
      BY <1>1, <2>1, <2>4
    <3> QED BY <1>4, <1>6, <2>1, <2>4, <3>1
  <2> QED BY <2>2, <2>3, <2>4
<1> QED BY <1>7 DEF new

\* The boundary is the one of all references so far and this one
LEMMA NotedExact ==
  ASSUME NEW ports, NEW ref, NEW name, NEW dir, NEW refs, Form(ports), ref.indexed \in BOOLEAN,
         Exact(ports, refs)
  PROVE  Exact(Noted(ports, ref, name, dir), refs \cup {ref})
<1> DEFINE new == Noted(ports, ref, name, dir)
           all == refs \cup {ref}
           named(rs, k) == UNION {ElementsOf(r.index) : r \in {r \in rs : Key(r) = k}}
<1>1. DOMAIN new = DOMAIN ports \cup {Key(ref)} /\ \A k \in DOMAIN ports \ {Key(ref)} : new[k] = ports[k]
  <2>1. DOMAIN new = DOMAIN ports \cup {Key(ref)}
    BY NotedDomain
  <2>2. ASSUME NEW k \in DOMAIN ports \ {Key(ref)} PROVE new[k] = ports[k]
    BY NotedElsewhere
  <2> QED BY <2>1, <2>2
<1>2. DOMAIN new = {Key(r) : r \in all}
  BY <1>1 DEF Exact
<1>3. ASSUME NEW k \in DOMAIN new, k # Key(ref)
      PROVE  /\ new[k].whole <=> \E r \in all : Key(r) = k /\ ~r.indexed
             /\ new[k].channels = named(all, k)
  <2>1. k \in DOMAIN ports /\ new[k] = ports[k]
    BY <1>1, <1>3
  <2>2. {r \in all : Key(r) = k} = {r \in refs : Key(r) = k}
    BY <1>3
  <2>3. /\ ports[k].whole <=> \E r \in refs : Key(r) = k /\ ~r.indexed
        /\ ports[k].channels = named(refs, k)
    BY <2>1 DEF Exact
  <2> HIDE DEF new
  <2> QED BY <2>1, <2>2, <2>3, <1>3, Zenon
<1>4. /\ new[Key(ref)].whole <=> \E r \in all : Key(r) = Key(ref) /\ ~r.indexed
      /\ new[Key(ref)].channels = named(all, Key(ref))
  <2>1. CASE Key(ref) \in DOMAIN ports
    <3>1. /\ new[Key(ref)].channels = ports[Key(ref)].channels \cup ElementsOf(ref.index)
          /\ new[Key(ref)].whole <=> ports[Key(ref)].whole \/ ~ref.indexed
      BY <2>1, NotedEntry
    <3>2. /\ ports[Key(ref)].whole <=> \E r \in refs : Key(r) = Key(ref) /\ ~r.indexed
          /\ ports[Key(ref)].channels = named(refs, Key(ref))
      BY <2>1, Zenon DEF Exact
    <3>3. named(all, Key(ref)) = named(refs, Key(ref)) \cup ElementsOf(ref.index)
      OBVIOUS
    <3> HIDE DEF new, named
    <3> QED BY <3>1, <3>2, <3>3, Zenon
  <2>2. CASE Key(ref) \notin DOMAIN ports
    <3>1. /\ new[Key(ref)].channels = ElementsOf(ref.index)
          /\ new[Key(ref)].whole <=> ~ref.indexed
      BY <2>2, NotedEntry
    <3>2. \A r \in refs : Key(r) # Key(ref)
      BY <2>2, Zenon DEF Exact
    <3>3. named(all, Key(ref)) = ElementsOf(ref.index)
      BY <3>2
    <3> HIDE DEF new, named
    <3> QED BY <3>1, <3>2, <3>3, Zenon
  <2> QED BY <2>1, <2>2
<1> HIDE DEF new
<1>5. Exact(new, all)
  BY <1>2, <1>3, <1>4, Zenon DEF Exact
<1> QED BY <1>5 DEF new
-----------------------------------------------------------------------------
(* The references read so far, with what they depend on as arguments.      *)

Inside(g, c) ==
  c.source.inst \in DOMAIN g /\ c.target.inst \in DOMAIN g /\ g[c.source.inst] = g[c.target.inst]

CutAt(f, g, i) ==
  {r \in {f.connects[i].source, f.connects[i].target} : r.inst \in DOMAIN g /\ ~Inside(g, f.connects[i])}

OriginAt(f, g, i) == {r \in {f.signals[i].origin} : r.inst \in DOMAIN g}

RefsOf(f, g, m, n) == (UNION {CutAt(f, g, i) : i \in 1..m}) \cup (UNION {OriginAt(f, g, i) : i \in 1..n})

\* Reading one more connect adds its references that cross
LEMMA RefsOfConnect ==
  ASSUME NEW f, NEW g, NEW m \in Nat
  PROVE  RefsOf(f, g, m + 1, 0) = RefsOf(f, g, m, 0) \cup CutAt(f, g, m + 1)
<1>1. 1..(m + 1) = 1..m \cup {m + 1}
  OBVIOUS
<1>2. UNION {CutAt(f, g, i) : i \in 1..(m + 1)} = (UNION {CutAt(f, g, i) : i \in 1..m}) \cup CutAt(f, g, m + 1)
  BY <1>1, Zenon
<1> QED BY <1>2, Zenon DEF RefsOf

\* Reading one more signal adds its origin when its device is in a group
LEMMA RefsOfSignal ==
  ASSUME NEW f, NEW g, NEW m, NEW n \in Nat
  PROVE  RefsOf(f, g, m, n + 1) = RefsOf(f, g, m, n) \cup OriginAt(f, g, n + 1)
<1>1. 1..(n + 1) = 1..n \cup {n + 1}
  OBVIOUS
<1>2. UNION {OriginAt(f, g, i) : i \in 1..(n + 1)} = (UNION {OriginAt(f, g, i) : i \in 1..n}) \cup OriginAt(f, g, n + 1)
  BY <1>1, Zenon
<1> QED BY <1>2, Zenon DEF RefsOf

\* The references read so far are those of the connects and signals read so far
LEMMA NotedRefsAre == NotedRefs = RefsOf(flat, group_of, ConnectsRead, SignalsRead)
<1>1. (UNION {{r \in {flat.connects[i].source, flat.connects[i].target} : Grouped(r) /\ ~SameGroup(flat.connects[i])}
               : i \in 1..ConnectsRead}) = UNION {CutAt(flat, group_of, i) : i \in 1..ConnectsRead}
  BY DEF CutAt, Inside, Grouped, SameGroup
<1>2. {r \in {flat.signals[i].origin : i \in 1..SignalsRead} : Grouped(r)}
        = UNION {OriginAt(flat, group_of, i) : i \in 1..SignalsRead}
  BY DEF OriginAt, Grouped
<1> QED BY <1>1, <1>2, Zenon DEF NotedRefs, RefsOf

-----------------------------------------------------------------------------
(* The inductive invariant.                                                *)

\* The arguments stay, and the position stays within the list that is read
Reading ==
  /\ \E x \in Inputs : flat = x[1] /\ assignment = x[2]
  /\ phase = "group" => at = 1
  /\ phase = "signals" => at <= Len(flat.signals) + 1

Exposure ==
  /\ Form(exposed)
  /\ Apart(exposed)
  /\ Exact(exposed, RefsOf(flat, group_of, ConnectsRead, SignalsRead))

IInv == TypeOK /\ Reading /\ Exposure

\* What the inductive invariant is for
LEMMA InvariantImplies == IInv => NamesApart /\ BoundaryExact
<1> SUFFICES ASSUME IInv PROVE NamesApart /\ BoundaryExact
  OBVIOUS
<1>1. NamesApart
  BY DEF IInv, Exposure, NamesApart, Apart
<1>2. Exact(exposed, NotedRefs)
  BY NotedRefsAre, Zenon DEF IInv, Exposure
<1>3. BoundaryExact
  BY <1>2, Zenon DEF Exact, BoundaryExact
<1> QED BY <1>1, <1>3

\* The lists of a program are sequences
LEMMA ListsTyped ==
  ASSUME Reading
  PROVE  /\ Len(flat.connects) \in Nat /\ Len(flat.signals) \in Nat
         /\ \A i \in 1..Len(flat.connects) :
              flat.connects[i].source.indexed \in BOOLEAN /\ flat.connects[i].target.indexed \in BOOLEAN
         /\ \A i \in 1..Len(flat.signals) : flat.signals[i].origin.indexed \in BOOLEAN
<1>1. PICK x \in Inputs : flat = x[1]
  BY DEF Reading
<1>2. flat.connects \in Seq(ElementsOf(flat.connects)) /\ flat.signals \in Seq(ElementsOf(flat.signals))
  BY <1>1, InputsTyped
<1>3. /\ \A i \in 1..Len(flat.connects) : flat.connects[i] \in ElementsOf(flat.connects)
      /\ \A i \in 1..Len(flat.signals) : flat.signals[i] \in ElementsOf(flat.signals)
  BY <1>2 DEF ElementsOf
<1>4. /\ \A c \in ElementsOf(flat.connects) : c.source.indexed \in BOOLEAN /\ c.target.indexed \in BOOLEAN
      /\ \A s \in ElementsOf(flat.signals) : s.origin.indexed \in BOOLEAN
  BY <1>1, InputsTyped
<1>5. Len(flat.connects) \in Nat /\ Len(flat.signals) \in Nat
  BY <1>2
<1> QED BY <1>3, <1>4, <1>5, Zenon
-----------------------------------------------------------------------------
(* One reference is put on the boundary in a state of the invariant.       *)

\* note_exposure finds a name that no port of the group has
LEMMA FreeName ==
  ASSUME NEW ref, NEW name \in ExposedNames(ref) PROVE Free(exposed, ref, name)
<1> DEFINE base == ref.inst \o ref.port
           used == UsedNames(group_of[ref.inst])
           numbered(k) == base \o <<Numeral[k]>>
<1>1. CASE Key(ref) \in DOMAIN exposed
  <2>1. ExposedNames(ref) = {exposed[Key(ref)].name}
    BY <1>1 DEF ExposedNames
  <2> QED BY <1>1, <2>1 DEF Free
<1>2. CASE Key(ref) \notin DOMAIN exposed
  <2>1. name \notin used
    <3>1. CASE base \notin used
      <4>1. ExposedNames(ref) = {base}
        BY <1>2, <3>1 DEF ExposedNames
      <4> HIDE DEF base, used
      <4> QED BY <3>1, <4>1
    <3>2. CASE base \in used
      <4>1. ExposedNames(ref) = {numbered(k) : k \in {k \in 2..(Modulus - 1) :
                                   numbered(k) \notin used /\ \A j \in 2..(k - 1) : numbered(j) \in used}}
        BY <1>2, <3>2 DEF ExposedNames
      <4> HIDE DEF numbered, used
      <4> QED BY <4>1
    <3> QED BY <3>1, <3>2
  <2>2. \A k \in DOMAIN exposed : group_of[k[1]] = group_of[ref.inst] => exposed[k].name \in used
    BY DEF UsedNames
  <2> HIDE DEF used
  <2> QED BY <1>2, <2>1, <2>2 DEF Free
<1> QED BY <1>1, <1>2

\* Noting one reference under a free name keeps the table exact and its names apart
LEMMA NoteOne ==
  ASSUME NEW ports, NEW refs, NEW ref, NEW name, NEW dir,
         Form(ports), Apart(ports), Exact(ports, refs),
         \A k \in DOMAIN ports : k[1] \in DOMAIN group_of,
         Grouped(ref), ref.indexed \in BOOLEAN, Free(ports, ref, name)
  PROVE  /\ Form(Noted(ports, ref, name, dir))
         /\ Apart(Noted(ports, ref, name, dir))
         /\ Exact(Noted(ports, ref, name, dir), refs \cup {ref})
         /\ \A k \in DOMAIN Noted(ports, ref, name, dir) : k[1] \in DOMAIN group_of
         /\ Kept(ports, Noted(ports, ref, name, dir))
<1>1. Form(Noted(ports, ref, name, dir))
  BY NotedForm
<1>2. Apart(Noted(ports, ref, name, dir))
  BY NotedApart
<1>3. Exact(Noted(ports, ref, name, dir), refs \cup {ref})
  BY NotedExact
<1>4. \A k \in DOMAIN Noted(ports, ref, name, dir) : k[1] \in DOMAIN group_of
  <2>1. DOMAIN Noted(ports, ref, name, dir) = DOMAIN ports \cup {Key(ref)}
    BY NotedDomain
  <2>2. Key(ref)[1] \in DOMAIN group_of
    BY DEF Key, Grouped
  <2> QED BY <2>1, <2>2
<1>5. Kept(ports, Noted(ports, ref, name, dir))
  BY NotedKept
<1> QED BY <1>1, <1>2, <1>3, <1>4, <1>5, Zenon

\* The name of the second end stays free when the first has been noted: they are in two groups
LEMMA FreeAfter ==
  ASSUME NEW s, NEW t, NEW sName, NEW tName, NEW dir,
         Form(exposed), s.indexed \in BOOLEAN, group_of[s.inst] # group_of[t.inst],
         Free(exposed, t, tName)
  PROVE  Free(Noted(exposed, s, sName, dir), t, tName)
<1> DEFINE new == Noted(exposed, s, sName, dir)
<1>1. DOMAIN new = DOMAIN exposed \cup {Key(s)}
  BY NotedDomain
<1>2. \A k \in DOMAIN exposed : new[k].name = exposed[k].name
  BY NotedKept DEF Kept
<1>3. Key(s)[1] = s.inst /\ Key(t)[1] = t.inst
  BY DEF Key
<1>4. Key(s) # Key(t)
  BY <1>3
<1> HIDE DEF new
<1>5. CASE Key(t) \in DOMAIN exposed
  BY <1>1, <1>2, <1>5 DEF Free, new
<1>6. CASE Key(t) \notin DOMAIN exposed
  <2>1. Key(t) \notin DOMAIN new
    BY <1>1, <1>4, <1>6
  <2>2. ASSUME NEW k \in DOMAIN new, group_of[k[1]] = group_of[t.inst] PROVE new[k].name # tName
    <3>1. k \in DOMAIN exposed
      BY <1>1, <1>3, <2>2
    <3> QED BY <1>2, <1>6, <2>2, <3>1 DEF Free
  <2>3. Free(new, t, tName)
    BY <2>1, <2>2 DEF Free
  <2> QED BY <2>3 DEF new
<1> QED BY <1>5, <1>6
-----------------------------------------------------------------------------
(* What each kind of step has to leave behind.                             *)

Read == RefsOf(flat, group_of, ConnectsRead, SignalsRead)

\* The part of the invariant that a connect leaves to its action: the table it makes
LEMMA ConnectStep ==
  ASSUME IInv, Classifying, at' = at + 1, UNCHANGED <<flat, assignment, phase, group_of, grouped>>,
         Form(exposed'), Apart(exposed'), Exact(exposed', Read \cup CutAt(flat, group_of, at)),
         \A k \in DOMAIN exposed' : k[1] \in DOMAIN group_of
  PROVE  IInv'
<1>1. TypeOK /\ Reading /\ phase = "connects" /\ at <= Len(flat.connects) /\ at \in Nat \ {0}
  BY DEF IInv, Classifying, TypeOK
<1>2. Len(flat.connects) \in Nat
  BY <1>1, ListsTyped
<1>3. TypeOK'
  BY <1>1, <1>2 DEF TypeOK, InstanceNames
<1>4. Reading'
  BY <1>1 DEF Reading
<1>5. (Apart(exposed))'
  BY DEF Apart
<1>6. (Form(exposed))'
  BY DEF Form
<1>7. ConnectsRead' = at /\ SignalsRead' = 0 /\ ConnectsRead = at - 1 /\ SignalsRead = 0
  BY <1>1 DEF ConnectsRead, SignalsRead
<1>8. RefsOf(flat, group_of, at, 0) = RefsOf(flat, group_of, at - 1, 0) \cup CutAt(flat, group_of, at)
  <2>1. at - 1 \in Nat /\ (at - 1) + 1 = at
    BY <1>1
  <2> QED BY <2>1, RefsOfConnect
<1>9. Exact(exposed', RefsOf(flat', group_of', ConnectsRead', SignalsRead'))
  BY <1>7, <1>8 DEF Read
<1>10. Exposure'
  BY <1>5, <1>6, <1>9 DEF Exposure, Exact
<1> QED BY <1>3, <1>4, <1>10 DEF IInv

\* The same for a signal
LEMMA SignalStep ==
  ASSUME IInv, Tracing, at' = at + 1, UNCHANGED <<flat, assignment, phase, group_of, grouped>>,
         Form(exposed'), Apart(exposed'), Exact(exposed', Read \cup OriginAt(flat, group_of, at)),
         \A k \in DOMAIN exposed' : k[1] \in DOMAIN group_of
  PROVE  IInv'
<1>1. TypeOK /\ Reading /\ phase = "signals" /\ at <= Len(flat.signals) /\ at \in Nat \ {0}
  BY DEF IInv, Tracing, TypeOK
<1>2. Len(flat.signals) \in Nat
  BY <1>1, ListsTyped
<1>3. TypeOK'
  BY <1>1, <1>2 DEF TypeOK, InstanceNames
<1>4. Reading'
  BY <1>1, <1>2 DEF Reading
<1>5. (Apart(exposed))'
  BY DEF Apart
<1>6. (Form(exposed))'
  BY DEF Form
<1>7. /\ ConnectsRead' = Len(flat.connects) /\ SignalsRead' = at
      /\ ConnectsRead = Len(flat.connects) /\ SignalsRead = at - 1
  BY <1>1 DEF ConnectsRead, SignalsRead
<1>8. RefsOf(flat, group_of, Len(flat.connects), at) =
        RefsOf(flat, group_of, Len(flat.connects), at - 1) \cup OriginAt(flat, group_of, at)
  <2>1. at - 1 \in Nat /\ (at - 1) + 1 = at
    BY <1>1
  <2> QED BY <2>1, RefsOfSignal
<1>9. Exact(exposed', RefsOf(flat', group_of', ConnectsRead', SignalsRead'))
  BY <1>7, <1>8 DEF Read
<1>10. Exposure'
  BY <1>5, <1>6, <1>9 DEF Exposure, Exact
<1> QED BY <1>3, <1>4, <1>10 DEF IInv
-----------------------------------------------------------------------------
(* The actions.                                                            *)

\* The connect being read is one of the program's
LEMMA CurrentTyped ==
  ASSUME IInv, Classifying
  PROVE  Current.source.indexed \in BOOLEAN /\ Current.target.indexed \in BOOLEAN
<1>1. Len(flat.connects) \in Nat /\ at \in 1..Len(flat.connects)
  BY ListsTyped DEF IInv, TypeOK, Classifying
<1> QED BY <1>1, ListsTyped DEF IInv, Current

\* A cut connect puts those of its ends on the boundary that are in a group
LEMMA CutEndsAt ==
  ASSUME Classifying
  PROVE  CutAt(flat, group_of, at) =
           {r \in {Current.source, Current.target} : Grouped(r) /\ ~SameGroup(Current)}
BY DEF CutAt, Inside, Grouped, SameGroup, Current

\* What holds of the table before a step
LEMMA BoundaryNow ==
  ASSUME IInv
  PROVE  /\ Form(exposed) /\ Apart(exposed) /\ Exact(exposed, Read)
         /\ \A k \in DOMAIN exposed : k[1] \in DOMAIN group_of
<1>1. Form(exposed) /\ Apart(exposed) /\ Exact(exposed, Read)
  BY Zenon DEF IInv, Exposure, Read
<1>2. \A k \in DOMAIN exposed : k[1] \in DOMAIN group_of
  BY DEF IInv, TypeOK
<1> QED BY <1>1, <1>2, Zenon

\* A step that leaves the boundary alone
LEMMA SameBoundary ==
  ASSUME exposed' = exposed
  PROVE  /\ Form(exposed) => Form(exposed') /\ Kept(exposed, exposed')
         /\ Apart(exposed) => Apart(exposed')
BY DEF Apart, Kept

\* A connect within one group is kept there
LEMMA KeepInsideStep == ASSUME IInv, KeepInside PROVE IInv' /\ Kept(exposed, exposed')
<1>1. CutAt(flat, group_of, at) = {}
  BY CutEndsAt DEF KeepInside
<1>2. Exact(exposed', Read \cup CutAt(flat, group_of, at))
  <2>1. Read \cup {} = Read
    OBVIOUS
  <2> QED BY <1>1, <2>1, BoundaryNow DEF KeepInside
<1>3. Form(exposed') /\ Apart(exposed') /\ \A k \in DOMAIN exposed' : k[1] \in DOMAIN group_of
  BY BoundaryNow, SameBoundary DEF KeepInside
<1>4. IInv'
  BY <1>2, <1>3, ConnectStep DEF KeepInside
<1> QED BY <1>4, BoundaryNow, SameBoundary DEF KeepInside

\* A connect between two instances of the top is left there
LEMMA LeaveOnTopStep == ASSUME IInv, LeaveOnTop PROVE IInv' /\ Kept(exposed, exposed')
<1>1. CutAt(flat, group_of, at) = {}
  BY CutEndsAt DEF LeaveOnTop
<1>2. Exact(exposed', Read \cup CutAt(flat, group_of, at))
  <2>1. Read \cup {} = Read
    OBVIOUS
  <2> QED BY <1>1, <2>1, BoundaryNow DEF LeaveOnTop
<1>3. Form(exposed') /\ Apart(exposed') /\ \A k \in DOMAIN exposed' : k[1] \in DOMAIN group_of
  BY BoundaryNow, SameBoundary DEF LeaveOnTop
<1>4. IInv'
  BY <1>2, <1>3, ConnectStep DEF LeaveOnTop
<1> QED BY <1>4, BoundaryNow, SameBoundary DEF LeaveOnTop

\* A connect that leaves a group
LEMMA RewireSourceStep == ASSUME IInv, RewireSource PROVE IInv' /\ Kept(exposed, exposed')
<1>1. PICK s \in ExposedNames(Current.source) :
        exposed' = Noted(exposed, Current.source, s, PortDir(Current.source, "out"))
  BY DEF RewireSource
<1>2. CutAt(flat, group_of, at) = {Current.source}
  BY CutEndsAt DEF RewireSource
<1>3. Free(exposed, Current.source, s)
  BY FreeName
<1>4. Current.source.indexed \in BOOLEAN /\ Grouped(Current.source)
  BY CurrentTyped DEF RewireSource
<1>5. /\ Form(exposed') /\ Apart(exposed') /\ Exact(exposed', Read \cup {Current.source})
      /\ \A k \in DOMAIN exposed' : k[1] \in DOMAIN group_of
      /\ Kept(exposed, exposed')
  BY <1>1, <1>3, <1>4, BoundaryNow, NoteOne
<1>6. IInv'
  BY <1>2, <1>5, ConnectStep DEF RewireSource
<1> QED BY <1>5, <1>6

\* A connect that enters a group
LEMMA RewireTargetStep == ASSUME IInv, RewireTarget PROVE IInv' /\ Kept(exposed, exposed')
<1>1. PICK t \in ExposedNames(Current.target) :
        exposed' = Noted(exposed, Current.target, t, PortDir(Current.target, "in"))
  BY DEF RewireTarget
<1>2. CutAt(flat, group_of, at) = {Current.target}
  BY CutEndsAt DEF RewireTarget
<1>3. Free(exposed, Current.target, t)
  BY FreeName
<1>4. Current.target.indexed \in BOOLEAN /\ Grouped(Current.target)
  BY CurrentTyped DEF RewireTarget
<1>5. /\ Form(exposed') /\ Apart(exposed') /\ Exact(exposed', Read \cup {Current.target})
      /\ \A k \in DOMAIN exposed' : k[1] \in DOMAIN group_of
      /\ Kept(exposed, exposed')
  BY <1>1, <1>3, <1>4, BoundaryNow, NoteOne
<1>6. IInv'
  BY <1>2, <1>5, ConnectStep DEF RewireTarget
<1> QED BY <1>5, <1>6

\* A connect from one group into another
LEMMA RewireBothStep == ASSUME IInv, RewireBoth PROVE IInv' /\ Kept(exposed, exposed')
<1> DEFINE sDir == PortDir(Current.source, "out")
           tDir == PortDir(Current.target, "in")
<1>1. PICK s \in ExposedNames(Current.source), t \in ExposedNames(Current.target) :
        exposed' = Noted(Noted(exposed, Current.source, s, sDir), Current.target, t, tDir)
  BY DEF RewireBoth
<1> HIDE DEF sDir, tDir
<1> DEFINE between == Noted(exposed, Current.source, s, sDir)
<1>2. CutAt(flat, group_of, at) = {Current.source, Current.target}
  BY CutEndsAt DEF RewireBoth
<1>3. Free(exposed, Current.source, s) /\ Free(exposed, Current.target, t)
  BY FreeName
<1>4. /\ Current.source.indexed \in BOOLEAN /\ Grouped(Current.source)
      /\ Current.target.indexed \in BOOLEAN /\ Grouped(Current.target)
  BY CurrentTyped DEF RewireBoth
<1>5. group_of[Current.source.inst] # group_of[Current.target.inst]
  BY DEF RewireBoth, SameGroup
<1>6. /\ Form(between) /\ Apart(between) /\ Exact(between, Read \cup {Current.source})
      /\ \A k \in DOMAIN between : k[1] \in DOMAIN group_of
      /\ Kept(exposed, between)
  BY <1>3, <1>4, BoundaryNow, NoteOne
<1>7. Free(between, Current.target, t)
  BY <1>3, <1>4, <1>5, BoundaryNow, FreeAfter
<1>8. exposed' = Noted(between, Current.target, t, tDir)
  BY <1>1
<1> HIDE DEF between
<1>9. /\ Form(exposed') /\ Apart(exposed')
      /\ Exact(exposed', (Read \cup {Current.source}) \cup {Current.target})
      /\ \A k \in DOMAIN exposed' : k[1] \in DOMAIN group_of
      /\ Kept(between, exposed')
  BY <1>4, <1>6, <1>7, <1>8, NoteOne
<1>10. (Read \cup {Current.source}) \cup {Current.target} = Read \cup CutAt(flat, group_of, at)
  BY <1>2
<1>11. IInv'
  BY <1>9, <1>10, ConnectStep DEF RewireBoth
<1>12. Kept(exposed, exposed')
  BY <1>6, <1>9 DEF Kept
<1> QED BY <1>11, <1>12
\* A signal whose device is in a group
LEMMA PromoteOriginStep == ASSUME IInv, PromoteOrigin PROVE IInv' /\ Kept(exposed, exposed')
<1> DEFINE origin == flat.signals[at].origin
           dir == PortDir(origin, "out")
<1>1. PICK o \in ExposedNames(origin) : exposed' = Noted(exposed, origin, o, dir)
  BY DEF PromoteOrigin
<1>2. Grouped(origin) /\ Tracing
  BY DEF PromoteOrigin
<1>3. OriginAt(flat, group_of, at) = {origin}
  BY <1>2 DEF OriginAt, Grouped
<1>4. origin.indexed \in BOOLEAN
  <2>1. Len(flat.signals) \in Nat /\ at \in 1..Len(flat.signals)
    BY <1>2, ListsTyped DEF IInv, TypeOK, Tracing
  <2> QED BY <2>1, ListsTyped DEF IInv
<1> HIDE DEF origin, dir
<1>5. Free(exposed, origin, o)
  BY FreeName
<1>6. /\ Form(exposed') /\ Apart(exposed') /\ Exact(exposed', Read \cup {origin})
      /\ \A k \in DOMAIN exposed' : k[1] \in DOMAIN group_of
      /\ Kept(exposed, exposed')
  BY <1>1, <1>2, <1>4, <1>5, BoundaryNow, NoteOne
<1>7. IInv'
  BY <1>2, <1>3, <1>6, SignalStep DEF PromoteOrigin
<1> QED BY <1>6, <1>7

\* A signal whose device is at the top
LEMMA KeepOriginStep == ASSUME IInv, KeepOrigin PROVE IInv' /\ Kept(exposed, exposed')
<1>1. OriginAt(flat, group_of, at) = {}
  BY DEF KeepOrigin, OriginAt, Grouped
<1>2. Exact(exposed', Read \cup OriginAt(flat, group_of, at))
  <2>1. Read \cup {} = Read
    OBVIOUS
  <2> QED BY <1>1, <2>1, BoundaryNow DEF KeepOrigin
<1>3. Form(exposed') /\ Apart(exposed') /\ \A k \in DOMAIN exposed' : k[1] \in DOMAIN group_of
  BY BoundaryNow, SameBoundary DEF KeepOrigin
<1>4. IInv'
  BY <1>2, <1>3, SignalStep DEF KeepOrigin
<1> QED BY <1>4, BoundaryNow, SameBoundary DEF KeepOrigin

\* The steps between the loops read nothing: the references are the same before and after
LEMMA Between ==
  ASSUME IInv, UNCHANGED <<flat, assignment, group_of, exposed>>, TypeOK', Reading',
         ConnectsRead' = ConnectsRead, SignalsRead' = SignalsRead
  PROVE  IInv' /\ Kept(exposed, exposed')
<1>1. Form(exposed') /\ Apart(exposed') /\ Kept(exposed, exposed') /\ Exact(exposed', Read)
  BY BoundaryNow, SameBoundary
<1>2. (Apart(exposed))' /\ (Form(exposed))'
  BY <1>1 DEF Apart, Form
<1>3. Exact(exposed', RefsOf(flat', group_of', ConnectsRead', SignalsRead'))
  BY <1>1 DEF Read
<1>4. Exposure'
  BY <1>2, <1>3 DEF Exposure, Exact
<1> QED BY <1>1, <1>4 DEF IInv

\* After the last connect
LEMMA ConnectsDoneStep == ASSUME IInv, ConnectsDone PROVE IInv' /\ Kept(exposed, exposed')
<1>1. TypeOK /\ Reading /\ Len(flat.connects) \in Nat /\ Len(flat.signals) \in Nat
  BY ListsTyped DEF IInv
<1>2. TypeOK'
  BY <1>1 DEF TypeOK, ConnectsDone, InstanceNames
<1>3. Reading'
  BY <1>1 DEF Reading, ConnectsDone
<1>4. ConnectsRead' = ConnectsRead /\ SignalsRead' = SignalsRead
  BY <1>1 DEF TypeOK, ConnectsDone, ConnectsRead, SignalsRead
<1> QED BY <1>2, <1>3, <1>4, Between DEF ConnectsDone

\* After the last signal
LEMMA SignalsDoneStep == ASSUME IInv, SignalsDone PROVE IInv' /\ Kept(exposed, exposed')
<1>1. TypeOK /\ Reading /\ Len(flat.connects) \in Nat /\ Len(flat.signals) \in Nat
  BY ListsTyped DEF IInv
<1>2. TypeOK'
  BY <1>1 DEF TypeOK, SignalsDone, InstanceNames
<1>3. Reading'
  BY <1>1 DEF Reading, SignalsDone
<1>4. ConnectsRead' = ConnectsRead /\ SignalsRead' = SignalsRead
  BY <1>1 DEF TypeOK, Reading, SignalsDone, ConnectsRead, SignalsRead
<1> QED BY <1>2, <1>3, <1>4, Between DEF SignalsDone

\* The result is put together and the tables stay
LEMMA AssembleStep == ASSUME IInv, Assemble PROVE IInv' /\ Kept(exposed, exposed')
<1>1. /\ TypeOK /\ Reading /\ phase = "assemble" /\ phase' = "done"
      /\ UNCHANGED <<flat, assignment, at, group_of, exposed>>
  BY DEF IInv, Assemble
<1>2. TypeOK'
  BY <1>1 DEF TypeOK, InstanceNames
<1>3. Reading'
  BY <1>1 DEF Reading
<1>4. ConnectsRead' = ConnectsRead /\ SignalsRead' = SignalsRead
  BY <1>1 DEF ConnectsRead, SignalsRead
<1> QED BY <1>1, <1>2, <1>3, <1>4, Between

\* Every instance is folded into a cluster
LEMMA FoldedType == ASSUME Reading, NEW n \in InstanceNames(flat) PROVE Folded(n) \in Cluster
<1>1. PICK x \in Inputs : flat = x[1] /\ assignment = x[2]
  BY DEF Reading
<1>2. \A m \in DOMAIN assignment : assignment[m] \in Cluster
  BY <1>1, InputsWellFormed
<1> QED BY <1>2, Clusters DEF Folded, ClusterOf

\* Before anything is read no reference is noted and no port is exposed
LEMMA NothingRead == ASSUME NEW f, NEW g PROVE RefsOf(f, g, 0, 0) = {}
BY DEF RefsOf

\* Before the first connect no reference crosses
LEMMA NothingExposed == Form(<<>>) /\ Exact(<<>>, {}) /\ DOMAIN <<>> = {}
BY DEF Form, Exact

\* Finding the groups exposes nothing
LEMMA GroupStep == ASSUME IInv, Group PROVE IInv' /\ Kept(exposed, exposed')
<1>1. TypeOK /\ Reading /\ Len(flat.connects) \in Nat
  BY ListsTyped DEF IInv
<1>2. exposed = <<>> /\ exposed' = <<>> /\ at = 1 /\ at' = 1 /\ phase = "group" /\ phase' = "connects"
  BY <1>1 DEF TypeOK, Reading, Group
<1>3. UNCHANGED <<flat, assignment, grouped>>
  BY DEF Group
<1>4. DOMAIN group_of' \subseteq InstanceNames(flat) /\ \A n \in DOMAIN group_of' : group_of'[n] \in Cluster
  <2>1. group_of' = [n \in InstanceNames(flat) \ ForcedTop |-> Folded(n)]
    BY DEF Group
  <2>2. \A n \in InstanceNames(flat) \ ForcedTop : Folded(n) \in Cluster
    BY <1>1, FoldedType
  <2> QED BY <2>1, <2>2
<1>5. TypeOK'
  BY <1>1, <1>2, <1>3, <1>4, NothingExposed DEF TypeOK, InstanceNames
<1>6. Reading'
  BY <1>1, <1>2, <1>3 DEF Reading
<1>7. RefsOf(flat', group_of', ConnectsRead', SignalsRead') = {}
  <2>1. ConnectsRead' = 0 /\ SignalsRead' = 0
    BY <1>2 DEF ConnectsRead, SignalsRead
  <2> QED BY <2>1, NothingRead
<1>8. Exposure'
  <2>1. (Apart(exposed))'
    BY <1>2, NothingExposed DEF Apart
  <2>2. Form(exposed') /\ Exact(exposed', RefsOf(flat', group_of', ConnectsRead', SignalsRead'))
    BY <1>2, <1>7, NothingExposed
  <2> QED BY <2>1, <2>2 DEF Exposure, Form, Exact
<1>9. Kept(exposed, exposed')
  BY <1>2, NothingExposed DEF Kept
<1> QED BY <1>5, <1>6, <1>8, <1>9 DEF IInv
\* The invariant holds at the start
LEMMA InitHolds == Init => IInv
<1> SUFFICES ASSUME Init PROVE IInv
  OBVIOUS
<1>1. TypeOK
  BY NothingExposed DEF Init, TypeOK
<1>2. Reading
  BY DEF Init, Reading
<1>3. exposed = <<>> /\ RefsOf(flat, group_of, ConnectsRead, SignalsRead) = {}
  BY NothingRead DEF Init, ConnectsRead, SignalsRead
<1>4. Exposure
  BY <1>3, NothingExposed DEF Exposure, Apart
<1> QED BY <1>1, <1>2, <1>4 DEF IInv

\* Every step keeps it
LEMMA NextHolds == IInv /\ Next => IInv' /\ Kept(exposed, exposed')
<1> SUFFICES ASSUME IInv, Next PROVE IInv' /\ Kept(exposed, exposed')
  OBVIOUS
<1>1. CASE Group
  BY <1>1, GroupStep
<1>2. CASE KeepInside
  BY <1>2, KeepInsideStep
<1>3. CASE RewireSource
  BY <1>3, RewireSourceStep
<1>4. CASE RewireTarget
  BY <1>4, RewireTargetStep
<1>5. CASE RewireBoth
  BY <1>5, RewireBothStep
<1>6. CASE LeaveOnTop
  BY <1>6, LeaveOnTopStep
<1>7. CASE ConnectsDone
  BY <1>7, ConnectsDoneStep
<1>8. CASE PromoteOrigin
  BY <1>8, PromoteOriginStep
<1>9. CASE KeepOrigin
  BY <1>9, KeepOriginStep
<1>10. CASE SignalsDone
  BY <1>10, SignalsDoneStep
<1>11. CASE Assemble
  BY <1>11, AssembleStep
<1> QED BY <1>1, <1>2, <1>3, <1>4, <1>5, <1>6, <1>7, <1>8, <1>9, <1>10, <1>11 DEF Next

\* and so does a step that changes nothing
LEMMA StutterHolds == IInv /\ UNCHANGED vars => IInv'
<1> SUFFICES ASSUME IInv, UNCHANGED vars PROVE IInv'
  OBVIOUS
<1>1. UNCHANGED <<flat, assignment, phase, at, group_of, exposed, grouped>>
  BY DEF vars
<1>2. TypeOK'
  BY <1>1 DEF IInv, TypeOK, InstanceNames
<1>3. Reading'
  BY <1>1 DEF IInv, Reading
<1>4. ConnectsRead' = ConnectsRead /\ SignalsRead' = SignalsRead
  BY <1>1 DEF ConnectsRead, SignalsRead
<1> QED BY <1>1, <1>2, <1>3, <1>4, Between

\* The inductive invariant of the contraction: types, the exact boundary and names that stay apart,
\* for every program and assignment (contract_to_hierarchy).
THEOREM Inductive == Spec => []IInv
<1>1. Init => IInv
  BY InitHolds
<1>2. IInv /\ [Next]_vars => IInv'
  BY NextHolds, StutterHolds
<1> QED BY <1>1, <1>2, PTL DEF Spec

\* The contraction of every program only takes instances into groups that are the program's,
\* exposes ports of such instances only, and has no result before its end (contract_to_hierarchy).
THEOREM TypeCorrect == Spec => []TypeOK
<1>1. IInv => TypeOK
  BY DEF IInv
<1> QED BY <1>1, Inductive, PTL

\* No two ports on the boundary of a group have the same name, whatever names devices and
\* ports have and however they run together (note_exposure).
THEOREM NamesStayApart == Spec => []NamesApart
<1>1. IInv => NamesApart
  BY InvariantImplies
<1> QED BY <1>1, Inductive, PTL

\* The boundary of a group has exactly the ports and channels that the connects and signals
\* read so far take across it, for programs and assignments of every size.
THEOREM BoundaryIsExact == Spec => []BoundaryExact
<1>1. IInv => BoundaryExact
  BY InvariantImplies
<1> QED BY <1>1, Inductive, PTL

\* A port that is on a boundary keeps its name and its width, and its channels only grow: what
\* a connect was rewired to stays what it names.
THEOREM BoundaryOnlyGrows == Spec => BoundaryGrows
<1> DEFINE Step == phase # "group" =>
      \A k \in DOMAIN exposed :
        /\ k \in DOMAIN exposed'
        /\ exposed'[k].name = exposed[k].name /\ exposed'[k].end = exposed[k].end
        /\ exposed[k].channels \subseteq exposed'[k].channels
<1>1. IInv /\ [Next]_vars => [Step]_vars
  <2>1. IInv /\ Next => Step
    BY NextHolds DEF Kept
  <2> QED BY <2>1
<1> QED BY <1>1, Inductive, PTL DEF Spec, BoundaryGrows

-----------------------------------------------------------------------------
(* The set of edges that are inserted one list after the other.            *)

\* A set of naturals that is not empty has a least element
LEMMA LeastNatural ==
  ASSUME NEW T, T \subseteq Nat, T # {}
  PROVE  \E m \in T : \A n \in T : m <= n
<1>1. IsWellFoundedOn(OpToRel(<, Nat), Nat)
  BY NatLessThanWellFounded
<1>2. PICK m \in T : \A n \in T : <<n, m>> \notin OpToRel(<, Nat)
  BY <1>1, WFMin
<1>3. m \in Nat /\ \A n \in T : n \in Nat /\ ~ (n < m)
  BY <1>2 DEF OpToRel
<1> QED BY <1>3

\* What is inserted stays, or gives way to a later edge of the same ID
LEMMA LastStays ==
  ASSUME NEW S, NEW sets \in Seq(S), NEW k \in 1..Len(sets), NEW e \in sets[k]
  PROVE  \E j \in k..Len(sets) : \E f \in sets[j] : f.id = e.id /\ f \in Inserted(sets)
<1> DEFINE n == Len(sets)
           T == {m \in 0..n : n - m \in k..n /\ \E f \in sets[n - m] : f.id = e.id}
<1>1. n \in Nat /\ DOMAIN sets = 1..n
  BY LenProperties
<1>2. n - k \in T
  <2>1. n - (n - k) = k /\ n - k \in 0..n /\ k \in k..n
    BY <1>1
  <2> QED BY <2>1
<1>3. T \subseteq Nat
  OBVIOUS
<1>4. PICK m \in T : \A i \in T : m <= i
  <2> HIDE DEF T
  <2> QED BY <1>2, <1>3, LeastNatural
<1>5. PICK f \in sets[n - m] : f.id = e.id
  BY <1>4
<1>6. ASSUME NEW j \in (n - m + 1)..n, NEW g \in sets[j] PROVE g.id # f.id
  <2>1. n - j \in 0..n /\ n - (n - j) = j /\ j \in k..n /\ n - j < m
    BY <1>1, <1>4
  <2>2. n - j \notin T
    BY <1>4, <2>1
  <2> QED BY <1>5, <2>1, <2>2
<1>7. n - m \in k..n /\ n - m \in DOMAIN sets
  BY <1>1, <1>4
<1>8. f \in Inserted(sets)
  BY <1>6, <1>7 DEF Inserted
<1> QED BY <1>5, <1>7, <1>8

-----------------------------------------------------------------------------
(* IDs of edges.                                                           *)

\* The union adds nothing: it tells the provers that these are strings
Piece == STRING \cup {"connect", "bridge", "group", "to", "In", "Out", "G", "Group"}
Str == Seq(Piece)
MaybeChannel == Channel \cup {NoChannel}

\* A suffix is a text: none for no channel, one number piece for a channel
LEMMA SuffixTyped ==
  ASSUME NEW ch \in MaybeChannel
  PROVE  /\ Suffix(ch) \in Str
         /\ ch = NoChannel => Suffix(ch) = <<>>
         /\ ch # NoChannel => Suffix(ch) = <<Numeral[ch]>> /\ Numeral[ch] \in Piece /\ Numeral[ch] # "to"
<1>1. CASE ch = NoChannel
  BY <1>1, EmptySeq DEF Suffix, Str
<1>2. CASE ch # NoChannel
  <2>1. ch \in Channel
    BY <1>2 DEF MaybeChannel
  <2>2. Numeral[ch] \in Piece /\ Numeral[ch] # "to"
    BY <2>1, NumeralsTyped DEF Piece
  <2> QED BY <1>2, <2>2 DEF Suffix, Str
<1> QED BY <1>1, <1>2

\* Different channels have different suffixes
LEMMA SuffixesDiffer ==
  ASSUME NEW c \in MaybeChannel, NEW d \in MaybeChannel, Suffix(c) = Suffix(d)
  PROVE  c = d
<1>1. CASE c = NoChannel
  BY <1>1, SuffixTyped
<1>2. CASE c # NoChannel
  <2>1. d # NoChannel
    BY <1>2, SuffixTyped
  <2>2. c \in Channel /\ d \in Channel /\ Numeral[c] = Numeral[d]
    BY <1>2, <2>1, SuffixTyped DEF MaybeChannel
  <2> QED BY <2>2, NumeralsDiffer DEF Channel
<1> QED BY <1>1, <1>2

\* A sequence of one piece
LEMMA Single ==
  ASSUME NEW S, NEW x \in S
  PROVE  <<x>> \in Seq(S) /\ Len(<<x>>) = 1 /\ <<x>>[1] = x
OBVIOUS

\* joined to a text, it is the text's last piece
LEMMA OnePiece ==
  ASSUME NEW s \in Str, NEW x \in Piece
  PROVE  /\ <<x>> \in Str /\ s \o <<x>> \in Str
         /\ Len(s) \in Nat /\ Len(s \o <<x>>) = Len(s) + 1 /\ (s \o <<x>>)[Len(s) + 1] = x
<1>1. <<x>> \in Str /\ Len(<<x>>) = 1 /\ <<x>>[1] = x
  BY Single DEF Str
<1>2. Len(s) \in Nat
  BY LenProperties DEF Str
<1>3. /\ s \o <<x>> \in Str /\ Len(s \o <<x>>) = Len(s) + Len(<<x>>)
      /\ \A i \in 1..Len(s) + Len(<<x>>) :
           (s \o <<x>>)[i] = IF i <= Len(s) THEN s[i] ELSE <<x>>[i - Len(s)]
  BY <1>1, ConcatProperties DEF Str
<1>4. Len(s) + 1 \in 1..Len(s) + Len(<<x>>) /\ ~ (Len(s) + 1 <= Len(s)) /\ Len(s) + 1 - Len(s) = 1
  BY <1>1, <1>2
<1> QED BY <1>1, <1>2, <1>3, <1>4

\* What a text is continued with can be read from the whole and the text
LEMMA CancelLeft ==
  ASSUME NEW s \in Str, NEW t \in Str, NEW v \in Str, s \o t = s \o v
  PROVE  t = v
<1>1. /\ Len(s) \in Nat /\ Len(t) \in Nat /\ Len(v) \in Nat
      /\ Len(s \o t) = Len(s) + Len(t) /\ Len(s \o v) = Len(s) + Len(v)
  BY LenProperties, ConcatProperties DEF Str
<1>2. Len(t) = Len(v)
  BY <1>1
<1>3. ASSUME NEW i \in 1..Len(t) PROVE t[i] = v[i]
  <2>1. Len(s) + i \in 1..Len(s) + Len(t) /\ ~ (Len(s) + i <= Len(s)) /\ Len(s) + i - Len(s) = i
    BY <1>1
  <2>2. (s \o t)[Len(s) + i] = t[i] /\ (s \o v)[Len(s) + i] = v[i]
    BY <1>2, <2>1, ConcatProperties DEF Str
  <2> QED BY <2>2
<1> QED BY <1>2, <1>3, SeqEqual DEF Str

\* What a text of given length continues can be read from the whole
LEMMA CancelRight ==
  ASSUME NEW s \in Str, NEW t \in Str, NEW v \in Str, s \o v = t \o v
  PROVE  s = t
<1>1. /\ Len(s) \in Nat /\ Len(t) \in Nat /\ Len(v) \in Nat
      /\ Len(s \o v) = Len(s) + Len(v) /\ Len(t \o v) = Len(t) + Len(v)
  BY LenProperties, ConcatProperties DEF Str
<1>2. Len(s) = Len(t)
  BY <1>1
<1>3. ASSUME NEW i \in 1..Len(s) PROVE s[i] = t[i]
  <2>1. i \in 1..Len(s) + Len(v) /\ i <= Len(s) /\ i <= Len(t)
    BY <1>1, <1>2
  <2>2. (s \o v)[i] = s[i] /\ (t \o v)[i] = t[i]
    BY <1>2, <2>1, ConcatProperties DEF Str
  <2> QED BY <2>2
<1> QED BY <1>2, <1>3, SeqEqual DEF Str

\* A channel at the end of a text is read apart from what stands before "to"
LEMMA ReadApart ==
  ASSUME NEW s \in Str, NEW t \in Str, NEW c \in MaybeChannel, NEW d \in MaybeChannel,
         s \o <<"to">> \o Suffix(c) = t \o <<"to">> \o Suffix(d)
  PROVE  s = t /\ c = d
<1> DEFINE u == s \o <<"to">>
           v == t \o <<"to">>
<1>1. /\ u \in Str /\ Len(u) = Len(s) + 1 /\ u[Len(u)] = "to"
      /\ v \in Str /\ Len(v) = Len(t) + 1 /\ v[Len(v)] = "to"
      /\ Len(s) \in Nat /\ Len(t) \in Nat
  <2>1. "to" \in Piece
    BY DEF Piece
  <2> QED BY <2>1, OnePiece
<1>2. /\ c # NoChannel => Len(u \o Suffix(c)) = Len(u) + 1 /\ (u \o Suffix(c))[Len(u) + 1] # "to"
      /\ c = NoChannel => u \o Suffix(c) = u
  <2> HIDE DEF u
  <2>1. CASE c = NoChannel
    BY <1>1, <2>1, SuffixTyped, ConcatEmptySeq DEF Str
  <2>2. CASE c # NoChannel
    <3>1. u \in Str /\ Suffix(c) = <<Numeral[c]>> /\ Numeral[c] \in Piece /\ Numeral[c] # "to"
      BY <1>1, <2>2, SuffixTyped
    <3> QED BY <2>2, <3>1, OnePiece
  <2> QED BY <2>1, <2>2
<1>3. /\ d # NoChannel => Len(v \o Suffix(d)) = Len(v) + 1 /\ (v \o Suffix(d))[Len(v) + 1] # "to"
      /\ d = NoChannel => v \o Suffix(d) = v
  <2> HIDE DEF v
  <2>1. CASE d = NoChannel
    BY <1>1, <2>1, SuffixTyped, ConcatEmptySeq DEF Str
  <2>2. CASE d # NoChannel
    <3>1. v \in Str /\ Suffix(d) = <<Numeral[d]>> /\ Numeral[d] \in Piece /\ Numeral[d] # "to"
      BY <1>1, <2>2, SuffixTyped
    <3> QED BY <2>2, <3>1, OnePiece
  <2> QED BY <2>1, <2>2
<1>4. u \o Suffix(c) = v \o Suffix(d)
  OBVIOUS
<1>5. (c = NoChannel) <=> (d = NoChannel)
  <2> HIDE DEF u, v
  <2> QED BY <1>1, <1>2, <1>3, <1>4
<1>6. u = v
  <2> HIDE DEF u, v
  <2>1. CASE c = NoChannel
    BY <1>2, <1>3, <1>4, <1>5, <2>1
  <2>2. CASE c # NoChannel
    <3>1. Len(u) = Len(v)
      BY <1>1, <1>2, <1>3, <1>4, <1>5, <2>2
    <3>2. \A i \in 1..Len(u) : (u \o Suffix(c))[i] = u[i] /\ (v \o Suffix(d))[i] = v[i]
      BY <1>1, <3>1, SuffixTyped, ConcatProperties DEF Str
    <3>3. \A i \in 1..Len(u) : u[i] = v[i]
      BY <1>4, <3>2
    <3> QED BY <1>1, <3>1, <3>3, SeqEqual DEF Str
  <2> QED BY <2>1, <2>2
<1>7. s = t
  <2>1. <<"to">> \in Str
    BY Single DEF Str, Piece
  <2> QED BY <1>6, <2>1, CancelRight
<1>8. Suffix(c) = Suffix(d)
  <2>1. Suffix(c) \in Str /\ Suffix(d) \in Str
    BY SuffixTyped
  <2> HIDE DEF u, v
  <2> QED BY <1>1, <1>4, <1>6, <2>1, CancelLeft
<1> QED BY <1>7, <1>8, SuffixesDiffer

\* Texts are sequences of pieces
LEMMA TextTyped == Text \subseteq Str
<1> SUFFICES ASSUME NEW t \in Text PROVE t \in Str
  OBVIOUS
<1>1. t \in Seq(STRING) /\ STRING \subseteq Piece
  BY DEF Text, Piece
<1> QED BY <1>1, SeqMonotonic DEF Str

\* and joining makes texts of them
LEMMA Joins ==
  ASSUME NEW s \in Str, NEW t \in Str
  PROVE  s \o t \in Str
BY ConcatProperties DEF Str

\* Joining is associative
LEMMA Brackets ==
  ASSUME NEW s1 \in Str, NEW s2 \in Str, NEW s3 \in Str
  PROVE  (s1 \o s2) \o s3 = s1 \o (s2 \o s3)
BY ConcatAssociative DEF Str

\* The first piece of what is joined is the first piece of its first part
LEMMA FirstPiece ==
  ASSUME NEW x \in Piece, NEW s \in Str
  PROVE  (<<x>> \o s)[1] = x /\ Head(<<x>> \o s) = x
<1>1. <<x>> \in Str /\ Len(<<x>>) = 1 /\ <<x>>[1] = x /\ Len(s) \in Nat
  BY Single, LenProperties DEF Str
<1>2. (<<x>> \o s)[1] = x /\ <<x>> \o s \in Str
  BY <1>1, ConcatProperties DEF Str
<1> QED BY <1>2

\* A reference names channels or none
LEMMA FlattenTyped ==
  ASSUME NEW ref, TypedRef(ref)
  PROVE  FlattenOpt(ref) \in Seq(MaybeChannel) /\ Len(FlattenOpt(ref)) \in Nat \ {0}
<1>1. NoChannel \in MaybeChannel /\ Channel \subseteq MaybeChannel
  BY DEF MaybeChannel
<1>2. CASE ref.index = <<>>
  BY <1>1, <1>2, Single DEF FlattenOpt
<1>3. CASE ref.index # <<>>
  <2>1. FlattenOpt(ref) = ref.index /\ ref.index \in Seq(Channel)
    BY <1>3 DEF FlattenOpt, TypedRef
  <2>2. ref.index \in Seq(MaybeChannel)
    BY <1>1, <2>1, SeqMonotonic
  <2> QED BY <1>3, <2>1, <2>2, EmptySeq
<1> QED BY <1>2, <1>3

\* The pairs of a connect are pairs of what its ends name
LEMMA PairsTyped ==
  ASSUME NEW c, TypedRef(c.source), TypedRef(c.target), TypedMapping(c.mapping),
         NEW pair \in ElementsOf(ChannelPairs(c.mapping, FlattenOpt(c.source), FlattenOpt(c.target)))
  PROVE  pair[1] \in MaybeChannel /\ pair[2] \in MaybeChannel
<1> DEFINE src == FlattenOpt(c.source)
           tgt == FlattenOpt(c.target)
           kind == c.mapping.kind
<1>1. /\ src \in Seq(MaybeChannel) /\ Len(src) \in Nat \ {0} /\ DOMAIN src = 1..Len(src)
      /\ tgt \in Seq(MaybeChannel) /\ Len(tgt) \in Nat \ {0} /\ DOMAIN tgt = 1..Len(tgt)
  <2>1. src \in Seq(MaybeChannel) /\ Len(src) \in Nat \ {0} /\ tgt \in Seq(MaybeChannel) /\ Len(tgt) \in Nat \ {0}
    BY FlattenTyped
  <2> QED BY <2>1, LenProperties
<1>2. PICK i \in DOMAIN ChannelPairs(c.mapping, src, tgt) : pair = ChannelPairs(c.mapping, src, tgt)[i]
  BY DEF ElementsOf
<1> HIDE DEF src, tgt
<1>3. CASE kind = "explicit"
  <2>1. ChannelPairs(c.mapping, src, tgt) = c.mapping.pairs /\ c.mapping.pairs \in Seq(Channel \X Channel)
    BY <1>3 DEF ChannelPairs, TypedMapping
  <2>2. pair \in Channel \X Channel
    BY <1>2, <2>1, LenProperties, ElementOfSeq
  <2> QED BY <2>2 DEF MaybeChannel
<1>4. CASE kind = "offset"
  <2>1. ChannelPairs(c.mapping, src, tgt) =
          [j \in DOMAIN src |-> <<src[j], IF src[j] = NoChannel THEN NoChannel ELSE (src[j] + c.mapping.by) % Modulus>>]
    BY <1>4 DEF ChannelPairs
  <2>2. i \in 1..Len(src) /\ c.mapping.by \in Int
    BY <1>1, <1>2, <1>4, <2>1 DEF TypedMapping
  <2>3. src[i] \in MaybeChannel
    BY <1>1, <2>2, ElementOfSeq
  <2>4. src[i] # NoChannel => (src[i] + c.mapping.by) % Modulus \in Channel
    BY <2>2, <2>3, Width DEF MaybeChannel, Channel
  <2>5. pair = <<src[i], IF src[i] = NoChannel THEN NoChannel ELSE (src[i] + c.mapping.by) % Modulus>>
    BY <1>1, <1>2, <2>1, <2>2
  <2>6. pair[1] = src[i] /\ pair[2] = IF src[i] = NoChannel THEN NoChannel ELSE (src[i] + c.mapping.by) % Modulus
    BY <2>5
  <2> QED BY <2>3, <2>4, <2>6 DEF MaybeChannel
<1>5. CASE kind \notin {"explicit", "offset"} /\ Len(src) > 1 /\ Len(tgt) > 1 /\ Len(src) # Len(tgt)
  <2>1. ChannelPairs(c.mapping, src, tgt) = <<>>
    BY <1>5 DEF ChannelPairs
  <2> QED BY <1>2, <2>1
<1>6. CASE kind \notin {"explicit", "offset"} /\ ~ (Len(src) > 1 /\ Len(tgt) > 1 /\ Len(src) # Len(tgt))
  <2>1. ChannelPairs(c.mapping, src, tgt) =
          [j \in 1..Larger(Len(src), Len(tgt)) |-> <<Broadcast(src, j), Broadcast(tgt, j)>>]
    BY <1>6 DEF ChannelPairs
  <2>2. pair[1] = Broadcast(src, i) /\ pair[2] = Broadcast(tgt, i) /\ i \in 1..Larger(Len(src), Len(tgt))
    BY <1>2, <2>1
  <2> DEFINE m == Len(src)
             n == Len(tgt)
  <2>5. /\ m \in Nat \ {0} /\ n \in Nat \ {0} /\ i \in 1..Larger(m, n)
        /\ ~ (m > 1 /\ n > 1 /\ m # n)
    BY <1>1, <1>6, <2>2
  <2>6. (m > 1 => i \in 1..m) /\ (n > 1 => i \in 1..n)
    <3> HIDE DEF m, n
    <3> QED BY <2>5 DEF Larger
  <2>3. Broadcast(src, i) \in MaybeChannel
    <3>1. (IF Len(src) > 1 THEN i ELSE 1) \in 1..Len(src)
      BY <1>1, <2>6
    <3> QED BY <1>1, <3>1, ElementOfSeq DEF Broadcast
  <2>4. Broadcast(tgt, i) \in MaybeChannel
    <3>1. (IF Len(tgt) > 1 THEN i ELSE 1) \in 1..Len(tgt)
      BY <1>1, <2>6
    <3> QED BY <1>1, <3>1, ElementOfSeq DEF Broadcast
  <2> QED BY <2>2, <2>3, <2>4
<1> QED BY <1>3, <1>4, <1>5, <1>6 DEF TypedMapping

\* The ID of a port of the root spells its instance, port and channel
LEMMA RefSpelled ==
  ASSUME NEW ref, TypedRef(ref), NEW ch \in MaybeChannel
  PROVE  /\ ref.inst \in Str /\ ref.port \in Str /\ Suffix(ch) \in Str
         /\ RootId(ref, ch)[1] = <<ref.inst>> /\ RootId(ref, ch)[1][1] = ref.inst
         /\ RootId(ref, ch)[2] = ref.port \o Suffix(ch) /\ RootId(ref, ch)[2] \in Str
<1>1. ref.inst \in Str /\ ref.port \in Str /\ Suffix(ch) \in Str
  BY TextTyped, SuffixTyped DEF TypedRef
<1>2. ref.port \o Suffix(ch) \in Str
  BY <1>1, Joins
<1> QED BY <1>1, <1>2 DEF RootId

\* The ID of a cable's edge is the texts of its ports
LEMMA ConnectSpelled ==
  ASSUME NEW c, TypedRef(c.source), TypedRef(c.target), TypedMapping(c.mapping), NEW e \in ConnectEdges(c)
  PROVE  EndsText(e) \in Str /\ e.id = <<"connect">> \o EndsText(e)
<1>1. PICK pair \in ElementsOf(ChannelPairs(c.mapping, FlattenOpt(c.source), FlattenOpt(c.target))) :
        e = Edge(ConnectId(c, pair), "connect", <<c.source.inst>>, RootId(c.source, pair[1]),
                                                <<c.target.inst>>, RootId(c.target, pair[2]))
  BY DEF ConnectEdges
<1>2. pair[1] \in MaybeChannel /\ pair[2] \in MaybeChannel
  BY PairsTyped
<1> DEFINE s == c.source.inst
           p == c.source.port
           x == Suffix(pair[1])
           t == c.target.inst
           q == c.target.port
           y == Suffix(pair[2])
           k == <<"connect">>
<1>3. e.id = ConnectId(c, pair) /\ e.sourcePort = RootId(c.source, pair[1]) /\ e.targetPort = RootId(c.target, pair[2])
  BY <1>1 DEF Edge
<1>4. EndsText(e) = ((s \o (p \o x)) \o t) \o (q \o y)
  BY <1>2, <1>3, RefSpelled DEF EndsText, SourceText
<1>5. e.id = (((((k \o s) \o p) \o x) \o t) \o q) \o y
  BY <1>3 DEF ConnectId
<1>6. k \in Str /\ s \in Str /\ p \in Str /\ x \in Str /\ t \in Str /\ q \in Str /\ y \in Str
  <2>1. k \in Str
    BY Single DEF Str, Piece
  <2> QED BY <1>2, <2>1, RefSpelled
<1> HIDE DEF k, s, p, x, t, q, y
<1> DEFINE a == s \o (p \o x)
<1>7. a \in Str /\ q \o y \in Str /\ a \o t \in Str
  <2>1. p \o x \in Str /\ q \o y \in Str
    BY <1>6, Joins
  <2>2. a \in Str
    BY <1>6, <2>1, Joins
  <2> HIDE DEF a
  <2> QED BY <1>6, <2>1, <2>2, Joins
<1>8. EndsText(e) = (a \o t) \o (q \o y) /\ EndsText(e) \in Str
  <2>1. EndsText(e) = (a \o t) \o (q \o y)
    BY <1>4
  <2> HIDE DEF a
  <2> QED BY <1>7, <2>1, Joins
<1>9. ((k \o s) \o p) \o x = k \o a
  <2>1. k \in Str /\ s \in Str /\ p \o x \in Str
    BY <1>6, Joins
  <2>2. k \o s \in Str /\ p \in Str /\ x \in Str
    BY <1>6, Joins
  <2>3. ((k \o s) \o p) \o x = (k \o s) \o (p \o x)
    BY <2>2, Brackets
  <2>4. (k \o s) \o (p \o x) = k \o (s \o (p \o x))
    BY <2>1, Brackets
  <2> QED BY <2>3, <2>4
<1>10. e.id = ((k \o a) \o t) \o q \o y
  BY <1>5, <1>9
<1> HIDE DEF a
<1>11. (((k \o a) \o t) \o q) \o y = k \o ((a \o t) \o (q \o y))
  <2>1. k \in Str /\ a \in Str /\ t \in Str
    BY <1>6, <1>7
  <2>2. (k \o a) \o t = k \o (a \o t)
    BY <2>1, Brackets
  <2>3. k \in Str /\ a \o t \in Str /\ q \in Str /\ y \in Str
    BY <1>6, <1>7
  <2>4. ((k \o (a \o t)) \o q) \o y = k \o ((a \o t) \o (q \o y))
    <3>1. k \in Str /\ (a \o t) \in Str /\ q \o y \in Str
      BY <2>3, Joins
    <3>2. k \o (a \o t) \in Str /\ q \in Str /\ y \in Str
      BY <2>3, Joins
    <3>3. ((k \o (a \o t)) \o q) \o y = (k \o (a \o t)) \o (q \o y)
      BY <3>2, Brackets
    <3>4. (k \o (a \o t)) \o (q \o y) = k \o ((a \o t) \o (q \o y))
      BY <3>1, Brackets
    <3> QED BY <3>3, <3>4
  <2> QED BY <2>2, <2>4
<1> QED BY <1>8, <1>10, <1>11 DEF k

\* The ID of a bridge's edge is the text of its source, and the channel of its target
LEMMA BridgeSpelled ==
  ASSUME NEW b, TypedRef(b.source), TypedRef(b.target), NEW e \in RootBridgeEdges(b)
  PROVE  \E c \in MaybeChannel, d \in MaybeChannel :
           /\ SourceText(e) = (b.source.inst \o b.source.port) \o Suffix(c)
           /\ e.id = (<<"bridge">> \o SourceText(e)) \o <<"to">> \o Suffix(d)
           /\ e.sourcePort = RootId(b.source, c) /\ e.targetPort = RootId(b.target, d)
<1> DEFINE src == FlattenOpt(b.source)
           tgt == FlattenOpt(b.target)
           s == b.source.inst
           p == b.source.port
           k == <<"bridge">>
<1>1. PICK pair \in BridgePairs(src, tgt) :
        e = Edge((k \o s \o p) \o Suffix(pair[1]) \o <<"to">> \o Suffix(pair[2]), "bridge",
                 <<s>>, <<<<s>>, p \o Suffix(pair[1])>>, <<b.target.inst>>, <<<<b.target.inst>>, b.target.port \o Suffix(pair[2])>>)
  BY DEF RootBridgeEdges, BridgeEdges
<1>2. /\ src \in Seq(MaybeChannel) /\ DOMAIN src = 1..Len(src)
      /\ tgt \in Seq(MaybeChannel) /\ DOMAIN tgt = 1..Len(tgt)
  <2>1. src \in Seq(MaybeChannel) /\ tgt \in Seq(MaybeChannel)
    BY FlattenTyped
  <2> QED BY <2>1, LenProperties
<1>3. pair[1] \in MaybeChannel /\ pair[2] \in MaybeChannel
  <2>1. \A i \in DOMAIN src : src[i] \in MaybeChannel
    BY <1>2, ElementOfSeq
  <2>2. \A i \in DOMAIN tgt : tgt[i] \in MaybeChannel
    BY <1>2, ElementOfSeq
  <2> HIDE DEF src, tgt
  <2>3. CASE Len(src) = Len(tgt)
    <3>1. PICK i \in DOMAIN src : pair = <<src[i], tgt[i]>>
      BY <2>3 DEF BridgePairs
    <3>2. i \in DOMAIN tgt
      BY <1>2, <2>3, <3>1
    <3> QED BY <2>1, <2>2, <3>1, <3>2
  <2>4. CASE Len(src) # Len(tgt)
    <3>1. pair \in ElementsOf(src) \X ElementsOf(tgt)
      BY <2>4 DEF BridgePairs
    <3> QED BY <2>1, <2>2, <3>1 DEF ElementsOf
  <2> QED BY <2>3, <2>4
<1> DEFINE x == Suffix(pair[1])
           y == Suffix(pair[2])
<1>4. /\ e.id = (((k \o s) \o p) \o x) \o <<"to">> \o y
      /\ e.sourcePort = RootId(b.source, pair[1]) /\ e.targetPort = RootId(b.target, pair[2])
  BY <1>1 DEF Edge, RootId
<1>5. SourceText(e) = s \o (p \o x)
  BY <1>3, <1>4, RefSpelled DEF SourceText
<1>6. k \in Str /\ s \in Str /\ p \in Str /\ x \in Str
  <2>1. k \in Str
    BY Single DEF Str, Piece
  <2> QED BY <1>3, <2>1, RefSpelled
<1> HIDE DEF k, s, p, x, y
<1>7. SourceText(e) = (s \o p) \o x
  BY <1>5, <1>6, Brackets
<1>8. ((k \o s) \o p) \o x = k \o SourceText(e)
  <2>1. k \in Str /\ s \in Str /\ p \o x \in Str
    BY <1>6, Joins
  <2>2. k \o s \in Str /\ p \in Str /\ x \in Str
    BY <1>6, Joins
  <2>3. ((k \o s) \o p) \o x = (k \o s) \o (p \o x)
    BY <2>2, Brackets
  <2>4. (k \o s) \o (p \o x) = k \o (s \o (p \o x))
    BY <2>1, Brackets
  <2> QED BY <1>5, <2>3, <2>4
<1>9. e.id = (k \o SourceText(e)) \o <<"to">> \o y
  BY <1>4, <1>8
<1> QED BY <1>3, <1>4, <1>7, <1>9 DEF k, s, p, x, y

\* The ID of a bridge group's edge is the text of its target, and the place of its source
LEMMA GroupSpelled ==
  ASSUME NEW g, TypedRef(g.target), DOMAIN Fanned(g) \subseteq 1..Modulus, NEW e \in BridgeGroupEdges(g)
  PROVE  /\ TargetText(g) \in Str
         /\ \E k \in DOMAIN Fanned(g) :
              /\ k - 1 \in Channel
              /\ e.id = <<"bridge">> \o (<<"group">> \o (TargetText(g) \o Suffix(k - 1)))
              /\ e.sourcePort = Fanned(g)[k]
              /\ e.targetPort = RootId(g.target, (FirstTarget(g) + k - 1) % Modulus)
<1>1. PICK k \in DOMAIN Fanned(g) :
        e = Edge(<<"bridge", "group">> \o g.target.inst \o g.target.port \o Suffix(k - 1), "bridge",
                 Fanned(g)[k][1], Fanned(g)[k],
                 <<g.target.inst>>, RootId(g.target, (FirstTarget(g) + k - 1) % Modulus))
  BY DEF BridgeGroupEdges
<1>2. k - 1 \in Channel /\ k - 1 \in MaybeChannel
  BY Width DEF Channel, MaybeChannel
<1> DEFINE t == g.target.inst
           q == g.target.port
           x == Suffix(k - 1)
           kk == <<"bridge", "group">>
<1>3. /\ e.id = ((kk \o t) \o q) \o x /\ e.sourcePort = Fanned(g)[k]
      /\ e.targetPort = RootId(g.target, (FirstTarget(g) + k - 1) % Modulus)
  BY <1>1 DEF Edge
<1>4. <<"bridge">> \in Str /\ <<"group">> \in Str /\ kk = <<"bridge">> \o <<"group">>
  <2>1. "bridge" \in Piece /\ "group" \in Piece
    BY DEF Piece
  <2>2. <<"bridge">> \in Str /\ <<"group">> \in Str
    BY <2>1, Single DEF Str
  <2> QED BY <2>1, <2>2 DEF Str
<1>5. t \in Str /\ q \in Str /\ x \in Str
  BY <1>2, RefSpelled
<1>6. TargetText(g) = t \o q
  BY DEF TargetText
<1> HIDE DEF t, q, x
<1>7. t \o q \in Str /\ kk \in Str /\ kk \o t \in Str /\ (t \o q) \o x \in Str
  BY <1>4, <1>5, Joins
<1>8. ((kk \o t) \o q) \o x = kk \o ((t \o q) \o x)
  <2>1. (kk \o t) \o q = kk \o (t \o q)
    BY <1>5, <1>7, Brackets
  <2>2. (kk \o (t \o q)) \o x = kk \o ((t \o q) \o x)
    BY <1>5, <1>7, Brackets
  <2> QED BY <2>1, <2>2
<1>9. e.id = <<"bridge">> \o (<<"group">> \o ((t \o q) \o x))
  BY <1>3, <1>4, <1>7, <1>8, Brackets
<1> QED BY <1>2, <1>3, <1>6, <1>7, <1>9 DEF x

\* A cable's ID begins with the first piece of its source
LEMMA FirstOfJoined ==
  ASSUME NEW s \in Str, s # <<>>, NEW t \in Str
  PROVE  s \o t \in Str /\ s \o t # <<>> /\ (s \o t)[1] = s[1]
<1>1. Len(s) \in Nat \ {0} /\ Len(t) \in Nat
  BY EmptySeq, LenProperties DEF Str
<1>2. /\ s \o t \in Str /\ Len(s \o t) = Len(s) + Len(t)
      /\ \A i \in 1..Len(s) + Len(t) : (s \o t)[i] = IF i <= Len(s) THEN s[i] ELSE t[i - Len(s)]
  BY ConcatProperties DEF Str
<1>3. 1 \in 1..Len(s) + Len(t) /\ 1 <= Len(s)
  BY <1>1
<1>4. s \o t # <<>>
  BY <1>1, <1>2, EmptySeq DEF Str
<1> QED BY <1>2, <1>3, <1>4

\* What a bridge's ID says after its first piece starts with its source's instance
LEMMA BridgeRead ==
  ASSUME NEW b, TypedRef(b.source), TypedRef(b.target), NEW e \in RootBridgeEdges(b)
  PROVE  /\ SourceText(e) \in Str
         /\ \E c \in MaybeChannel, d \in MaybeChannel :
              LET rest == SourceText(e) \o <<"to">> \o Suffix(d)
              IN /\ SourceText(e) = (b.source.inst \o b.source.port) \o Suffix(c)
                 /\ b.source.inst \o b.source.port \in Str
                 /\ rest \in Str /\ rest[1] = Head(b.source.inst)
                 /\ e.id = <<"bridge">> \o rest
                 /\ e.sourcePort = RootId(b.source, c) /\ e.targetPort = RootId(b.target, d)
<1>1. PICK c \in MaybeChannel, d \in MaybeChannel :
        /\ SourceText(e) = (b.source.inst \o b.source.port) \o Suffix(c)
        /\ e.id = (<<"bridge">> \o SourceText(e)) \o <<"to">> \o Suffix(d)
        /\ e.sourcePort = RootId(b.source, c) /\ e.targetPort = RootId(b.target, d)
  BY BridgeSpelled
<1> DEFINE inst == b.source.inst
           text == SourceText(e)
           start == <<"bridge">>
           to == <<"to">>
           rest == text \o to \o Suffix(d)
<1>2. inst \in Str /\ inst # <<>> /\ b.source.port \in Str /\ Suffix(c) \in Str /\ Suffix(d) \in Str
  BY RefSpelled DEF TypedRef, Text
<1>3. start \in Str /\ to \in Str
  BY Single DEF Str, Piece
<1>4. inst \o b.source.port \in Str /\ inst \o b.source.port # <<>> /\ (inst \o b.source.port)[1] = inst[1]
  BY <1>2, FirstOfJoined
<1>5. text \in Str /\ text # <<>> /\ text[1] = inst[1]
  <2> DEFINE both == inst \o b.source.port
  <2>1. text = both \o Suffix(c)
    BY <1>1
  <2>2. both \in Str /\ both # <<>> /\ both[1] = inst[1]
    BY <1>4
  <2> HIDE DEF both, text, inst
  <2> QED BY <1>2, <2>1, <2>2, FirstOfJoined
<1> HIDE DEF inst, text, start, to
<1>6. text \o to \in Str /\ text \o to # <<>> /\ (text \o to)[1] = inst[1]
  BY <1>3, <1>5, FirstOfJoined
<1>7. rest \in Str /\ rest[1] = inst[1]
  BY <1>2, <1>6, FirstOfJoined
<1>8. ((start \o text) \o to) \o Suffix(d) = start \o rest
  <2>1. start \in Str /\ text \in Str /\ to \in Str
    BY <1>3, <1>5
  <2>2. (start \o text) \o to = start \o (text \o to)
    BY <2>1, Brackets
  <2>3. start \in Str /\ text \o to \in Str /\ Suffix(d) \in Str
    BY <1>2, <1>3, <1>6
  <2>4. (start \o (text \o to)) \o Suffix(d) = start \o ((text \o to) \o Suffix(d))
    BY <2>3, Brackets
  <2> QED BY <2>2, <2>4
<1>9. inst[1] = Head(b.source.inst)
  BY <1>2 DEF inst
<1>10. rest = SourceText(e) \o <<"to">> \o Suffix(d) /\ e.id = <<"bridge">> \o rest
  BY <1>1, <1>8 DEF start, text, to
<1>11. SourceText(e) \in Str /\ b.source.inst \o b.source.port \in Str
  BY <1>4, <1>5 DEF text, inst
<1> HIDE DEF rest
<1> QED BY <1>1, <1>7, <1>9, <1>10, <1>11

-----------------------------------------------------------------------------
(* The lists of edges of a program, in the order they are inserted.        *)

\* The references and mappings of a program as the parser makes them
TypedProgram(p) ==
  /\ p.connects \in Seq(ElementsOf(p.connects)) /\ p.bridges \in Seq(ElementsOf(p.bridges))
  /\ p.groups \in Seq(ElementsOf(p.groups))
  /\ \A c \in ElementsOf(p.connects) : TypedRef(c.source) /\ TypedRef(c.target) /\ TypedMapping(c.mapping)
  /\ \A b \in ElementsOf(p.bridges) : TypedRef(b.source) /\ TypedRef(b.target)
  /\ \A g \in ElementsOf(p.groups) : TypedRef(g.target) /\ DOMAIN Fanned(g) \subseteq 1..Modulus

\* A program the contraction reads has the types the parser gives it
LEMMA ProgramTyped ==
  ASSUME Reading
  PROVE  TypedProgram(flat)
<1>1. PICK x \in Inputs : flat = x[1]
  BY DEF Reading
<1> QED BY <1>1, RefsTyped, InputsTyped DEF TypedProgram

NC(p) == Len(p.connects)
NB(p) == Len(p.bridges)
NG(p) == Len(p.groups)

\* The edges of the root are those of one of its expansions
LEMMA RootExpanded ==
  ASSUME NEW p, TypedProgram(p)
  PROVE  LET sets == RootExpansions(p)
         IN /\ NC(p) \in Nat /\ NB(p) \in Nat /\ NG(p) \in Nat
            /\ DOMAIN p.connects = 1..NC(p) /\ DOMAIN p.bridges = 1..NB(p) /\ DOMAIN p.groups = 1..NG(p)
            /\ \E S : sets \in Seq(S)
            /\ Len(sets) = NC(p) + NB(p) + NG(p)
            /\ \A k \in 1..NC(p) : sets[k] = ConnectEdges(p.connects[k])
            /\ \A k \in 1..NB(p) : sets[NC(p) + k] = RootBridgeEdges(p.bridges[k])
            /\ \A k \in 1..NG(p) : sets[NC(p) + NB(p) + k] = BridgeGroupEdges(p.groups[k])
<1>1. /\ NC(p) \in Nat /\ NB(p) \in Nat /\ NG(p) \in Nat
      /\ DOMAIN p.connects = 1..NC(p) /\ DOMAIN p.bridges = 1..NB(p) /\ DOMAIN p.groups = 1..NG(p)
  BY LenProperties DEF TypedProgram, NC, NB, NG
<1> DEFINE cs == [k \in 1..NC(p) |-> ConnectEdges(p.connects[k])]
           bs == [k \in 1..NB(p) |-> RootBridgeEdges(p.bridges[k])]
           gs == [k \in 1..NG(p) |-> BridgeGroupEdges(p.groups[k])]
           S == {cs[k] : k \in 1..NC(p)} \cup {bs[k] : k \in 1..NB(p)} \cup {gs[k] : k \in 1..NG(p)}
           sets == RootExpansions(p)
<1>2. sets = (cs \o bs) \o gs
  BY <1>1 DEF RootExpansions
<1>3. cs \in Seq(S) /\ Len(cs) = NC(p) /\ bs \in Seq(S) /\ Len(bs) = NB(p) /\ gs \in Seq(S) /\ Len(gs) = NG(p)
  <2>1. cs \in [1..NC(p) -> S] /\ bs \in [1..NB(p) -> S] /\ gs \in [1..NG(p) -> S]
    OBVIOUS
  <2> HIDE DEF cs, bs, gs, S
  <2> QED BY <1>1, <2>1
<1>4. /\ \A k \in 1..NC(p) : cs[k] = ConnectEdges(p.connects[k])
      /\ \A k \in 1..NB(p) : bs[k] = RootBridgeEdges(p.bridges[k])
      /\ \A k \in 1..NG(p) : gs[k] = BridgeGroupEdges(p.groups[k])
  OBVIOUS
<1> HIDE DEF cs, bs, gs, S, sets
<1>5. /\ cs \o bs \in Seq(S) /\ Len(cs \o bs) = NC(p) + NB(p)
      /\ \A i \in 1..NC(p) + NB(p) : (cs \o bs)[i] = IF i <= NC(p) THEN cs[i] ELSE bs[i - NC(p)]
  <2>1. /\ cs \o bs \in Seq(S) /\ Len(cs \o bs) = Len(cs) + Len(bs)
        /\ \A i \in 1..Len(cs) + Len(bs) : (cs \o bs)[i] = IF i <= Len(cs) THEN cs[i] ELSE bs[i - Len(cs)]
    BY <1>3, ConcatProperties
  <2> QED BY <1>3, <2>1
<1> DEFINE cbs == cs \o bs
<1>6. /\ sets \in Seq(S) /\ Len(sets) = (NC(p) + NB(p)) + NG(p)
      /\ \A i \in 1..(NC(p) + NB(p)) + NG(p) : sets[i] = IF i <= NC(p) + NB(p) THEN cbs[i] ELSE gs[i - (NC(p) + NB(p))]
  <2>1. cbs \in Seq(S) /\ Len(cbs) = NC(p) + NB(p) /\ sets = cbs \o gs
    BY <1>2, <1>5
  <2>2. gs \in Seq(S) /\ Len(gs) = NG(p)
    BY <1>3
  <2> DEFINE m == NC(p) + NB(p)
  <2>3. Len(cbs) = m
    BY <2>1
  <2> HIDE DEF cbs, m
  <2>4. /\ sets \in Seq(S) /\ Len(sets) = m + NG(p)
        /\ \A i \in 1..m + NG(p) : sets[i] = IF i <= m THEN cbs[i] ELSE gs[i - m]
    <3>1. /\ cbs \o gs \in Seq(S) /\ Len(cbs \o gs) = Len(cbs) + Len(gs)
          /\ \A i \in 1..Len(cbs) + Len(gs) : (cbs \o gs)[i] = IF i <= Len(cbs) THEN cbs[i] ELSE gs[i - Len(cbs)]
      <4>1. cbs \in Seq(S) /\ gs \in Seq(S)
        BY <2>1, <2>2
      <4> QED BY <4>1, ConcatProperties
    <3> QED BY <2>1, <2>2, <2>3, <3>1
  <2> QED BY <2>4 DEF m
<1>7. ASSUME NEW k \in 1..NC(p) PROVE sets[k] = cs[k]
  <2>1. k \in 1..(NC(p) + NB(p)) + NG(p) /\ k <= NC(p) + NB(p) /\ k \in 1..NC(p) + NB(p) /\ k <= NC(p)
    BY <1>1
  <2> QED BY <1>5, <1>6, <2>1
<1>8. ASSUME NEW k \in 1..NB(p) PROVE sets[NC(p) + k] = bs[k]
  <2> DEFINE i == NC(p) + k
  <2>1. i \in 1..(NC(p) + NB(p)) + NG(p) /\ i <= NC(p) + NB(p) /\ i \in 1..NC(p) + NB(p) /\ ~ (i <= NC(p)) /\ i - NC(p) = k
    BY <1>1
  <2> HIDE DEF i
  <2>2. sets[i] = cbs[i] /\ cbs[i] = bs[i - NC(p)]
    BY <1>5, <1>6, <2>1
  <2> QED BY <2>1, <2>2 DEF i
<1>9. ASSUME NEW k \in 1..NG(p) PROVE sets[NC(p) + NB(p) + k] = gs[k]
  <2> DEFINE i == NC(p) + NB(p) + k
  <2>1. i \in 1..(NC(p) + NB(p)) + NG(p) /\ ~ (i <= NC(p) + NB(p)) /\ i - (NC(p) + NB(p)) = k
    BY <1>1
  <2> HIDE DEF i
  <2>2. sets[i] = gs[i - (NC(p) + NB(p))]
    BY <1>6, <2>1
  <2> QED BY <2>1, <2>2 DEF i
<1> QED BY <1>1, <1>4, <1>6, <1>7, <1>8, <1>9 DEF sets

\* Every edge that is inserted comes from a cable, then from a bridge, then from a bridge group
LEMMA Sorts ==
  ASSUME NEW p, TypedProgram(p), NEW j \in 1..Len(RootExpansions(p)), NEW f \in RootExpansions(p)[j]
  PROVE  \/ j <= NC(p) /\ \E c \in ElementsOf(p.connects) : f \in ConnectEdges(c)
         \/ NC(p) < j /\ j <= NC(p) + NB(p) /\ \E b \in ElementsOf(p.bridges) : f \in RootBridgeEdges(b)
         \/ NC(p) + NB(p) < j /\ \E g \in ElementsOf(p.groups) : f \in BridgeGroupEdges(g)
<1> DEFINE sets == RootExpansions(p)
<1>1. /\ NC(p) \in Nat /\ NB(p) \in Nat /\ NG(p) \in Nat
      /\ DOMAIN p.connects = 1..NC(p) /\ DOMAIN p.bridges = 1..NB(p) /\ DOMAIN p.groups = 1..NG(p)
      /\ Len(sets) = NC(p) + NB(p) + NG(p)
      /\ \A k \in 1..NC(p) : sets[k] = ConnectEdges(p.connects[k])
      /\ \A k \in 1..NB(p) : sets[NC(p) + k] = RootBridgeEdges(p.bridges[k])
      /\ \A k \in 1..NG(p) : sets[NC(p) + NB(p) + k] = BridgeGroupEdges(p.groups[k])
  BY RootExpanded
<1>2. f \in sets[j] /\ j \in 1..NC(p) + NB(p) + NG(p)
  BY <1>1
<1> HIDE DEF sets
<1>3. CASE j <= NC(p)
  <2>1. j \in 1..NC(p) /\ p.connects[j] \in ElementsOf(p.connects)
    BY <1>1, <1>2, <1>3 DEF ElementsOf
  <2> QED BY <1>1, <1>2, <1>3, <2>1
<1>4. CASE NC(p) < j /\ j <= NC(p) + NB(p)
  <2> DEFINE k == j - NC(p)
  <2>1. k \in 1..NB(p) /\ NC(p) + k = j
    BY <1>1, <1>2, <1>4
  <2> HIDE DEF k
  <2>2. f \in RootBridgeEdges(p.bridges[k]) /\ p.bridges[k] \in ElementsOf(p.bridges)
    BY <1>1, <1>2, <2>1 DEF ElementsOf
  <2> QED BY <1>4, <2>2
<1>5. CASE NC(p) + NB(p) < j
  <2> DEFINE k == j - (NC(p) + NB(p))
  <2>1. k \in 1..NG(p) /\ NC(p) + NB(p) + k = j
    BY <1>1, <1>2, <1>5
  <2> HIDE DEF k
  <2>2. f \in BridgeGroupEdges(p.groups[k]) /\ p.groups[k] \in ElementsOf(p.groups)
    BY <1>1, <1>2, <2>1 DEF ElementsOf
  <2> QED BY <1>5, <2>2
<1> QED BY <1>1, <1>2, <1>3, <1>4, <1>5

SamePorts(e, f) == f.sourcePort = e.sourcePort /\ f.targetPort = e.targetPort

\* What may follow "bridge" in an ID
LEMMA AfterBridge ==
  ASSUME NEW s \in Str, NEW t \in Str, <<"bridge">> \o s = <<"bridge">> \o t
  PROVE  s = t
<1>1. <<"bridge">> \in Str
  BY Single DEF Str, Piece
<1> DEFINE k == <<"bridge">>
<1> HIDE DEF k
<1> QED BY <1>1, CancelLeft DEF k

\* An edge with a cable's ID is a cable's edge, with the same text
LEMMA ConnectTwin ==
  ASSUME NEW p, TypedProgram(p), EndsApart(ElementsOf(p.connects)), NEW c \in ElementsOf(p.connects), NEW e \in ConnectEdges(c),
         NEW j \in 1..Len(RootExpansions(p)), NEW f \in RootExpansions(p)[j], f.id = e.id
  PROVE  SamePorts(e, f) /\ \E d \in ElementsOf(p.connects) : f \in ConnectEdges(d)
<1>1. TypedRef(c.source) /\ TypedRef(c.target) /\ TypedMapping(c.mapping)
  BY DEF TypedProgram
<1>2. EndsText(e) \in Str /\ e.id = <<"connect">> \o EndsText(e)
  BY <1>1, ConnectSpelled
<1>3. e.id[1] = "connect"
  BY <1>2, FirstPiece DEF Piece
<1>4. CASE \E d \in ElementsOf(p.connects) : f \in ConnectEdges(d)
  <2>1. PICK d \in ElementsOf(p.connects) : f \in ConnectEdges(d)
    BY <1>4
  <2>2. TypedRef(d.source) /\ TypedRef(d.target) /\ TypedMapping(d.mapping)
    BY DEF TypedProgram
  <2>3. EndsText(f) \in Str /\ f.id = <<"connect">> \o EndsText(f)
    BY <2>1, <2>2, ConnectSpelled
  <2>4. EndsText(e) = EndsText(f)
    <3> DEFINE k == <<"connect">>
    <3>1. k \in Str
      BY Single DEF Str, Piece
    <3>2. k \o EndsText(e) = k \o EndsText(f)
      BY <1>2, <2>3
    <3> HIDE DEF k
    <3> QED BY <1>2, <2>3, <3>1, <3>2, CancelLeft
  <2> QED BY <2>1, <2>4 DEF EndsApart, SamePorts
<1>5. CASE \E b \in ElementsOf(p.bridges) : f \in RootBridgeEdges(b)
  <2>1. PICK b \in ElementsOf(p.bridges) : f \in RootBridgeEdges(b)
    BY <1>5
  <2>2. TypedRef(b.source) /\ TypedRef(b.target)
    BY DEF TypedProgram
  <2>3. PICK rest \in Str : f.id = <<"bridge">> \o rest
    BY <2>1, <2>2, BridgeRead
  <2>4. f.id[1] = "bridge"
    BY <2>3, FirstPiece DEF Piece
  <2> QED BY <1>3, <2>4
<1>6. CASE \E g \in ElementsOf(p.groups) : f \in BridgeGroupEdges(g)
  <2>1. PICK g \in ElementsOf(p.groups) : f \in BridgeGroupEdges(g)
    BY <1>6
  <2>2. TypedRef(g.target) /\ DOMAIN Fanned(g) \subseteq 1..Modulus
    BY DEF TypedProgram
  <2>3. PICK k \in DOMAIN Fanned(g) :
          k - 1 \in Channel /\ f.id = <<"bridge">> \o (<<"group">> \o (TargetText(g) \o Suffix(k - 1)))
    BY <2>1, <2>2, GroupSpelled
  <2> DEFINE rest == <<"group">> \o (TargetText(g) \o Suffix(k - 1))
  <2>4. rest \in Str
    <3>1. TargetText(g) \in Str /\ Suffix(k - 1) \in Str /\ <<"group">> \in Str
      BY <2>1, <2>2, <2>3, GroupSpelled, SuffixTyped, Single DEF MaybeChannel, Str, Piece
    <3> QED BY <3>1, Joins
  <2>5. f.id = <<"bridge">> \o rest
    BY <2>3
  <2> HIDE DEF rest
  <2>6. f.id[1] = "bridge"
    BY <2>4, <2>5, FirstPiece DEF Piece
  <2> QED BY <1>3, <2>6
<1> QED BY <1>4, <1>5, <1>6, Sorts

\* An edge with a bridge's ID has the bridge's source
LEMMA BridgeTwin ==
  ASSUME Reading, NEW b \in LoneBridges, NEW e \in RootBridgeEdges(b),
         NEW j \in 1..Len(RootExpansions(flat)), j > NC(flat), NEW f \in RootExpansions(flat)[j], f.id = e.id
  PROVE  SamePorts(e, f)
<1>1. b \in ElementsOf(flat.bridges) /\ TypedRef(b.source) /\ TypedRef(b.target) /\ Head(b.source.inst) # "group"
  BY ProgramTyped DEF TypedProgram, LoneBridges
<1> DEFINE base == b.source.inst \o b.source.port
<1>2. PICK p \in MaybeChannel, q \in MaybeChannel :
        LET rest == SourceText(e) \o <<"to">> \o Suffix(q)
        IN /\ SourceText(e) = base \o Suffix(p) /\ base \in Str
           /\ rest \in Str /\ rest[1] = Head(b.source.inst)
           /\ e.id = <<"bridge">> \o rest
           /\ e.sourcePort = RootId(b.source, p) /\ e.targetPort = RootId(b.target, q)
  BY <1>1, BridgeRead
<1>3. SourceText(e) \in Str
  BY <1>1, BridgeRead
<1>4. CASE \E d \in ElementsOf(flat.bridges) : f \in RootBridgeEdges(d)
  <2>1. PICK d \in ElementsOf(flat.bridges) : f \in RootBridgeEdges(d)
    BY <1>4
  <2>2. TypedRef(d.source) /\ TypedRef(d.target)
    BY ProgramTyped DEF TypedProgram
  <2>3. PICK r \in MaybeChannel, s \in MaybeChannel :
          LET rest == SourceText(f) \o <<"to">> \o Suffix(s)
          IN /\ SourceText(f) = (d.source.inst \o d.source.port) \o Suffix(r)
             /\ rest \in Str /\ f.id = <<"bridge">> \o rest
             /\ f.sourcePort = RootId(d.source, r) /\ f.targetPort = RootId(d.target, s)
    BY <2>1, <2>2, BridgeRead
  <2>4. SourceText(f) \in Str
    BY <2>1, <2>2, BridgeRead
  <2>5. SourceText(e) \o <<"to">> \o Suffix(q) = SourceText(f) \o <<"to">> \o Suffix(s)
    BY <1>2, <2>3, AfterBridge
  <2>6. SourceText(e) = SourceText(f) /\ q = s
    <3> DEFINE mine == SourceText(e)
               other == SourceText(f)
    <3>1. mine \in Str /\ other \in Str /\ mine \o <<"to">> \o Suffix(q) = other \o <<"to">> \o Suffix(s)
      BY <1>3, <2>4, <2>5
    <3> HIDE DEF mine, other
    <3>2. \A c1 \in MaybeChannel, c2 \in MaybeChannel :
            mine \o <<"to">> \o Suffix(c1) = other \o <<"to">> \o Suffix(c2) => mine = other /\ c1 = c2
      BY <3>1, ReadApart, Zenon
    <3>3. mine = other /\ q = s
      BY <3>1, <3>2, Zenon
    <3> QED BY <3>3 DEF mine, other
  <2>7. d = b
    BY <2>1, <2>6 DEF LoneBridges
  <2>8. base \o Suffix(p) = base \o Suffix(r)
    BY <1>2, <2>3, <2>6, <2>7
  <2>9. p = r
    <3>1. base \in Str /\ Suffix(p) \in Str /\ Suffix(r) \in Str
      BY <1>2, SuffixTyped
    <3> HIDE DEF base
    <3>2. Suffix(p) = Suffix(r)
      BY <2>8, <3>1, CancelLeft
    <3> QED BY <3>2, SuffixesDiffer
  <2> QED BY <1>2, <2>3, <2>6, <2>7, <2>9 DEF SamePorts
<1>5. CASE \E g \in ElementsOf(flat.groups) : f \in BridgeGroupEdges(g)
  <2>1. PICK g \in ElementsOf(flat.groups) : f \in BridgeGroupEdges(g)
    BY <1>5
  <2>2. TypedRef(g.target) /\ DOMAIN Fanned(g) \subseteq 1..Modulus
    BY ProgramTyped DEF TypedProgram
  <2>3. PICK k \in DOMAIN Fanned(g) :
          k - 1 \in Channel /\ f.id = <<"bridge">> \o (<<"group">> \o (TargetText(g) \o Suffix(k - 1)))
    BY <2>1, <2>2, GroupSpelled
  <2> DEFINE tail == TargetText(g) \o Suffix(k - 1)
             rest == <<"group">> \o tail
             mine == SourceText(e) \o <<"to">> \o Suffix(q)
  <2>4. tail \in Str
    <3>1. TargetText(g) \in Str /\ Suffix(k - 1) \in Str
      BY <2>1, <2>2, <2>3, GroupSpelled, SuffixTyped DEF MaybeChannel
    <3> QED BY <3>1, Joins
  <2>5. mine \in Str /\ mine[1] = Head(b.source.inst) /\ e.id = <<"bridge">> \o mine
    BY <1>2
  <2> HIDE DEF tail, mine
  <2>6. rest \in Str /\ rest[1] = "group"
    <3>1. <<"group">> \in Str
      BY Single DEF Str, Piece
    <3> QED BY <2>4, <3>1, Joins, FirstPiece DEF Piece
  <2>7. f.id = <<"bridge">> \o rest
    BY <2>3 DEF tail
  <2> HIDE DEF rest
  <2>8. rest = mine
    BY <2>5, <2>6, <2>7, AfterBridge
  <2> QED BY <1>1, <2>5, <2>6, <2>8
<1>6. NC(flat) \in Nat
  BY ProgramTyped, RootExpanded
<1> QED BY <1>4, <1>5, <1>6, ProgramTyped, Sorts

\* An edge with a bridge group's ID has the group's target
LEMMA GroupTwin ==
  ASSUME Reading, NEW g \in LoneGroups, NEW e \in BridgeGroupEdges(g),
         NEW j \in 1..Len(RootExpansions(flat)), j > NC(flat) + NB(flat), NEW f \in RootExpansions(flat)[j], f.id = e.id
  PROVE  SamePorts(e, f)
<1>1. NC(flat) \in Nat /\ NB(flat) \in Nat
  BY ProgramTyped, RootExpanded
<1>2. PICK h \in ElementsOf(flat.groups) : f \in BridgeGroupEdges(h)
  BY <1>1, ProgramTyped, Sorts
<1>3. /\ g \in ElementsOf(flat.groups)
      /\ TypedRef(g.target) /\ DOMAIN Fanned(g) \subseteq 1..Modulus
      /\ TypedRef(h.target) /\ DOMAIN Fanned(h) \subseteq 1..Modulus
  BY ProgramTyped DEF TypedProgram, LoneGroups
<1>4. TargetText(g) \in Str /\ TargetText(h) \in Str
  BY <1>2, <1>3, GroupSpelled
<1>5. PICK k \in DOMAIN Fanned(g) :
        /\ k - 1 \in Channel
        /\ e.id = <<"bridge">> \o (<<"group">> \o (TargetText(g) \o Suffix(k - 1)))
        /\ e.sourcePort = Fanned(g)[k]
        /\ e.targetPort = RootId(g.target, (FirstTarget(g) + k - 1) % Modulus)
  BY <1>3, GroupSpelled
<1>6. PICK l \in DOMAIN Fanned(h) :
        /\ l - 1 \in Channel
        /\ f.id = <<"bridge">> \o (<<"group">> \o (TargetText(h) \o Suffix(l - 1)))
        /\ f.sourcePort = Fanned(h)[l]
        /\ f.targetPort = RootId(h.target, (FirstTarget(h) + l - 1) % Modulus)
  BY <1>2, <1>3, GroupSpelled
<1> DEFINE G == TargetText(g)
           H == TargetText(h)
           x == Suffix(k - 1)
           y == Suffix(l - 1)
           word == <<"group">>
<1>7. /\ x \in Str /\ x = <<Numeral[k - 1]>> /\ Numeral[k - 1] \in Piece
      /\ y \in Str /\ y = <<Numeral[l - 1]>> /\ Numeral[l - 1] \in Piece
  <2>1. k - 1 \in MaybeChannel /\ k - 1 # NoChannel /\ l - 1 \in MaybeChannel /\ l - 1 # NoChannel
    BY <1>5, <1>6, Width DEF MaybeChannel, Channel, NoChannel
  <2> QED BY <2>1, SuffixTyped
<1>8. word \in Str
  BY Single DEF Str, Piece
<1>9. G \o x = H \o y
  <2>1. <<"bridge">> \o (word \o (G \o x)) = <<"bridge">> \o (word \o (H \o y))
    BY <1>5, <1>6
  <2>2. G \o x \in Str /\ H \o y \in Str
    <3> HIDE DEF G, H, x, y
    <3>1. G \in Str /\ H \in Str
      BY <1>4 DEF G, H
    <3> QED BY <1>7, <3>1, Joins
  <2> HIDE DEF G, H, x, y, word
  <2>3. word \o (G \o x) \in Str /\ word \o (H \o y) \in Str
    BY <1>8, <2>2, Joins
  <2>4. word \o (G \o x) = word \o (H \o y)
    BY <2>1, <2>3, AfterBridge
  <2> QED BY <1>8, <2>2, <2>4, CancelLeft
<1>10. G = H /\ Numeral[k - 1] = Numeral[l - 1]
  <2>1. G \in Str /\ H \in Str
    BY <1>4
  <2> DEFINE m == Numeral[k - 1]
             n == Numeral[l - 1]
  <2>2. m \in Piece /\ n \in Piece /\ G \o <<m>> = H \o <<n>>
    BY <1>7, <1>9
  <2> HIDE DEF G, H, x, y, m, n
  <2>3. /\ Len(G) \in Nat /\ Len(G \o <<m>>) = Len(G) + 1 /\ (G \o <<m>>)[Len(G) + 1] = m
        /\ Len(H) \in Nat /\ Len(H \o <<n>>) = Len(H) + 1 /\ (H \o <<n>>)[Len(H) + 1] = n
    BY <2>1, <2>2, OnePiece
  <2>4. Len(G) = Len(H) /\ m = n
    BY <2>2, <2>3
  <2>5. <<m>> \in Str /\ G \o <<m>> = H \o <<m>>
    BY <2>1, <2>2, <2>4, OnePiece
  <2>6. G = H
    BY <2>1, <2>5, CancelRight
  <2> QED BY <2>4, <2>6 DEF m, n
<1>11. h = g
  BY <1>2, <1>10 DEF LoneGroups
<1>12. k = l
  <2>1. k - 1 = l - 1
    BY <1>5, <1>6, <1>10, NumeralsDiffer DEF Channel
  <2> QED BY <1>3, <1>11, <2>1
<1> QED BY <1>5, <1>6, <1>11, <1>12 DEF SamePorts

-----------------------------------------------------------------------------
(* What was asked for and has its two ports is an edge of the root.        *)

\* An edge that is inserted and whose two ports exist passes through both passes as it is
LEMMA PortsPass ==
  ASSUME NEW nodes, NEW edges, NEW f \in edges,
         f.sourcePort \in AllIds(nodes), f.targetPort \in AllIds(nodes)
  PROVE  <<f.sourcePort, f.targetPort>> \in Joined(DropOverRange(nodes, ApplyFallback(nodes, edges)))
<1> DEFINE g == [f EXCEPT !.sourcePort = Fallback(nodes, f.sourceNode, @), !.targetPort = Fallback(nodes, f.targetNode, @)]
<1>1. Fallback(nodes, f.sourceNode, f.sourcePort) = f.sourcePort /\ Fallback(nodes, f.targetNode, f.targetPort) = f.targetPort
  BY DEF Fallback
<1>2. g \in ApplyFallback(nodes, edges)
  BY DEF ApplyFallback
<1>3. g.sourcePort = f.sourcePort /\ g.targetPort = f.targetPort
  BY <1>1
<1> HIDE DEF g
<1>4. ~ OverRange(nodes, g.sourcePort) /\ ~ OverRange(nodes, g.targetPort)
  BY <1>3 DEF OverRange
<1>5. g \in DropOverRange(nodes, ApplyFallback(nodes, edges))
  BY <1>2, <1>4 DEF DropOverRange
<1> QED BY <1>3, <1>5 DEF Joined

\* An edge that every edge with its ID agrees with is drawn, whoever is inserted last
LEMMA InsertedDrawn ==
  ASSUME NEW p, TypedProgram(p), NEW nodes, NEW k \in 1..Len(RootExpansions(p)), NEW e \in RootExpansions(p)[k],
         \A j \in 1..Len(RootExpansions(p)) : \A f \in RootExpansions(p)[j] :
           k <= j /\ f.id = e.id => SamePorts(e, f),
         e.sourcePort \in AllIds(nodes), e.targetPort \in AllIds(nodes)
  PROVE  <<e.sourcePort, e.targetPort>> \in Joined(DropOverRange(nodes, ApplyFallback(nodes, RootEdges(p))))
<1> DEFINE sets == RootExpansions(p)
<1>1. PICK S : sets \in Seq(S)
  BY RootExpanded
<1>2. Len(sets) \in Nat
  BY <1>1, LenProperties
<1>3. PICK j \in k..Len(sets) : \E f \in sets[j] : f.id = e.id /\ f \in Inserted(sets)
  <2>1. k \in 1..Len(sets) /\ e \in sets[k]
    OBVIOUS
  <2> HIDE DEF sets
  <2> QED BY <1>1, <2>1, LastStays
<1>4. PICK f \in sets[j] : f.id = e.id /\ f \in Inserted(sets)
  BY <1>3
<1>5. j \in 1..Len(sets) /\ k <= j
  BY <1>2, <1>3
<1>6. f.sourcePort = e.sourcePort /\ f.targetPort = e.targetPort
  BY <1>4, <1>5 DEF SamePorts
<1>7. f \in RootEdges(p)
  BY <1>4 DEF RootEdges
<1> QED BY <1>6, <1>7, PortsPass

\* What cables, lone bridges and lone groups ask for is among the root's edges
LEMMA AskedIsDrawn ==
  ASSUME Reading, EndsApart(Cables), NEW nodes
  PROVE  LET asked == UNION ({Joined(ConnectEdges(c)) : c \in Cables} \cup {Joined(RootBridgeEdges(b)) : b \in LoneBridges}
                             \cup {Joined(BridgeGroupEdges(g)) : g \in LoneGroups})
         IN asked \cap (AllIds(nodes) \X AllIds(nodes))
              \subseteq Joined(DropOverRange(nodes, ApplyFallback(nodes, RootEdges(flat))))
<1> DEFINE sets == RootExpansions(flat)
           drawn == Joined(DropOverRange(nodes, ApplyFallback(nodes, RootEdges(flat))))
           Exist(e) == e.sourcePort \in AllIds(nodes) /\ e.targetPort \in AllIds(nodes)
<1>1. /\ NC(flat) \in Nat /\ NB(flat) \in Nat /\ NG(flat) \in Nat
      /\ DOMAIN flat.connects = 1..NC(flat) /\ DOMAIN flat.bridges = 1..NB(flat) /\ DOMAIN flat.groups = 1..NG(flat)
      /\ Len(sets) = NC(flat) + NB(flat) + NG(flat)
      /\ \A k \in 1..NC(flat) : sets[k] = ConnectEdges(flat.connects[k])
      /\ \A k \in 1..NB(flat) : sets[NC(flat) + k] = RootBridgeEdges(flat.bridges[k])
      /\ \A k \in 1..NG(flat) : sets[NC(flat) + NB(flat) + k] = BridgeGroupEdges(flat.groups[k])
  BY ProgramTyped, RootExpanded
<1>2. ASSUME NEW c \in Cables, NEW e \in ConnectEdges(c), Exist(e)
      PROVE  <<e.sourcePort, e.targetPort>> \in drawn
  <2>1. PICK k \in 1..NC(flat) : c = flat.connects[k]
    BY <1>1 DEF Cables, ElementsOf
  <2>2. k \in 1..Len(sets) /\ e \in sets[k]
    BY <1>1, <2>1
  <2> QED BY <1>2, <2>2, ProgramTyped, ConnectTwin, InsertedDrawn DEF Cables
<1>3. ASSUME NEW b \in LoneBridges, NEW e \in RootBridgeEdges(b), Exist(e)
      PROVE  <<e.sourcePort, e.targetPort>> \in drawn
  <2>1. PICK i \in 1..NB(flat) : b = flat.bridges[i]
    BY <1>1 DEF LoneBridges, ElementsOf
  <2> DEFINE k == NC(flat) + i
  <2>2. k \in 1..Len(sets) /\ e \in sets[k] /\ \A j \in 1..Len(sets) : k <= j => j > NC(flat)
    BY <1>1, <2>1
  <2> HIDE DEF k
  <2> QED BY <1>3, <2>2, ProgramTyped, BridgeTwin, InsertedDrawn
<1>4. ASSUME NEW g \in LoneGroups, NEW e \in BridgeGroupEdges(g), Exist(e)
      PROVE  <<e.sourcePort, e.targetPort>> \in drawn
  <2>1. PICK i \in 1..NG(flat) : g = flat.groups[i]
    BY <1>1 DEF LoneGroups, ElementsOf
  <2> DEFINE k == NC(flat) + NB(flat) + i
  <2>2. k \in 1..Len(sets) /\ e \in sets[k] /\ \A j \in 1..Len(sets) : k <= j => j > NC(flat) + NB(flat)
    BY <1>1, <2>1
  <2> HIDE DEF k
  <2> QED BY <1>4, <2>2, ProgramTyped, GroupTwin, InsertedDrawn
<1> HIDE DEF sets, drawn
<1>5. ASSUME NEW c \in Cables, NEW p \in Joined(ConnectEdges(c)), p \in AllIds(nodes) \X AllIds(nodes) PROVE p \in drawn
  BY <1>2, <1>5 DEF Joined
<1>6. ASSUME NEW b \in LoneBridges, NEW p \in Joined(RootBridgeEdges(b)), p \in AllIds(nodes) \X AllIds(nodes) PROVE p \in drawn
  BY <1>3, <1>6 DEF Joined
<1>7. ASSUME NEW g \in LoneGroups, NEW p \in Joined(BridgeGroupEdges(g)), p \in AllIds(nodes) \X AllIds(nodes) PROVE p \in drawn
  BY <1>4, <1>7 DEF Joined
<1>8. SUFFICES ASSUME NEW p \in UNION ({Joined(ConnectEdges(c)) : c \in Cables}
                             \cup {Joined(RootBridgeEdges(b)) : b \in LoneBridges}
                             \cup {Joined(BridgeGroupEdges(g)) : g \in LoneGroups}),
                      p \in AllIds(nodes) \X AllIds(nodes)
               PROVE  p \in drawn
  BY DEF drawn
<1> QED BY <1>5, <1>6, <1>7, <1>8

-----------------------------------------------------------------------------
(* The two graphs that are compiled.                                       *)

\* Once compiled, the graphs are those of the two programs, which stay
Compiled ==
  compiled # <<>> => phase = "done" /\ compiled = [program \in {flat, grouped} |-> CompileToGraph(program)]

\* Contracting never happens after its end
LEMMA ContractingEnds == Next => phase # "done"
BY DEF Next, Group, KeepInside, RewireSource, RewireTarget, RewireBoth, LeaveOnTop, Classifying, ConnectsDone,
       PromoteOrigin, KeepOrigin, Tracing, SignalsDone, Assemble

\* What is compiled is what a finished contraction made
LEMMA CompiledHolds == IInv /\ Compiled /\ [ViewNext]_<<vars, compiled>> => IInv' /\ Compiled'
<1> SUFFICES ASSUME IInv, Compiled, [ViewNext]_<<vars, compiled>> PROVE IInv' /\ Compiled'
  OBVIOUS
<1>1. CASE Contracting
  <2>1. Next /\ compiled' = compiled
    BY <1>1 DEF Contracting
  <2>2. compiled = <<>>
    BY <2>1, ContractingEnds DEF Compiled
  <2> QED BY <2>1, <2>2, NextHolds DEF Compiled
<1>2. CASE Compile
  <2>1. IInv'
    BY <1>2, StutterHolds DEF Compile
  <2>2. flat' = flat /\ grouped' = grouped /\ phase' = "done"
    BY <1>2 DEF Compile, vars
  <2>3. compiled' = [program \in {flat, grouped} |-> CompileToGraph(program)]
    BY <1>2 DEF Compile
  <2> QED BY <2>1, <2>2, <2>3 DEF Compiled
<1>3. CASE UNCHANGED <<vars, compiled>>
  <2>1. IInv'
    BY <1>3, StutterHolds
  <2>2. flat' = flat /\ grouped' = grouped /\ phase' = phase /\ compiled' = compiled
    BY <1>3 DEF vars
  <2> QED BY <2>1, <2>2 DEF Compiled
<1> QED BY <1>1, <1>2, <1>3 DEF ViewNext

\* The invariant of contraction and compilation together
LEMMA GraphsOfPrograms == ViewSpec => [](IInv /\ Compiled)
<1>1. ViewInit => IInv /\ Compiled
  BY InitHolds DEF ViewInit, Compiled
<1> QED BY <1>1, CompiledHolds, PTL DEF ViewSpec

\* What the invariant says of the edges of the flat root
LEMMA InvariantDraws == IInv /\ Compiled => CablesDrawn
<1> SUFFICES ASSUME IInv, Compiled, Done, EndsApart(Cables) PROVE CablesDrawn
  BY DEF CablesDrawn
<1>1. Reading
  BY DEF IInv
<1>2. FlatGraph = CompileToGraph(flat)
  BY DEF Compiled, Done, FlatGraph
<1>3. FlatGraph.root = Root(flat)
  BY <1>2 DEF CompileToGraph
<1> DEFINE nodes == Root(flat).nodes
<1>4. Root(flat).edges = DropOverRange(nodes, ApplyFallback(nodes, RootEdges(flat)))
  BY DEF Root, Finish
<1> HIDE DEF nodes
<1>5. FlatGraph.root.nodes = nodes
        /\ FlatGraph.root.edges = DropOverRange(nodes, ApplyFallback(nodes, RootEdges(flat)))
  BY <1>3, <1>4 DEF nodes
<1> QED BY <1>1, <1>5, AskedIsDrawn DEF CablesDrawn

\* In the graph of every program whose cables spell no two pairs of ports alike, each channel pair
\* that a cable, a bridge or a bridge group asks for is an edge when both ports exist: no other
\* expansion takes its ID, and neither the fallback nor the range check touches it (graph/mod.rs).
THEOREM EveryCableIsDrawn == ViewSpec => []CablesDrawn
BY GraphsOfPrograms, InvariantDraws, PTL

-----------------------------------------------------------------------------
(* Sets of numbers and sequences in order.                                 *)

\* As many numbers of a finite set are below its members as there are positions
LEMMA Ranks ==
  ASSUME NEW S, IsFiniteSet(S), S \subseteq Int
  PROVE  /\ Cardinality(S) \in Nat
         /\ \A n \in 1..Cardinality(S) : \E m \in S : Cardinality({l \in S : l < m}) = n - 1
         /\ \A m \in S : Cardinality({l \in S : l < m}) + 1 \in 1..Cardinality(S)
         /\ \A m \in S, k \in S : Cardinality({l \in S : l < m}) = Cardinality({l \in S : l < k}) => m = k
<1> DEFINE Below(m) == {l \in S : l < m}
           rank == [m \in S |-> Cardinality(Below(m))]
           N == Cardinality(S)
<1>1. N \in Nat
  BY FS_CardinalityType
<1>2. ASSUME NEW m \in S
      PROVE  IsFiniteSet(Below(m)) /\ Cardinality(Below(m)) \in 0..(N - 1)
  <2>1. Below(m) \in SUBSET S /\ Below(m) # S
    OBVIOUS
  <2>2. IsFiniteSet(Below(m)) /\ Cardinality(Below(m)) <= N /\ N # Cardinality(Below(m))
    BY <2>1, FS_Subset
  <2>3. Cardinality(Below(m)) \in Nat
    BY <2>2, FS_CardinalityType
  <2> HIDE DEF Below, N
  <2> QED BY <1>1, <2>2, <2>3
<1>3. ASSUME NEW m \in S, NEW k \in S, m < k
      PROVE  Cardinality(Below(m)) # Cardinality(Below(k))
  <2>0. m \in Int /\ k \in Int
    OBVIOUS
  <2>1. Below(m) \in SUBSET Below(k) /\ m \in Below(k) /\ m \notin Below(m)
    <3>1. \A l \in S : l < m => l < k
      BY <1>3, <2>0
    <3>2. ~ (m < m)
      BY <2>0
    <3> QED BY <1>3, <3>1, <3>2
  <2>2. IsFiniteSet(Below(k))
    BY <1>2
  <2> HIDE DEF Below
  <2> QED BY <2>1, <2>2, FS_Subset
<1>4. ASSUME NEW m \in S, NEW k \in S, Cardinality(Below(m)) = Cardinality(Below(k))
      PROVE  m = k
  <2>1. m \in Int /\ k \in Int
    OBVIOUS
  <2> HIDE DEF Below
  <2>2. ~ (m < k) /\ ~ (k < m)
    BY <1>3, <1>4
  <2> QED BY <2>1, <2>2
<1>5. rank \in Injection(S, 0..(N - 1))
  <2>1. rank \in [S -> 0..(N - 1)]
    BY <1>2
  <2>2. \A m, k \in S : rank[m] = rank[k] => m = k
    BY <1>4
  <2> HIDE DEF rank
  <2> QED BY <2>1, <2>2 DEF Injection, IsInjective
<1>6. IsFiniteSet(0..(N - 1)) /\ Cardinality(0..(N - 1)) = N
  <2> HIDE DEF N
  <2> QED BY <1>1, FS_Interval
<1>7. rank \in Surjection(S, 0..(N - 1))
  BY <1>5, <1>6, FS_Injection
<1>8. ASSUME NEW n \in 1..N PROVE \E m \in S : Cardinality(Below(m)) = n - 1
  <2>1. n - 1 \in 0..(N - 1)
    BY <1>1
  <2>2. PICK m \in S : rank[m] = n - 1
    BY <1>7, <2>1 DEF Surjection
  <2> QED BY <2>2
<1>9. ASSUME NEW m \in S PROVE Cardinality(Below(m)) + 1 \in 1..N
  <2>1. Cardinality(Below(m)) \in 0..(N - 1)
    BY <1>2
  <2> HIDE DEF Below, N
  <2> QED BY <1>1, <2>1
<1> QED BY <1>1, <1>4, <1>8, <1>9

\* A finite set of numbers in order is a sequence of its elements
LEMMA AscendingIs ==
  ASSUME NEW S, IsFiniteSet(S), S \subseteq Int
  PROVE  /\ Cardinality(S) \in Nat
         /\ Ascending(S) \in Seq(S) /\ Len(Ascending(S)) = Cardinality(S) /\ DOMAIN Ascending(S) = 1..Cardinality(S)
         /\ ElementsOf(Ascending(S)) = S
<1> DEFINE Rank(m) == Cardinality({l \in S : l < m})
           N == Cardinality(S)
           a == Ascending(S)
<1>1. N \in Nat
  BY Ranks
<1>2. a = [n \in 1..N |-> CHOOSE m \in S : Rank(m) = n - 1]
  BY DEF Ascending
<1>3. \A n \in 1..N : \E m \in S : Rank(m) = n - 1
  BY Ranks
<1>4. \A m \in S : Rank(m) + 1 \in 1..N
  BY Ranks
<1>5. \A m \in S, k \in S : Rank(m) = Rank(k) => m = k
  BY Ranks
<1>6. \A m \in S : Rank(m) \in Nat
  <2>1. \A m \in S : {l \in S : l < m} \in SUBSET S
    OBVIOUS
  <2> QED BY <2>1, FS_Subset, FS_CardinalityType
<1> HIDE DEF Rank, a, N
<1>7. \A n \in 1..N : a[n] \in S /\ Rank(a[n]) = n - 1
  BY <1>2, <1>3
<1>8. a \in Seq(S) /\ Len(a) = N /\ DOMAIN a = 1..N
  BY <1>1, <1>2, <1>7
<1>9. ASSUME NEW m \in S PROVE m \in ElementsOf(a)
  <2> DEFINE n == Rank(m) + 1
  <2>1. n \in 1..N /\ n - 1 = Rank(m)
    BY <1>4, <1>6
  <2> HIDE DEF n
  <2>2. a[n] = m
    BY <1>5, <1>7, <2>1
  <2> QED BY <1>8, <2>1, <2>2 DEF ElementsOf
<1>10. ElementsOf(a) = S
  BY <1>7, <1>8, <1>9 DEF ElementsOf
<1> QED BY <1>1, <1>8, <1>10 DEF a, N

\* The elements at a set of positions, in order, are as many as the positions
LEMMA AllAtIs ==
  ASSUME NEW seq, NEW among, IsFiniteSet(among), among \subseteq Int
  PROVE  /\ AllAt(seq, among) \in Seq({seq[k] : k \in among})
         /\ Cardinality(among) \in Nat /\ Len(AllAt(seq, among)) = Cardinality(among) /\ DOMAIN AllAt(seq, among) = 1..Cardinality(among)
         /\ \A n \in 1..Cardinality(among) : Ascending(among)[n] \in among /\ AllAt(seq, among)[n] = seq[Ascending(among)[n]]
         /\ ElementsOf(AllAt(seq, among)) = {seq[k] : k \in among}
<1> DEFINE N == Cardinality(among)
           a == Ascending(among)
           T == {seq[k] : k \in among}
<1>1. N \in Nat /\ a \in Seq(among) /\ Len(a) = N /\ DOMAIN a = 1..N /\ ElementsOf(a) = among
  BY AscendingIs
<1>2. AllAt(seq, among) = [n \in 1..N |-> seq[a[n]]]
  BY DEF AllAt
<1> HIDE DEF N, a
<1>3. \A n \in 1..N : a[n] \in among
  BY <1>1, ElementOfSeq
<1>4. AllAt(seq, among) \in [1..N -> T]
  BY <1>2, <1>3
<1>5. AllAt(seq, among) \in Seq(T) /\ Len(AllAt(seq, among)) = N /\ DOMAIN AllAt(seq, among) = 1..N
  <2> HIDE DEF T
  <2> QED BY <1>1, <1>4
<1>6. ElementsOf(AllAt(seq, among)) = T
  <2>1. \A n \in 1..N : AllAt(seq, among)[n] = seq[a[n]] /\ seq[a[n]] \in T
    BY <1>2, <1>3
  <2>2. ElementsOf(AllAt(seq, among)) \subseteq T
    <3> HIDE DEF T
    <3> QED BY <1>5, <2>1 DEF ElementsOf
  <2>3. ASSUME NEW k \in among PROVE seq[k] \in ElementsOf(AllAt(seq, among))
    <3>1. PICK n \in 1..N : k = a[n]
      BY <1>1 DEF ElementsOf
    <3> QED BY <1>2, <1>5, <3>1 DEF ElementsOf
  <2> QED BY <2>2, <2>3
<1> QED BY <1>1, <1>2, <1>3, <1>5, <1>6 DEF N, a

\* and of the type of the sequence
LEMMA AllAtTyped ==
  ASSUME NEW S, NEW seq, NEW among, IsFiniteSet(among), among \subseteq Int, \A k \in among : seq[k] \in S
  PROVE  AllAt(seq, among) \in Seq(S)
<1>1. /\ Cardinality(among) \in Nat
      /\ \A n \in 1..Cardinality(among) : Ascending(among)[n] \in among
      /\ AllAt(seq, among) = [n \in 1..Cardinality(among) |-> seq[Ascending(among)[n]]]
  BY AllAtIs DEF AllAt
<1>2. AllAt(seq, among) \in [1..Cardinality(among) -> S]
  BY <1>1
<1> QED BY <1>1, <1>2

\* The element at the first of some positions stands at one that is below all
LEMMA FirstAtIs ==
  ASSUME NEW seq, NEW among, among \subseteq Nat, among # {}
  PROVE  \E k \in among : FirstAt(seq, among) = seq[k] /\ \A j \in among : k <= j
<1>1. \E k \in among : \A j \in among : k <= j
  BY LeastNatural
<1> DEFINE k == CHOOSE k \in among : \A j \in among : k <= j
<1>2. k \in among /\ \A j \in among : k <= j
  BY <1>1
<1>3. FirstAt(seq, among) = seq[k]
  BY DEF FirstAt
<1> QED BY <1>2, <1>3

\* A finite set as a sequence of its elements, none twice
LEMMA SetToSeqIs ==
  ASSUME NEW S, IsFiniteSet(S)
  PROVE  /\ SetToSeq(S) \in Seq(S) /\ DOMAIN SetToSeq(S) = 1..Len(SetToSeq(S))
         /\ Len(SetToSeq(S)) \in Nat /\ ElementsOf(SetToSeq(S)) = S
         /\ \A i, j \in DOMAIN SetToSeq(S) : SetToSeq(S)[i] = SetToSeq(S)[j] => i = j
<1> DEFINE N == Cardinality(S)
           f == SetToSeq(S)
<1>1. N \in Nat /\ ExistsBijection(1..N, S)
  BY FS_CardinalityType
<1>2. PICK b \in Bijection(1..N, S) : TRUE
  BY <1>1 DEF ExistsBijection
<1>3. b \in [1..N -> S] /\ IsInjective(b)
  BY <1>2 DEF Bijection, Injection, IsInjective
<1>4. f \in [1..N -> S] /\ IsInjective(f)
  BY <1>3 DEF SetToSeq
<1> HIDE DEF f
<1>5. f \in Injection(1..N, S)
  BY <1>4 DEF Injection, IsInjective
<1>6. IsFiniteSet(1..N) /\ Cardinality(1..N) = N
  <2> HIDE DEF N
  <2> QED BY <1>1, FS_Interval
<1>7. f \in Surjection(1..N, S)
  BY <1>5, <1>6, FS_Injection
<1> HIDE DEF N
<1>8. f \in Seq(S) /\ Len(f) = N /\ DOMAIN f = 1..N
  BY <1>1, <1>4
<1>9. ElementsOf(f) = S
  BY <1>7, <1>8 DEF Surjection, ElementsOf
<1>10. \A i, j \in DOMAIN f : f[i] = f[j] => i = j
  BY <1>4, <1>8 DEF IsInjective
<1> QED BY <1>1, <1>8, <1>9, <1>10 DEF f

\* The elements of two sequences one after the other are those of both
LEMMA ConcatElements ==
  ASSUME NEW S, NEW s \in Seq(S), NEW t \in Seq(S)
  PROVE  ElementsOf(s \o t) = ElementsOf(s) \cup ElementsOf(t)
<1>1. /\ Len(s) \in Nat /\ Len(t) \in Nat /\ DOMAIN s = 1..Len(s) /\ DOMAIN t = 1..Len(t)
      /\ DOMAIN (s \o t) = 1..(Len(s) + Len(t))
      /\ \A i \in 1..Len(s) + Len(t) : (s \o t)[i] = IF i <= Len(s) THEN s[i] ELSE t[i - Len(s)]
  BY LenProperties, ConcatProperties
<1> DEFINE m == Len(s)
           n == Len(t)
           u == s \o t
<1>2. /\ m \in Nat /\ n \in Nat /\ DOMAIN s = 1..m /\ DOMAIN t = 1..n /\ DOMAIN u = 1..(m + n)
      /\ \A i \in 1..(m + n) : u[i] = IF i <= m THEN s[i] ELSE t[i - m]
  BY <1>1
<1> HIDE DEF m, n, u
<1>3. ASSUME NEW i \in DOMAIN s PROVE s[i] \in ElementsOf(u)
  <2>1. i \in 1..(m + n) /\ i <= m
    BY <1>2
  <2> QED BY <1>2, <2>1 DEF ElementsOf
<1>4. ASSUME NEW i \in DOMAIN t PROVE t[i] \in ElementsOf(u)
  <2>1. m + i \in 1..(m + n) /\ ~ (m + i <= m) /\ m + i - m = i
    BY <1>2
  <2>2. u[m + i] = t[i]
    BY <1>2, <2>1
  <2> QED BY <1>2, <2>1, <2>2 DEF ElementsOf
<1>5. ASSUME NEW i \in DOMAIN u PROVE u[i] \in ElementsOf(s) \cup ElementsOf(t)
  <2>1. CASE i <= m
    <3>1. i \in DOMAIN s /\ u[i] = s[i]
      BY <1>2, <2>1
    <3> QED BY <3>1 DEF ElementsOf
  <2>2. CASE ~ (i <= m)
    <3>1. i - m \in DOMAIN t /\ u[i] = t[i - m]
      BY <1>2, <2>2
    <3> QED BY <3>1 DEF ElementsOf
  <2> QED BY <2>1, <2>2
<1>6. ElementsOf(u) = ElementsOf(s) \cup ElementsOf(t)
  BY <1>3, <1>4, <1>5 DEF ElementsOf
<1> QED BY <1>6 DEF u

\* Flattening from the first sequence on, as the fold of SequencesExt goes
LEMMA FromZero ==
  ASSUME NEW S, 0 \in S, \A n \in Nat : n \in S => n + 1 \in S
  PROVE  Nat \subseteq S
<1> SUFFICES ASSUME Nat \ S # {} PROVE FALSE
  OBVIOUS
<1>1. PICK m \in Nat \ S : \A n \in Nat \ S : m <= n
  BY LeastNatural
<1>2. m # 0 /\ m - 1 \in Nat /\ m - 1 \in S
  BY <1>1
<1> QED BY <1>1, <1>2

\* Sequences put one after the other, from the first to each of them
LEMMA Flattening ==
  ASSUME NEW ss, NEW N \in Nat
  PROVE  \E f : f = [i \in 1..N |-> IF i = 1 THEN ss[i] ELSE f[i - 1] \o ss[i]]
<1> DEFINE T == {n \in Nat : \E f : f = [i \in 1..n |-> IF i = 1 THEN ss[i] ELSE f[i - 1] \o ss[i]]}
<1>1. 0 \in T
  <2> DEFINE f == [i \in 1..0 |-> ss[i]]
  <2>1. f = [i \in 1..0 |-> IF i = 1 THEN ss[i] ELSE f[i - 1] \o ss[i]]
    OBVIOUS
  <2> HIDE DEF f
  <2> QED BY <2>1
<1>2. ASSUME NEW n \in Nat, n \in T PROVE n + 1 \in T
  <2>1. PICK f : f = [i \in 1..n |-> IF i = 1 THEN ss[i] ELSE f[i - 1] \o ss[i]]
    BY <1>2
  <2> DEFINE last == IF n + 1 = 1 THEN ss[n + 1] ELSE f[n] \o ss[n + 1]
             g == [i \in 1..n + 1 |-> IF i = n + 1 THEN last ELSE f[i]]
  <2>2. g = [i \in 1..n + 1 |-> g[i]] /\ g[n + 1] = last /\ \A i \in 1..n : g[i] = f[i]
    <3>1. n + 1 \in 1..n + 1 /\ \A i \in 1..n : i \in 1..n + 1 /\ i # n + 1
      OBVIOUS
    <3>2. g = [i \in 1..n + 1 |-> g[i]]
      OBVIOUS
    <3> HIDE DEF last
    <3> QED BY <3>1, <3>2
  <2>3. last = IF n + 1 = 1 THEN ss[n + 1] ELSE f[n] \o ss[n + 1]
    OBVIOUS
  <2> HIDE DEF g, last
  <2>4. \A i \in 1..n : f[i] = IF i = 1 THEN ss[i] ELSE f[i - 1] \o ss[i]
    BY <2>1
  <2>5. ASSUME NEW i \in 1..n PROVE g[i] = IF i = 1 THEN ss[i] ELSE g[i - 1] \o ss[i]
    <3>1. CASE i = 1
      BY <2>2, <2>4, <3>1
    <3>2. CASE i # 1
      <4>1. i - 1 \in 1..n
        BY <3>2
      <4> QED BY <2>2, <2>4, <3>2, <4>1
    <3> QED BY <3>1, <3>2
  <2>6. g[n + 1] = IF n + 1 = 1 THEN ss[n + 1] ELSE g[n + 1 - 1] \o ss[n + 1]
    <3>1. CASE n = 0
      BY <2>2, <2>3, <3>1
    <3>2. CASE n # 0
      <4>1. n \in 1..n /\ n + 1 - 1 = n /\ n + 1 # 1
        BY <3>2
      <4> QED BY <2>2, <2>3, <4>1
    <3> QED BY <3>1, <3>2
  <2>7. \A i \in 1..n + 1 : g[i] = IF i = 1 THEN ss[i] ELSE g[i - 1] \o ss[i]
    BY <2>5, <2>6
  <2>8. g = [i \in 1..n + 1 |-> IF i = 1 THEN ss[i] ELSE g[i - 1] \o ss[i]]
    <3> DEFINE Wanted(i) == IF i = 1 THEN ss[i] ELSE g[i - 1] \o ss[i]
    <3>1. g = [i \in 1..n + 1 |-> g[i]] /\ \A i \in 1..n + 1 : g[i] = Wanted(i)
      BY <2>2, <2>7
    <3> HIDE DEF Wanted
    <3>2. g = [i \in 1..n + 1 |-> Wanted(i)]
      BY <3>1
    <3> QED BY <3>2 DEF Wanted
  <2>9. \E f2 : f2 = [i \in 1..n + 1 |-> IF i = 1 THEN ss[i] ELSE f2[i - 1] \o ss[i]]
    BY <2>8, Zenon
  <2>10. n + 1 \in Nat
    OBVIOUS
  <2> QED BY <2>9, <2>10, Zenon
<1> HIDE DEF T
<1>3. N \in T
  BY <1>1, <1>2, FromZero
<1> QED BY <1>3 DEF T

\* A sequence of sequences, flattened, has the elements of them all
LEMMA FlattenIs ==
  ASSUME NEW S, NEW ss \in Seq(Seq(S))
  PROVE  FlattenSeq(ss) \in Seq(S) /\ ElementsOf(FlattenSeq(ss)) = UNION {ElementsOf(ss[k]) : k \in DOMAIN ss}
<1> DEFINE N == Len(ss)
<1>1. N \in Nat /\ DOMAIN ss = 1..N /\ \A k \in 1..N : ss[k] \in Seq(S)
  BY LenProperties, ElementOfSeq
<1>2. CASE N = 0
  <2>1. ss = <<>> /\ FlattenSeq(ss) = <<>>
    BY <1>2, EmptySeq DEF FlattenSeq
  <2>2. DOMAIN ss = {}
    BY <1>1, <1>2
  <2> QED BY <2>1, <2>2, EmptySeq DEF ElementsOf
<1>3. CASE N # 0
  <2> DEFINE Is(f) == f = [i \in 1..N |-> IF i = 1 THEN ss[i] ELSE f[i - 1] \o ss[i]]
             f == CHOOSE f : Is(f)
  <2>1. FlattenSeq(ss) = f[N]
    BY <1>3 DEF FlattenSeq
  <2>2. \E g : Is(g)
    BY <1>1, Flattening
  <2>3. Is(f)
    BY <2>2
  <2> HIDE DEF f
  <2>4. f = [i \in 1..N |-> IF i = 1 THEN ss[i] ELSE f[i - 1] \o ss[i]]
    BY <2>3
  <2> DEFINE T == {n \in Nat : n + 1 \in 1..N =>
                     f[n + 1] \in Seq(S) /\ ElementsOf(f[n + 1]) = UNION {ElementsOf(ss[k]) : k \in 1..n + 1}}
  <2> HIDE DEF N
  <2>5. 0 \in T
    <3>1. 1 \in 1..N => f[1] = ss[1]
      BY <2>4
    <3>2. 1..0 + 1 = {1} /\ 0 + 1 = 1
      OBVIOUS
    <3> QED BY <1>1, <3>1, <3>2
  <2>6. ASSUME NEW n \in Nat, n \in T PROVE n + 1 \in T
    <3> DEFINE m == n + 1
    <3> SUFFICES ASSUME m + 1 \in 1..N
                 PROVE  f[m + 1] \in Seq(S) /\ ElementsOf(f[m + 1]) = UNION {ElementsOf(ss[k]) : k \in 1..m + 1}
      OBVIOUS
    <3>1. m \in 1..N /\ m + 1 # 1 /\ (m + 1) - 1 = m /\ 1..m + 1 = 1..m \cup {m + 1}
      BY <1>1
    <3>2. f[m] \in Seq(S) /\ ElementsOf(f[m]) = UNION {ElementsOf(ss[k]) : k \in 1..m}
      BY <2>6, <3>1
    <3> HIDE DEF m
    <3>3. f[m + 1] = f[m] \o ss[m + 1]
      BY <2>4, <3>1
    <3>4. ss[m + 1] \in Seq(S)
      BY <1>1
    <3>5. f[m + 1] \in Seq(S) /\ ElementsOf(f[m + 1]) = ElementsOf(f[m]) \cup ElementsOf(ss[m + 1])
      BY <3>2, <3>3, <3>4, ConcatProperties, ConcatElements
    <3>6. UNION {ElementsOf(ss[k]) : k \in 1..m + 1} = (UNION {ElementsOf(ss[k]) : k \in 1..m}) \cup ElementsOf(ss[m + 1])
      BY <3>1, Zenon
    <3> QED BY <3>2, <3>5, <3>6
  <2>7. \A n \in Nat : n \in T
    <3> HIDE DEF T
    <3> QED BY <2>5, <2>6, FromZero
  <2>8. N - 1 \in Nat /\ (N - 1) + 1 = N /\ N \in 1..N
    BY <1>1, <1>3
  <2>9. f[N] \in Seq(S) /\ ElementsOf(f[N]) = UNION {ElementsOf(ss[k]) : k \in 1..N}
    <3>1. N - 1 \in T
      BY <2>7, <2>8
    <3> QED BY <2>8, <3>1
  <2> QED BY <1>1, <2>1, <2>9
<1> QED BY <1>2, <1>3

-----------------------------------------------------------------------------
(* Texts.                                                                  *)

\* A text is a prefix of what it is joined to
LEMMA PrefixOfJoined ==
  ASSUME NEW s \in Str, NEW t \in Str
  PROVE  IsPrefix(s, s \o t)
<1>1. /\ Len(s) \in Nat /\ Len(t) \in Nat /\ Len(s \o t) = Len(s) + Len(t) /\ s \o t \in Str
      /\ \A i \in 1..Len(s) + Len(t) : (s \o t)[i] = IF i <= Len(s) THEN s[i] ELSE t[i - Len(s)]
  BY LenProperties, ConcatProperties DEF Str
<1> DEFINE u == s \o t
           n == Len(s)
<1>2. /\ n \in Nat /\ n <= Len(u) /\ \A i \in 1..n : u[i] = s[i] /\ s[i] \in Piece /\ u[i] \in Piece
  <2>1. \A i \in 1..n : i \in 1..Len(s) + Len(t) /\ i <= Len(s)
    BY <1>1
  <2>2. \A i \in 1..n : s[i] \in Piece
    BY ElementOfSeq DEF Str
  <2> QED BY <1>1, <2>1, <2>2
<1> HIDE DEF u, n
<1>3. SubSeq(s, 1, n) = SubSeq(u, 1, n)
  <2>1. /\ SubSeq(s, 1, n) \in Seq(Piece) /\ Len(SubSeq(s, 1, n)) = IF 1 <= n THEN n - 1 + 1 ELSE 0
        /\ \A i \in 1..n - 1 + 1 : SubSeq(s, 1, n)[i] = s[1 + i - 1]
    BY <1>2, SubSeqProperties
  <2>2. /\ SubSeq(u, 1, n) \in Seq(Piece) /\ Len(SubSeq(u, 1, n)) = IF 1 <= n THEN n - 1 + 1 ELSE 0
        /\ \A i \in 1..n - 1 + 1 : SubSeq(u, 1, n)[i] = u[1 + i - 1]
    BY <1>2, SubSeqProperties
  <2>3. \A i \in 1..Len(SubSeq(s, 1, n)) : i \in 1..n - 1 + 1 /\ 1 + i - 1 = i /\ i \in 1..n
    BY <1>2, <2>1
  <2>4. \A i \in 1..Len(SubSeq(s, 1, n)) : SubSeq(s, 1, n)[i] = SubSeq(u, 1, n)[i]
    BY <1>2, <2>1, <2>2, <2>3
  <2> QED BY <2>1, <2>2, <2>4, SeqEqual
<1> QED BY <1>2, <1>3 DEF IsPrefix, u, n

\* and a prefix leaves a rest
LEMMA PrefixSplits ==
  ASSUME NEW s \in Str, NEW t \in Str, IsPrefix(s, t)
  PROVE  \E v \in Str : t = s \o v
<1> DEFINE n == Len(s)
           v == SubSeq(t, n + 1, Len(t))
<1>1. n \in Nat /\ Len(t) \in Nat /\ n <= Len(t) /\ SubSeq(s, 1, n) = SubSeq(t, 1, n)
  BY LenProperties DEF Str, IsPrefix
<1>2. \A i \in 1..Len(t) : t[i] \in Piece
  BY ElementOfSeq DEF Str
<1>3. \A i \in 1..n : s[i] \in Piece
  BY ElementOfSeq DEF Str
<1>4. \A i \in 1..n : s[i] = t[i]
  <2>1. \A i \in 1..n - 1 + 1 : SubSeq(s, 1, n)[i] = s[1 + i - 1]
    BY <1>1, <1>3, SubSeqProperties
  <2>2. \A i \in 1..n : t[i] \in Piece
    BY <1>1, <1>2
  <2>3. \A i \in 1..n - 1 + 1 : SubSeq(t, 1, n)[i] = t[1 + i - 1]
    <3> HIDE DEF n
    <3> QED BY <1>1, <2>2, SubSeqProperties
  <2>4. \A i \in 1..n : i \in 1..n - 1 + 1 /\ 1 + i - 1 = i
    BY <1>1
  <2> QED BY <1>1, <2>1, <2>3, <2>4
<1>5. /\ v \in Str /\ Len(v) = Len(t) - n
      /\ \A i \in 1..Len(t) - n : v[i] = t[n + i]
  <2>1. \A i \in (n + 1)..Len(t) : t[i] \in Piece
    BY <1>1, <1>2
  <2>2. /\ v \in Seq(Piece) /\ Len(v) = IF n + 1 <= Len(t) THEN Len(t) - (n + 1) + 1 ELSE 0
        /\ \A i \in 1..Len(t) - (n + 1) + 1 : v[i] = t[(n + 1) + i - 1]
    <3> HIDE DEF n
    <3> QED BY <1>1, <2>1, SubSeqProperties
  <2> HIDE DEF v, n
  <2>3. Len(v) = Len(t) - n
    BY <1>1, <2>2
  <2>4. \A i \in 1..Len(t) - n : i \in 1..Len(t) - (n + 1) + 1 /\ (n + 1) + i - 1 = n + i
    BY <1>1
  <2> QED BY <2>2, <2>3, <2>4 DEF Str
<1> HIDE DEF v
<1>6. /\ s \o v \in Str /\ Len(s \o v) = n + Len(v)
      /\ \A i \in 1..n + Len(v) : (s \o v)[i] = IF i <= n THEN s[i] ELSE v[i - n]
  BY <1>5, ConcatProperties DEF Str
<1>7. ASSUME NEW i \in 1..Len(t) PROVE t[i] = (s \o v)[i]
  <2> HIDE DEF n
  <2>1. i \in 1..n + Len(v)
    BY <1>1, <1>5
  <2>2. CASE i <= n
    <3>1. i \in 1..n
      BY <1>1, <2>2
    <3> QED BY <1>4, <1>6, <2>1, <2>2, <3>1
  <2>3. CASE ~ (i <= n)
    <3>1. i - n \in 1..Len(t) - n /\ n + (i - n) = i
      BY <1>1, <2>3
    <3> QED BY <1>5, <1>6, <2>1, <2>3, <3>1
  <2> QED BY <2>2, <2>3
<1>8. Len(t) = Len(s \o v)
  <2> HIDE DEF n
  <2> QED BY <1>1, <1>5, <1>6
<1>9. t = s \o v
  BY <1>6, <1>7, <1>8, SeqEqual DEF Str
<1> QED BY <1>5, <1>9

\* The last piece of what is joined is the last of the second part
LEMMA LastOfJoined ==
  ASSUME NEW s \in Str, NEW x \in Piece
  PROVE  Last(s \o <<x>>) = x /\ Front(s \o <<x>>) = s
<1> DEFINE u == s \o <<x>>
<1>1. u \in Str /\ Len(s) \in Nat /\ Len(u) = Len(s) + 1 /\ u[Len(s) + 1] = x
  BY OnePiece
<1>2. \A i \in 1..Len(s) : u[i] = s[i]
  <2>1. <<x>> \in Str /\ Len(<<x>>) = 1
    BY Single DEF Str
  <2>2. \A i \in 1..Len(s) + 1 : u[i] = IF i <= Len(s) THEN s[i] ELSE <<x>>[i - Len(s)]
    BY <2>1, ConcatProperties DEF Str
  <2>3. \A i \in 1..Len(s) : i \in 1..Len(s) + 1 /\ i <= Len(s)
    BY <1>1
  <2> HIDE DEF u
  <2> QED BY <2>2, <2>3
<1> HIDE DEF u
<1>3. Last(u) = x
  BY <1>1 DEF Last
<1> DEFINE n == Len(s)
<1>4. Len(u) - 1 = n /\ n \in Nat
  BY <1>1
<1>5. \A i \in 1..n : u[i] \in Piece
  BY <1>2, ElementOfSeq DEF Str
<1>6. Front(u) = SubSeq(u, 1, n)
  BY <1>4 DEF Front
<1> HIDE DEF n
<1>7. /\ SubSeq(u, 1, n) \in Seq(Piece) /\ Len(SubSeq(u, 1, n)) = IF 1 <= n THEN n - 1 + 1 ELSE 0
      /\ \A i \in 1..n - 1 + 1 : SubSeq(u, 1, n)[i] = u[1 + i - 1]
  BY <1>4, <1>5, SubSeqProperties
<1>8. Len(SubSeq(u, 1, n)) = n
  BY <1>4, <1>7
<1>9. \A i \in 1..n : SubSeq(u, 1, n)[i] = s[i]
  <2>1. \A i \in 1..n : i \in 1..n - 1 + 1 /\ 1 + i - 1 = i
    BY <1>4
  <2> QED BY <1>2, <1>7, <2>1 DEF n
<1>10. SubSeq(u, 1, n) = s
  BY <1>7, <1>8, <1>9, SeqEqual DEF n, Str
<1> QED BY <1>3, <1>6, <1>10 DEF u

\* A text that is not empty is its front and its last piece
LEMMA SplitLast ==
  ASSUME NEW t \in Str, t # <<>>
  PROVE  Front(t) \in Str /\ Last(t) \in Piece /\ t = Front(t) \o <<Last(t)>>
<1> DEFINE n == Len(t)
           s == Front(t)
<1>1. n \in Nat \ {0}
  BY EmptySeq DEF Str
<1>2. \A i \in 1..n : t[i] \in Piece
  BY ElementOfSeq DEF Str
<1>3. s = SubSeq(t, 1, n - 1)
  BY DEF Front
<1>4. Last(t) = t[n] /\ Last(t) \in Piece
  BY <1>1, <1>2 DEF Last
<1> HIDE DEF n, s
<1>5. /\ s \in Seq(Piece) /\ Len(s) = IF 1 <= n - 1 THEN (n - 1) - 1 + 1 ELSE 0
      /\ \A i \in 1..(n - 1) - 1 + 1 : s[i] = t[1 + i - 1]
  <2>1. \A i \in 1..n - 1 : t[i] \in Piece
    BY <1>1, <1>2
  <2>2. n - 1 \in Int
    BY <1>1
  <2> QED BY <1>3, <2>1, <2>2, SubSeqProperties
<1>6. s \in Str /\ Len(s) = n - 1 /\ \A i \in 1..n - 1 : s[i] = t[i]
  <2>1. \A i \in 1..n - 1 : i \in 1..(n - 1) - 1 + 1 /\ 1 + i - 1 = i
    BY <1>1
  <2>2. Len(s) = n - 1
    BY <1>1, <1>5
  <2> QED BY <1>5, <2>1, <2>2 DEF Str
<1> DEFINE x == Last(t)
           u == s \o <<x>>
<1> HIDE DEF x
<1>7. <<x>> \in Str /\ Len(<<x>>) = 1 /\ <<x>>[1] = x
  BY <1>4, Single DEF Str, x
<1>8. /\ u \in Str /\ Len(u) = n
      /\ \A i \in 1..n : u[i] = IF i <= n - 1 THEN s[i] ELSE <<x>>[i - (n - 1)]
  <2>1. /\ u \in Seq(Piece) /\ Len(u) = Len(s) + Len(<<x>>)
        /\ \A i \in 1..Len(s) + Len(<<x>>) : u[i] = IF i <= Len(s) THEN s[i] ELSE <<x>>[i - Len(s)]
    BY <1>6, <1>7, ConcatProperties DEF Str
  <2>2. (n - 1) + 1 = n
    BY <1>1
  <2> QED BY <1>6, <1>7, <2>1, <2>2 DEF Str
<1> HIDE DEF u
<1>9. ASSUME NEW i \in 1..n PROVE t[i] = u[i]
  <2>1. CASE i <= n - 1
    <3>1. i \in 1..n - 1
      BY <1>1, <2>1
    <3> QED BY <1>6, <1>8, <2>1, <3>1
  <2>2. CASE ~ (i <= n - 1)
    <3>1. i = n /\ i - (n - 1) = 1
      BY <1>1, <2>2
    <3> QED BY <1>4, <1>7, <1>8, <2>2, <3>1 DEF x
  <2> QED BY <2>1, <2>2
<1>10. t = u
  BY <1>8, <1>9, SeqEqual DEF Str, n
<1> QED BY <1>4, <1>6, <1>10 DEF u, x, s

-----------------------------------------------------------------------------
(* Declarations.                                                           *)

\* Of some declarations of one name the last is kept
LEMMA LastNamedIs ==
  ASSUME NEW S, NEW decls \in Seq(S), NEW name, \E k \in DOMAIN decls : decls[k].name = name
  PROVE  \E k \in DOMAIN decls : LastNamed(decls, name) = decls[k] /\ decls[k].name = name
                                 /\ \A j \in DOMAIN decls : decls[j].name = name => j <= k
<1> DEFINE n == Len(decls)
           T == {m \in 0..n : n - m \in DOMAIN decls /\ decls[n - m].name = name}
<1>1. n \in Nat /\ DOMAIN decls = 1..n
  BY LenProperties
<1>2. PICK k \in DOMAIN decls : decls[k].name = name
  OBVIOUS
<1> HIDE DEF n
<1>3. n - k \in T
  <2>1. n - (n - k) = k /\ n - k \in 0..n
    BY <1>1
  <2> QED BY <1>2, <2>1
<1>4. T \subseteq Nat
  BY <1>1
<1>5. PICK m \in T : \A i \in T : m <= i
  <2> HIDE DEF T
  <2> QED BY <1>3, <1>4, LeastNatural
<1> DEFINE l == n - m
<1>6. l \in DOMAIN decls /\ decls[l].name = name
  BY <1>5
<1>7. ASSUME NEW j \in DOMAIN decls, decls[j].name = name PROVE j <= l
  <2>1. n - j \in T
    <3>1. n - (n - j) = j /\ n - j \in 0..n
      BY <1>1
    <3> QED BY <1>7, <3>1
  <2>2. m <= n - j /\ m \in Int
    BY <1>5, <2>1
  <2> QED BY <1>1, <2>2
<1> DEFINE Is(i) == decls[i].name = name /\ \A j \in DOMAIN decls : decls[j].name = name => j <= i
           c == CHOOSE i \in DOMAIN decls : Is(i)
<1>8. l \in DOMAIN decls /\ Is(l)
  BY <1>6, <1>7
<1>9. c \in DOMAIN decls /\ Is(c)
  <2> HIDE DEF l, Is
  <2> QED BY <1>8
<1>10. LastNamed(decls, name) = decls[c]
  BY DEF LastNamed
<1> QED BY <1>9, <1>10

\* The only one of a name is the last
LEMMA OnlyNamed ==
  ASSUME NEW S, NEW decls \in Seq(S), NEW k \in DOMAIN decls,
         \A j \in DOMAIN decls : decls[j].name = decls[k].name => j = k
  PROVE  LastNamed(decls, decls[k].name) = decls[k]
BY LastNamedIs

-----------------------------------------------------------------------------
(* The ports of one node, by name.                                         *)

NamesOf(ports) == {p.name : p \in ElementsOf(ports)}

\* What the fallback makes of a name, and what the range check says of one, on a node with these ports
Near(ports, x) ==
  LET guesses == <<x \o Suffix(1), x \o (<<"In">> \o Suffix(1)), x \o (<<"Out">> \o Suffix(1))>>
      hits == {k \in DOMAIN guesses : guesses[k] \in NamesOf(ports)}
      longer == {k \in DOMAIN ports : Extends(ports[k].name, x)}
  IN CASE x \in NamesOf(ports) -> x
       [] x \notin NamesOf(ports) /\ hits # {} -> FirstAt(guesses, hits)
       [] x \notin NamesOf(ports) /\ hits = {} /\ longer # {} -> FirstAt(ports, longer).name
       [] OTHER -> x

Above(ports, x) ==
  /\ x \notin NamesOf(ports) /\ Numbered(x)
  /\ DeclaredOn(ports, Front(x)) # {} /\ \A d \in DeclaredOn(ports, Front(x)) : NumberOf[Last(x)] > d

\* A node that is its own ports' owner, and the owner of no others
Shows(nodes, o, ports) ==
  /\ o \in DOMAIN nodes /\ DOMAIN nodes[o] = DOMAIN ports /\ DOMAIN ports \subseteq Nat
  /\ \A k \in DOMAIN ports : nodes[o][k].owner = o /\ nodes[o][k].name = ports[k].name
  /\ \A n \in DOMAIN nodes \ {o} : \A p \in ElementsOf(nodes[n]) : p.owner # o

\* Only the owner's node shows the owner's ports, and all of them
LEMMA IdsShown ==
  ASSUME NEW nodes, NEW o, NEW ports, Shows(nodes, o, ports), NEW x
  PROVE  <<o, x>> \in AllIds(nodes) <=> x \in NamesOf(ports)
<1>1. ASSUME <<o, x>> \in AllIds(nodes) PROVE x \in NamesOf(ports)
  <2>1. PICK n \in DOMAIN nodes : <<o, x>> \in {Id(p) : p \in ElementsOf(nodes[n])}
    BY <1>1 DEF AllIds
  <2>2. PICK p \in ElementsOf(nodes[n]) : <<o, x>> = Id(p)
    BY <2>1
  <2>3. p.owner = o /\ p.name = x
    BY <2>2 DEF Id
  <2>4. n = o
    BY <2>2, <2>3 DEF Shows
  <2>5. PICK k \in DOMAIN ports : p = nodes[o][k]
    BY <2>2, <2>4 DEF ElementsOf, Shows
  <2> QED BY <2>3, <2>5 DEF Shows, NamesOf, ElementsOf
<1>2. ASSUME x \in NamesOf(ports) PROVE <<o, x>> \in AllIds(nodes)
  <2>1. PICK k \in DOMAIN ports : x = ports[k].name
    BY <1>2 DEF NamesOf, ElementsOf
  <2>2. nodes[o][k] \in ElementsOf(nodes[o]) /\ Id(nodes[o][k]) = <<o, x>> /\ o \in DOMAIN nodes
    BY <2>1 DEF Shows, ElementsOf, Id
  <2> QED BY <2>2 DEF AllIds
<1> QED BY <1>1, <1>2

\* There the fallback looks among the owner's ports
LEMMA FallbackShown ==
  ASSUME NEW nodes, NEW o, NEW ports, Shows(nodes, o, ports), NEW x
  PROVE  Fallback(nodes, o, <<o, x>>) = <<o, Near(ports, x)>>
<1> DEFINE id == <<o, x>>
           guess(tail) == <<id[1], id[2] \o tail>>
           guesses == <<guess(Suffix(1)), guess(<<"In">> \o Suffix(1)), guess(<<"Out">> \o Suffix(1))>>
           hits == {k \in DOMAIN guesses : guesses[k] \in AllIds(nodes)}
           there == IF o \in DOMAIN nodes THEN nodes[o] ELSE <<>>
           longer == {k \in DOMAIN there : there[k].owner = id[1] /\ Extends(there[k].name, id[2])}
           names == <<x \o Suffix(1), x \o (<<"In">> \o Suffix(1)), x \o (<<"Out">> \o Suffix(1))>>
           hitsN == {k \in DOMAIN names : names[k] \in NamesOf(ports)}
           longerN == {k \in DOMAIN ports : Extends(ports[k].name, x)}
<1>1. id \in AllIds(nodes) <=> x \in NamesOf(ports)
  BY IdsShown
<1>2. DOMAIN guesses = 1..3 /\ DOMAIN names = 1..3 /\ \A k \in 1..3 : guesses[k] = <<o, names[k]>>
  <2>1. guesses[1] = <<o, names[1]>> /\ guesses[2] = <<o, names[2]>> /\ guesses[3] = <<o, names[3]>>
    OBVIOUS
  <2>2. 1..3 = {1, 2, 3}
    OBVIOUS
  <2>3. DOMAIN guesses = 1..3 /\ DOMAIN names = 1..3
    OBVIOUS
  <2> HIDE DEF guesses, names
  <2> QED BY <2>1, <2>2, <2>3
<1>3. hits = hitsN /\ hits \subseteq Nat
  <2> HIDE DEF guesses, names
  <2> QED BY <1>2, IdsShown
<1>4. there = nodes[o] /\ longer = longerN /\ longer \subseteq Nat
  BY DEF Shows
<1>5. Fallback(nodes, o, id) =
        CASE id \in AllIds(nodes) -> id
          [] id \notin AllIds(nodes) /\ hits # {} -> FirstAt(guesses, hits)
          [] id \notin AllIds(nodes) /\ hits = {} /\ longer # {} -> <<id[1], FirstAt(there, longer).name>>
          [] OTHER -> id
  BY DEF Fallback
<1>6. Near(ports, x) =
        CASE x \in NamesOf(ports) -> x
          [] x \notin NamesOf(ports) /\ hitsN # {} -> FirstAt(names, hitsN)
          [] x \notin NamesOf(ports) /\ hitsN = {} /\ longerN # {} -> FirstAt(ports, longerN).name
          [] OTHER -> x
  BY DEF Near
<1>7. ASSUME hits # {} PROVE FirstAt(guesses, hits) = <<o, FirstAt(names, hitsN)>>
  <2> HIDE DEF guesses, names
  <2>1. (CHOOSE k \in hits : \A j \in hits : k <= j) \in hits
    <3> HIDE DEF hits
    <3>1. \E k \in hits : \A j \in hits : k <= j
      BY <1>3, <1>7, LeastNatural
    <3> QED BY <3>1
  <2> HIDE DEF hitsN
  <2> QED BY <1>2, <1>3, <2>1 DEF FirstAt
<1>8. ASSUME longer # {} PROVE <<id[1], FirstAt(there, longer).name>> = <<o, FirstAt(ports, longerN).name>>
  <2>1. (CHOOSE k \in longer : \A j \in longer : k <= j) \in longer
    <3> HIDE DEF longer
    <3>1. \E k \in longer : \A j \in longer : k <= j
      BY <1>4, <1>8, LeastNatural
    <3> QED BY <3>1
  <2> DEFINE c == CHOOSE k \in longer : \A j \in longer : k <= j
  <2>2. FirstAt(there, longer) = nodes[o][c] /\ FirstAt(ports, longerN) = ports[c]
    <3> HIDE DEF longer, longerN, there
    <3> QED BY <1>4 DEF FirstAt
  <2>3. c \in DOMAIN ports
    BY <1>4, <2>1
  <2> HIDE DEF c
  <2>4. nodes[o][c].owner = o /\ nodes[o][c].name = ports[c].name
    BY <2>3 DEF Shows
  <2> QED BY <2>2, <2>4 DEF Id
<1> HIDE DEF hits, hitsN, longer, longerN, guesses, names, there
<1>9. CASE x \in NamesOf(ports)
  BY <1>1, <1>5, <1>6, <1>9
<1>10. CASE x \notin NamesOf(ports) /\ hits # {}
  BY <1>1, <1>3, <1>5, <1>6, <1>7, <1>10
<1>11. CASE x \notin NamesOf(ports) /\ hits = {} /\ longer # {}
  BY <1>1, <1>3, <1>4, <1>5, <1>6, <1>8, <1>11
<1>12. CASE x \notin NamesOf(ports) /\ hits = {} /\ longer = {}
  BY <1>1, <1>3, <1>4, <1>5, <1>6, <1>12
<1> QED BY <1>9, <1>10, <1>11, <1>12

\* and the range check too
LEMMA OverShown ==
  ASSUME NEW nodes, NEW o, NEW ports, Shows(nodes, o, ports), NEW x
  PROVE  OverRange(nodes, <<o, x>>) <=> Above(ports, x)
<1>1. <<o, x>> \in AllIds(nodes) <=> x \in NamesOf(ports)
  BY IdsShown
<1>2. {p.name : p \in ElementsOf(nodes[o])} = NamesOf(ports)
  BY DEF Shows, NamesOf, ElementsOf
<1>3. ASSUME NEW base, NEW list PROVE DeclaredOn(list, base) = {NumberOf[Last(m)] : m \in {m \in {p.name : p \in ElementsOf(list)} : Numbered(m) /\ Front(m) = base}}
  BY DEF DeclaredOn
<1>4. ASSUME NEW base PROVE DeclaredOn(nodes[o], base) = DeclaredOn(ports, base)
  <2>1. {p.name : p \in ElementsOf(nodes[o])} = {p.name : p \in ElementsOf(ports)}
    BY <1>2 DEF NamesOf
  <2> QED BY <1>3, <2>1
<1>5. o \in DOMAIN nodes
  BY DEF Shows
<1> QED BY <1>1, <1>4, <1>5 DEF OverRange, Above

-----------------------------------------------------------------------------
(* Channels at the end of a name.                                          *)

\* The text of a channel is read back as the channel
LEMMA ChannelRead ==
  ASSUME NEW ch \in Channel
  PROVE  Numeral[ch] \in DOMAIN NumberOf /\ NumberOf[Numeral[ch]] = ch /\ Numeral[ch] \in Piece
<1>1. DOMAIN Numeral = Channel
  BY NumeralsDiffer DEF Channel
<1>2. DOMAIN NumberOf = {Numeral[n] : n \in DOMAIN Numeral}
  BY DEF NumberOf
<1>3. NumberOf[Numeral[ch]] = CHOOSE n \in DOMAIN Numeral : Numeral[n] = Numeral[ch]
  BY <1>1 DEF NumberOf
<1>4. \A n \in DOMAIN Numeral : Numeral[n] = Numeral[ch] => n = ch
  BY <1>1, NumeralsDiffer DEF Channel
<1>5. (CHOOSE n \in DOMAIN Numeral : Numeral[n] = Numeral[ch]) = ch
  BY <1>1, <1>4
<1> QED BY <1>1, <1>2, <1>3, <1>5, NumeralsTyped DEF Piece

\* A name with a channel is numbered: its front is the name, its last piece the channel
LEMMA NumberedChannel ==
  ASSUME NEW s \in Str, s # <<>>, NEW ch \in Channel
  PROVE  LET x == s \o Suffix(ch)
         IN x \in Str /\ Numbered(x) /\ Front(x) = s /\ Last(x) \in DOMAIN NumberOf /\ NumberOf[Last(x)] = ch /\ x # s /\ x # <<>>
<1>1. Numeral[ch] \in Piece /\ Numeral[ch] \in DOMAIN NumberOf /\ NumberOf[Numeral[ch]] = ch
  BY ChannelRead
<1>2. Suffix(ch) = <<Numeral[ch]>>
  BY SuffixTyped, Width DEF MaybeChannel, Channel, NoChannel
<1> DEFINE x == s \o <<Numeral[ch]>>
<1>3. x \in Str /\ Len(x) = Len(s) + 1 /\ Len(s) \in Nat
  BY <1>1, OnePiece
<1>4. Len(s) # 0
  BY EmptySeq DEF Str
<1>5. Last(x) = Numeral[ch] /\ Front(x) = s
  BY <1>1, LastOfJoined
<1> HIDE DEF x
<1>6. Numbered(x) /\ x # s /\ x # <<>>
  BY <1>1, <1>3, <1>4, <1>5 DEF Numbered
<1> QED BY <1>1, <1>2, <1>3, <1>5, <1>6 DEF x

\* and a numbered text is a name with a channel
LEMMA NumberedSplits ==
  ASSUME NEW t \in Str, Numbered(t)
  PROVE  /\ Front(t) \in Str /\ Front(t) # <<>> /\ NumberOf[Last(t)] \in Channel
         /\ t = Front(t) \o Suffix(NumberOf[Last(t)])
<1>1. t # <<>> /\ Len(t) > 1 /\ Last(t) \in DOMAIN NumberOf
  BY DEF Numbered
<1>2. Front(t) \in Str /\ t = Front(t) \o <<Last(t)>> /\ Last(t) \in Piece
  BY <1>1, SplitLast
<1>3. DOMAIN Numeral = Channel
  BY NumeralsDiffer DEF Channel
<1>4. PICK ch \in Channel : Last(t) = Numeral[ch]
  BY <1>1, <1>3 DEF NumberOf
<1>5. NumberOf[Last(t)] = ch
  BY <1>4, ChannelRead
<1>6. Suffix(ch) = <<Last(t)>>
  BY <1>4, SuffixTyped, Width DEF MaybeChannel, Channel, NoChannel
<1>7. Front(t) # <<>>
  <2>1. Len(t) = Len(Front(t)) + 1
    BY <1>2, OnePiece
  <2> QED BY <1>1, <2>1
<1> QED BY <1>2, <1>5, <1>6, <1>7

-----------------------------------------------------------------------------
(* A port that has the channels C, with no other name in its way.          *)

Ranges(ports, p, C) ==
  /\ NamesOf(ports) \subseteq Str /\ DOMAIN ports \subseteq Nat
  /\ p \in Str /\ p # <<>> /\ C \subseteq MaybeChannel
  /\ \A ch \in MaybeChannel : p \o Suffix(ch) \in NamesOf(ports) <=> ch \in C
  /\ \A ch \in Channel, m \in NamesOf(ports) : IsPrefix(p \o Suffix(ch), m) => m = p \o Suffix(ch)

\* Channel 1 exists; channels are naturals, and none is the absence of one
LEMMA OneIsChannel == 1 \in Channel /\ Channel \subseteq Nat /\ NoChannel \notin Channel /\ Channel \subseteq MaybeChannel
BY Width DEF Channel, NoChannel, MaybeChannel

\* What the fallback tries to append are texts, none of them empty
LEMMA GuessesTyped ==
  /\ Suffix(1) \in Str /\ <<"In">> \o Suffix(1) \in Str /\ <<"Out">> \o Suffix(1) \in Str
  /\ Suffix(1) # <<>> /\ <<"In">> \o Suffix(1) # <<>> /\ <<"Out">> \o Suffix(1) # <<>>
<1>1. Suffix(1) \in Str /\ Suffix(1) = <<Numeral[1]>> /\ Numeral[1] \in Piece
  BY OneIsChannel, SuffixTyped
<1>2. <<"In">> \in Str /\ <<"Out">> \in Str
  BY Single DEF Str, Piece
<1>3. \A s \in Str : s \o Suffix(1) \in Str /\ s \o Suffix(1) # <<>>
  <2> SUFFICES ASSUME NEW s \in Str PROVE s \o Suffix(1) \in Str /\ s \o Suffix(1) # <<>>
    OBVIOUS
  <2>1. s \o <<Numeral[1]>> \in Str /\ Len(s \o <<Numeral[1]>>) = Len(s) + 1 /\ Len(s) \in Nat
    BY <1>1, OnePiece
  <2> DEFINE u == s \o <<Numeral[1]>>
  <2>2. u \in Str /\ Len(u) # 0
    BY <2>1
  <2>3. s \o Suffix(1) = u
    BY <1>1
  <2> HIDE DEF u
  <2>4. u # <<>>
    BY <2>2, EmptySeq
  <2> QED BY <2>2, <2>3, <2>4
<1>4. Suffix(1) # <<>>
  BY <1>1
<1> QED BY <1>1, <1>2, <1>3, <1>4

\* A text with something appended is another text
LEMMA JoinedDiffers ==
  ASSUME NEW s \in Str, NEW t \in Str, t # <<>>
  PROVE  s \o t \in Str /\ s \o t # s /\ IsPrefix(s, s \o t)
<1>1. Len(s \o t) = Len(s) + Len(t) /\ Len(s) \in Nat /\ Len(t) \in Nat /\ Len(t) # 0
  BY LenProperties, ConcatProperties, EmptySeq DEF Str
<1> QED BY <1>1, PrefixOfJoined, Joins

\* A name that no other extends is left as it is
LEMMA NearSame ==
  ASSUME NEW ports, NamesOf(ports) \subseteq Str, NEW x \in Str,
         \A m \in NamesOf(ports) : IsPrefix(x, m) => m = x
  PROVE  Near(ports, x) = x
<1> DEFINE names == <<x \o Suffix(1), x \o (<<"In">> \o Suffix(1)), x \o (<<"Out">> \o Suffix(1))>>
           hits == {k \in DOMAIN names : names[k] \in NamesOf(ports)}
           longer == {k \in DOMAIN ports : Extends(ports[k].name, x)}
<1>1. names[1] \notin NamesOf(ports) /\ names[2] \notin NamesOf(ports) /\ names[3] \notin NamesOf(ports)
  BY GuessesTyped, JoinedDiffers
<1>2. DOMAIN names = {1, 2, 3}
  OBVIOUS
<1>3. hits = {}
  <2> HIDE DEF names
  <2> QED BY <1>1, <1>2
<1>4. longer = {}
  <2> SUFFICES ASSUME NEW k \in DOMAIN ports, Extends(ports[k].name, x) PROVE FALSE
    OBVIOUS
  <2>1. ports[k].name \in NamesOf(ports)
    BY DEF NamesOf, ElementsOf
  <2> QED BY <2>1 DEF Extends, IsStrictPrefix
<1>5. Near(ports, x) =
        CASE x \in NamesOf(ports) -> x
          [] x \notin NamesOf(ports) /\ hits # {} -> FirstAt(names, hits)
          [] x \notin NamesOf(ports) /\ hits = {} /\ longer # {} -> FirstAt(ports, longer).name
          [] OTHER -> x
  BY DEF Near
<1> HIDE DEF hits, longer, names
<1> QED BY <1>3, <1>4, <1>5

\* A port that is there is found as it is
LEMMA NearThere ==
  ASSUME NEW ports, NEW x \in NamesOf(ports)
  PROVE  Near(ports, x) = x
BY DEF Near

\* A channel of a port is found as it is, or not at all
LEMMA NearChannel ==
  ASSUME NEW ports, NEW p, NEW C, Ranges(ports, p, C), NEW ch \in MaybeChannel, ch \in Channel \/ ch \in C
  PROVE  Near(ports, p \o Suffix(ch)) = p \o Suffix(ch)
<1>1. CASE ch \in C
  BY <1>1, NearThere DEF Ranges
<1>2. CASE ch \in Channel
  <2>1. p \o Suffix(ch) \in Str
    BY Joins, SuffixTyped DEF Ranges
  <2> QED BY <1>2, <2>1, NearSame DEF Ranges
<1> QED BY <1>1, <1>2

\* A port without a channel stands for its channel 1
LEMMA NearWhole ==
  ASSUME NEW ports, NEW p, NEW C, Ranges(ports, p, C), NoChannel \notin C, 1 \in C
  PROVE  Near(ports, p \o Suffix(NoChannel)) = p \o Suffix(1)
<1> DEFINE names == <<p \o Suffix(1), p \o (<<"In">> \o Suffix(1)), p \o (<<"Out">> \o Suffix(1))>>
           hits == {k \in DOMAIN names : names[k] \in NamesOf(ports)}
           longer == {k \in DOMAIN ports : Extends(ports[k].name, p)}
<1>1. p \o Suffix(NoChannel) = p
  BY SuffixTyped, ConcatEmptySeq DEF Ranges, MaybeChannel, Str
<1>2. p \notin NamesOf(ports)
  BY <1>1 DEF Ranges, MaybeChannel
<1>3. names[1] = p \o Suffix(1) /\ DOMAIN names = {1, 2, 3}
  OBVIOUS
<1>4. p \o Suffix(1) \in NamesOf(ports)
  BY OneIsChannel DEF Ranges
<1> HIDE DEF names
<1>5. 1 \in hits /\ hits \subseteq Nat
  <2>1. hits \subseteq {1, 2, 3}
    BY <1>3
  <2>2. 1 \in hits
    BY <1>3, <1>4
  <2> QED BY <2>1, <2>2
<1>6. FirstAt(names, hits) = names[1]
  <2>1. PICK k \in hits : FirstAt(names, hits) = names[k] /\ \A j \in hits : k <= j
    <3> HIDE DEF hits
    <3> QED BY <1>5, FirstAtIs
  <2>2. k <= 1 /\ k \in {1, 2, 3}
    BY <1>3, <1>5, <2>1
  <2>3. k = 1
    BY <2>2
  <2> QED BY <2>1, <2>3
<1>7. Near(ports, p) =
        CASE p \in NamesOf(ports) -> p
          [] p \notin NamesOf(ports) /\ hits # {} -> FirstAt(names, hits)
          [] p \notin NamesOf(ports) /\ hits = {} /\ longer # {} -> FirstAt(ports, longer).name
          [] OTHER -> p
  BY DEF Near, names
<1> HIDE DEF hits, longer
<1> QED BY <1>1, <1>2, <1>3, <1>5, <1>6, <1>7

\* The channels that a node declares of a port are those of its range
LEMMA DeclaredRange ==
  ASSUME NEW ports, NEW p, NEW C, Ranges(ports, p, C)
  PROVE  DeclaredOn(ports, p) = C \cap Channel
<1>1. DeclaredOn(ports, p) = {NumberOf[Last(m)] : m \in {m \in NamesOf(ports) : Numbered(m) /\ Front(m) = p}}
  BY DEF DeclaredOn, NamesOf
<1>2. ASSUME NEW m \in NamesOf(ports), Numbered(m), Front(m) = p
      PROVE  NumberOf[Last(m)] \in C \cap Channel
  <2>1. m \in Str /\ NumberOf[Last(m)] \in Channel /\ m = p \o Suffix(NumberOf[Last(m)])
    BY <1>2, NumberedSplits DEF Ranges
  <2> QED BY <2>1, OneIsChannel DEF Ranges
<1>3. ASSUME NEW ch \in C \cap Channel PROVE ch \in DeclaredOn(ports, p)
  <2> DEFINE m == p \o Suffix(ch)
  <2>1. m \in NamesOf(ports)
    BY OneIsChannel DEF Ranges
  <2>2. Numbered(m) /\ Front(m) = p /\ NumberOf[Last(m)] = ch
    BY NumberedChannel DEF Ranges
  <2> HIDE DEF m
  <2> QED BY <1>1, <2>1, <2>2
<1> QED BY <1>1, <1>2, <1>3

\* A channel is over range when it is above every declared one
LEMMA AboveChannel ==
  ASSUME NEW ports, NEW p, NEW C, Ranges(ports, p, C), NEW ch \in Channel
  PROVE  Above(ports, p \o Suffix(ch)) <=> ch \notin C /\ C \cap Channel # {} /\ \A d \in C \cap Channel : ch > d
<1> DEFINE x == p \o Suffix(ch)
<1>1. x \in NamesOf(ports) <=> ch \in C
  BY OneIsChannel DEF Ranges
<1>2. Numbered(x) /\ Front(x) = p /\ NumberOf[Last(x)] = ch
  BY NumberedChannel DEF Ranges
<1>3. DeclaredOn(ports, p) = C \cap Channel
  BY DeclaredRange
<1> HIDE DEF x
<1> QED BY <1>1, <1>2, <1>3 DEF Above, x

\* A port that is there is not over range
LEMMA ThereNotAbove ==
  ASSUME NEW ports, NEW x \in NamesOf(ports)
  PROVE  ~ Above(ports, x)
BY DEF Above

-----------------------------------------------------------------------------
(* The ports that are declared, and the names they stand for.              *)

PortRecord == [name : Str, dir : {"in", "out", "io"}]
ChannelsOf(d) == IF d.ranged THEN d.lo..d.hi ELSE {NoChannel}

\* A definition's channels are channels, or none for a scalar port
LEMMA ChannelsTyped ==
  ASSUME NEW d, TypedPort(d)
  PROVE  ChannelsOf(d) \subseteq MaybeChannel
<1>1. CASE d.ranged
  <2>1. d.lo \in 0..(Modulus - 1) /\ d.hi \in 0..(Modulus - 1) /\ Modulus \in Nat
    BY <1>1, Width DEF TypedPort, Channel
  <2>2. d.lo..d.hi \subseteq 0..(Modulus - 1)
    BY <2>1
  <2> QED BY <1>1, <2>2 DEF ChannelsOf, MaybeChannel, Channel
<1>2. CASE ~ d.ranged
  BY <1>2 DEF ChannelsOf, MaybeChannel
<1> QED BY <1>1, <1>2

\* A definition expands to its name with each of its channels
LEMMA PortNamesAre ==
  ASSUME NEW d, TypedPort(d)
  PROVE  PortNames(d) \in Seq(Str) /\ ElementsOf(PortNames(d)) = {d.name \o Suffix(ch) : ch \in ChannelsOf(d)}
<1>1. d.name \in Str
  BY TextTyped DEF TypedPort
<1>2. CASE d.ranged
  <2> DEFINE N == d.hi - d.lo + 1
             M == IF d.lo <= d.hi THEN N ELSE 0
             f == [k \in 1..N |-> d.name \o Suffix(d.lo + k - 1)]
  <2>1. d.lo \in 0..(Modulus - 1) /\ d.hi \in 0..(Modulus - 1) /\ Modulus \in Nat
    BY <1>2, Width DEF TypedPort, Channel
  <2>2. PortNames(d) = f
    BY <1>2 DEF PortNames
  <2>3. M \in Nat /\ 1..N = 1..M
    BY <2>1
  <2>4. \A k \in 1..N : d.lo + k - 1 \in d.lo..d.hi
    BY <2>1
  <2>5. \A ch \in d.lo..d.hi : ch \in MaybeChannel
    BY <1>2, ChannelsTyped DEF ChannelsOf
  <2>6. \A ch \in d.lo..d.hi : d.name \o Suffix(ch) \in Str
    BY <1>1, <2>5, SuffixTyped, Joins
  <2>7. f \in [1..M -> Str]
    BY <2>3, <2>4, <2>6
  <2>8. f \in Seq(Str) /\ DOMAIN f = 1..N
    <3> HIDE DEF M
    <3>1. f \in Seq(Str)
      <4> HIDE DEF f
      <4> QED BY <2>3, <2>7
    <3> QED BY <3>1
  <2>9. \A ch \in d.lo..d.hi : ch - d.lo + 1 \in 1..N /\ d.lo + (ch - d.lo + 1) - 1 = ch
    BY <2>1
  <2>10. ElementsOf(f) = {d.name \o Suffix(ch) : ch \in d.lo..d.hi}
    <3>1. ElementsOf(f) = {d.name \o Suffix(d.lo + k - 1) : k \in 1..N}
      BY DEF ElementsOf
    <3>2. ASSUME NEW ch \in d.lo..d.hi PROVE d.name \o Suffix(ch) \in ElementsOf(f)
      <4>1. ch - d.lo + 1 \in 1..N /\ d.lo + (ch - d.lo + 1) - 1 = ch
        BY <2>9
      <4> HIDE DEF N, f
      <4> QED BY <3>1, <4>1
    <3>3. ASSUME NEW k \in 1..N PROVE d.name \o Suffix(d.lo + k - 1) \in {d.name \o Suffix(ch) : ch \in d.lo..d.hi}
      BY <2>4
    <3> HIDE DEF f, N
    <3> QED BY <3>1, <3>2, <3>3
  <2> HIDE DEF f
  <2> QED BY <1>2, <2>2, <2>8, <2>10 DEF ChannelsOf
<1>3. CASE ~ d.ranged
  <2>1. PortNames(d) = <<d.name>>
    BY <1>3 DEF PortNames
  <2>2. d.name \o Suffix(NoChannel) = d.name
    BY <1>1, SuffixTyped, ConcatEmptySeq DEF MaybeChannel, Str
  <2>3. ElementsOf(<<d.name>>) = {d.name}
    BY DEF ElementsOf
  <2>4. <<d.name>> \in Seq(Str)
    BY <1>1
  <2> QED BY <1>3, <2>1, <2>2, <2>3, <2>4 DEF ChannelsOf
<1> QED BY <1>2, <1>3

\* Of each name the first port is kept, so no name is lost
LEMMA ExpandedIs ==
  ASSUME NEW D, NEW defs \in Seq(D), \A k \in DOMAIN defs : TypedPort(defs[k])
  PROVE  /\ Expanded(defs) \in Seq(PortRecord) /\ DOMAIN Expanded(defs) \subseteq Nat
         /\ NamesOf(Expanded(defs)) = UNION {ElementsOf(PortNames(defs[k])) : k \in DOMAIN defs}
         /\ NamesOf(Expanded(defs)) \subseteq Str
<1> DEFINE Row(k) == [n \in DOMAIN PortNames(defs[k]) |-> [name |-> PortNames(defs[k])[n], dir |-> defs[k].dir]]
           rows == [k \in DOMAIN defs |-> Row(k)]
           all == FlattenSeq(rows)
           kept == {k \in DOMAIN all : \A j \in 1..(k - 1) : all[j].name # all[k].name}
<1>1. DOMAIN defs = 1..Len(defs) /\ Len(defs) \in Nat
  BY LenProperties
<1>2. ASSUME NEW k \in DOMAIN defs
      PROVE  /\ Row(k) \in Seq(PortRecord)
             /\ \A r \in ElementsOf(Row(k)) : r.name \in ElementsOf(PortNames(defs[k]))
             /\ \A m \in ElementsOf(PortNames(defs[k])) : \E r \in ElementsOf(Row(k)) : r.name = m
  <2> DEFINE names == PortNames(defs[k])
  <2>1. TypedPort(defs[k])
    OBVIOUS
  <2>2. names \in Seq(Str)
    BY <2>1, PortNamesAre
  <2>3. DOMAIN names = 1..Len(names) /\ Len(names) \in Nat /\ \A n \in DOMAIN names : names[n] \in Str
    BY <2>2, LenProperties, ElementOfSeq
  <2>4. defs[k].dir \in {"in", "out", "io"}
    BY <2>1 DEF TypedPort
  <2> HIDE DEF names
  <2>5. Row(k) \in [1..Len(names) -> PortRecord] /\ DOMAIN Row(k) = DOMAIN names
    BY <2>3, <2>4 DEF names, PortRecord
  <2>6. Row(k) \in Seq(PortRecord)
    BY <2>3, <2>5
  <2>7. \A n \in DOMAIN names : Row(k)[n].name = names[n]
    BY DEF names
  <2>8. \A r \in ElementsOf(Row(k)) : r.name \in ElementsOf(names)
    <3> HIDE DEF Row
    <3> QED BY <2>5, <2>7 DEF ElementsOf
  <2>9. \A m \in ElementsOf(names) : \E r \in ElementsOf(Row(k)) : r.name = m
    <3> HIDE DEF Row
    <3> QED BY <2>5, <2>7 DEF ElementsOf
  <2> QED BY <2>6, <2>8, <2>9 DEF names
<1> HIDE DEF Row
<1>3. rows \in [1..Len(defs) -> Seq(PortRecord)]
  BY <1>1, <1>2
<1>4. rows \in Seq(Seq(PortRecord)) /\ DOMAIN rows = DOMAIN defs /\ \A k \in DOMAIN defs : rows[k] = Row(k)
  <2>1. \A k \in DOMAIN defs : rows[k] = Row(k)
    OBVIOUS
  <2> HIDE DEF rows
  <2> QED BY <1>1, <1>3, <2>1
<1> HIDE DEF rows
<1>5. all \in Seq(PortRecord) /\ ElementsOf(all) = UNION {ElementsOf(rows[k]) : k \in DOMAIN rows}
  BY <1>4, FlattenIs
<1>6. Expanded(defs) = AllAt(all, kept)
  BY DEF Expanded, rows, Row
<1> HIDE DEF all
<1>7. DOMAIN all = 1..Len(all) /\ Len(all) \in Nat /\ \A i \in DOMAIN all : all[i] \in PortRecord
  BY <1>5, LenProperties, ElementOfSeq
<1>8. IsFiniteSet(kept) /\ kept \subseteq Int /\ kept \subseteq DOMAIN all
  <2>1. IsFiniteSet(1..Len(all))
    BY <1>7, FS_Interval
  <2>2. kept \in SUBSET (1..Len(all))
    BY <1>7
  <2>3. IsFiniteSet(kept)
    BY <2>1, <2>2, FS_Subset
  <2> QED BY <1>7, <2>2, <2>3
<1> HIDE DEF kept
<1>9. ElementsOf(AllAt(all, kept)) = {all[k] : k \in kept} /\ DOMAIN AllAt(all, kept) = 1..Cardinality(kept)
  <2>1. ElementsOf(AllAt(all, kept)) = {all[k] : k \in kept}
    BY <1>8, AllAtIs
  <2>2. DOMAIN AllAt(all, kept) = 1..Cardinality(kept)
    BY <1>8, AllAtIs
  <2> QED BY <2>1, <2>2
<1>10. AllAt(all, kept) \in Seq(PortRecord)
  <2>1. \A k \in kept : all[k] \in PortRecord
    BY <1>7, <1>8
  <2> QED BY <1>8, <2>1, AllAtTyped
<1>11. ASSUME NEW i \in DOMAIN all PROVE \E k \in kept : all[k].name = all[i].name
  <2> DEFINE T == {j \in DOMAIN all : all[j].name = all[i].name}
  <2>1. T \subseteq Nat /\ i \in T
    BY <1>7
  <2>2. PICK m \in T : \A j \in T : m <= j
    <3> HIDE DEF T
    <3> QED BY <2>1, LeastNatural
  <2>3. \A j \in 1..(m - 1) : all[j].name # all[m].name
    <3> SUFFICES ASSUME NEW j \in 1..(m - 1), all[j].name = all[m].name PROVE FALSE
      OBVIOUS
    <3>1. m \in 1..Len(all)
      BY <1>7, <2>2
    <3>2. j \in DOMAIN all /\ ~ (m <= j)
      BY <1>7, <3>1
    <3>3. j \in T
      BY <2>2, <3>2
    <3> QED BY <2>2, <3>2, <3>3
  <2> QED BY <2>2, <2>3 DEF kept
<1>12. NamesOf(AllAt(all, kept)) = {all[k].name : k \in DOMAIN all}
  <2>1. NamesOf(AllAt(all, kept)) = {all[k].name : k \in kept}
    BY <1>9 DEF NamesOf
  <2> QED BY <1>8, <1>11, <2>1
<1>13. {all[k].name : k \in DOMAIN all} = UNION {ElementsOf(PortNames(defs[k])) : k \in DOMAIN defs}
  <2>1. {all[k].name : k \in DOMAIN all} = {r.name : r \in ElementsOf(all)}
    BY DEF ElementsOf
  <2>2. ElementsOf(all) = UNION {ElementsOf(Row(k)) : k \in DOMAIN defs}
    BY <1>4, <1>5
  <2>3. ASSUME NEW r \in ElementsOf(all) PROVE r.name \in UNION {ElementsOf(PortNames(defs[k])) : k \in DOMAIN defs}
    <3>1. PICK k \in DOMAIN defs : r \in ElementsOf(Row(k))
      BY <2>2
    <3> QED BY <1>2, <3>1
  <2>4. ASSUME NEW k \in DOMAIN defs, NEW m \in ElementsOf(PortNames(defs[k])) PROVE \E r \in ElementsOf(all) : r.name = m
    <3>1. PICK r \in ElementsOf(Row(k)) : r.name = m
      BY <1>2
    <3> QED BY <2>2, <3>1
  <2> QED BY <2>1, <2>3, <2>4
<1>14. NamesOf(AllAt(all, kept)) \subseteq Str
  BY <1>7, <1>12 DEF PortRecord
<1> QED BY <1>6, <1>9, <1>10, <1>12, <1>13, <1>14

\* ports as declared and without others that read like it: its names are its own
LEMMA SuffixLength ==
  ASSUME NEW ch \in MaybeChannel
  PROVE  Len(Suffix(ch)) \in {0, 1} /\ (ch \in Channel => Len(Suffix(ch)) = 1)
<1>1. CASE ch = NoChannel
  <2>1. Suffix(ch) = <<>>
    BY <1>1, SuffixTyped
  <2> QED BY <1>1, <2>1, OneIsChannel
<1>2. CASE ch # NoChannel
  <2>1. Suffix(ch) = <<Numeral[ch]>>
    BY <1>2, SuffixTyped
  <2> QED BY <2>1
<1> QED BY <1>1, <1>2

\* A channel of a name is a prefix of no other channel of the name
LEMMA ChannelPrefix ==
  ASSUME NEW p \in Str, NEW ch \in Channel, NEW c \in MaybeChannel, IsPrefix(p \o Suffix(ch), p \o Suffix(c))
  PROVE  p \o Suffix(c) = p \o Suffix(ch)
<1>1. ch \in MaybeChannel /\ Suffix(ch) \in Str /\ Suffix(c) \in Str
  BY OneIsChannel, SuffixTyped
<1>2. p \o Suffix(ch) \in Str /\ p \o Suffix(c) \in Str
  BY <1>1, Joins
<1>3. PICK v \in Str : p \o Suffix(c) = (p \o Suffix(ch)) \o v
  BY <1>2, PrefixSplits
<1>4. (p \o Suffix(ch)) \o v = p \o (Suffix(ch) \o v)
  BY <1>1, Brackets
<1>5. Suffix(c) = Suffix(ch) \o v
  <2>1. Suffix(ch) \o v \in Str
    BY <1>1, Joins
  <2> QED BY <1>1, <1>3, <1>4, <2>1, CancelLeft
<1>6. Len(Suffix(c)) = Len(Suffix(ch)) + Len(v) /\ Len(v) \in Nat
  BY <1>1, <1>5, ConcatProperties, LenProperties DEF Str
<1>7. Len(v) = 0
  BY <1>1, <1>6, SuffixLength
<1>8. v = <<>>
  BY <1>7, EmptySeq DEF Str
<1> QED BY <1>2, <1>3, <1>8, ConcatEmptySeq DEF Str

ApartFrom(defs, k) ==
  \A j \in DOMAIN defs : j # k =>
    \A m \in ElementsOf(PortNames(defs[j])) :
      m # defs[k].name /\ \A ch \in Channel : ~ IsPrefix(defs[k].name \o Suffix(ch), m)

\* A definition that reads like no other shows exactly its channels
LEMMA ApartRanges ==
  ASSUME NEW D, NEW defs \in Seq(D), \A k \in DOMAIN defs : TypedPort(defs[k]),
         NEW k \in DOMAIN defs, ApartFrom(defs, k)
  PROVE  Ranges(Expanded(defs), defs[k].name, ChannelsOf(defs[k]))
<1> DEFINE p == defs[k].name
           C == ChannelsOf(defs[k])
           names == NamesOf(Expanded(defs))
<1>1. names = UNION {ElementsOf(PortNames(defs[j])) : j \in DOMAIN defs} /\ names \subseteq Str
      /\ DOMAIN Expanded(defs) \subseteq Nat
  BY ExpandedIs
<1>2. p \in Str /\ p # <<>> /\ C \subseteq MaybeChannel
  BY TextTyped, ChannelsTyped DEF TypedPort, Text
<1>3. ElementsOf(PortNames(defs[k])) = {p \o Suffix(c) : c \in C}
  BY PortNamesAre
<1> HIDE DEF p, C, names
<1>4. ASSUME NEW ch \in MaybeChannel, p \o Suffix(ch) \in names PROVE ch \in C
  <2>1. PICK j \in DOMAIN defs : p \o Suffix(ch) \in ElementsOf(PortNames(defs[j]))
    BY <1>1, <1>4
  <2>2. j = k
    <3>1. CASE ch = NoChannel
      <4>1. p \o Suffix(ch) = p
        BY <1>2, <3>1, SuffixTyped, ConcatEmptySeq DEF Str
      <4> QED BY <2>1, <4>1 DEF ApartFrom, p
    <3>2. CASE ch # NoChannel
      <4>1. ch \in Channel /\ p \o Suffix(ch) \in Str
        BY <1>2, <3>2, SuffixTyped, Joins DEF MaybeChannel
      <4>2. IsPrefix(p \o Suffix(ch), p \o Suffix(ch))
        BY <4>1, LenProperties DEF IsPrefix, Str
      <4> QED BY <2>1, <4>1, <4>2 DEF ApartFrom, p
    <3> QED BY <3>1, <3>2
  <2>3. PICK c \in C : p \o Suffix(ch) = p \o Suffix(c)
    BY <1>3, <2>1, <2>2
  <2>4. Suffix(ch) = Suffix(c)
    BY <1>2, <2>3, SuffixTyped, CancelLeft
  <2>5. ch = c
    BY <1>2, <2>4, SuffixesDiffer
  <2> QED BY <2>5
<1>5. ASSUME NEW ch \in C PROVE p \o Suffix(ch) \in names
  BY <1>1, <1>3
<1>6. ASSUME NEW ch \in Channel, NEW m \in names, IsPrefix(p \o Suffix(ch), m) PROVE m = p \o Suffix(ch)
  <2>1. PICK j \in DOMAIN defs : m \in ElementsOf(PortNames(defs[j]))
    BY <1>1
  <2>2. j = k
    BY <1>6, <2>1 DEF ApartFrom, p
  <2>3. PICK c \in C : m = p \o Suffix(c)
    BY <1>3, <2>1, <2>2
  <2> QED BY <1>2, <1>6, <2>3, ChannelPrefix
<1>7. Ranges(Expanded(defs), p, C)
  BY <1>1, <1>2, <1>4, <1>5, <1>6 DEF Ranges, names
<1> QED BY <1>7 DEF p, C

\* Of two prefixes of a text one is a prefix of the other
LEMMA PrefixesOfOne ==
  ASSUME NEW s \in Str, NEW t \in Str, NEW m \in Str, IsPrefix(s, m), IsPrefix(t, m)
  PROVE  IsPrefix(s, t) \/ IsPrefix(t, s)
<1>1. PICK v \in Str : m = s \o v
  BY PrefixSplits
<1>2. PICK w \in Str : m = t \o w
  BY PrefixSplits
<1> SUFFICES ASSUME NEW a \in Str, NEW b \in Str, NEW x \in Str, NEW y \in Str, a \o x = b \o y, Len(a) <= Len(b)
             PROVE  IsPrefix(a, b)
  <2>1. Len(s) \in Nat /\ Len(t) \in Nat
    BY LenProperties DEF Str
  <2>2. Len(s) <= Len(t) \/ Len(t) <= Len(s)
    BY <2>1
  <2>3. s \o v = t \o w
    BY <1>1, <1>2
  <2> QED BY <1>1, <1>2, <2>2, <2>3
<1>3. /\ Len(a) \in Nat /\ Len(b) \in Nat /\ Len(x) \in Nat /\ Len(y) \in Nat
      /\ Len(a \o x) = Len(a) + Len(x) /\ Len(b \o y) = Len(b) + Len(y)
      /\ \A i \in 1..Len(a) + Len(x) : (a \o x)[i] = IF i <= Len(a) THEN a[i] ELSE x[i - Len(a)]
      /\ \A i \in 1..Len(b) + Len(y) : (b \o y)[i] = IF i <= Len(b) THEN b[i] ELSE y[i - Len(b)]
  BY LenProperties, ConcatProperties DEF Str
<1> DEFINE n == Len(a)
<1>4. n \in Nat /\ \A i \in 1..n : a[i] = b[i] /\ a[i] \in Piece /\ b[i] \in Piece
  <2>1. \A i \in 1..n : i \in 1..Len(a) + Len(x) /\ i <= Len(a) /\ i \in 1..Len(b) + Len(y) /\ i <= Len(b) /\ i \in 1..Len(b)
    BY <1>3
  <2>2. \A i \in 1..n : a[i] = (a \o x)[i] /\ b[i] = (b \o y)[i]
    BY <1>3, <2>1
  <2>3. \A i \in 1..n : a[i] \in Piece /\ b[i] \in Piece
    BY <2>1, ElementOfSeq DEF Str
  <2> QED BY <1>3, <2>2, <2>3
<1> HIDE DEF n
<1>5. /\ SubSeq(a, 1, n) \in Seq(Piece) /\ Len(SubSeq(a, 1, n)) = IF 1 <= n THEN n - 1 + 1 ELSE 0
      /\ \A i \in 1..n - 1 + 1 : SubSeq(a, 1, n)[i] = a[1 + i - 1]
  BY <1>4, SubSeqProperties
<1>6. /\ SubSeq(b, 1, n) \in Seq(Piece) /\ Len(SubSeq(b, 1, n)) = IF 1 <= n THEN n - 1 + 1 ELSE 0
      /\ \A i \in 1..n - 1 + 1 : SubSeq(b, 1, n)[i] = b[1 + i - 1]
  BY <1>4, SubSeqProperties
<1>7. \A i \in 1..Len(SubSeq(a, 1, n)) : i \in 1..n - 1 + 1 /\ 1 + i - 1 = i /\ i \in 1..n
  BY <1>4, <1>5
<1>8. \A i \in 1..Len(SubSeq(a, 1, n)) : SubSeq(a, 1, n)[i] = SubSeq(b, 1, n)[i]
  BY <1>4, <1>5, <1>6, <1>7
<1>9. SubSeq(a, 1, n) = SubSeq(b, 1, n)
  BY <1>5, <1>6, <1>8, SeqEqual
<1> QED BY <1>9 DEF IsPrefix, n

-----------------------------------------------------------------------------
(* What the four lists of the contraction hold when it is done.            *)

Direction == {"in", "out", "io"}

Named(e, k) == e.end = PortEnd(DevicePort(k)) /\ e.dir \in Direction /\ e.name \in Text
Entries(ports) == IsFiniteSet(DOMAIN ports) /\ \A k \in DOMAIN ports : Named(ports[k], k)

\* A reference and a connect as the result has them
Shown(g, ports, ref) ==
  IF ref.inst \in DOMAIN g THEN [ref EXCEPT !.inst = GroupInstance(g[ref.inst]), !.port = ports[Key(ref)].name] ELSE ref
Rewired(g, ports, c) == [source |-> Shown(g, ports, c.source), target |-> Shown(g, ports, c.target), mapping |-> c.mapping]

InsideOf(f, g, m) == {f.connects[i] : i \in {i \in 1..m : Inside(g, f.connects[i])}}
OutsideOf(f, g, ports, m) == {Rewired(g, ports, f.connects[i]) : i \in {i \in 1..m : ~Inside(g, f.connects[i])}}

Listing(seq, S) == seq \in Seq(ElementsOf(seq)) /\ ElementsOf(seq) = S
Traced(f, g, ports, n, sigs) ==
  sigs \in Seq(ElementsOf(sigs)) /\ Len(sigs) = n /\ \A i \in 1..n : sigs[i].origin = Shown(g, ports, f.signals[i].origin)

Result ==
  [flat EXCEPT
     !.templates = [name \in DOMAIN flat.templates \cup {GroupTemplate(g) : g \in Groups} |-> Declared(name)],
     !.instances = TopInstances,
     !.connects = top_connects,
     !.signals = top_signals]

Tables ==
  /\ Entries(exposed)
  /\ Listing(intra, InsideOf(flat, group_of, ConnectsRead))
  /\ Listing(top_connects, OutsideOf(flat, group_of, exposed, ConnectsRead))
  /\ Traced(flat, group_of, exposed, SignalsRead, top_signals)
  /\ phase = "done" => grouped = Result

\* Appending to a list adds one element
LEMMA Appended ==
  ASSUME NEW seq, NEW S, Listing(seq, S), NEW x
  PROVE  Listing(Append(seq, x), S \cup {x})
<1> DEFINE T == S \cup {x}
           t == Append(seq, x)
<1>1. seq \in Seq(T)
  <2>1. S \subseteq T
    OBVIOUS
  <2> HIDE DEF T
  <2> QED BY <2>1, SeqMonotonic DEF Listing
<1>2. /\ t \in Seq(T) /\ Len(t) = Len(seq) + 1 /\ Len(seq) \in Nat
      /\ DOMAIN t = 1..Len(t) /\ DOMAIN seq = 1..Len(seq)
      /\ \A i \in 1..Len(seq) : t[i] = seq[i]
      /\ t[Len(seq) + 1] = x
  <2>1. x \in T
    OBVIOUS
  <2> HIDE DEF T
  <2> QED BY <1>1, <2>1, AppendProperties, LenProperties
<1>3. ElementsOf(t) = ElementsOf(seq) \cup {x}
  <2> HIDE DEF t, T
  <2>1. ElementsOf(t) = {t[i] : i \in 1..Len(seq) + 1} /\ ElementsOf(seq) = {seq[i] : i \in 1..Len(seq)}
    BY <1>2 DEF ElementsOf
  <2>2. Len(seq) + 1 \in 1..Len(seq) + 1 /\ \A i \in 1..Len(seq) : i \in 1..Len(seq) + 1
    BY <1>2
  <2>3. \A i \in 1..Len(seq) + 1 : i \in 1..Len(seq) \/ i = Len(seq) + 1
    BY <1>2
  <2>4. ASSUME NEW y \in ElementsOf(t) PROVE y \in ElementsOf(seq) \cup {x}
    <3>1. PICK i \in 1..Len(seq) + 1 : y = t[i]
      BY <2>1
    <3> QED BY <1>2, <2>1, <2>3, <3>1
  <2>5. ASSUME NEW y \in ElementsOf(seq) PROVE y \in ElementsOf(t)
    <3>1. PICK i \in 1..Len(seq) : y = seq[i]
      BY <2>1
    <3> QED BY <1>2, <2>1, <2>2, <3>1
  <2>6. x \in ElementsOf(t)
    BY <1>2, <2>1, <2>2
  <2> QED BY <2>4, <2>5, <2>6
<1>4. ElementsOf(t) = T
  BY <1>3 DEF Listing
<1> HIDE DEF t, T
<1>5. Listing(t, T)
  BY <1>2, <1>4 DEF Listing
<1> QED BY <1>5 DEF t, T

\* An empty list
LEMMA Emptied == Listing(<<>>, {}) /\ Len(<<>>) = 0
<1>1. ElementsOf(<<>>) = {}
  BY DEF ElementsOf
<1> QED BY <1>1 DEF Listing

\* Later references leave the names that earlier ones were given
LEMMA ShownKept ==
  ASSUME NEW old, NEW new, Kept(old, new), NEW ref, Key(ref) \in DOMAIN old
  PROVE  Shown(group_of, new, ref) = Shown(group_of, old, ref)
BY DEF Kept, Shown

\* What was rewired with the table before a step is rewired the same with the table after it
LEMMA OutsideKept ==
  ASSUME NEW old, NEW new, Kept(old, new), NEW m, NEW n, Exact(old, RefsOf(flat, group_of, m, n))
  PROVE  OutsideOf(flat, group_of, new, m) = OutsideOf(flat, group_of, old, m)
<1>1. ASSUME NEW i \in 1..m, ~Inside(group_of, flat.connects[i])
      PROVE  Rewired(group_of, new, flat.connects[i]) = Rewired(group_of, old, flat.connects[i])
  <2> DEFINE c == flat.connects[i]
  <2>1. ASSUME NEW ref \in {c.source, c.target} PROVE Shown(group_of, new, ref) = Shown(group_of, old, ref)
    <3>1. CASE ref.inst \in DOMAIN group_of
      <4>1. ref \in CutAt(flat, group_of, i)
        BY <1>1, <3>1 DEF CutAt
      <4>2. ref \in RefsOf(flat, group_of, m, n)
        BY <4>1 DEF RefsOf
      <4>3. Key(ref) \in DOMAIN old
        BY <4>2 DEF Exact
      <4> QED BY <4>3, ShownKept
    <3>2. CASE ref.inst \notin DOMAIN group_of
      BY <3>2 DEF Shown
    <3> QED BY <3>1, <3>2
  <2> QED BY <2>1 DEF Rewired
<1> QED BY <1>1 DEF OutsideOf

\* and so are the signals' origins
LEMMA TracedKept ==
  ASSUME NEW old, NEW new, Kept(old, new), NEW m, NEW n, Exact(old, RefsOf(flat, group_of, m, n)),
         NEW sigs, Traced(flat, group_of, old, n, sigs)
  PROVE  Traced(flat, group_of, new, n, sigs)
<1>1. ASSUME NEW i \in 1..n
      PROVE  Shown(group_of, new, flat.signals[i].origin) = Shown(group_of, old, flat.signals[i].origin)
  <2> DEFINE ref == flat.signals[i].origin
  <2>1. CASE ref.inst \in DOMAIN group_of
    <3>1. ref \in OriginAt(flat, group_of, i)
      BY <2>1 DEF OriginAt
    <3>2. Key(ref) \in DOMAIN old
      BY <3>1 DEF RefsOf, Exact
    <3> QED BY <3>2, ShownKept
  <2>2. CASE ref.inst \notin DOMAIN group_of
    BY <2>2 DEF Shown
  <2> QED BY <2>1, <2>2
<1> QED BY <1>1 DEF Traced

-----------------------------------------------------------------------------
(* The entries.                                                            *)

\* The program read is one the parser makes
LEMMA ReadTyped ==
  ASSUME Reading
  PROVE  /\ \A i \in 1..Len(flat.connects) :
              /\ flat.connects[i] = [source |-> flat.connects[i].source, target |-> flat.connects[i].target,
                                     mapping |-> flat.connects[i].mapping]
              /\ TypedRef(flat.connects[i].source) /\ TypedRef(flat.connects[i].target)
              /\ TypedMapping(flat.connects[i].mapping)
         /\ \A i \in 1..Len(flat.signals) :
              TypedRef(flat.signals[i].origin) /\ flat.signals[i] = [name |-> flat.signals[i].name, origin |-> flat.signals[i].origin]
         /\ DOMAIN flat = {"templates", "instances", "connects", "bridges", "groups", "signals"}
         /\ flat.signals \in Seq(ElementsOf(flat.signals)) /\ flat.connects \in Seq(ElementsOf(flat.connects))
         /\ TypedInstances(flat.instances) /\ IsFiniteSet(DOMAIN flat.templates)
         /\ \A name \in DOMAIN flat.templates : TypedTemplate(flat.templates[name])
<1>1. PICK x \in Inputs : flat = x[1]
  BY DEF Reading
<1>2. flat.connects \in Seq(ElementsOf(flat.connects)) /\ flat.signals \in Seq(ElementsOf(flat.signals))
  BY <1>1, InputsTyped
<1>3. DOMAIN flat.connects = 1..Len(flat.connects) /\ DOMAIN flat.signals = 1..Len(flat.signals)
  BY <1>2, LenProperties
<1>4. /\ \A i \in 1..Len(flat.connects) : flat.connects[i] \in ElementsOf(flat.connects)
      /\ \A i \in 1..Len(flat.signals) : flat.signals[i] \in ElementsOf(flat.signals)
  BY <1>3 DEF ElementsOf
<1>5. ASSUME NEW i \in 1..Len(flat.connects)
      PROVE  /\ flat.connects[i] = [source |-> flat.connects[i].source, target |-> flat.connects[i].target,
                                     mapping |-> flat.connects[i].mapping]
             /\ TypedRef(flat.connects[i].source) /\ TypedRef(flat.connects[i].target)
             /\ TypedMapping(flat.connects[i].mapping)
  BY <1>1, <1>4, RefsTyped
<1>6. ASSUME NEW i \in 1..Len(flat.signals)
      PROVE  TypedRef(flat.signals[i].origin) /\ flat.signals[i] = [name |-> flat.signals[i].name, origin |-> flat.signals[i].origin]
  BY <1>1, <1>4, RefsTyped
<1>7. /\ DOMAIN flat = {"templates", "instances", "connects", "bridges", "groups", "signals"}
      /\ TypedInstances(flat.instances) /\ IsFiniteSet(DOMAIN flat.templates)
      /\ \A name \in DOMAIN flat.templates : TypedTemplate(flat.templates[name])
  BY <1>1, TemplatesTyped
<1> QED BY <1>2, <1>5, <1>6, <1>7

\* The ports of a template, declared or not
LEMMA TemplatePorts ==
  ASSUME Reading, NEW name
  PROVE  LET ports == Lookup(flat, name).ports
         IN ports \in Seq(ElementsOf(ports)) /\ \A d \in ElementsOf(ports) : TypedPort(d)
<1> DEFINE ports == Lookup(flat, name).ports
<1>1. CASE name \in DOMAIN flat.templates
  <2>1. ports = flat.templates[name].ports
    BY <1>1 DEF Lookup
  <2> QED BY <1>1, <2>1, ReadTyped DEF TypedTemplate
<1>2. CASE name \notin DOMAIN flat.templates
  <2>1. ports = <<>>
    BY <1>2 DEF Lookup, NoTemplate
  <2> QED BY <2>1, Emptied DEF Listing
<1> QED BY <1>1, <1>2

\* The ports of an instance's template
LEMMA OwnTyped ==
  ASSUME Reading, NEW ref
  PROVE  OwnPorts(ref) \in Seq(ElementsOf(OwnPorts(ref))) /\ \A d \in ElementsOf(OwnPorts(ref)) : TypedPort(d)
<1>1. CASE ref.inst \in InstanceNames(flat)
  BY <1>1, TemplatePorts DEF OwnPorts
<1>2. CASE ref.inst \notin InstanceNames(flat)
  <2>1. OwnPorts(ref) = <<>>
    BY <1>2 DEF OwnPorts
  <2> QED BY <2>1, Emptied DEF Listing
<1> QED BY <1>1, <1>2

\* A port of the instance's template is declared there under its name
LEMMA OwnDeclared ==
  ASSUME Reading, NEW ref, Own(ref)
  PROVE  LET d == LastNamed(OwnPorts(ref), ref.port)
         IN d \in ElementsOf(OwnPorts(ref)) /\ d.name = ref.port /\ TypedPort(d)
<1>1. \E k \in DOMAIN OwnPorts(ref) : OwnPorts(ref)[k].name = ref.port
  BY DEF Own, ElementsOf
<1>2. OwnPorts(ref) \in Seq(ElementsOf(OwnPorts(ref))) /\ \A d \in ElementsOf(OwnPorts(ref)) : TypedPort(d)
  BY OwnTyped
<1>3. PICK k \in DOMAIN OwnPorts(ref) :
        LastNamed(OwnPorts(ref), ref.port) = OwnPorts(ref)[k] /\ OwnPorts(ref)[k].name = ref.port
  BY <1>1, <1>2, LastNamedIs
<1>4. OwnPorts(ref)[k] \in ElementsOf(OwnPorts(ref))
  BY DEF ElementsOf
<1> QED BY <1>2, <1>3, <1>4

\* The direction a port is given on a boundary
LEMMA DirTyped ==
  ASSUME Reading, NEW ref, NEW fallback \in Direction
  PROVE  PortDir(ref, fallback) \in Direction
<1>1. CASE Own(ref)
  <2>1. TypedPort(LastNamed(OwnPorts(ref), ref.port))
    BY <1>1, OwnDeclared
  <2> QED BY <1>1, <2>1 DEF PortDir, TypedPort, Direction
<1>2. CASE ~ Own(ref)
  BY <1>2 DEF PortDir
<1> QED BY <1>1, <1>2

\* Joining two texts makes a text
LEMMA TextsJoin ==
  ASSUME NEW s \in Text, NEW t \in Text
  PROVE  s \o t \in Text
<1>1. s \in Seq(STRING) /\ t \in Seq(STRING) /\ s # <<>>
  BY DEF Text
<1>2. s \o t \in Seq(STRING) /\ Len(s \o t) = Len(s) + Len(t) /\ Len(s) \in Nat /\ Len(t) \in Nat
  BY <1>1, ConcatProperties, LenProperties
<1>3. Len(s) # 0
  BY <1>1, EmptySeq
<1>4. s \o t # <<>>
  BY <1>2, <1>3
<1> QED BY <1>2, <1>4 DEF Text

\* The names a port can get on a boundary are texts
LEMMA ExposedTyped ==
  ASSUME Entries(exposed), NEW ref, TypedRef(ref), NEW name \in ExposedNames(ref)
  PROVE  name \in Text
<1> DEFINE base == ref.inst \o ref.port
           used == UsedNames(group_of[ref.inst])
           numbered(k) == base \o <<Numeral[k]>>
<1>0. base \in Text
  BY TextsJoin DEF TypedRef
<1>1. CASE Key(ref) \in DOMAIN exposed
  <2>1. ExposedNames(ref) = {exposed[Key(ref)].name}
    BY <1>1 DEF ExposedNames
  <2> QED BY <1>1, <2>1 DEF Entries, Named
<1>2. CASE Key(ref) \notin DOMAIN exposed /\ base \notin used
  <2>1. ExposedNames(ref) = {base}
    BY <1>2 DEF ExposedNames
  <2> QED BY <1>0, <2>1
<1>3. CASE Key(ref) \notin DOMAIN exposed /\ base \in used
  <2>1. ExposedNames(ref) = {numbered(k) : k \in {k \in 2..(Modulus - 1) :
                      numbered(k) \notin used /\ \A j \in 2..(k - 1) : numbered(j) \in used}}
    BY <1>3 DEF ExposedNames
  <2>2. PICK k \in 2..(Modulus - 1) : name = numbered(k)
    BY <2>1
  <2>3. k \in Channel
    BY Width DEF Channel
  <2>4. Numeral[k] \in STRING
    BY <2>3, NumeralsTyped
  <2>5. <<Numeral[k]>> \in Text
    BY <2>4 DEF Text
  <2> HIDE DEF base
  <2> QED BY <1>0, <2>2, <2>5, TextsJoin
<1> QED BY <1>1, <1>2, <1>3

\* A port's end depends on its device and name only
LEMMA EndOfKey ==
  ASSUME NEW ref
  PROVE  PortEnd(ref) = PortEnd(DevicePort(Key(ref)))
BY DEF PortEnd, Own, OwnPorts, DevicePort, Key, Ref

\* Noting keeps the fields of entries in their types
LEMMA NotedEntries ==
  ASSUME NEW ports, Form(ports), Entries(ports), NEW ref, NEW name \in Text, NEW dir \in Direction
  PROVE  Entries(Noted(ports, ref, name, dir))
<1> DEFINE new == Noted(ports, ref, name, dir)
<1>1. DOMAIN new = DOMAIN ports \cup {Key(ref)}
  BY NotedDomain
<1>2. IsFiniteSet(DOMAIN new)
  BY <1>1, FS_AddElement DEF Entries
<1>3. ASSUME NEW k \in DOMAIN new PROVE Named(new[k], k)
  <2>1. CASE k \in DOMAIN ports /\ k # Key(ref)
    <3>1. new[k] = ports[k]
      BY <2>1, NotedElsewhere
    <3> QED BY <2>1, <3>1 DEF Entries
  <2>2. CASE k = Key(ref) /\ k \in DOMAIN ports
    <3>1. new[k] = Widened(ports[k], ref)
      BY <2>2, NotedAgain
    <3> HIDE DEF new
    <3> QED BY <2>2, <3>1 DEF Widened, Entries, Named
  <2>3. CASE k = Key(ref) /\ k \notin DOMAIN ports
    <3>1. new[k] = Opening(ref, name, dir)
      BY <2>3, NotedFirst
    <3> HIDE DEF new
    <3> QED BY <2>3, <3>1, EndOfKey DEF Opening, Named
  <2> QED BY <1>1, <2>1, <2>2, <2>3
<1> QED BY <1>2, <1>3 DEF Entries

-----------------------------------------------------------------------------
(* Every step keeps the lists.                                             *)

\* A program that stays keeps the meaning of its entries' ends
LEMMA EntriesLater ==
  ASSUME Entries(exposed'), flat' = flat
  PROVE  Entries(exposed)'
<1>1. ASSUME NEW k PROVE PortEnd(DevicePort(k))' = PortEnd(DevicePort(k))
  BY DEF PortEnd, DevicePort, Ref, Own, OwnPorts, InstanceNames, LastNamed, Lookup, ElementsOf
<1> QED BY <1>1 DEF Entries, Named

\* Reading is not the end
LEMMA NotAnyLater ==
  ASSUME Classifying \/ Tracing, phase' = phase
  PROVE  phase' # "done" /\ phase # "done"
BY DEF Classifying, Tracing

\* A connect read goes to one of the two lists
LEMMA ConnectListed ==
  ASSUME IInv, Tables, Classifying, at' = at + 1, UNCHANGED <<flat, phase, group_of, top_signals>>,
         Kept(exposed, exposed'), Entries(exposed'),
         \/ Inside(group_of, Current) /\ intra' = Append(intra, Current) /\ top_connects' = top_connects
         \/ /\ ~Inside(group_of, Current) /\ intra' = intra
            /\ top_connects' = Append(top_connects, Rewired(group_of, exposed', Current))
  PROVE  Tables'
<1>1. phase = "connects" /\ at \in Nat \ {0}
  BY DEF IInv, Classifying, TypeOK
<1>2. ConnectsRead' = at /\ SignalsRead' = 0 /\ ConnectsRead = at - 1 /\ SignalsRead = 0
  BY <1>1 DEF ConnectsRead, SignalsRead
<1>3. Entries(exposed)'
  BY EntriesLater
<1>4. at - 1 \in Nat /\ (at - 1) + 1 = at
  BY <1>1
<1>5. /\ Inside(group_of, Current) =>
            /\ InsideOf(flat, group_of, at) = InsideOf(flat, group_of, at - 1) \cup {Current}
            /\ OutsideOf(flat, group_of, exposed', at) = OutsideOf(flat, group_of, exposed', at - 1)
      /\ ~Inside(group_of, Current) =>
            /\ InsideOf(flat, group_of, at) = InsideOf(flat, group_of, at - 1)
            /\ OutsideOf(flat, group_of, exposed', at) =
                 OutsideOf(flat, group_of, exposed', at - 1) \cup {Rewired(group_of, exposed', Current)}
  <2> DEFINE R == 1..at
             Q == 1..at - 1
             c == Current
             ports == exposed'
             Out(x) == Rewired(group_of, ports, x)
  <2>1. R = Q \cup {at}
    BY <1>4
  <2>2. c = flat.connects[at]
    BY DEF Current
  <2> HIDE DEF R, Q, c, ports
  <2>3. ASSUME Inside(group_of, c)
        PROVE  /\ {flat.connects[i] : i \in {i \in R : Inside(group_of, flat.connects[i])}} =
                    {flat.connects[i] : i \in {i \in Q : Inside(group_of, flat.connects[i])}} \cup {c}
               /\ {Out(flat.connects[i]) : i \in {i \in R : ~Inside(group_of, flat.connects[i])}} =
                    {Out(flat.connects[i]) : i \in {i \in Q : ~Inside(group_of, flat.connects[i])}}
    BY <2>1, <2>2, <2>3
  <2>4. ASSUME ~Inside(group_of, c)
        PROVE  /\ {flat.connects[i] : i \in {i \in R : Inside(group_of, flat.connects[i])}} =
                    {flat.connects[i] : i \in {i \in Q : Inside(group_of, flat.connects[i])}}
               /\ {Out(flat.connects[i]) : i \in {i \in R : ~Inside(group_of, flat.connects[i])}} =
                    {Out(flat.connects[i]) : i \in {i \in Q : ~Inside(group_of, flat.connects[i])}} \cup {Out(c)}
    BY <2>1, <2>2, <2>4
  <2> QED BY <2>3, <2>4 DEF R, Q, c, ports, InsideOf, OutsideOf
<1>6. OutsideOf(flat, group_of, exposed', at - 1) = OutsideOf(flat, group_of, exposed, at - 1)
  <2>1. Exact(exposed, RefsOf(flat, group_of, at - 1, 0))
    BY <1>2, BoundaryNow DEF Read
  <2> QED BY <2>1, OutsideKept
<1>7. Listing(intra, InsideOf(flat, group_of, at - 1)) /\ Listing(top_connects, OutsideOf(flat, group_of, exposed, at - 1))
  BY <1>2 DEF Tables
<1>8. Listing(intra', InsideOf(flat, group_of, at)) /\ Listing(top_connects', OutsideOf(flat, group_of, exposed', at))
  <2>1. CASE Inside(group_of, Current)
    <3>2. /\ InsideOf(flat, group_of, at) = InsideOf(flat, group_of, at - 1) \cup {Current}
          /\ OutsideOf(flat, group_of, exposed', at) = OutsideOf(flat, group_of, exposed, at - 1)
      BY <1>5, <1>6, <2>1
    <3>3. intra' = Append(intra, Current) /\ top_connects' = top_connects
      BY <2>1
    <3> QED BY <1>7, <3>2, <3>3, Appended
  <2>2. CASE ~Inside(group_of, Current)
    <3>2. /\ InsideOf(flat, group_of, at) = InsideOf(flat, group_of, at - 1)
          /\ OutsideOf(flat, group_of, exposed', at) =
               OutsideOf(flat, group_of, exposed, at - 1) \cup {Rewired(group_of, exposed', Current)}
      BY <1>5, <1>6, <2>2
    <3>3. intra' = intra /\ top_connects' = Append(top_connects, Rewired(group_of, exposed', Current))
      BY <2>2
    <3> QED BY <1>7, <3>2, <3>3, Appended
  <2> QED BY <2>1, <2>2
<1>9. Traced(flat, group_of, exposed', 0, top_signals')
  <2>1. Traced(flat, group_of, exposed, 0, top_signals)
    BY <1>2 DEF Tables
  <2> QED BY <2>1 DEF Traced
<1> QED BY <1>1, <1>2, <1>3, <1>8, <1>9 DEF Tables, Listing, Traced

\* A reference that was noted under a name has it in the table
LEMMA NamedSo ==
  ASSUME NEW ports, NEW ref, NEW name, NEW dir, Form(ports), ref.indexed \in BOOLEAN, Free(ports, ref, name)
  PROVE  Noted(ports, ref, name, dir)[Key(ref)].name = name
BY NotedEntry DEF Free

\* A promoted reference names the group's instance and the boundary's port
LEMMA PromotedIs ==
  ASSUME NEW ref, Grouped(ref), NEW ports, NEW name, ports[Key(ref)].name = name
  PROVE  Promoted(ref, name) = Shown(group_of, ports, ref)
BY DEF Promoted, Shown, Grouped

\* The connect being read has the types of a connect
LEMMA CurrentRead ==
  ASSUME IInv, Classifying
  PROVE  /\ Current = [source |-> Current.source, target |-> Current.target, mapping |-> Current.mapping]
         /\ TypedRef(Current.source) /\ TypedRef(Current.target)
         /\ Current.source.indexed \in BOOLEAN /\ Current.target.indexed \in BOOLEAN
<1>1. Reading /\ at \in Nat \ {0} /\ at <= Len(flat.connects)
  BY DEF IInv, TypeOK, Classifying
<1>2. Len(flat.connects) \in Nat
  BY <1>1, ListsTyped
<1>3. at \in 1..Len(flat.connects)
  BY <1>1, <1>2
<1> QED BY <1>1, <1>3, ReadTyped, CurrentTyped DEF Current

\* A connect within a group is listed there
LEMMA KeepInsideListed == ASSUME IInv, Tables, KeepInside PROVE Tables'
<1>1. Classifying /\ Inside(group_of, Current)
  BY DEF KeepInside, SameGroup, Grouped, Inside
<1>2. exposed' = exposed /\ Entries(exposed') /\ Kept(exposed, exposed')
  BY DEF KeepInside, Tables, Kept
<1> QED BY <1>1, <1>2, ConnectListed DEF KeepInside

\* A connect at the top is listed there
LEMMA LeaveOnTopListed == ASSUME IInv, Tables, LeaveOnTop PROVE Tables'
<1>1. Classifying /\ ~Inside(group_of, Current)
  BY DEF LeaveOnTop, Grouped, Inside
<1>2. exposed' = exposed /\ Entries(exposed') /\ Kept(exposed, exposed')
  BY DEF LeaveOnTop, Tables, Kept
<1>3. Rewired(group_of, exposed', Current) = Current
  <2>1. Shown(group_of, exposed', Current.source) = Current.source /\ Shown(group_of, exposed', Current.target) = Current.target
    BY DEF LeaveOnTop, Grouped, Shown
  <2> QED BY <1>1, <2>1, CurrentRead DEF Rewired
<1> QED BY <1>1, <1>2, <1>3, ConnectListed DEF LeaveOnTop

\* A connect that leaves a group is listed at the top with its source promoted
LEMMA RewireSourceListed == ASSUME IInv, Tables, RewireSource PROVE Tables'
<1> DEFINE dir == PortDir(Current.source, "out")
<1>1. PICK s \in ExposedNames(Current.source) :
        /\ exposed' = Noted(exposed, Current.source, s, dir)
        /\ top_connects' = Append(top_connects, [Current EXCEPT !.source = Promoted(@, s)])
  BY DEF RewireSource
<1>2. Classifying /\ ~Inside(group_of, Current) /\ Grouped(Current.source) /\ ~Grouped(Current.target)
  BY DEF RewireSource, Grouped, Inside
<1>3. Form(exposed) /\ Entries(exposed) /\ Free(exposed, Current.source, s) /\ Reading
  BY BoundaryNow, FreeName DEF Tables, IInv
<1>4. /\ TypedRef(Current.source) /\ Current.source.indexed \in BOOLEAN
      /\ Current = [source |-> Current.source, target |-> Current.target, mapping |-> Current.mapping]
  BY <1>2, CurrentRead
<1>5. s \in Text /\ dir \in Direction
  BY <1>3, <1>4, ExposedTyped, DirTyped DEF Direction
<1> HIDE DEF dir
<1>6. Entries(exposed')
  BY <1>1, <1>3, <1>5, NotedEntries
<1>7. Kept(exposed, exposed')
  BY RewireSourceStep
<1>8. exposed'[Key(Current.source)].name = s
  BY <1>1, <1>3, <1>4, NamedSo
<1>9. [Current EXCEPT !.source = Promoted(@, s)] = Rewired(group_of, exposed', Current)
  <2>1. Promoted(Current.source, s) = Shown(group_of, exposed', Current.source)
    BY <1>2, <1>8, PromotedIs
  <2>2. Current.target = Shown(group_of, exposed', Current.target)
    BY <1>2 DEF Shown, Grouped
  <2>3. [Current EXCEPT !.source = Promoted(@, s)] =
          [source |-> Promoted(Current.source, s), target |-> Current.target, mapping |-> Current.mapping]
    BY <1>4
  <2> QED BY <2>1, <2>2, <2>3 DEF Rewired
<1>10. UNCHANGED <<flat, phase, group_of, top_signals, intra>> /\ at' = at + 1
  BY DEF RewireSource
<1> QED BY <1>1, <1>2, <1>6, <1>7, <1>9, <1>10, ConnectListed

\* One that enters a group with its target promoted
LEMMA RewireTargetListed == ASSUME IInv, Tables, RewireTarget PROVE Tables'
<1> DEFINE dir == PortDir(Current.target, "in")
<1>1. PICK t \in ExposedNames(Current.target) :
        /\ exposed' = Noted(exposed, Current.target, t, dir)
        /\ top_connects' = Append(top_connects, [Current EXCEPT !.target = Promoted(@, t)])
  BY DEF RewireTarget
<1>2. Classifying /\ ~Inside(group_of, Current) /\ ~Grouped(Current.source) /\ Grouped(Current.target)
  BY DEF RewireTarget, Grouped, Inside
<1>3. Form(exposed) /\ Entries(exposed) /\ Free(exposed, Current.target, t) /\ Reading
  BY BoundaryNow, FreeName DEF Tables, IInv
<1>4. /\ TypedRef(Current.target) /\ Current.target.indexed \in BOOLEAN
      /\ Current = [source |-> Current.source, target |-> Current.target, mapping |-> Current.mapping]
  BY <1>2, CurrentRead
<1>5. t \in Text /\ dir \in Direction
  BY <1>3, <1>4, ExposedTyped, DirTyped DEF Direction
<1> HIDE DEF dir
<1>6. Entries(exposed')
  BY <1>1, <1>3, <1>5, NotedEntries
<1>7. Kept(exposed, exposed')
  BY RewireTargetStep
<1>8. exposed'[Key(Current.target)].name = t
  BY <1>1, <1>3, <1>4, NamedSo
<1>9. [Current EXCEPT !.target = Promoted(@, t)] = Rewired(group_of, exposed', Current)
  <2>1. Promoted(Current.target, t) = Shown(group_of, exposed', Current.target)
    BY <1>2, <1>8, PromotedIs
  <2>2. Current.source = Shown(group_of, exposed', Current.source)
    BY <1>2 DEF Shown, Grouped
  <2>3. [Current EXCEPT !.target = Promoted(@, t)] =
          [source |-> Current.source, target |-> Promoted(Current.target, t), mapping |-> Current.mapping]
    BY <1>4
  <2> QED BY <2>1, <2>2, <2>3 DEF Rewired
<1>10. UNCHANGED <<flat, phase, group_of, top_signals, intra>> /\ at' = at + 1
  BY DEF RewireTarget
<1> QED BY <1>1, <1>2, <1>6, <1>7, <1>9, <1>10, ConnectListed

\* A connect with both its ends replaced
LEMMA BothReplaced ==
  ASSUME NEW c, c = [source |-> c.source, target |-> c.target, mapping |-> c.mapping], NEW s, NEW t
  PROVE  [c EXCEPT !.source = Promoted(@, s), !.target = Promoted(@, t)] =
           [source |-> Promoted(c.source, s), target |-> Promoted(c.target, t), mapping |-> c.mapping]
<1>1. PICK x, y, m : c = [source |-> x, target |-> y, mapping |-> m]
  OBVIOUS
<1>2. c.source = x /\ c.target = y /\ c.mapping = m
  BY <1>1
<1> DEFINE u == Promoted(x, s)
           v == Promoted(y, t)
<1> HIDE DEF u, v
<1>3. [c EXCEPT !.source = u, !.target = v] = [source |-> u, target |-> v, mapping |-> m]
  <2>1. [c EXCEPT !.source = u] = [source |-> u, target |-> y, mapping |-> m]
    BY <1>1
  <2>2. [[source |-> u, target |-> y, mapping |-> m] EXCEPT !.target = v] = [source |-> u, target |-> v, mapping |-> m]
    OBVIOUS
  <2>3. [c EXCEPT !.source = u, !.target = v] = [[c EXCEPT !.source = u] EXCEPT !.target = v]
    OBVIOUS
  <2> QED BY <2>1, <2>2, <2>3
<1>4. [c EXCEPT !.source = Promoted(@, s), !.target = Promoted(@, t)] = [c EXCEPT !.source = u, !.target = v]
  BY <1>2 DEF u, v
<1> QED BY <1>2, <1>3, <1>4 DEF u, v

\* One from group to group with both
LEMMA RewireBothListed == ASSUME IInv, Tables, RewireBoth PROVE Tables'
<1> DEFINE sDir == PortDir(Current.source, "out")
           tDir == PortDir(Current.target, "in")
<1>1. PICK s \in ExposedNames(Current.source), t \in ExposedNames(Current.target) :
        /\ exposed' = Noted(Noted(exposed, Current.source, s, sDir), Current.target, t, tDir)
        /\ top_connects' = Append(top_connects, [Current EXCEPT !.source = Promoted(@, s), !.target = Promoted(@, t)])
  BY DEF RewireBoth
<1>2. Classifying /\ ~Inside(group_of, Current) /\ Grouped(Current.source) /\ Grouped(Current.target)
      /\ group_of[Current.source.inst] # group_of[Current.target.inst]
  BY DEF RewireBoth, Grouped, Inside, SameGroup
<1>3. /\ Form(exposed) /\ Entries(exposed) /\ Reading
      /\ Free(exposed, Current.source, s) /\ Free(exposed, Current.target, t)
  BY BoundaryNow, FreeName DEF Tables, IInv
<1>4. /\ TypedRef(Current.source) /\ Current.source.indexed \in BOOLEAN
      /\ TypedRef(Current.target) /\ Current.target.indexed \in BOOLEAN
      /\ Current = [source |-> Current.source, target |-> Current.target, mapping |-> Current.mapping]
  BY <1>2, CurrentRead
<1>5. s \in Text /\ sDir \in Direction /\ t \in Text /\ tDir \in Direction
  BY <1>3, <1>4, ExposedTyped, DirTyped DEF Direction
<1> HIDE DEF sDir, tDir
<1> DEFINE between == Noted(exposed, Current.source, s, sDir)
<1>6. Form(between) /\ Entries(between)
  BY <1>3, <1>4, <1>5, NotedForm, NotedEntries
<1>7. Free(between, Current.target, t)
  BY <1>2, <1>3, <1>4, FreeAfter
<1>8. between[Key(Current.source)].name = s /\ Key(Current.source) \in DOMAIN between
  <2>1. between[Key(Current.source)].name = s
    BY <1>3, <1>4, NamedSo
  <2>2. DOMAIN between = DOMAIN exposed \cup {Key(Current.source)}
    BY NotedDomain
  <2> QED BY <2>1, <2>2
<1>9. exposed' = Noted(between, Current.target, t, tDir)
  BY <1>1
<1> HIDE DEF between
<1>10. Entries(exposed') /\ Kept(between, exposed')
  BY <1>4, <1>5, <1>6, <1>9, NotedEntries, NotedKept
<1>11. Kept(exposed, exposed')
  BY RewireBothStep
<1>12. exposed'[Key(Current.target)].name = t /\ exposed'[Key(Current.source)].name = s
  BY <1>4, <1>6, <1>7, <1>8, <1>9, <1>10, NamedSo DEF Kept
<1>13. [Current EXCEPT !.source = Promoted(@, s), !.target = Promoted(@, t)] = Rewired(group_of, exposed', Current)
  <2>1. Promoted(Current.target, t) = Shown(group_of, exposed', Current.target)
    BY <1>2, <1>12, PromotedIs
  <2>2. Promoted(Current.source, s) = Shown(group_of, exposed', Current.source)
    BY <1>2, <1>12, PromotedIs
  <2>3. [Current EXCEPT !.source = Promoted(@, s), !.target = Promoted(@, t)] =
          [source |-> Promoted(Current.source, s), target |-> Promoted(Current.target, t), mapping |-> Current.mapping]
    BY <1>4, BothReplaced
  <2> QED BY <2>1, <2>2, <2>3 DEF Rewired
<1>14. UNCHANGED <<flat, phase, group_of, top_signals, intra>> /\ at' = at + 1
  BY DEF RewireBoth
<1> QED BY <1>1, <1>2, <1>10, <1>11, <1>13, <1>14, ConnectListed

-----------------------------------------------------------------------------
(* The signals.                                                            *)

\* A signal read goes to the list with the origin shown
LEMMA SignalListed ==
  ASSUME IInv, Tables, Tracing, at' = at + 1, UNCHANGED <<flat, phase, group_of, intra, top_connects>>,
         Kept(exposed, exposed'), Entries(exposed'),
         NEW s, top_signals' = Append(top_signals, s), s.origin = Shown(group_of, exposed', flat.signals[at].origin)
  PROVE  Tables'
<1>1. phase = "signals" /\ at \in Nat \ {0}
  BY DEF IInv, Tracing, TypeOK
<1>2. ConnectsRead' = ConnectsRead /\ SignalsRead' = at /\ SignalsRead = at - 1
  BY <1>1 DEF ConnectsRead, SignalsRead
<1>3. Entries(exposed)'
  BY EntriesLater
<1>4. Exact(exposed, RefsOf(flat, group_of, ConnectsRead, at - 1))
  BY <1>2, BoundaryNow DEF Read
<1>5. OutsideOf(flat, group_of, exposed', ConnectsRead) = OutsideOf(flat, group_of, exposed, ConnectsRead)
  BY <1>4, OutsideKept
<1>6. Traced(flat, group_of, exposed', at - 1, top_signals)
  <2>1. Traced(flat, group_of, exposed, at - 1, top_signals)
    BY <1>2 DEF Tables
  <2> QED BY <1>4, <2>1, TracedKept
<1>7. Traced(flat, group_of, exposed', at, top_signals')
  <2>1. Listing(top_signals, ElementsOf(top_signals)) /\ top_signals \in Seq(ElementsOf(top_signals)) /\ Len(top_signals) = at - 1
    BY <1>6 DEF Traced, Listing
  <2>2. Listing(top_signals', ElementsOf(top_signals) \cup {s})
    BY <2>1, Appended
  <2>3. /\ Len(top_signals') = at /\ top_signals'[at] = s
        /\ \A i \in 1..(at - 1) : top_signals'[i] = top_signals[i]
    <3>1. /\ Len(Append(top_signals, s)) = Len(top_signals) + 1
          /\ \A i \in 1..Len(top_signals) : Append(top_signals, s)[i] = top_signals[i]
          /\ Append(top_signals, s)[Len(top_signals) + 1] = s
      <4>1. top_signals \in Seq(ElementsOf(top_signals) \cup {s}) /\ s \in ElementsOf(top_signals) \cup {s}
        <5> DEFINE S == ElementsOf(top_signals)
                   T == S \cup {s}
        <5>1. S \subseteq T
          OBVIOUS
        <5> HIDE DEF S, T
        <5>2. top_signals \in Seq(T)
          BY <2>1, <5>1, SeqMonotonic DEF S
        <5> QED BY <5>2 DEF S, T
      <4> HIDE DEF Tables
      <4> QED BY <4>1, AppendProperties
    <3>2. (at - 1) + 1 = at
      BY <1>1
    <3> QED BY <2>1, <3>1, <3>2
  <2>4. \A i \in 1..at : i \in 1..(at - 1) \/ i = at
    BY <1>1
  <2> QED BY <1>6, <2>2, <2>3, <2>4 DEF Traced, Listing
<1>8. Listing(intra, InsideOf(flat, group_of, ConnectsRead)) /\ Listing(top_connects, OutsideOf(flat, group_of, exposed', ConnectsRead))
  BY <1>5 DEF Tables
<1> QED BY <1>1, <1>2, <1>3, <1>7, <1>8 DEF Tables, Listing, Traced

\* The signal being read has the types of a signal
LEMMA OriginRead ==
  ASSUME IInv, Tracing
  PROVE  LET s == flat.signals[at]
         IN TypedRef(s.origin) /\ s.origin.indexed \in BOOLEAN /\ s = [name |-> s.name, origin |-> s.origin]
<1>1. Reading /\ at \in Nat \ {0} /\ at <= Len(flat.signals)
  BY DEF IInv, TypeOK, Tracing
<1>2. Len(flat.signals) \in Nat
  BY <1>1, ListsTyped
<1>3. at \in 1..Len(flat.signals)
  BY <1>1, <1>2
<1> QED BY <1>1, <1>3, ReadTyped DEF TypedRef

\* A signal whose device is in a group
LEMMA PromoteOriginListed == ASSUME IInv, Tables, PromoteOrigin PROVE Tables'
<1> DEFINE origin == flat.signals[at].origin
           dir == PortDir(origin, "out")
<1>1. PICK o \in ExposedNames(origin) :
        /\ exposed' = Noted(exposed, origin, o, dir)
        /\ top_signals' = Append(top_signals, [flat.signals[at] EXCEPT !.origin = Promoted(@, o)])
  BY DEF PromoteOrigin
<1>2. Tracing /\ Grouped(origin)
  BY DEF PromoteOrigin
<1>3. Form(exposed) /\ Entries(exposed) /\ Free(exposed, origin, o) /\ Reading
  BY BoundaryNow, FreeName DEF Tables, IInv
<1>4. TypedRef(origin) /\ origin.indexed \in BOOLEAN /\ flat.signals[at] = [name |-> flat.signals[at].name, origin |-> origin]
  BY <1>2, OriginRead
<1>5. o \in Text /\ dir \in Direction
  BY <1>3, <1>4, ExposedTyped, DirTyped DEF Direction
<1> HIDE DEF dir
<1>6. Entries(exposed')
  BY <1>1, <1>3, <1>5, NotedEntries
<1>7. Kept(exposed, exposed')
  BY PromoteOriginStep
<1>8. exposed'[Key(origin)].name = o
  BY <1>1, <1>3, <1>4, NamedSo
<1>9. [flat.signals[at] EXCEPT !.origin = Promoted(@, o)].origin = Shown(group_of, exposed', origin)
  <2>1. Promoted(origin, o) = Shown(group_of, exposed', origin)
    BY <1>2, <1>8, PromotedIs
  <2>2. [flat.signals[at] EXCEPT !.origin = Promoted(@, o)] = [name |-> flat.signals[at].name, origin |-> Promoted(origin, o)]
    BY <1>4
  <2> QED BY <2>1, <2>2
<1>10. UNCHANGED <<flat, phase, group_of, top_connects, intra>> /\ at' = at + 1
  BY DEF PromoteOrigin
<1> QED BY <1>1, <1>2, <1>6, <1>7, <1>9, <1>10, SignalListed

\* A signal whose device is at the top
LEMMA KeepOriginListed == ASSUME IInv, Tables, KeepOrigin PROVE Tables'
<1>1. exposed' = exposed /\ Entries(exposed') /\ Kept(exposed, exposed')
  BY DEF KeepOrigin, Tables, Kept
<1>2. flat.signals[at].origin = Shown(group_of, exposed', flat.signals[at].origin)
  BY DEF KeepOrigin, Grouped, Shown
<1> QED BY <1>1, <1>2, SignalListed DEF KeepOrigin

-----------------------------------------------------------------------------
(* The other steps.                                                        *)

\* The result depends on the tables only
LEMMA ResultLater ==
  ASSUME UNCHANGED <<flat, group_of, exposed, intra, top_connects, top_signals>>
  PROVE  Result' = Result
BY DEF Result, Declared, Assembled, LastGroup, TopInstances, GroupOrder, FirstMember, InGroup, Positions, Groups,
       BoundaryPort, Wiring, ExposedBy

\* A step that reads nothing keeps the lists
LEMMA SameTables ==
  ASSUME Tables, UNCHANGED <<flat, group_of, exposed, intra, top_connects, top_signals>>,
         ConnectsRead' = ConnectsRead, SignalsRead' = SignalsRead, phase' = "done" => grouped' = Result
  PROVE  Tables'
<1>1. Entries(exposed)'
  BY EntriesLater DEF Tables
<1>2. Result' = Result
  BY ResultLater
<1> HIDE DEF Result
<1> QED BY <1>1, <1>2 DEF Tables, Listing, Traced

\* Finding the groups lists nothing
LEMMA GroupListed == ASSUME IInv, Tables, Group PROVE Tables'
<1>1. exposed' = exposed /\ flat' = flat /\ phase = "group" /\ phase' = "connects" /\ at' = at /\ at = 1
      /\ UNCHANGED <<intra, top_connects, top_signals>>
  BY DEF Group, IInv, Reading
<1>2. Entries(exposed)'
  BY <1>1, EntriesLater DEF Tables
<1>3. ConnectsRead = 0 /\ SignalsRead = 0 /\ ConnectsRead' = 0 /\ SignalsRead' = 0
  BY <1>1 DEF ConnectsRead, SignalsRead
<1>4. /\ \A g : InsideOf(flat, g, 0) = {}
      /\ \A g, ports : OutsideOf(flat, g, ports, 0) = {}
  BY DEF InsideOf, OutsideOf
<1>5. Listing(intra, {}) /\ Listing(top_connects, {})
  BY <1>3, <1>4 DEF Tables
<1>6. Traced(flat, group_of', exposed, 0, top_signals)
  <2>1. Traced(flat, group_of, exposed, 0, top_signals)
    BY <1>3 DEF Tables
  <2> QED BY <2>1 DEF Traced
<1> QED BY <1>1, <1>2, <1>3, <1>4, <1>5, <1>6 DEF Tables, Listing, Traced

\* After the last connect
LEMMA ConnectsDoneListed == ASSUME IInv, Tables, ConnectsDone PROVE Tables'
<1>1. TypeOK /\ Reading /\ Len(flat.connects) \in Nat
  BY ListsTyped DEF IInv
<1>2. ConnectsRead' = ConnectsRead /\ SignalsRead' = SignalsRead
  BY <1>1 DEF TypeOK, ConnectsDone, ConnectsRead, SignalsRead
<1> QED BY <1>2, SameTables DEF ConnectsDone

\* After the last signal
LEMMA SignalsDoneListed == ASSUME IInv, Tables, SignalsDone PROVE Tables'
<1>1. TypeOK /\ Reading /\ Len(flat.signals) \in Nat
  BY ListsTyped DEF IInv
<1>2. ConnectsRead' = ConnectsRead /\ SignalsRead' = SignalsRead
  BY <1>1 DEF TypeOK, Reading, SignalsDone, ConnectsRead, SignalsRead
<1> QED BY <1>2, SameTables DEF SignalsDone

\* The result is what Result says
LEMMA AssembleListed == ASSUME IInv, Tables, Assemble PROVE Tables'
<1>1. ConnectsRead' = ConnectsRead /\ SignalsRead' = SignalsRead
  BY DEF Assemble, ConnectsRead, SignalsRead
<1>2. grouped' = Result
  BY DEF Assemble, Result
<1> QED BY <1>1, <1>2, SameTables DEF Assemble

\* The lists are empty at the start
LEMMA InitListed == Init => Tables
<1> SUFFICES ASSUME Init PROVE Tables
  OBVIOUS
<1>1. exposed = <<>> /\ intra = <<>> /\ top_connects = <<>> /\ top_signals = <<>> /\ phase = "group"
  BY DEF Init
<1>2. ConnectsRead = 0 /\ SignalsRead = 0
  BY <1>1 DEF ConnectsRead, SignalsRead
<1>3. Entries(<<>>)
  BY NothingExposed, FS_EmptySet DEF Entries
<1>4. InsideOf(flat, group_of, 0) = {} /\ OutsideOf(flat, group_of, <<>>, 0) = {}
  BY DEF InsideOf, OutsideOf
<1>5. Traced(flat, group_of, <<>>, 0, <<>>)
  BY Emptied DEF Traced, Listing
<1> QED BY <1>1, <1>2, <1>3, <1>4, <1>5, Emptied DEF Tables

\* Every step keeps them
LEMMA NextListed == IInv /\ Tables /\ Next => Tables'
<1> SUFFICES ASSUME IInv, Tables, Next PROVE Tables'
  OBVIOUS
<1> QED
  BY GroupListed, KeepInsideListed, RewireSourceListed, RewireTargetListed, RewireBothListed, LeaveOnTopListed,
     ConnectsDoneListed, PromoteOriginListed, KeepOriginListed, SignalsDoneListed, AssembleListed DEF Next

\* and so does a step that changes nothing
LEMMA StutterListed == Tables /\ UNCHANGED vars => Tables'
<1> SUFFICES ASSUME Tables, UNCHANGED vars PROVE Tables'
  OBVIOUS
<1>1. ConnectsRead' = ConnectsRead /\ SignalsRead' = SignalsRead
  BY DEF vars, ConnectsRead, SignalsRead
<1>2. phase' = "done" => grouped' = Result
  BY DEF vars, Tables
<1> QED BY <1>1, <1>2, SameTables DEF vars

\* The inductive invariant of the contraction and of the two graphs
Graphed == IInv /\ Compiled /\ Tables

\* At every moment of contraction and compilation the tables hold what was read
LEMMA GraphsOfTables == ViewSpec => []Graphed
<1>1. ViewInit => Tables
  BY InitListed DEF ViewInit
<1>2. IInv /\ Tables /\ [ViewNext]_<<vars, compiled>> => Tables'
  <2> SUFFICES ASSUME IInv, Tables, [ViewNext]_<<vars, compiled>> PROVE Tables'
    OBVIOUS
  <2>1. Next \/ UNCHANGED vars
    BY DEF ViewNext, Contracting, Compile
  <2> QED BY <2>1, NextListed, StutterListed
<1> QED BY <1>1, <1>2, GraphsOfPrograms, PTL DEF ViewSpec, Graphed

-----------------------------------------------------------------------------
(* When it is done.                                                        *)

Settled == Graphed /\ Done

\* What has been proved, at the end
LEMMA SettledIs ==
  ASSUME Settled
  PROVE  /\ TypeOK /\ Reading /\ BoundaryExact /\ NamesApart /\ Entries(exposed) /\ Form(exposed)
         /\ phase = "done" /\ ConnectsRead = Len(flat.connects) /\ SignalsRead = Len(flat.signals)
         /\ FlatGraph = CompileToGraph(flat) /\ GroupedGraph = CompileToGraph(grouped)
<1>1. IInv /\ Compiled /\ Tables /\ compiled # <<>>
  BY DEF Settled, Graphed, Done
<1>2. phase = "done" /\ compiled = [program \in {flat, grouped} |-> CompileToGraph(program)]
  BY <1>1 DEF Compiled
<1>3. FlatGraph = CompileToGraph(flat) /\ GroupedGraph = CompileToGraph(grouped)
  BY <1>2 DEF FlatGraph, GroupedGraph
<1>4. ConnectsRead = Len(flat.connects) /\ SignalsRead = Len(flat.signals)
  BY <1>2 DEF ConnectsRead, SignalsRead
<1>5. Form(exposed)
  BY <1>1, BoundaryNow
<1> QED BY <1>1, <1>2, <1>3, <1>4, <1>5, InvariantImplies DEF IInv, Tables

\* The grouped program, field by field
LEMMA GroupedIs ==
  ASSUME Settled
  PROVE  /\ grouped.templates = [name \in DOMAIN flat.templates \cup {GroupTemplate(g) : g \in Groups} |-> Declared(name)]
         /\ grouped.instances = TopInstances /\ grouped.connects = top_connects /\ grouped.signals = top_signals
         /\ grouped.bridges = flat.bridges /\ grouped.groups = flat.groups
<1>1. grouped = Result /\ Reading
  BY SettledIs DEF Settled, Graphed, Tables
<1>2. DOMAIN flat = {"templates", "instances", "connects", "bridges", "groups", "signals"}
  BY <1>1, ReadTyped
<1> DEFINE T == [name \in DOMAIN flat.templates \cup {GroupTemplate(g) : g \in Groups} |-> Declared(name)]
           I == TopInstances
<1>3. grouped = [flat EXCEPT !.templates = T, !.instances = I, !.connects = top_connects, !.signals = top_signals]
  BY <1>1 DEF Result
<1> HIDE DEF T, I
<1>4. /\ grouped.templates = T /\ grouped.instances = I /\ grouped.connects = top_connects /\ grouped.signals = top_signals
      /\ grouped.bridges = flat.bridges /\ grouped.groups = flat.groups
  BY <1>2, <1>3
<1> QED BY <1>4 DEF T, I

\* The lists in terms of the program's cables
LEMMA ListsAre ==
  ASSUME Settled
  PROVE  /\ intra \in Seq(ElementsOf(intra)) /\ ElementsOf(intra) = {c \in Cables : SameGroup(c)}
         /\ top_connects \in Seq(ElementsOf(top_connects)) /\ ElementsOf(top_connects) = {Rewired(group_of, exposed, c) : c \in Cut}
         /\ Len(top_signals) = Len(flat.signals) /\ DOMAIN flat.signals = 1..Len(flat.signals)
         /\ \A i \in DOMAIN flat.signals : top_signals[i].origin = Shown(group_of, exposed, flat.signals[i].origin)
<1>1. Reading /\ ConnectsRead = Len(flat.connects) /\ SignalsRead = Len(flat.signals)
  BY SettledIs
<1>2. /\ DOMAIN flat.connects = 1..Len(flat.connects) /\ DOMAIN flat.signals = 1..Len(flat.signals)
      /\ Cables = {flat.connects[i] : i \in 1..Len(flat.connects)}
  BY <1>1, ReadTyped, LenProperties DEF Cables, ElementsOf
<1>3. \A c : Inside(group_of, c) <=> SameGroup(c)
  BY DEF Inside, SameGroup, Grouped
<1>4. InsideOf(flat, group_of, Len(flat.connects)) = {c \in Cables : SameGroup(c)}
  BY <1>2, <1>3 DEF InsideOf
<1>5. OutsideOf(flat, group_of, exposed, Len(flat.connects)) = {Rewired(group_of, exposed, c) : c \in Cut}
  BY <1>2, <1>3 DEF OutsideOf, Cut
<1>6. Tables
  BY DEF Settled, Graphed
<1> QED BY <1>1, <1>2, <1>4, <1>5, <1>6 DEF Tables, Listing, Traced

\* A cable has the types of a connect
LEMMA CableTyped ==
  ASSUME Settled, NEW c \in Cables
  PROVE  /\ c = [source |-> c.source, target |-> c.target, mapping |-> c.mapping]
         /\ TypedRef(c.source) /\ TypedRef(c.target) /\ TypedMapping(c.mapping)
<1>1. Reading
  BY SettledIs
<1>2. PICK i \in 1..Len(flat.connects) : c = flat.connects[i]
  BY <1>1, ReadTyped, LenProperties DEF Cables, ElementsOf
<1> QED BY <1>1, <1>2, ReadTyped

\* The references that cross are those of the cut cables and of the signals, and are on a boundary
LEMMA NotedAre ==
  ASSUME Settled
  PROVE  /\ \A c \in Cut : \A r \in {c.source, c.target} : Grouped(r) => r \in NotedRefs
         /\ \A i \in DOMAIN flat.signals : Grouped(flat.signals[i].origin) => flat.signals[i].origin \in NotedRefs
         /\ \A r \in NotedRefs : TypedRef(r) /\ Grouped(r) /\ Key(r) \in DOMAIN exposed
<1>1. Reading /\ BoundaryExact /\ ConnectsRead = Len(flat.connects) /\ SignalsRead = Len(flat.signals)
  BY SettledIs
<1>2. /\ DOMAIN flat.connects = 1..Len(flat.connects) /\ DOMAIN flat.signals = 1..Len(flat.signals)
      /\ Cables = {flat.connects[i] : i \in 1..Len(flat.connects)}
  BY <1>1, ReadTyped, LenProperties DEF Cables, ElementsOf
<1>3. ASSUME NEW c \in Cut, NEW r \in {c.source, c.target}, Grouped(r) PROVE r \in NotedRefs
  <2>1. PICK i \in 1..ConnectsRead : c = flat.connects[i]
    BY <1>1, <1>2 DEF Cut
  <2>2. r \in {x \in {flat.connects[i].source, flat.connects[i].target} : Grouped(x) /\ ~SameGroup(flat.connects[i])}
    BY <1>3, <2>1 DEF Cut
  <2> QED BY <2>1, <2>2 DEF NotedRefs
<1>4. ASSUME NEW i \in DOMAIN flat.signals, Grouped(flat.signals[i].origin) PROVE flat.signals[i].origin \in NotedRefs
  BY <1>1, <1>2, <1>4 DEF NotedRefs
<1>5. ASSUME NEW r \in NotedRefs PROVE TypedRef(r) /\ Grouped(r) /\ Key(r) \in DOMAIN exposed
  <2>1. Grouped(r)
    BY DEF NotedRefs
  <2>2. Key(r) \in DOMAIN exposed
    BY <1>1 DEF BoundaryExact
  <2>3. TypedRef(r)
    BY <1>1, ReadTyped DEF NotedRefs
  <2> QED BY <2>1, <2>2, <2>3
<1> QED BY <1>3, <1>4, <1>5

\* A boundary port stands for a port of a device in a group
LEMMA KeyTyped ==
  ASSUME Settled, NEW k \in DOMAIN exposed
  PROVE  /\ k = <<k[1], k[2]>> /\ k[1] \in DOMAIN group_of /\ k[1] \in Devices /\ k[1] \in Text /\ k[2] \in Text
         /\ group_of[k[1]] \in Groups /\ group_of[k[1]] \in Cluster
         /\ exposed[k].end = PortEnd(DevicePort(k)) /\ exposed[k].dir \in Direction /\ exposed[k].name \in Text
         /\ exposed[k].whole \in BOOLEAN /\ exposed[k].channels \subseteq Channel /\ IsFiniteSet(exposed[k].channels)
         /\ ~exposed[k].whole => exposed[k].channels # {} \/ \E r \in NotedRefs : Key(r) = k /\ r.index = <<>> /\ r.indexed
<1>1. TypeOK /\ BoundaryExact /\ Entries(exposed) /\ Form(exposed)
  BY SettledIs
<1>2. PICK r \in NotedRefs : k = Key(r)
  BY <1>1 DEF BoundaryExact
<1>3. TypedRef(r) /\ Grouped(r)
  BY NotedAre
<1>4. k = <<k[1], k[2]>> /\ k[1] \in Text /\ k[2] \in Text /\ k[1] \in DOMAIN group_of
  BY <1>2, <1>3 DEF Key, TypedRef, Grouped
<1>5. k[1] \in Devices /\ group_of[k[1]] \in Groups /\ group_of[k[1]] \in Cluster
  BY <1>1, <1>4 DEF TypeOK, Devices, Groups
<1>6. exposed[k].end = PortEnd(DevicePort(k)) /\ exposed[k].dir \in Direction /\ exposed[k].name \in Text
  BY <1>1 DEF Entries, Named
<1>7. exposed[k].whole \in BOOLEAN
  BY <1>1 DEF Form, Entry
<1>8. exposed[k].channels = UNION {ElementsOf(s.index) : s \in {s \in NotedRefs : Key(s) = k}}
      /\ (exposed[k].whole <=> \E s \in NotedRefs : Key(s) = k /\ ~s.indexed)
  BY <1>1 DEF BoundaryExact
<1>9. exposed[k].channels \subseteq Channel
  <2> SUFFICES ASSUME NEW ch \in exposed[k].channels PROVE ch \in Channel
    OBVIOUS
  <2>1. PICK s \in NotedRefs : ch \in ElementsOf(s.index)
    BY <1>8
  <2>2. s.index \in Seq(Channel)
    BY <2>1, NotedAre DEF TypedRef
  <2> QED BY <2>1, <2>2, ElementOfSeq DEF ElementsOf
<1>10. IsFiniteSet(exposed[k].channels)
  <2>1. IsFiniteSet(Channel)
    <3>1. 0 \in Int /\ Modulus - 1 \in Int
      BY Width
    <3> QED BY <3>1, FS_Interval DEF Channel
  <2> QED BY <1>9, <2>1, FS_Subset
<1>11. ASSUME ~exposed[k].whole, exposed[k].channels = {} PROVE \E s \in NotedRefs : Key(s) = k /\ s.index = <<>> /\ s.indexed
  <2>1. r.indexed
    BY <1>2, <1>3, <1>8, <1>11 DEF TypedRef
  <2>2. ElementsOf(r.index) = {}
    BY <1>2, <1>8, <1>11
  <2>3. r.index \in Seq(Channel) /\ DOMAIN r.index = {}
    BY <1>3, <2>2 DEF TypedRef, ElementsOf
  <2>4. r.index = <<>>
    <3>1. Len(r.index) \in Nat /\ DOMAIN r.index = 1..Len(r.index)
      BY <2>3, LenProperties
    <3>2. Len(r.index) = 0
      <4> DEFINE l == Len(r.index)
      <4>1. l \in Nat /\ 1..l = {}
        BY <2>3, <3>1
      <4> HIDE DEF l
      <4>2. l # 0 => 1 \in 1..l
        BY <4>1
      <4> QED BY <4>1, <4>2 DEF l
    <3> QED BY <2>3, <3>2, EmptySeq
  <2> QED BY <1>2, <2>1, <2>4
<1> QED BY <1>4, <1>5, <1>6, <1>7, <1>9, <1>10, <1>11

-----------------------------------------------------------------------------
(* The ports of a device.                                                  *)

\* The definitions of a template and its cards; the template's own come first
LEMMA DefinitionsTyped ==
  ASSUME Reading, NEW t, NEW cards, cards \in Seq(ElementsOf(cards))
  PROVE  LET defs == Definitions(flat, t, cards)
             own == Lookup(flat, t).ports
         IN /\ defs \in Seq(ElementsOf(defs)) /\ \A k \in DOMAIN defs : TypedPort(defs[k])
            /\ own \in Seq(ElementsOf(own)) /\ DOMAIN own \subseteq DOMAIN defs /\ \A k \in DOMAIN own : defs[k] = own[k]
<1> DEFINE own == Lookup(flat, t).ports
           Row(k) == Lookup(flat, cards[k]).ports
           rows == [k \in DOMAIN cards |-> Row(k)]
           S == UNION ({ElementsOf(own)} \cup {ElementsOf(Row(k)) : k \in DOMAIN cards})
           rest == FlattenSeq(rows)
           defs == own \o rest
<1>1. own \in Seq(ElementsOf(own)) /\ \A d \in ElementsOf(own) : TypedPort(d)
  BY TemplatePorts
<1>2. \A k \in DOMAIN cards : Row(k) \in Seq(ElementsOf(Row(k))) /\ \A d \in ElementsOf(Row(k)) : TypedPort(d)
  BY TemplatePorts
<1>3. Definitions(flat, t, cards) = defs
  BY DEF Definitions
<1> HIDE DEF own, Row
<1>4. ElementsOf(own) \subseteq S /\ \A k \in DOMAIN cards : ElementsOf(Row(k)) \subseteq S
  OBVIOUS
<1>5. \A d \in S : TypedPort(d)
  BY <1>1, <1>2
<1> HIDE DEF S
<1>6. own \in Seq(S)
  BY <1>1, <1>4, SeqMonotonic
<1>7. \A k \in DOMAIN cards : Row(k) \in Seq(S)
  <2> TAKE k \in DOMAIN cards
  <2>1. Row(k) \in Seq(ElementsOf(Row(k))) /\ ElementsOf(Row(k)) \subseteq S
    BY <1>2, <1>4
  <2> QED BY <2>1, SeqMonotonic
<1>8. rows \in Seq(Seq(S))
  <2>1. DOMAIN cards = 1..Len(cards) /\ Len(cards) \in Nat
    BY LenProperties
  <2>2. rows \in [1..Len(cards) -> Seq(S)]
    BY <1>7, <2>1
  <2> HIDE DEF rows
  <2> QED BY <2>1, <2>2
<1> HIDE DEF rows
<1>9. rest \in Seq(S)
  BY <1>8, FlattenIs
<1> HIDE DEF rest
<1>10. /\ defs \in Seq(S) /\ Len(defs) = Len(own) + Len(rest) /\ DOMAIN defs = 1..Len(defs)
       /\ Len(own) \in Nat /\ Len(rest) \in Nat /\ DOMAIN own = 1..Len(own)
       /\ \A i \in 1..Len(own) + Len(rest) : defs[i] = IF i <= Len(own) THEN own[i] ELSE rest[i - Len(own)]
  BY <1>6, <1>9, ConcatProperties, LenProperties
<1> HIDE DEF defs
<1>11. DOMAIN own \subseteq DOMAIN defs /\ \A k \in DOMAIN own : defs[k] = own[k]
  <2>1. \A i \in 1..Len(own) : i \in 1..Len(own) + Len(rest) /\ i <= Len(own)
    BY <1>10
  <2> QED BY <1>10, <2>1
<1>12. \A k \in DOMAIN defs : defs[k] \in S
  BY <1>10, ElementOfSeq
<1>13. defs \in Seq(ElementsOf(defs))
  <2>1. defs \in [1..Len(defs) -> ElementsOf(defs)]
    BY <1>10 DEF ElementsOf
  <2> QED BY <1>10, <2>1
<1> QED BY <1>1, <1>3, <1>5, <1>11, <1>12, <1>13 DEF own

\* A device is one instance of the program: names are not declared twice
LEMMA DeviceIs ==
  ASSUME Reading, NEW n \in Devices
  PROVE  LET i == LastNamed(flat.instances, n)
         IN /\ i \in ElementsOf(flat.instances) /\ i.name = n /\ n \in Text /\ n # NoInstance
            /\ i.cards \in Seq(ElementsOf(i.cards))
            /\ \A j \in ElementsOf(flat.instances) : j.name = n => j = i
<1>1. flat.instances \in Seq(ElementsOf(flat.instances))
      /\ \A i \in ElementsOf(flat.instances) : i.name \in Text \ {NoInstance} /\ i.cards \in Seq(ElementsOf(i.cards))
  BY ReadTyped DEF TypedInstances
<1>2. \E k \in DOMAIN flat.instances : flat.instances[k].name = n
  BY DEF Devices, InstanceNames, ElementsOf
<1>3. PICK k \in DOMAIN flat.instances : LastNamed(flat.instances, n) = flat.instances[k] /\ flat.instances[k].name = n
  <2> DEFINE decls == flat.instances
  <2> HIDE DEF decls
  <2>1. decls \in Seq(ElementsOf(decls)) /\ \E k \in DOMAIN decls : decls[k].name = n
    BY <1>1, <1>2 DEF decls
  <2>2. \E k \in DOMAIN decls : LastNamed(decls, n) = decls[k] /\ decls[k].name = n /\ \A j \in DOMAIN decls : decls[j].name = n => j <= k
    BY <2>1, LastNamedIs, Zenon
  <2> QED BY <2>2 DEF decls
<1>4. flat.instances[k] \in ElementsOf(flat.instances)
  BY DEF ElementsOf
<1>5. \A j \in DOMAIN flat.instances : flat.instances[j].name = flat.instances[k].name => j = k
  BY InputsWellFormed DEF Reading
<1>6. \A j \in ElementsOf(flat.instances) : j.name = n => j = flat.instances[k]
  BY <1>3, <1>5 DEF ElementsOf
<1> QED BY <1>1, <1>3, <1>4, <1>6

\* A template that declares a port is declared
LEMMA OwnTemplate ==
  ASSUME NEW ref, Own(ref)
  PROVE  LastNamed(flat.instances, ref.inst).template \in DOMAIN flat.templates
<1> DEFINE t == LastNamed(flat.instances, ref.inst).template
<1>1. OwnPorts(ref) # <<>>
  BY DEF Own, ElementsOf
<1>2. OwnPorts(ref) = Lookup(flat, t).ports
  BY <1>1 DEF OwnPorts
<1> HIDE DEF t
<1>3. t \in DOMAIN flat.templates
  BY <1>1, <1>2 DEF Lookup, NoTemplate
<1> QED BY <1>3 DEF t

\* What a device of the program shows
E(n) == Expanded(DefinitionsOf(n))

\* What a device's ports expand to
LEMMA DeviceTyped ==
  ASSUME Reading, NEW n \in Devices
  PROVE  /\ DefinitionsOf(n) \in Seq(ElementsOf(DefinitionsOf(n)))
         /\ \A k \in DOMAIN DefinitionsOf(n) : TypedPort(DefinitionsOf(n)[k])
         /\ E(n) \in Seq(PortRecord) /\ DOMAIN E(n) \subseteq Nat /\ NamesOf(E(n)) \subseteq Str
<1> DEFINE i == LastNamed(flat.instances, n)
           defs == DefinitionsOf(n)
<1>1. i.cards \in Seq(ElementsOf(i.cards))
  BY DeviceIs
<1>2. defs = IF i.template \in DOMAIN flat.templates THEN Definitions(flat, i.template, i.cards) ELSE <<>>
  BY DEF DefinitionsOf, NodeDefinitions
<1> HIDE DEF i, defs
<1>3. defs \in Seq(ElementsOf(defs)) /\ \A k \in DOMAIN defs : TypedPort(defs[k])
  <2>1. CASE i.template \in DOMAIN flat.templates
    BY <1>1, <1>2, <2>1, DefinitionsTyped
  <2>2. CASE i.template \notin DOMAIN flat.templates
    BY <1>2, <2>2
  <2> QED BY <2>1, <2>2
<1>4. Expanded(defs) \in Seq(PortRecord) /\ DOMAIN Expanded(defs) \subseteq Nat /\ NamesOf(Expanded(defs)) \subseteq Str
  BY <1>3, ExpandedIs
<1> QED BY <1>3, <1>4 DEF defs, E

\* A port the template declares, where it stands and how wide it is
LEMMA OwnRanges ==
  ASSUME Reading, NEW ref, ref.inst \in Devices, Own(ref), PortsApart({ref.inst})
  PROVE  LET d == LastNamed(OwnPorts(ref), ref.port)
             defs == DefinitionsOf(ref.inst)
         IN /\ d.name = ref.port /\ TypedPort(d) /\ Ranges(E(ref.inst), ref.port, ChannelsOf(d))
            /\ ChannelsOf(d) # {} /\ (d.ranged => d.lo <= d.hi)
            /\ FirstOf(ref) = (IF d.ranged THEN d.lo ELSE 1) /\ PortEnd(ref) = (IF d.ranged THEN d.hi ELSE NoEnd)
            /\ {k \in DOMAIN defs : defs[k].name = ref.port} # {}
            /\ FirstAt(defs, {k \in DOMAIN defs : defs[k].name = ref.port}) = d
<1> DEFINE n == ref.inst
           own == OwnPorts(ref)
           d == LastNamed(own, ref.port)
           i == LastNamed(flat.instances, n)
           defs == DefinitionsOf(n)
           named == {k \in DOMAIN defs : defs[k].name = ref.port}
<1>1. i.cards \in Seq(ElementsOf(i.cards)) /\ n \in InstanceNames(flat)
  BY DeviceIs DEF Devices
<1>2. defs = Definitions(flat, i.template, i.cards) /\ own = Lookup(flat, i.template).ports
  <2>1. i.template \in DOMAIN flat.templates
    BY OwnTemplate
  <2> QED BY <1>1, <2>1 DEF DefinitionsOf, NodeDefinitions, OwnPorts
<1>3. /\ defs \in Seq(ElementsOf(defs)) /\ \A k \in DOMAIN defs : TypedPort(defs[k])
      /\ own \in Seq(ElementsOf(own)) /\ DOMAIN own \subseteq DOMAIN defs /\ \A k \in DOMAIN own : defs[k] = own[k]
  <2> HIDE DEF i, defs, own
  <2> QED BY <1>1, <1>2, DefinitionsTyped
<1>4. d.name = ref.port /\ TypedPort(d)
  BY OwnDeclared
<1>5. PICK k \in DOMAIN own : d = own[k] /\ own[k].name = ref.port
  <2>1. \E k \in DOMAIN own : own[k].name = ref.port
    BY DEF Own, ElementsOf
  <2> QED BY <1>3, <2>1, LastNamedIs
<1>6. k \in DOMAIN defs /\ defs[k] = d
  BY <1>3, <1>5
<1>7. /\ \A j \in DOMAIN defs : ElementsOf(PortNames(defs[j])) # {}
      /\ \A j \in DOMAIN defs, l \in DOMAIN defs : j # l =>
           \A m \in ElementsOf(PortNames(defs[j])) :
             m # defs[l].name /\ \A ch \in Channel : ~IsPrefix(defs[l].name \o Suffix(ch), m)
  <2> HIDE DEF defs
  <2> QED BY DEF PortsApart, defs
<1>8. ApartFrom(defs, k)
  BY <1>6, <1>7 DEF ApartFrom
<1> HIDE DEF own, defs, d
<1>9. Ranges(Expanded(defs), d.name, ChannelsOf(d))
  BY <1>3, <1>6, <1>8, ApartRanges
<1>10. ChannelsOf(d) # {}
  <2>1. ElementsOf(PortNames(d)) = {d.name \o Suffix(ch) : ch \in ChannelsOf(d)}
    BY <1>4, PortNamesAre
  <2> QED BY <1>6, <1>7, <2>1
<1>11. d.ranged => d.lo <= d.hi
  <2> SUFFICES ASSUME d.ranged PROVE d.lo <= d.hi
    OBVIOUS
  <2>1. PICK c \in d.lo..d.hi : TRUE
    BY <1>10 DEF ChannelsOf
  <2>2. d.lo \in Nat /\ d.hi \in Nat
    BY <1>4, OneIsChannel DEF TypedPort
  <2> QED BY <2>1, <2>2
<1>12. named = {k}
  <2>1. ASSUME NEW j \in named PROVE j = k
    <3>1. ElementsOf(PortNames(defs[j])) = {defs[j].name \o Suffix(ch) : ch \in ChannelsOf(defs[j])}
      BY <1>3, PortNamesAre
    <3>2. PICK ch \in ChannelsOf(defs[j]) : defs[j].name \o Suffix(ch) \in ElementsOf(PortNames(defs[j]))
      BY <1>7, <3>1
    <3>3. ch \in MaybeChannel /\ defs[j].name = d.name
      BY <1>3, <1>4, ChannelsTyped
    <3>4. d.name \in Str
      BY <1>4, TextTyped DEF TypedPort
    <3>5. CASE ch = NoChannel
      <4>1. d.name \o Suffix(ch) = d.name
        BY <3>3, <3>4, <3>5, SuffixTyped, ConcatEmptySeq DEF Str
      <4> QED BY <1>6, <1>7, <3>2, <3>3, <4>1
    <3>6. CASE ch # NoChannel
      <4>1. ch \in Channel /\ d.name \o Suffix(ch) \in Str
        BY <3>3, <3>4, <3>6, SuffixTyped, Joins DEF MaybeChannel
      <4>2. IsPrefix(d.name \o Suffix(ch), d.name \o Suffix(ch))
        BY <4>1, LenProperties DEF IsPrefix, Str
      <4> QED BY <1>6, <1>7, <3>2, <3>3, <4>1, <4>2
    <3> QED BY <3>5, <3>6
  <2> QED BY <1>4, <1>6, <2>1
<1>13. FirstAt(defs, named) = d
  <2>1. DOMAIN defs \subseteq Nat
    BY <1>3, LenProperties
  <2>2. named \subseteq Nat /\ named # {}
    BY <1>12, <2>1
  <2>3. PICK j \in named : FirstAt(defs, named) = defs[j]
    <3> HIDE DEF named
    <3> QED BY <2>2, FirstAtIs
  <2> QED BY <1>6, <1>12, <2>3
<1>14. FirstOf(ref) = (IF d.ranged THEN d.lo ELSE 1) /\ PortEnd(ref) = (IF d.ranged THEN d.hi ELSE NoEnd)
  BY DEF FirstOf, PortEnd, d, own
<1> QED BY <1>4, <1>9, <1>10, <1>11, <1>12, <1>13, <1>14 DEF E, d, own, defs

-----------------------------------------------------------------------------
(* The result of the contraction.                                          *)

\* The only declaration of a name is the one that is kept
LEMMA OnlyElement ==
  ASSUME NEW S, NEW decls \in Seq(S), NEW x \in ElementsOf(decls),
         \A y \in ElementsOf(decls) : y.name = x.name => y = x
  PROVE  LastNamed(decls, x.name) = x
<1>1. \E k \in DOMAIN decls : decls[k].name = x.name
  BY DEF ElementsOf
<1>2. PICK k \in DOMAIN decls : LastNamed(decls, x.name) = decls[k] /\ decls[k].name = x.name
  BY <1>1, LastNamedIs
<1> QED BY <1>2 DEF ElementsOf

\* and the one that is found first
LEMMA OnlyFound ==
  ASSUME NEW S, NEW decls \in Seq(S), NEW x \in ElementsOf(decls),
         \A y \in ElementsOf(decls) : y.name = x.name => y = x
  PROVE  FirstNamed(decls, x.name) = x
<1> DEFINE named == {k \in DOMAIN decls : decls[k].name = x.name}
<1>1. named # {} /\ named \subseteq Nat
  <2>1. DOMAIN decls = 1..Len(decls) /\ Len(decls) \in Nat
    BY LenProperties
  <2> QED BY <2>1 DEF ElementsOf
<1>2. FirstNamed(decls, x.name) = FirstAt(decls, named)
  BY DEF FirstNamed
<1> HIDE DEF named
<1>3. PICK k \in named : FirstAt(decls, named) = decls[k]
  BY <1>1, FirstAtIs
<1>4. k \in DOMAIN decls /\ decls[k].name = x.name
  BY DEF named
<1> QED BY <1>2, <1>3, <1>4 DEF ElementsOf

\* The elements at some positions
LEMMA AllAtElements ==
  ASSUME NEW S, NEW seq \in Seq(S), NEW kept, kept \subseteq DOMAIN seq
  PROVE  /\ AllAt(seq, kept) \in Seq(S) /\ ElementsOf(AllAt(seq, kept)) = {seq[k] : k \in kept}
         /\ ElementsOf(AllAt(seq, kept)) \subseteq ElementsOf(seq)
<1>1. DOMAIN seq = 1..Len(seq) /\ Len(seq) \in Nat /\ \A k \in DOMAIN seq : seq[k] \in S
  BY LenProperties, ElementOfSeq
<1>2. IsFiniteSet(kept) /\ kept \subseteq Int
  <2>1. IsFiniteSet(1..Len(seq))
    BY <1>1, FS_Interval
  <2>2. kept \in SUBSET (1..Len(seq))
    BY <1>1
  <2> QED BY <1>1, <2>1, <2>2, FS_Subset
<1>3. AllAt(seq, kept) \in Seq(S)
  BY <1>1, <1>2, AllAtTyped
<1>4. ElementsOf(AllAt(seq, kept)) = {seq[k] : k \in kept}
  BY <1>2, AllAtIs
<1> QED BY <1>3, <1>4 DEF ElementsOf

\* The image of a finite set is finite
LEMMA ImageFinite ==
  ASSUME NEW S, IsFiniteSet(S), NEW f, NEW T, \A x \in S : f[x] \in T, \A t \in T : \E x \in S : f[x] = t
  PROVE  IsFiniteSet(T)
<1> DEFINE m == [x \in S |-> f[x]]
<1>1. m \in [S -> T] /\ \A t \in T : \E x \in S : m[x] = t
  OBVIOUS
<1> HIDE DEF m
<1>2. m \in Surjection(S, T)
  BY <1>1 DEF Surjection
<1> QED BY <1>2, FS_Surjection

GroupNode(g) == [name |-> GroupInstance(g), template |-> GroupTemplate(g), cards |-> <<>>]

\* The instances of a program are finitely many
LEMMA FlatInstances ==
  ASSUME Reading
  PROVE  /\ flat.instances \in Seq(ElementsOf(flat.instances))
         /\ DOMAIN flat.instances = 1..Len(flat.instances) /\ Len(flat.instances) \in Nat
         /\ IsFiniteSet(DOMAIN flat.instances) /\ IsFiniteSet(Devices)
<1>1. flat.instances \in Seq(ElementsOf(flat.instances))
  BY ReadTyped DEF TypedInstances
<1>2. DOMAIN flat.instances = 1..Len(flat.instances) /\ Len(flat.instances) \in Nat
  BY <1>1, LenProperties
<1>3. IsFiniteSet(DOMAIN flat.instances)
  BY <1>2, FS_Interval
<1>4. Devices = {flat.instances[k].name : k \in DOMAIN flat.instances}
  BY DEF Devices, InstanceNames, ElementsOf
<1>5. IsFiniteSet(Devices)
  <2> DEFINE f == [k \in DOMAIN flat.instances |-> flat.instances[k].name]
  <2>1. (\A k \in DOMAIN flat.instances : f[k] \in Devices) /\ \A t \in Devices : \E k \in DOMAIN flat.instances : f[k] = t
    BY <1>4
  <2> HIDE DEF f
  <2> QED BY <1>3, <2>1, ImageFinite
<1> QED BY <1>1, <1>2, <1>3, <1>5

\* Every group has a member, and a first one
LEMMA PositionsAre ==
  ASSUME Settled, NEW g \in Groups
  PROVE  /\ Positions(g) \subseteq DOMAIN flat.instances /\ Positions(g) \subseteq Nat
         /\ FirstMember(g) \in Positions(g) /\ FirstMember(g) \in Nat
<1>1. Reading /\ TypeOK
  BY SettledIs
<1>2. PICK n \in DOMAIN group_of : g = group_of[n]
  BY DEF Groups
<1>3. n \in InstanceNames(flat)
  BY <1>1 DEF TypeOK
<1>4. PICK k \in DOMAIN flat.instances : flat.instances[k].name = n
  BY <1>3 DEF InstanceNames, ElementsOf
<1>5. k \in Positions(g)
  BY <1>2, <1>4 DEF Positions
<1>6. Positions(g) \subseteq DOMAIN flat.instances /\ Positions(g) \subseteq Nat
  BY <1>1, FlatInstances DEF Positions
<1>7. \E m \in Positions(g) : \A j \in Positions(g) : m <= j
  BY <1>5, <1>6, LeastNatural
<1>8. FirstMember(g) \in Positions(g)
  BY <1>7 DEF FirstMember
<1> QED BY <1>6, <1>8

\* The groups in the order of their first members
LEMMA OrderIs ==
  ASSUME Settled
  PROVE  GroupOrder \in Seq(Groups) /\ ElementsOf(GroupOrder) = Groups
<1> DEFINE kept == {FirstMember(g) : g \in Groups}
           firsts == AllAt(flat.instances, kept)
           I == ElementsOf(flat.instances)
<1>1. Reading
  BY SettledIs
<1>2. flat.instances \in Seq(I)
  BY <1>1, FlatInstances
<1>3. \A g \in Groups : FirstMember(g) \in DOMAIN flat.instances /\ FirstMember(g) \in Positions(g)
  BY PositionsAre
<1>4. \A g \in Groups : group_of[flat.instances[FirstMember(g)].name] = g
  BY <1>3 DEF Positions
<1>5. GroupOrder = [n \in DOMAIN firsts |-> group_of[firsts[n].name]]
  BY DEF GroupOrder
<1>6. kept \subseteq DOMAIN flat.instances
  BY <1>3
<1> HIDE DEF kept, I
<1>7. firsts \in Seq(I) /\ ElementsOf(firsts) = {flat.instances[k] : k \in kept}
  BY <1>2, <1>6, AllAtElements
<1>8. DOMAIN firsts = 1..Len(firsts) /\ Len(firsts) \in Nat
  BY <1>7, LenProperties
<1> HIDE DEF firsts
<1>9. ASSUME NEW n \in DOMAIN firsts PROVE group_of[firsts[n].name] \in Groups
  <2>1. firsts[n] \in ElementsOf(firsts)
    BY DEF ElementsOf
  <2>2. PICK k \in kept : firsts[n] = flat.instances[k]
    BY <1>7, <2>1
  <2>3. PICK g \in Groups : k = FirstMember(g)
    BY DEF kept
  <2> QED BY <1>4, <2>2, <2>3
<1>10. ASSUME NEW g \in Groups PROVE \E n \in DOMAIN firsts : group_of[firsts[n].name] = g
  <2>1. FirstMember(g) \in kept
    BY DEF kept
  <2>2. flat.instances[FirstMember(g)] \in ElementsOf(firsts)
    BY <1>7, <2>1
  <2>3. PICK n \in DOMAIN firsts : firsts[n] = flat.instances[FirstMember(g)]
    BY <2>2 DEF ElementsOf
  <2> QED BY <1>4, <2>3
<1>11. GroupOrder \in [1..Len(firsts) -> Groups]
  BY <1>5, <1>8, <1>9
<1>12. GroupOrder \in Seq(Groups)
  <2> DEFINE l == Len(firsts)
  <2>1. l \in Nat /\ GroupOrder \in [1..l -> Groups]
    BY <1>8, <1>11
  <2> HIDE DEF l
  <2> QED BY <2>1
<1>13. ElementsOf(GroupOrder) = Groups
  <2>1. ElementsOf(GroupOrder) = {group_of[firsts[n].name] : n \in DOMAIN firsts}
    BY <1>5 DEF ElementsOf
  <2> QED BY <1>9, <1>10, <2>1
<1> QED BY <1>12, <1>13

KeptOnTop == {i \in ElementsOf(flat.instances) : i.name \notin DOMAIN group_of}

\* The instances of the result: one for each group, and those no group has
LEMMA TopInstancesAre ==
  ASSUME Settled
  PROVE  /\ TopInstances \in Seq(ElementsOf(TopInstances))
         /\ ElementsOf(TopInstances) = {GroupNode(g) : g \in Groups} \cup KeptOnTop
<1> DEFINE heads == [k \in DOMAIN GroupOrder |-> GroupNode(GroupOrder[k])]
           kept == {k \in DOMAIN flat.instances : flat.instances[k].name \notin DOMAIN group_of}
           rest == AllAt(flat.instances, kept)
           S == {GroupNode(g) : g \in Groups} \cup KeptOnTop
<1>1. GroupOrder \in Seq(Groups) /\ ElementsOf(GroupOrder) = Groups
  BY OrderIs
<1>2. DOMAIN GroupOrder = 1..Len(GroupOrder) /\ Len(GroupOrder) \in Nat /\ \A k \in DOMAIN GroupOrder : GroupOrder[k] \in Groups
  BY <1>1, LenProperties, ElementOfSeq
<1>3. TopInstances = heads \o rest
  BY DEF TopInstances, GroupNode
<1>4. ElementsOf(heads) = {GroupNode(g) : g \in Groups}
  <2>1. ElementsOf(heads) = {GroupNode(GroupOrder[k]) : k \in DOMAIN GroupOrder}
    BY DEF ElementsOf
  <2>2. Groups = {GroupOrder[k] : k \in DOMAIN GroupOrder}
    BY <1>1 DEF ElementsOf
  <2> HIDE DEF heads
  <2> QED BY <2>1, <2>2
<1>5. ElementsOf(rest) = KeptOnTop
  <2>1. Reading
    BY SettledIs
  <2>2. flat.instances \in Seq(ElementsOf(flat.instances)) /\ kept \subseteq DOMAIN flat.instances
    BY <2>1, FlatInstances
  <2>3. ElementsOf(rest) = {flat.instances[k] : k \in kept}
    <3> HIDE DEF kept
    <3> QED BY <2>2, AllAtElements
  <2>4. KeptOnTop = {flat.instances[k] : k \in kept}
    BY DEF KeptOnTop, ElementsOf
  <2> QED BY <2>3, <2>4
<1>6. rest \in Seq(S)
  <2>1. Reading
    BY SettledIs
  <2>2. flat.instances \in Seq(ElementsOf(flat.instances)) /\ kept \subseteq DOMAIN flat.instances
    BY <2>1, FlatInstances
  <2>3. rest \in Seq(ElementsOf(flat.instances))
    <3> HIDE DEF kept
    <3> QED BY <2>2, AllAtElements
  <2>4. DOMAIN rest = 1..Len(rest) /\ Len(rest) \in Nat
    BY <2>3, LenProperties
  <2>5. \A k \in DOMAIN rest : rest[k] \in S
    <3> HIDE DEF rest
    <3> QED BY <1>5 DEF ElementsOf
  <2> HIDE DEF rest, S
  <2>6. rest = [k \in 1..Len(rest) |-> rest[k]]
    BY <2>3, <2>4
  <2>7. rest \in [1..Len(rest) -> S]
    BY <2>4, <2>5, <2>6
  <2> QED BY <2>4, <2>7
<1>7. heads \in Seq(S)
  <2>1. \A k \in DOMAIN GroupOrder : GroupNode(GroupOrder[k]) \in S
    BY <1>2
  <2> HIDE DEF S
  <2>2. heads \in [1..Len(GroupOrder) -> S]
    BY <1>2, <2>1
  <2> HIDE DEF heads
  <2> QED BY <1>2, <2>2
<1> HIDE DEF heads, rest
<1>8. ElementsOf(TopInstances) = S
  <2>1. ElementsOf(heads \o rest) = ElementsOf(heads) \cup ElementsOf(rest)
    <3> HIDE DEF S
    <3> QED BY <1>6, <1>7, ConcatElements
  <2> QED BY <1>3, <1>4, <1>5, <2>1
<1>9. TopInstances \in Seq(S)
  <2> HIDE DEF S
  <2> QED BY <1>3, <1>6, <1>7, ConcatProperties
<1> QED BY <1>8, <1>9

\* Different groups give their instances and templates different names
LEMMA GroupNames ==
  ASSUME Settled, GroupsApart, NEW g \in Groups
  PROVE  /\ g \in Cluster /\ GroupInstance(g) \in Text /\ GroupTemplate(g) \in Text
         /\ \A h \in Groups : GroupInstance(h) = GroupInstance(g) => h = g
         /\ \A h \in Groups : GroupTemplate(h) = GroupTemplate(g) => h = g
<1>1. \A h \in Groups : h \in Cluster
  BY SettledIs DEF TypeOK, Groups
<1>2. \A h \in Groups : Sanitized[h] \in Text /\ Sanitized[h] \in Str
  BY <1>1, SanitizedTyped, TextTyped
<1>3. <<"G">> \in Str /\ <<"Group">> \in Str
  BY Single DEF Str, Piece
<1>4. GroupInstance(g) \in Text /\ GroupTemplate(g) \in Text
  BY <1>1, SanitizedTyped
<1>5. ASSUME NEW h \in Groups, Sanitized[h] = Sanitized[g] PROVE h = g
  BY <1>5 DEF GroupsApart
<1>6. ASSUME NEW h \in Groups, GroupInstance(h) = GroupInstance(g) PROVE h = g
  <2>1. Sanitized[h] = Sanitized[g]
    BY <1>2, <1>3, <1>6, CancelLeft DEF GroupInstance
  <2> QED BY <1>5, <2>1
<1>7. ASSUME NEW h \in Groups, GroupTemplate(h) = GroupTemplate(g) PROVE h = g
  <2>1. Sanitized[h] = Sanitized[g]
    BY <1>2, <1>3, <1>7, CancelLeft DEF GroupTemplate
  <2> QED BY <1>5, <2>1
<1> QED BY <1>1, <1>4, <1>6, <1>7

\* What the names of the result's instances stand for
LEMMA GroupedNames ==
  ASSUME Settled, GroupsApart
  PROVE  /\ InstanceNames(grouped) = {n \in Devices : n \notin DOMAIN group_of} \cup {GroupInstance(g) : g \in Groups}
         /\ \A g \in Groups : LastNamed(grouped.instances, GroupInstance(g)) = GroupNode(g)
         /\ \A n \in Devices : n \notin DOMAIN group_of => LastNamed(grouped.instances, n) = LastNamed(flat.instances, n)
<1> DEFINE I == ElementsOf(grouped.instances)
<1>1. grouped.instances \in Seq(I) /\ I = {GroupNode(g) : g \in Groups} \cup KeptOnTop
  BY GroupedIs, TopInstancesAre
<1>2. Reading
  BY SettledIs
<1> HIDE DEF I
<1>3. \A g \in Groups : GroupNode(g).name = GroupInstance(g) /\ GroupInstance(g) \notin Devices
  BY DEF GroupNode, GroupsApart
<1>4. \A i \in KeptOnTop : i.name \in Devices /\ i.name \notin DOMAIN group_of /\ i = LastNamed(flat.instances, i.name)
  <2> TAKE i \in KeptOnTop
  <2>1. i \in ElementsOf(flat.instances) /\ i.name \notin DOMAIN group_of /\ i.name \in Devices
    BY DEF KeptOnTop, Devices, InstanceNames
  <2> QED BY <1>2, <2>1, DeviceIs
<1>5. \A n \in Devices : n \notin DOMAIN group_of => LastNamed(flat.instances, n) \in KeptOnTop /\ LastNamed(flat.instances, n).name = n
  BY <1>2, DeviceIs DEF KeptOnTop
<1>6. InstanceNames(grouped) = {n \in Devices : n \notin DOMAIN group_of} \cup {GroupInstance(g) : g \in Groups}
  <2>1. InstanceNames(grouped) = {i.name : i \in I}
    BY DEF InstanceNames, I
  <2>2. \A i \in I : i.name \in {n \in Devices : n \notin DOMAIN group_of} \cup {GroupInstance(g) : g \in Groups}
    BY <1>1, <1>3, <1>4
  <2>3. \A n \in {n \in Devices : n \notin DOMAIN group_of} : \E i \in I : i.name = n
    BY <1>1, <1>5
  <2>4. \A g \in Groups : GroupNode(g) \in I
    BY <1>1
  <2> QED BY <1>3, <2>1, <2>2, <2>3, <2>4
<1>7. ASSUME NEW g \in Groups PROVE LastNamed(grouped.instances, GroupInstance(g)) = GroupNode(g)
  <2>1. GroupNode(g) \in I
    BY <1>1
  <2>2. \A y \in I : y.name = GroupInstance(g) => y = GroupNode(g)
    BY <1>1, <1>3, <1>4, GroupNames
  <2> QED BY <1>1, <1>3, <2>1, <2>2, OnlyElement DEF I
<1>8. ASSUME NEW n \in Devices, n \notin DOMAIN group_of
      PROVE  LastNamed(grouped.instances, n) = LastNamed(flat.instances, n)
  <2> DEFINE i == LastNamed(flat.instances, n)
  <2>1. i \in I /\ i.name = n
    BY <1>1, <1>5, <1>8
  <2>2. \A y \in I : y.name = n => y = i
    BY <1>1, <1>3, <1>4
  <2> HIDE DEF i
  <2>3. LastNamed(grouped.instances, i.name) = i
    BY <1>1, <2>1, <2>2, OnlyElement DEF I
  <2> QED BY <2>1, <2>3 DEF i
<1> QED BY <1>6, <1>7, <1>8

\* What the names of the result's templates stand for
LEMMA GroupedTemplates ==
  ASSUME Settled, GroupsApart
  PROVE  /\ \A g \in Groups : Lookup(grouped, GroupTemplate(g)) = Assembled(g)
         /\ \A g \in Groups : GroupTemplate(g) \in DOMAIN grouped.templates
         /\ \A t : t \notin {GroupTemplate(g) : g \in Groups} => Lookup(grouped, t) = Lookup(flat, t)
         /\ \A t : t \notin {GroupTemplate(g) : g \in Groups} => (t \in DOMAIN grouped.templates <=> t \in DOMAIN flat.templates)
         /\ IsFiniteSet(DOMAIN grouped.templates)
<1> DEFINE D == DOMAIN flat.templates \cup {GroupTemplate(g) : g \in Groups}
<1>1. grouped.templates = [name \in D |-> Declared(name)]
  BY GroupedIs
<1>2. DOMAIN grouped.templates = D /\ \A name \in D : grouped.templates[name] = Declared(name)
  BY <1>1
<1>3. ASSUME NEW g \in Groups
      PROVE  GroupTemplate(g) \in DOMAIN grouped.templates /\ Lookup(grouped, GroupTemplate(g)) = Assembled(g)
  <2>1. GroupTemplate(g) \in D
    OBVIOUS
  <2>2. LastGroup(GroupTemplate(g)) = g
    <3>1. FirstMember(g) <= FirstMember(g)
      BY PositionsAre
    <3>2. \A h \in Groups : GroupTemplate(h) = GroupTemplate(g) => h = g
      BY GroupNames
    <3>3. /\ g \in Groups /\ GroupTemplate(g) = GroupTemplate(g)
          /\ \A h \in Groups : GroupTemplate(h) = GroupTemplate(g) => FirstMember(h) <= FirstMember(g)
      BY <3>1, <3>2
    <3>4. LastGroup(GroupTemplate(g)) \in Groups /\ GroupTemplate(LastGroup(GroupTemplate(g))) = GroupTemplate(g)
      BY <3>3 DEF LastGroup
    <3> QED BY <3>2, <3>4
  <2>3. Declared(GroupTemplate(g)) = Assembled(g)
    BY <2>2 DEF Declared
  <2> QED BY <1>2, <2>1, <2>3 DEF Lookup
<1>4. ASSUME NEW t, t \notin {GroupTemplate(g) : g \in Groups}
      PROVE  Lookup(grouped, t) = Lookup(flat, t) /\ (t \in DOMAIN grouped.templates <=> t \in DOMAIN flat.templates)
  <2>1. t \in D <=> t \in DOMAIN flat.templates
    BY <1>4
  <2>2. t \in D => Declared(t) = flat.templates[t]
    BY <1>4, <2>1 DEF Declared
  <2> HIDE DEF D
  <2> QED BY <1>2, <2>1, <2>2 DEF Lookup
<1>5. IsFiniteSet(D)
  <2>1. Reading /\ DOMAIN group_of \subseteq Devices
    BY SettledIs DEF TypeOK, Devices
  <2>2. IsFiniteSet(DOMAIN group_of) /\ IsFiniteSet(DOMAIN flat.templates)
    BY <2>1, FlatInstances, FS_Subset, ReadTyped
  <2>3. IsFiniteSet(Groups)
    BY <2>2, ImageFinite DEF Groups
  <2>4. IsFiniteSet({GroupTemplate(g) : g \in Groups})
    <3> DEFINE f == [g \in Groups |-> GroupTemplate(g)]
               T == {GroupTemplate(g) : g \in Groups}
    <3>1. (\A g \in Groups : f[g] \in T) /\ \A t \in T : \E g \in Groups : f[g] = t
      OBVIOUS
    <3> HIDE DEF f, T
    <3>2. IsFiniteSet(T)
      BY <2>3, <3>1, ImageFinite
    <3> QED BY <3>2 DEF T
  <2> QED BY <2>2, <2>4, FS_Union
<1> QED BY <1>2, <1>3, <1>4, <1>5

\* What the devices of the program show does not depend on which of the two programs is compiled
LEMMA SameDefinitions ==
  ASSUME Settled, GroupsApart, NEW i \in ElementsOf(flat.instances)
  PROVE  /\ Definitions(grouped, i.template, i.cards) = Definitions(flat, i.template, i.cards)
         /\ NodeDefinitions(grouped, i) = NodeDefinitions(flat, i)
<1>1. i.template \notin {GroupTemplate(g) : g \in Groups}
  BY DEF GroupsApart
<1>2. \A k \in DOMAIN i.cards : i.cards[k] \notin {GroupTemplate(g) : g \in Groups}
  BY DEF GroupsApart, ElementsOf
<1>3. /\ Lookup(grouped, i.template) = Lookup(flat, i.template)
      /\ i.template \in DOMAIN grouped.templates <=> i.template \in DOMAIN flat.templates
  BY <1>1, GroupedTemplates
<1>4. \A k \in DOMAIN i.cards : Lookup(grouped, i.cards[k]) = Lookup(flat, i.cards[k])
  BY <1>2, GroupedTemplates
<1>5. [k \in DOMAIN i.cards |-> Lookup(grouped, i.cards[k]).ports] = [k \in DOMAIN i.cards |-> Lookup(flat, i.cards[k]).ports]
  BY <1>4
<1>6. Definitions(grouped, i.template, i.cards) = Definitions(flat, i.template, i.cards)
  BY <1>3, <1>5 DEF Definitions
<1> QED BY <1>3, <1>6 DEF NodeDefinitions
=============================================================================
