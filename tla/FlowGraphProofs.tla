-------------------------- MODULE FlowGraphProofs ---------------------------
(***************************************************************************)
(* Every wire of a diagram ends on a row of its own: for every level, any  *)
(* number of statements and every order in which shared handles are split. *)
(* The handle at an end depends only on the statement and on whether its   *)
(* first handle has been split; the rank of a use tells the uses of one    *)
(* handle apart.                                                           *)
(***************************************************************************)
EXTENDS FlowGraph, FiniteSetTheorems, WellFoundedInduction, TLAPS

IsOwn(h) == h = HandleId(h[1], h[2], h[3])

\* The handle an end has while the handles in `shared' are still to be split
Now(e) ==
  IF FirstHandle(e) \notin shared /\ Known(FirstHandle(e))
  THEN Fanned(FirstHandle(e), e)
  ELSE FirstHandle(e)

Shape ==
  /\ conns \in Seq(Wires)
  /\ pc \in {"call", "fan", "done"}
  /\ pc = "done" => shared = {}

SharedOwn == \A h \in shared : IsOwn(h) /\ \E e \in Ends : FirstHandle(e) = h

EdgesFollow == pc # "call" => \A e \in Ends : HandleAt(e) = Now(e)

RowsThere == pc # "call" => \A e \in Ends : Known(FirstHandle(e)) => \E r \in rows : r.id = Now(e)

RowsKnown == \A r \in rows : IsOwn(r.id) => Known(r.id)

IInv == Shape /\ SharedOwn /\ EdgesFollow /\ RowsThere /\ RowsKnown

-----------------------------------------------------------------------------
(* Handles.                                                                *)

LEMMA FirstIsOwn == ASSUME NEW ref, NEW side PROVE IsOwn(HandleOf(ref, side))
  BY DEF IsOwn, HandleOf, HandleId

\* A declared port has a handle on one side or the other
LEMMA DeclaredKnown ==
  ASSUME NEW ref, Declared(ref), NEW side \in Side
  PROVE Known(HandleOf(ref, side))
<1> DEFINE i == ref.instance
           p == ref.port
<1>1. i \in DOMAIN Decl /\ p \in DOMAIN Decl[i] /\ <<i, p>> \in DeclaredPorts
  BY DEF Declared, DeclaredPorts
<1>2. IsInput(i, p) \/ IsOutput(i, p)
  BY <1>1, DeclAssumption DEF IsInput, IsOutput, Dir
<1>3. ASSUME IsInput(i, p) PROVE Known(HandleId(i, p, "target"))
  <2>1. PortRow(HandleId(i, p, "target"), "in") \in NodeRows
    <3>1. <<i, p>> \in {y \in DeclaredPorts : IsInput(y[1], y[2])}
      BY <1>1, <1>3
    <3>2. <<i, p>>[1] = i /\ <<i, p>>[2] = p
      OBVIOUS
    <3> QED
      BY <3>1, <3>2 DEF NodeRows
  <2>2. PortRow(HandleId(i, p, "target"), "in").id = HandleId(i, p, "target")
    BY DEF PortRow, Row
  <2> QED
    BY <2>1, <2>2 DEF Known
<1>4. ASSUME IsOutput(i, p) PROVE Known(HandleId(i, p, "source"))
  <2>1. PortRow(HandleId(i, p, "source"), "out") \in NodeRows
    <3>1. <<i, p>> \in {y \in DeclaredPorts : IsOutput(y[1], y[2])}
      BY <1>1, <1>4
    <3>2. <<i, p>>[1] = i /\ <<i, p>>[2] = p
      OBVIOUS
    <3> QED
      BY <3>1, <3>2 DEF NodeRows
  <2>2. PortRow(HandleId(i, p, "source"), "out").id = HandleId(i, p, "source")
    BY DEF PortRow, Row
  <2> QED
    BY <2>1, <2>2 DEF Known
<1>5. CASE side = "source"
  BY <1>2, <1>3, <1>4, <1>5 DEF HandleOf, Opposite
<1>6. CASE side = "target"
  BY <1>2, <1>3, <1>4, <1>6 DEF HandleOf, Opposite
<1> QED
  BY <1>5, <1>6 DEF Side

\* Two uses of a handle have different ranks: the earlier one counts among
\* those before the later one
LEMMA RanksApart ==
  ASSUME conns \in Seq(Wires), NEW h, NEW e \in UsesOf(h), NEW f \in UsesOf(h), e # f
  PROVE Rank(h, e) # Rank(h, f)
<1>1. IsFiniteSet(Ends)
  <2>1. Len(conns) \in Nat
    OBVIOUS
  <2>2. IsFiniteSet(1 .. Len(conns))
    BY <2>1, FS_Interval
  <2>3. IsFiniteSet(Side)
    <3>1. IsFiniteSet({"source"})
      BY FS_Singleton
    <3>2. IsFiniteSet({"source"} \cup {"target"})
      BY <3>1, FS_AddElement
    <3>3. Side = {"source"} \cup {"target"}
      BY DEF Side
    <3> QED
      BY <3>2, <3>3
  <2> QED
    BY <2>2, <2>3, FS_Product DEF Ends
<1> DEFINE Earlier(x) == {g \in UsesOf(h) : Before(g, x)}
<1>2. ASSUME NEW x \in UsesOf(h), NEW y \in UsesOf(h), Before(x, y)
      PROVE Cardinality(Earlier(x)) # Cardinality(Earlier(y))
  <2>1. \A g \in Ends : g[1] \in Int /\ g[2] \in Side
    BY DEF Ends
  <2>2. x \in Ends /\ y \in Ends
    BY DEF UsesOf
  <2>3. \A g \in Earlier(x) : g \in Earlier(y)
    BY <1>2, <2>1, <2>2, SMT DEF Before, UsesOf, Side
  <2>4. x \in Earlier(y)
    BY <1>2
  <2>5. x \notin Earlier(x)
    BY <2>1, <2>2, SMT DEF Before, Side
  <2>6. IsFiniteSet(Earlier(y))
    <3>1. Earlier(y) \in SUBSET Ends
      BY DEF UsesOf
    <3> QED
      BY <1>1, <3>1, FS_Subset
  <2>7. Earlier(x) \in SUBSET Earlier(y)
    BY <2>3
  <2> HIDE DEF Earlier
  <2> QED
    BY <2>4, <2>5, <2>6, <2>7, FS_Subset
<1>3. Before(e, f) \/ Before(f, e)
  <2>1. e \in (1 .. Len(conns)) \X Side /\ f \in (1 .. Len(conns)) \X Side
    BY DEF UsesOf, Ends
  <2>2. e = <<e[1], e[2]>> /\ f = <<f[1], f[2]>>
    BY <2>1
  <2> QED
    BY <2>1, <2>2, SMT DEF Before, Side
<1> QED
  BY <1>2, <1>3 DEF Rank

\* Ends that are split from first handles of nodes are all different
LEMMA FannedApart ==
  ASSUME conns \in Seq(Wires), NEW h, IsOwn(h), NEW g, IsOwn(g),
         NEW e \in UsesOf(h), NEW f \in UsesOf(g), e # f
  PROVE Fanned(h, e) # Fanned(g, f)
<1>1. CASE h = g
  <2>1. Rank(h, e) # Rank(h, f)
    BY <1>1, RanksApart
  <2>2. \A r : FanId(h, r)[5] = r /\ FanId(h, r)[4] = "fan"
    BY DEF FanId
  <2>3. h[4] = "own"
    BY DEF IsOwn, HandleId
  <2> QED
    BY <1>1, <2>1, <2>2, <2>3 DEF Fanned
<1>2. CASE h # g
  <2>1. \A r : /\ FanId(h, r) = <<h[1], h[2], h[3], "fan", r>>
               /\ FanId(g, r) = <<g[1], g[2], g[3], "fan", r>>
    BY DEF FanId
  <2>2. h = <<h[1], h[2], h[3], "own", 0>> /\ g = <<g[1], g[2], g[3], "own", 0>>
    BY DEF IsOwn, HandleId
  <2>3. h[1] # g[1] \/ h[2] # g[2] \/ h[3] # g[3]
    BY <1>2, <2>2
  <2>4. \A r, s : FanId(h, r) # FanId(g, s) /\ FanId(h, r) # g /\ FanId(g, s) # h
    BY <2>1, <2>2, <2>3
  <2> QED
    BY <1>2, <2>4 DEF Fanned
<1> QED
  BY <1>1, <1>2
-----------------------------------------------------------------------------
(* The invariant.                                                          *)

\* What depends on the statements only stays while they stay
LEMMA SameConns ==
  ASSUME conns' = conns
  PROVE  /\ Ends' = Ends
         /\ \A e : RefAt(e)' = RefAt(e)
         /\ \A e : FirstHandle(e)' = FirstHandle(e)
         /\ \A h : UsesOf(h)' = UsesOf(h)
         /\ \A h, e : Rank(h, e)' = Rank(h, e)
         /\ \A h, e : Fanned(h, e)' = Fanned(h, e)
<1>1. Ends' = Ends /\ \A e : RefAt(e)' = RefAt(e)
  BY DEF Ends, RefAt
<1>2. \A e : FirstHandle(e)' = FirstHandle(e)
  BY <1>1 DEF FirstHandle
<1>3. \A h : UsesOf(h)' = UsesOf(h)
  BY <1>1, <1>2 DEF UsesOf
<1>4. \A h, e : Rank(h, e)' = Rank(h, e)
  BY <1>3 DEF Rank, Before
<1>5. \A h, e : Fanned(h, e)' = Fanned(h, e)
  BY <1>4 DEF Fanned, FanId
<1> QED
  BY <1>1, <1>2, <1>3, <1>4, <1>5

LEMMA InitIInv == Init => IInv
<1> SUFFICES ASSUME Init PROVE IInv
  OBVIOUS
<1> QED
  BY DEF Init, IInv, Shape, SharedOwn, EdgesFollow, RowsThere, RowsKnown

\* A handle used once keeps its row: its use has rank 0
LEMMA LoneRank ==
  ASSUME NEW e \in Ends, FirstHandle(e) \notin MultiUse
  PROVE Fanned(FirstHandle(e), e) = FirstHandle(e)
<1>1. \A f \in UsesOf(FirstHandle(e)) : f = e
  BY DEF MultiUse, UsesOf
<1>2. ~ Before(e, e)
  <2>1. e[1] \in Int
    BY DEF Ends
  <2> QED
    BY <2>1, SMT DEF Before
<1>3. {f \in UsesOf(FirstHandle(e)) : Before(f, e)} = {}
  BY <1>1, <1>2
<1>4. Rank(FirstHandle(e), e) = 0
  BY <1>3, FS_EmptySet DEF Rank
<1> QED
  BY <1>4 DEF Fanned

LEMMA BuildKeeps == IInv /\ BuildNodesAndEdges => IInv'
<1> SUFFICES ASSUME IInv, BuildNodesAndEdges PROVE IInv'
  OBVIOUS
<1>1. /\ conns' = conns /\ pc' = "fan" /\ shared' = MultiUse /\ rows' = NodeRows
      /\ edges' = [k \in 1 .. Len(conns) |-> [s \in Side |-> FirstHandle(<<k, s>>)]]
  BY DEF BuildNodesAndEdges
<1>2. Shape'
  BY <1>1 DEF IInv, Shape
<1>3. ASSUME NEW e \in Ends
      PROVE IF FirstHandle(e) \notin MultiUse /\ Known(FirstHandle(e))
            THEN Fanned(FirstHandle(e), e) = FirstHandle(e) ELSE TRUE
  BY LoneRank
<1>4. SharedOwn'
  <2>1. \A h \in MultiUse : IsOwn(h) /\ \E e \in Ends : FirstHandle(e) = h
    BY FirstIsOwn DEF MultiUse, FirstHandle
  <2> QED
    BY <1>1, <2>1, SameConns DEF SharedOwn
<1>5. \A e \in Ends : Now(e)' = FirstHandle(e)
  BY <1>1, <1>3, SameConns DEF Now
<1>6. EdgesFollow'
  <2>1. ASSUME NEW e \in Ends PROVE edges'[e[1]][e[2]] = FirstHandle(e)
    <3>1. e[1] \in 1 .. Len(conns) /\ e[2] \in Side /\ e = <<e[1], e[2]>>
      BY DEF Ends
    <3> QED
      BY <1>1, <3>1
  <2> QED
    BY <1>1, <1>5, <2>1, SameConns DEF EdgesFollow, HandleAt
<1>7. RowsThere'
  BY <1>1, <1>5, SameConns DEF RowsThere, Known
<1>8. RowsKnown'
  BY <1>1 DEF RowsKnown, Known
<1> QED
  BY <1>2, <1>4, <1>6, <1>7, <1>8 DEF IInv

LEMMA FanKeeps == ASSUME IInv, NEW h \in shared, FanOut(h) PROVE IInv'
<1>1. conns' = conns /\ pc' = pc /\ pc = "fan" /\ shared' = shared \ {h}
  BY DEF FanOut
<1>2. Shape' /\ SharedOwn'
  BY <1>1, SameConns DEF IInv, Shape, SharedOwn
<1>o. IsOwn(h) /\ h[4] = "own"
  BY DEF IInv, SharedOwn, IsOwn, HandleId
<1>u. \A e : e \in UsesOf(h) <=> e \in Ends /\ FirstHandle(e) = h
  BY DEF UsesOf
<1>3. CASE \E r \in rows : r.id = h
  <2>1. /\ rows' = {r \in rows : r.id # h} \cup FanRows(h)
        /\ edges' = [k \in 1 .. Len(conns) |-> [s \in Side |->
              IF <<k, s>> \in UsesOf(h) THEN Fanned(h, <<k, s>>) ELSE edges[k][s]]]
    BY <1>3 DEF FanOut
  <2>2. Known(h)
    BY <1>3, <1>o DEF IInv, RowsKnown
  <2>3. ASSUME NEW e \in Ends
        PROVE Now(e)' = IF e \in UsesOf(h) THEN Fanned(h, e) ELSE Now(e)
    BY <1>1, <1>u, <2>2, SameConns DEF Now
  <2>4. EdgesFollow'
    <3>1. ASSUME NEW e \in Ends
          PROVE edges'[e[1]][e[2]] = IF e \in UsesOf(h) THEN Fanned(h, e) ELSE edges[e[1]][e[2]]
      <4>1. e[1] \in 1 .. Len(conns) /\ e[2] \in Side /\ e = <<e[1], e[2]>>
        BY DEF Ends
      <4> QED
        BY <2>1, <4>1
    <3>2. \A e \in Ends : edges[e[1]][e[2]] = Now(e)
      BY <1>1 DEF IInv, EdgesFollow, HandleAt
    <3> QED
      BY <1>1, <2>3, <3>1, <3>2, SameConns DEF EdgesFollow, HandleAt
  <2>5. ASSUME NEW e \in Ends, Known(FirstHandle(e)) PROVE \E r \in rows' : r.id = Now(e)'
    <3>1. CASE e \in UsesOf(h)
      <4>1. PICK r \in rows : r.id = h
        BY <1>3
      <4> DEFINE fan == Row(Fanned(h, e), r.col, FanLabel(r, e), FALSE)
      <4>2. fan \in FanRows(h)
        <5> DEFINE Of(q) == {Row(Fanned(h, f), q.col, FanLabel(q, f), FALSE) : f \in UsesOf(h)}
        <5>1. fan \in Of(r)
          BY <3>1
        <5>2. r \in {q \in rows : q.id = h}
          BY <4>1
        <5>3. FanRows(h) = UNION {Of(q) : q \in {s \in rows : s.id = h}}
          BY DEF FanRows
        <5> HIDE DEF Of, fan
        <5> QED
          BY <5>1, <5>2, <5>3
      <4>3. fan.id = Fanned(h, e)
        BY DEF Row
      <4> HIDE DEF fan
      <4> QED
        BY <2>1, <2>3, <3>1, <4>2, <4>3
    <3>2. CASE e \notin UsesOf(h)
      <4>1. PICK r \in rows : r.id = Now(e)
        BY <1>1, <2>5 DEF IInv, RowsThere
      <4>2. Now(e) # h
        <5>1. FirstHandle(e) # h
          BY <1>u, <3>2
        <5>2. \A j : FanId(FirstHandle(e), j)[4] = "fan"
          BY DEF FanId
        <5> QED
          BY <1>o, <5>1, <5>2 DEF Now, Fanned
      <4> QED
        BY <2>1, <2>3, <3>2, <4>1, <4>2
    <3> QED
      BY <3>1, <3>2
  <2>6. RowsThere'
    BY <1>1, <2>5, SameConns DEF RowsThere, Known
  <2>7. RowsKnown'
    <3>1. ASSUME NEW r \in FanRows(h), IsOwn(r.id) PROVE Known(r.id)
      <4>1. PICK q \in rows, e \in UsesOf(h) :
              r = Row(Fanned(h, e), q.col, FanLabel(q, e), FALSE)
        BY DEF FanRows
      <4>2. r.id = Fanned(h, e)
        BY <4>1 DEF Row
      <4>3. r.id[4] = "own"
        BY <3>1 DEF IsOwn, HandleId
      <4>4. \A j : FanId(h, j)[4] = "fan"
        BY DEF FanId
      <4> QED
        BY <2>2, <4>2, <4>3, <4>4 DEF Fanned
    <3> QED
      BY <2>1, <3>1 DEF IInv, RowsKnown, Known
  <2> QED
    BY <1>2, <2>4, <2>6, <2>7 DEF IInv
<1>4. CASE ~ \E r \in rows : r.id = h
  <2>1. rows' = rows /\ edges' = edges
    BY <1>4 DEF FanOut
  <2>2. ~ Known(h)
    <3>1. SUFFICES ASSUME Known(h) PROVE FALSE
      OBVIOUS
    <3>2. PICK e \in Ends : FirstHandle(e) = h
      BY DEF IInv, SharedOwn
    <3>3. Now(e) = h
      BY <3>2 DEF Now
    <3> QED
      BY <1>1, <1>4, <3>1, <3>2, <3>3 DEF IInv, RowsThere
  <2>3. \A e \in Ends : Now(e)' = Now(e)
    BY <1>1, <2>2, SameConns DEF Now
  <2>4. EdgesFollow' /\ RowsThere'
    BY <1>1, <2>1, <2>3, SameConns DEF IInv, EdgesFollow, RowsThere, HandleAt, Known
  <2> QED
    BY <1>2, <2>1, <2>4 DEF IInv, RowsKnown, Known
<1> QED
  BY <1>3, <1>4

LEMMA RemainderKeeps == IInv /\ AddRemainderPorts => IInv'
<1> SUFFICES ASSUME IInv, AddRemainderPorts PROVE IInv'
  OBVIOUS
<1>1. /\ conns' = conns /\ pc = "fan" /\ pc' = "done" /\ shared = {} /\ shared' = shared
      /\ edges' = edges
      /\ rows' = {Relabelled(r) : r \in rows}
                   \cup (UNION {RemainderRows(x[1], x[2]) : x \in PartlyUsed})
  BY DEF AddRemainderPorts
<1>2. Shape' /\ SharedOwn'
  BY <1>1, SameConns DEF IInv, Shape, SharedOwn
<1>3. \A e : Now(e)' = Now(e)
  BY <1>1, SameConns DEF Now
<1>4. EdgesFollow'
  BY <1>1, <1>3, SameConns DEF IInv, EdgesFollow, HandleAt
<1>5. \A r : Relabelled(r).id = r.id
  BY DEF Relabelled, Row
<1>6. RowsThere'
  BY <1>1, <1>3, <1>5, SameConns DEF IInv, RowsThere, Known
<1>7. RowsKnown'
  <2>1. ASSUME NEW x, NEW r \in RemainderRows(x[1], x[2]) PROVE ~ IsOwn(r.id)
    <3>1. PICK c, col : r = Row(RemainderId(MainHandle(x[1], x[2]), c), col,
                                RunFrom(Remaining(x[1], x[2]), c), FALSE)
      BY DEF RemainderRows
    <3>2. r.id[4] = "rem"
      BY <3>1 DEF Row, RemainderId
    <3> QED
      BY <3>2 DEF IsOwn, HandleId
  <2>2. ASSUME NEW r \in rows', IsOwn(r.id) PROVE Known(r.id)
    <3>1. CASE r \in {Relabelled(q) : q \in rows}
      BY <1>5, <2>2, <3>1 DEF IInv, RowsKnown
    <3>2. CASE r \in UNION {RemainderRows(x[1], x[2]) : x \in PartlyUsed}
      BY <2>1, <2>2, <3>2
    <3> QED
      BY <1>1, <3>1, <3>2
  <2> QED
    BY <2>2 DEF RowsKnown, Known
<1> QED
  BY <1>2, <1>4, <1>6, <1>7 DEF IInv

THEOREM Invariance == Spec => []IInv
<1>1. IInv /\ [Next]_vars => IInv'
  <2> SUFFICES ASSUME IInv, [Next]_vars PROVE IInv'
    OBVIOUS
  <2>1. ASSUME NEW w \in Wires, AddStatement(w) PROVE IInv'
    <3>1. /\ pc = "call" /\ pc' = pc /\ shared' = shared /\ rows' = rows
          /\ conns' = Append(conns, w)
      BY <2>1 DEF AddStatement
    <3>2. conns' \in Seq(Wires) /\ Ends \subseteq Ends'
      BY <3>1 DEF IInv, Shape, Ends
    <3>3. \A e \in Ends : FirstHandle(e)' = FirstHandle(e)
      <4>1. \A k \in 1 .. Len(conns) : conns'[k] = conns[k]
        BY <3>1 DEF IInv, Shape
      <4> QED
        BY <4>1 DEF FirstHandle, RefAt, Ends
    <3>4. SharedOwn'
      BY <3>1, <3>2, <3>3 DEF IInv, SharedOwn
    <3> QED
      BY <3>1, <3>2, <3>4 DEF IInv, Shape, EdgesFollow, RowsThere, RowsKnown, Known
  <2>2. CASE NextCall
    BY <2>2 DEF NextCall, IInv, Shape, SharedOwn, EdgesFollow, RowsThere, RowsKnown
  <2>3. CASE UNCHANGED vars
    <3>1. conns' = conns /\ rows' = rows /\ edges' = edges /\ shared' = shared /\ pc' = pc
      BY <2>3 DEF vars
    <3>2. \A e : Now(e)' = Now(e)
      BY <3>1, SameConns DEF Now
    <3> QED
      BY <3>1, <3>2, SameConns
      DEF IInv, Shape, SharedOwn, EdgesFollow, RowsThere, RowsKnown, HandleAt, Known
  <2> QED
    BY <2>1, <2>2, <2>3, BuildKeeps, FanKeeps, RemainderKeeps DEF Next
<1> QED
  BY InitIInv, <1>1, PTL DEF Spec

\* fanOutSharedPorts and addRemainderPorts never take the row away that an
\* edge ends on
THEOREM EdgesEndOnRows == Spec => []EndsLand
<1>1. IInv => EndsLand
  <2> SUFFICES ASSUME IInv, pc # "call", NEW e \in Ends, Declared(RefAt(e))
               PROVE \E r \in rows : r.id = HandleAt(e)
    BY DEF EndsLand
  <2>1. Known(FirstHandle(e))
    BY DeclaredKnown DEF FirstHandle, Ends
  <2> QED
    BY <2>1 DEF IInv, EdgesFollow, RowsThere
<1> QED
  BY Invariance, <1>1, PTL

\* After all passes two wires never share a row, however many leave one port
THEOREM WiresApart == Spec => []OneWirePerRow
<1>1. IInv => OneWirePerRow
  <2> SUFFICES ASSUME IInv, pc = "done", NEW e \in Ends, NEW f \in Ends, e # f,
                      Declared(RefAt(e)), Declared(RefAt(f))
               PROVE HandleAt(e) # HandleAt(f)
    BY DEF OneWirePerRow
  <2>1. Known(FirstHandle(e)) /\ Known(FirstHandle(f))
    BY DeclaredKnown DEF FirstHandle, Ends
  <2>2. /\ HandleAt(e) = Fanned(FirstHandle(e), e)
        /\ HandleAt(f) = Fanned(FirstHandle(f), f)
    BY <2>1 DEF IInv, Shape, EdgesFollow, Now
  <2>3. /\ IsOwn(FirstHandle(e)) /\ IsOwn(FirstHandle(f))
        /\ e \in UsesOf(FirstHandle(e)) /\ f \in UsesOf(FirstHandle(f))
    BY FirstIsOwn DEF FirstHandle, UsesOf
  <2>4. conns \in Seq(Wires)
    BY DEF IInv, Shape
  <2> QED
    BY <2>2, <2>3, <2>4, FannedApart
<1> QED
  BY Invariance, <1>1, PTL
-----------------------------------------------------------------------------
(* The rows after every pass.                                              *)

\* What a row of a node becomes when its handle is split
FanRowsOf(q) == {Row(Fanned(q.id, e), q.col, FanLabel(q, e), FALSE) : e \in UsesOf(q.id)}

\* The rows when the handles in S have been split
SplitRows(S) ==
  {q \in NodeRows : q.id \notin S} \cup UNION {FanRowsOf(q) : q \in {n \in NodeRows : n.id \in S}}

RowsExact ==
  /\ pc = "call" => rows = {}
  /\ pc # "call" => shared \subseteq MultiUse
  /\ pc = "fan" => rows = SplitRows(MultiUse \ shared)
  /\ pc = "done" =>
       rows = {Relabelled(r) : r \in SplitRows(MultiUse)}
                \cup (UNION {RemainderRows(x[1], x[2]) : x \in PartlyUsed})

ColumnOf(side) == IF side = "source" THEN "out" ELSE "in"

\* A row of a node: a port, seen from a side
LEMMA NodeRowForm ==
  ASSUME NEW q \in NodeRows
  PROVE  \E i \in DOMAIN Decl, side \in Side : \E p \in DOMAIN Decl[i] :
           /\ q = PortRow(HandleId(i, p, side), ColumnOf(side))
           /\ <<i, p>> \in DeclaredPorts
           /\ IF side = "source" THEN IsOutput(i, p) ELSE IsInput(i, p)
<1>1. ASSUME NEW x \in DeclaredPorts
      PROVE  x[1] \in DOMAIN Decl /\ x[2] \in DOMAIN Decl[x[1]] /\ x = <<x[1], x[2]>>
  <2>1. PICK i \in DOMAIN Decl : \E p \in DOMAIN Decl[i] : x = <<i, p>>
    BY DEF DeclaredPorts
  <2> QED
    BY <2>1
<1>2. CASE \E x \in DeclaredPorts : IsInput(x[1], x[2]) /\ q = PortRow(HandleId(x[1], x[2], "target"), "in")
  BY <1>1, <1>2 DEF ColumnOf, Side
<1>3. CASE \E x \in DeclaredPorts : IsOutput(x[1], x[2]) /\ q = PortRow(HandleId(x[1], x[2], "source"), "out")
  BY <1>1, <1>3 DEF ColumnOf, Side
<1> QED
  BY <1>2, <1>3 DEF NodeRows

\* ... which its handle determines
LEMMA NodeRowFields ==
  ASSUME NEW q \in NodeRows
  PROVE  /\ IsOwn(q.id)
         /\ q = PortRow(q.id, ColumnOf(q.id[3]))
         /\ q.id[1] \in DOMAIN Decl /\ q.id[2] \in DOMAIN Decl[q.id[1]] /\ q.id[3] \in Side
         /\ <<q.id[1], q.id[2]>> \in DeclaredPorts
         /\ IF q.id[3] = "source" THEN IsOutput(q.id[1], q.id[2]) ELSE IsInput(q.id[1], q.id[2])
         /\ q.col = ColumnOf(q.id[3])
         /\ q.shows = Decl[q.id[1]][q.id[2]].chans
         /\ q.ranged = (Decl[q.id[1]][q.id[2]].chans # {})
<1>1. PICK i \in DOMAIN Decl, side \in Side : \E p \in DOMAIN Decl[i] :
           /\ q = PortRow(HandleId(i, p, side), ColumnOf(side))
           /\ <<i, p>> \in DeclaredPorts
           /\ IF side = "source" THEN IsOutput(i, p) ELSE IsInput(i, p)
  BY NodeRowForm
<1>2. PICK p \in DOMAIN Decl[i] :
           /\ q = PortRow(HandleId(i, p, side), ColumnOf(side))
           /\ <<i, p>> \in DeclaredPorts
           /\ IF side = "source" THEN IsOutput(i, p) ELSE IsInput(i, p)
  BY <1>1
<1>3. q.id = HandleId(i, p, side) /\ q.id[1] = i /\ q.id[2] = p /\ q.id[3] = side
  BY <1>2 DEF PortRow, Row, HandleId
<1> QED
  BY <1>2, <1>3 DEF PortRow, Row, IsOwn

LEMMA FannedBase ==
  ASSUME NEW h, IsOwn(h), NEW e
  PROVE  /\ Fanned(h, e)[1] = h[1] /\ Fanned(h, e)[2] = h[2] /\ Fanned(h, e)[3] = h[3]
         /\ Fanned(h, e)[4] \in {"own", "fan"}
         /\ h[4] = "own"
         /\ HandleId(h[1], h[2], h[3]) = h
         /\ Fanned(h, e)[4] = "own" => Fanned(h, e) = h
<1>1. h = <<h[1], h[2], h[3], "own", 0>>
  BY DEF IsOwn, HandleId
<1>2. \A j : FanId(h, j) = <<h[1], h[2], h[3], "fan", j>>
  BY DEF FanId
<1>3. \A j : FanId(h, j)[1] = h[1] /\ FanId(h, j)[2] = h[2] /\ FanId(h, j)[3] = h[3] /\ FanId(h, j)[4] = "fan"
  BY <1>2
<1>4. h[4] = "own"
  BY <1>1
<1> QED
  BY <1>1, <1>3, <1>4 DEF Fanned, HandleId

\* A row after the split: one of a node, or made of one for a use
LEMMA SplitRowForm ==
  ASSUME NEW S, NEW r \in SplitRows(S)
  PROVE  \E q \in NodeRows :
           \/ q.id \notin S /\ r = q
           \/ q.id \in S /\ \E e \in UsesOf(q.id) : r = Row(Fanned(q.id, e), q.col, FanLabel(q, e), FALSE)
  BY DEF SplitRows, FanRowsOf

LEMMA SplitSame ==
  ASSUME conns' = conns
  PROVE  /\ \A S : SplitRows(S)' = SplitRows(S)
         /\ MultiUse' = MultiUse
         /\ \A r : Relabelled(r)' = Relabelled(r)
         /\ (UNION {RemainderRows(x[1], x[2]) : x \in PartlyUsed})' = UNION {RemainderRows(x[1], x[2]) : x \in PartlyUsed}
<1>1. \A r, e : FanLabel(r, e)' = FanLabel(r, e)
  BY SameConns DEF FanLabel
<1>2. ASSUME NEW q PROVE FanRowsOf(q)' = FanRowsOf(q)
  <2>1. UsesOf(q.id)' = UsesOf(q.id) /\ \A e : Fanned(q.id, e)' = Fanned(q.id, e)
    BY SameConns
  <2>2. \A e : Row(Fanned(q.id, e), q.col, FanLabel(q, e), FALSE)'
                 = Row(Fanned(q.id, e), q.col, FanLabel(q, e), FALSE)
    BY <1>1, <2>1 DEF Row
  <2> QED
    BY <2>1, <2>2 DEF FanRowsOf
<1>3. \A S : SplitRows(S)' = SplitRows(S)
  BY <1>2 DEF SplitRows
<1>4. MultiUse' = MultiUse
  BY SameConns DEF MultiUse
<1>5. \A i, p : Consumed(i, p)' = Consumed(i, p)
  BY SameConns DEF Consumed
<1>6. PartlyUsed' = PartlyUsed
  BY <1>5 DEF PartlyUsed
<1>7. \A r : Relabelled(r)' = Relabelled(r)
  BY <1>5, <1>6 DEF Relabelled
<1>8. \A i, p : RemainderRows(i, p)' = RemainderRows(i, p)
  BY <1>5 DEF RemainderRows, Remaining
<1> QED
  BY <1>3, <1>4, <1>6, <1>7, <1>8

\* Splitting a handle replaces the row of a node that has it
LEMMA SplitOne ==
  ASSUME NEW S, NEW h, h \notin S, IsOwn(h), rows = SplitRows(S)
  PROVE  /\ SplitRows(S \cup {h}) = {r \in rows : r.id # h} \cup FanRows(h)
         /\ (~ \E r \in rows : r.id = h) => SplitRows(S \cup {h}) = rows
<1>1. ASSUME NEW q \in NodeRows, NEW r \in FanRowsOf(q)
      PROVE  r.id = q.id \/ r.id[4] = "fan"
  <2>1. PICK e \in UsesOf(q.id) : r = Row(Fanned(q.id, e), q.col, FanLabel(q, e), FALSE)
    BY DEF FanRowsOf
  <2>2. r.id = Fanned(q.id, e)
    BY <2>1 DEF Row
  <2>3. IsOwn(q.id)
    BY NodeRowFields
  <2> QED
    BY <2>2, <2>3, FannedBase
<1>2. h[4] = "own"
  BY FannedBase
<1>3. ASSUME NEW q \in NodeRows, q.id \in S, NEW r \in FanRowsOf(q) PROVE r.id # h
  BY <1>1, <1>2, <1>3
<1>4. {r \in rows : r.id = h} = {q \in NodeRows : q.id = h}
  BY <1>3 DEF SplitRows
<1>5. FanRows(h) = UNION {FanRowsOf(q) : q \in {n \in NodeRows : n.id = h}}
  <2> DEFINE Of(q) == {Row(Fanned(h, e), q.col, FanLabel(q, e), FALSE) : e \in UsesOf(h)}
  <2>1. FanRows(h) = UNION {Of(q) : q \in {n \in NodeRows : n.id = h}}
    BY <1>4 DEF FanRows
  <2>2. \A q : q.id = h => FanRowsOf(q) = Of(q)
    BY DEF FanRowsOf
  <2> HIDE DEF Of
  <2> QED
    BY <2>1, <2>2
<1>6. {r \in rows : r.id # h}
        = {q \in NodeRows : q.id \notin S \cup {h}}
            \cup UNION {FanRowsOf(q) : q \in {n \in NodeRows : n.id \in S}}
  <2> HIDE DEF FanRowsOf
  <2> QED
    BY <1>3 DEF SplitRows
<1>7. SplitRows(S \cup {h}) = {r \in rows : r.id # h} \cup FanRows(h)
  <2> HIDE DEF FanRowsOf
  <2> QED
    BY <1>5, <1>6 DEF SplitRows
<1>8. ASSUME ~ \E r \in rows : r.id = h PROVE SplitRows(S \cup {h}) = rows
  <2>1. \A q \in NodeRows : q.id # h
    BY <1>4, <1>8
  <2> HIDE DEF FanRowsOf
  <2> QED
    BY <2>1 DEF SplitRows
<1> QED
  BY <1>7, <1>8

LEMMA RowsExactKept == IInv /\ RowsExact /\ [Next]_vars => RowsExact'
<1> SUFFICES ASSUME IInv, RowsExact, [Next]_vars PROVE RowsExact'
  OBVIOUS
<1>1. ASSUME NEW w \in Wires, AddStatement(w) PROVE RowsExact'
  BY <1>1 DEF AddStatement, RowsExact
<1>2. CASE BuildNodesAndEdges
  <2>1. conns' = conns /\ pc' = "fan" /\ shared' = MultiUse /\ rows' = NodeRows
    BY <1>2 DEF BuildNodesAndEdges
  <2>2. SplitRows({}) = NodeRows
    BY DEF SplitRows
  <2>3. (SplitRows(MultiUse \ shared))' = SplitRows({})
    <3>1. (MultiUse \ shared)' = {}
      BY <2>1, SplitSame
    <3> QED
      BY <2>1, <3>1, SplitSame
  <2> QED
    BY <2>1, <2>2, <2>3, SplitSame DEF RowsExact
<1>3. ASSUME NEW h \in shared, FanOut(h) PROVE RowsExact'
  <2>1. conns' = conns /\ pc' = "fan" /\ pc = "fan" /\ shared' = shared \ {h}
    BY <1>3 DEF FanOut
  <2> DEFINE S == MultiUse \ shared
  <2>2. rows = SplitRows(S) /\ h \notin S /\ IsOwn(h) /\ MultiUse \ shared' = S \cup {h}
    BY <2>1 DEF RowsExact, IInv, SharedOwn
  <2>3. rows' = SplitRows(S \cup {h})
    BY <1>3, <2>2, SplitOne DEF FanOut
  <2>4. (SplitRows(MultiUse \ shared))' = SplitRows(S \cup {h})
    BY <2>1, <2>2, SplitSame
  <2> QED
    BY <2>1, <2>3, <2>4, SplitSame DEF RowsExact
<1>4. CASE AddRemainderPorts
  <2>1. /\ conns' = conns /\ pc' = "done" /\ pc = "fan" /\ shared = {} /\ shared' = {}
        /\ rows' = {Relabelled(r) : r \in rows}
                     \cup (UNION {RemainderRows(x[1], x[2]) : x \in PartlyUsed})
    BY <1>4 DEF AddRemainderPorts
  <2>2. rows = SplitRows(MultiUse)
    <3>1. MultiUse \ shared = MultiUse
      BY <2>1
    <3> QED
      BY <2>1, <3>1 DEF RowsExact
  <2>3. {Relabelled(r) : r \in SplitRows(MultiUse)}' = {Relabelled(r) : r \in SplitRows(MultiUse)}
    BY <2>1, SplitSame
  <2> QED
    BY <2>1, <2>2, <2>3, SplitSame DEF RowsExact
<1>5. CASE NextCall
  BY <1>5 DEF NextCall, RowsExact
<1>6. CASE UNCHANGED vars
  <2>1. conns' = conns /\ rows' = rows /\ shared' = shared /\ pc' = pc
    BY <1>6 DEF vars
  <2>2. SplitRows(MultiUse \ shared)' = SplitRows(MultiUse \ shared)
    BY <2>1, SplitSame
  <2>3. {Relabelled(r) : r \in SplitRows(MultiUse)}' = {Relabelled(r) : r \in SplitRows(MultiUse)}
    BY <2>1, SplitSame
  <2> QED
    BY <2>1, <2>2, <2>3, SplitSame DEF RowsExact
<1> QED
  BY <1>1, <1>2, <1>3, <1>4, <1>5, <1>6 DEF Next

LEMMA RowsAreExact == Spec => [](IInv /\ RowsExact)
<1>1. Init => RowsExact
  BY DEF Init, RowsExact
<1> QED
  BY <1>1, RowsExactKept, Invariance, PTL DEF Spec

-----------------------------------------------------------------------------
(* Rows differ.                                                            *)

\* A handle has one row, whether it was split or not
LEMMA SplitApart ==
  ASSUME conns \in Seq(Wires), NEW S, NEW r \in SplitRows(S), NEW s \in SplitRows(S), r.id = s.id
  PROVE  r = s
<1>1. PICK q \in NodeRows :
        \/ q.id \notin S /\ r = q
        \/ q.id \in S /\ \E e \in UsesOf(q.id) : r = Row(Fanned(q.id, e), q.col, FanLabel(q, e), FALSE)
  BY SplitRowForm
<1>2. PICK p \in NodeRows :
        \/ p.id \notin S /\ s = p
        \/ p.id \in S /\ \E f \in UsesOf(p.id) : s = Row(Fanned(p.id, f), p.col, FanLabel(p, f), FALSE)
  BY SplitRowForm
<1>3. ASSUME NEW x, NEW y \in NodeRows,
             \/ x = y
             \/ \E e \in UsesOf(y.id) : x = Row(Fanned(y.id, e), y.col, FanLabel(y, e), FALSE)
      PROVE  x.id[1] = y.id[1] /\ x.id[2] = y.id[2] /\ x.id[3] = y.id[3]
  <2>1. IsOwn(y.id)
    BY NodeRowFields
  <2>2. \A e : Row(Fanned(y.id, e), y.col, FanLabel(y, e), FALSE).id = Fanned(y.id, e)
    BY DEF Row
  <2>3. \A e : /\ Fanned(y.id, e)[1] = y.id[1] /\ Fanned(y.id, e)[2] = y.id[2]
               /\ Fanned(y.id, e)[3] = y.id[3]
    BY <2>1, FannedBase
  <2>4. CASE x = y
    BY <2>4
  <2>5. CASE \E e \in UsesOf(y.id) : x = Row(Fanned(y.id, e), y.col, FanLabel(y, e), FALSE)
    <3>1. PICK e : x = Row(Fanned(y.id, e), y.col, FanLabel(y, e), FALSE)
      BY <2>5
    <3>2. x.id = Fanned(y.id, e)
      BY <2>2, <3>1
    <3> QED
      BY <2>3, <3>2
  <2> QED
    BY <1>3, <2>4, <2>5
<1>4. r.id[1] = q.id[1] /\ r.id[2] = q.id[2] /\ r.id[3] = q.id[3]
  BY <1>1, <1>3
<1>5. s.id[1] = p.id[1] /\ s.id[2] = p.id[2] /\ s.id[3] = p.id[3]
  BY <1>2, <1>3
<1>6. q.id = p.id
  <2>1. q.id = HandleId(q.id[1], q.id[2], q.id[3]) /\ p.id = HandleId(p.id[1], p.id[2], p.id[3])
    BY NodeRowFields DEF IsOwn
  <2> QED
    BY <1>4, <1>5, <2>1
<1>7. q = p
  BY <1>6, NodeRowFields
<1>8. CASE q.id \in S
  <2>1. PICK e \in UsesOf(q.id) : r = Row(Fanned(q.id, e), q.col, FanLabel(q, e), FALSE)
    BY <1>1, <1>8
  <2>2. PICK f \in UsesOf(q.id) : s = Row(Fanned(q.id, f), q.col, FanLabel(q, f), FALSE)
    BY <1>2, <1>7, <1>8
  <2>3. Fanned(q.id, e) = Fanned(q.id, f)
    BY <2>1, <2>2 DEF Row
  <2>4. e = f
    <3>1. IsOwn(q.id)
      BY NodeRowFields
    <3> QED
      BY <2>3, <3>1, FannedApart
  <2> QED
    BY <2>1, <2>2, <2>4
<1> QED
  BY <1>1, <1>2, <1>7, <1>8

\* A row that addRemainderPorts makes
LEMMA RemainderForm ==
  ASSUME NEW r \in UNION {RemainderRows(x[1], x[2]) : x \in PartlyUsed}
  PROVE  \E x \in PartlyUsed : \E c \in RunStarts(Remaining(x[1], x[2])), col \in ColumnsOf(x[1], x[2]) :
           /\ r = Row(RemainderId(MainHandle(x[1], x[2]), c), col,
                      RunFrom(Remaining(x[1], x[2]), c), FALSE)
           /\ x = <<r.id[1], r.id[2]>> /\ r.id[4] = "rem"
           /\ r.id[5] = c /\ r.col = col /\ r.shows = RunFrom(Remaining(x[1], x[2]), c)
<1>1. PICK x \in PartlyUsed : r \in RemainderRows(x[1], x[2])
  OBVIOUS
<1>2. PICK y \in RunStarts(Remaining(x[1], x[2])) \X ColumnsOf(x[1], x[2]) :
        r = Row(RemainderId(MainHandle(x[1], x[2]), y[1]), y[2], RunFrom(Remaining(x[1], x[2]), y[1]), FALSE)
  BY <1>1 DEF RemainderRows
<1>3. r.id = RemainderId(MainHandle(x[1], x[2]), y[1]) /\ r.col = y[2]
      /\ r.shows = RunFrom(Remaining(x[1], x[2]), y[1])
  BY <1>2 DEF Row
<1>4. MainHandle(x[1], x[2])[1] = x[1] /\ MainHandle(x[1], x[2])[2] = x[2]
  BY DEF MainHandle, HandleId
<1>5. r.id[1] = x[1] /\ r.id[2] = x[2] /\ r.id[4] = "rem" /\ r.id[5] = y[1]
  BY <1>3, <1>4 DEF RemainderId
<1>6. x = <<x[1], x[2]>>
  <2>1. x \in DeclaredPorts
    BY DEF PartlyUsed
  <2>2. PICK i \in DOMAIN Decl : \E p \in DOMAIN Decl[i] : x = <<i, p>>
    BY <2>1 DEF DeclaredPorts
  <2> QED
    BY <2>2
<1> QED
  BY <1>2, <1>3, <1>5, <1>6

LEMMA RelabelledFields ==
  ASSUME NEW r
  PROVE  Relabelled(r).id = r.id /\ Relabelled(r).col = r.col
  BY DEF Relabelled, Row

LEMMA SplitNoRemainder ==
  ASSUME NEW S, NEW r \in SplitRows(S)
  PROVE  r.id[4] \in {"own", "fan"}
<1>1. PICK q \in NodeRows :
        \/ q.id \notin S /\ r = q
        \/ q.id \in S /\ \E e \in UsesOf(q.id) : r = Row(Fanned(q.id, e), q.col, FanLabel(q, e), FALSE)
  BY SplitRowForm
<1>2. IsOwn(q.id) /\ \A e : Row(Fanned(q.id, e), q.col, FanLabel(q, e), FALSE).id = Fanned(q.id, e)
  BY NodeRowFields DEF Row
<1>3. q.id[4] = "own" /\ \A e : Fanned(q.id, e)[4] \in {"own", "fan"}
  BY <1>2, FannedBase
<1>4. CASE r = q
  BY <1>3, <1>4
<1>5. CASE \E e \in UsesOf(q.id) : r = Row(Fanned(q.id, e), q.col, FanLabel(q, e), FALSE)
  <2>1. PICK e : r = Row(Fanned(q.id, e), q.col, FanLabel(q, e), FALSE)
    BY <1>5
  <2> QED
    BY <1>2, <1>3, <2>1
<1> QED
  BY <1>1, <1>4, <1>5

\* The IDs that Vue and ELK take the rows of a column by are different, at
\* every moment of a call and for every list of statements
THEOREM RowIdsApart == Spec => []RowsApart
<1>1. IInv /\ RowsExact => RowsApart
  <2> SUFFICES ASSUME IInv, RowsExact, NEW r \in rows, NEW s \in rows, r.id = s.id, r.col = s.col
               PROVE  r = s
    BY DEF RowsApart
  <2>1. conns \in Seq(Wires) /\ pc \in {"call", "fan", "done"}
    BY DEF IInv, Shape
  <2>2. CASE pc = "fan"
    BY <2>1, <2>2, SplitApart DEF RowsExact
  <2>3. CASE pc = "done"
    <3> DEFINE Split == {Relabelled(q) : q \in SplitRows(MultiUse)}
               Rest == UNION {RemainderRows(x[1], x[2]) : x \in PartlyUsed}
    <3>1. rows = Split \cup Rest
      BY <2>3 DEF RowsExact
    <3>2. ASSUME NEW q \in Split PROVE q.id[4] # "rem"
      BY RelabelledFields, SplitNoRemainder
    <3>3. ASSUME NEW q \in Rest PROVE q.id[4] = "rem"
      BY RemainderForm
    <3>4. CASE r \in Split /\ s \in Split
      BY <2>1, <3>4, RelabelledFields, SplitApart
    <3>5. CASE r \in Rest /\ s \in Rest
      <4>1. PICK x \in PartlyUsed : \E c \in RunStarts(Remaining(x[1], x[2])), col \in ColumnsOf(x[1], x[2]) :
              /\ r = Row(RemainderId(MainHandle(x[1], x[2]), c), col, RunFrom(Remaining(x[1], x[2]), c), FALSE)
              /\ x = <<r.id[1], r.id[2]>> /\ r.id[5] = c /\ r.col = col
        BY <3>5, RemainderForm
      <4>2. PICK y \in PartlyUsed : \E c \in RunStarts(Remaining(y[1], y[2])), col \in ColumnsOf(y[1], y[2]) :
              /\ s = Row(RemainderId(MainHandle(y[1], y[2]), c), col, RunFrom(Remaining(y[1], y[2]), c), FALSE)
              /\ y = <<s.id[1], s.id[2]>> /\ s.id[5] = c /\ s.col = col
        BY <3>5, RemainderForm
      <4>3. x = y /\ r.id[5] = s.id[5]
        BY <4>1, <4>2
      <4>4. r = Row(RemainderId(MainHandle(x[1], x[2]), r.id[5]), r.col,
                    RunFrom(Remaining(x[1], x[2]), r.id[5]), FALSE)
        BY <4>1
      <4>5. s = Row(RemainderId(MainHandle(x[1], x[2]), s.id[5]), s.col,
                    RunFrom(Remaining(x[1], x[2]), s.id[5]), FALSE)
        BY <4>2, <4>3
      <4> QED
        BY <4>3, <4>4, <4>5
    <3> HIDE DEF Split, Rest
    <3> QED
      BY <3>1, <3>2, <3>3, <3>4, <3>5
  <2> QED
    BY <2>1, <2>2, <2>3 DEF RowsExact
<1> QED
  BY <1>1, RowsAreExact, PTL

-----------------------------------------------------------------------------
(* The rows of a port that is not bidirectional: it has one side, and one  *)
(* row before the split.                                                   *)

MainRow(i, p) == PortRow(MainHandle(i, p), MainColumn(i, p))
UsesOfPort(i, p) == {e \in Ends : RefAt(e).instance = i /\ RefAt(e).port = p}

LEMMA KnownSide ==
  ASSUME NEW i, NEW p, <<i, p>> \in DeclaredPorts, NEW side \in Side
  PROVE  /\ Decl[i][p].dir \in Dir
         /\ Known(HandleId(i, p, side)) <=> IF side = "source" THEN IsOutput(i, p) ELSE IsInput(i, p)
<1>1. Decl[i][p].dir \in Dir
  BY DeclAssumption DEF DeclaredPorts
<1>2. ASSUME Known(HandleId(i, p, side))
      PROVE IF side = "source" THEN IsOutput(i, p) ELSE IsInput(i, p)
  <2>1. PICK q \in NodeRows : q.id = HandleId(i, p, side)
    BY <1>2 DEF Known
  <2>2. q.id[1] = i /\ q.id[2] = p /\ q.id[3] = side
    BY <2>1 DEF HandleId
  <2> QED
    BY <2>2, NodeRowFields
<1>3. ASSUME IF side = "source" THEN IsOutput(i, p) ELSE IsInput(i, p)
      PROVE Known(HandleId(i, p, side))
  <2>1. <<i, p>>[1] = i /\ <<i, p>>[2] = p
    OBVIOUS
  <2>2. PortRow(HandleId(i, p, side), ColumnOf(side)) \in NodeRows
    BY <1>3, <2>1 DEF NodeRows, ColumnOf, Side
  <2> QED
    BY <2>2 DEF Known, PortRow, Row
<1> QED
  BY <1>1, <1>2, <1>3

LEMMA OneSide ==
  ASSUME NEW i, NEW p, <<i, p>> \in DeclaredPorts, Decl[i][p].dir # "io"
  PROVE  /\ MainRow(i, p) \in NodeRows
         /\ \A q \in NodeRows : q.id[1] = i /\ q.id[2] = p => q = MainRow(i, p)
         /\ \A e \in Ends : FirstHandle(e) = MainHandle(i, p) <=> e \in UsesOfPort(i, p)
         /\ ColumnsOf(i, p) = {MainColumn(i, p)}
<1>1. IsInput(i, p) <=> ~ IsOutput(i, p)
  BY KnownSide DEF IsInput, IsOutput, Dir, Side
<1>2. PICK side \in Side : /\ MainHandle(i, p) = HandleId(i, p, side)
                           /\ IF side = "source" THEN IsOutput(i, p) ELSE IsInput(i, p)
                           /\ MainColumn(i, p) = ColumnOf(side)
  BY <1>1 DEF MainHandle, MainColumn, ColumnOf, Side
<1>3. MainHandle(i, p)[1] = i /\ MainHandle(i, p)[2] = p /\ MainHandle(i, p)[3] = side
  BY <1>2 DEF HandleId
<1>4. \A q \in NodeRows : q.id[1] = i /\ q.id[2] = p => q = MainRow(i, p)
  <2> SUFFICES ASSUME NEW q \in NodeRows, q.id[1] = i, q.id[2] = p PROVE q = MainRow(i, p)
    OBVIOUS
  <2>1. q.id[3] = side
    BY <1>1, <1>2, NodeRowFields DEF Side
  <2>2. q.id = MainHandle(i, p)
    BY <1>2, <2>1, NodeRowFields DEF IsOwn
  <2> QED
    BY <1>2, <2>1, <2>2, NodeRowFields DEF MainRow
<1>5. MainRow(i, p) \in NodeRows
  <2>1. PICK q \in NodeRows : q.id = MainHandle(i, p)
    BY <1>2, KnownSide DEF Known
  <2> QED
    BY <1>3, <1>4, <2>1
<1>6. ASSUME NEW e \in UsesOfPort(i, p) PROVE FirstHandle(e) = MainHandle(i, p)
  <2>1. e[2] \in Side /\ RefAt(e).instance = i /\ RefAt(e).port = p
    BY DEF UsesOfPort, Ends
  <2>2. \A s \in Side : Known(HandleId(i, p, s)) <=> s = side
    BY <1>1, <1>2, KnownSide DEF Side
  <2> QED
    BY <1>2, <2>1, <2>2 DEF FirstHandle, HandleOf, Opposite, Side
<1>7. ASSUME NEW e \in Ends, FirstHandle(e) = MainHandle(i, p) PROVE e \in UsesOfPort(i, p)
  <2>1. FirstHandle(e)[1] = RefAt(e).instance /\ FirstHandle(e)[2] = RefAt(e).port
    BY DEF FirstHandle, HandleOf, HandleId
  <2> QED
    BY <1>3, <1>7, <2>1 DEF UsesOfPort
<1>8. ColumnsOf(i, p) = {MainColumn(i, p)}
  BY <1>1 DEF ColumnsOf, MainColumn
<1> QED
  BY <1>4, <1>5, <1>6, <1>7, <1>8

LEMMA PartlyUsedForm ==
  ASSUME NEW x \in PartlyUsed
  PROVE  /\ x = <<x[1], x[2]>> /\ x \in DeclaredPorts
         /\ MainHandle(x[1], x[2])[1] = x[1] /\ MainHandle(x[1], x[2])[2] = x[2]
<1>1. x \in DeclaredPorts
  BY DEF PartlyUsed
<1>2. PICK i \in DOMAIN Decl : \E p \in DOMAIN Decl[i] : x = <<i, p>>
  BY <1>1 DEF DeclaredPorts
<1> QED
  BY <1>1, <1>2 DEF MainHandle, HandleId

LEMMA RelabelledMain ==
  ASSUME NEW i, NEW p, <<i, p>> \in DeclaredPorts, Decl[i][p].dir # "io"
  PROVE  Relabelled(MainRow(i, p)) =
           IF <<i, p>> \in PartlyUsed /\ OneRun(Consumed(i, p))
           THEN Row(MainHandle(i, p), MainColumn(i, p), Consumed(i, p), FALSE)
           ELSE MainRow(i, p)
<1> DEFINE m == MainHandle(i, p)
           d == Decl[i][p]
<1>1. MainRow(i, p) = Row(m, MainColumn(i, p), d.chans, d.chans # {}) /\ m[1] = i /\ m[2] = p
  BY DEF MainRow, PortRow, MainHandle, HandleId
<1>2. /\ MainRow(i, p).id = m /\ MainRow(i, p).col = MainColumn(i, p)
      /\ MainRow(i, p).ranged = (d.chans # {})
  BY <1>1 DEF Row
<1>3. <<i, p>> \in PartlyUsed => d.chans # {}
  BY DEF PartlyUsed
<1>4. ASSUME NEW x \in PartlyUsed, m = MainHandle(x[1], x[2])
      PROVE x = <<i, p>>
  BY <1>1, <1>4, PartlyUsedForm
<1>5. (/\ MainRow(i, p).ranged
       /\ \E x \in PartlyUsed : /\ MainRow(i, p).id = MainHandle(x[1], x[2])
                                /\ MainRow(i, p).col = MainColumn(x[1], x[2])
                                /\ OneRun(Consumed(x[1], x[2])))
        <=> (<<i, p>> \in PartlyUsed /\ OneRun(Consumed(i, p)))
  <2>1. <<i, p>>[1] = i /\ <<i, p>>[2] = p
    OBVIOUS
  <2> QED
    BY <1>2, <1>3, <1>4, <2>1
<1>6. Consumed(MainRow(i, p).id[1], MainRow(i, p).id[2]) = Consumed(i, p)
  BY <1>1, <1>2
<1> QED
  BY <1>2, <1>5, <1>6 DEF Relabelled

\* After the last pass a row of the port is a remainder, the row it had, or
\* the row of a use
LEMMA MainRows ==
  ASSUME IInv, RowsExact, pc = "done", NEW i, NEW p, <<i, p>> \in DeclaredPorts,
         Decl[i][p].dir # "io", NEW r \in rows, r.id[1] = i, r.id[2] = p
  PROVE  \/ /\ <<i, p>> \in PartlyUsed
            /\ \E c \in RunStarts(Remaining(i, p)) :
                 r = Row(RemainderId(MainHandle(i, p), c), MainColumn(i, p), RunFrom(Remaining(i, p), c), FALSE)
         \/ MainHandle(i, p) \notin MultiUse /\ r = Relabelled(MainRow(i, p))
         \/ /\ MainHandle(i, p) \in MultiUse
            /\ \E e \in UsesOf(MainHandle(i, p)) :
                 r = Row(Fanned(MainHandle(i, p), e), MainColumn(i, p), FanLabel(MainRow(i, p), e), FALSE)
<1>1. CASE r \in UNION {RemainderRows(x[1], x[2]) : x \in PartlyUsed}
  <2>1. PICK x \in PartlyUsed : \E c \in RunStarts(Remaining(x[1], x[2])), col \in ColumnsOf(x[1], x[2]) :
          /\ r = Row(RemainderId(MainHandle(x[1], x[2]), c), col, RunFrom(Remaining(x[1], x[2]), c), FALSE)
          /\ x = <<r.id[1], r.id[2]>>
    BY <1>1, RemainderForm
  <2>2. x = <<i, p>> /\ x[1] = i /\ x[2] = p
    <3>1. x = <<r.id[1], r.id[2]>>
      BY <2>1
    <3> QED
      BY <3>1
  <2>3. PICK c \in RunStarts(Remaining(x[1], x[2])) : \E col \in ColumnsOf(x[1], x[2]) :
          r = Row(RemainderId(MainHandle(x[1], x[2]), c), col, RunFrom(Remaining(x[1], x[2]), c), FALSE)
    BY <2>1
  <2>4. PICK col \in ColumnsOf(x[1], x[2]) :
          r = Row(RemainderId(MainHandle(x[1], x[2]), c), col, RunFrom(Remaining(x[1], x[2]), c), FALSE)
    BY <2>3
  <2>5. ColumnsOf(i, p) = {MainColumn(i, p)}
    BY OneSide
  <2>6. c \in RunStarts(Remaining(i, p)) /\ col = MainColumn(i, p)
    BY <2>2, <2>5
  <2>7. r = Row(RemainderId(MainHandle(i, p), c), MainColumn(i, p), RunFrom(Remaining(i, p), c), FALSE)
    BY <2>2, <2>4, <2>6
  <2>8. <<i, p>> \in PartlyUsed
    BY <2>2
  <2> QED
    BY <2>6, <2>7, <2>8
<1>2. CASE r \in {Relabelled(q) : q \in SplitRows(MultiUse)}
  <2>1. PICK s \in SplitRows(MultiUse) : r = Relabelled(s)
    BY <1>2
  <2>2. s.id = r.id
    BY <2>1, RelabelledFields
  <2>3. PICK q \in NodeRows :
          \/ q.id \notin MultiUse /\ s = q
          \/ q.id \in MultiUse /\ \E e \in UsesOf(q.id) : s = Row(Fanned(q.id, e), q.col, FanLabel(q, e), FALSE)
    BY SplitRowForm
  <2>4. CASE q.id \notin MultiUse /\ s = q
    <3>1. q = MainRow(i, p)
      BY <2>2, <2>4, OneSide
    <3>2. q.id = MainHandle(i, p)
      BY <3>1 DEF MainRow, PortRow, Row
    <3> QED
      BY <2>1, <2>4, <3>1, <3>2
  <2>5. CASE q.id \in MultiUse /\ \E e \in UsesOf(q.id) : s = Row(Fanned(q.id, e), q.col, FanLabel(q, e), FALSE)
    <3>1. PICK e \in UsesOf(q.id) : s = Row(Fanned(q.id, e), q.col, FanLabel(q, e), FALSE)
      BY <2>5
    <3>2. s.id = Fanned(q.id, e) /\ s.ranged = FALSE
      BY <3>1 DEF Row
    <3>3. IsOwn(q.id)
      BY NodeRowFields
    <3>4. q.id[1] = i /\ q.id[2] = p
      BY <2>2, <3>2, <3>3, FannedBase
    <3>5. q = MainRow(i, p)
      BY <3>4, OneSide
    <3>6. q.id = MainHandle(i, p) /\ q.col = MainColumn(i, p)
      BY <3>5 DEF MainRow, PortRow, Row
    <3>7. r = s
      BY <2>1, <3>2 DEF Relabelled
    <3> QED
      BY <2>5, <3>1, <3>5, <3>6, <3>7
  <2> QED
    BY <2>3, <2>4, <2>5
<1> QED
  BY <1>1, <1>2 DEF RowsExact

\* Where an end is when all is done
LEMMA EndDone ==
  ASSUME IInv, pc = "done", NEW e \in Ends
  PROVE  /\ HandleAt(e) = FirstHandle(e) \/ HandleAt(e) = Fanned(FirstHandle(e), e)
         /\ Declared(RefAt(e)) => HandleAt(e) = Fanned(FirstHandle(e), e) /\ Known(FirstHandle(e))
         /\ HandleAt(e)[1] = RefAt(e).instance /\ HandleAt(e)[2] = RefAt(e).port
         /\ HandleAt(e)[4] # "rem"
<1>1. HandleAt(e) = Now(e) /\ shared = {}
  BY DEF IInv, Shape, EdgesFollow
<1>2. e[2] \in Side
  BY DEF Ends
<1>3. Declared(RefAt(e)) => Known(FirstHandle(e))
  BY <1>2, DeclaredKnown DEF FirstHandle
<1>4. IsOwn(FirstHandle(e))
  BY FirstIsOwn DEF FirstHandle
<1>5. FirstHandle(e)[1] = RefAt(e).instance /\ FirstHandle(e)[2] = RefAt(e).port
  BY DEF FirstHandle, HandleOf, HandleId
<1>6. /\ Fanned(FirstHandle(e), e)[1] = FirstHandle(e)[1]
      /\ Fanned(FirstHandle(e), e)[2] = FirstHandle(e)[2]
      /\ Fanned(FirstHandle(e), e)[4] \in {"own", "fan"} /\ FirstHandle(e)[4] = "own"
  BY <1>4, FannedBase
<1> QED
  BY <1>1, <1>3, <1>5, <1>6 DEF Now

\* A port is used by one reference only when its handle is not shared
LEMMA LoneUse ==
  ASSUME NEW i, NEW p, <<i, p>> \in DeclaredPorts, Decl[i][p].dir # "io",
         MainHandle(i, p) \notin MultiUse, NEW e \in UsesOfPort(i, p)
  PROVE  UsesOfPort(i, p) = {e} /\ Consumed(i, p) = RefAt(e).index
<1>1. \A f \in UsesOfPort(i, p) : f \in UsesOf(MainHandle(i, p)) /\ f \in Ends
  BY OneSide DEF UsesOf, UsesOfPort
<1>2. \A f \in UsesOfPort(i, p) : f = e
  BY <1>1 DEF MultiUse, UsesOf
<1>3. UsesOfPort(i, p) = {e}
  BY <1>2
<1>4. Consumed(i, p) = UNION {RefAt(f).index : f \in {e}}
  BY <1>3 DEF Consumed, UsesOfPort
<1> QED
  BY <1>3, <1>4

LEMMA SlicesShown ==
  ASSUME IInv, RowsExact, pc = "done", NEW e \in Ends,
         NEW i, NEW p, i = RefAt(e).instance, p = RefAt(e).port, <<i, p>> \in DeclaredPorts,
         Plain(i, p), RefAt(e).index # {}, Decl[i][p].chans # {},
         NEW r \in rows, r.id = HandleAt(e)
  PROVE  r.shows = RefAt(e).index /\ r.col = MainColumn(i, p)
<1> DEFINE m == MainHandle(i, p)
<1>1. Decl[i][p].dir # "io" /\ e \in UsesOfPort(i, p)
  BY DEF Plain, UsesOfPort
<1>2. FirstHandle(e) = m /\ HandleAt(e) = Fanned(m, e) /\ e \in UsesOf(m) /\ IsOwn(m)
  BY <1>1, OneSide, EndDone, FirstIsOwn DEF Declared, UsesOf, FirstHandle
<1>3. r.id[1] = i /\ r.id[2] = p /\ r.id[4] # "rem"
  BY EndDone
<1>4. CASE \E c : r = Row(RemainderId(m, c), MainColumn(i, p), RunFrom(Remaining(i, p), c), FALSE)
  <2>1. r.id[4] = "rem"
    BY <1>4 DEF Row, RemainderId
  <2> QED
    BY <1>3, <2>1
<1>5. CASE m \notin MultiUse /\ r = Relabelled(MainRow(i, p))
  <2>1. UsesOfPort(i, p) = {e} /\ Consumed(i, p) = RefAt(e).index
    BY <1>1, <1>5, LoneUse
  <2>2. OneRun(Consumed(i, p))
    BY <2>1 DEF Plain, UsesOfPort
  <2>3. <<i, p>> \in PartlyUsed
    <3>1. <<i, p>>[1] = i /\ <<i, p>>[2] = p
      OBVIOUS
    <3> QED
      BY <2>1, <3>1 DEF PartlyUsed
  <2>4. r = Row(m, MainColumn(i, p), Consumed(i, p), FALSE)
    BY <1>1, <1>5, <2>2, <2>3, RelabelledMain
  <2> QED
    BY <2>1, <2>4 DEF Row
<1>6. CASE m \in MultiUse /\ \E f \in UsesOf(m) :
             r = Row(Fanned(m, f), MainColumn(i, p), FanLabel(MainRow(i, p), f), FALSE)
  <2>1. PICK f \in UsesOf(m) : r = Row(Fanned(m, f), MainColumn(i, p), FanLabel(MainRow(i, p), f), FALSE)
    BY <1>6
  <2>2. r.id = Fanned(m, f) /\ r.shows = FanLabel(MainRow(i, p), f) /\ r.col = MainColumn(i, p)
    BY <2>1 DEF Row
  <2>3. f = e
    <3>1. Fanned(m, f) = Fanned(m, e) /\ conns \in Seq(Wires)
      BY <1>2, <2>2 DEF IInv, Shape
    <3> HIDE DEF m
    <3> QED
      BY <1>2, <3>1, FannedApart
  <2> QED
    BY <2>2, <2>3 DEF FanLabel, Slice
<1>7. \/ \E c : r = Row(RemainderId(m, c), MainColumn(i, p), RunFrom(Remaining(i, p), c), FALSE)
      \/ m \notin MultiUse /\ r = Relabelled(MainRow(i, p))
      \/ m \in MultiUse /\ \E f \in UsesOf(m) :
             r = Row(Fanned(m, f), MainColumn(i, p), FanLabel(MainRow(i, p), f), FALSE)
  <2>1. r.id[1] = i /\ r.id[2] = p /\ Decl[i][p].dir # "io"
    BY <1>1, <1>3
  <2>2. \/ /\ <<i, p>> \in PartlyUsed
           /\ \E c \in RunStarts(Remaining(i, p)) :
                r = Row(RemainderId(MainHandle(i, p), c), MainColumn(i, p), RunFrom(Remaining(i, p), c), FALSE)
        \/ MainHandle(i, p) \notin MultiUse /\ r = Relabelled(MainRow(i, p))
        \/ /\ MainHandle(i, p) \in MultiUse
           /\ \E f \in UsesOf(MainHandle(i, p)) :
                r = Row(Fanned(MainHandle(i, p), f), MainColumn(i, p), FanLabel(MainRow(i, p), f), FALSE)
    <3> HIDE DEF m
    <3> QED
      BY <2>1, MainRows
  <2> QED
    BY <2>2
<1> QED
  BY <1>4, <1>5, <1>6, <1>7

\* The label of the row a wire ends on names the channels of that wire,
\* whichever pass made the row
THEOREM LabelsAreSlices == Spec => []SliceShown
<1>1. IInv /\ RowsExact => SliceShown
  <2> SUFFICES ASSUME IInv, RowsExact, pc = "done", NEW e \in Ends, Declared(RefAt(e)),
                      Plain(RefAt(e).instance, RefAt(e).port), RefAt(e).index # {},
                      Decl[RefAt(e).instance][RefAt(e).port].chans # {},
                      NEW r \in rows, r.id = HandleAt(e)
               PROVE  r.shows = RefAt(e).index
    BY DEF SliceShown
  <2> QED
    BY SlicesShown DEF Declared
<1> QED
  BY <1>1, RowsAreExact, PTL

\* In netnames mode an end of a wire has a tag of its own with the device at
\* the other end
THEOREM TagsAreExact == Spec => []TagsReplaceWires
<1>1. IInv => TagsReplaceWires
  <2> SUFFICES ASSUME IInv, pc = "done", NEW e \in Ends, Declared(RefAt(e)), PeerOf(e) \in DOMAIN Decl
               PROVE  \E n \in NetTagNodes :
                        n.port = HandleAt(e) /\ n.labels = {[names |-> PeerOf(e), side |-> e[2]]}
    BY DEF TagsReplaceWires
  <2> DEFINE h == HandleAt(e)
  <2>1. EndsAt(h) = {e}
    <3>1. ASSUME NEW f \in Ends, HandleAt(f) = h PROVE f = e
      <4>1. Declared(RefAt(f))
        BY <3>1, EndDone DEF Declared
      <4>2. Known(FirstHandle(e)) /\ Known(FirstHandle(f))
        BY <4>1, EndDone
      <4>3. h = Fanned(FirstHandle(e), e) /\ h = Fanned(FirstHandle(f), f)
        BY <3>1, <4>1, EndDone
      <4>4. /\ IsOwn(FirstHandle(e)) /\ IsOwn(FirstHandle(f))
            /\ e \in UsesOf(FirstHandle(e)) /\ f \in UsesOf(FirstHandle(f))
        BY FirstIsOwn DEF FirstHandle, UsesOf
      <4>5. conns \in Seq(Wires)
        BY DEF IInv, Shape
      <4> HIDE DEF h
      <4> QED
        BY <4>3, <4>4, <4>5, FannedApart
    <3> QED
      BY <3>1 DEF EndsAt
  <2>2. RefAt(e).instance \in DOMAIN Decl
    BY DEF Declared, DeclaredPorts
  <2>3. PortTags(h) = {TagOf(e)}
    BY <2>1, <2>2 DEF PortTags
  <2>4. \E r \in rows : r.id = h
    BY EndDone DEF IInv, RowsThere, EdgesFollow
  <2> DEFINE node == [port |-> h, labels |-> PortTags(h),
                      side |-> IF \E r \in rows : r.id = h /\ r.col = "in" THEN "in" ELSE "out"]
  <2>5. h \in {r.id : r \in {s \in rows : PortTags(s.id) # {}}}
    BY <2>3, <2>4
  <2>6. node \in NetTagNodes
    BY <2>5 DEF NetTagNodes
  <2>7. node.port = h /\ node.labels = {TagOf(e)}
    BY <2>3
  <2> HIDE DEF node
  <2> QED
    BY <2>6, <2>7 DEF TagOf
<1> QED
  BY <1>1, Invariance, PTL

-----------------------------------------------------------------------------
(* Every channel of a port on one row.  First the runs of a set of         *)
(* channels: each member is in the run of exactly one start.               *)

LEMMA LeastNatural ==
  ASSUME NEW T, T \subseteq Nat, T # {}
  PROVE  \E m \in T : \A n \in T : m <= n
<1>1. IsWellFoundedOn(OpToRel(<, Nat), Nat)
  BY NatLessThanWellFounded
<1>2. PICK m \in T : \A n \in T : <<n, m>> \notin OpToRel(<, Nat)
  BY <1>1, WFMin
<1>3. m \in Nat /\ \A n \in T : n \in Nat /\ ~ (n < m)
  BY <1>2 DEF OpToRel
<1> QED
  BY <1>3

LEMMA RunsCover ==
  ASSUME NEW S, S \subseteq Nat, NEW c \in S
  PROVE  \E s \in RunStarts(S) : c \in RunFrom(S, s)
<1> DEFINE T == {d \in S : d <= c /\ d .. c \subseteq S}
<1>1. c \in T
  OBVIOUS
<1>2. PICK s \in T : \A d \in T : s <= d
  <2> HIDE DEF T
  <2>1. T \subseteq Nat /\ T # {}
    BY <1>1 DEF T
  <2> QED
    BY <2>1, LeastNatural
<1>3. s - 1 \notin S
  <2> SUFFICES ASSUME s - 1 \in S PROVE FALSE
    OBVIOUS
  <2>1. s - 1 \in T
    OBVIOUS
  <2> QED
    BY <1>2, <2>1
<1>4. s \in RunStarts(S) /\ c \in RunFrom(S, s)
  BY <1>3 DEF RunStarts, RunFrom
<1> QED
  BY <1>4

LEMMA RunsApart ==
  ASSUME NEW S, S \subseteq Nat, NEW c, NEW s \in RunStarts(S), NEW t \in RunStarts(S),
         c \in RunFrom(S, s), c \in RunFrom(S, t)
  PROVE  s = t
<1>1. ASSUME NEW a \in RunStarts(S), NEW b \in RunStarts(S),
             c \in RunFrom(S, a), c \in RunFrom(S, b), a < b
      PROVE  FALSE
  <2>1. a \in Nat /\ b \in Nat /\ c \in Nat /\ b <= c /\ a .. c \subseteq S /\ b - 1 \notin S
    BY <1>1 DEF RunStarts, RunFrom
  <2>2. b - 1 \in a .. c
    BY <1>1, <2>1
  <2> QED
    BY <2>1, <2>2
<1>2. s \in Nat /\ t \in Nat
  BY DEF RunStarts
<1> QED
  BY <1>1, <1>2

\* What the statements must be for a port to show each of its channels once
WellUsed(i, p) ==
  /\ Plain(i, p)
  /\ \A e \in UsesOfPort(i, p) : RefAt(e).index # {}
  /\ \A e, f \in UsesOfPort(i, p) : e # f => RefAt(e).index \cap RefAt(f).index = {}

\* The rows of a port that show a channel
RowsWith(i, p, c) == {r \in rows : r.id[1] = i /\ r.id[2] = p /\ c \in r.shows}

\* The row of a use
UseRow(i, p, e) ==
  IF MainHandle(i, p) \in MultiUse
  THEN Row(Fanned(MainHandle(i, p), e), MainColumn(i, p), FanLabel(MainRow(i, p), e), FALSE)
  ELSE Relabelled(MainRow(i, p))

\* What a row of a well used port shows, by the pass that made it
LEMMA RowOfWellUsed ==
  ASSUME IInv, RowsExact, pc = "done", NEW i, NEW p, <<i, p>> \in DeclaredPorts,
         WellUsed(i, p), Decl[i][p].chans # {}, NEW r \in rows, r.id[1] = i, r.id[2] = p
  PROVE  \/ \E s \in RunStarts(Remaining(i, p)) :
              /\ r = Row(RemainderId(MainHandle(i, p), s), MainColumn(i, p), RunFrom(Remaining(i, p), s), FALSE)
              /\ r.shows = RunFrom(Remaining(i, p), s) /\ r.id[4] = "rem"
         \/ UsesOfPort(i, p) = {} /\ r = MainRow(i, p)
         \/ \E e \in UsesOfPort(i, p) : r = UseRow(i, p, e) /\ r.shows = RefAt(e).index
<1>1. Plain(i, p) /\ Decl[i][p].dir # "io"
  BY DEF WellUsed, Plain
<1>2. \/ /\ <<i, p>> \in PartlyUsed
         /\ \E c \in RunStarts(Remaining(i, p)) :
              r = Row(RemainderId(MainHandle(i, p), c), MainColumn(i, p), RunFrom(Remaining(i, p), c), FALSE)
      \/ MainHandle(i, p) \notin MultiUse /\ r = Relabelled(MainRow(i, p))
      \/ /\ MainHandle(i, p) \in MultiUse
         /\ \E e \in UsesOf(MainHandle(i, p)) :
              r = Row(Fanned(MainHandle(i, p), e), MainColumn(i, p), FanLabel(MainRow(i, p), e), FALSE)
  <2>1. Decl[i][p].dir # "io" /\ r.id[1] = i /\ r.id[2] = p
    BY <1>1
  <2> QED
    BY <2>1, MainRows
<1>3. ASSUME NEW s \in RunStarts(Remaining(i, p)),
             r = Row(RemainderId(MainHandle(i, p), s), MainColumn(i, p), RunFrom(Remaining(i, p), s), FALSE)
      PROVE  r.shows = RunFrom(Remaining(i, p), s) /\ r.id[4] = "rem"
  BY <1>3 DEF Row, RemainderId
<1>4. CASE MainHandle(i, p) \notin MultiUse /\ r = Relabelled(MainRow(i, p)) /\ UsesOfPort(i, p) = {}
  <2>1. Consumed(i, p) = {}
    BY <1>4 DEF Consumed, UsesOfPort
  <2>2. <<i, p>> \notin PartlyUsed
    <3>1. <<i, p>>[1] = i /\ <<i, p>>[2] = p
      OBVIOUS
    <3> QED
      BY <2>1, <3>1 DEF PartlyUsed
  <2> QED
    BY <1>1, <1>4, <2>2, RelabelledMain
<1>5. CASE MainHandle(i, p) \notin MultiUse /\ r = Relabelled(MainRow(i, p)) /\ UsesOfPort(i, p) # {}
  <2>1. PICK e : e \in UsesOfPort(i, p)
    BY <1>5
  <2>2. UsesOfPort(i, p) = {e} /\ Consumed(i, p) = RefAt(e).index
    BY <1>1, <1>5, <2>1, LoneUse
  <2>3. RefAt(e).index # {} /\ OneRun(Consumed(i, p))
    BY <2>1, <2>2 DEF WellUsed, Plain, UsesOfPort
  <2>4. <<i, p>> \in PartlyUsed
    <3>1. <<i, p>>[1] = i /\ <<i, p>>[2] = p
      OBVIOUS
    <3> QED
      BY <2>2, <2>3, <3>1 DEF PartlyUsed
  <2>5. r = Row(MainHandle(i, p), MainColumn(i, p), Consumed(i, p), FALSE)
    BY <1>1, <1>5, <2>3, <2>4, RelabelledMain
  <2>6. r.shows = RefAt(e).index
    BY <2>2, <2>5 DEF Row
  <2> QED
    BY <1>5, <2>1, <2>6 DEF UseRow
<1>6. ASSUME MainHandle(i, p) \in MultiUse, NEW e \in UsesOf(MainHandle(i, p)),
             r = Row(Fanned(MainHandle(i, p), e), MainColumn(i, p), FanLabel(MainRow(i, p), e), FALSE)
      PROVE  e \in UsesOfPort(i, p) /\ r = UseRow(i, p, e) /\ r.shows = RefAt(e).index
  <2>1. e \in UsesOfPort(i, p)
    BY <1>1, OneSide DEF UsesOf
  <2>2. RefAt(e).index # {}
    BY <2>1 DEF WellUsed
  <2> QED
    BY <1>6, <2>1, <2>2 DEF Row, FanLabel, Slice, UseRow
<1> QED
  BY <1>2, <1>3, <1>4, <1>5, <1>6

\* A used channel: the one row is that of its use
LEMMA UsedChannelOnce ==
  ASSUME IInv, RowsExact, pc = "done", NEW i, NEW p, <<i, p>> \in DeclaredPorts,
         WellUsed(i, p), NEW c \in Decl[i][p].chans, c \in Consumed(i, p)
  PROVE  \E r \in rows : RowsWith(i, p, c) = {r} /\ IsConnected(r)
<1>1. PICK e \in UsesOfPort(i, p) : c \in RefAt(e).index
  BY DEF Consumed, UsesOfPort
<1>2. e \in Ends /\ RefAt(e).instance = i /\ RefAt(e).port = p /\ RefAt(e).index # {}
  BY <1>1 DEF UsesOfPort
<1>3. PICK r \in rows : r.id = HandleAt(e)
  BY <1>2, EndDone DEF IInv, RowsThere, EdgesFollow, Declared
<1>4. r.shows = RefAt(e).index
  BY <1>2, <1>3, SlicesShown DEF WellUsed
<1>5. r \in RowsWith(i, p, c) /\ IsConnected(r)
  BY <1>1, <1>2, <1>3, <1>4, EndDone DEF RowsWith, IsConnected, EndsAt
<1>6. ASSUME NEW q \in RowsWith(i, p, c) PROVE q = UseRow(i, p, e)
  <2>1. q \in rows /\ q.id[1] = i /\ q.id[2] = p /\ c \in q.shows /\ Decl[i][p].chans # {}
    BY DEF RowsWith
  <2>2. c \notin Remaining(i, p)
    BY DEF Remaining
  <2>3. \A s : c \notin RunFrom(Remaining(i, p), s)
    BY <2>2 DEF RunFrom
  <2>4. \/ \E s \in RunStarts(Remaining(i, p)) : q.shows = RunFrom(Remaining(i, p), s)
        \/ UsesOfPort(i, p) = {}
        \/ \E f \in UsesOfPort(i, p) : q = UseRow(i, p, f) /\ q.shows = RefAt(f).index
    BY <2>1, RowOfWellUsed
  <2>5. PICK f \in UsesOfPort(i, p) : q = UseRow(i, p, f) /\ q.shows = RefAt(f).index
    BY <1>1, <2>1, <2>3, <2>4
  <2>6. f = e
    BY <1>1, <2>1, <2>5 DEF WellUsed
  <2> QED
    BY <2>5, <2>6
<1> QED
  BY <1>5, <1>6

\* A channel nobody uses, of a port that is used: the one row is the
\* remainder of its run, where no wire ends
LEMMA RemainingChannelOnce ==
  ASSUME IInv, RowsExact, pc = "done", NEW i, NEW p, <<i, p>> \in DeclaredPorts,
         WellUsed(i, p), UsesOfPort(i, p) # {}, NEW c \in Decl[i][p].chans, c \notin Consumed(i, p)
  PROVE  \E r \in rows : RowsWith(i, p, c) = {r} /\ ~ IsConnected(r)
<1> DEFINE R == Remaining(i, p)
           RemRow(s) == Row(RemainderId(MainHandle(i, p), s), MainColumn(i, p), RunFrom(R, s), FALSE)
<1>1. c \in R /\ R \subseteq Nat
  BY DeclAssumption DEF Remaining, DeclaredPorts
<1>2. PICK s \in RunStarts(R) : c \in RunFrom(R, s)
  <2> HIDE DEF R
  <2> QED
    BY <1>1, RunsCover
<1>3. /\ <<i, p>>[1] = i /\ <<i, p>>[2] = p
      /\ MainHandle(i, p)[1] = i /\ MainHandle(i, p)[2] = p
  BY DEF MainHandle, HandleId
<1>4. <<i, p>> \in PartlyUsed
  <2>1. PICK e \in UsesOfPort(i, p) : RefAt(e).index # {}
    BY DEF WellUsed
  <2>2. Consumed(i, p) # {}
    BY <2>1 DEF Consumed, UsesOfPort
  <2> QED
    BY <1>3, <2>2 DEF PartlyUsed
<1>5. Decl[i][p].dir # "io"
  BY DEF WellUsed, Plain
<1>6. RemRow(s) \in rows
  <2> DEFINE y == <<s, MainColumn(i, p)>>
  <2>1. y \in RunStarts(R) \X ColumnsOf(i, p) /\ y[1] = s /\ y[2] = MainColumn(i, p)
    BY <1>2, <1>5, OneSide
  <2>2. RemRow(s) \in RemainderRows(i, p)
    <3> HIDE DEF y
    <3> QED
      BY <2>1 DEF RemainderRows
  <2> HIDE DEF RemRow
  <2>3. RemRow(s) \in UNION {RemainderRows(x[1], x[2]) : x \in PartlyUsed}
    BY <1>3, <1>4, <2>2
  <2> QED
    BY <2>3 DEF RowsExact
<1>7. /\ RemRow(s).id[1] = i /\ RemRow(s).id[2] = p /\ RemRow(s).id[4] = "rem"
      /\ RemRow(s).shows = RunFrom(R, s)
  BY <1>3 DEF Row, RemainderId
<1>8. ~ IsConnected(RemRow(s))
  <2> HIDE DEF RemRow
  <2> QED
    BY <1>7, EndDone DEF IsConnected, EndsAt
<1>9. ASSUME NEW q \in RowsWith(i, p, c) PROVE q = RemRow(s)
  <2>1. q \in rows /\ q.id[1] = i /\ q.id[2] = p /\ c \in q.shows /\ Decl[i][p].chans # {}
    BY DEF RowsWith
  <2>2. \A e \in UsesOfPort(i, p) : c \notin RefAt(e).index
    BY DEF Consumed, UsesOfPort
  <2>3. \/ \E t \in RunStarts(Remaining(i, p)) :
             /\ q = Row(RemainderId(MainHandle(i, p), t), MainColumn(i, p), RunFrom(Remaining(i, p), t), FALSE)
             /\ q.shows = RunFrom(Remaining(i, p), t) /\ q.id[4] = "rem"
        \/ UsesOfPort(i, p) = {} /\ q = MainRow(i, p)
        \/ \E e \in UsesOfPort(i, p) : q = UseRow(i, p, e) /\ q.shows = RefAt(e).index
    <3> HIDE DEF R, RemRow
    <3> QED
      BY <2>1, RowOfWellUsed
  <2>4. PICK t \in RunStarts(R) : q = RemRow(t) /\ q.shows = RunFrom(R, t)
    BY <2>1, <2>2, <2>3
  <2>5. t = s
    <3> HIDE DEF R
    <3> QED
      BY <1>1, <1>2, <2>1, <2>4, RunsApart
  <2> QED
    BY <2>4, <2>5
<1> HIDE DEF R, RemRow
<1>10. RemRow(s) \in RowsWith(i, p, c)
  BY <1>2, <1>6, <1>7 DEF RowsWith
<1> QED
  BY <1>6, <1>8, <1>9, <1>10

\* A port nobody uses keeps its one row, where no wire ends
LEMMA UnusedChannelOnce ==
  ASSUME IInv, RowsExact, pc = "done", NEW i, NEW p, <<i, p>> \in DeclaredPorts,
         WellUsed(i, p), UsesOfPort(i, p) = {}, NEW c \in Decl[i][p].chans
  PROVE  \E r \in rows : RowsWith(i, p, c) = {r} /\ ~ IsConnected(r)
<1> DEFINE m == MainHandle(i, p)
<1>1. Decl[i][p].dir # "io" /\ Decl[i][p].chans # {}
  BY DEF WellUsed, Plain
<1>2. m \notin MultiUse
  BY <1>1, OneSide DEF MultiUse, UsesOf
<1>3. Consumed(i, p) = {} /\ <<i, p>> \notin PartlyUsed
  <2>1. Consumed(i, p) = {}
    BY DEF Consumed, UsesOfPort
  <2>2. <<i, p>>[1] = i /\ <<i, p>>[2] = p
    OBVIOUS
  <2> QED
    BY <2>1, <2>2 DEF PartlyUsed
<1>4. /\ MainRow(i, p).id = m /\ MainRow(i, p).shows = Decl[i][p].chans
      /\ m[1] = i /\ m[2] = p /\ m[4] = "own"
  BY DEF MainRow, PortRow, Row, MainHandle, HandleId
<1>5. MainRow(i, p) \in rows
  <2>1. MainRow(i, p) \in NodeRows
    BY <1>1, OneSide
  <2>2. MainRow(i, p) \in SplitRows(MultiUse)
    BY <1>2, <1>4, <2>1 DEF SplitRows
  <2>3. Relabelled(MainRow(i, p)) = MainRow(i, p)
    BY <1>1, <1>3, RelabelledMain
  <2>4. MainRow(i, p) \in {Relabelled(q) : q \in SplitRows(MultiUse)}
    BY <2>2, <2>3
  <2> QED
    BY <2>4 DEF RowsExact
<1>6. ~ IsConnected(MainRow(i, p))
  BY <1>4, EndDone DEF IsConnected, EndsAt, UsesOfPort
<1>7. ASSUME NEW q \in RowsWith(i, p, c) PROVE q = MainRow(i, p)
  <2>1. q \in rows /\ q.id[1] = i /\ q.id[2] = p
    BY DEF RowsWith
  <2>2. \/ <<i, p>> \in PartlyUsed
        \/ MainHandle(i, p) \notin MultiUse /\ q = Relabelled(MainRow(i, p))
        \/ MainHandle(i, p) \in MultiUse
    BY <1>1, <2>1, MainRows
  <2> QED
    BY <1>1, <1>2, <1>3, <2>2, RelabelledMain
<1>8. MainRow(i, p) \in RowsWith(i, p, c)
  BY <1>4, <1>5 DEF RowsWith
<1> QED
  BY <1>5, <1>6, <1>7, <1>8

\* Every channel of a vector port is on one row, and the dot of that row is
\* lit exactly when a wire carries the channel
THEOREM EveryChannelOnce == Spec => []ChannelsShownOnce
<1>1. IInv /\ RowsExact => ChannelsShownOnce
  <2> SUFFICES ASSUME IInv, RowsExact, pc = "done", NEW x \in DeclaredPorts, WellUsed(x[1], x[2]),
                      NEW c \in Decl[x[1]][x[2]].chans
               PROVE  /\ Cardinality(RowsWith(x[1], x[2], c)) = 1
                      /\ \A r \in RowsWith(x[1], x[2], c) : IsConnected(r) <=> c \in Consumed(x[1], x[2])
    BY DEF ChannelsShownOnce, WellUsed, UsesOfPort, RowsWith
  <2>1. PICK i \in DOMAIN Decl : \E p \in DOMAIN Decl[i] : x = <<i, p>>
    BY DEF DeclaredPorts
  <2>2. PICK p \in DOMAIN Decl[i] : x = <<i, p>>
    BY <2>1
  <2>3. x[1] = i /\ x[2] = p /\ <<i, p>> \in DeclaredPorts
    BY <2>2
  <2>4. WellUsed(i, p) /\ c \in Decl[i][p].chans
    BY <2>3
  <2>5. \E r \in rows : RowsWith(i, p, c) = {r} /\ (IsConnected(r) <=> c \in Consumed(i, p))
    <3>1. CASE c \in Consumed(i, p)
      BY <2>3, <2>4, <3>1, UsedChannelOnce
    <3>2. CASE c \notin Consumed(i, p) /\ UsesOfPort(i, p) # {}
      BY <2>3, <2>4, <3>2, RemainingChannelOnce
    <3>3. CASE c \notin Consumed(i, p) /\ UsesOfPort(i, p) = {}
      BY <2>3, <2>4, <3>3, UnusedChannelOnce
    <3> QED
      BY <3>1, <3>2, <3>3
  <2> QED
    BY <2>3, <2>5, FS_Singleton
<1> QED
  BY <1>1, RowsAreExact, PTL
=============================================================================
