-------------------------- MODULE AutoResolveProofs --------------------------
(***************************************************************************)
(* The [auto] pass on every program and every port range: what it gives    *)
(* out is private, in range, ordered by connects before bridges and by     *)
(* the file within a kind, and what a channel pool would give out; a       *)
(* search that gives up has missed nothing, and every pair that is due an  *)
(* answer gets one.                                                        *)
(***************************************************************************)
EXTENDS AutoResolve, FiniteSetTheorems, TLAPS

LEMMA SidesTyped ==
  ASSUME TypeOK, NEW k \in DOMAIN pairs, NEW role \in Role
  PROVE  pairs[k] \in Pair /\ pairs[k][role] \in Side
<1>1. pairs[k] \in Pair
  BY DEF TypeOK
<1> QED BY <1>1 DEF Pair, Role

LEMMA CountType ==
  ASSUME NEW side \in Side PROVE InferCount(side) \in Nat
BY DEF InferCount, Side

\* The pair being resolved is one of the program's
LEMMA CurrentPair ==
  ASSUME TypeOK, NEW role \in Role, Asking(role)
  PROVE  /\ at \in DOMAIN pairs
         /\ pairs[at] \in Pair /\ pairs[at][role] \in Side
         /\ PortAsked(role) \in Port \cup Scalar \cup {Unbound}
         /\ CountAsked(role) \in Nat
<1>1. at \in DOMAIN pairs
  BY DEF TypeOK, Asking, Resolving
<1>2. pairs[at] \in Pair /\ pairs[at][role] \in Side /\ pairs[at][OtherRole(role)] \in Side
  <2>1. OtherRole(role) \in Role
    BY DEF OtherRole, Role
  <2> QED BY <1>1, <2>1, SidesTyped
<1>3. CountAsked(role) \in Nat
  BY <1>2, CountType DEF CountAsked
<1> QED BY <1>1, <1>2, <1>3 DEF PortAsked, Side

LEMMA ExplicitType == ASSUME TypeOK, NEW p PROVE Explicit(p) \in SUBSET Nat
<1>1. ASSUME NEW x \in Naming(p) PROVE Listed(pairs[x[1]][x[2]]) \subseteq Nat
  <2>1. pairs[x[1]][x[2]] \in Side
    BY SidesTyped DEF Naming
  <2> QED BY <2>1 DEF Listed, Side
<1> QED BY <1>1 DEF Explicit

-----------------------------------------------------------------------------
(* The inductive invariant.                                                *)

\* Before the scan nothing is known; after it the named channels are consumed
Scanned ==
  /\ phase = "scan" => resolutions = {} /\ consumed = [p \in Port |-> {}] /\ start = NoSearch
  /\ phase # "scan" => \A p \in Port : Explicit(p) \subseteq consumed[p]

\* Every block is below the cursor of its port, consumed, in range and unnamed
Granted ==
  \A r \in resolutions :
    /\ r.pair < at
    /\ r.channels \subseteq consumed[r.port]
    /\ r.channels \subseteq Lo[r.port] .. Hi[r.port]
    /\ r.channels \cap Explicit(r.port) = {}
    /\ \A c \in r.channels : c < cursor[r.port]

CursorInRange == \A p \in Port : cursor[p] >= Lo[p]

\* A search runs for the current pair, from the cursor on, and every candidate
\* it has left behind was not free
SearchRuns ==
  start # NoSearch =>
    \E role \in Role :
      /\ Asking(role) /\ PortAsked(role) \in Port
      /\ start >= cursor[PortAsked(role)]
      /\ \A s \in cursor[PortAsked(role)] .. start - 1 :
           ~ Free(PortAsked(role), s, CountAsked(role))

Apart ==
  \A q, r \in resolutions :
    q.port = r.port =>
      /\ q # r => q.channels \cap r.channels = {}
      /\ q.pair < r.pair => \A c \in q.channels, d \in r.channels : c < d

IInv == TypeOK /\ Scanned /\ Granted /\ CursorInRange /\ SearchRuns /\ Apart

LEMMA InitOK == Init => IInv
BY Ranges, ProgramsTyped
   DEF Init, IInv, TypeOK, Scanned, Granted, CursorInRange, SearchRuns, Apart

\* The part of the invariant a step that only moves on keeps
LEMMA MoveOn ==
  ASSUME IInv, phase = "resolve",
         at' \in {at, at + 1}, phase' \in {"resolve", "done"},
         UNCHANGED <<pairs, consumed, cursor, resolutions>>
  PROVE  /\ Scanned' /\ Granted' /\ CursorInRange' /\ Apart'
         /\ pairs' \in Seq(Pair) /\ phase' \in {"scan", "resolve", "done"} /\ at' \in Nat \ {0}
         /\ consumed' \in [Port -> SUBSET Nat] /\ cursor' \in [Port -> Nat]
         /\ resolutions' \subseteq
              [pair : Nat, span : Span, side : Role, port : Port, channels : SUBSET Nat]
<1> USE DEF IInv, TypeOK
<1>1. \A p : Explicit(p)' = Explicit(p)
  BY DEF Explicit, Naming, Listed
<1>2. Scanned' /\ CursorInRange' /\ Apart'
  BY <1>1 DEF Scanned, CursorInRange, Apart
<1>3. Granted'
  BY <1>1 DEF Granted
<1> QED BY <1>2, <1>3

LEMMA SearchFacts ==
  ASSUME IInv, NEW role \in Role, Searching(role)
  PROVE  /\ Asking(role) /\ PortAsked(role) \in Port /\ CountAsked(role) \in Nat
         /\ start \in Nat /\ start >= cursor[PortAsked(role)]
         /\ \A s \in cursor[PortAsked(role)] .. start - 1 :
              ~ Free(PortAsked(role), s, CountAsked(role))
<1>1. PICK other \in Role :
         /\ Asking(other) /\ PortAsked(other) \in Port
         /\ start >= cursor[PortAsked(other)]
         /\ \A s \in cursor[PortAsked(other)] .. start - 1 :
              ~ Free(PortAsked(other), s, CountAsked(other))
  BY DEF IInv, SearchRuns, Searching
<1>2. other = role
  BY <1>1 DEF Searching, Asking
<1> QED BY <1>1, <1>2, CurrentPair DEF IInv, TypeOK, Searching

LEMMA ReportOK ==
  ASSUME IInv, phase = "resolve", NEW code \in {"A02", "A03", "A04", "A05"}, Report(code)
  PROVE  IInv'
<1>1. errors' \subseteq [pair : Nat, code : {"A02", "A03", "A04", "A05"}]
  BY DEF Report, IInv, TypeOK
<1>2. start' = NoSearch /\ at' = at + 1 /\ phase' = phase
      /\ UNCHANGED <<pairs, consumed, cursor, resolutions>>
  BY DEF Report
<1>3. SearchRuns'
  BY <1>2 DEF SearchRuns
<1> QED BY <1>1, <1>2, <1>3, MoveOn DEF IInv, TypeOK

LEMMA PrescanOK == ASSUME IInv, Prescan PROVE IInv'
<1> USE DEF IInv, TypeOK
<1>1. \A p : Explicit(p)' = Explicit(p)
  BY DEF Prescan, Explicit, Naming, Listed
<1>2. consumed' \in [Port -> SUBSET Nat]
  BY ExplicitType DEF Prescan
<1>3. resolutions' = {} /\ start' = NoSearch
  BY DEF Prescan, Scanned
<1>4. Scanned'
  BY <1>1 DEF Prescan, Scanned
<1>5. TypeOK'
  BY <1>2, <1>3 DEF Prescan
<1>6. Granted' /\ SearchRuns' /\ Apart'
  BY <1>3 DEF Granted, SearchRuns, Apart
<1> QED BY <1>4, <1>5, <1>6 DEF Prescan, CursorInRange

LEMMA PassOverOK == ASSUME IInv, PassOver PROVE IInv'
<1>1. start = NoSearch
  <2> SUFFICES ASSUME start # NoSearch PROVE FALSE
    OBVIOUS
  <2>1. PICK role \in Role : Asking(role) /\ PortAsked(role) \in Port
    BY DEF IInv, SearchRuns
  <2> QED BY <2>1, Distinct DEF PassOver, Asking, PortAsked
<1>2. /\ phase = "resolve" /\ phase' = phase /\ at' = at + 1
      /\ UNCHANGED <<pairs, consumed, cursor, resolutions, errors, start>>
  BY DEF PassOver, Resolving
<1>3. SearchRuns'
  BY <1>1, <1>2 DEF SearchRuns
<1> QED BY <1>2, <1>3, MoveOn DEF IInv, TypeOK

LEMMA SearchStepOK ==
  ASSUME IInv, BeginSearch \/ Probe PROVE IInv'
<1>1. /\ phase = "resolve" /\ phase' = phase /\ at' = at
      /\ UNCHANGED <<pairs, consumed, cursor, resolutions, errors>>
  BY DEF BeginSearch, Probe, Searching, Asking, Resolving
<1>2. /\ \A role \in Role : (Asking(role) <=> Asking(role)') /\ PortAsked(role)' = PortAsked(role)
                            /\ CountAsked(role)' = CountAsked(role)
      /\ \A p, s, n : Free(p, s, n)' <=> Free(p, s, n)
  BY <1>1 DEF Asking, Resolving, PortAsked, CountAsked, Free
<1>3. CASE BeginSearch
  <2>1. PICK role \in Role : Asking(role) /\ PortAsked(role) \in Port /\ start' = cursor[PortAsked(role)]
    BY <1>3 DEF BeginSearch, PortAsked
  <2>2. start' \in Nat
    BY <2>1 DEF IInv, TypeOK
  <2>3. SearchRuns'
    BY <1>1, <1>2, <2>1, <2>2 DEF SearchRuns
  <2> QED BY <1>1, <2>2, <2>3, MoveOn DEF IInv, TypeOK
<1>4. CASE Probe
  <2>1. PICK role \in Role : /\ Searching(role) /\ start' = start + 1
                             /\ ~ Free(PortAsked(role), start, CountAsked(role))
    BY <1>4 DEF Probe
  <2>2. /\ Asking(role) /\ PortAsked(role) \in Port
        /\ start \in Nat /\ start >= cursor[PortAsked(role)] /\ cursor[PortAsked(role)] \in Nat
        /\ \A s \in cursor[PortAsked(role)] .. start - 1 :
             ~ Free(PortAsked(role), s, CountAsked(role))
    BY <2>1, SearchFacts DEF IInv, TypeOK
  <2>3. \A s \in cursor[PortAsked(role)] .. start : ~ Free(PortAsked(role), s, CountAsked(role))
    BY <2>1, <2>2
  <2>4. SearchRuns'
    BY <1>1, <1>2, <2>1, <2>2, <2>3 DEF SearchRuns
  <2> QED BY <1>1, <2>1, <2>2, <2>4, MoveOn DEF IInv, TypeOK
<1> QED BY <1>3, <1>4

\* What a successful search gives out
LEMMA FoundFacts ==
  ASSUME IInv, NEW role \in Role, Searching(role),
         ~ Beyond(PortAsked(role), start, CountAsked(role)),
         Free(PortAsked(role), start, CountAsked(role))
  PROVE  LET p == PortAsked(role)
             B == Block(start, CountAsked(role))
         IN  /\ p \in Port /\ B \subseteq Nat /\ B \subseteq Lo[p] .. Hi[p]
             /\ B \cap consumed[p] = {}
             /\ \A c \in B : c >= cursor[p] /\ c < start + CountAsked(role)
             /\ start + CountAsked(role) \in Nat /\ start + CountAsked(role) >= cursor[p]
<1>1. /\ PortAsked(role) \in Port /\ CountAsked(role) \in Nat /\ start \in Nat
      /\ start >= cursor[PortAsked(role)]
  BY SearchFacts
<1>2. /\ cursor[PortAsked(role)] \in Nat /\ cursor[PortAsked(role)] >= Lo[PortAsked(role)]
      /\ Lo[PortAsked(role)] \in Nat /\ Hi[PortAsked(role)] \in Nat
  BY <1>1, Ranges DEF IInv, TypeOK, CursorInRange
<1> QED BY <1>1, <1>2 DEF Beyond, Free, Block

LEMMA FoundOK == ASSUME IInv, Found PROVE IInv'
<1> PICK role \in Role :
      /\ Searching(role)
      /\ ~ Beyond(PortAsked(role), start, CountAsked(role))
      /\ Free(PortAsked(role), start, CountAsked(role))
      /\ consumed' = [consumed EXCEPT ![PortAsked(role)] = @ \cup Block(start, CountAsked(role))]
      /\ cursor' = [cursor EXCEPT ![PortAsked(role)] = start + CountAsked(role)]
      /\ resolutions' = resolutions \cup {Resolution(role)}
      /\ at' = at + 1 /\ start' = NoSearch
      /\ UNCHANGED <<pairs, phase, errors>>
  BY DEF Found
<1> DEFINE p == PortAsked(role)
           B == Block(start, CountAsked(role))
           new == Resolution(role)
<1>1. /\ p \in Port /\ B \subseteq Nat /\ B \subseteq Lo[p] .. Hi[p] /\ B \cap consumed[p] = {}
      /\ \A c \in B : c >= cursor[p] /\ c < start + CountAsked(role)
      /\ start + CountAsked(role) \in Nat /\ start + CountAsked(role) >= cursor[p]
  BY FoundFacts
<1>2. /\ new.pair = at /\ new.port = p /\ new.channels = B /\ new.side = role
      /\ new.span = pairs[at].span
  BY DEF Resolution
<1>3. phase = "resolve" /\ at \in Nat \ {0} /\ pairs[at] \in Pair
  BY CurrentPair DEF Searching, Asking, Resolving, IInv, TypeOK
<1>4. new \in [pair : Nat, span : Span, side : Role, port : Port, channels : SUBSET Nat]
  BY <1>1, <1>3 DEF Resolution, Pair
<1>5. /\ consumed'[p] = consumed[p] \cup B /\ cursor'[p] = start + CountAsked(role)
      /\ \A q \in Port : q # p => consumed'[q] = consumed[q] /\ cursor'[q] = cursor[q]
  BY <1>1 DEF IInv, TypeOK
<1>6. \A q \in Port : consumed[q] \subseteq consumed'[q] /\ cursor[q] \in Nat /\ cursor'[q] >= cursor[q]
  BY <1>1, <1>5 DEF IInv, TypeOK
<1>7. TypeOK'
  BY <1>1, <1>3, <1>4 DEF IInv, TypeOK
<1>8. \A q : Explicit(q)' = Explicit(q)
  BY DEF Explicit, Naming, Listed
<1>9. Explicit(p) \subseteq consumed[p]
  BY <1>1, <1>3 DEF IInv, Scanned
<1> HIDE DEF p, B, new
<1>10. Scanned'
  BY <1>3, <1>6, <1>8 DEF IInv, Scanned
<1>11. Granted'
  <2>1. ASSUME NEW r \in resolutions
        PROVE  /\ r.pair < at' /\ r.channels \subseteq consumed'[r.port]
               /\ r.channels \subseteq Lo[r.port] .. Hi[r.port]
               /\ r.channels \cap Explicit(r.port) = {}
               /\ \A c \in r.channels : c < cursor'[r.port]
    <3>1. r.port \in Port /\ r.pair \in Nat /\ r.channels \subseteq Nat
      BY DEF IInv, TypeOK
    <3>2. cursor[r.port] \in Nat /\ cursor'[r.port] \in Nat /\ cursor'[r.port] >= cursor[r.port]
          /\ consumed[r.port] \subseteq consumed'[r.port]
      BY <1>6, <1>7, <3>1 DEF TypeOK
    <3> QED BY <1>3, <3>1, <3>2 DEF IInv, Granted
  <2>2. /\ new.pair < at' /\ new.channels \subseteq consumed'[new.port]
        /\ new.channels \subseteq Lo[new.port] .. Hi[new.port]
        /\ new.channels \cap Explicit(new.port) = {}
        /\ \A c \in new.channels : c < cursor'[new.port]
    <3>1. new.pair < at'
      BY <1>2, <1>3
    <3>2. B \subseteq consumed'[p]
      BY <1>5
    <3>3. B \cap Explicit(p) = {}
      BY <1>1, <1>9
    <3>4. \A c \in B : c < cursor'[p]
      BY <1>1, <1>5
    <3> QED BY <1>1, <1>2, <3>1, <3>2, <3>3, <3>4
  <2>3. resolutions' = resolutions \cup {new}
    BY DEF new
  <2> QED BY <1>8, <2>1, <2>2, <2>3 DEF Granted
<1>12. CursorInRange'
  <2> SUFFICES ASSUME NEW q \in Port PROVE cursor'[q] >= Lo[q]
    BY DEF CursorInRange
  <2> QED BY <1>6, <1>7, Ranges DEF IInv, CursorInRange, TypeOK
<1>13. Apart'
  <2>1. ASSUME NEW r \in resolutions, r.port = p
        PROVE  /\ r.channels \cap B = {} /\ r.pair < new.pair
               /\ \A c \in r.channels, d \in B : c < d
    <3>1. r.channels \subseteq consumed[p] /\ (\A c \in r.channels : c < cursor[p]) /\ r.pair < at
      BY <2>1 DEF IInv, Granted
    <3>2. r.channels \subseteq Nat /\ cursor[p] \in Nat
      BY <1>1 DEF IInv, TypeOK
    <3> QED BY <1>1, <1>2, <3>1, <3>2
  <2>2. ASSUME NEW r \in resolutions PROVE r.pair \in Nat
    BY DEF IInv, TypeOK
  <2> SUFFICES ASSUME NEW q \in resolutions', NEW r \in resolutions', q.port = r.port
               PROVE  /\ q # r => q.channels \cap r.channels = {}
                      /\ q.pair < r.pair => \A c \in q.channels, d \in r.channels : c < d
    BY DEF Apart
  <2>3. CASE q \in resolutions /\ r \in resolutions
    BY <2>3 DEF IInv, Apart
  <2>4. CASE q \in resolutions /\ r = new
    BY <1>2, <2>1, <2>4
  <2>5. CASE q = new /\ r \in resolutions
    BY <1>2, <1>3, <2>1, <2>2, <2>5
  <2>6. CASE q = new /\ r = new
    BY <1>2, <1>3, <2>6
  <2> QED BY <2>3, <2>4, <2>5, <2>6 DEF new
<1>14. SearchRuns'
  BY DEF SearchRuns
<1> QED BY <1>7, <1>10, <1>11, <1>12, <1>13, <1>14 DEF IInv

LEMMA ConvertOK == ASSUME IInv, Convert PROVE IInv'
<1>1. start = NoSearch
  BY DEF IInv, SearchRuns, Convert, Asking, Resolving, TypeOK
<1>2. /\ phase = "resolve" /\ phase' = "done" /\ at' = at
      /\ UNCHANGED <<pairs, consumed, cursor, resolutions, errors, start>>
  BY DEF Convert
<1>3. SearchRuns'
  BY <1>1, <1>2 DEF SearchRuns
<1> QED BY <1>2, <1>3, MoveOn DEF IInv, TypeOK

LEMMA StepOK == IInv /\ [Next]_vars => IInv'
<1> SUFFICES ASSUME IInv, [Next]_vars PROVE IInv'
  OBVIOUS
<1>1. CASE BothAuto
  BY <1>1, ReportOK DEF BothAuto, Resolving
<1>2. CASE ScalarPort
  BY <1>2, ReportOK DEF ScalarPort, Asking, Resolving
<1>3. CASE Exhausted
  BY <1>3, ReportOK DEF Exhausted, Searching, Asking, Resolving
<1>4. CASE UNCHANGED vars
  <2>1. /\ \A p : Explicit(p)' = Explicit(p)
        /\ \A role : (Asking(role) <=> Asking(role)') /\ PortAsked(role)' = PortAsked(role)
                     /\ CountAsked(role)' = CountAsked(role)
        /\ \A p, s, n : Free(p, s, n)' <=> Free(p, s, n)
    BY <1>4 DEF vars, Explicit, Naming, Listed, Asking, Resolving, PortAsked, CountAsked, Free
  <2> QED BY <1>4, <2>1 DEF vars, IInv, TypeOK, Scanned, Granted, CursorInRange, SearchRuns, Apart
<1> QED BY <1>1, <1>2, <1>3, <1>4, PrescanOK, PassOverOK, SearchStepOK, FoundOK, ConvertOK DEF Next

LEMMA Invariant == Spec => []IInv
BY InitOK, StepOK, PTL DEF Spec

-----------------------------------------------------------------------------
(* Theorems.                                                               *)

\* The tables of the pass keep their shape for every program and range
THEOREM TypeCorrect == Spec => []TypeOK
<1>1. IInv => TypeOK
  BY DEF IInv
<1> QED BY <1>1, Invariant, PTL

\* For every program and every range, no channel is given out twice and none a
\* statement names itself is given out at all
THEOREM ChannelsPrivate == Spec => []NoSharedChannel
<1>1. IInv => NoSharedChannel
  BY DEF IInv, Granted, Apart, NoSharedChannel
<1> QED BY <1>1, Invariant, PTL

\* Every channel that is given out lies in its port's declared range
THEOREM ChannelsInRange == Spec => []WithinRange
<1>1. IInv => WithinRange
  BY DEF IInv, Granted, WithinRange
<1> QED BY <1>1, Invariant, PTL

\* Each block carries the place of the statement it was given to
Placed ==
  /\ pairs \in Programs
  /\ \A r \in resolutions : r.pair \in DOMAIN pairs /\ r.span = pairs[r.pair].span

LEMMA StepPlaced == IInv /\ Placed /\ [Next]_vars => Placed'
<1> SUFFICES ASSUME IInv, Placed, [Next]_vars PROVE Placed'
  OBVIOUS
<1>1. pairs' = pairs
  BY DEF Next, vars, Prescan, PassOver, BothAuto, ScalarPort, Report, BeginSearch, Probe, Found,
         Exhausted, Convert
<1>2. CASE Found
  <2> PICK role \in Role : Searching(role) /\ resolutions' = resolutions \cup {Resolution(role)}
    BY <1>2 DEF Found
  <2>1. at \in DOMAIN pairs
    BY CurrentPair DEF Searching, IInv
  <2>2. Resolution(role).pair = at /\ Resolution(role).span = pairs[at].span
    BY DEF Resolution
  <2> QED BY <1>1, <2>1, <2>2 DEF Placed
<1>3. CASE ~ Found
  <2>1. resolutions' = resolutions
    BY <1>3 DEF Next, vars, Prescan, PassOver, BothAuto, ScalarPort, Report, BeginSearch, Probe,
                Exhausted, Convert
  <2> QED BY <1>1, <2>1 DEF Placed
<1> QED BY <1>2, <1>3

\* What comes before is visited before
LEMMA BeforeIsVisitedFirst ==
  ASSUME IInv, Placed, NEW q \in resolutions, NEW r \in resolutions, Before(q, r)
  PROVE  q.pair < r.pair
<1>1. /\ pairs \in Programs /\ q.pair \in DOMAIN pairs /\ r.pair \in DOMAIN pairs
      /\ q.span = pairs[q.pair].span /\ r.span = pairs[r.pair].span
  BY DEF Placed
<1>2. q.pair \in Nat /\ r.pair \in Nat /\ q.span \in Nat /\ r.span \in Nat
  BY VisitingOrder DEF IInv, TypeOK
<1>3. CASE pairs[q.pair].stmt = pairs[r.pair].stmt /\ q.span < r.span
  <2>1. ~ r.pair < q.pair
    <3> SUFFICES ASSUME r.pair < q.pair PROVE r.span <= q.span
      BY <1>2, <1>3
    <3> QED BY <1>1, <1>3, VisitingOrder
  <2>2. q.pair # r.pair
    BY <1>1, <1>2, <1>3
  <2> QED BY <1>2, <2>1, <2>2
<1>4. CASE pairs[q.pair].stmt = pairs[r.pair].stmt /\ ~ q.span < r.span
  BY <1>4 DEF Before, Above
<1>5. CASE pairs[q.pair].stmt # pairs[r.pair].stmt
  <2>1. pairs[q.pair].stmt = "connect"
    BY <1>5 DEF Before
  <2>2. ~ r.pair < q.pair
    BY <1>1, <1>5, <2>1, VisitingOrder
  <2>3. q.pair # r.pair
    BY <1>5
  <2> QED BY <1>2, <2>2, <2>3
<1> QED BY <1>3, <1>4, <1>5

\* For every program and every range: on one port a connect has lower channels
\* than a bridge, and of two statements of one kind the one that stands first in
\* the file
THEOREM BlocksInOrder == Spec => []AllocationOrder
<1>1. Init => Placed
  BY DEF Init, Placed
<1>2. Spec => [](IInv /\ Placed)
  BY <1>1, InitOK, StepOK, StepPlaced, PTL DEF Spec
<1>3. IInv /\ Placed => AllocationOrder
  <2> SUFFICES ASSUME IInv, Placed, NEW q \in resolutions, NEW r \in resolutions, q.port = r.port, Before(q, r)
               PROVE  Below(q, r)
    BY DEF AllocationOrder
  <2>1. q.pair < r.pair
    BY BeforeIsVisitedFirst
  <2> QED BY <2>1 DEF IInv, Apart, Below
<1> QED BY <1>2, <1>3, PTL

\* A search that ends in A04 or A05 has tried every block from the cursor to the
\* end of the range
THEOREM SearchIsExhaustive == Spec => NoBlockMissed
<1> DEFINE A == \A role \in Role :
       (Searching(role) /\ errors' # errors /\ CountAsked(role) > 0) =>
         ~ RefusedInVain(PortAsked(role), CountAsked(role))
<1>1. IInv /\ [Next]_vars => [A]_vars
  <2> SUFFICES ASSUME IInv, Next, NEW role \in Role, Searching(role), errors' # errors,
                      CountAsked(role) > 0, RefusedInVain(PortAsked(role), CountAsked(role))
               PROVE  FALSE
    OBVIOUS
  <2> DEFINE p == PortAsked(role)
             n == CountAsked(role)
  <2>1. /\ Asking(role) /\ p \in Port /\ n \in Nat /\ start \in Nat /\ start >= cursor[p]
        /\ \A s \in cursor[p] .. start - 1 : ~ Free(p, s, n)
    BY SearchFacts
  <2>2. cursor[p] \in Nat /\ Hi[p] \in Nat
    BY <2>1, Ranges DEF IInv, TypeOK
  <2>3. Exhausted
    <3>1. ~ BothAuto
      BY <2>1 DEF BothAuto, Asking, Role
    <3>2. ~ ScalarPort
      <4> SUFFICES ASSUME NEW other \in Role, Asking(other), pairs[at][other].port \in Scalar
                   PROVE  FALSE
        BY DEF ScalarPort
      <4>1. other = role
        BY <2>1 DEF Asking
      <4> QED BY <2>1, <4>1, Distinct DEF PortAsked
    <3> QED BY <3>1, <3>2 DEF Next, Prescan, PassOver, BeginSearch, Probe, Found, Convert
  <2>4. PICK other \in Role : Searching(other) /\ Beyond(PortAsked(other), start, CountAsked(other))
    BY <2>3 DEF Exhausted
  <2>5. Beyond(p, start, n)
    <3>1. other = role
      BY <2>1, <2>4 DEF Searching, Asking
    <3> QED BY <2>4, <3>1
  <2>6. PICK s \in cursor[p] .. Hi[p] : Block(s, n) \subseteq cursor[p] .. Hi[p] /\ Free(p, s, n)
    BY DEF RefusedInVain
  <2>7. s \in Nat /\ s + n - 1 <= Hi[p]
    <3>1. s + n - 1 \in Block(s, n)
      BY <2>1, <2>2, <2>6 DEF Block
    <3> QED BY <2>1, <2>2, <2>6, <3>1
  <2>8. s < start
    BY <2>1, <2>2, <2>5, <2>6, <2>7 DEF Beyond
  <2> QED BY <2>1, <2>2, <2>6, <2>8
<1> QED BY <1>1, Invariant, PTL DEF Spec, NoBlockMissed

\* The pass implements the pool: what is named is reserved before anything is
\* given out, and every block given out is contiguous, in range and unused
THEOREM ImplementsPool == Spec => PoolSpec
<1>1. Init => Pool!Init
  BY DEF Init, Pool!Init
<1>2. IInv /\ [Next]_vars => [Pool!Next]_(Pool!vars)
  <2> SUFFICES ASSUME IInv, [Next]_vars PROVE Pool!Next \/ UNCHANGED Pool!vars
    OBVIOUS
  <2>1. CASE Prescan
    <3>1. resolutions = {} /\ consumed = [p \in Port |-> {}]
      BY <2>1 DEF Prescan, IInv, Scanned
    <3>2. consumed' \in [Port -> SUBSET Nat]
      BY <2>1, ExplicitType DEF Prescan, IInv
    <3>3. Pool!Reserve
      BY <2>1, <3>1, <3>2 DEF Prescan, Pool!Reserve
    <3> QED BY <3>3 DEF Pool!Next
  <2>2. CASE Found
    <3> PICK role \in Role :
          /\ Searching(role)
          /\ ~ Beyond(PortAsked(role), start, CountAsked(role))
          /\ Free(PortAsked(role), start, CountAsked(role))
          /\ consumed' = [consumed EXCEPT ![PortAsked(role)] = @ \cup Block(start, CountAsked(role))]
          /\ resolutions' = resolutions \cup {Resolution(role)}
      BY <2>2 DEF Found
    <3> DEFINE g == Resolution(role)
    <3>1. g.port = PortAsked(role) /\ g.channels = Block(start, CountAsked(role))
      BY DEF Resolution
    <3>2. /\ g.port \in Port /\ g.channels \subseteq Lo[g.port] .. Hi[g.port]
          /\ g.channels \cap consumed[g.port] = {}
      BY <3>1, FoundFacts
    <3>3. Pool!Contiguous(g.channels)
      <4>1. start \in Nat /\ CountAsked(role) \in Nat
        BY SearchFacts
      <4> QED BY <3>1, <4>1 DEF Pool!Contiguous, Block
    <3>4. /\ consumed' = [consumed EXCEPT ![g.port] = @ \cup g.channels]
          /\ resolutions' = resolutions \cup {g} /\ g \in resolutions'
      BY <3>1
    <3> HIDE DEF g
    <3>5. Pool!Grant
      BY <3>2, <3>3, <3>4 DEF Pool!Grant
    <3> QED BY <3>5 DEF Pool!Next
  <2>3. CASE ~ Prescan /\ ~ Found
    BY <2>3 DEF Next, vars, PassOver, BothAuto, ScalarPort, Exhausted, Report, BeginSearch, Probe,
                Convert, Pool!vars
  <2> QED BY <2>1, <2>2, <2>3
<1> QED BY <1>1, <1>2, Invariant, PTL DEF Spec, PoolSpec, Pool!Spec

-----------------------------------------------------------------------------
(* Each pair has its answer when the pass has gone past it, and none       *)
(* before.                                                                 *)

Got(k) == {r \in resolutions : r.pair = k}
Told(k) == {e \in errors : e.pair = k}

\* A pair that asks for channels of a port that is found, or asks twice
Due(k) == \E role \in AutoRoles(pairs[k]) : AutoRoles(pairs[k]) = Role \/ pairs[k][role].port # Unbound

One(S) == \E x : S = {x}

AnsweredOnce(k) ==
  IF Due(k) THEN \/ One(Got(k)) /\ Told(k) = {}
                 \/ Got(k) = {} /\ One(Told(k))
            ELSE Got(k) = {} /\ Told(k) = {}

Answers ==
  /\ phase = "scan" => errors = {}
  /\ \A r \in resolutions \cup errors : r.pair \in Nat /\ r.pair < at
  /\ \A k \in DOMAIN pairs : k < at => AnsweredOnce(k)
  /\ phase = "done" => at > Len(pairs)

LEMMA InitAnswers == Init => Answers
<1> SUFFICES ASSUME Init PROVE Answers
  OBVIOUS
<1>1. pairs \in Seq(Pair)
  BY ProgramsTyped DEF Init
<1> QED
  BY <1>1 DEF Init, Answers

\* A step past the current pair leaves the answers of the others alone
LEMMA MovesPast ==
  ASSUME IInv, Answers, Resolving, at' = at + 1, UNCHANGED <<pairs, phase>>,
         resolutions \subseteq resolutions', errors \subseteq errors',
         \A r \in resolutions' : r \notin resolutions => r.pair = at,
         \A r \in errors' : r \notin errors => r.pair = at,
         \A k : k = at => AnsweredOnce(k)'
  PROVE  Answers'
<1>1. at \in Nat /\ pairs \in Seq(Pair)
  BY DEF IInv, TypeOK
<1>2. \A r \in (resolutions \cup errors)' : r.pair \in Nat /\ r.pair < at'
  BY <1>1 DEF Answers
<1>3. ASSUME NEW k \in DOMAIN pairs, k < at PROVE AnsweredOnce(k)'
  <2>1. AnsweredOnce(k)
    BY <1>3 DEF Answers
  <2>2. Got(k)' = Got(k) /\ Told(k)' = Told(k)
    BY <1>1, <1>3 DEF Got, Told
  <2>3. Due(k)' <=> Due(k)
    BY DEF Due, AutoRoles
  <2> QED
    BY <2>1, <2>2, <2>3 DEF AnsweredOnce
<1>4. \A k \in DOMAIN pairs : k < at' => AnsweredOnce(k)'
  BY <1>1, <1>3
<1> QED
  BY <1>2, <1>4 DEF Answers, Resolving

\* Nothing is said of a pair before its turn
LEMMA NotYet ==
  ASSUME IInv, Answers
  PROVE  Got(at) = {} /\ Told(at) = {}
<1>1. at \in Nat
  BY DEF IInv, TypeOK
<1> QED
  BY <1>1 DEF Answers, Got, Told

\* The roles of a pair with one [auto]
LEMMA AskingDue ==
  ASSUME NEW role \in Role, Asking(role)
  PROVE  Due(at) <=> PortAsked(role) # Unbound
<1>1. AutoRoles(pairs[at]) = {role}
  BY DEF Asking
<1>2. {role} # Role
  BY DEF Role
<1> QED
  BY <1>1, <1>2 DEF Due, PortAsked

LEMMA ReportAnswers ==
  ASSUME IInv, Answers, Resolving, Due(at), NEW code, Report(code)
  PROVE  Answers'
<1> DEFINE e == [pair |-> at, code |-> code]
<1>1. /\ errors' = errors \cup {e} /\ resolutions' = resolutions /\ e.pair = at
      /\ at' = at + 1 /\ UNCHANGED <<pairs, phase>>
  BY DEF Report
<1> HIDE DEF e
<1>2. Got(at) = {} /\ Told(at) = {}
  BY NotYet
<1>3. \A k : k = at => Got(k)' = {} /\ Told(k)' = {e}
  BY <1>1, <1>2 DEF Got, Told
<1>4. \A k : k = at => AnsweredOnce(k)'
  BY <1>1, <1>3 DEF AnsweredOnce, One, Due, AutoRoles
<1> QED
  BY <1>1, <1>4, MovesPast

LEMMA FoundAnswers == ASSUME IInv, Answers, Found PROVE Answers'
<1> PICK role \in Role :
      /\ Searching(role)
      /\ resolutions' = resolutions \cup {Resolution(role)}
      /\ at' = at + 1
      /\ UNCHANGED <<pairs, phase, errors>>
  BY DEF Found
<1>1. Resolving /\ PortAsked(role) \in Port /\ Asking(role)
  BY SearchFacts DEF Searching, Asking
<1>2. Due(at)
  BY <1>1, AskingDue, Distinct
<1> DEFINE new == Resolution(role)
<1>3. new.pair = at /\ resolutions' = resolutions \cup {new}
  BY DEF Resolution
<1> HIDE DEF new
<1>4. Got(at) = {} /\ Told(at) = {}
  BY NotYet
<1>5. \A k : k = at => Got(k)' = {new} /\ Told(k)' = {}
  BY <1>3, <1>4 DEF Got, Told
<1>6. \A k : k = at => AnsweredOnce(k)'
  BY <1>2, <1>5 DEF AnsweredOnce, One, Due, AutoRoles
<1> QED
  BY <1>1, <1>3, <1>6, MovesPast

LEMMA PassOverAnswers == ASSUME IInv, Answers, PassOver PROVE Answers'
<1>1. /\ Resolving /\ at' = at + 1
      /\ UNCHANGED <<pairs, phase, resolutions, errors>>
  BY DEF PassOver
<1>2. ~ Due(at)
  <2>1. CASE AutoRoles(pairs[at]) = {}
    BY <2>1 DEF Due
  <2>2. CASE \E role \in Role : Asking(role) /\ pairs[at][role].port = Unbound
    BY <2>2, AskingDue DEF PortAsked
  <2> QED
    BY <2>1, <2>2 DEF PassOver
<1>3. Got(at) = {} /\ Told(at) = {}
  BY NotYet
<1>4. \A k : k = at => Got(k)' = {} /\ Told(k)' = {} /\ ~ Due(k)'
  BY <1>1, <1>2, <1>3 DEF Got, Told, Due, AutoRoles
<1>5. \A k : k = at => AnsweredOnce(k)'
  BY <1>4 DEF AnsweredOnce
<1> QED
  BY <1>1, <1>5, MovesPast

LEMMA SameAnswers ==
  ASSUME Answers, UNCHANGED <<pairs, at, resolutions, errors>>,
         phase' = "scan" => phase = "scan", phase' = "done" => phase = "done" \/ at > Len(pairs)
  PROVE  Answers'
<1>1. \A k : AnsweredOnce(k)' <=> AnsweredOnce(k)
  BY DEF AnsweredOnce, Got, Told, Due, AutoRoles
<1> QED
  BY <1>1 DEF Answers

LEMMA StepAnswers == IInv /\ Answers /\ [Next]_vars => Answers'
<1> SUFFICES ASSUME IInv, Answers, [Next]_vars PROVE Answers'
  OBVIOUS
<1>1. CASE Prescan \/ BeginSearch \/ Probe \/ Convert \/ UNCHANGED vars
  <2>1. /\ UNCHANGED <<pairs, at, resolutions, errors>>
        /\ phase' = "scan" => phase = "scan"
        /\ phase' = "done" => phase = "done" \/ at > Len(pairs)
    BY <1>1 DEF Prescan, BeginSearch, Probe, Convert, vars
  <2> QED
    BY <2>1, SameAnswers
<1>2. CASE BothAuto
  <2>1. Due(at)
    BY <1>2 DEF BothAuto, Due, Role
  <2> QED
    BY <1>2, <2>1, ReportAnswers DEF BothAuto
<1>3. CASE ScalarPort
  <2>1. PICK role \in Role : Asking(role) /\ PortAsked(role) \in Scalar /\ Report("A03")
    BY <1>3 DEF ScalarPort, PortAsked
  <2>2. Due(at)
    BY <2>1, AskingDue, Distinct
  <2> QED
    BY <2>1, <2>2, ReportAnswers DEF Asking
<1>4. CASE Exhausted
  <2>1. PICK role \in Role :
          /\ Searching(role)
          /\ Report(IF Cardinality(FreeChannels(PortAsked(role))) >= CountAsked(role) THEN "A05" ELSE "A04")
    BY <1>4 DEF Exhausted
  <2>2. Asking(role) /\ PortAsked(role) \in Port
    BY <2>1, SearchFacts
  <2>3. Due(at)
    BY <2>2, AskingDue, Distinct
  <2> QED
    BY <2>1, <2>2, <2>3, ReportAnswers DEF Asking
<1> QED
  BY <1>1, <1>2, <1>3, <1>4, FoundAnswers, PassOverAnswers DEF Next

\* Every [auto] has exactly one answer when the pass is through, whatever the
\* program: its channels or its error, and none when its port is not found
THEOREM EveryAutoHasOneAnswer == Spec => []EveryAutoAnswered
<1>1. Spec => [](IInv /\ Answers)
  BY InitOK, InitAnswers, StepOK, StepAnswers, PTL DEF Spec
<1>2. IInv /\ Answers => EveryAutoAnswered
  <2> SUFFICES ASSUME IInv, Answers, phase = "done", NEW k \in DOMAIN pairs
               PROVE  IF Due(k) THEN Cardinality(Got(k)) + Cardinality(Told(k)) = 1
                      ELSE Got(k) = {} /\ Told(k) = {}
    BY DEF EveryAutoAnswered, Due, Got, Told
  <2>1. k < at
    BY DEF Answers, IInv, TypeOK
  <2>2. AnsweredOnce(k)
    BY <2>1 DEF Answers
  <2>3. ASSUME NEW S, One(S) PROVE Cardinality(S) = 1
    BY <2>3, FS_Singleton DEF One
  <2>4. Cardinality({}) = 0
    BY FS_EmptySet
  <2>5. ASSUME Due(k), One(Got(k)), Told(k) = {} PROVE Cardinality(Got(k)) + Cardinality(Told(k)) = 1
    <3>1. Cardinality(Got(k)) = 1 /\ Cardinality(Told(k)) = 0
      BY <2>3, <2>4, <2>5
    <3> QED
      BY <3>1
  <2>6. ASSUME Due(k), One(Told(k)), Got(k) = {} PROVE Cardinality(Got(k)) + Cardinality(Told(k)) = 1
    <3>1. Cardinality(Told(k)) = 1 /\ Cardinality(Got(k)) = 0
      BY <2>3, <2>4, <2>6
    <3> QED
      BY <3>1
  <2> QED
    BY <2>2, <2>5, <2>6 DEF AnsweredOnce
<1> QED
  BY <1>1, <1>2, PTL
=============================================================================
