----------------------------- MODULE AutoResolve -----------------------------
(***************************************************************************)
(* resolve_auto_indices (resolve_auto.rs) and the merge of its result into *)
(* the JSON program (compat.rs).                                           *)
(*                                                                         *)
(* A program is the sequence of its (source, target) pairs in the order    *)
(* the pass visits them: the connects, those inside link groups included,  *)
(* then the bridges and, one pair per source, the bridge groups.  A side   *)
(* names a port, or Unbound when its instance, template or port is not     *)
(* found in the program; cards and library templates are not looked at.    *)
(* The order of the visit is not the order of the file: a bridge written   *)
(* above a connect comes after it.  A pair's span is the place in the file *)
(* where its statement begins.                                             *)
(* Channels stay below 2^32 by more than the length of an index list, so   *)
(* the only u32 operation that can wrap is the subtraction in Beyond.      *)
(***************************************************************************)
EXTENDS Integers, Sequences, FiniteSets

CONSTANTS
  Port,      \* (instance, port, direction) keys of ports with a declared range
  Lo, Hi,    \* [Port -> Nat]: the declared range
  Scalar,    \* ports without a declared range
  Unbound,   \* a side whose port cannot be found
  Span,      \* places in the file where statements begin
  Programs   \* the programs the pass may be run on

ASSUME Ranges == Lo \in [Port -> Nat] /\ Hi \in [Port -> Nat]
ASSUME Distinct == Port \cap Scalar = {} /\ Unbound \notin Port \cup Scalar

Role == {"source", "target"}
OtherRole(role) == IF role = "source" THEN "target" ELSE "source"

\* kind "listed" is an index of numbers and ranges, expanded in order
Side == [port : Port \cup Scalar \cup {Unbound}, kind : {"none", "auto", "listed"}, list : Seq(Nat)]

Pair == [source : Side, target : Side, span : Span, stmt : {"connect", "bridge"}]

ASSUME ProgramsTyped == Programs \subseteq Seq(Pair)

\* The connects in the order of the file, then the bridges in the order of the
\* file; the sources of a bridge group share its place
ASSUME VisitingOrder ==
  /\ Span \subseteq Nat
  /\ \A program \in Programs : \A j, k \in DOMAIN program :
       j < k => IF program[j].stmt = program[k].stmt
                THEN program[j].span <= program[k].span
                ELSE program[j].stmt = "connect"

VARIABLES
  pairs,        \* the program
  phase,        \* "scan", "resolve", "done"
  at,           \* the pair being resolved
  start,        \* start_ch of the search that is running, or NoSearch
  consumed,     \* PortAllocator::consumed per port
  cursor,       \* PortAllocator::cursor per port
  resolutions,  \* AutoResolutions, with the pair each was made for
  errors,       \* AutoErrors, with the pair each was made for
  output        \* kind each side has in the JSON program; <<>> until it is built

vars == <<pairs, phase, at, start, consumed, cursor, resolutions, errors, output>>

NoSearch == -1

-----------------------------------------------------------------------------
(* Reading an index.                                                       *)

Listed(side) == {side.list[k] : k \in DOMAIN side.list}

\* infer_count; a list counts every repetition, no index counts as one channel
InferCount(side) == IF side.kind = "listed" THEN Len(side.list) ELSE 1

Naming(p) ==
  {x \in (DOMAIN pairs) \X Role : pairs[x[1]][x[2]].port = p /\ pairs[x[1]][x[2]].kind = "listed"}

\* The channels the statements name themselves
Explicit(p) == UNION {Listed(pairs[x[1]][x[2]]) : x \in Naming(p)}

AutoRoles(pair) == {role \in Role : pair[role].kind = "auto"}

Init ==
  /\ pairs \in Programs
  /\ phase = "scan"
  /\ at = 1
  /\ start = NoSearch
  /\ consumed = [p \in Port |-> {}]
  /\ cursor = Lo
  /\ resolutions = {}
  /\ errors = {}
  /\ output = <<>>

\* Mutant: phase 1b, the bridges, is left out
PrescanConnects ==
  /\ phase = "scan"
  /\ phase' = "resolve"
  /\ consumed' = [p \in Port |->
       UNION {Listed(pairs[x[1]][x[2]]) : x \in {y \in Naming(p) : pairs[y[1]].stmt = "connect"}}]
  /\ UNCHANGED <<pairs, at, start, cursor, resolutions, errors, output>>

\* Phases 1 and 1b
Prescan ==
  /\ phase = "scan"
  /\ phase' = "resolve"
  /\ consumed' = [p \in Port |-> Explicit(p)]
  /\ UNCHANGED <<pairs, at, start, cursor, resolutions, errors, output>>

-----------------------------------------------------------------------------
(* Phases 2 and 2b, one pair after the other.                              *)

Resolving == phase = "resolve" /\ at <= Len(pairs)

\* The role of the current pair that asks for channels, when one does
Asking(role) == Resolving /\ AutoRoles(pairs[at]) = {role}

Report(code) ==
  /\ errors' = errors \cup {[pair |-> at, code |-> code]}
  /\ at' = at + 1
  /\ start' = NoSearch
  /\ UNCHANGED <<pairs, phase, consumed, cursor, resolutions, output>>

\* Mutant: a scalar port is passed over like one that is not found
PassOverScalar ==
  /\ Resolving
  /\ \/ AutoRoles(pairs[at]) = {}
     \/ \E role \in Role : Asking(role) /\ pairs[at][role].port \notin Port
  /\ at' = at + 1
  /\ UNCHANGED <<pairs, phase, start, consumed, cursor, resolutions, errors, output>>

\* No [auto], or [auto] on a port that is not found: nothing is said
PassOver ==
  /\ Resolving
  /\ \/ AutoRoles(pairs[at]) = {}
     \/ \E role \in Role : Asking(role) /\ pairs[at][role].port = Unbound
  /\ at' = at + 1
  /\ UNCHANGED <<pairs, phase, start, consumed, cursor, resolutions, errors, output>>

BothAuto == Resolving /\ AutoRoles(pairs[at]) = Role /\ Report("A02")

ScalarPort == \E role \in Role : Asking(role) /\ pairs[at][role].port \in Scalar /\ Report("A03")

\* Mutant: the search begins at the first channel of the range
BeginSearchLow ==
  \E role \in Role :
    /\ Asking(role) /\ pairs[at][role].port \in Port /\ start = NoSearch
    /\ start' = Lo[pairs[at][role].port]
    /\ UNCHANGED <<pairs, phase, at, consumed, cursor, resolutions, errors, output>>

\* resolve_side reaches its loop
BeginSearch ==
  \E role \in Role :
    /\ Asking(role) /\ pairs[at][role].port \in Port /\ start = NoSearch
    /\ start' = cursor[pairs[at][role].port]
    /\ UNCHANGED <<pairs, phase, at, consumed, cursor, resolutions, errors, output>>

Searching(role) == Asking(role) /\ start # NoSearch
PortAsked(role) == pairs[at][role].port
CountAsked(role) == InferCount(pairs[at][OtherRole(role)])

\* Mutant: one channel too strict
BeyondTooSoon(p, s, n) == s + n > Hi[p]

\* start + n - 1 > range_end in u32: for 0 + 0 the subtraction wraps
Beyond(p, s, n) == s + n = 0 \/ s + n - 1 > Hi[p]

Block(s, n) == s .. s + n - 1

\* Mutant: only the ends of the block are looked at
EndsFree(p, s, n) == s \notin consumed[p] /\ s + n - 1 \notin consumed[p]

Free(p, s, n) == Block(s, n) \cap consumed[p] = {}

Probe ==
  \E role \in Role :
    /\ Searching(role)
    /\ ~ Beyond(PortAsked(role), start, CountAsked(role))
    /\ ~ Free(PortAsked(role), start, CountAsked(role))
    /\ start' = start + 1
    /\ UNCHANGED <<pairs, phase, at, consumed, cursor, resolutions, errors, output>>

Resolution(role) ==
  [pair |-> at, span |-> pairs[at].span, side |-> role, port |-> PortAsked(role),
   channels |-> Block(start, CountAsked(role))]

Found ==
  \E role \in Role :
    /\ Searching(role)
    /\ ~ Beyond(PortAsked(role), start, CountAsked(role))
    /\ Free(PortAsked(role), start, CountAsked(role))
    /\ consumed' = [consumed EXCEPT ![PortAsked(role)] = @ \cup Block(start, CountAsked(role))]
    /\ cursor' = [cursor EXCEPT ![PortAsked(role)] = start + CountAsked(role)]
    /\ resolutions' = resolutions \cup {Resolution(role)}
    /\ at' = at + 1
    /\ start' = NoSearch
    /\ UNCHANGED <<pairs, phase, errors, output>>

FreeChannels(p) == (Lo[p] .. Hi[p]) \ consumed[p]

Exhausted ==
  \E role \in Role :
    /\ Searching(role)
    /\ Beyond(PortAsked(role), start, CountAsked(role))
    /\ Report(IF Cardinality(FreeChannels(PortAsked(role))) >= CountAsked(role) THEN "A05" ELSE "A04")

-----------------------------------------------------------------------------
(* to_ts_result_with_resolutions: the resolutions are looked up by span    *)
(* and side, for connects only; a bridge is converted as it is.            *)

LookedUp(pair, role) == \E r \in resolutions : r.span = pair.span /\ r.side = role

OutputKind(pair, role) ==
  IF pair.stmt = "connect" /\ LookedUp(pair, role)
  THEN "listed" ELSE pair[role].kind

Convert ==
  /\ phase = "resolve" /\ at > Len(pairs)
  /\ phase' = "done"
  /\ output' = [k \in DOMAIN pairs |-> [role \in Role |-> OutputKind(pairs[k], role)]]
  /\ UNCHANGED <<pairs, at, start, consumed, cursor, resolutions, errors>>

Next ==
  \/ Prescan \/ PassOver \/ BothAuto \/ ScalarPort
  \/ BeginSearch \/ Probe \/ Found \/ Exhausted \/ Convert

\* The pass is one function call: once it runs, it runs on
Spec == Init /\ [][Next]_vars /\ WF_vars(Next)

-----------------------------------------------------------------------------
(* Properties.                                                             *)

\* The pass keeps its tables in shape
TypeOK ==
  /\ pairs \in Seq(Pair)
  /\ phase \in {"scan", "resolve", "done"}
  /\ at \in Nat \ {0}
  /\ start \in Nat \cup {NoSearch}
  /\ consumed \in [Port -> SUBSET Nat]
  /\ cursor \in [Port -> Nat]
  /\ resolutions \subseteq
       [pair : Nat, span : Span, side : Role, port : Port, channels : SUBSET Nat]
  /\ errors \subseteq [pair : Nat, code : {"A02", "A03", "A04", "A05"}]

\* No channel is given out twice, nor one a statement names itself, be it a
\* connect or a bridge, before or after the statement with the [auto]
NoSharedChannel ==
  \A r \in resolutions :
    /\ r.channels \cap Explicit(r.port) = {}
    /\ \A q \in resolutions : q.port = r.port /\ q # r => q.channels \cap r.channels = {}

\* What is given out lies in the declared range
WithinRange == \A r \in resolutions : r.channels \subseteq Lo[r.port] .. Hi[r.port]

Above(q, r) == q.span < r.span \/ (q.span = r.span /\ q.pair < r.pair)

\* A connect comes before all bridges, and of one kind the statement that stands
\* above in the file; of two sources of a bridge group the one named first
Before(q, r) ==
  IF pairs[q.pair].stmt = pairs[r.pair].stmt THEN Above(q, r) ELSE pairs[q.pair].stmt = "connect"

Below(q, r) == \A c \in q.channels, d \in r.channels : c < d

\* Of two statements that get channels of one port, the one that comes before
\* gets the lower ones, whatever block sizes and explicit channels lie between.
\* It is not the order of declaration, of which docs/language-reference.md:827
\* speaks: a bridge gets higher channels than a connect that is written below it.
AllocationOrder ==
  \A q, r \in resolutions : (q.port = r.port /\ Before(q, r)) => Below(q, r)

\* When the pass is through, a pair with one [auto] on a port that was found has
\* either its channels or its error, and one with two has its error
EveryAutoAnswered ==
  phase = "done" =>
    \A k \in DOMAIN pairs :
      LET got == {r \in resolutions : r.pair = k}
          told == {e \in errors : e.pair = k}
      IN  IF \E role \in AutoRoles(pairs[k]) : AutoRoles(pairs[k]) = Role \/ pairs[k][role].port # Unbound
          THEN Cardinality(got) + Cardinality(told) = 1
          ELSE got = {} /\ told = {}

\* A search that gives up has missed no block at or after the cursor
RefusedInVain(p, n) ==
  \E s \in cursor[p] .. Hi[p] : Block(s, n) \subseteq cursor[p] .. Hi[p] /\ Free(p, s, n)

NoBlockMissed ==
  [][\A role \in Role :
       (Searching(role) /\ errors' # errors /\ CountAsked(role) > 0) =>
         ~ RefusedInVain(PortAsked(role), CountAsked(role))]_vars

\* The pass hands out channels as a pool does
Pool == INSTANCE ChannelPool WITH taken <- consumed, grants <- resolutions
PoolSpec == Pool!Spec

=============================================================================
