----------------------------- MODULE ChannelPool -----------------------------
(***************************************************************************)
(* What [auto] promises (docs/language-reference.md, "Auto-Assignment"):   *)
(* the channels the statements name themselves are reserved before any     *)
(* other is given out, and every request that is granted gets a contiguous *)
(* block of the port's declared range that nobody else has.                *)
(***************************************************************************)
EXTENDS Integers

CONSTANTS
  Port,     \* ports with a declared range
  Lo, Hi    \* [Port -> Nat]: the range

VARIABLES
  taken,    \* per port, the channels that are in use
  grants    \* the blocks given out: who got which channels of which port

vars == <<taken, grants>>

Contiguous(S) == \A x, y \in S : x .. y \subseteq S

Init ==
  /\ taken = [p \in Port |-> {}]
  /\ grants = {}

\* Once, before anything is granted
Reserve ==
  /\ grants = {} /\ taken = [p \in Port |-> {}]
  /\ taken' \in [Port -> SUBSET Nat]
  /\ UNCHANGED grants

Grant ==
  \E g \in grants' :
    /\ g.port \in Port
    /\ Contiguous(g.channels)
    /\ g.channels \subseteq Lo[g.port] .. Hi[g.port]
    /\ g.channels \cap taken[g.port] = {}
    /\ taken' = [taken EXCEPT ![g.port] = @ \cup g.channels]
    /\ grants' = grants \cup {g}

Next == Reserve \/ Grant

Spec == Init /\ [][Next]_vars
=============================================================================
