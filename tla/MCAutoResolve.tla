--------------------------- MODULE MCAutoResolve ---------------------------
(***************************************************************************)
(* Instance of AutoResolve: one port of the channels 0 to 3, one scalar    *)
(* port and a device outside the program, and every program of up to three *)
(* pairs that ask for up to three channels of the port, or name some, the  *)
(* connects and the bridges standing in the file in any order.             *)
(***************************************************************************)
EXTENDS AutoResolve

MCLo == [p \in {"x"} |-> 0]
MCHi == [p \in {"x"} |-> 3]

At(p, kind, list) == [port |-> p, kind |-> kind, list |-> list]
Auto(p) == At(p, "auto", <<>>)
Plain(p) == At(p, "none", <<>>)
Ask(list) == At("far", "listed", list)

\* Target side of a connect or source side of a bridge, and the other side
Requests == {<<Auto("x"), Ask(<<1, 2>>)>>, <<Auto("x"), Ask(<<1, 2, 3>>)>>, <<Auto("x"), Plain("far")>>,
             <<Auto("x"), Ask(<<>>)>>, <<Auto("s"), Ask(<<1>>)>>, <<Auto("far"), Ask(<<1>>)>>,
             <<Auto("x"), Auto("s")>>, <<Auto("x"), At("x", "listed", <<3, 3>>)>>}
Namings == {<<At("x", "listed", <<1>>), Plain("far")>>, <<At("x", "listed", <<2, 1>>), Plain("far")>>}

Connect(w, k) == [source |-> w[2], target |-> w[1], span |-> k, stmt |-> "connect"]
Bridge(w, k) == [source |-> w[1], target |-> w[2], span |-> k, stmt |-> "bridge"]

\* Connects come first, wherever the bridges stand in the file
Visited(file) ==
  SelectSeq(file, LAMBDA s : s.stmt = "connect") \o SelectSeq(file, LAMBDA s : s.stmt = "bridge")

Singles ==
  UNION {{Visited([k \in 1..n |-> IF k \in B THEN Bridge(w[k], k) ELSE Connect(w[k], k)]) :
             w \in [1..n -> Requests \cup Namings], B \in SUBSET (1..n)} : n \in 1..3}

\* Two sources of a bridge group share its span
Grouped == {<<Bridge(v, 1), Bridge(w, 1)>> : v, w \in Requests}

MCPrograms == Singles \cup Grouped
=============================================================================
