----------------------------- MODULE MCContract -----------------------------
(***************************************************************************)
(* Instance of ContractedGraph: four devices, two of them with names that  *)
(* can run into a port's, and one with an instance inside; programs of up  *)
(* to two cables, or of one with signals, bridges or bridge groups; and    *)
(* four assignments.                                                       *)
(***************************************************************************)
EXTENDS ContractedGraph

MCModulus == 16
MCNumeral == [n \in 0..15 |-> ToString(n)]
MCCluster == {"x", "y", "y!", "rest"}
MCSanitized == [x |-> <<"x">>, y |-> <<"y">>, rest |-> <<"rest">>] @@ ("y!" :> <<"y">>)

Port(name, dir, lo, hi) == [name |-> name, dir |-> dir, ranged |-> TRUE, lo |-> lo, hi |-> hi]
Scalar(name, dir) == [name |-> name, dir |-> dir, ranged |-> FALSE, lo |-> 0, hi |-> 0]

Whole(inst, port) == Ref(inst, port, FALSE, <<>>)
At(inst, port, index) == Ref(inst, port, TRUE, index)
Bridge(s, t) == [source |-> s, target |-> t]
BridgeGroup(ss, t) == [sources |-> ss, target |-> t]
Cable(s, t) == [source |-> s, target |-> t, mapping |-> OneToOne]
Mapped(s, t, by) == [source |-> s, target |-> t, mapping |-> [kind |-> "offset", by |-> by, pairs |-> <<>>]]
Listed(s, t, pairs) == [source |-> s, target |-> t, mapping |-> [kind |-> "explicit", by |-> 0, pairs |-> pairs]]

Unread(s, t) == [source |-> s, target |-> t, mapping |-> [kind |-> "unread", by |-> 0, pairs |-> <<>>]]

a == <<"a">>
ab == <<"a", "b">>
c1 == <<"c">>
d1 == <<"d">>
out == <<"out">>
in == <<"in">>
bin == <<"b", "in">>
plug == <<"plug">>
aux == <<"aux", "In">>
bay == <<"bay">>
io == <<"io">>
late == <<"late">>
card == <<"card">>

Device == [ports |-> <<Port(out, "out", 1, 2), Port(in, "in", 1, 2), Port(bin, "in", 1, 2), Scalar(plug, "in"),
                       Port(aux, "in", 1, 2), Port(io, "io", 1, 2), Port(late, "out", 2, 3)>>,
           bridges |-> <<Bridge(Whole(NoInstance, in), Whole(NoInstance, out)), Bridge(Whole(NoInstance, bay), Whole(NoInstance, out))>>,
           instances |-> <<>>, connects |-> <<>>, slots |-> {bay}]
Card == [NoTemplate EXCEPT !.ports = <<Port(card, "out", 1, 2)>>]
Nest == [ports |-> <<Port(out, "out", 1, 2), Port(in, "in", 1, 2)>>,
         bridges |-> <<>>,
         instances |-> <<[name |-> <<"n">>, template |-> <<"Device">>, cards |-> <<>>]>>,
         connects |-> <<Cable(Whole(NoInstance, in), Whole(<<"n">>, in)), Cable(Whole(<<"n">>, out), Whole(NoInstance, out))>>,
         slots |-> {}]

Instance(name, template, cards) == [name |-> name, template |-> template, cards |-> cards]

ProgramOf(cables, signals, bridges, groups) ==
  [templates |-> (<<"Device">> :> Device) @@ (<<"Card">> :> Card) @@ (<<"Nest">> :> Nest),
   instances |-> <<Instance(a, <<"Device">>, <<<<"Card">>>>), Instance(ab, <<"Device">>, <<>>),
                   Instance(c1, <<"Device">>, <<>>), Instance(d1, <<"Nest">>, <<>>)>>,
   connects |-> cables, signals |-> signals, bridges |-> bridges, groups |-> groups]

Plain == {Cable(s, t) :
  s \in {At(a, out, <<1, 2>>), Whole(a, out), At(a, card, <<2>>)},
  t \in {At(c1, in, <<2>>), Whole(c1, in), At(ab, in, <<2, 1>>), Whole(c1, plug)}}

Special == {Cable(Whole(a, out), Whole(ab, in)), Cable(At(a, out, <<2, 3>>), At(c1, in, <<1, 2>>)), Cable(At(a, out, <<>>), At(c1, in, <<1>>)),
            Cable(Whole(a, late), At(c1, in, <<1>>)), Cable(At(a, out, <<1>>), At(c1, io, <<1>>)),
            Mapped(At(a, out, <<1, 2>>), At(ab, in, <<1, 2>>), 1), Mapped(At(a, out, <<1, 2>>), Whole(c1, in), -1),
            Listed(Whole(a, out), Whole(ab, in), <<<<1, 2>>, <<2, 1>>>>),
            Cable(At(c1, out, <<1>>), At(a, bin, <<1>>)), Cable(At(c1, out, <<1>>), At(ab, in, <<1>>)),
            Cable(At(c1, out, <<2>>), At(d1, in, <<2>>)), Cable(Whole(a, out), Whole(d1, in)),
            Cable(Whole(c1, out), Whole(a, plug)), Cable(At(c1, out, <<1>>), Whole(a, <<"aux">>)),
            Cable(At(c1, out, <<1, 2>>), At(ab, in, <<2, 3>>)),
            Unread(At(a, out, <<1, 2>>), At(c1, in, <<1, 2>>))}

Bridges == {<<Bridge(Whole(a, out), Whole(c1, in)), Bridge(At(a, card, <<1, 2>>), Whole(c1, in))>>,
            <<Bridge(At(c1, out, <<1, 2>>), At(a, in, <<1, 2>>)), Bridge(At(c1, out, <<1, 2>>), At(ab, in, <<2, 3>>))>>}
BridgeGroups == {<<BridgeGroup(<<At(a, out, <<1>>), At(c1, out, <<2>>)>>, Whole(ab, in)), BridgeGroup(<<Whole(ab, out)>>, At(c1, in, <<2>>))>>,
                 <<BridgeGroup(<<Whole(a, out)>>, Whole(ab, in)), BridgeGroup(<<Whole(c1, out)>>, At(ab, in, <<2>>))>>}

Assignments == {a :> "x" @@ ab :> "x" @@ c1 :> "y" @@ d1 :> "y", a :> "x" @@ ab :> "x",
                a :> "x" @@ ab :> "y" @@ c1 :> "x" @@ d1 :> "y", a :> "y" @@ ab :> "y" @@ c1 :> "y!" @@ d1 :> "y!"}

Signals == {<<>>, <<[name |-> "s", origin |-> At(a, in, <<1>>)], [name |-> "t", origin |-> At(a, out, <<2>>)]>>, <<[name |-> "s", origin |-> Whole(d1, out)]>>,
            <<[name |-> "s", origin |-> Whole(a, late)], [name |-> "t", origin |-> At(a, late, <<2>>)]>>,
            <<[name |-> "s", origin |-> At(a, plug, <<1, 2>>)], [name |-> "t", origin |-> Whole(c1, plug)]>>}

Lists == {<<>>} \cup {<<c>> : c \in Plain \cup Special} \cup ((Plain \cup Special) \X (Plain \cup Special))

Single == {<<>>} \cup {<<c>> : c \in Plain \cup Special}

MCInputs ==
  {<<ProgramOf(cs, <<>>, <<>>, <<>>), m>> : cs \in Lists, m \in Assignments}
    \cup {<<ProgramOf(cs, ss, <<>>, <<>>), m>> : cs \in Single, ss \in Signals, m \in Assignments}
    \cup {<<ProgramOf(cs, <<>>, bs, gs), m>> :
             cs \in Single, bs \in Bridges \cup {<<>>}, gs \in BridgeGroups \cup {<<>>}, m \in Assignments}
=============================================================================
