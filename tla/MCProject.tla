------------------------------ MODULE MCProject ------------------------------
(***************************************************************************)
(* Instance of ProjectViews: an entry file, two files it may use and a     *)
(* third that may be missing, with circles, self-uses, templates of one    *)
(* name in two files, parse errors and an entry that is not there.         *)
(***************************************************************************)
EXTENDS ProjectViews

MCPathOf == [n \in {"main", "a", "b", "c"} |-> n \o ".patch"]

Bare(n) == [kind |-> "use", namespace |-> n, only |-> {}]
Only(n, t) == [kind |-> "use", namespace |-> n, only |-> {t}]
T(t) == [kind |-> "template", name |-> t]
Other == [kind |-> "other", name |-> NoName]

UpTo(n, S) == UNION {[1..k -> S] : k \in 0..n}

Whole(stmts) == [stmts |-> stmts, broken |-> FALSE]
Broken(stmts) == [stmts |-> stmts, broken |-> TRUE]

Mains == {Whole(s) : s \in UpTo(2, {Bare("a"), Only("b", "t"), Bare("main"), T("t")})}
As == {Whole(s) : s \in UpTo(2, {Bare("c"), T("t"), Other})} \cup {Broken(<<Bare("b")>>), Whole(<<Bare("main")>>)}
Bs == {Whole(s) : s \in UpTo(1, {Bare("a"), Bare("c"), T("u")})}

Three(m, a, b) == [f \in {"main.patch", "a.patch", "b.patch"} |->
  CASE f = "main.patch" -> m [] f = "a.patch" -> a [] f = "b.patch" -> b]

MCCalls ==
  LET three == {Three(m, a, b) : m \in Mains, a \in As, b \in Bs}
      maps == three \cup {Put(p, "c.patch", Whole(<<T("t")>>)) : p \in three}
  IN  {[files |-> p, entry |-> "main.patch"] : p \in maps}
        \cup {[files |-> [f \in {"a.patch"} |-> Whole(<<Other>>)], entry |-> "main.patch"]}
=============================================================================
