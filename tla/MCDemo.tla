------------------------------- MODULE MCDemo -------------------------------
(***************************************************************************)
(* Two examples: a text with a template that holds itself below another,   *)
(* and a project of several files; three texts to type: a flat one with a  *)
(* card that ELK cannot route, one with syntax errors and one the compiler *)
(* fails on; a directory with other line ends and errors.                  *)
(***************************************************************************)
EXTENDS Demo

Leaf == NestedTemplate(<<>>, {})

Nested ==
  Statements([p |-> "T", q |-> "L"], {<<"p", "q">>},
         [T |-> NestedTemplate([r |-> "U", s |-> "L"], {<<"r", "s">>, <<"r", "">>}),
          U |-> NestedTemplate([p |-> "T"], {}),
          L |-> Leaf])

Flat == Statements([p |-> "L", q |-> "L"], {<<"p", "q">>}, [L |-> Leaf])
Project == Statements([p |-> "T"], {}, [T |-> NestedTemplate([r |-> "L"], {}), L |-> Leaf])
Empty == Statements(<<>>, {}, [L |-> Leaf])

MCProgram ==
  [nested |-> Nested, flat |-> Flat, broken |-> Empty, trap |-> Empty,
   main |-> Empty, files |-> Project, entry |-> Empty, entryCRLF |-> Empty, folder |-> Project]

MCOutcome ==
  [nested |-> "ok", flat |-> "warned", broken |-> "parse errors", trap |-> "throws",
   main |-> "errors", files |-> "ok", entry |-> "errors", entryCRLF |-> "errors", folder |-> "errors"]

MCNormal ==
  [nested |-> "nested", flat |-> "flat", broken |-> "broken", trap |-> "trap",
   main |-> "main", entry |-> "entry", entryCRLF |-> "entry"]

MCExamples ==
  <<[kind |-> "single", text |-> "nested", files |-> Nothing],
    [kind |-> "multi", text |-> "main", files |-> "files"]>>

MCTypedTexts == {"flat", "broken", "trap"}

MCDirectories == [d |-> [text |-> "entryCRLF", files |-> "folder"]]

MCGraphs ==
  {NoGraph} \cup {Graph(x, l) : x \in DOMAIN MCProgram, l \in {Root, "T", "U", "L"}}

MCRoutable(g) == g = NoGraph \/ g.of # "flat"
=============================================================================
