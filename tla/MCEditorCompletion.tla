------------------------ MODULE MCEditorCompletion ------------------------
(***************************************************************************)
(* Two templates, one with a vector port, and an instance of each.         *)
(***************************************************************************)
EXTENDS EditorCompletion

MCDeclarations ==
  {Template("T", {ScalarPort("In"), VectorPort("Out", 1, 2)}), Template("Empty", {}),
   Instance("A", "T"), Instance("B", "Empty")}

MCCursors ==
  {Cursor("is", ""), Cursor("dot", "A"), Cursor("dot", "B"), Cursor("endpoint", ""), Cursor("other", "")}
=============================================================================
