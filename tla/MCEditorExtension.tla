------------------------- MODULE MCEditorExtension --------------------------
(***************************************************************************)
(* Two files of two possible texts, each opened at most twice, and three   *)
(* edits: enough to close a file under its timer, open it again and edit   *)
(* it before the old timer fires.                                          *)
(***************************************************************************)
EXTENDS EditorExtension
=============================================================================
