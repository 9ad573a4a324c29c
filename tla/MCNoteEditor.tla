---------------------------- MODULE MCNoteEditor ----------------------------
(* Two notes, empty or with one or two lines, in a buffer of two lines.     *)
EXTENDS NoteEditor, TLC

MCInitial == {<<>>, <<"a">>, <<"a", "b">>}
MCLong    == {<<"a", "b", "a">>}
=============================================================================
