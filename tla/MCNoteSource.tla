---------------------------- MODULE MCNoteSource ----------------------------
(* NoteSource on one note that is emptied, cut short, or read the other way. *)
EXTENDS NoteSource

MCText == {<<>>, <<1, 2>>, <<2>>}
=============================================================================
