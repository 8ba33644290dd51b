--------------------------- MODULE MCUndoJournal ---------------------------
(* Small instances of UndoJournal for TLC. *)
EXTENDS UndoJournal

Still == [b \in UndoBoundNames |-> 0]

(* Edits undone and done again, with another client's writes or something that
   goes wrong. *)
MCUndoBounds ==
  { [Still EXCEPT !.edits = 2, !.others = 1, !.undos = 2],
    [Still EXCEPT !.edits = 1, !.others = 2, !.undos = 1, !.redos = 1],
    [Still EXCEPT !.edits = 2, !.undos = 2, !.redos = 1],
    [Still EXCEPT !.edits = 2, !.others = 1, !.undos = 1, !.refusals = 1, !.resets = 1],
    [Still EXCEPT !.edits = 1, !.others = 1, !.undos = 1, !.unsaved = 1, !.resets = 1],
    [Still EXCEPT !.edits = 2, !.others = 1, !.undos = 1, !.withdrawals = 1, !.resets = 1],
    [Still EXCEPT !.edits = 2, !.undos = 1, !.stops = 1],
    [Still EXCEPT !.edits = 1, !.others = 1, !.undos = 1, !.stops = 1, !.overtakes = 1] }
=============================================================================
