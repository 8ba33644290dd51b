----------------------------- MODULE MCDocSync -----------------------------
(* Small instances of DocSync for TLC. *)
EXTENDS DocSync

Calm == [b \in BoundNames |-> 0]

(* Two edits or two foreign entries, and some of what may go wrong. *)
MCBounds ==
  { [Calm EXCEPT !.edits = 2, !.others = 2],
    [Calm EXCEPT !.edits = 2, !.others = 1, !.drops = 1],
    [Calm EXCEPT !.edits = 1, !.others = 2, !.drops = 1],
    [Calm EXCEPT !.edits = 2, !.others = 1, !.lost = 1],
    [Calm EXCEPT !.edits = 1, !.others = 2, !.resets = 1, !.bad = 1] }
=============================================================================
