------------------------- MODULE MCOutboundJournal -------------------------
(* Small instances of OutboundJournal for TLC. *)
EXTENDS OutboundJournal

Calm == [b \in BoundNames |-> 0]

(* Two submissions, and some of what may go wrong. *)
MCBounds ==
  { [Calm EXCEPT !.edits = 2, !.others = 1, !.stops = 1, !.drops = 1],
    [Calm EXCEPT !.edits = 2, !.others = 1, !.stops = 1, !.lost = 1],
    [Calm EXCEPT !.edits = 2, !.stops = 1, !.unsaved = 1],
    [Calm EXCEPT !.edits = 2, !.others = 1, !.cancels = 1, !.unsaved = 1],
    [Calm EXCEPT !.edits = 2, !.cancels = 1, !.stops = 1],
    [Calm EXCEPT !.edits = 2, !.cancels = 1, !.refusals = 1, !.reconnects = 1],
    [Calm EXCEPT !.edits = 2, !.drops = 1, !.lost = 1] }
=============================================================================
