----------------------------- MODULE MCDeckSync -----------------------------
(* Small instances of DeckSync for TLC. *)
EXTENDS DeckSync

Calm == [b \in BoundNames |-> 0]

MCSlides == {"s1", "s2", "s3"}
MCFirstDeck == [title |-> 0, slides |-> <<NewSlide("s1", 0), NewSlide("s2", 0)>>]

(* Two changes or two foreign entries, and some of what may go wrong. *)
MCBounds ==
  { [Calm EXCEPT !.edits = 2, !.others = 1],
    [Calm EXCEPT !.edits = 1, !.others = 2],
    [Calm EXCEPT !.edits = 1, !.others = 1, !.drops = 1],
    [Calm EXCEPT !.edits = 1, !.others = 1, !.lost = 1],
    [Calm EXCEPT !.edits = 1, !.others = 1, !.resets = 1] }
=============================================================================
