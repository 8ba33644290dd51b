---------------------------- MODULE MCSheetRows ----------------------------
(* Small instances of SheetRows for TLC: three edits without or with moves of
   rows, and any two edits. *)
EXTENDS SheetRows

MCRowBounds == {
  [edits |-> 3, kinds |-> {"write", "insert", "remove"}],
  [edits |-> 3, kinds |-> {"write", "move"}],
  [edits |-> 2, kinds |-> {"write", "insert", "remove", "move"}]}
=============================================================================
