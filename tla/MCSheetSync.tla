---------------------------- MODULE MCSheetSync ----------------------------
(* Small instances of SheetSync for TLC. *)
EXTENDS SheetSync

TabSymmetry == Permutations(Tabs)

(* What happens over each network; on the socket also a save and a
   replacement of the file. *)
MCScenarios ==
  { [network |-> "socket", edits |-> 2, drops |-> 1, saves |-> 1, replaces |-> 1],
    [network |-> "http", edits |-> 2, drops |-> 1, saves |-> 0, replaces |-> 0] }

(* Smaller ones for what is to happen in the end. *)
MCLiveScenarios ==
  { [network |-> "socket", edits |-> 2, drops |-> 1, saves |-> 0, replaces |-> 0],
    [network |-> "socket", edits |-> 1, drops |-> 1, saves |-> 1, replaces |-> 1] }

(* No save, no replacement, answers that overtake events. *)
MCHttpEdits ==
  { [network |-> "http", edits |-> 2, drops |-> 0, saves |-> 0, replaces |-> 0] }
=============================================================================
