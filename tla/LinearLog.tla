----------------------------- MODULE LinearLog -----------------------------
(***************************************************************************)
(* What a room's operation log promises, without its store: one linear     *)
(* history that grows by compare-and-append, of which the newest part      *)
(* stays readable and never changes.                                       *)
(*                                                                         *)
(*   head    the number of the newest position                             *)
(*   floor   everything up to here may no longer be read                   *)
(*   kept    the entries at positions floor+1..head                        *)
(***************************************************************************)
EXTENDS Integers

CONSTANTS Clients, Batches

VARIABLES head, floor, kept

ledger == <<head, floor, kept>>

Retain(f, lo, hi) == [n \in lo..hi |-> f[n]]

Init ==
  /\ head = 0
  /\ floor = 0
  /\ kept = [n \in 1..0 |-> 0]

(* A batch made against the head becomes the next position; old positions
   may become unreadable at the same time. *)
Accept(client, ops) ==
  /\ head' = head + 1
  /\ floor' \in floor..head
  /\ kept' = [n \in (floor' + 1)..(head + 1) |->
                IF n = head + 1
                THEN [seq |-> n, client |-> client, ops |-> ops]
                ELSE kept[n]]

(* Positions that the persisted bytes cover stop being readable. *)
Compact ==
  /\ floor' \in floor..head
  /\ kept' = Retain(kept, floor' + 1, head)
  /\ UNCHANGED head

(* The bytes were replaced: a position no entry describes. *)
Replace ==
  /\ head' = head + 1
  /\ floor' = head'
  /\ kept' = [n \in 1..0 |-> 0]

(* The whole log is dropped and numbering starts again. *)
Drop ==
  /\ head' = 0
  /\ floor' = 0
  /\ kept' = [n \in 1..0 |-> 0]

Next ==
  \/ \E client \in Clients, ops \in Batches : Accept(client, ops)
  \/ Compact
  \/ Replace
  \/ Drop

Spec == Init /\ [][Next]_ledger
=============================================================================
