------------------------------- MODULE Outbox -------------------------------
(***************************************************************************)
(* What an outbox promises: what is kept is delivered in the order it was  *)
(* kept and once, and is dropped only when delivered or withdrawn.  One    *)
(* that is withdrawn while on its way may still be delivered.              *)
(***************************************************************************)
EXTENDS SequencesExt, Integers

CONSTANT Ids      \* what may be kept, numbered in the order made
VARIABLES outbox, delivered, withdrawn

ovars == <<outbox, delivered, withdrawn>>

Newest(s, id) == \A i \in 1..Len(s) : s[i] < id

OutboxInit == outbox = <<>> /\ delivered = <<>> /\ withdrawn = {}

Keep(id) ==
  /\ Newest(outbox, id) /\ Newest(delivered, id) /\ id \notin withdrawn
  /\ outbox' = Append(outbox, id)
  /\ UNCHANGED <<delivered, withdrawn>>

Deliver(id) ==
  /\ Newest(delivered, id)
  /\ \A i \in 1..Len(outbox) : outbox[i] < id => Contains(delivered, outbox[i])
  /\ Contains(outbox, id) \/ id \in withdrawn
  /\ delivered' = Append(delivered, id)
  /\ UNCHANGED <<outbox, withdrawn>>

Forget ==
  /\ outbox # <<>> /\ Contains(delivered, Head(outbox))
  /\ outbox' = Tail(outbox)
  /\ UNCHANGED <<delivered, withdrawn>>

Withdraw(i) ==
  /\ outbox' = RemoveAt(outbox, i)
  /\ withdrawn' = withdrawn \cup {outbox[i]}
  /\ UNCHANGED delivered

OutboxNext ==
  \/ Forget
  \/ \E id \in Ids : Keep(id) \/ Deliver(id)
  \/ \E i \in 1..Len(outbox) : Withdraw(i)

OutboxSpec == OutboxInit /\ [][OutboxNext]_ovars

=============================================================================
