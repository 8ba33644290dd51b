----------------------------- MODULE SheetRows -----------------------------
(***************************************************************************)
(* Rows that are inserted, removed, moved and written in several tabs at   *)
(* once: PresenceManager.applyEntry with reconcileRemote and               *)
(* transformQueued (packages/collab/src/manager.ts and sync.ts).           *)
(*                                                                         *)
(* How entries reach a tab, in order and each once, is SheetSync's; here   *)
(* an entry is taken in at once, and a submission is logged and            *)
(* acknowledged in one step.  A submission holds one operation.            *)
(* What an operation does to the sheet is external, the target of a move   *)
(* being where the rows end up.                                            *)
(***************************************************************************)
EXTENDS Transform

CONSTANTS
  Tabs,
  FirstRows,    \* how many rows the sheet has at first
  RowBounds     \* the bounds on what happens, one of which a behaviour has

ASSUME RowsAssumption ==
  /\ FirstRows \in Nat
  /\ RowBounds \subseteq [edits : Nat, kinds : SUBSET {"write", "insert", "remove", "move"}]

VARIABLES
  log,       \* who submitted what
  tab,       \* each tab: its rows, what it took in of the log, its queue
  budget,    \* what is left of the bounds
  mishaps    \* history: which situations the transforms do not cope with arose

rvars == <<log, tab, budget, mishaps>>

Blank == 0
Row(rows, i) == IF i < Len(rows) THEN rows[i + 1] ELSE Blank
Blanks(n) == [i \in 1..n |-> Blank]

(* External: the sheet, blank beyond its last row. *)
Widened(rows, n) == rows \o Blanks(n - Len(rows))

Play(rows, op) ==
  CASE op.kind = "write" ->
         [Widened(rows, op.row + 1) EXCEPT ![op.row + 1] = op.value]
    [] op.kind = "insert" ->
         LET wide == Widened(rows, op.start)
         IN  SubSeq(wide, 1, op.start) \o Blanks(op.count) \o SubSeq(wide, op.start + 1, Len(wide))
    [] op.kind = "remove" ->
         LET wide == Widened(rows, op.start)
         IN  SubSeq(wide, 1, op.start) \o SubSeq(wide, op.start + op.count + 1, Len(wide))
    [] op.kind = "move" ->
         LET wide == Widened(rows, Max({op.source, op.target}) + op.count)
             rest == SubSeq(wide, 1, op.source) \o
                     SubSeq(wide, op.source + op.count + 1, Len(wide))
         IN  SubSeq(rest, 1, op.target) \o
             SubSeq(wide, op.source + 1, op.source + op.count) \o
             SubSeq(rest, op.target + 1, Len(rest))

PlayAll(rows, ops) == FoldLeft(Play, rows, ops)

FirstSheet == [i \in 1..FirstRows |-> -i]

SameRows(r, s) == \A i \in 0..Max({Len(r), Len(s)}) : Row(r, i) = Row(s, i)

(* What a tab with these rows may do. *)
EditsOn(rows, n) ==
  LET spans == {<<first, count>> \in (0..(Len(rows) - 1)) \X (1..2) :
                  first + count <= Len(rows)}
  IN  [kind : {"write"}, row : 0..(Len(rows) - 1), value : {n}]
      \cup {[kind |-> kind, start |-> s[1], count |-> s[2]] :
              kind \in {"insert", "remove"}, s \in spans}
      \cup {[kind |-> "move", source |-> s[1], target |-> t, count |-> s[2]] :
              s \in spans, t \in 0..(Len(rows) - 1)}

RowsInit ==
  /\ log = <<>>
  /\ tab = [c \in Tabs |-> [rows |-> FirstSheet, applied |-> 0, queue |-> <<>>]]
  /\ budget \in RowBounds
  /\ mishaps = {}

(* A local edit is applied and queued. *)
Edit(c, op) ==
  /\ budget.edits > 0 /\ op.kind \in budget.kinds
  /\ op.kind = "move" =>
       /\ op.source # op.target /\ ValidMove(op.source, op.target, op.count)
       /\ op.target + op.count <= Len(tab[c].rows)
  /\ tab' = [tab EXCEPT ![c].rows = Play(@, op), ![c].queue = Append(@, op)]
  /\ budget' = [budget EXCEPT !.edits = @ - 1]
  /\ UNCHANGED <<log, mishaps>>

(* The head of the queue is accepted if its tab is at the head of the log. *)
Submit(c) ==
  /\ tab[c].queue # <<>> /\ tab[c].applied = Len(log)
  /\ log' = Append(log, [client |-> c, op |-> Head(tab[c].queue)])
  /\ tab' = [tab EXCEPT ![c].applied = @ + 1, ![c].queue = Tail(@)]
  /\ UNCHANGED <<budget, mishaps>>

(* reconcileRemote: what a pending write holds is not overwritten. *)
Reconciled(op, pending) ==
  IF /\ op.kind = "write"
     /\ \E i \in 1..Len(pending) : pending[i].kind = "write" /\ pending[i].row = op.row
  THEN <<>> ELSE <<op>>

(* Fault: only the submission that is next is re-expressed. *)
TransformNext(queue, op) ==
  FlattenSeq([i \in 1..Len(queue) |->
    IF i = 1 THEN TransformOps(<<queue[i]>>, <<op>>) ELSE <<queue[i]>>])

(* transformQueued: each submission by itself, the emptied ones dropped. *)
TransformQueued(queue, op) ==
  FlattenSeq([i \in 1..Len(queue) |-> TransformOps(<<queue[i]>>, <<op>>)])

(* The rows a move changes, and those an edit is about. *)
Stirred(op) ==
  IF op.kind = "move"
  THEN Min({op.source, op.target})..(Max({op.source, op.target}) + op.count - 1)
  ELSE op.start..(op.start + op.count - 1)

Tangled(p, q) ==
  /\ Structural(p) /\ Structural(q) /\ "move" \in {p.kind, q.kind}
  /\ Stirred(p) \cap Stirred(q) # {}

(* What the transforms do not cope with: the two sides of an insertion strictly
   inside rows removed at the same time do not agree whether its rows go too; a move
   that overlaps another edit does not commute with it; and of several pending edits
   each goes through the entry as it was logged, although one made after a pending
   insertion, removal or move numbers its rows by it. *)
Awkward(op, queue) ==
  LET pending == {queue[i] : i \in 1..Len(queue)}
  IN  {m \in {"insert inside a removal", "tangled move", "edit on pending rows"} :
         CASE m = "insert inside a removal" ->
                \E p \in pending : StrictlyInside(op, p) \/ StrictlyInside(p, op)
           [] m = "tangled move" -> \E p \in pending : Tangled(p, op)
           [] m = "edit on pending rows" ->
                \E i \in 1..(Len(queue) - 1) : Structural(queue[i])}

ApplyEntry(c) ==
  /\ tab[c].applied < Len(log)
  /\ LET op == log[tab[c].applied + 1].op
         t == tab[c]
         seen == TransformOps(Reconciled(op, t.queue), t.queue)
     IN  /\ tab' = [tab EXCEPT ![c] =
              [rows |-> PlayAll(t.rows, seen), applied |-> t.applied + 1,
               queue |-> IF Structural(op) THEN TransformQueued(t.queue, op) ELSE t.queue]]
         /\ mishaps' = mishaps \cup Awkward(op, t.queue)
  /\ UNCHANGED <<log, budget>>

RowsNext ==
  \E c \in Tabs :
    \/ \E op \in EditsOn(tab[c].rows, budget.edits) : Edit(c, op)
    \/ Submit(c)
    \/ ApplyEntry(c)

RowsSpec == RowsInit /\ [][RowsNext]_rvars

-----------------------------------------------------------------------------
OpsOf(entries) == [i \in 1..Len(entries) |-> entries[i].op]

(* The logged entries a tab has taken in, and then its pending edits as they will
   be logged. *)
Expected(c) ==
  PlayAll(FirstSheet, OpsOf(SubSeq(log, 1, tab[c].applied)) \o tab[c].queue)

(* T(incoming, pending) and T(pending, incoming) of applyEntry fit together: what a
   tab shows, having made its edits before it heard of the others', is what those
   see who take in the log, its pending edits at the end.  So tabs that took in
   everything and have nothing pending show the same rows.  The transforms do not
   cope with every pair of edits. *)
RowsFollowLogIfCoped ==
  mishaps = {} => \A c \in Tabs : SameRows(tab[c].rows, Expected(c))

=============================================================================
