----------------------------- MODULE Transform -----------------------------
(***************************************************************************)
(* Row operations seen through one another                                 *)
(* (packages/collab/src/transform.ts): how an operation is rewritten when  *)
(* another one, made without knowing of it, is ordered before it.          *)
(*                                                                         *)
(* Columns are treated as rows are, and operations on different axes or    *)
(* sheets leave each other alone, so only rows of one sheet are modelled.  *)
(* A write stands for the cells of one row.  Row numbers start at 0.       *)
(***************************************************************************)
EXTENDS SequencesExt, Integers

Gone == -1          \* null: the row was removed
NoSpan == <<>>      \* null: all of the span was

Structural(op) == op.kind # "write"

(* A move is valid if its ranges are equal or apart (parseMove). *)
ValidMove(source, target, count) ==
  source = target \/ source + count <= target \/ target + count <= source

-----------------------------------------------------------------------------
(* Where a row goes. *)
MapIndex(edit, i) ==
  IF edit.kind = "insert" THEN (IF i >= edit.start THEN i + edit.count ELSE i)
  ELSE IF i \in edit.start..(edit.start + edit.count - 1) THEN Gone
  ELSE IF i >= edit.start + edit.count THEN i - edit.count
  ELSE i

(* Where a span goes: it shifts, widens, loses an end, or vanishes. *)
MapSpan(edit, first, last) ==
  LET end == edit.start + edit.count - 1
  IN  IF edit.kind = "insert"
      THEN <<IF edit.start <= first THEN first + edit.count ELSE first,
             IF edit.start <= last THEN last + edit.count ELSE last>>
      ELSE IF edit.start > last THEN <<first, last>>
      ELSE IF edit.start <= first /\ end >= last THEN NoSpan
      ELSE IF end < first THEN <<first - edit.count, last - edit.count>>
      ELSE IF edit.start <= first THEN <<edit.start, last - edit.count>>
      ELSE IF end <= last THEN <<first, last - edit.count>>
      ELSE <<first, edit.start - 1>>

MapIndexThroughMove(move, i) ==
  IF i \in move.source..(move.source + move.count - 1)
  THEN move.target + i - move.source
  ELSE IF i \in move.target..(move.source - 1) THEN i + move.count
  ELSE IF i \in (move.source + move.count)..(move.target + move.count - 1)
  THEN i - move.count
  ELSE i

(* A span is cut where the move takes it apart; its pieces are mapped, and those
   that touch are joined again. *)
MapSpanThroughMove(move, first, last) ==
  LET cuts == {first, last + 1} \cup
        {cut \in {move.source, move.source + move.count,
                  move.target, move.target + move.count} : first < cut /\ cut <= last}
      After(cut) == Min({c \in cuts : c > cut})
      pieces == {<<MapIndexThroughMove(move, cut),
                   MapIndexThroughMove(move, After(cut) - 1)>> : cut \in cuts \ {last + 1}}
      Join(spans, span) ==
        IF spans # <<>> /\ span[1] <= Last(spans)[2] + 1
        THEN Append(Front(spans), <<Last(spans)[1], span[2]>>)
        ELSE Append(spans, span)
  IN  FoldLeft(Join, <<>>, SetToSortSeq(pieces, LAMBDA p, q : p[1] < q[1]))

-----------------------------------------------------------------------------
(* What becomes of an operation when another is ordered before it: the operations
   it turns into.  What can be mapped only in part stays as it is (the code calls
   the result lossy and warns once). *)
Size(span) == span[2] - span[1] + 1

Retarget(op, source, target) ==
  IF source = NoSpan \/ target = NoSpan THEN <<>>
  ELSE IF Size(source) # Size(target) THEN <<op>>
  ELSE <<[kind |-> "move", source |-> source[1], target |-> target[1],
          count |-> Size(source)]>>

(* remakeStruct *)
Remade(op, start, count) == [kind |-> op.kind, start |-> start, count |-> count]

(* transformOp: through an insertion or a removal.  An insertion where rows were
   removed lands at the cut. *)
ThroughStruct(op, edit) ==
  CASE op.kind = "write" ->
         IF MapIndex(edit, op.row) = Gone THEN <<>>
         ELSE <<[op EXCEPT !.row = MapIndex(edit, @)]>>
    [] op.kind = "insert" ->
         <<Remade(op, IF MapIndex(edit, op.start) = Gone THEN edit.start
                      ELSE MapIndex(edit, op.start), op.count)>>
    [] op.kind = "remove" ->
         LET span == MapSpan(edit, op.start, op.start + op.count - 1)
         IN  IF span = NoSpan THEN <<>> ELSE <<Remade(op, span[1], Size(span))>>
    [] op.kind = "move" ->
         Retarget(op, MapSpan(edit, op.source, op.source + op.count - 1),
                      MapSpan(edit, op.target, op.target + op.count - 1))

(* transformOpThroughMove: an insertion counts as the span it will fill; what the
   move takes apart stays as it is. *)
ThroughMove(op, move) ==
  LET Spans(first) == MapSpanThroughMove(move, first, first + op.count - 1)
      Whole(first) == Len(Spans(first)) = 1
      Start(first) == Spans(first)[1][1]
  IN  CASE op.kind = "write" -> <<[op EXCEPT !.row = MapIndexThroughMove(move, @)]>>
        [] op.kind \in {"insert", "remove"} ->
             <<IF Whole(op.start) THEN Remade(op, Start(op.start), op.count) ELSE op>>
        [] op.kind = "move" ->
             <<IF Whole(op.source) /\ Whole(op.target)
               THEN [op EXCEPT !.source = Start(@), !.target = Start(@)] ELSE op>>

(* Writes move nothing. *)
Through(op, by) ==
  IF by.kind \in {"insert", "remove"} THEN ThroughStruct(op, by)
  ELSE IF by.kind = "move" /\ ValidMove(by.source, by.target, by.count)
  THEN ThroughMove(op, by)
  ELSE <<op>>

(* transformOps: everything through each of the others in turn. *)
TransformOps(ops, against) ==
  FoldLeft(LAMBDA done, by :
             FlattenSeq([i \in 1..Len(done) |-> Through(done[i], by)]),
           ops, against)

(* An insertion strictly inside rows that are removed. *)
StrictlyInside(insert, removal) ==
  /\ insert.kind = "insert" /\ removal.kind = "remove"
  /\ removal.start < insert.start
  /\ insert.start < removal.start + removal.count

=============================================================================
